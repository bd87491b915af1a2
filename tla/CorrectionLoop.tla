--------------------------- MODULE CorrectionLoop ---------------------------
(***************************************************************************)
(* Approved journals are imported back and the close is run again.         *)
(*                                                                         *)
(* A case of a completed run whose ERP posting is missing or duplicated    *)
(* gets a journal; once that is approved and exported (ActionLoop), a      *)
(* client may ask for its correction: CorrectionService appends the        *)
(* journal to the ERP file of that run, imports everything as a new run,   *)
(* reconciles it and records a receipt.  These are four units of work and  *)
(* more; the request may end between any two of them.  Corrected runs have *)
(* cases, and those may be corrected in turn.                              *)
(***************************************************************************)
EXTENDS SettlementRules

CONSTANTS
  Workers,     \* the API workers; the deployment has one
  Batches,     \* what the first run, imported by hand, may hold
  DuplicateIds,\* the journals whose id says "duplicate"
  MaxRuns,     \* bound: corrected runs
  MaxExports,  \* bound: journals approved and exported
  MaxFailures, \* bound: requests that fail or stop half-way
  Faults       \* how they may, a subset of {"stop", "invalid", "kernel"}

\* A batch whose ERP journals are numbered: a corrected file has its own after them.
IsNumbered(b) == IsBatch(b) /\ DOMAIN b.erp \subseteq Nat

ASSUME CorrectionsAssumption ==
  /\ MaxRuns \in Nat /\ MaxExports \in Nat /\ MaxFailures \in Nat
  /\ Faults \subseteq {"stop", "invalid", "kernel"}
  /\ \A b \in Batches : IsNumbered(b)

VARIABLES
  runs,     \* run id -> its phase, events and decisions, and the action it corrects
  exported, \* exported journal action, a run and a reference -> its journal
  receipts, \* action -> the run its correction receipt names
  pc,       \* worker -> where it stands in the request it serves
  job,      \* worker -> the action and the run id of that request
  failures  \* how many requests have failed or stopped

records == <<runs, exported, receipts>>
vars == <<runs, exported, receipts, pc, job, failures>>

Source == 0
NoAction == [run |-> Source, ref |-> 0]
\* A run that is not completed shows none.
NoDecisions == [r \in {} |-> {}]

NoJob == [action |-> NoAction, new |-> Source]

RunIds == DOMAIN runs

-----------------------------------------------------------------------------
(***************************************************************************)
(* The journal of a case; v is what a completed run has, its events and    *)
(* the decisions on them.                                                  *)
(***************************************************************************)

\* The bank credits among the events of the case.
Credits(v, r) ==
  {x \in DOMAIN v.batch.bank : x \in v.decisions[r].bank /\ v.batch.bank[x].credit}

\* Slip: the clearing account is credited with the bank amount alone.
MissingPostingNetOnly(v, r, doc) ==
  LET g == v.batch.gateway[r]
      paid == AmountOf(v.batch, Credits(v, r))
  IN [doc |-> doc, ref |-> r, bank |-> paid, clearing |-> paid, fee |-> g.fee, tax |-> g.tax,
      other |-> g.fee - g.tax]

\* _missing_erp_journal, as _append_journal writes it.
MissingPosting(v, r, doc) ==
  LET g == v.batch.gateway[r]
      paid == AmountOf(v.batch, Credits(v, r))
  IN [doc |-> doc, ref |-> r, bank |-> paid, clearing |-> paid + g.fee + g.tax,
      fee |-> g.fee, tax |-> g.tax, other |-> 0]

\* _duplicate_reversal: the first id that says so, or else the last one.
DuplicateOf(b, r) ==
  LET named == Journals(b, r) \cap DuplicateIds IN
  IF named # {} THEN Min(named) ELSE Max(Journals(b, r))

\* Its lines with their sides swapped.  None of them is on the side the policy
\* gives its account, so they count among the others; while there are several
\* journals under a reference no check looks at the amounts.
Reversal(v, r, doc) ==
  [doc |-> doc, ref |-> r, bank |-> 0, clearing |-> 0, fee |-> 0, tax |-> 0,
   other |-> -Imbalance(v.batch.erp[DuplicateOf(v.batch, r)])]

\* Does propose() find a journal for the case, one that JournalProposal accepts?
HasJournal(v, r) ==
  \/ v.decisions[r].filed = "MISSING_ERP_POSTING" /\ Cardinality(Credits(v, r)) = 1
  \/ /\ v.decisions[r].filed = "DUPLICATE_ERP_POSTING"
     /\ Imbalance(v.batch.erp[DuplicateOf(v.batch, r)]) = 0

\* The journal of the action, under a new id, which sorts last.
JournalOf(v, r) ==
  LET doc == Max({j.doc : j \in {v.batch.erp[i] : i \in DOMAIN v.batch.erp}} \cup {0}) + 1 IN
  IF v.decisions[r].filed = "MISSING_ERP_POSTING"
    THEN MissingPosting(v, r, doc) ELSE Reversal(v, r, doc)

\* Slip: the journal takes the place of those posted under its reference.
CorrectedReplacing(b, journal) ==
  LET last == Max(DOMAIN b.erp \cup {0}) + 1 IN
  [b EXCEPT !.erp = [j \in (DOMAIN b.erp \ Journals(b, journal.ref)) \cup {last} |->
                       IF j = last THEN journal ELSE b.erp[j]]]

\* Slip: the reference of the appended lines is another one.
CorrectedElsewhere(b, journal) ==
  LET last == Max(DOMAIN b.erp \cup {0}) + 1 IN
  [b EXCEPT !.erp = [j \in DOMAIN b.erp \cup {last} |->
                       IF j = last THEN [journal EXCEPT !.ref = 2] ELSE b.erp[j]]]

\* The events of the corrected run: the files of the source run again, with the
\* journal appended to the ERP file.
Corrected(b, journal) ==
  LET last == Max(DOMAIN b.erp \cup {0}) + 1 IN
  [b EXCEPT !.erp = [j \in DOMAIN b.erp \cup {last} |-> IF j = last THEN journal ELSE b.erp[j]]]

-----------------------------------------------------------------------------
Init ==
  /\ \E b \in {c \in Batches : ~Raises(c)} :
       runs = [n \in {Source} |-> [phase |-> "COMPLETED", batch |-> b, corrects |-> NoAction,
                              decisions |-> DecisionsOf(b)]]
  /\ exported = [a \in {} |-> NoAction]
  /\ receipts = [a \in {} |-> Source]
  /\ pc = [w \in Workers |-> "idle"]
  /\ job = [w \in Workers |-> NoJob]
  /\ failures = 0

Stages == {"idle", "import", "reconcile", "kernel", "receipt"}

Goto(w, from, to) ==
  /\ pc[w] = from
  /\ pc' = [pc EXCEPT ![w] = to]

\* The request ends, with a result or an exception.
Finish(w) ==
  /\ pc' = [pc EXCEPT ![w] = "idle"]
  /\ job' = [job EXCEPT ![w] = NoJob]

\* The new run moves to phase.
Advance(w, phase) == runs' = [runs EXCEPT ![job[w].new].phase = phase]

(***************************************************************************)
(* The action of a case goes from proposal to export: ActionLoop.          *)
(***************************************************************************)
Export(n, r) ==
  LET a == [run |-> n, ref |-> r] IN
  /\ Cardinality(DOMAIN exported) < MaxExports
  /\ a \notin DOMAIN exported
  /\ runs[n].phase = "COMPLETED"
  /\ HasJournal(runs[n], r)
  /\ exported' = [c \in DOMAIN exported \cup {a} |->
                    IF c = a THEN JournalOf(runs[n], r) ELSE exported[c]]
  /\ UNCHANGED <<runs, receipts, pc, job, failures>>

(***************************************************************************)
(* CorrectionService.apply_approved_journal.  The client picks the id of   *)
(* the new run, which may be taken; ids are numbered as they appear.       *)
(***************************************************************************)
\* Slip: an action that is approved and not exported yet may be applied.
RequestUnexported(w, a, new) ==
  /\ Goto(w, "idle", "import")
  /\ a \notin DOMAIN receipts
  /\ job' = [job EXCEPT ![w] = [action |-> a, new |-> new]]
  /\ UNCHANGED <<records, failures>>

\* Slip: a correction that was started is not started again.
RequestUnlessStarted(w, a, new) ==
  /\ Goto(w, "idle", "import")
  /\ a \in DOMAIN exported /\ \A n \in RunIds : runs[n].corrects # a
  /\ job' = [job EXCEPT ![w] = [action |-> a, new |-> new]]
  /\ UNCHANGED <<records, failures>>

\* An action that is not exported is refused.  When the receipt of the idempotency
\* key is there, which is a digest of the action and the corrected file, its result
\* is returned again: nothing changes.
Request(w, a, new) ==
  /\ Goto(w, "idle", "import")
  /\ a \in DOMAIN exported /\ a \notin DOMAIN receipts
  /\ job' = [job EXCEPT ![w] = [action |-> a, new |-> new]]
  /\ UNCHANGED <<records, failures>>

\* import_batch, as RunPromise describes it.
ImportRun(w, phase) ==
  LET a == job[w].action
      n == job[w].new
  IN
  /\ pc[w] = "import"
  /\ n \notin RunIds
  /\ runs' = [m \in RunIds \cup {n} |->
                IF m = n THEN [phase |-> phase, batch |-> Corrected(runs[a.run].batch, exported[a]),
                               corrects |-> a, decisions |-> NoDecisions]
                ELSE runs[m]]

\* Slip: the receipt is recorded before the run is reconciled.
ImportWithReceipt(w) ==
  /\ ImportRun(w, "VALIDATED")
  /\ receipts' = [a \in DOMAIN receipts \cup {job[w].action} |->
                    IF a = job[w].action THEN job[w].new ELSE receipts[a]]
  /\ Goto(w, "import", "reconcile")
  /\ UNCHANGED <<exported, job, failures>>

\* Slip: a run id that is taken is imported over.
ImportOver(w) ==
  LET a == job[w].action IN
  /\ Goto(w, "import", "reconcile")
  /\ runs' = [m \in RunIds \cup {job[w].new} |->
                IF m = job[w].new
                  THEN [phase |-> "VALIDATED", batch |-> Corrected(runs[a.run].batch, exported[a]),
                        corrects |-> a, decisions |-> NoDecisions]
                ELSE runs[m]]
  /\ UNCHANGED <<exported, receipts, job, failures>>

Import(w) ==
  /\ ImportRun(w, "VALIDATED")
  /\ Goto(w, "import", "reconcile")
  /\ UNCHANGED <<exported, receipts, job, failures>>

\* "corrected ERP import failed validation", because a limit is exceeded.
ImportInvalid(w) ==
  /\ "invalid" \in Faults /\ failures < MaxFailures
  /\ ImportRun(w, "FAILED_VALIDATION")
  /\ failures' = failures + 1
  /\ Finish(w)
  /\ UNCHANGED <<exported, receipts>>

\* The run id is taken.
RefuseImport(w) ==
  /\ pc[w] = "import"
  /\ job[w].new \in RunIds
  /\ Finish(w)
  /\ UNCHANGED <<records, failures>>

Start(w) ==
  /\ Goto(w, "reconcile", "kernel")
  /\ Advance(w, "RECONCILING")
  /\ UNCHANGED <<exported, receipts, job, failures>>

Complete(w) ==
  /\ Goto(w, "kernel", "receipt")
  /\ ~Raises(runs[job[w].new].batch)
  /\ runs' = [runs EXCEPT ![job[w].new].phase = "COMPLETED",
                          ![job[w].new].decisions = DecisionsOf(runs[job[w].new].batch)]
  /\ UNCHANGED <<exported, receipts, job, failures>>

\* The kernel refuses a decision, or the commit of its results raises, and the
\* run is marked.
Fail(w) ==
  /\ pc[w] = "kernel"
  /\ \/ Raises(runs[job[w].new].batch) /\ failures' = failures
     \/ "kernel" \in Faults /\ failures < MaxFailures /\ failures' = failures + 1
  /\ Advance(w, "FAILED")
  /\ Finish(w)
  /\ UNCHANGED <<exported, receipts>>

\* Slip: a second receipt replaces the first.
CommitReceiptReplacing(w) ==
  /\ pc[w] = "receipt"
  /\ receipts' = [a \in DOMAIN receipts \cup {job[w].action} |->
                    IF a = job[w].action THEN job[w].new ELSE receipts[a]]
  /\ Finish(w)
  /\ UNCHANGED <<runs, exported, failures>>

\* The receipt and its audit event, in one unit of work.
CommitReceipt(w) ==
  /\ pc[w] = "receipt"
  /\ job[w].action \notin DOMAIN receipts
  /\ receipts' = [a \in DOMAIN receipts \cup {job[w].action} |->
                    IF a = job[w].action THEN job[w].new ELSE receipts[a]]
  /\ Finish(w)
  /\ UNCHANGED <<runs, exported, failures>>

\* UNIQUE (run_id, idempotency_key): another worker was first.
RefuseReceipt(w) ==
  /\ pc[w] = "receipt"
  /\ job[w].action \in DOMAIN receipts
  /\ Finish(w)
  /\ UNCHANGED <<records, failures>>

\* The process dies or a unit of work raises.
Stop(w) ==
  /\ "stop" \in Faults /\ failures < MaxFailures
  /\ pc[w] # "idle"
  /\ failures' = failures + 1
  /\ Finish(w)
  /\ UNCHANGED records

-----------------------------------------------------------------------------
\* The id a client gives.  Two workers may be given the same one.
Fresh == Cardinality(RunIds)

Ids == {Fresh} \cap 0..MaxRuns

Progress(w) ==
  \/ Import(w) \/ ImportInvalid(w) \/ RefuseImport(w)
  \/ Start(w) \/ Complete(w) \/ Fail(w)
  \/ CommitReceipt(w) \/ RefuseReceipt(w)

Next ==
  \/ \E n \in RunIds : \E r \in DOMAIN runs[n].batch.gateway : Export(n, r)
  \/ \E w \in Workers :
       \/ \E n \in RunIds : \E r \in DOMAIN runs[n].batch.gateway, new \in Ids :
            Request(w, [run |-> n, ref |-> r], new)
       \/ Progress(w)
       \/ Stop(w)

Spec == Init /\ [][Next]_vars

\* Clients go on asking for corrections that have no receipt, under fresh ids.
Retry ==
  \E w \in Workers, a \in DOMAIN exported : Fresh \in Ids /\ Request(w, a, Fresh)

\* A request that is served does not stay where it is.
Moves(w) ==
  /\ pc[w] # "idle"
  /\ pc' \in {[pc EXCEPT ![w] = stage] : stage \in Stages \ {pc[w]}}

RetrySpec ==
  /\ Spec
  /\ \A w \in Workers : WF_pc(Moves(w))
  /\ SF_vars(Retry)

-----------------------------------------------------------------------------
(***************************************************************************)
(* Properties.                                                             *)
(***************************************************************************)
Corrections == RunIds \ {Source}

Phases == {"VALIDATED", "FAILED_VALIDATION", "RECONCILING", "COMPLETED", "FAILED"}

\* Types: runs, receipts, stages and locals have the shapes the code gives them.
TypeOK ==
  /\ RunIds \subseteq 0..MaxRuns /\ Source \in RunIds
  /\ \A n \in RunIds :
       DOMAIN runs[n] = {"phase", "batch", "corrects", "decisions"} /\ runs[n].phase \in Phases
  /\ DOMAIN exported \subseteq [run : RunIds, ref : DOMAIN runs[Source].batch.gateway]
  /\ receipts \in [DOMAIN receipts -> RunIds]
  /\ pc \in [Workers -> Stages]
  /\ \A w \in Workers :
       job[w] # NoJob => job[w].action \in DOMAIN exported /\ job[w].new \in 0..MaxRuns
  /\ failures \in 0..MaxFailures

\* The record of approvals explains the ledger: a corrected run exists only for an
\* exported journal of a completed run, and holds that run's events and one
\* balanced journal more, under the reference of the case; nothing else differs.
LedgerIsExplained ==
  \A n \in Corrections :
    LET a == runs[n].corrects
        old == runs[a.run].batch
        new == runs[n].batch
        added == DOMAIN new.erp \ DOMAIN old.erp
    IN
    /\ a \in DOMAIN exported /\ runs[a.run].phase = "COMPLETED"
    /\ [new EXCEPT !.erp = old.erp] = old
    /\ \A j \in DOMAIN old.erp : j \in DOMAIN new.erp /\ new.erp[j] = old.erp[j]
    /\ \E j \in added : added = {j} /\ new.erp[j].ref = a.ref /\ Imbalance(new.erp[j]) = 0

\* A correction receipt names a run of that very action which has completed:
\* whatever request stopped, and whoever raced, the result it promises is there.
ReceiptsNameResults ==
  \A a \in DOMAIN receipts :
    LET n == receipts[a] IN
    n \in Corrections /\ runs[n].corrects = a /\ runs[n].phase = "COMPLETED"

Completed == {n \in Corrections : runs[n].phase = "COMPLETED"}

\* The decision that the source run of correction n has on settlement r.
Earlier(n, r) == runs[runs[n].corrects.run].decisions[r]

\* Kernel and correction together: a correction changes the decision on its own
\* settlement only.
CorrectionsAreLocal ==
  \A n \in Completed :
    \A r \in DOMAIN runs[n].decisions \ {runs[n].corrects.ref} :
      runs[n].decisions[r] = Earlier(n, r)

\* The checks that are not about the ERP.
ReceiptChecks ==
  {"GATEWAY_SETTLEMENT_UNIQUE", "SETTLEMENT_COMPONENT_INVARIANT", "BANK_RECEIPT_PRESENT",
   "BANK_RECEIPT_AMOUNT", "BANK_RECEIPT_DIRECTION", "BANK_RECEIPT_REFERENCE",
   "BANK_RECEIPT_DATE", "BANK_RECEIPT_UNIQUE"}

(***************************************************************************)
(* A missing posting, once posted, is proved if and only if nothing else   *)
(* was wrong with its settlement and the policy requires no check that     *)
(* there is not: the journal _missing_erp_journal builds from the bank row *)
(* and the fees is the one analyze_settlement expects from the gateway.  A *)
(* reversal is one more journal under the reference: a duplicate posting   *)
(* that is corrected is a duplicate posting again, never a cleared         *)
(* settlement.                                                             *)
(***************************************************************************)
CorrectionsSettleTheirCause ==
  \A n \in Completed :
    LET r == runs[n].corrects.ref IN
    /\ Earlier(n, r).filed = "MISSING_ERP_POSTING" =>
         (runs[n].decisions[r].level = "PROVED" <=>
            ReceiptChecks \subseteq Earlier(n, r).passed /\ runs[n].batch.required \subseteq Checks)
    /\ Earlier(n, r).filed = "DUPLICATE_ERP_POSTING" => runs[n].decisions[r] = Earlier(n, r)

\* An answer given is given again: a receipt never names another run later.
AnswersStay ==
  [][\A a \in DOMAIN receipts : a \in DOMAIN receipts' /\ receipts'[a] = receipts[a]]_records

\* A corrected run is a run like any other: it does what RunPromise describes,
\* with the action it corrects for its input.
Actions == [run : 0..MaxRuns, ref : UNION {DOMAIN b.gateway : b \in Batches}]

Input(n) == IF n \in RunIds THEN {runs[n].corrects} ELSE {}

Phase(n) == IF n \in RunIds THEN runs[n].phase ELSE "ABSENT"

Promise == INSTANCE RunPromise WITH
  RunIds <- 1..MaxRuns,
  DocumentSets <- {{a} : a \in Actions},
  phase <- [n \in 1..MaxRuns |-> Phase(n)],
  input <- [n \in 1..MaxRuns |-> Input(n)],
  published <- [n \in 1..MaxRuns |-> IF Phase(n) = "COMPLETED" THEN {Input(n)} ELSE {}]

ImplementsPromise == Promise!Spec

\* Every exported journal has its correction in the end, if clients go on asking
\* and failures are not for ever, unless the kernel refuses the corrected close.
ExportedIsCorrected ==
  []<>(\A a \in DOMAIN exported :
         a \in DOMAIN receipts \/ Raises(Corrected(runs[a.run].batch, exported[a])))
=============================================================================
