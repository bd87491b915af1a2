------------------------ MODULE CorrectionLoopProofs ------------------------
(***************************************************************************)
(* Theorems about CorrectionLoop, for every number of API workers, all     *)
(* batches and every combination of faults.                                *)
(*                                                                         *)
(* A worker takes several units of work to import, reconcile and receipt a *)
(* correction and reads nothing again in between.  What it relies on is    *)
(* Jobs and OwnRuns below: the run it has imported is its own, and stands  *)
(* where it left it.  The second half of the module is about what the runs *)
(* hold: Ledger says where each of them comes from, however many           *)
(* corrections, failures and retries came before, and with the lemmas      *)
(* about the kernel in SettlementRulesProofs it says what a correction     *)
(* does and does not change.                                               *)
(***************************************************************************)
EXTENDS CorrectionLoop, SettlementRulesProofs

\* A worker that has imported its run, and where that run stands then.
Live(w) == pc[w] \in {"reconcile", "kernel", "receipt"}

Reached(stage) ==
  CASE stage = "reconcile" -> "VALIDATED"
    [] stage = "kernel" -> "RECONCILING"
    [] stage = "receipt" -> "COMPLETED"

\* Runs keep the gateway rows of the first one.
Gateways ==
  \E b \in Batches : \A n \in RunIds :
    /\ DOMAIN runs[n].batch = {"gateway", "bank", "erp", "required"}
    /\ runs[n].batch.gateway = b.gateway

\* Corrected runs name an exported action.
Causes == \A n \in Corrections : runs[n].corrects \in DOMAIN exported

Jobs ==
  /\ DOMAIN job = Workers
  /\ \A w \in Workers : pc[w] # "idle" =>
       job[w].action \in DOMAIN exported /\ job[w].new \in 0..MaxRuns
  /\ \A w \in Workers : Live(w) =>
       /\ job[w].new \in Corrections
       /\ runs[job[w].new].corrects = job[w].action
       /\ runs[job[w].new].phase = Reached(pc[w])

\* No two workers are at work on one run.
OwnRuns ==
  \A w, v \in Workers : Live(w) /\ Live(v) /\ job[w].new = job[v].new => w = v

IInv == TypeOK /\ Gateways /\ Causes /\ Jobs /\ OwnRuns /\ ReceiptsNameResults

-----------------------------------------------------------------------------
(***************************************************************************)
(* The initial states.                                                     *)
(***************************************************************************)
LEMMA InitHolds == Init => IInv
<1>1. SUFFICES ASSUME Init PROVE IInv
  OBVIOUS
<1>2. PICK b \in Batches :
        runs = [n \in {Source} |-> [phase |-> "COMPLETED", batch |-> b, corrects |-> NoAction,
                                    decisions |-> DecisionsOf(b)]]
  BY <1>1 DEF Init
<1>3. RunIds = {0} /\ Corrections = {} /\ DOMAIN exported = {} /\ DOMAIN receipts = {}
  BY <1>1, <1>2 DEF Init, RunIds, Corrections, Source
<1>4. runs[0] = [phase |-> "COMPLETED", batch |-> b, corrects |-> NoAction,
                 decisions |-> DecisionsOf(b)]
  BY <1>2 DEF Source
<1>5. \A w \in Workers : pc[w] = "idle" /\ job[w] = NoJob
  BY <1>1 DEF Init
<1>6. TypeOK
  <2>1. receipts \in [DOMAIN receipts -> RunIds] /\ pc \in [Workers -> Stages] /\ failures = 0
    BY <1>1, <1>3 DEF Init, Stages
  <2>2. QED
    BY <1>3, <1>4, <1>5, <2>1, CorrectionsAssumption DEF TypeOK, Phases, Source
<1>7. Gateways
  <2>1. DOMAIN b = {"gateway", "bank", "erp", "required"}
    BY CorrectionsAssumption DEF IsNumbered, IsBatch
  <2>2. \A n \in RunIds : runs[n].batch = b
    BY <1>3, <1>4
  <2>3. QED
    BY <2>1, <2>2 DEF Gateways
<1>8. Jobs /\ OwnRuns
  BY <1>1, <1>5 DEF Init, Jobs, OwnRuns, Live
<1>9. QED
  BY <1>3, <1>6, <1>7, <1>8 DEF IInv, Causes, ReceiptsNameResults

-----------------------------------------------------------------------------
(***************************************************************************)
(* Steps that leave the runs alone.  They all move one worker and may add  *)
(* to the exported journals and the receipts.                              *)
(***************************************************************************)

\* The other workers stay where they are.
Alone(w) ==
  /\ DOMAIN job' = Workers
  /\ \A v \in Workers \ {w} : pc'[v] = pc[v] /\ job'[v] = job[v]

\* A worker that finishes is idle and has no job; the others stay.
LEMMA FinishLemma ==
  ASSUME IInv, NEW w \in Workers, Finish(w)
  PROVE  /\ Alone(w) /\ pc' \in [Workers -> Stages]
         /\ pc'[w] = "idle" /\ job'[w] = NoJob
  BY DEF IInv, TypeOK, Jobs, Finish, Alone, Stages

\* A worker that goes on keeps its job.
LEMMA GotoLemma ==
  ASSUME IInv, NEW w \in Workers, NEW from, NEW to \in Stages, Goto(w, from, to), job' = job
  PROVE  /\ Alone(w) /\ pc' \in [Workers -> Stages]
         /\ pc[w] = from /\ pc'[w] = to
  BY DEF IInv, TypeOK, Jobs, Goto, Alone

\* While runs, exports and receipts stay, IInv survives the end of a request.
LEMMA FinishingKeepsIInv ==
  ASSUME IInv, NEW w \in Workers, Finish(w), UNCHANGED records, failures' \in 0..MaxFailures
  PROVE  IInv'
<1>1. /\ Alone(w) /\ pc' \in [Workers -> Stages]
      /\ pc'[w] = "idle" /\ job'[w] = NoJob
  BY FinishLemma
<1>2. /\ runs' = runs /\ exported' = exported /\ receipts' = receipts
      /\ RunIds' = RunIds /\ Corrections' = Corrections
  BY DEF records, RunIds, Corrections
<1>3. TypeOK'
  BY <1>1, <1>2 DEF IInv, TypeOK, Alone
<1>4. Jobs'
  BY <1>1, <1>2 DEF IInv, Jobs, Alone, Live
<1>5. OwnRuns'
  BY <1>1, <1>2 DEF IInv, OwnRuns, Alone, Live
<1>6. Gateways' /\ Causes' /\ ReceiptsNameResults'
  BY <1>2 DEF IInv, Gateways, Causes, ReceiptsNameResults
<1>7. QED
  BY <1>3, <1>4, <1>5, <1>6 DEF IInv

LEMMA RequestKeepsIInv ==
  ASSUME IInv, NEW w \in Workers, NEW a, NEW new \in Ids, Request(w, a, new)
  PROVE  IInv'
<1>1. /\ runs' = runs /\ exported' = exported /\ receipts' = receipts /\ failures' = failures
      /\ RunIds' = RunIds /\ Corrections' = Corrections
  BY DEF Request, records, RunIds, Corrections
<1>2. /\ a \in DOMAIN exported /\ new \in 0..MaxRuns
      /\ DOMAIN job' = Workers
      /\ job'[w] = [action |-> a, new |-> new] /\ pc'[w] = "import"
      /\ \A v \in Workers \ {w} : pc'[v] = pc[v] /\ job'[v] = job[v]
      /\ pc' \in [Workers -> Stages]
  BY DEF Request, Goto, IInv, TypeOK, Jobs, Ids, Stages
<1>3. TypeOK'
  BY <1>1, <1>2 DEF IInv, TypeOK
<1>4. Jobs'
  BY <1>1, <1>2 DEF IInv, Jobs, Live
<1>5. OwnRuns'
  BY <1>1, <1>2 DEF IInv, OwnRuns, Live
<1>6. Gateways' /\ Causes' /\ ReceiptsNameResults'
  BY <1>1 DEF IInv, Gateways, Causes, ReceiptsNameResults
<1>7. QED
  BY <1>3, <1>4, <1>5, <1>6 DEF IInv

LEMMA ExportKeepsIInv ==
  ASSUME IInv, NEW n \in RunIds, NEW r \in DOMAIN runs[n].batch.gateway, Export(n, r)
  PROVE  IInv'
<1> DEFINE a == [run |-> n, ref |-> r]
<1>1. /\ runs' = runs /\ receipts' = receipts /\ failures' = failures /\ pc' = pc /\ job' = job
      /\ RunIds' = RunIds /\ Corrections' = Corrections
      /\ DOMAIN exported' = DOMAIN exported \cup {a}
  BY DEF Export, RunIds, Corrections
<1>2. r \in DOMAIN runs[Source].batch.gateway
  BY DEF IInv, Gateways, TypeOK
<1>3. TypeOK'
  <2>1. a \in [run : RunIds, ref : DOMAIN runs[Source].batch.gateway]
    BY <1>2
  <2>2. DOMAIN exported' \subseteq [run : RunIds, ref : DOMAIN runs[Source].batch.gateway]
    BY <1>1, <2>1 DEF IInv, TypeOK
  <2>3. QED
    BY <1>1, <2>2 DEF IInv, TypeOK
<1>4. Jobs' /\ OwnRuns'
  BY <1>1 DEF IInv, Jobs, OwnRuns, Live
<1>5. Gateways' /\ Causes' /\ ReceiptsNameResults'
  BY <1>1 DEF IInv, Gateways, Causes, ReceiptsNameResults
<1>6. QED
  BY <1>3, <1>4, <1>5 DEF IInv

LEMMA CommitReceiptKeepsIInv ==
  ASSUME IInv, NEW w \in Workers, CommitReceipt(w)
  PROVE  IInv'
<1>1. /\ Alone(w) /\ pc' \in [Workers -> Stages]
      /\ pc'[w] = "idle" /\ job'[w] = NoJob
  BY FinishLemma DEF CommitReceipt
<1>2. /\ runs' = runs /\ exported' = exported /\ failures' = failures
      /\ RunIds' = RunIds /\ Corrections' = Corrections
  BY DEF CommitReceipt, RunIds, Corrections
<1>3. /\ job[w].new \in Corrections
      /\ runs[job[w].new].corrects = job[w].action
      /\ runs[job[w].new].phase = "COMPLETED"
  BY DEF CommitReceipt, IInv, Jobs, Live, Reached
<1>4. /\ DOMAIN receipts' = DOMAIN receipts \cup {job[w].action}
      /\ \A a \in DOMAIN receipts' :
           receipts'[a] = IF a = job[w].action THEN job[w].new ELSE receipts[a]
      /\ receipts' = [a \in DOMAIN receipts' |-> receipts'[a]]
  BY DEF CommitReceipt
<1>5. ReceiptsNameResults'
  BY <1>2, <1>3, <1>4 DEF IInv, ReceiptsNameResults
<1>6. TypeOK'
  <2>1. receipts' \in [DOMAIN receipts' -> RunIds]
    BY <1>3, <1>4 DEF IInv, TypeOK, Corrections
  <2>2. QED
    BY <1>1, <1>2, <2>1 DEF IInv, TypeOK, Alone
<1>7. Jobs'
  BY <1>1, <1>2 DEF IInv, Jobs, Alone, Live
<1>8. OwnRuns'
  BY <1>1, <1>2 DEF IInv, OwnRuns, Alone, Live
<1>9. Gateways' /\ Causes'
  BY <1>2 DEF IInv, Gateways, Causes
<1>10. QED
  BY <1>5, <1>6, <1>7, <1>8, <1>9 DEF IInv

-----------------------------------------------------------------------------
(***************************************************************************)
(* Steps that add a run or move one on.                                    *)
(***************************************************************************)

\* What an import does to the table of runs.
LEMMA ImportRunLemma ==
  ASSUME IInv, NEW w \in Workers, NEW phase \in Phases, ImportRun(w, phase)
  PROVE  LET n == job[w].new
             a == job[w].action
         IN /\ n \in 0..MaxRuns /\ n \notin RunIds /\ n # Source /\ a \in DOMAIN exported
            /\ RunIds' = RunIds \cup {n} /\ Corrections' = Corrections \cup {n}
            /\ \A m \in RunIds : runs'[m] = runs[m]
            /\ runs'[n] = [phase |-> phase, batch |-> Corrected(runs[a.run].batch, exported[a]),
                           corrects |-> a, decisions |-> NoDecisions]
<1>1. /\ job[w].new \in 0..MaxRuns /\ job[w].action \in DOMAIN exported
      /\ job[w].new \notin RunIds /\ Source \in RunIds
  BY DEF ImportRun, IInv, Jobs, TypeOK
<1>2. QED
  BY <1>1 DEF ImportRun, RunIds, Corrections

\* The tables after an import: all that IInv says of them, and of the workers that
\* were already past their own import.
LEMMA ImportTables ==
  ASSUME IInv, NEW w \in Workers, NEW phase \in Phases, ImportRun(w, phase),
         exported' = exported, receipts' = receipts
  PROVE  /\ RunIds' \subseteq 0..MaxRuns /\ Source \in RunIds'
         /\ \A n \in RunIds' :
              DOMAIN runs'[n] = {"phase", "batch", "corrects", "decisions"}
              /\ runs'[n].phase \in Phases
         /\ DOMAIN exported' \subseteq [run : RunIds', ref : DOMAIN runs'[Source].batch.gateway]
         /\ receipts' \in [DOMAIN receipts' -> RunIds']
         /\ Gateways' /\ Causes' /\ ReceiptsNameResults'
<1> DEFINE n == job[w].new
           a == job[w].action
           batch == Corrected(runs[a.run].batch, exported[a])
<1>1. /\ n \in 0..MaxRuns /\ n \notin RunIds /\ n # Source /\ a \in DOMAIN exported
      /\ RunIds' = RunIds \cup {n} /\ Corrections' = Corrections \cup {n}
      /\ \A m \in RunIds : runs'[m] = runs[m]
      /\ runs'[n] = [phase |-> phase, batch |-> batch, corrects |-> a,
                     decisions |-> NoDecisions]
  BY ImportRunLemma
<1>2. PICK b \in Batches : \A m \in RunIds :
        /\ DOMAIN runs[m].batch = {"gateway", "bank", "erp", "required"}
        /\ runs[m].batch.gateway = b.gateway
  BY DEF IInv, Gateways
<1>3. DOMAIN batch = {"gateway", "bank", "erp", "required"} /\ batch.gateway = b.gateway
  <2>1. a.run \in RunIds
    BY <1>1 DEF IInv, TypeOK
  <2>2. QED
    BY <1>2, <2>1 DEF Corrected
<1>4. Gateways'
  BY <1>1, <1>2, <1>3 DEF Gateways
<1>5. Causes'
  BY <1>1 DEF IInv, Causes, Corrections
<1>6. ReceiptsNameResults'
  BY <1>1 DEF IInv, ReceiptsNameResults, Corrections
<1>7. /\ RunIds' \subseteq 0..MaxRuns /\ Source \in RunIds'
      /\ \A m \in RunIds' :
           DOMAIN runs'[m] = {"phase", "batch", "corrects", "decisions"}
           /\ runs'[m].phase \in Phases
  BY <1>1 DEF IInv, TypeOK
<1>8. DOMAIN exported' \subseteq [run : RunIds', ref : DOMAIN runs'[Source].batch.gateway]
  <2>1. runs'[Source] = runs[Source] /\ RunIds \subseteq RunIds'
    BY <1>1 DEF IInv, TypeOK
  <2>2. DOMAIN exported \subseteq [run : RunIds, ref : DOMAIN runs[Source].batch.gateway]
    BY DEF IInv, TypeOK
  <2>3. QED
    BY <2>1, <2>2
<1>9. receipts' \in [DOMAIN receipts' -> RunIds']
  BY <1>1 DEF IInv, TypeOK
<1>10. QED
  BY <1>4, <1>5, <1>6, <1>7, <1>8, <1>9

LEMMA ImportKeepsIInv ==
  ASSUME IInv, NEW w \in Workers, Import(w)
  PROVE  IInv'
<1>1. ImportRun(w, "VALIDATED") /\ "VALIDATED" \in Phases
  BY DEF Import, Phases
<1>2. /\ Alone(w) /\ pc' \in [Workers -> Stages] /\ job' = job
      /\ pc[w] = "import" /\ pc'[w] = "reconcile"
      /\ exported' = exported /\ receipts' = receipts /\ failures' = failures
  BY GotoLemma DEF Import, Stages
<1>3. TypeOK' /\ Gateways' /\ Causes' /\ ReceiptsNameResults'
  BY <1>1, <1>2, ImportTables DEF IInv, TypeOK
<1>4. /\ job[w].new \notin RunIds /\ job[w].action \in DOMAIN exported
      /\ job[w].new \in Corrections' /\ Corrections \subseteq Corrections'
      /\ \A m \in RunIds : runs'[m] = runs[m]
      /\ runs'[job[w].new].phase = "VALIDATED"
      /\ runs'[job[w].new].corrects = job[w].action
  <2> DEFINE n == job[w].new
             a == job[w].action
  <2>1. /\ n \notin RunIds /\ a \in DOMAIN exported
        /\ Corrections' = Corrections \cup {n}
        /\ \A m \in RunIds : runs'[m] = runs[m]
        /\ runs'[n] = [phase |-> "VALIDATED",
                       batch |-> Corrected(runs[a.run].batch, exported[a]),
                       corrects |-> a, decisions |-> NoDecisions]
    BY <1>1, ImportRunLemma
  <2>2. QED
    BY <2>1
<1>5. Jobs'
  BY <1>2, <1>4 DEF IInv, Jobs, Alone, Live, Reached, Corrections
<1>6. OwnRuns'
  BY <1>2, <1>4 DEF IInv, OwnRuns, Jobs, Alone, Live, Corrections
<1>7. QED
  BY <1>3, <1>5, <1>6 DEF IInv

LEMMA ImportInvalidKeepsIInv ==
  ASSUME IInv, NEW w \in Workers, ImportInvalid(w)
  PROVE  IInv'
<1>1. ImportRun(w, "FAILED_VALIDATION") /\ "FAILED_VALIDATION" \in Phases
  BY DEF ImportInvalid, Phases
<1>2. /\ Alone(w) /\ pc' \in [Workers -> Stages]
      /\ pc'[w] = "idle" /\ job'[w] = NoJob
      /\ exported' = exported /\ receipts' = receipts
  BY FinishLemma DEF ImportInvalid
<1>3. failures' \in 0..MaxFailures
  BY CorrectionsAssumption DEF ImportInvalid, IInv, TypeOK
<1>4. /\ job[w].new \notin RunIds /\ job[w].new \in 0..MaxRuns
      /\ Corrections \subseteq Corrections'
      /\ \A m \in RunIds : runs'[m] = runs[m]
  BY <1>1, ImportRunLemma
<1>5. TypeOK' /\ Gateways' /\ Causes' /\ ReceiptsNameResults'
  BY <1>1, <1>2, <1>3, ImportTables DEF IInv, TypeOK, Alone
<1>6. Jobs'
  BY <1>2, <1>4 DEF IInv, Jobs, Alone, Live, Corrections
<1>7. OwnRuns'
  BY <1>2 DEF IInv, OwnRuns, Alone, Live
<1>8. QED
  BY <1>5, <1>6, <1>7 DEF IInv

\* A worker that moves its own run on, by phase and perhaps decisions, disturbs
\* neither the tables nor the runs of other workers.
Moved(w, phase) ==
  LET n == job[w].new IN
  /\ RunIds' = RunIds
  /\ \A m \in RunIds \ {n} : runs'[m] = runs[m]
  /\ DOMAIN runs'[n] = DOMAIN runs[n]
  /\ runs'[n].phase = phase
  /\ runs'[n].batch = runs[n].batch /\ runs'[n].corrects = runs[n].corrects

LEMMA AdvanceLemma ==
  ASSUME IInv, NEW w \in Workers, Live(w), NEW phase, Advance(w, phase)
  PROVE  Moved(w, phase)
<1>1. /\ job[w].new \in RunIds
      /\ DOMAIN runs[job[w].new] = {"phase", "batch", "corrects", "decisions"}
  BY DEF IInv, Jobs, TypeOK, Corrections
<1>2. QED
  BY <1>1 DEF Advance, Moved, RunIds

LEMMA CompleteLemma ==
  ASSUME IInv, NEW w \in Workers, Complete(w)
  PROVE  Moved(w, "COMPLETED")
<1>1. /\ job[w].new \in RunIds
      /\ DOMAIN runs[job[w].new] = {"phase", "batch", "corrects", "decisions"}
  BY DEF Complete, Goto, IInv, Jobs, TypeOK, Corrections, Live
<1>2. QED
  BY <1>1 DEF Complete, Moved, RunIds

LEMMA MovedTables ==
  ASSUME IInv, NEW w \in Workers, pc[w] \in {"reconcile", "kernel"},
         NEW phase \in Phases, Moved(w, phase),
         exported' = exported, receipts' = receipts,
         pc' \in [Workers -> Stages], Alone(w),
         failures' \in 0..MaxFailures,
         \/ pc'[w] = "idle" /\ job'[w] = NoJob
         \/ Live(w)' /\ job'[w] = job[w] /\ phase = Reached(pc'[w])
  PROVE  IInv'
<1> DEFINE n == job[w].new
<1>1. /\ n \in Corrections /\ runs[n].phase # "COMPLETED"
      /\ RunIds' = RunIds /\ Corrections' = Corrections
  BY DEF IInv, Jobs, Live, Reached, Moved, Corrections
<1>2. /\ \A m \in RunIds \ {n} : runs'[m] = runs[m]
      /\ DOMAIN runs'[n] = DOMAIN runs[n] /\ runs'[n].phase = phase
      /\ runs'[n].batch = runs[n].batch /\ runs'[n].corrects = runs[n].corrects
  BY DEF Moved
<1>3. Gateways'
  BY <1>1, <1>2 DEF IInv, Gateways
<1>4. Causes'
  BY <1>1, <1>2 DEF IInv, Causes, Corrections
<1>5. ReceiptsNameResults'
  BY <1>1, <1>2 DEF IInv, ReceiptsNameResults, Corrections
<1>6. TypeOK'
  <2>1. \A m \in RunIds' :
          DOMAIN runs'[m] = {"phase", "batch", "corrects", "decisions"} /\ runs'[m].phase \in Phases
    BY <1>1, <1>2 DEF IInv, TypeOK, Corrections
  <2>2. runs'[Source] = runs[Source]
    BY <1>1, <1>2 DEF IInv, TypeOK, Corrections
  <2>3. \A v \in Workers :
          job'[v] # NoJob => job'[v].action \in DOMAIN exported /\ job'[v].new \in 0..MaxRuns
    BY DEF IInv, TypeOK, Jobs, Alone
  <2>4. QED
    BY <1>1, <2>1, <2>2, <2>3 DEF IInv, TypeOK
<1>7. \A v \in Workers \ {w} : Live(v) => job[v].new # n
  BY DEF IInv, OwnRuns, Live
<1>8. Jobs'
  <2>1. \A v \in Workers : pc'[v] # "idle" =>
          job'[v].action \in DOMAIN exported /\ job'[v].new \in 0..MaxRuns
    BY DEF IInv, Jobs, Alone
  <2>2. \A v \in Workers \ {w} : Live(v)' =>
          /\ job'[v].new \in Corrections'
          /\ runs'[job'[v].new].corrects = job'[v].action
          /\ runs'[job'[v].new].phase = Reached(pc'[v])
    BY <1>1, <1>2, <1>7 DEF IInv, Jobs, Alone, Live, Corrections
  <2>3. Live(w)' =>
          /\ job'[w].new \in Corrections'
          /\ runs'[job'[w].new].corrects = job'[w].action
          /\ runs'[job'[w].new].phase = Reached(pc'[w])
    BY <1>1, <1>2 DEF IInv, Jobs, Live
  <2>4. QED
    BY <2>1, <2>2, <2>3 DEF Jobs, Alone, Reached, Live
<1>9. OwnRuns'
  BY DEF IInv, OwnRuns, Alone, Live
<1>10. QED
  BY <1>3, <1>4, <1>5, <1>6, <1>8, <1>9 DEF IInv

LEMMA ReconcileKeepsIInv ==
  ASSUME IInv, NEW w \in Workers, Start(w) \/ Complete(w) \/ Fail(w)
  PROVE  IInv'
<1>1. CASE Start(w)
  <2>1. /\ Alone(w) /\ pc' \in [Workers -> Stages] /\ job' = job
        /\ pc[w] = "reconcile" /\ pc'[w] = "kernel"
        /\ exported' = exported /\ receipts' = receipts /\ failures' = failures
    BY <1>1, GotoLemma DEF Start, Stages
  <2>2. Moved(w, "RECONCILING")
    BY <1>1, <2>1, AdvanceLemma DEF Start, Live
  <2>3. QED
    BY <2>1, <2>2, MovedTables DEF Phases, Live, Reached, IInv, TypeOK
<1>2. CASE Complete(w)
  <2>1. /\ Alone(w) /\ pc' \in [Workers -> Stages] /\ job' = job
        /\ pc[w] = "kernel" /\ pc'[w] = "receipt"
        /\ exported' = exported /\ receipts' = receipts /\ failures' = failures
    BY <1>2, GotoLemma DEF Complete, Stages
  <2>2. Moved(w, "COMPLETED")
    BY <1>2, CompleteLemma
  <2>3. QED
    BY <2>1, <2>2, MovedTables DEF Phases, Live, Reached, IInv, TypeOK
<1>3. CASE Fail(w)
  <2>1. /\ Alone(w) /\ pc' \in [Workers -> Stages]
        /\ pc'[w] = "idle" /\ job'[w] = NoJob /\ pc[w] = "kernel"
        /\ exported' = exported /\ receipts' = receipts
    BY <1>3, FinishLemma DEF Fail
  <2>2. Moved(w, "FAILED")
    BY <1>3, <2>1, AdvanceLemma DEF Fail, Live
  <2>3. failures' \in 0..MaxFailures
    BY <1>3, CorrectionsAssumption DEF Fail, IInv, TypeOK
  <2>4. QED
    BY <2>1, <2>2, <2>3, MovedTables DEF Phases
<1>4. QED
  BY <1>1, <1>2, <1>3

-----------------------------------------------------------------------------
(***************************************************************************)
(* The invariant.                                                          *)
(***************************************************************************)
LEMMA StutterKeepsIInv == IInv /\ UNCHANGED vars => IInv'
BY DEF vars, IInv, TypeOK, Gateways, Causes, Jobs, OwnRuns, ReceiptsNameResults, Live,
       RunIds, Corrections

LEMMA StepKeepsIInv == IInv /\ [Next]_vars => IInv'
<1>1. SUFFICES ASSUME IInv, Next PROVE IInv'
  BY StutterKeepsIInv
<1>2. ASSUME NEW n \in RunIds, NEW r \in DOMAIN runs[n].batch.gateway, Export(n, r)
      PROVE  IInv'
  BY <1>1, <1>2, ExportKeepsIInv
<1>3. ASSUME NEW w \in Workers, NEW a, NEW new \in Ids, Request(w, a, new)
      PROVE  IInv'
  BY <1>1, <1>3, RequestKeepsIInv
<1>4. ASSUME NEW w \in Workers, RefuseImport(w) \/ RefuseReceipt(w)
      PROVE  IInv'
  BY <1>1, <1>4, FinishingKeepsIInv DEF RefuseImport, RefuseReceipt, IInv, TypeOK
<1>5. ASSUME NEW w \in Workers, Stop(w) PROVE IInv'
  <2>1. failures' \in 0..MaxFailures
    BY <1>1, <1>5, CorrectionsAssumption DEF Stop, IInv, TypeOK
  <2>2. QED
    BY <1>1, <1>5, <2>1, FinishingKeepsIInv DEF Stop
<1>6. ASSUME NEW w \in Workers, Progress(w) PROVE IInv'
  BY <1>1, <1>4, <1>6, ImportKeepsIInv, ImportInvalidKeepsIInv, ReconcileKeepsIInv,
     CommitReceiptKeepsIInv DEF Progress
<1>7. QED
  BY <1>1, <1>2, <1>3, <1>5, <1>6 DEF Next

\* The invariant holds in every reachable state.
THEOREM InductiveInvariant == Spec => []IInv
<1>1. QED
  BY InitHolds, StepKeepsIInv, PTL DEF Spec

\* TypeOK: runs, receipts, stages and locals keep their types.
THEOREM TypeCorrect == Spec => []TypeOK
<1>1. IInv => TypeOK
  BY DEF IInv
<1>2. QED
  BY <1>1, InductiveInvariant, PTL

\* Whatever request stopped and whoever raced, a receipt names a completed run of
\* its own action.
THEOREM ReceiptsAreBacked == Spec => []ReceiptsNameResults
<1>1. IInv => ReceiptsNameResults
  BY DEF IInv
<1>2. QED
  BY <1>1, InductiveInvariant, PTL

\* What was answered once is answered again: receipts are added and never changed.
THEOREM AnswersAreKept == Spec => AnswersStay
<1> DEFINE Kept == \A a \in DOMAIN receipts : a \in DOMAIN receipts' /\ receipts'[a] = receipts[a]
<1>1. ASSUME Next PROVE receipts' = receipts \/ \E w \in Workers : CommitReceipt(w)
  BY <1>1 DEF Next, Progress, records, Export, Request, Stop, Import, ImportInvalid, RefuseImport,
              Start, Complete, Fail, RefuseReceipt
<1>2. ASSUME NEW w \in Workers, CommitReceipt(w) PROVE Kept
  BY <1>2 DEF CommitReceipt
<1>3. [Next]_vars => [Kept]_records
  BY <1>1, <1>2 DEF vars, records
<1>4. QED
  BY <1>3, PTL DEF Spec, AnswersStay

-----------------------------------------------------------------------------
(***************************************************************************)
(* Corrected runs do what RunPromise describes.                            *)
(***************************************************************************)

\* The input of a corrected run is an action there is.
LEMMA ActionsLemma == ASSUME IInv, NEW a \in DOMAIN exported PROVE a \in Actions
<1>1. PICK b \in Batches : runs[Source].batch.gateway = b.gateway
  BY DEF IInv, Gateways, TypeOK
<1>2. a \in [run : RunIds, ref : DOMAIN runs[Source].batch.gateway]
  BY DEF IInv, TypeOK
<1>3. RunIds \subseteq 0..MaxRuns
  BY DEF IInv, TypeOK
<1>4. DOMAIN runs[Source].batch.gateway \subseteq UNION {DOMAIN c.gateway : c \in Batches}
  BY <1>1
<1>5. QED
  BY <1>2, <1>3, <1>4 DEF Actions

\* A run that is imported, with either outcome.
LEMMA ImportImplements ==
  ASSUME IInv, NEW w \in Workers, NEW phase \in {"VALIDATED", "FAILED_VALIDATION"},
         ImportRun(w, phase)
  PROVE  \E r \in 1..MaxRuns : Promise!Import(r)
<1> DEFINE n == job[w].new
           a == job[w].action
<1>1. /\ n \in 0..MaxRuns /\ n \notin RunIds /\ n # Source /\ a \in DOMAIN exported
      /\ RunIds' = RunIds \cup {n}
      /\ \A m \in RunIds : runs'[m] = runs[m]
      /\ runs'[n].phase = phase /\ runs'[n].corrects = a
  <2>1. /\ n \in 0..MaxRuns /\ n \notin RunIds /\ n # Source /\ a \in DOMAIN exported
        /\ RunIds' = RunIds \cup {n}
        /\ \A m \in RunIds : runs'[m] = runs[m]
        /\ runs'[n] = [phase |-> phase, batch |-> Corrected(runs[a.run].batch, exported[a]),
                       corrects |-> a, decisions |-> NoDecisions]
    BY ImportRunLemma DEF Phases
  <2>2. QED
    BY <2>1
<1>2. n \in 1..MaxRuns
  BY <1>1, CorrectionsAssumption DEF Source
<1>3. \A m \in 1..MaxRuns :
        /\ Phase(m)' = IF m = n THEN phase ELSE Phase(m)
        /\ Input(m)' = IF m = n THEN {a} ELSE Input(m)
  BY <1>1 DEF Phase, Input
<1>4. Phase(n) = "ABSENT" /\ phase # "COMPLETED"
  BY <1>1 DEF Phase
<1>5. {a} \in {{c} : c \in Actions}
  BY <1>1, ActionsLemma
<1>6. Promise!Import(n)
  <2>1. [m \in 1..MaxRuns |-> Phase(m)]' = [[m \in 1..MaxRuns |-> Phase(m)] EXCEPT ![n] = phase]
    BY <1>2, <1>3
  <2>2. [m \in 1..MaxRuns |-> Input(m)]' = [[m \in 1..MaxRuns |-> Input(m)] EXCEPT ![n] = {a}]
    BY <1>2, <1>3
  <2>3. [m \in 1..MaxRuns |-> IF Phase(m) = "COMPLETED" THEN {Input(m)} ELSE {}]'
          = [m \in 1..MaxRuns |-> IF Phase(m) = "COMPLETED" THEN {Input(m)} ELSE {}]
    BY <1>3, <1>4
  <2>4. QED
    BY <1>2, <1>4, <1>5, <2>1, <2>2, <2>3 DEF Promise!Import
<1>7. QED
  BY <1>2, <1>6

\* A run that its worker moves on, from one phase to the next.
LEMMA MovedImplements ==
  ASSUME IInv, NEW w \in Workers, Live(w), NEW phase, Moved(w, phase)
  PROVE  /\ job[w].new \in 1..MaxRuns
         /\ Phase(job[w].new) = Reached(pc[w])
         /\ \A m \in 1..MaxRuns :
              /\ Phase(m)' = IF m = job[w].new THEN phase ELSE Phase(m)
              /\ Input(m)' = Input(m)
<1>1. /\ job[w].new \in RunIds /\ job[w].new # Source /\ job[w].new \in 0..MaxRuns
      /\ runs[job[w].new].phase = Reached(pc[w])
  BY DEF IInv, Jobs, Corrections, TypeOK
<1>2. job[w].new \in 1..MaxRuns
  BY <1>1, CorrectionsAssumption DEF Source
<1>3. QED
  BY <1>1, <1>2 DEF Moved, Phase, Input

LEMMA ReconcileImplements ==
  ASSUME IInv, NEW w \in Workers, Start(w) \/ Complete(w) \/ Fail(w)
  PROVE  \E r \in 1..MaxRuns : Promise!Start(r) \/ Promise!Complete(r) \/ Promise!Fail(r)
<1> DEFINE n == job[w].new
           ph == [m \in 1..MaxRuns |-> Phase(m)]
           in == [m \in 1..MaxRuns |-> Input(m)]
           out == [m \in 1..MaxRuns |-> IF Phase(m) = "COMPLETED" THEN {Input(m)} ELSE {}]
<1>1. CASE Start(w)
  <2>1. pc[w] = "reconcile"
    BY <1>1 DEF Start, Goto
  <2>2. Moved(w, "RECONCILING")
    BY <1>1, <2>1, AdvanceLemma DEF Start, Live
  <2>3. /\ n \in 1..MaxRuns /\ Phase(n) = "VALIDATED"
        /\ \A m \in 1..MaxRuns :
             Phase(m)' = (IF m = n THEN "RECONCILING" ELSE Phase(m)) /\ Input(m)' = Input(m)
    BY <2>1, <2>2, MovedImplements DEF Live, Reached
  <2>4. ph' = [ph EXCEPT ![n] = "RECONCILING"] /\ in' = in /\ out' = out
    BY <2>3
  <2>5. Promise!Start(n)
    BY <2>3, <2>4 DEF Promise!Start
  <2>6. QED
    BY <2>3, <2>5
<1>2. CASE Complete(w)
  <2>1. pc[w] = "kernel"
    BY <1>2 DEF Complete, Goto
  <2>2. Moved(w, "COMPLETED")
    BY <1>2, <2>1, CompleteLemma
  <2>3. /\ n \in 1..MaxRuns /\ Phase(n) = "RECONCILING"
        /\ \A m \in 1..MaxRuns :
             Phase(m)' = (IF m = n THEN "COMPLETED" ELSE Phase(m)) /\ Input(m)' = Input(m)
    BY <2>1, <2>2, MovedImplements DEF Live, Reached
  <2>4. /\ ph' = [ph EXCEPT ![n] = "COMPLETED"] /\ in' = in
        /\ out' = [out EXCEPT ![n] = {in[n]}]
    BY <2>3
  <2>5. Promise!Complete(n)
    BY <2>3, <2>4 DEF Promise!Complete
  <2>6. QED
    BY <2>3, <2>5
<1>3. CASE Fail(w)
  <2>1. pc[w] = "kernel"
    BY <1>3 DEF Fail
  <2>2. Moved(w, "FAILED")
    BY <1>3, <2>1, AdvanceLemma DEF Fail, Live
  <2>3. /\ n \in 1..MaxRuns /\ Phase(n) = "RECONCILING"
        /\ \A m \in 1..MaxRuns :
             Phase(m)' = (IF m = n THEN "FAILED" ELSE Phase(m)) /\ Input(m)' = Input(m)
    BY <2>1, <2>2, MovedImplements DEF Live, Reached
  <2>4. ph' = [ph EXCEPT ![n] = "FAILED"] /\ in' = in /\ out' = out
    BY <2>3
  <2>5. Promise!Fail(n)
    BY <2>3, <2>4 DEF Promise!Fail
  <2>6. QED
    BY <2>3, <2>5
<1>4. QED
  BY <1>1, <1>2, <1>3

\* CorrectionLoop implements RunPromise for the runs it starts.
THEOREM CorrectionsKeepThePromise == Spec => ImplementsPromise
<1>1. Init => Promise!Init
  <2>1. SUFFICES ASSUME Init PROVE Promise!Init
    OBVIOUS
  <2>2. \A m \in 1..MaxRuns : m \notin RunIds
    <3>1. RunIds = {0}
      BY <2>1, Zenon DEF Init, RunIds, Source
    <3>2. \A m \in 1..MaxRuns : m # 0
      BY CorrectionsAssumption
    <3>3. QED
      BY <3>1, <3>2
  <2>3. \A m \in 1..MaxRuns : Phase(m) = "ABSENT" /\ Input(m) = {}
    BY <2>2 DEF Phase, Input
  <2>4. QED
    BY <2>3 DEF Promise!Init
<1>2. ASSUME runs' = runs PROVE UNCHANGED Promise!vars
  BY <1>2 DEF Promise!vars, Phase, Input, RunIds
<1>3. IInv /\ [Next]_vars => [Promise!Next]_(Promise!vars)
  <2>1. SUFFICES ASSUME IInv, Next PROVE Promise!Next \/ runs' = runs
    BY <1>2 DEF vars
  <2>2. ASSUME NEW w \in Workers, Import(w) \/ ImportInvalid(w) PROVE Promise!Next
    BY <2>1, <2>2, ImportImplements DEF Import, ImportInvalid, Promise!Next
  <2>3. ASSUME NEW w \in Workers, Start(w) \/ Complete(w) \/ Fail(w) PROVE Promise!Next
    BY <2>1, <2>3, ReconcileImplements DEF Promise!Next
  <2>4. QED
    BY <2>1, <2>2, <2>3 DEF Next, Progress, records, Export, Request, Stop, RefuseImport,
                            CommitReceipt, RefuseReceipt
<1>4. QED
  BY <1>1, <1>3, InductiveInvariant, PTL DEF Spec, ImplementsPromise, Promise!Spec
-----------------------------------------------------------------------------
(***************************************************************************)
(* What the runs hold.                                                     *)
(***************************************************************************)

\* Every run has a batch the kernel can be given, and a completed one has the
\* decisions the kernel makes on it.
Decided ==
  /\ \A n \in RunIds : IsNumbered(runs[n].batch)
  /\ \A n \in RunIds : runs[n].phase = "COMPLETED" =>
       runs[n].decisions = DecisionsOf(runs[n].batch) /\ ~Raises(runs[n].batch)

\* An exported journal is the one its case is given, in a run that is completed.
Approved ==
  \A a \in DOMAIN exported :
    /\ runs[a.run].phase = "COMPLETED" /\ a.ref \in DOMAIN runs[a.run].batch.gateway
    /\ HasJournal(runs[a.run], a.ref)
    /\ exported[a] = JournalOf(runs[a.run], a.ref)

\* A corrected run holds what its source run and its journal make of it.
Derived ==
  \A n \in Corrections :
    runs[n].batch = Corrected(runs[runs[n].corrects.run].batch, exported[runs[n].corrects])

Ledger == Decided /\ Approved /\ Derived

-----------------------------------------------------------------------------
(***************************************************************************)
(* The journal of a case, and the file it is appended to.                  *)
(***************************************************************************)

\* The amount of one row.
LEMMA SingletonSum ==
  ASSUME NEW b, NEW x \in DOMAIN b.bank, b.bank[x].amount \in Int
  PROVE  AmountOf(b, {x}) = b.bank[x].amount
<1> DEFINE amounts == [y \in DOMAIN b.bank |-> b.bank[y].amount]
<1>1. amounts[x] = b.bank[x].amount
  OBVIOUS
<1> HIDE DEF amounts
<1>2. SumFunctionOnSet(amounts, {x}) = amounts[x]
  BY <1>1, SumOfOne
<1>3. QED
  BY <1>1, <1>2 DEF AmountOf, amounts

\* A new journal gets a number that sorts after those there are.
LEMMA NextNumber ==
  ASSUME NEW S, S \subseteq Nat, IsFiniteSet(S)
  PROVE  Max(S \cup {0}) + 1 \in Nat /\ Max(S \cup {0}) + 1 \notin S
<1> DEFINE T == S \cup {0}
<1>1. T \subseteq Nat /\ IsFiniteSet(T) /\ T # {}
  BY FS_AddElement
<1>2. \E x \in T : \A y \in T : x >= y
  <2>1. \E x \in T : \A y \in T : y <= x
    BY <1>1, GreatestLemma
  <2>2. QED
    BY <1>1, <2>1
<1> DEFINE m == Max(T)
<1>3. m \in T /\ \A y \in T : m >= y
  BY <1>2 DEF Max
<1> HIDE DEF m
<1>4. m + 1 \in Nat /\ m + 1 \notin S
  BY <1>1, <1>3
<1>5. QED
  BY <1>4 DEF m

\* The journal of a case, with its number left open.
LEMMA NumberLemma ==
  ASSUME NEW v, NEW r, IsBatch(v.batch)
  PROVE  \E doc \in Nat :
           JournalOf(v, r) = IF v.decisions[r].filed = "MISSING_ERP_POSTING"
                               THEN MissingPosting(v, r, doc) ELSE Reversal(v, r, doc)
<1> DEFINE erp == v.batch.erp
           docs == [i \in DOMAIN erp |-> erp[i].doc]
           S == {j.doc : j \in {erp[i] : i \in DOMAIN erp}}
<1>1. S = {docs[i] : i \in DOMAIN docs}
  OBVIOUS
<1>2. IsFiniteSet(DOMAIN docs)
  BY DEF IsBatch
<1>3. IsFiniteSet(S)
  <2> HIDE DEF docs, S
  <2>1. QED
    BY <1>1, <1>2, ImageLemma
<1>4. S \subseteq Nat
  BY DEF IsBatch, Journal
<1> HIDE DEF S
<1>5. Max(S \cup {0}) + 1 \in Nat
  BY <1>3, <1>4, NextNumber
<1>6. JournalOf(v, r) = IF v.decisions[r].filed = "MISSING_ERP_POSTING"
                          THEN MissingPosting(v, r, Max(S \cup {0}) + 1)
                          ELSE Reversal(v, r, Max(S \cup {0}) + 1)
  BY Zenon DEF JournalOf, S, erp
<1>7. QED
  BY <1>5, <1>6

\* The journal of a missing posting: the amount of the one credit among the rows
\* of the case, and the fees of the settlement.
LEMMA MissingJournal ==
  ASSUME NEW v, NEW r, IsBatch(v.batch), r \in DOMAIN v.batch.gateway, HasJournal(v, r),
         v.decisions[r].filed = "MISSING_ERP_POSTING"
  PROVE  \E x \in DOMAIN v.batch.bank, doc \in Nat :
           LET g    == v.batch.gateway[r]
               paid == v.batch.bank[x].amount
           IN
           /\ Credits(v, r) = {x}
           /\ JournalOf(v, r) =
                [doc |-> doc, ref |-> r, bank |-> paid, clearing |-> paid + g.fee + g.tax,
                 fee |-> g.fee, tax |-> g.tax, other |-> 0]
<1>1. Cardinality(Credits(v, r)) = 1
  BY DEF HasJournal
<1>2. Credits(v, r) \subseteq DOMAIN v.batch.bank /\ IsFiniteSet(Credits(v, r))
  BY FS_Subset DEF Credits, IsBatch
<1>3. PICK x : Credits(v, r) = {x}
  BY <1>1, <1>2, FS_Singleton
<1>4. x \in DOMAIN v.batch.bank /\ v.batch.bank[x].amount \in Int
  BY <1>2, <1>3 DEF IsBatch, BankRow
<1>5. AmountOf(v.batch, Credits(v, r)) = v.batch.bank[x].amount
  BY <1>3, <1>4, SingletonSum
<1>6. PICK doc \in Nat : JournalOf(v, r) = MissingPosting(v, r, doc)
  BY NumberLemma
<1>7. QED
  BY <1>3, <1>4, <1>5, <1>6 DEF MissingPosting

\* It carries the reference of the case, balances, and is one the ledger can hold.
LEMMA JournalBalances ==
  ASSUME NEW v, NEW r, IsBatch(v.batch), r \in DOMAIN v.batch.gateway, HasJournal(v, r)
  PROVE  LET j == JournalOf(v, r) IN j \in Journal /\ j.ref = r /\ Imbalance(j) = 0
<1> DEFINE g == v.batch.gateway[r]
<1>1. r \in Nat /\ g.fee \in Nat /\ g.tax \in Nat
  BY DEF IsBatch, Gateway
<1>2. CASE v.decisions[r].filed = "MISSING_ERP_POSTING"
  <2>1. PICK x \in DOMAIN v.batch.bank, doc \in Nat :
          JournalOf(v, r) =
            [doc |-> doc, ref |-> r, bank |-> v.batch.bank[x].amount,
             clearing |-> v.batch.bank[x].amount + g.fee + g.tax,
             fee |-> g.fee, tax |-> g.tax, other |-> 0]
    BY <1>2, MissingJournal
  <2>2. v.batch.bank[x].amount \in Nat
    BY DEF IsBatch, BankRow
  <2> HIDE DEF g
  <2>3. QED
    BY <1>1, <2>1, <2>2 DEF Journal, Imbalance
<1>3. CASE v.decisions[r].filed # "MISSING_ERP_POSTING"
  <2> DEFINE reversed == v.batch.erp[DuplicateOf(v.batch, r)]
  <2>1. Imbalance(reversed) = 0
    BY <1>3 DEF HasJournal
  <2>2. PICK doc \in Nat : JournalOf(v, r) = Reversal(v, r, doc)
    BY <1>3, NumberLemma
  <2>3. JournalOf(v, r) = [doc |-> doc, ref |-> r, bank |-> 0, clearing |-> 0, fee |-> 0, tax |-> 0,
                           other |-> -Imbalance(reversed)]
    BY <2>2 DEF Reversal
  <2> HIDE DEF reversed
  <2>4. JournalOf(v, r) = [doc |-> doc, ref |-> r, bank |-> 0, clearing |-> 0, fee |-> 0, tax |-> 0,
                           other |-> 0]
    BY <2>1, <2>3
  <2>5. QED
    BY <1>1, <2>4 DEF Journal, Imbalance
<1>4. QED
  BY <1>2, <1>3

\* The corrected file is the old one and the journal, under a key of its own.
LEMMA CorrectedLemma ==
  ASSUME NEW b, IsNumbered(b), NEW journal \in Journal
  PROVE  LET new == Corrected(b, journal) IN
         /\ IsNumbered(new) /\ Alike(b, new)
         /\ [new EXCEPT !.erp = b.erp] = b
         /\ \A j \in DOMAIN b.erp : j \in DOMAIN new.erp /\ new.erp[j] = b.erp[j]
         /\ \E last : /\ last \notin DOMAIN b.erp
                      /\ DOMAIN new.erp = DOMAIN b.erp \cup {last} /\ new.erp[last] = journal
<1> DEFINE last == Max(DOMAIN b.erp \cup {0}) + 1
           erp == [j \in DOMAIN b.erp \cup {last} |-> IF j = last THEN journal ELSE b.erp[j]]
           new == [b EXCEPT !.erp = erp]
<1>1. Corrected(b, journal) = new
  BY DEF Corrected
<1>2. last \in Nat /\ last \notin DOMAIN b.erp
  BY NextNumber DEF IsNumbered, IsBatch
<1> HIDE DEF last
<1>3. /\ DOMAIN erp = DOMAIN b.erp \cup {last} /\ erp[last] = journal
      /\ \A j \in DOMAIN b.erp : erp[j] = b.erp[j]
      /\ erp = [j \in DOMAIN erp |-> erp[j]]
  BY <1>2
<1>4. IsFiniteSet(DOMAIN erp) /\ DOMAIN erp \subseteq Nat
  BY <1>2, <1>3, FS_AddElement DEF IsNumbered, IsBatch
<1>5. erp \in [DOMAIN erp -> Journal]
  BY <1>3 DEF IsNumbered, IsBatch
<1> HIDE DEF erp
<1>6. /\ new = [part \in {"gateway", "bank", "erp", "required"} |-> IF part = "erp" THEN erp ELSE b[part]]
      /\ new.gateway = b.gateway /\ new.bank = b.bank /\ new.erp = erp /\ new.required = b.required
  BY DEF IsNumbered, IsBatch
<1>7. [new EXCEPT !.erp = b.erp] = b
  BY <1>6 DEF IsNumbered, IsBatch
<1>8. new = [part \in {"gateway", "bank", "erp", "required"} |-> new[part]]
  BY <1>6
<1> HIDE DEF new
<1>9. IsNumbered(new)
  BY <1>4, <1>5, <1>6, <1>8 DEF IsNumbered, IsBatch
<1>10. Alike(b, new)
  BY <1>6 DEF Alike
<1>11. QED
  BY <1>1, <1>2, <1>3, <1>6, <1>7, <1>9, <1>10
-----------------------------------------------------------------------------
(***************************************************************************)
(* Ledger, beside IInv: runs that are completed stay as they are, so that  *)
(* a correction remains what its source run and its journal make of it.    *)
(***************************************************************************)
LEMMA InitLedger == Init => Ledger
<1>1. SUFFICES ASSUME Init PROVE Ledger
  OBVIOUS
<1>2. PICK b \in {c \in Batches : ~Raises(c)} :
        runs = [n \in {Source} |-> [phase |-> "COMPLETED", batch |-> b, corrects |-> NoAction,
                                    decisions |-> DecisionsOf(b)]]
  BY <1>1 DEF Init
<1>3. /\ RunIds = {Source} /\ Corrections = {}
      /\ runs[Source].batch = b /\ runs[Source].decisions = DecisionsOf(b)
  BY <1>2 DEF RunIds, Corrections
<1>4. IsNumbered(b) /\ ~Raises(b)
  BY <1>2, CorrectionsAssumption
<1>5. DOMAIN exported = {}
  BY <1>1 DEF Init
<1>6. QED
  BY <1>3, <1>4, <1>5 DEF Ledger, Decided, Approved, Derived

\* Steps that leave runs and exported journals alone.
LEMMA StayingLedger ==
  ASSUME Ledger, UNCHANGED <<runs, exported>>
  PROVE  Ledger'
BY DEF Ledger, Decided, Approved, Derived, RunIds, Corrections

LEMMA ExportLedger ==
  ASSUME IInv, Ledger, NEW n \in RunIds, NEW r \in DOMAIN runs[n].batch.gateway, Export(n, r)
  PROVE  Ledger'
<1> DEFINE a == [run |-> n, ref |-> r]
<1>1. /\ runs' = runs /\ RunIds' = RunIds /\ Corrections' = Corrections
      /\ runs[n].phase = "COMPLETED" /\ HasJournal(runs[n], r) /\ a \notin DOMAIN exported
      /\ exported' = [c \in DOMAIN exported \cup {a} |->
                        IF c = a THEN JournalOf(runs[n], r) ELSE exported[c]]
  BY DEF Export, RunIds, Corrections
<1>2. a.run = n /\ a.ref = r
  OBVIOUS
<1> HIDE DEF a
<1>3. /\ DOMAIN exported' = DOMAIN exported \cup {a} /\ exported'[a] = JournalOf(runs[n], r)
      /\ \A c \in DOMAIN exported : exported'[c] = exported[c]
  BY <1>1
<1>4. Approved'
  <2>1. ASSUME NEW c \in DOMAIN exported'
        PROVE  /\ runs[c.run].phase = "COMPLETED" /\ c.ref \in DOMAIN runs[c.run].batch.gateway
               /\ HasJournal(runs[c.run], c.ref) /\ exported'[c] = JournalOf(runs[c.run], c.ref)
    <3>1. CASE c = a
      BY <1>1, <1>2, <1>3, <3>1
    <3>2. CASE c # a
      BY <1>3, <3>2 DEF Ledger, Approved
    <3>3. QED
      BY <3>1, <3>2
  <2>2. QED
    BY <1>1, <2>1 DEF Approved
<1>5. Derived'
  BY <1>1, <1>3 DEF IInv, Causes, Ledger, Derived
<1>6. Decided'
  BY <1>1 DEF Ledger, Decided
<1>7. QED
  BY <1>4, <1>5, <1>6 DEF Ledger

LEMMA ImportLedger ==
  ASSUME IInv, Ledger, NEW w \in Workers, NEW phase \in Phases, phase # "COMPLETED",
         ImportRun(w, phase), exported' = exported
  PROVE  Ledger'
<1> DEFINE n == job[w].new
           a == job[w].action
           new == Corrected(runs[a.run].batch, exported[a])
<1>1. /\ n \notin RunIds /\ n # Source /\ a \in DOMAIN exported
      /\ RunIds' = RunIds \cup {n} /\ Corrections' = Corrections \cup {n}
      /\ \A m \in RunIds : runs'[m] = runs[m]
      /\ runs'[n] = [phase |-> phase, batch |-> new, corrects |-> a, decisions |-> NoDecisions]
  BY ImportRunLemma
<1>2. \A c \in DOMAIN exported : c.run \in RunIds /\ runs'[c.run] = runs[c.run]
  BY <1>1 DEF IInv, TypeOK
<1>3. IsNumbered(new)
  <2>1. IsNumbered(runs[a.run].batch) /\ exported[a] \in Journal
    BY <1>1, <1>2, JournalBalances DEF IsNumbered, Ledger, Decided, Approved
  <2>2. QED
    BY <2>1, CorrectedLemma
<1>4. Decided'
  <2>1. \A m \in RunIds' :
          /\ IsNumbered(runs'[m].batch)
          /\ runs'[m].phase = "COMPLETED" =>
               runs'[m].decisions = DecisionsOf(runs'[m].batch) /\ ~Raises(runs'[m].batch)
    <3> HIDE DEF n, new
    <3>1. QED
      BY <1>1, <1>3 DEF Ledger, Decided
  <2>2. QED
    BY <2>1 DEF Decided
<1>5. Approved'
  BY <1>2 DEF Ledger, Approved
<1>6. Derived'
  <2>1. ASSUME NEW m \in Corrections
        PROVE  runs'[m].batch = Corrected(runs'[runs'[m].corrects.run].batch, exported[runs'[m].corrects])
    <3>1. runs'[m] = runs[m] /\ runs[m].corrects \in DOMAIN exported
      BY <1>1 DEF IInv, Causes, Corrections
    <3>2. QED
      BY <1>2, <3>1 DEF Ledger, Derived
  <2>2. runs'[n].batch = Corrected(runs'[runs'[n].corrects.run].batch, exported[runs'[n].corrects])
    <3>1. runs'[n].batch = new /\ runs'[n].corrects = a
      BY <1>1
    <3>2. QED
      BY <1>1, <1>2, <3>1
  <2> HIDE DEF n
  <2>3. QED
    BY <1>1, <2>1, <2>2 DEF Derived
<1>7. QED
  BY <1>4, <1>5, <1>6 DEF Ledger

\* A run that is moved on was not completed, so no export is of it and no
\* correction is derived from it; what it holds is settled by Complete.
LEMMA MovedLedger ==
  ASSUME IInv, Ledger, NEW w \in Workers, pc[w] \in {"reconcile", "kernel"}, NEW phase,
         Moved(w, phase), exported' = exported,
         phase = "COMPLETED" =>
           /\ runs'[job[w].new].decisions = DecisionsOf(runs[job[w].new].batch)
           /\ ~Raises(runs[job[w].new].batch)
  PROVE  Ledger'
<1> DEFINE n == job[w].new
<1>1. n \in RunIds /\ runs[n].phase # "COMPLETED"
  BY DEF IInv, Jobs, Live, Reached, Corrections
<1>2. /\ RunIds' = RunIds /\ Corrections' = Corrections
      /\ \A m \in RunIds \ {n} : runs'[m] = runs[m]
      /\ \A m \in RunIds : runs'[m].batch = runs[m].batch /\ runs'[m].corrects = runs[m].corrects
      /\ runs'[n].phase = phase
  BY <1>1 DEF Moved, Corrections
<1> HIDE DEF n
<1>3. \A c \in DOMAIN exported : c.run \in RunIds /\ runs'[c.run] = runs[c.run]
  BY <1>1, <1>2 DEF Ledger, Approved, IInv, TypeOK
<1>4. Decided'
  <2>1. ASSUME NEW m \in RunIds
        PROVE  /\ IsNumbered(runs'[m].batch)
               /\ runs'[m].phase = "COMPLETED" =>
                    runs'[m].decisions = DecisionsOf(runs'[m].batch) /\ ~Raises(runs'[m].batch)
    <3>1. CASE m = n
      BY <1>1, <1>2, <3>1 DEF Ledger, Decided, n
    <3>2. CASE m # n
      BY <1>2, <3>2 DEF Ledger, Decided
    <3>3. QED
      BY <3>1, <3>2
  <2>2. QED
    BY <1>2, <2>1 DEF Decided
<1>5. Approved'
  BY <1>3 DEF Ledger, Approved
<1>6. Derived'
  <2>1. ASSUME NEW m \in Corrections
        PROVE  runs'[m].batch = Corrected(runs'[runs'[m].corrects.run].batch, exported[runs'[m].corrects])
    <3>1. /\ runs'[m].corrects = runs[m].corrects /\ runs'[m].batch = runs[m].batch
          /\ runs[m].corrects \in DOMAIN exported
      BY <1>2 DEF IInv, Causes, Corrections
    <3>2. QED
      BY <1>3, <3>1 DEF Ledger, Derived
  <2>2. QED
    BY <1>2, <2>1 DEF Derived
<1>7. QED
  BY <1>4, <1>5, <1>6 DEF Ledger

LEMMA StepKeepsLedger == IInv /\ Ledger /\ [Next]_vars => Ledger'
<1>1. SUFFICES ASSUME IInv, Ledger, [Next]_vars PROVE Ledger'
  OBVIOUS
<1>2. CASE UNCHANGED vars
  BY <1>1, <1>2, StayingLedger DEF vars
<1>3. ASSUME NEW n \in RunIds, NEW r \in DOMAIN runs[n].batch.gateway, Export(n, r)
      PROVE  Ledger'
  BY <1>1, <1>3, ExportLedger
<1>4. ASSUME NEW w \in Workers, NEW a, NEW new, Request(w, a, new) PROVE Ledger'
  BY <1>1, <1>4, StayingLedger DEF Request, records
<1>5. ASSUME NEW w \in Workers, RefuseImport(w) \/ CommitReceipt(w) \/ RefuseReceipt(w) \/ Stop(w)
      PROVE  Ledger'
  BY <1>1, <1>5, StayingLedger DEF RefuseImport, CommitReceipt, RefuseReceipt, Stop, records
<1>6. ASSUME NEW w \in Workers, Import(w) \/ ImportInvalid(w) PROVE Ledger'
  BY <1>1, <1>6, ImportLedger DEF Import, ImportInvalid, Phases
<1>7. ASSUME NEW w \in Workers, Start(w) PROVE Ledger'
  <2>1. pc[w] = "reconcile" /\ exported' = exported
    BY <1>7 DEF Start, Goto
  <2>2. Moved(w, "RECONCILING")
    BY <1>1, <1>7, <2>1, AdvanceLemma DEF Start, Live
  <2>3. QED
    BY <1>1, <2>1, <2>2, MovedLedger
<1>8. ASSUME NEW w \in Workers, Complete(w) PROVE Ledger'
  <2>1. /\ pc[w] = "kernel" /\ exported' = exported /\ ~Raises(runs[job[w].new].batch)
        /\ job[w].new \in RunIds
    BY <1>1, <1>8 DEF Complete, Goto, IInv, Jobs, Live, Corrections
  <2>2. runs'[job[w].new].decisions = DecisionsOf(runs[job[w].new].batch)
    <3>1. /\ job[w].new \in DOMAIN runs
          /\ DOMAIN runs[job[w].new] = {"phase", "batch", "corrects", "decisions"}
      BY <1>1, <2>1 DEF IInv, TypeOK, RunIds
    <3>2. QED
      BY <1>8, <3>1 DEF Complete
  <2>3. QED
    BY <1>1, <1>8, <2>1, <2>2, CompleteLemma, MovedLedger
<1>9. ASSUME NEW w \in Workers, Fail(w) PROVE Ledger'
  <2>1. pc[w] = "kernel" /\ exported' = exported
    BY <1>9 DEF Fail
  <2>2. Moved(w, "FAILED")
    BY <1>1, <1>9, <2>1, AdvanceLemma DEF Fail, Live
  <2>3. QED
    BY <1>1, <2>1, <2>2, MovedLedger
<1>10. QED
  BY <1>1, <1>2, <1>3, <1>4, <1>5, <1>6, <1>7, <1>8, <1>9 DEF Next, Progress

\* Every run holds what the approved journals have made of the batch of the first.
THEOREM LedgerInvariant == Spec => [](IInv /\ Ledger)
<1>1. IInv /\ Ledger /\ [Next]_vars => (IInv /\ Ledger)'
  BY StepKeepsIInv, StepKeepsLedger
<1>2. Init => IInv /\ Ledger
  BY InitHolds, InitLedger
<1>3. QED
  BY <1>1, <1>2, PTL DEF Spec
-----------------------------------------------------------------------------
(***************************************************************************)
(* What a correction changes.                                              *)
(***************************************************************************)

\* The run that n corrects, and the journal it does so with.
SourceOf(n) == runs[runs[n].corrects.run]
JournalIn(n) == exported[runs[n].corrects]

LEMMA CorrectionLemma ==
  ASSUME IInv, Ledger, NEW n \in Corrections
  PROVE  LET a   == runs[n].corrects
             old == SourceOf(n).batch
             new == runs[n].batch
         IN
         /\ a \in DOMAIN exported /\ SourceOf(n).phase = "COMPLETED"
         /\ IsNumbered(old) /\ IsBatch(old) /\ SourceOf(n).decisions = DecisionsOf(old)
         /\ a.ref \in DOMAIN old.gateway
         /\ HasJournal(SourceOf(n), a.ref) /\ JournalIn(n) = JournalOf(SourceOf(n), a.ref)
         /\ JournalIn(n) \in Journal /\ JournalIn(n).ref = a.ref /\ Imbalance(JournalIn(n)) = 0
         /\ new = Corrected(old, JournalIn(n))
<1>1. runs[n].corrects \in DOMAIN exported /\ runs[n].corrects.run \in RunIds
  BY DEF IInv, Causes, TypeOK
<1>2. /\ SourceOf(n).phase = "COMPLETED" /\ runs[n].corrects.ref \in DOMAIN SourceOf(n).batch.gateway
      /\ HasJournal(SourceOf(n), runs[n].corrects.ref)
      /\ JournalIn(n) = JournalOf(SourceOf(n), runs[n].corrects.ref)
  BY <1>1 DEF Ledger, Approved, SourceOf, JournalIn
<1>3. /\ IsNumbered(SourceOf(n).batch) /\ IsBatch(SourceOf(n).batch)
      /\ SourceOf(n).decisions = DecisionsOf(SourceOf(n).batch)
  BY <1>1, <1>2 DEF Ledger, Decided, SourceOf, IsNumbered
<1>4. runs[n].batch = Corrected(SourceOf(n).batch, JournalIn(n))
  BY DEF Ledger, Derived, SourceOf, JournalIn
<1>5. JournalIn(n) \in Journal /\ JournalIn(n).ref = runs[n].corrects.ref /\ Imbalance(JournalIn(n)) = 0
  BY <1>2, <1>3, JournalBalances
<1>6. QED
  BY <1>1, <1>2, <1>3, <1>4, <1>5

\* The journals of a corrected batch: one more of one reference.
LEMMA CorrectedJournals ==
  ASSUME NEW b, IsNumbered(b), NEW journal \in Journal, NEW r
  PROVE  LET new == Corrected(b, journal) IN
         /\ r # journal.ref => Journals(new, r) = Journals(b, r)
         /\ \A j \in Journals(b, r) : new.erp[j] = b.erp[j]
         /\ r = journal.ref =>
              \E last : /\ Journals(new, r) = Journals(b, r) \cup {last}
                        /\ last \notin Journals(b, r) /\ new.erp[last] = journal
<1> DEFINE new == Corrected(b, journal)
<1>1. \A j \in DOMAIN b.erp : j \in DOMAIN new.erp /\ new.erp[j] = b.erp[j]
  BY CorrectedLemma
<1>2. PICK last : /\ last \notin DOMAIN b.erp
                  /\ DOMAIN new.erp = DOMAIN b.erp \cup {last} /\ new.erp[last] = journal
  BY CorrectedLemma
<1> HIDE DEF new
<1>3. r # journal.ref => Journals(new, r) = Journals(b, r)
  BY <1>1, <1>2 DEF Journals
<1>4. r = journal.ref => Journals(new, r) = Journals(b, r) \cup {last}
  BY <1>1, <1>2 DEF Journals
<1>5. last \notin Journals(b, r) /\ \A j \in Journals(b, r) : new.erp[j] = b.erp[j]
  BY <1>1, <1>2 DEF Journals
<1>6. QED
  BY <1>2, <1>3, <1>4, <1>5 DEF new

\* LedgerIsExplained: a corrected run exists only for an exported journal of a
\* completed run, and holds that run's events and that one balanced journal more,
\* whatever corrections, failures and retries came before.
THEOREM LedgerAlwaysExplained == Spec => []LedgerIsExplained
<1>1. ASSUME IInv, Ledger PROVE LedgerIsExplained
  <2>1. ASSUME NEW n \in Corrections
        PROVE  LET a == runs[n].corrects
                   old == runs[a.run].batch
                   new == runs[n].batch
                   added == DOMAIN new.erp \ DOMAIN old.erp
               IN
               /\ a \in DOMAIN exported /\ runs[a.run].phase = "COMPLETED"
               /\ [new EXCEPT !.erp = old.erp] = old
               /\ \A j \in DOMAIN old.erp : j \in DOMAIN new.erp /\ new.erp[j] = old.erp[j]
               /\ \E j \in added : added = {j} /\ new.erp[j].ref = a.ref /\ Imbalance(new.erp[j]) = 0
    <3> DEFINE old == SourceOf(n).batch
               new == runs[n].batch
               journal == JournalIn(n)
    <3>1. /\ runs[n].corrects \in DOMAIN exported /\ SourceOf(n).phase = "COMPLETED"
          /\ IsNumbered(old) /\ journal \in Journal
          /\ journal.ref = runs[n].corrects.ref /\ Imbalance(journal) = 0
          /\ new = Corrected(old, journal)
      BY <1>1, CorrectionLemma
    <3> HIDE DEF old, new, journal
    <3>2. /\ [new EXCEPT !.erp = old.erp] = old
          /\ \A j \in DOMAIN old.erp : j \in DOMAIN new.erp /\ new.erp[j] = old.erp[j]
      BY <3>1, CorrectedLemma
    <3>3. PICK last : /\ last \notin DOMAIN old.erp
                      /\ DOMAIN new.erp = DOMAIN old.erp \cup {last} /\ new.erp[last] = journal
      BY <3>1, CorrectedLemma
    <3>4. /\ DOMAIN new.erp \ DOMAIN old.erp = {last}
          /\ new.erp[last].ref = runs[n].corrects.ref /\ Imbalance(new.erp[last]) = 0
      BY <3>1, <3>3
    <3>5. QED
      BY <3>1, <3>2, <3>4 DEF old, new, SourceOf
  <2>2. QED
    BY <2>1 DEF LedgerIsExplained
<1>2. QED
  BY <1>1, LedgerInvariant, PTL

\* CorrectionsAreLocal: the decisions of a completed correction are those of its
\* source run, but for the settlement that was corrected.  The kernel gives every
\* settlement the same rows again, because which rows it takes does not depend on
\* the ledger, and a settlement whose journals are the same the same decision.
THEOREM CorrectionsStayLocal == Spec => []CorrectionsAreLocal
<1>1. ASSUME IInv, Ledger PROVE CorrectionsAreLocal
  <2>1. SUFFICES ASSUME NEW n \in Completed, NEW r \in DOMAIN runs[n].decisions \ {runs[n].corrects.ref}
                 PROVE  runs[n].decisions[r] = Earlier(n, r)
    BY DEF CorrectionsAreLocal
  <2> DEFINE old == SourceOf(n).batch
             new == runs[n].batch
             journal == JournalIn(n)
  <2>2. n \in Corrections /\ n \in RunIds /\ runs[n].phase = "COMPLETED"
    BY <2>1 DEF Completed, Corrections
  <2>3. /\ IsNumbered(old) /\ IsBatch(old) /\ SourceOf(n).decisions = DecisionsOf(old)
        /\ journal \in Journal /\ journal.ref = runs[n].corrects.ref
        /\ new = Corrected(old, journal)
    BY <1>1, <2>2, CorrectionLemma
  <2>4. IsNumbered(new) /\ IsBatch(new) /\ runs[n].decisions = DecisionsOf(new)
    BY <1>1, <2>2 DEF Ledger, Decided, IsNumbered
  <2> HIDE DEF old, new, journal
  <2>5. Alike(old, new)
    BY <2>3, CorrectedLemma
  <2>6. r \in DOMAIN old.gateway /\ r # journal.ref
    BY <2>3, <2>4, <2>5, DecisionsLemma DEF Alike
  <2>7. Journals(new, r) = Journals(old, r) /\ \A j \in Journals(old, r) : new.erp[j] = old.erp[j]
    BY <2>3, <2>6, CorrectedJournals
  <2>8. DecisionsOf(new)[r] = DecisionsOf(old)[r]
    BY <2>3, <2>4, <2>5, <2>6, <2>7, DecisionsAreLocal
  <2>9. QED
    BY <2>3, <2>4, <2>8 DEF Earlier, SourceOf
<1>2. QED
  BY <1>1, LedgerInvariant, PTL
-----------------------------------------------------------------------------
(***************************************************************************)
(* What a correction settles.                                              *)
(***************************************************************************)

\* The journal of a missing posting is the one analyze_settlement expects: the
\* one credit among the rows of the case is all that pays the settlement.
LEMMA MissingJournalFits ==
  ASSUME NEW v, NEW r, NEW free, NEW required, IsBatch(v.batch), r \in DOMAIN v.batch.gateway,
         free \subseteq DOMAIN v.batch.bank,
         v.decisions[r] = Decision(CaseOf(v.batch, r, free), required),
         v.decisions[r].filed = "MISSING_ERP_POSTING", HasJournal(v, r)
  PROVE  LET g     == v.batch.gateway[r]
             j     == JournalOf(v, r)
             group == SelectBank(v.batch, r, free).group
         IN
         /\ \A x \in group : v.batch.bank[x].credit
         /\ j.bank = g.net /\ j.clearing = g.gross /\ j.fee = g.fee /\ j.tax = g.tax
<1> DEFINE b   == v.batch
           g   == b.gateway[r]
           sel == SelectBank(b, r, free)
<1>1. /\ FiledUnder(CaseOf(b, r, free), required) = "MISSING_ERP_POSTING"
      /\ v.decisions[r].bank = sel.considered
  BY DEF Decision, CaseOf
<1>2. /\ ExpectedNet(g) = g.net /\ sel.group = sel.considered /\ sel.group # {}
      /\ AmountOf(b, sel.group) = g.net
      /\ (\A x \in sel.group : b.bank[x].credit) \/ \E x : sel.group = {x}
  BY <1>1, MissingPostingLemma
<1>3. PICK x \in DOMAIN b.bank, doc \in Nat :
        /\ Credits(v, r) = {x}
        /\ JournalOf(v, r) =
             [doc |-> doc, ref |-> r, bank |-> b.bank[x].amount,
              clearing |-> b.bank[x].amount + g.fee + g.tax,
              fee |-> g.fee, tax |-> g.tax, other |-> 0]
  BY MissingJournal
<1>4. /\ b.bank[x].amount \in Int /\ g.gross \in Int /\ g.fee \in Int /\ g.tax \in Int /\ g.net \in Int
      /\ AmountOf(b, {x}) = b.bank[x].amount
  <2>1. b.bank[x].amount \in Int
    BY DEF IsBatch, BankRow
  <2>2. AmountOf(b, {x}) = b.bank[x].amount
    BY <2>1, SingletonSum
  <2>3. QED
    BY <2>1, <2>2 DEF IsBatch, Gateway
<1> HIDE DEF sel
<1>5. sel.group \subseteq DOMAIN b.bank
  <2>1. sel.considered \subseteq free
    BY SelectionLemma DEF sel
  <2>2. QED
    BY <1>2, <2>1
<1>6. Credits(v, r) = {y \in sel.group : b.bank[y].credit}
  BY <1>1, <1>2, <1>5 DEF Credits
<1>7. sel.group = {x} /\ \A y \in sel.group : b.bank[y].credit
  <2>1. x \in sel.group /\ b.bank[x].credit /\ \A y \in sel.group : b.bank[y].credit => y = x
    BY <1>3, <1>6
  <2>2. QED
    BY <1>2, <2>1
<1>8. b.bank[x].amount = g.net
  BY <1>2, <1>4, <1>7
<1>9. b.bank[x].amount + g.fee + g.tax = g.gross
  <2>1. g.gross - g.fee - g.tax = g.net
    BY <1>2 DEF ExpectedNet
  <2>2. QED
    BY <1>4, <1>8, <2>1
<1>10. QED
  BY <1>3, <1>7, <1>8, <1>9 DEF sel

\* A settlement whose posting was missing, with that one journal: it is proved if
\* and only if the receipt was in order, as far as a policy can ask for it.
LEMMA PostedIsProved ==
  ASSUME NEW b, NEW c, IsBatch(b), IsBatch(c), Alike(b, c),
         NEW r \in DOMAIN b.gateway, NEW free, free \subseteq DOMAIN b.bank,
         NEW required, FiledUnder(CaseOf(b, r, free), required) = "MISSING_ERP_POSTING",
         \A x \in SelectBank(b, r, free).group : b.bank[x].credit,
         NEW j, Journals(c, r) = {j}, Imbalance(c.erp[j]) = 0,
         c.erp[j].bank = b.gateway[r].net, c.erp[j].clearing = b.gateway[r].gross,
         c.erp[j].fee = b.gateway[r].fee, c.erp[j].tax = b.gateway[r].tax,
         ~Refused(CaseOf(c, r, free), required)
  PROVE  ProofLevel(CaseOf(c, r, free), required) = "PROVED" <=>
           ReceiptChecks \subseteq CaseOf(b, r, free).passed /\ required \subseteq Checks
<1> DEFINE g       == b.gateway[r]
           sel     == SelectBank(b, r, free)
           old     == CheckResults(b, r, sel)
           new     == CheckResults(c, r, sel)
           passed  == {x \in Checks : new[x]}
           given   == ReasonsGiven(c, r, free, sel, passed)
           reasons == {x \in DOMAIN given : given[x]}
           case    == CaseOf(c, r, free)
           before  == {x \in Checks : old[x]}
<1>1. /\ g.rows = 1 /\ ExpectedNet(g) = g.net
      /\ ~IdentifierConflict(b, r, free) /\ ~sel.ambiguous
      /\ sel.group # {} /\ AmountOf(b, sel.group) = g.net
  BY MissingPostingLemma
<1>2. SelectBank(c, r, free) = sel /\ ~IdentifierConflict(c, r, free) /\ c.gateway[r] = g
  BY <1>1, SelectAlike DEF Alike
<1>3. /\ case.passed = passed /\ case.reasons = reasons /\ case.ambiguous = sel.ambiguous
      /\ case.invalid <=> "ERP_JOURNAL_UNBALANCED" \in reasons
      /\ case.unique <=>
           {"GATEWAY_SETTLEMENT_UNIQUE", "BANK_RECEIPT_UNIQUE", "ERP_JOURNAL_UNIQUE"} \subseteq passed
      /\ CaseOf(b, r, free).passed = before
  BY <1>2 DEF CaseOf
<1> HIDE DEF sel, case
<1>4. /\ new["GATEWAY_SETTLEMENT_UNIQUE"] = old["GATEWAY_SETTLEMENT_UNIQUE"]
      /\ new["SETTLEMENT_COMPONENT_INVARIANT"] = old["SETTLEMENT_COMPONENT_INVARIANT"]
      /\ new["BANK_RECEIPT_PRESENT"] = old["BANK_RECEIPT_PRESENT"]
      /\ new["BANK_RECEIPT_AMOUNT"] = old["BANK_RECEIPT_AMOUNT"]
      /\ new["BANK_RECEIPT_DIRECTION"] = old["BANK_RECEIPT_DIRECTION"]
      /\ new["BANK_RECEIPT_REFERENCE"] = old["BANK_RECEIPT_REFERENCE"]
      /\ new["BANK_RECEIPT_DATE"] = old["BANK_RECEIPT_DATE"]
      /\ new["BANK_RECEIPT_UNIQUE"] = old["BANK_RECEIPT_UNIQUE"]
  <2> HIDE DEF old, new
  <2>1. QED
    BY ReceiptsAlike DEF old, new
<1>5. Cardinality(Journals(c, r)) = 1 /\ Journals(c, r) # {}
  BY FS_Singleton
<1>6. ObservedNet(c, r) = g.net
  BY <1>1, <1>2 DEF ObservedNet
<1>7. /\ new["ERP_JOURNAL_PRESENT"] /\ new["ERP_JOURNAL_UNIQUE"] /\ new["ERP_JOURNAL_BALANCED"]
      /\ new["ERP_BANK_POSTING"] /\ new["ERP_CLEARING_POSTING"]
      /\ new["ERP_FEE_POSTING"] /\ new["ERP_TAX_POSTING"]
  <2>1. \A k \in Journals(c, r) :
          /\ Imbalance(c.erp[k]) = 0 /\ c.erp[k].bank = g.net /\ c.erp[k].clearing = g.gross
          /\ c.erp[k].fee = g.fee /\ c.erp[k].tax = g.tax
    OBVIOUS
  <2>2. QED
    BY <1>2, <1>5, <1>6, <2>1 DEF CheckResults
<1>8. new["GATEWAY_SETTLEMENT_UNIQUE"] /\ new["BANK_RECEIPT_UNIQUE"]
      /\ new["SETTLEMENT_COMPONENT_INVARIANT"] /\ new["BANK_RECEIPT_AMOUNT"]
  <2>1. AmountOf(c, sel.group) = g.net
    BY <1>1 DEF AmountOf, Alike
  <2>2. QED
    BY <1>1, <1>2, <1>6, <2>1 DEF CheckResults
<1> HIDE DEF old, new
<1>9. /\ {"GATEWAY_SETTLEMENT_UNIQUE", "BANK_RECEIPT_UNIQUE", "ERP_JOURNAL_UNIQUE"} \subseteq passed
      /\ "ERP_JOURNAL_BALANCED" \in passed /\ PostingChecks \subseteq passed
      /\ "SETTLEMENT_COMPONENT_INVARIANT" \in passed /\ "BANK_RECEIPT_AMOUNT" \in passed
  BY <1>7, <1>8 DEF Checks, PostingChecks
<1>10. ReceiptChecks \subseteq before <=> passed = Checks
  BY <1>4, <1>7 DEF ReceiptChecks, Checks, PostingChecks
<1> HIDE DEF passed, before
<1>11. reasons \cap HardContradictions = {} /\ "ERP_JOURNAL_UNBALANCED" \notin reasons
  <2>1. /\ ~given["DUPLICATE_IDENTIFIER"] /\ ~given["DUPLICATE_ERP_POSTING"]
        /\ ~given["SETTLEMENT_COMPONENT_MISMATCH"] /\ ~given["BANK_AMOUNT_MISMATCH"]
        /\ ~given["ERP_POSTING_MISMATCH"] /\ ~given["ERP_JOURNAL_UNBALANCED"]
    <3>1. ~(c.gateway[r].rows > 1) /\ ~(Cardinality(Journals(c, r)) > 1)
      BY <1>1, <1>2, <1>5
    <3>2. QED
      BY <1>2, <1>9, <3>1 DEF ReasonsGiven
  <2> HIDE DEF given
  <2>2. QED
    BY <2>1 DEF HardContradictions
<1> HIDE DEF reasons
<1>12. ProofLevel(case, required) = "PROVED" <=> required \subseteq passed
  BY <1>1, <1>3, <1>9, <1>11 DEF ProofLevel
<1>13. ProofLevel(case, required) = "PROVED" => passed = Checks
  BY <1>3 DEF Refused, case
<1>14. QED
  BY <1>3, <1>10, <1>12, <1>13 DEF case

\* CorrectionsSettleTheirCause: a missing posting that is corrected is proved if
\* and only if the receipt of its settlement was in order, and a duplicate posting
\* that is corrected keeps the decision it had, in every chain of corrections.
THEOREM CorrectionsSettle == Spec => []CorrectionsSettleTheirCause
<1>1. ASSUME IInv, Ledger PROVE CorrectionsSettleTheirCause
  <2>1. SUFFICES ASSUME NEW n \in Completed
                 PROVE  LET r == runs[n].corrects.ref IN
                   /\ Earlier(n, r).filed = "MISSING_ERP_POSTING" =>
                        (runs[n].decisions[r].level = "PROVED" <=>
                           /\ ReceiptChecks \subseteq Earlier(n, r).passed
                           /\ runs[n].batch.required \subseteq Checks)
                   /\ Earlier(n, r).filed = "DUPLICATE_ERP_POSTING" =>
                        runs[n].decisions[r] = Earlier(n, r)
    BY DEF CorrectionsSettleTheirCause
  <2> DEFINE source == SourceOf(n)
             r       == runs[n].corrects.ref
             old     == source.batch
             new     == runs[n].batch
             journal == JournalIn(n)
             free    == LeftBy(old, CasesOf(old), r)
  <2>2. n \in Corrections /\ n \in RunIds /\ runs[n].phase = "COMPLETED"
    BY <2>1 DEF Completed, Corrections
  <2>3. /\ IsNumbered(old) /\ IsBatch(old) /\ source.decisions = DecisionsOf(old) /\ r \in DOMAIN old.gateway
        /\ HasJournal(source, r) /\ journal = JournalOf(source, r)
        /\ journal \in Journal /\ journal.ref = r /\ Imbalance(journal) = 0
        /\ new = Corrected(old, journal)
    BY <1>1, <2>2, CorrectionLemma
  <2>4. IsNumbered(new) /\ IsBatch(new) /\ runs[n].decisions = DecisionsOf(new) /\ ~Raises(new)
    BY <1>1, <2>2 DEF Ledger, Decided, IsNumbered
  <2>5. Alike(old, new)
    BY <2>3, CorrectedLemma
  <2>6. PICK last : /\ Journals(new, r) = Journals(old, r) \cup {last}
                    /\ last \notin Journals(old, r) /\ new.erp[last] = journal
    BY <2>3, CorrectedJournals
  <2>7. Earlier(n, r) = source.decisions[r]
    BY DEF Earlier, SourceOf
  <2> HIDE DEF source, old, new, journal, r
  <2>8. source.decisions[r] = Decision(CaseOf(old, r, free), old.required)
    BY <2>3, DecisionsLemma
  <2>9. r \in DOMAIN new.gateway /\ LeftBy(new, CasesOf(new), r) = free
    BY <2>3, <2>4, <2>5, LeftAlike DEF Alike
  <2>10. /\ runs[n].decisions[r] = Decision(CaseOf(new, r, free), old.required)
         /\ ~Refused(CaseOf(new, r, free), old.required)
    <3>1. DecisionsOf(new)[r] = Decision(CaseOf(new, r, free), old.required)
      BY <2>4, <2>5, <2>9, DecisionsLemma DEF Alike
    <3>2. CasesOf(new)[r] = CaseOf(new, r, free)
      BY <2>4, <2>9, CasesLemma
    <3>3. QED
      BY <2>4, <2>5, <2>9, <3>1, <3>2 DEF Raises, Alike
  <2>11. free \subseteq DOMAIN old.bank
    BY DEF LeftBy
  <2> HIDE DEF free
  <2>12. ASSUME source.decisions[r].filed = "MISSING_ERP_POSTING"
         PROVE  runs[n].decisions[r].level = "PROVED" <=>
                  ReceiptChecks \subseteq source.decisions[r].passed /\ new.required \subseteq Checks
    <3>1. FiledUnder(CaseOf(old, r, free), old.required) = "MISSING_ERP_POSTING"
      BY <2>8, <2>12 DEF Decision
    <3>2. Journals(old, r) = {}
      BY <2>3, <2>11, <3>1, MissingPostingLemma
    <3>3. Journals(new, r) = {last}
      BY <2>6, <3>2
    <3>4. /\ \A x \in SelectBank(old, r, free).group : old.bank[x].credit
          /\ journal.bank = old.gateway[r].net /\ journal.clearing = old.gateway[r].gross
          /\ journal.fee = old.gateway[r].fee /\ journal.tax = old.gateway[r].tax
      BY <2>3, <2>8, <2>11, <2>12, MissingJournalFits DEF old
    <3>5. ProofLevel(CaseOf(new, r, free), old.required) = "PROVED" <=>
            ReceiptChecks \subseteq CaseOf(old, r, free).passed /\ old.required \subseteq Checks
      BY <2>3, <2>4, <2>5, <2>6, <2>10, <2>11, <3>1, <3>3, <3>4, PostedIsProved
    <3>6. /\ runs[n].decisions[r].level = ProofLevel(CaseOf(new, r, free), old.required)
          /\ source.decisions[r].passed = CaseOf(old, r, free).passed
          /\ new.required = old.required
      BY <2>5, <2>8, <2>10 DEF Decision, Alike
    <3>7. QED
      BY <3>5, <3>6
  <2>13. ASSUME source.decisions[r].filed = "DUPLICATE_ERP_POSTING"
         PROVE  runs[n].decisions[r] = source.decisions[r]
    <3>1. FiledUnder(CaseOf(old, r, free), old.required) = "DUPLICATE_ERP_POSTING"
      BY <2>8, <2>13 DEF Decision
    <3>2. Cardinality(Journals(old, r)) > 1
      BY <3>1, DuplicatePostingLemma
    <3>3. IsFiniteSet(Journals(old, r)) /\ IsFiniteSet(Journals(new, r))
      <4>1. Journals(old, r) \subseteq DOMAIN old.erp /\ Journals(new, r) \subseteq DOMAIN new.erp
        BY DEF Journals
      <4>2. QED
        BY <2>3, <2>4, <4>1, FS_Subset DEF IsBatch
    <3>4. Cardinality(Journals(new, r)) > 1
      <4>1. Cardinality(Journals(old, r)) <= Cardinality(Journals(new, r))
        BY <2>6, <3>3, FS_Subset
      <4>2. Cardinality(Journals(old, r)) \in Nat /\ Cardinality(Journals(new, r)) \in Nat
        BY <3>3, FS_CardinalityType
      <4>3. QED
        BY <3>2, <4>1, <4>2
    <3>5. Journals(old, r) # {} /\ Journals(new, r) # {}
      <4>1. Journals(old, r) # {}
        BY <3>2, FS_EmptySet
      <4>2. QED
        BY <2>6, <4>1
    <3>6. QED
      BY <2>5, <2>8, <2>10, <3>2, <3>4, <3>5, StillDuplicate
  <2>14. QED
    BY <2>7, <2>12, <2>13 DEF r, new
<1>2. QED
  BY <1>1, LedgerInvariant, PTL
=============================================================================
