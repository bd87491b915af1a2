------------------------- MODULE SettlementMatching -------------------------
(***************************************************************************)
(* The reconciliation kernel: a batch of gateway, bank and ERP events is   *)
(* turned into cases and each case into a decision.                        *)
(*                                                                         *)
(* reconcile() takes the settlements in the order of their references.     *)
(* Each one selects bank rows among those no earlier case has taken, and   *)
(* the ERP journals posted under its reference.  What nobody took becomes  *)
(* orphan cases, and the risk gate decides every case.  One step of this   *)
(* module is one iteration of the loop, the orphan pass, or the gate.      *)
(***************************************************************************)
EXTENDS SettlementRules

CONSTANT Batches  \* the batches of events a run may hold, each with its policy

ASSUME BatchesAssumption ==
  \A b \in Batches :
    /\ IsBatch(b) /\ b.required # {}
    /\ \A i, j \in DOMAIN b.erp :
         b.erp[i].doc = b.erp[j].doc /\ b.erp[i].ref = b.erp[j].ref => i = j

VARIABLES
  batch,     \* the events of the run; never changes
  cases,     \* reference -> the case of that settlement, for those analysed
  orphans,   \* the bank rows and journals the orphan cases are about
  stage,     \* "match", "gate", "decided", or "raised"
  decisions  \* reference -> what the gate and the exception factory say of its case

vars == <<batch, cases, orphans, stage, decisions>>

-----------------------------------------------------------------------------
References == DOMAIN batch.gateway

\* Slip: a settlement without a SETTLEMENT row is skipped.
PendingWithRow == {r \in References \ DOMAIN cases : batch.gateway[r].rows # 0}

\* The settlements still to be matched.
Pending == References \ DOMAIN cases

\* Slip: a case with several journals does not keep them.
FreeErpUnlessDuplicate ==
  DOMAIN batch.erp \ UNION {cases[r].erp : r \in {q \in DOMAIN cases : Cardinality(cases[q].erp) = 1}}

FreeErp == DOMAIN batch.erp \ UNION {cases[r].erp : r \in DOMAIN cases}

\* Slip: only a case without a doubt keeps its bank rows.
FreeBankUnlessDoubtful ==
  DOMAIN batch.bank \ UNION {cases[r].bank : r \in {q \in DOMAIN cases : cases[q].unique}}

FreeBank == DOMAIN batch.bank \ UNION {cases[r].bank : r \in DOMAIN cases}

Init ==
  /\ batch \in Batches
  /\ cases = [r \in {} |-> {}]
  /\ orphans = [bank |-> {}, erp |-> {}]
  /\ stage = "match"
  /\ decisions = [r \in {} |-> {}]

\* One iteration of the loop of reconcile(): the next settlement in the order.
Analyze ==
  /\ stage = "match"
  /\ \E r \in Pending :
       /\ \A q \in Pending : r <= q
       /\ cases' = [q \in DOMAIN cases \cup {r} |->
                      IF q = r THEN CaseOf(batch, r, FreeBank) ELSE cases[q]]
  /\ UNCHANGED <<batch, orphans, stage, decisions>>

\* _orphan_proposals.  An orphan case is always ambiguous: the gate never proves it.
FileOrphans ==
  /\ stage = "match" /\ Pending = {}
  /\ orphans' = [bank |-> FreeBank, erp |-> FreeErp]
  /\ stage' = "gate"
  /\ UNCHANGED <<batch, cases, decisions>>

\* The risk gate accepts every case, and the exceptions are made.
Decide ==
  /\ stage = "gate" /\ \A r \in References : ~Refused(cases[r], batch.required)
  /\ decisions' = [r \in References |-> [level |-> ProofLevel(cases[r], batch.required),
                                         filed |-> FiledUnder(cases[r], batch.required)]]
  /\ stage' = "decided"
  /\ UNCHANGED <<batch, cases, orphans>>

\* A decision is refused, and the exception leaves reconcile() without a result.
Refuse ==
  /\ stage = "gate" /\ \E r \in References : Refused(cases[r], batch.required)
  /\ stage' = "raised"
  /\ UNCHANGED <<batch, cases, orphans, decisions>>

Next == Analyze \/ FileOrphans \/ Decide \/ Refuse

Spec == Init /\ [][Next]_vars

-----------------------------------------------------------------------------
(***************************************************************************)
(* Properties.                                                             *)
(***************************************************************************)
Cases ==
  [bank : SUBSET DOMAIN batch.bank, erp : SUBSET DOMAIN batch.erp, passed : SUBSET Checks,
   reasons : SUBSET Reasons,
   unique : BOOLEAN, ambiguous : BOOLEAN, invalid : BOOLEAN]

\* The types of the variables; once the loop of reconcile() has ended every
\* settlement has a case, and only then are there orphans and decisions.
TypeOK ==
  /\ DOMAIN cases \subseteq References
  /\ cases \in [DOMAIN cases -> Cases]
  /\ orphans \in [bank : SUBSET DOMAIN batch.bank, erp : SUBSET DOMAIN batch.erp]
  /\ stage \in {"match", "gate", "decided", "raised"}
  /\ stage # "match" => DOMAIN cases = References
  /\ stage = "match" => orphans = [bank |-> {}, erp |-> {}]
  /\ decisions \in [IF stage = "decided" THEN References ELSE {} -> [level : Levels, filed : Filings]]

\* consumed_bank and consumed_erp of reconcile(): no bank row and no journal
\* is evidence of two cases, and in the end every one belongs to a case or is
\* an orphan, so nothing that was imported drops out of the result.
EvidenceUsedOnce ==
  LET bank == UNION {cases[r].bank : r \in DOMAIN cases}
      erp == UNION {cases[r].erp : r \in DOMAIN cases}
  IN
  /\ \A q, r \in DOMAIN cases : q # r => /\ cases[q].bank \cap cases[r].bank = {}
                                       /\ cases[q].erp \cap cases[r].erp = {}
  /\ bank \cap orphans.bank = {} /\ erp \cap orphans.erp = {}
  /\ stage # "match" => /\ bank \cup orphans.bank = DOMAIN batch.bank
                        /\ erp \cup orphans.erp = DOMAIN batch.erp

Level(r) == decisions[r].level

Cleared(r) == r \in DOMAIN decisions /\ Level(r) = "PROVED" /\ AutoClear

\* The rows left for settlement r by the settlements before it.
LeftFor(r) == DOMAIN batch.bank \ UNION {cases[q].bank : q \in {p \in References : p < r}}

\* The groups of any size, among the credits in the window that are left for r,
\* that pay its amount.
PayingGroups(r) ==
  {S \in SUBSET BankCandidates(batch, r, LeftFor(r)) : AmountOf(batch, S) = batch.gateway[r].net}

(***************************************************************************)
(* What clearing a settlement means, said without the search: one          *)
(* SETTLEMENT row that agrees with its components; the rows that carry its *)
(* UTR are credits in the window, no more of these than policy allows,     *)
(* which together pay exactly its amount; no other rows, however many,     *)
(* could have paid it; and one journal under its reference balances and    *)
(* posts its amounts.                                                      *)
(***************************************************************************)
PaidWithoutDoubt(r) ==
  LET g       == batch.gateway[r]
      holders == WithUtr(batch, g.utr, LeftFor(r))
  IN
  /\ g.rows = 1 /\ g.net = g.gross - g.fee - g.tax
  /\ holders # {} /\ PayingGroups(r) = {holders}
  /\ Cardinality(BankCandidates(batch, r, LeftFor(r))) <= MaxCandidates

PostedCorrectly(r) ==
  LET g == batch.gateway[r] IN
  \E j \in Journals(batch, r) :
    LET posted == batch.erp[j] IN
    /\ Journals(batch, r) = {j}
    /\ posted.bank + posted.fee + posted.tax + posted.other = posted.clearing
    /\ posted.bank = g.net /\ posted.clearing = g.gross
    /\ posted.fee = g.fee /\ posted.tax = g.tax

\* No group that pays r is too large to be looked at.
GroupsAreSearched(r) == \A S \in PayingGroups(r) : Cardinality(S) <= MaxGroupSize

\* The documents with lines under r balance as a whole.  Their lines without a
\* reference are a journal under one that no settlement has.
DocumentsBalance(r) ==
  \A j \in Journals(batch, r) :
    SumFunctionOnSet(
      [k \in DOMAIN batch.erp |-> LET e == batch.erp[k] IN
                                   e.bank + e.fee + e.tax + e.other - e.clearing],
      {k \in DOMAIN batch.erp : batch.erp[k].doc = batch.erp[j].doc}) = 0

\* The risk gate and the constructor of ReconciliationDecision, whatever the
\* policy requires: a settlement is cleared only when the bank rows its case
\* takes are credits in the window, carry its UTR and pay its amount, and
\* its journal posts it correctly.
ClearedIsPaidAndPosted ==
  \A r \in References :
    Cleared(r) =>
      LET g == batch.gateway[r]
          rows == cases[r].bank
      IN
      /\ g.rows = 1 /\ g.net = g.gross - g.fee - g.tax
      /\ rows # {} /\ rows \subseteq LeftFor(r)
      /\ \A x \in rows : batch.bank[x].credit /\ InWindow(batch, r, x) /\ batch.bank[x].utr = g.utr
      /\ AmountOf(batch, rows) = g.net
      /\ PostedCorrectly(r)

\* analyze_settlement, amount_groups and decide together: among settlements whose
\* documents balance and whose groups are searched, exactly those are cleared that
\* are paid without doubt and posted correctly.  The order of the ids, the number of
\* candidates, the groups after which the search stops and the override for duplicate
\* identifiers neither clear another one nor hold such a one back.  Of the others the
\* code clears some that it should not: those on the balanced part of a document that
\* does not balance, and those that a group too large to be looked at pays as well.
ClearedIffDeserved ==
  stage = "decided" /\ AutoClear /\ batch.required \subseteq Checks =>
    \A r \in References :
      DocumentsBalance(r) /\ GroupsAreSearched(r) =>
        (Cleared(r) <=> PaidWithoutDoubt(r) /\ PostedCorrectly(r))

\* create_exception: a case is filed if and only if it is not proved, and
\* under UNKNOWN_UNRESOLVED only when its gateway has no SETTLEMENT row, the
\* one thing wrong is that a bank row is a debit, for which analyze_settlement
\* has no reason code, or the policy requires a check that there is not, which
\* load_policy lets pass.  Everything else that fails is named.
FailureIsNamed ==
  \A r \in DOMAIN decisions :
    /\ decisions[r].filed = "NONE" <=> Level(r) = "PROVED"
    /\ decisions[r].filed = "UNKNOWN_UNRESOLVED" =>
         \/ batch.gateway[r].rows = 0
         \/ Checks \ cases[r].passed = {"BANK_RECEIPT_DIRECTION"}
         \/ ~(batch.required \subseteq Checks)

(***************************************************************************)
(* What a test of the repository says of the kernel, and the code does not *)
(* do.                                                                     *)
(***************************************************************************)

\* "A duplicated exact identifier with a conflicting amount is a contradiction,
\* even when one of the two rows would have matched perfectly on its own": when
\* several bank rows carry the UTR of a settlement and do not add up to it, it
\* is not cleared.
DuplicateNeverCleared ==
  \A r \in References :
    LET holders == WithUtr(batch, ExpectedUtr(batch, r), DOMAIN batch.bank) IN
    Cardinality(holders) > 1 /\ AmountOf(batch, holders) # batch.gateway[r].net => ~Cleared(r)
=============================================================================
