---------------------- MODULE SettlementMatchingProofs ----------------------
(***************************************************************************)
(* Theorems about SettlementMatching for every set of batches and every    *)
(* policy.                                                                 *)
(*                                                                         *)
(* The kernel has one strong invariant: the case of an analysed settlement *)
(* is the one CaseOf gives for the rows that the settlements before it     *)
(* have left.  What is proved of SelectBank and CaseOf then holds of every *)
(* case.  That a proved case is one that deserves it, and the reverse,     *)
(* rests on the order in which groups are tried (Before) and on the sums   *)
(* of positive amounts.                                                    *)
(***************************************************************************)
EXTENDS SettlementMatching, SettlementRulesProofs

LEMMA BatchLemma == \A b \in Batches : IsBatch(b)
BY BatchesAssumption

-----------------------------------------------------------------------------
(***************************************************************************)
(* The invariant: every variable is a function of the batch and of how     *)
(* far the loop has come.                                                  *)
(***************************************************************************)
CasesInOrder ==
  /\ cases = [r \in DOMAIN cases |-> cases[r]]
  /\ DOMAIN cases \subseteq References
  /\ \A r \in DOMAIN cases, q \in References : q < r => q \in DOMAIN cases
  /\ \A r \in DOMAIN cases : cases[r] = CaseOf(batch, r, LeftFor(r))

StagesInOrder ==
  /\ stage \in {"match", "gate", "decided", "raised"}
  /\ stage # "match" => DOMAIN cases = References
  /\ stage = "match" => orphans = [bank |-> {}, erp |-> {}]
  /\ stage # "match" => orphans = [bank |-> FreeBank, erp |-> FreeErp]

DecisionsFollow ==
  /\ stage # "decided" => decisions = [r \in {} |-> {}]
  /\ stage = "decided" =>
       /\ decisions = [r \in References |-> [level |-> ProofLevel(cases[r], batch.required),
                                             filed |-> FiledUnder(cases[r], batch.required)]]
       /\ \A r \in References : ~Refused(cases[r], batch.required)

IInv == batch \in Batches /\ CasesInOrder /\ StagesInOrder /\ DecisionsFollow

\* What the next settlement finds is what the ones before it have left.
LEMMA NextFindsRest ==
  ASSUME IInv, NEW r \in Pending, \A q \in Pending : r <= q
  PROVE  FreeBank = LeftFor(r) /\ DOMAIN cases = {q \in References : q < r}
<1>1. References \subseteq Nat
  BY BatchLemma DEF IInv, IsBatch, References
<1>2. \A q \in DOMAIN cases : q < r
  BY <1>1 DEF IInv, CasesInOrder, Pending
<1>3. \A q \in References : q < r => q \in DOMAIN cases
  BY <1>1 DEF Pending
<1>4. DOMAIN cases = {q \in References : q < r}
  BY <1>2, <1>3 DEF IInv, CasesInOrder
<1> QED
  BY <1>4 DEF FreeBank, LeftFor

LEMMA InitIInv == Init => IInv
<1> SUFFICES ASSUME Init PROVE IInv
  OBVIOUS
<1>1. cases = [r \in {} |-> {}] /\ DOMAIN cases = {}
  BY DEF Init
<1>2. CasesInOrder
  BY <1>1 DEF CasesInOrder
<1>3. StagesInOrder /\ DecisionsFollow
  BY DEF Init, StagesInOrder, DecisionsFollow
<1> QED
  BY <1>2, <1>3 DEF Init, IInv

LEMMA AnalyzeIInv == IInv /\ Analyze => IInv'
<1> SUFFICES ASSUME IInv, Analyze PROVE IInv'
  OBVIOUS
<1>1. PICK r \in Pending :
        /\ \A q \in Pending : r <= q
        /\ cases' = [q \in DOMAIN cases \cup {r} |->
                       IF q = r THEN CaseOf(batch, r, FreeBank) ELSE cases[q]]
  BY DEF Analyze
<1>2. FreeBank = LeftFor(r) /\ DOMAIN cases = {q \in References : q < r}
  BY <1>1, NextFindsRest
<1>3. UNCHANGED <<batch, orphans, stage, decisions>> /\ stage = "match"
  BY DEF Analyze
<1>4. References' = References /\ r \in References /\ r \notin DOMAIN cases
  BY <1>1, <1>3 DEF References, Pending
<1>5. References \subseteq Nat
  BY BatchLemma DEF IInv, IsBatch, References
<1>6. DOMAIN cases' = DOMAIN cases \cup {r}
  BY <1>1
<1>7. cases'[r] = CaseOf(batch, r, LeftFor(r))
  BY <1>1, <1>2
<1>8. \A q \in DOMAIN cases : cases'[q] = cases[q]
  BY <1>1, <1>4
<1>9. \A q \in DOMAIN cases' : LeftFor(q)' = LeftFor(q)
  <2> SUFFICES ASSUME NEW q \in DOMAIN cases' PROVE LeftFor(q)' = LeftFor(q)
    OBVIOUS
  <2>1. \A p \in References : p < q => p \in DOMAIN cases
    BY <1>2, <1>4, <1>5, <1>6 DEF IInv, CasesInOrder
  <2>2. \A p \in References : p < q => cases'[p] = cases[p]
    BY <1>8, <2>1
  <2>3. UNION {cases[p].bank : p \in {o \in References : o < q}}
          = UNION {cases'[p].bank : p \in {o \in References' : o < q}}
    BY <1>4, <2>2
  <2> QED
    BY <1>3, <2>3 DEF LeftFor
<1>10. CasesInOrder'
  <2>1. cases' = [q \in DOMAIN cases' |-> cases'[q]]
    BY <1>1
  <2>2. DOMAIN cases' \subseteq References'
    BY <1>4, <1>6 DEF IInv, CasesInOrder
  <2>3. \A p \in DOMAIN cases', q \in References' : q < p => q \in DOMAIN cases'
    BY <1>2, <1>4, <1>6 DEF IInv, CasesInOrder
  <2>4. \A q \in DOMAIN cases' : cases'[q] = CaseOf(batch, q, LeftFor(q))
    BY <1>6, <1>7, <1>8 DEF IInv, CasesInOrder
  <2>5. \A q \in DOMAIN cases' : cases'[q] = CaseOf(batch', q, LeftFor(q)')
    BY <1>3, <1>9, <2>4
  <2> QED
    BY <2>1, <2>2, <2>3, <2>5 DEF CasesInOrder
<1>11. StagesInOrder'
  BY <1>3 DEF IInv, StagesInOrder
<1>12. DecisionsFollow'
  BY <1>3 DEF IInv, DecisionsFollow
<1> QED
  BY <1>3, <1>10, <1>11, <1>12 DEF IInv

LEMMA CasesKept ==
  ASSUME CasesInOrder, UNCHANGED <<batch, cases>>
  PROVE  CasesInOrder' /\ References' = References /\ FreeBank' = FreeBank /\ FreeErp' = FreeErp
BY DEF CasesInOrder, References, LeftFor, FreeBank, FreeErp

LEMMA NextIInv == IInv /\ [Next]_vars => IInv'
<1> SUFFICES ASSUME IInv, [Next]_vars PROVE IInv'
  OBVIOUS
<1>1. CASE Analyze
  BY <1>1, AnalyzeIInv
<1>2. CASE FileOrphans
  <2>1. UNCHANGED <<batch, cases, decisions>> /\ stage = "match" /\ stage' = "gate"
        /\ Pending = {} /\ orphans' = [bank |-> FreeBank, erp |-> FreeErp]
    BY <1>2 DEF FileOrphans
  <2>2. CasesInOrder' /\ References' = References /\ FreeBank' = FreeBank /\ FreeErp' = FreeErp
    BY <2>1, CasesKept DEF IInv
  <2>3. DOMAIN cases = References
    BY <2>1 DEF Pending, IInv, CasesInOrder
  <2>4. StagesInOrder'
    BY <2>1, <2>2, <2>3 DEF StagesInOrder
  <2>5. DecisionsFollow'
    BY <2>1 DEF DecisionsFollow, IInv
  <2> QED
    BY <2>1, <2>2, <2>4, <2>5 DEF IInv
<1>3. CASE Decide
  <2>1. /\ UNCHANGED <<batch, cases, orphans>> /\ stage = "gate" /\ stage' = "decided"
        /\ \A r \in References : ~Refused(cases[r], batch.required)
        /\ decisions' = [r \in References |-> [level |-> ProofLevel(cases[r], batch.required),
                                               filed |-> FiledUnder(cases[r], batch.required)]]
    BY <1>3 DEF Decide
  <2>2. CasesInOrder' /\ References' = References /\ FreeBank' = FreeBank /\ FreeErp' = FreeErp
    BY <2>1, CasesKept DEF IInv
  <2>3. StagesInOrder'
    BY <2>1, <2>2 DEF IInv, StagesInOrder
  <2>4. DecisionsFollow'
    BY <2>1, <2>2 DEF DecisionsFollow
  <2> QED
    BY <2>1, <2>2, <2>3, <2>4 DEF IInv
<1>4. CASE Refuse
  <2>1. UNCHANGED <<batch, cases, orphans, decisions>> /\ stage = "gate" /\ stage' = "raised"
    BY <1>4 DEF Refuse
  <2>2. CasesInOrder' /\ References' = References /\ FreeBank' = FreeBank /\ FreeErp' = FreeErp
    BY <2>1, CasesKept DEF IInv
  <2>3. StagesInOrder'
    BY <2>1, <2>2 DEF IInv, StagesInOrder
  <2>4. DecisionsFollow'
    BY <2>1 DEF IInv, DecisionsFollow
  <2> QED
    BY <2>1, <2>2, <2>3, <2>4 DEF IInv
<1>5. CASE UNCHANGED vars
  <2>1. UNCHANGED <<batch, cases, orphans, stage, decisions>>
    BY <1>5 DEF vars
  <2>2. CasesInOrder' /\ References' = References /\ FreeBank' = FreeBank /\ FreeErp' = FreeErp
    BY <2>1, CasesKept DEF IInv
  <2>3. StagesInOrder'
    BY <2>1, <2>2 DEF IInv, StagesInOrder
  <2>4. DecisionsFollow'
    BY <2>1, <2>2 DEF IInv, DecisionsFollow
  <2> QED
    BY <2>1, <2>2, <2>3, <2>4 DEF IInv
<1> QED
  BY <1>1, <1>2, <1>3, <1>4, <1>5 DEF Next

\* The invariant of the kernel.
THEOREM Invariant == Spec => []IInv
BY InitIInv, NextIInv, PTL DEF Spec

-----------------------------------------------------------------------------
(***************************************************************************)
(* Safety.                                                                 *)
(***************************************************************************)
LEMMA LeftForType ==
  ASSUME NEW r
  PROVE  LeftFor(r) \subseteq DOMAIN batch.bank
BY DEF LeftFor

LEMMA IInvTypeOK == IInv => TypeOK
<1> SUFFICES ASSUME IInv PROVE TypeOK
  OBVIOUS
<1>1. IsBatch(batch)
  BY BatchLemma DEF IInv
<1>2. \A r \in DOMAIN cases : cases[r] \in Cases
  <2> SUFFICES ASSUME NEW r \in DOMAIN cases PROVE cases[r] \in Cases
    OBVIOUS
  <2>1. cases[r] = CaseOf(batch, r, LeftFor(r)) /\ r \in DOMAIN batch.gateway
    BY DEF IInv, CasesInOrder, References
  <2>2. CaseOf(batch, r, LeftFor(r)) \in
          [bank : SUBSET LeftFor(r), erp : SUBSET DOMAIN batch.erp, passed : SUBSET Checks,
           reasons : SUBSET Reasons,
           unique : BOOLEAN, ambiguous : BOOLEAN, invalid : BOOLEAN]
    BY <1>1, <2>1, LeftForType, CaseTypeLemma
  <2>3. SUBSET LeftFor(r) \subseteq SUBSET DOMAIN batch.bank
    BY LeftForType
  <2> QED
    BY <2>1, <2>2, <2>3 DEF Cases
<1>3. cases \in [DOMAIN cases -> Cases]
  BY <1>2 DEF IInv, CasesInOrder
<1>4. orphans \in [bank : SUBSET DOMAIN batch.bank, erp : SUBSET DOMAIN batch.erp]
  BY DEF IInv, StagesInOrder, FreeBank, FreeErp
<1>5. decisions \in [IF stage = "decided" THEN References ELSE {} -> [level : Levels, filed : Filings]]
  <2>1. CASE stage # "decided"
    BY <2>1 DEF IInv, DecisionsFollow
  <2>2. CASE stage = "decided"
    <3>1. \A r \in References : ProofLevel(cases[r], batch.required) \in Levels /\ FiledUnder(cases[r], batch.required) \in Filings
      BY FiledUnderType DEF ProofLevel, Levels
    <3>2. decisions = [r \in References |-> [level |-> ProofLevel(cases[r], batch.required),
                                             filed |-> FiledUnder(cases[r], batch.required)]]
      BY <2>2 DEF IInv, DecisionsFollow
    <3> QED
      BY <2>2, <3>1, <3>2
  <2> QED
    BY <2>1, <2>2
<1> QED
  BY <1>3, <1>4, <1>5 DEF TypeOK, IInv, CasesInOrder, StagesInOrder

\* TypeOK: the types of the variables, and every settlement has a case once
\* the loop has ended.
THEOREM TypeCorrect == Spec => []TypeOK
BY Invariant, IInvTypeOK, PTL

LEMMA IInvEvidenceUsedOnce == IInv => EvidenceUsedOnce
<1> SUFFICES ASSUME IInv PROVE EvidenceUsedOnce
  OBVIOUS
<1> DEFINE bank == UNION {cases[r].bank : r \in DOMAIN cases}
           erp == UNION {cases[r].erp : r \in DOMAIN cases}
<1>1. IsBatch(batch)
  BY BatchLemma DEF IInv
<1>2. \A r \in DOMAIN cases : cases[r].bank \subseteq LeftFor(r) /\ cases[r].erp = Journals(batch, r)
  <2> SUFFICES ASSUME NEW r \in DOMAIN cases
               PROVE  cases[r].bank \subseteq LeftFor(r) /\ cases[r].erp = Journals(batch, r)
    OBVIOUS
  <2>1. cases[r] = CaseOf(batch, r, LeftFor(r)) /\ r \in DOMAIN batch.gateway
    BY DEF IInv, CasesInOrder, References
  <2> QED
    BY <1>1, <2>1, LeftForType, CaseTypeLemma
<1>3. \A q, r \in DOMAIN cases : q < r => cases[q].bank \cap cases[r].bank = {}
  BY <1>2 DEF LeftFor, IInv, CasesInOrder
<1>4. DOMAIN cases \subseteq Nat
  BY <1>1 DEF IInv, CasesInOrder, References, IsBatch
<1>5. \A q, r \in DOMAIN cases : q # r => cases[q].bank \cap cases[r].bank = {}
  <2> SUFFICES ASSUME NEW q \in DOMAIN cases, NEW r \in DOMAIN cases, q # r
               PROVE  cases[q].bank \cap cases[r].bank = {}
    OBVIOUS
  <2>1. q < r \/ r < q
    BY <1>4
  <2> QED
    BY <1>3, <2>1
<1>6. \A q, r \in DOMAIN cases : q # r => cases[q].erp \cap cases[r].erp = {}
  BY <1>2 DEF Journals
<1>7. bank \subseteq DOMAIN batch.bank /\ erp \subseteq DOMAIN batch.erp
  <2>1. \A r \in DOMAIN cases : cases[r].bank \subseteq DOMAIN batch.bank
    BY <1>2, LeftForType
  <2>2. \A r \in DOMAIN cases : cases[r].erp \subseteq DOMAIN batch.erp
    BY <1>2 DEF Journals
  <2> QED
    BY <2>1, <2>2
<1>8. /\ stage = "match" => orphans.bank = {} /\ orphans.erp = {}
      /\ stage # "match" => /\ orphans.bank = DOMAIN batch.bank \ bank
                            /\ orphans.erp = DOMAIN batch.erp \ erp
  BY DEF IInv, StagesInOrder, FreeBank, FreeErp
<1> HIDE DEF bank, erp
<1>9. bank \cap orphans.bank = {} /\ erp \cap orphans.erp = {}
  BY <1>8
<1>10. stage # "match" => /\ bank \cup orphans.bank = DOMAIN batch.bank
                          /\ erp \cup orphans.erp = DOMAIN batch.erp
  BY <1>7, <1>8
<1> QED
  BY <1>5, <1>6, <1>9, <1>10 DEF EvidenceUsedOnce, bank, erp

\* EvidenceUsedOnce: no bank row and no journal is evidence of two cases, and
\* in the end each belongs to a case or is an orphan.
THEOREM EvidenceIsUsedOnce == Spec => []EvidenceUsedOnce
BY Invariant, IInvEvidenceUsedOnce, PTL

LEMMA IInvCleared == IInv => ClearedIsPaidAndPosted
<1> SUFFICES ASSUME IInv, NEW r \in References, Cleared(r)
             PROVE  LET g == batch.gateway[r]
                        rows == cases[r].bank
                    IN
                    /\ g.rows = 1 /\ g.net = g.gross - g.fee - g.tax
                    /\ rows # {} /\ rows \subseteq LeftFor(r)
                    /\ \A x \in rows : batch.bank[x].credit /\ InWindow(batch, r, x)
                                       /\ batch.bank[x].utr = g.utr
                    /\ AmountOf(batch, rows) = g.net
                    /\ PostedCorrectly(r)
  BY DEF ClearedIsPaidAndPosted
<1> DEFINE g == batch.gateway[r]
<1>1. IsBatch(batch) /\ r \in DOMAIN batch.gateway
  BY BatchLemma DEF IInv, References
<1>2. stage = "decided"
  BY DEF IInv, DecisionsFollow, Cleared
<1>3. r \in DOMAIN cases /\ cases[r] = CaseOf(batch, r, LeftFor(r))
  BY <1>2 DEF IInv, StagesInOrder, CasesInOrder
<1>4. ProofLevel(cases[r], batch.required) = "PROVED" /\ ~Refused(cases[r], batch.required)
  BY <1>2 DEF IInv, DecisionsFollow, Cleared, Level
<1>5. cases[r].passed = Checks
  BY <1>4 DEF Refused
<1>6. /\ g.rows = 1 /\ ExpectedNet(g) = g.net
      /\ cases[r].bank # {}
      /\ \A x \in cases[r].bank : batch.bank[x].credit /\ InWindow(batch, r, x)
                                  /\ batch.bank[x].utr = g.utr
      /\ AmountOf(batch, cases[r].bank) = g.net
      /\ \E j : /\ Journals(batch, r) = {j}
                /\ Imbalance(batch.erp[j]) = 0
                /\ batch.erp[j].bank = g.net /\ batch.erp[j].clearing = g.gross
                /\ batch.erp[j].fee = g.fee /\ batch.erp[j].tax = g.tax
  BY <1>1, <1>3, <1>5, LeftForType, CaseProofLemma
<1>7. cases[r].bank \subseteq LeftFor(r)
  BY <1>1, <1>3, LeftForType, CaseTypeLemma
<1>8. PostedCorrectly(r)
  <2>1. PICK j : /\ Journals(batch, r) = {j}
                 /\ Imbalance(batch.erp[j]) = 0
                 /\ batch.erp[j].bank = g.net /\ batch.erp[j].clearing = g.gross
                 /\ batch.erp[j].fee = g.fee /\ batch.erp[j].tax = g.tax
    BY <1>6
  <2>2. j \in DOMAIN batch.erp
    BY <2>1 DEF Journals
  <2>3. batch.erp[j] \in Journal
    BY <1>1, <2>2 DEF IsBatch
  <2>4. batch.erp[j].bank + batch.erp[j].fee + batch.erp[j].tax + batch.erp[j].other
          = batch.erp[j].clearing
    BY <2>1, <2>3, BalancedSums
  <2> QED
    BY <2>1, <2>4 DEF PostedCorrectly
<1>9. g.net = g.gross - g.fee - g.tax
  BY <1>6 DEF ExpectedNet
<1> QED
  BY <1>6, <1>7, <1>8, <1>9

\* ClearedIsPaidAndPosted: whatever checks the policy requires, a settlement
\* is cleared only when credits in the window that carry its UTR pay exactly
\* its amount and its one journal balances and posts its amounts.
THEOREM ClearedOnlyWhenPaidAndPosted == Spec => []ClearedIsPaidAndPosted
BY Invariant, IInvCleared, PTL

LEMMA IInvFailure == IInv => FailureIsNamed
<1> SUFFICES ASSUME IInv, NEW r \in DOMAIN decisions
             PROVE  /\ decisions[r].filed = "NONE" <=> Level(r) = "PROVED"
                    /\ decisions[r].filed = "UNKNOWN_UNRESOLVED" =>
                         \/ batch.gateway[r].rows = 0
                         \/ Checks \ cases[r].passed = {"BANK_RECEIPT_DIRECTION"}
                         \/ ~(batch.required \subseteq Checks)
  BY DEF FailureIsNamed
<1> DEFINE c == cases[r]
           required == batch.required
<1>1. IsBatch(batch)
  BY BatchLemma DEF IInv
<1>2. stage = "decided" /\ r \in References
  BY DEF IInv, DecisionsFollow
<1>3. r \in DOMAIN batch.gateway /\ c = CaseOf(batch, r, LeftFor(r))
  BY <1>2 DEF IInv, StagesInOrder, CasesInOrder, References
<1>4. Level(r) = ProofLevel(c, required) /\ decisions[r].filed = FiledUnder(c, required)
  BY <1>2 DEF IInv, DecisionsFollow, Level
<1>5. c.reasons \subseteq Reasons /\ c.passed \subseteq Checks
  BY <1>1, <1>3, LeftForType, CaseTypeLemma
<1>6. /\ FiledUnder(c, required) = "NONE" <=> ProofLevel(c, required) = "PROVED"
      /\ FiledUnder(c, required) = "UNKNOWN_UNRESOLVED" =>
           /\ ProofLevel(c, required) # "PROVED"
           /\ "UNKNOWN_UNRESOLVED" \in c.reasons \/ c.reasons = {}
  BY <1>5, FilingLemma
<1>7. ASSUME "UNKNOWN_UNRESOLVED" \in c.reasons PROVE batch.gateway[r].rows = 0
  BY <1>3, <1>7, UnknownLemma
<1>8. ASSUME c.reasons = {}, ProofLevel(c, required) # "PROVED", required \subseteq Checks
      PROVE  Checks \ c.passed = {"BANK_RECEIPT_DIRECTION"}
  <2>1. /\ Checks \ {"BANK_RECEIPT_DIRECTION"} \subseteq c.passed
        /\ c.unique /\ ~c.ambiguous /\ ~c.invalid
    BY <1>1, <1>3, <1>8, LeftForType, NoReasonLemma
  <2>2. ~(required \subseteq c.passed)
    BY <1>8, <2>1 DEF ProofLevel
  <2>3. "BANK_RECEIPT_DIRECTION" \in Checks
    BY DEF Checks
  <2> QED
    BY <1>8, <2>1, <2>2, <2>3
<1> HIDE DEF c, required
<1> QED
  BY <1>4, <1>6, <1>7, <1>8 DEF c, required

\* FailureIsNamed: for every batch and policy, a case is filed exactly when it
\* is not proved, and as unknown only when its gateway has no SETTLEMENT row,
\* a bank row is a debit, or the policy asks for a check that there is not.
THEOREM FailureAlwaysNamed == Spec => []FailureIsNamed
BY Invariant, IInvFailure, PTL

\* Within its bounds the search is exact, whatever else there is: without a premise on
\* documents or groups, Paid says of r what the groups that are looked at decide.
LEMMA ClearedExactly ==
  ASSUME IInv, stage = "decided", AutoClear, batch.required \subseteq Checks, NEW r \in References
  PROVE  Cleared(r) <=> Paid(batch, r, LeftFor(r)) /\ PostedCorrectly(r)
<1> DEFINE c == CaseOf(batch, r, LeftFor(r))
           required == batch.required
<1>1. IsBatch(batch) /\ r \in DOMAIN batch.gateway /\ LeftFor(r) \subseteq DOMAIN batch.bank
  BY BatchLemma, LeftForType DEF IInv, References
<1>2. cases[r] = c /\ ~Refused(c, required)
  BY DEF IInv, StagesInOrder, CasesInOrder, DecisionsFollow
<1>3. Cleared(r) <=> ProofLevel(c, required) = "PROVED"
  <2>1. r \in DOMAIN decisions /\ decisions[r].level = ProofLevel(c, required)
    BY <1>2 DEF IInv, DecisionsFollow
  <2>2. QED
    BY <2>1 DEF Cleared, Level
<1>4. ASSUME Cleared(r) PROVE Paid(batch, r, LeftFor(r)) /\ PostedCorrectly(r)
  <2> HIDE DEF c
  <2>1. c.passed = Checks /\ "DUPLICATE_IDENTIFIER" \notin c.reasons
    BY <1>2, <1>3, <1>4 DEF Refused, ProofLevel, HardContradictions
  <2>2. Paid(batch, r, LeftFor(r))
    BY <1>1, <2>1, ProvedIsPaid DEF c
  <2>3. PostedCorrectly(r)
    BY <1>4, IInvCleared DEF ClearedIsPaidAndPosted
  <2>4. QED
    BY <2>2, <2>3
<1>5. ASSUME Paid(batch, r, LeftFor(r)), PostedCorrectly(r) PROVE Cleared(r)
  <2> DEFINE g == batch.gateway[r]
  <2>1. PICK j : /\ Journals(batch, r) = {j}
                 /\ batch.erp[j].bank + batch.erp[j].fee + batch.erp[j].tax + batch.erp[j].other
                      = batch.erp[j].clearing
                 /\ batch.erp[j].bank = g.net /\ batch.erp[j].clearing = g.gross
                 /\ batch.erp[j].fee = g.fee /\ batch.erp[j].tax = g.tax
    BY <1>5 DEF PostedCorrectly
  <2>2. Imbalance(batch.erp[j]) = 0
    <3>1. j \in DOMAIN batch.erp
      BY <2>1 DEF Journals
    <3>2. batch.erp[j] \in Journal
      BY <1>1, <3>1 DEF IsBatch
    <3>3. QED
      BY <2>1, <3>2 DEF Journal, Imbalance
  <2> HIDE DEF c
  <2>3. ProofLevel(c, required) = "PROVED"
    BY <1>1, <1>5, <2>1, <2>2, PaidIsProved DEF c
  <2>4. QED
    BY <1>3, <2>3
<1>6. QED
  BY <1>4, <1>5

\* Where the groups that pay r are looked at, what the search decides is what is so.
LEMMA SearchedIsPaid ==
  ASSUME NEW r, GroupsAreSearched(r)
  PROVE  PaidWithoutDoubt(r) <=> Paid(batch, r, LeftFor(r))
<1> DEFINE g == batch.gateway[r]
           holders == WithUtr(batch, g.utr, LeftFor(r))
           candidates == BankCandidates(batch, r, LeftFor(r))
<1>1. ASSUME PaidWithoutDoubt(r) PROVE Paid(batch, r, LeftFor(r))
  <2>1. holders \in PayingGroups(r)
    BY <1>1 DEF PaidWithoutDoubt
  <2>2. holders \subseteq candidates /\ AmountOf(batch, holders) = g.net
    BY <2>1 DEF PayingGroups
  <2>3. Cardinality(holders) <= MaxGroupSize
    BY <2>1 DEF GroupsAreSearched
  <2>4. ASSUME NEW S \in SUBSET candidates, AmountOf(batch, S) = g.net PROVE S = holders
    BY <1>1, <2>4 DEF PaidWithoutDoubt, PayingGroups
  <2> QED
    BY <1>1, <2>2, <2>3, <2>4 DEF PaidWithoutDoubt, Paid
<1>2. ASSUME Paid(batch, r, LeftFor(r)) PROVE PaidWithoutDoubt(r)
  <2>1. holders \in PayingGroups(r)
    BY <1>2 DEF Paid, PayingGroups
  <2>2. ASSUME NEW S \in PayingGroups(r) PROVE S = holders
    <3>1. Cardinality(S) <= MaxGroupSize
      BY <2>2 DEF GroupsAreSearched
    <3> QED
      BY <1>2, <2>2, <3>1 DEF Paid, PayingGroups
  <2>3. PayingGroups(r) = {holders}
    BY <2>1, <2>2
  <2> QED
    BY <1>2, <2>3 DEF Paid, PaidWithoutDoubt
<1> QED
  BY <1>1, <1>2

LEMMA IInvDeserved == IInv => ClearedIffDeserved
BY ClearedExactly, SearchedIsPaid DEF ClearedIffDeserved

\* ClearedIffDeserved: for every batch, every policy that requires only checks
\* there are and clears what is proved, and all bounds of the search, a
\* settlement whose documents balance and whose groups are searched is cleared
\* exactly when it is paid without doubt and posted correctly.
THEOREM ClearedExactlyWhenDeserved == Spec => []ClearedIffDeserved
BY Invariant, IInvDeserved, PTL
=============================================================================
