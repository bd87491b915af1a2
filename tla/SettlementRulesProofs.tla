----------------------- MODULE SettlementRulesProofs -----------------------
(***************************************************************************)
(* What the rules of the reconciliation kernel do, for every batch and     *)
(* every policy: the facts on which the proofs about SettlementMatching,   *)
(* which runs the rules over a batch, and about CorrectionLoop, which runs *)
(* them over a batch and its corrections, rest.                            *)
(***************************************************************************)
EXTENDS SettlementRules, FiniteSetLemmas

\* A finite set that is not empty and has at most one element is a singleton.
LEMMA SingletonLemma ==
  ASSUME NEW S, IsFiniteSet(S), S # {}, ~(Cardinality(S) > 1)
  PROVE  \E x \in S : S = {x}
<1>1. Cardinality(S) \in Nat
  BY FS_CardinalityType
<1>2. Cardinality(S) # 0
  BY FS_EmptySet
<1>3. Cardinality(S) = 1
  BY <1>1, <1>2
<1> QED
  BY <1>3, FS_Singleton

\* Min is the smallest member.
LEMMA MinLemma ==
  ASSUME NEW S, S \subseteq Nat, S # {}
  PROVE  Min(S) \in S /\ \A y \in S : Min(S) <= y
<1>1. \E x \in S : \A y \in S : x =< y
  BY SmallestLemma
<1>2. QED
  BY <1>1 DEF Min

\* The smallest member of a singleton, and the first group of one.
LEMMA MinSingleton ==
  ASSUME NEW x \in Int
  PROVE  Min({x}) = x
<1>1. \A y \in {x} : x =< y
  OBVIOUS
<1> QED
  BY <1>1 DEF Min

LEMMA FirstSingleton ==
  ASSUME NEW S, IsFiniteSet(S)
  PROVE  First({S}) = S
<1>1. Cardinality(S) \in Nat
  BY FS_CardinalityType
<1>2. ~Before(S, S)
  BY <1>1 DEF Before
<1> QED
  BY <1>2 DEF First

\* The amounts of a batch, as a function to sum over.
LEMMA AmountLemma ==
  ASSUME NEW b, IsBatch(b), NEW S, S \subseteq DOMAIN b.bank
  PROVE  /\ AmountOf(b, S) \in Int
         /\ \A T \in SUBSET S : T # S => AmountOf(b, T) < AmountOf(b, S)
         /\ AmountOf(b, {}) = 0
<1> DEFINE amounts == [x \in DOMAIN b.bank |-> b.bank[x].amount]
<1>1. IsFiniteSet(S)
  BY FS_Subset DEF IsBatch
<1>2. \A x \in S : amounts[x] \in Nat \ {0} /\ amounts[x] \in Int
  BY DEF IsBatch, BankRow
<1> HIDE DEF amounts
<1>3. \A T \in SUBSET S : SumFunctionOnSet(amounts, T) \in Int
  BY <1>1, <1>2, SumType
<1>4. \A T \in SUBSET S : T # S => SumFunctionOnSet(amounts, T) < SumFunctionOnSet(amounts, S)
  BY <1>1, <1>2, SumGrows
<1>5. SumFunctionOnSet(amounts, {}) = 0
  BY FS_EmptySet, SumUnfolds
<1>6. QED
  BY <1>3, <1>4, <1>5 DEF AmountOf, amounts

-----------------------------------------------------------------------------
(***************************************************************************)
(* SelectBank takes rows that are free, and unless the selection is        *)
(* ambiguous the rows it takes are those the checks are about.             *)
(***************************************************************************)
LEMMA FoundLemma ==
  ASSUME NEW b, IsBatch(b), NEW r, NEW candidates, candidates \subseteq DOMAIN b.bank
  PROVE  /\ FoundGroups(b, r, candidates) \subseteq SUBSET candidates
         /\ IsFiniteSet(FoundGroups(b, r, candidates))
         /\ \A S \in FoundGroups(b, r, candidates) : IsFiniteSet(S)
<1>1. IsFiniteSet(candidates)
  BY FS_Subset DEF IsBatch
<1>2. FoundGroups(b, r, candidates) \subseteq SUBSET candidates
  BY DEF FoundGroups, ValidGroups
<1>3. IsFiniteSet(SUBSET candidates)
  BY <1>1, FS_SUBSET
<1>4. IsFiniteSet(FoundGroups(b, r, candidates))
  BY <1>2, <1>3, FS_Subset
<1> QED
  BY <1>1, <1>2, <1>4, FS_Subset

LEMMA SelectionLemma ==
  ASSUME NEW b, IsBatch(b), NEW r \in DOMAIN b.gateway, NEW free, free \subseteq DOMAIN b.bank
  PROVE  LET sel == SelectBank(b, r, free) IN
         /\ sel.considered \subseteq free
         /\ sel.ambiguous \in BOOLEAN
         /\ ~sel.ambiguous => sel.group = sel.considered
<1> DEFINE exact      == WithUtr(b, b.gateway[r].utr, free)
           candidates == BankCandidates(b, r, free)
           bounded    == BoundedOut(candidates)
           found      == FoundGroups(b, r, candidates)
           conflict   == IdentifierConflict(b, r, free)
           several    == Cardinality(found) > 1
           many       == Cardinality(exact) > 1
<1>1. exact \subseteq free /\ candidates \subseteq free /\ IsFiniteSet(exact)
  <2>1. exact \subseteq free /\ candidates \subseteq free
    BY DEF WithUtr, BankCandidates
  <2> QED
    BY <2>1, FS_Subset DEF IsBatch
<1>2. /\ found \subseteq SUBSET candidates
      /\ IsFiniteSet(found)
      /\ \A S \in found : IsFiniteSet(S)
  BY <1>1, FoundLemma
<1>3. bounded \in BOOLEAN /\ several \in BOOLEAN /\ many \in BOOLEAN
  BY DEF BoundedOut
<1>4. found # {} /\ ~several => First(found) = UNION found
  <2> SUFFICES ASSUME found # {}, ~several PROVE First(found) = UNION found
    OBVIOUS
  <2>1. PICK S \in found : found = {S}
    BY <1>2, SingletonLemma
  <2>2. First(found) = S
    BY <1>2, <2>1, FirstSingleton
  <2> QED
    BY <2>1, <2>2
<1>5. exact # {} /\ ~many => {Min(exact)} = exact
  <2> SUFFICES ASSUME exact # {}, ~many PROVE {Min(exact)} = exact
    OBVIOUS
  <2>1. PICK x \in exact : exact = {x}
    BY <1>1, SingletonLemma
  <2>2. x \in Int
    BY <1>1 DEF IsBatch
  <2>3. Min({x}) = x
    BY <2>2, MinSingleton
  <2> QED
    BY <2>1, <2>3
<1> DEFINE sel == SelectBank(b, r, free)
<1>6. sel = IF conflict
              THEN [group |-> exact, considered |-> exact, ambiguous |-> FALSE \/ bounded]
            ELSE IF found # {}
              THEN [group |-> First(found), considered |-> UNION found, ambiguous |-> several \/ bounded]
            ELSE IF exact = {}
              THEN [group |-> {}, considered |-> {}, ambiguous |-> FALSE \/ bounded]
            ELSE [group |-> {Min(exact)}, considered |-> exact, ambiguous |-> many \/ bounded]
  BY DEF SelectBank
<1> HIDE DEF exact, candidates, bounded, found, conflict, several, many, sel
<1>7. CASE conflict
  BY <1>1, <1>3, <1>6, <1>7 DEF sel
<1>8. CASE ~conflict /\ found # {}
  <2>1. sel = [group |-> First(found), considered |-> UNION found, ambiguous |-> several \/ bounded]
    BY <1>6, <1>8
  <2>2. UNION found \subseteq free
    BY <1>1, <1>2
  <2> QED
    BY <1>3, <1>4, <1>8, <2>1, <2>2 DEF sel
<1>9. CASE ~conflict /\ found = {} /\ exact = {}
  BY <1>3, <1>6, <1>9 DEF sel
<1>10. CASE ~conflict /\ found = {} /\ exact # {}
  <2>1. sel = [group |-> {Min(exact)}, considered |-> exact, ambiguous |-> many \/ bounded]
    BY <1>6, <1>10
  <2> QED
    BY <1>1, <1>3, <1>5, <1>10, <2>1 DEF sel
<1> QED
  BY <1>7, <1>8, <1>9, <1>10

-----------------------------------------------------------------------------
(***************************************************************************)
(* The search for groups: it ends with one group exactly when there is one *)
(* to be found.                                                            *)
(***************************************************************************)
LEMMA BeforeIrreflexive ==
  ASSUME NEW S, IsFiniteSet(S)
  PROVE  ~Before(S, S)
BY FS_CardinalityType DEF Before

LEMMA BeforeTransitive ==
  ASSUME NEW R, R \subseteq Nat, IsFiniteSet(R), NEW S, S \subseteq Nat, IsFiniteSet(S),
         NEW T, T \subseteq Nat, IsFiniteSet(T), Before(R, S), Before(S, T)
  PROVE  Before(R, T)
<1>1. Cardinality(R) \in Nat /\ Cardinality(S) \in Nat /\ Cardinality(T) \in Nat
  BY FS_CardinalityType
<1>2. CASE Cardinality(R) < Cardinality(S) \/ Cardinality(S) < Cardinality(T)
  <2>1. Cardinality(R) <= Cardinality(S) /\ Cardinality(S) <= Cardinality(T)
    BY <1>1 DEF Before
  <2>2. QED
    BY <1>1, <1>2, <2>1 DEF Before
<1>3. CASE ~(Cardinality(R) < Cardinality(S) \/ Cardinality(S) < Cardinality(T))
  <2> DEFINE a == Min(SymDiff(R, S))
             c == Min(SymDiff(S, T))
  <2>1. /\ Cardinality(R) = Cardinality(T)
        /\ R # S /\ S # T /\ a \in R /\ c \in S
    BY <1>3 DEF Before
  <2>2. /\ SymDiff(R, S) \subseteq Nat /\ SymDiff(R, S) # {}
        /\ SymDiff(S, T) \subseteq Nat /\ SymDiff(S, T) # {}
    BY <2>1 DEF SymDiff
  <2>3. /\ a \in SymDiff(R, S) /\ \A y \in SymDiff(R, S) : a <= y
        /\ c \in SymDiff(S, T) /\ \A y \in SymDiff(S, T) : c <= y
    BY <2>2, MinLemma
  <2> HIDE DEF a, c
  <2>4. a \in R \ S /\ c \in S \ T /\ a \in Nat /\ c \in Nat /\ a # c
    BY <2>1, <2>3 DEF SymDiff
  <2>5. ASSUME NEW m \in R \ T, \A y \in Nat : y < m => y < a /\ y < c
        PROVE  Before(R, T)
    <3>1. SymDiff(R, T) \subseteq Nat /\ SymDiff(R, T) # {} /\ R # T
      BY DEF SymDiff
    <3>2. \A y \in SymDiff(R, T) : y \in SymDiff(R, S) \/ y \in SymDiff(S, T)
      BY DEF SymDiff
    <3>3. \A y \in SymDiff(R, T) : ~(y < m)
      BY <2>3, <2>4, <2>5, <3>1, <3>2
    <3>4. m \in SymDiff(R, T)
      BY DEF SymDiff
    <3>5. Min(SymDiff(R, T)) = m
      <4>1. Min(SymDiff(R, T)) \in SymDiff(R, T) /\ Min(SymDiff(R, T)) <= m
        BY <3>1, <3>4, MinLemma
      <4>2. QED
        BY <3>1, <3>3, <3>4, <4>1
    <3>6. QED
      BY <2>1, <3>1, <3>5 DEF Before
  <2>6. CASE a < c
    <3>1. a \notin T
      BY <2>3, <2>4, <2>6 DEF SymDiff
    <3>2. QED
      BY <2>4, <2>5, <2>6, <3>1
  <2>7. CASE c < a
    <3>1. c \in R
      BY <2>3, <2>4, <2>7 DEF SymDiff
    <3>2. QED
      BY <2>4, <2>5, <2>7, <3>1
  <2>8. QED
    BY <2>4, <2>6, <2>7
<1>4. QED
  BY <1>2, <1>3

\* Among finitely many groups, one has none before it.
LEMMA SomeGroupIsFirst ==
  ASSUME NEW groups, IsFiniteSet(groups), groups # {},
         \A S \in groups : S \subseteq Nat /\ IsFiniteSet(S)
  PROVE  \E S \in groups : \A T \in groups : ~Before(T, S)
<1> DEFINE HasFirst(V) == \E S \in V : \A T \in V : ~Before(T, S)
           Good == {V \in SUBSET groups : V = {} \/ HasFirst(V)}
<1>1. {} \in Good
  OBVIOUS
<1>2. ASSUME NEW V \in SUBSET groups, V # {}, \A S \in V : V \ {S} \in Good
      PROVE  V \in Good
  <2>1. PICK S \in V : TRUE
    BY <1>2
  <2>2. V \ {S} \in Good /\ ~Before(S, S)
    BY <1>2, BeforeIrreflexive
  <2>3. CASE V \ {S} = {}
    <3>1. \A T \in V : ~Before(T, S)
      BY <2>2, <2>3
    <3>2. QED
      BY <2>1, <3>1
  <2>4. CASE V \ {S} # {}
    <3>1. PICK R \in V \ {S} : \A T \in V \ {S} : ~Before(T, R)
      BY <2>2, <2>4
    <3>2. CASE Before(S, R)
      <4>1. \A T \in V \ {S} : ~Before(T, S)
        BY <3>1, <3>2, BeforeTransitive
      <4>2. \A T \in V : ~Before(T, S)
        BY <2>2, <4>1
      <4>3. QED
        BY <2>1, <4>2
    <3>3. CASE ~Before(S, R)
      <4>1. \A T \in V : ~Before(T, R)
        BY <3>1, <3>3
      <4>2. QED
        BY <3>1, <4>1
    <3>4. QED
      BY <3>2, <3>3
  <2>5. QED
    BY <2>3, <2>4
<1> HIDE DEF Good
<1>3. SUBSET groups \subseteq Good
  BY <1>1, <1>2, SubsetInduction
<1>4. groups \in Good
  BY <1>3
<1>5. QED
  BY <1>4 DEF Good

\* amount_groups: within the bounds, the search finds a group if there is one
\* and two if there are two; so one group found is the only one.
LEMMA FoundIffOnly ==
  ASSUME NEW b, IsBatch(b), NEW r, NEW candidates, candidates \subseteq DOMAIN b.bank,
         ~BoundedOut(candidates)
  PROVE  LET valid == ValidGroups(b, r, candidates)
             found == FoundGroups(b, r, candidates)
         IN /\ found \subseteq valid
            /\ valid # {} => found # {}
            /\ \A G : found = {G} <=> valid = {G}
<1> DEFINE valid == ValidGroups(b, r, candidates)
           found == FoundGroups(b, r, candidates)
           Earlier(S) == {T \in valid : Before(T, S)}
<1>1. found = {S \in valid : Cardinality(Earlier(S)) < MaxValidGroups} /\ MaxValidGroups >= 2
      /\ MaxValidGroups \in Nat
  BY PolicyAssumption DEF FoundGroups
<1>2. IsFiniteSet(candidates) /\ candidates \subseteq Nat
  BY FS_Subset DEF IsBatch
<1>3. /\ IsFiniteSet(valid)
      /\ \A S \in valid : S \subseteq Nat /\ IsFiniteSet(S)
  <2>1. valid \subseteq SUBSET candidates
    BY DEF ValidGroups
  <2>2. QED
    BY <1>2, <2>1, FS_Subset, FS_SUBSET
<1> HIDE DEF valid, found
<1>4. ASSUME NEW S \in valid, NEW R, Earlier(S) \subseteq {R}
      PROVE  S \in found
  <2>1. IsFiniteSet({R}) /\ Cardinality({R}) = 1
    BY FS_Singleton
  <2>2. Cardinality(Earlier(S)) <= 1 /\ Cardinality(Earlier(S)) \in Nat
    <3> HIDE DEF Earlier
    <3>1. QED
      BY <1>4, <2>1, FS_Subset, FS_CardinalityType
  <2>3. QED
    BY <1>1, <2>2
<1>5. ASSUME valid # {}
      PROVE  \E S \in found : \A T \in valid : T = S \/ (\E R \in found : R # S)
  <2>1. PICK S \in valid : \A T \in valid : ~Before(T, S)
    BY <1>3, <1>5, SomeGroupIsFirst
  <2>2. S \in found
    BY <1>4, <2>1
  <2>3. ASSUME NEW T \in valid, T # S
        PROVE  \E R \in found : R # S
    <3> DEFINE others == valid \ {S}
    <3>1. others # {} /\ IsFiniteSet(others) /\ \A R \in others : R \subseteq Nat /\ IsFiniteSet(R)
      BY <1>3, <2>3, FS_Subset
    <3> HIDE DEF others
    <3>2. PICK R \in others : \A Q \in others : ~Before(Q, R)
      BY <3>1, SomeGroupIsFirst
    <3>3. R \in valid /\ R # S /\ Earlier(R) \subseteq {S}
      BY <3>2 DEF others
    <3>4. QED
      BY <1>4, <3>3
  <2>4. QED
    BY <2>2, <2>3
<1>6. found \subseteq valid
  BY <1>1
<1>7. valid # {} => found # {}
  BY <1>5
<1>8. ASSUME NEW G, found = {G} PROVE valid = {G}
  <2>1. PICK S \in found : \A T \in valid : T = S \/ (\E R \in found : R # S)
    BY <1>5, <1>6, <1>8
  <2>2. QED
    BY <1>6, <1>8, <2>1
<1>9. ASSUME NEW G, valid = {G} PROVE found = {G}
  BY <1>6, <1>7, <1>9
<1>10. QED
  BY <1>6, <1>7, <1>8, <1>9 DEF valid, found

-----------------------------------------------------------------------------
(***************************************************************************)
(* The case of a settlement, and what the checks say when all of them pass. *)
(***************************************************************************)
LEMMA ResultsLemma ==
  ASSUME NEW b, NEW r, NEW sel
  PROVE  LET g        == b.gateway[r]
             net      == ObservedNet(b, r)
             group    == sel.group
             journals == Journals(b, r)
             results  == CheckResults(b, r, sel)
         IN
         /\ results["GATEWAY_SETTLEMENT_UNIQUE"] => g.rows = 1
         /\ results["SETTLEMENT_COMPONENT_INVARIANT"] => ExpectedNet(g) = net
         /\ results["BANK_RECEIPT_PRESENT"] => group # {}
         /\ results["BANK_RECEIPT_AMOUNT"] => AmountOf(b, group) = net
         /\ results["BANK_RECEIPT_DIRECTION"] => \A x \in group : b.bank[x].credit
         /\ results["BANK_RECEIPT_REFERENCE"] =>
              group \subseteq WithUtr(b, ExpectedUtr(b, r), group)
         /\ results["BANK_RECEIPT_DATE"] => \A x \in group : InWindow(b, r, x)
         /\ results["BANK_RECEIPT_UNIQUE"] => ~sel.ambiguous
         /\ results["ERP_JOURNAL_UNIQUE"] => Cardinality(journals) = 1
         /\ results["ERP_JOURNAL_BALANCED"] => \A j \in journals : Imbalance(b.erp[j]) = 0
         /\ results["ERP_BANK_POSTING"] => \A j \in journals : b.erp[j].bank = net
         /\ results["ERP_CLEARING_POSTING"] => \A j \in journals : b.erp[j].clearing = g.gross
         /\ results["ERP_FEE_POSTING"] => \A j \in journals : b.erp[j].fee = g.fee
         /\ results["ERP_TAX_POSTING"] => \A j \in journals : b.erp[j].tax = g.tax
BY DEF CheckResults

\* The values of Priority, one by one.
LEMMA PriorityValues ==
  /\ DOMAIN Priority = 1..12
  /\ Priority[1] = "ERP_JOURNAL_UNBALANCED" /\ Priority[2] = "DUPLICATE_ERP_POSTING"
  /\ Priority[3] = "DUPLICATE_IDENTIFIER" /\ Priority[4] = "BANK_RECEIPT_AMBIGUOUS"
  /\ Priority[5] = "SETTLEMENT_COMPONENT_MISMATCH" /\ Priority[6] = "BANK_AMOUNT_MISMATCH"
  /\ Priority[7] = "ERP_POSTING_MISMATCH" /\ Priority[8] = "REFERENCE_MISMATCH"
  /\ Priority[9] = "MISSING_BANK_RECEIPT" /\ Priority[10] = "MISSING_ERP_POSTING"
  /\ Priority[11] = "BANK_DATE_OUT_OF_RANGE" /\ Priority[12] = "UNKNOWN_UNRESOLVED"
BY DEF Priority

LEMMA CaseTypeLemma ==
  ASSUME NEW b, IsBatch(b), NEW r \in DOMAIN b.gateway, NEW free, free \subseteq DOMAIN b.bank
  PROVE  LET c == CaseOf(b, r, free) IN
         /\ c \in [bank : SUBSET free, erp : SUBSET DOMAIN b.erp, passed : SUBSET Checks,
                   reasons : SUBSET Reasons,
                   unique : BOOLEAN, ambiguous : BOOLEAN, invalid : BOOLEAN]
         /\ c.erp = Journals(b, r)
<1> DEFINE sel     == SelectBank(b, r, free)
           results == CheckResults(b, r, sel)
           passed  == {c \in Checks : results[c]}
           given   == ReasonsGiven(b, r, free, sel, passed)
           reasons == {x \in DOMAIN given : given[x]}
           unique  == {"GATEWAY_SETTLEMENT_UNIQUE", "BANK_RECEIPT_UNIQUE",
                       "ERP_JOURNAL_UNIQUE"} \subseteq passed
           invalid == "ERP_JOURNAL_UNBALANCED" \in reasons
<1>1. CaseOf(b, r, free) =
        [bank |-> sel.considered, erp |-> Journals(b, r), passed |-> passed,
         reasons |-> reasons, unique |-> unique, ambiguous |-> sel.ambiguous,
         invalid |-> invalid]
  BY DEF CaseOf
<1>2. sel.considered \subseteq free /\ sel.ambiguous \in BOOLEAN
  BY SelectionLemma
<1>3. Journals(b, r) \subseteq DOMAIN b.erp
  BY DEF Journals
<1>4. passed \subseteq Checks
  OBVIOUS
<1>5. reasons \subseteq Reasons
  <2>1. DOMAIN given =
          {"UNKNOWN_UNRESOLVED", "DUPLICATE_IDENTIFIER", "SETTLEMENT_COMPONENT_MISMATCH",
           "MISSING_BANK_RECEIPT", "BANK_AMOUNT_MISMATCH", "REFERENCE_MISMATCH",
           "BANK_DATE_OUT_OF_RANGE", "BANK_RECEIPT_AMBIGUOUS", "MISSING_ERP_POSTING",
           "DUPLICATE_ERP_POSTING", "ERP_JOURNAL_UNBALANCED", "ERP_POSTING_MISMATCH"}
    BY DEF ReasonsGiven
  <2>2. DOMAIN Priority = 1..12
    BY PriorityValues
  <2>3. \A x \in DOMAIN given : \E i \in 1..12 : Priority[i] = x
    <3> HIDE DEF given
    <3> QED
      BY <2>1, PriorityValues
  <2> QED
    BY <2>2, <2>3 DEF Reasons
<1>6. unique \in BOOLEAN /\ invalid \in BOOLEAN
  OBVIOUS
<1> HIDE DEF sel, passed, reasons, unique, invalid
<1> QED
  BY <1>1, <1>2, <1>3, <1>4, <1>5, <1>6

\* When every check passed: the rows the case takes pay the settlement, and
\* its only journal posts it.
LEMMA CaseProofLemma ==
  ASSUME NEW b, IsBatch(b), NEW r \in DOMAIN b.gateway, NEW free, free \subseteq DOMAIN b.bank,
         CaseOf(b, r, free).passed = Checks
  PROVE  LET g    == b.gateway[r]
             rows == CaseOf(b, r, free).bank
         IN
         /\ g.rows = 1 /\ ExpectedNet(g) = g.net
         /\ rows # {}
         /\ \A x \in rows : b.bank[x].credit /\ InWindow(b, r, x) /\ b.bank[x].utr = g.utr
         /\ AmountOf(b, rows) = g.net
         /\ \E j : /\ Journals(b, r) = {j}
                   /\ Imbalance(b.erp[j]) = 0
                   /\ b.erp[j].bank = g.net /\ b.erp[j].clearing = g.gross
                   /\ b.erp[j].fee = g.fee /\ b.erp[j].tax = g.tax
<1> DEFINE g       == b.gateway[r]
           sel     == SelectBank(b, r, free)
           results == CheckResults(b, r, sel)
<1>1. /\ CaseOf(b, r, free).passed = {c \in Checks : results[c]}
      /\ CaseOf(b, r, free).bank = sel.considered
  BY DEF CaseOf
<1>2. \A c \in Checks : results[c]
  BY <1>1
<1>3. /\ ~sel.ambiguous => sel.group = sel.considered
  BY SelectionLemma
<1> HIDE DEF sel
<1>4. /\ g.rows = 1
      /\ ExpectedNet(g) = ObservedNet(b, r)
      /\ sel.group # {}
      /\ AmountOf(b, sel.group) = ObservedNet(b, r)
      /\ \A x \in sel.group : b.bank[x].credit
      /\ sel.group \subseteq WithUtr(b, ExpectedUtr(b, r), sel.group)
      /\ \A x \in sel.group : InWindow(b, r, x)
      /\ ~sel.ambiguous
  <2> HIDE DEF results
  <2>1. /\ results["GATEWAY_SETTLEMENT_UNIQUE"] /\ results["SETTLEMENT_COMPONENT_INVARIANT"]
        /\ results["BANK_RECEIPT_PRESENT"] /\ results["BANK_RECEIPT_AMOUNT"]
        /\ results["BANK_RECEIPT_DIRECTION"] /\ results["BANK_RECEIPT_REFERENCE"]
        /\ results["BANK_RECEIPT_DATE"] /\ results["BANK_RECEIPT_UNIQUE"]
    BY <1>2 DEF Checks
  <2> QED
    BY <2>1, ResultsLemma DEF results
<1>5. /\ Cardinality(Journals(b, r)) = 1
      /\ \A j \in Journals(b, r) :
           /\ Imbalance(b.erp[j]) = 0
           /\ b.erp[j].bank = ObservedNet(b, r) /\ b.erp[j].clearing = g.gross
           /\ b.erp[j].fee = g.fee /\ b.erp[j].tax = g.tax
  <2> HIDE DEF results
  <2>1. /\ results["ERP_JOURNAL_UNIQUE"] /\ results["ERP_JOURNAL_BALANCED"]
        /\ results["ERP_BANK_POSTING"] /\ results["ERP_CLEARING_POSTING"]
        /\ results["ERP_FEE_POSTING"] /\ results["ERP_TAX_POSTING"]
    BY <1>2 DEF Checks, PostingChecks
  <2> QED
    BY <2>1, ResultsLemma DEF results
<1>6. ObservedNet(b, r) = g.net /\ ExpectedUtr(b, r) = g.utr
  BY <1>4 DEF ObservedNet, ExpectedUtr
<1>7. \A x \in sel.group : b.bank[x].utr = g.utr
  BY <1>4, <1>6 DEF WithUtr
<1>8. \E j : Journals(b, r) = {j}
  <2>1. Journals(b, r) \subseteq DOMAIN b.erp /\ IsFiniteSet(DOMAIN b.erp)
    BY DEF Journals, IsBatch
  <2>2. IsFiniteSet(Journals(b, r))
    BY <2>1, FS_Subset
  <2> QED
    BY <1>5, <2>2, FS_Singleton
<1> QED
  BY <1>1, <1>3, <1>4, <1>5, <1>6, <1>7, <1>8

LEMMA BalancedSums ==
  ASSUME NEW j \in Journal, Imbalance(j) = 0
  PROVE  j.bank + j.fee + j.tax + j.other = j.clearing
<1>1. j.bank \in Int /\ j.fee \in Int /\ j.tax \in Int /\ j.other \in Int /\ j.clearing \in Int
  BY DEF Journal
<1>2. j.bank + j.fee + j.tax + j.other - j.clearing = 0
  BY DEF Imbalance
<1> DEFINE sum == j.bank + j.fee + j.tax + j.other
           clearing == j.clearing
<1>3. sum \in Int /\ clearing \in Int /\ sum - clearing = 0
  BY <1>1, <1>2
<1>4. sum = clearing
  <2> HIDE DEF sum, clearing
  <2> QED
    BY <1>3
<1> QED
  BY <1>4

-----------------------------------------------------------------------------
(***************************************************************************)
(* What a case is filed under.                                             *)
(***************************************************************************)
LEMMA FiledUnderType ==
  ASSUME NEW c, NEW required
  PROVE  FiledUnder(c, required) \in Filings
<1> DEFINE given == {i \in DOMAIN Priority : Priority[i] \in c.reasons}
<1>1. DOMAIN Priority = 1..12
  BY PriorityValues
<1>2. \A i \in 1..12 : Priority[i] \in Filings
  BY <1>1 DEF Reasons, Filings
<1>3. given # {} => Min(given) \in given
  BY <1>1, MinLemma
<1>4. given # {} => Priority[Min(given)] \in Filings
  BY <1>1, <1>2, <1>3
<1> HIDE DEF given
<1>5. \/ FiledUnder(c, required) = "NONE"
      \/ FiledUnder(c, required) = "UNKNOWN_UNRESOLVED"
      \/ given # {} /\ FiledUnder(c, required) = Priority[Min(given)]
  BY DEF FiledUnder, given
<1>6. "NONE" \in Filings /\ "UNKNOWN_UNRESOLVED" \in Filings
  BY <1>2, PriorityValues DEF Filings
<1> QED
  BY <1>4, <1>5, <1>6

\* A case is filed unless it is proved, and under the last reason only if that
\* is given or none is.
LEMMA FilingLemma ==
  ASSUME NEW c, NEW required, c.reasons \subseteq Reasons
  PROVE  /\ FiledUnder(c, required) = "NONE" <=> ProofLevel(c, required) = "PROVED"
         /\ FiledUnder(c, required) = "UNKNOWN_UNRESOLVED" =>
              /\ ProofLevel(c, required) # "PROVED"
              /\ "UNKNOWN_UNRESOLVED" \in c.reasons \/ c.reasons = {}
<1> DEFINE given == {i \in DOMAIN Priority : Priority[i] \in c.reasons}
<1>1. given # {} => Min(given) \in given
  BY PriorityValues, MinLemma
<1>2. \A i \in 1..12 : Priority[i] # "NONE"
  BY PriorityValues
<1>3. given = {} => c.reasons = {}
  BY DEF Reasons
<1>4. \A i \in given : i \in 1..12 /\ Priority[i] \in c.reasons
  BY PriorityValues
<1>5. /\ ProofLevel(c, required) = "PROVED" => FiledUnder(c, required) = "NONE"
      /\ ProofLevel(c, required) # "PROVED" /\ given = {} =>
           FiledUnder(c, required) = "UNKNOWN_UNRESOLVED"
      /\ ProofLevel(c, required) # "PROVED" /\ given # {} =>
           FiledUnder(c, required) = Priority[Min(given)]
  BY DEF FiledUnder
<1> HIDE DEF given
<1>6. CASE ProofLevel(c, required) = "PROVED"
  BY <1>5, <1>6
<1>7. CASE ProofLevel(c, required) # "PROVED" /\ given = {}
  BY <1>3, <1>5, <1>7
<1>8. CASE ProofLevel(c, required) # "PROVED" /\ given # {}
  <2>1. PICK i \in given : FiledUnder(c, required) = Priority[i]
    BY <1>1, <1>5, <1>8
  <2>2. i \in 1..12 /\ Priority[i] # "NONE" /\ Priority[i] \in c.reasons
    BY <1>2, <1>4
  <2> QED
    BY <1>8, <2>1, <2>2
<1> QED
  BY <1>6, <1>7, <1>8

LEMMA UnknownLemma ==
  ASSUME NEW b, NEW r, NEW free, "UNKNOWN_UNRESOLVED" \in CaseOf(b, r, free).reasons
  PROVE  b.gateway[r].rows = 0
<1> DEFINE sel    == SelectBank(b, r, free)
           passed == {c \in Checks : CheckResults(b, r, sel)[c]}
           given  == ReasonsGiven(b, r, free, sel, passed)
<1>1. CaseOf(b, r, free).reasons = {x \in DOMAIN given : given[x]}
  BY DEF CaseOf
<1>2. given["UNKNOWN_UNRESOLVED"]
  BY <1>1
<1> HIDE DEF sel, passed
<1> QED
  BY <1>2 DEF ReasonsGiven

\* A case without a reason: every check has passed, but perhaps that of the
\* direction, and nothing but the policy can keep it from being proved.
LEMMA NoReasonLemma ==
  ASSUME NEW b, IsBatch(b), NEW r \in DOMAIN b.gateway, NEW free, free \subseteq DOMAIN b.bank,
         CaseOf(b, r, free).reasons = {}
  PROVE  LET c == CaseOf(b, r, free) IN
         /\ Checks \ {"BANK_RECEIPT_DIRECTION"} \subseteq c.passed
         /\ c.unique /\ ~c.ambiguous /\ ~c.invalid
<1> DEFINE g       == b.gateway[r]
           sel     == SelectBank(b, r, free)
           results == CheckResults(b, r, sel)
           passed  == {c \in Checks : results[c]}
           given   == ReasonsGiven(b, r, free, sel, passed)
           reasons == {x \in DOMAIN given : given[x]}
<1>1. /\ CaseOf(b, r, free).passed = passed /\ CaseOf(b, r, free).reasons = reasons
      /\ CaseOf(b, r, free).ambiguous = sel.ambiguous
      /\ CaseOf(b, r, free).invalid <=> "ERP_JOURNAL_UNBALANCED" \in reasons
      /\ CaseOf(b, r, free).unique <=>
           {"GATEWAY_SETTLEMENT_UNIQUE", "BANK_RECEIPT_UNIQUE", "ERP_JOURNAL_UNIQUE"} \subseteq passed
  BY DEF CaseOf
<1>2. \A x \in DOMAIN given : ~given[x]
  BY <1>1
<1> HIDE DEF sel, results, passed
<1>3. /\ g.rows # 0 /\ ~(g.rows > 1)
      /\ "SETTLEMENT_COMPONENT_INVARIANT" \in passed
      /\ "BANK_RECEIPT_PRESENT" \in passed /\ "BANK_RECEIPT_AMOUNT" \in passed
      /\ "BANK_RECEIPT_REFERENCE" \in passed /\ "BANK_RECEIPT_DATE" \in passed
      /\ ~sel.ambiguous
      /\ "ERP_JOURNAL_PRESENT" \in passed /\ ~(Cardinality(Journals(b, r)) > 1)
      /\ "ERP_JOURNAL_UNIQUE" \in passed => "ERP_JOURNAL_BALANCED" \in passed
      /\ "ERP_JOURNAL_BALANCED" \in passed => PostingChecks \subseteq passed
  BY <1>2 DEF ReasonsGiven
<1>4. /\ results["GATEWAY_SETTLEMENT_UNIQUE"] <=> g.rows = 1
      /\ results["BANK_RECEIPT_PRESENT"] <=> sel.group # {}
      /\ results["BANK_RECEIPT_UNIQUE"] <=> sel.group # {} /\ ~sel.ambiguous
      /\ results["ERP_JOURNAL_PRESENT"] <=> Journals(b, r) # {}
      /\ results["ERP_JOURNAL_UNIQUE"] <=> Cardinality(Journals(b, r)) = 1
  BY DEF results, CheckResults
<1>5. g.rows \in Nat
  BY DEF IsBatch, Gateway
<1>6. Cardinality(Journals(b, r)) = 1
  <2>1. IsFiniteSet(Journals(b, r))
    BY FS_Subset DEF Journals, IsBatch
  <2>2. Journals(b, r) # {}
    BY <1>3, <1>4 DEF passed
  <2>3. Cardinality(Journals(b, r)) \in Nat /\ Cardinality(Journals(b, r)) # 0
    BY <2>1, <2>2, FS_CardinalityType, FS_EmptySet
  <2> QED
    BY <1>3, <2>3
<1>7. /\ results["GATEWAY_SETTLEMENT_UNIQUE"] /\ results["BANK_RECEIPT_UNIQUE"]
      /\ results["ERP_JOURNAL_UNIQUE"]
  BY <1>3, <1>4, <1>5, <1>6 DEF passed
<1>8. {"GATEWAY_SETTLEMENT_UNIQUE", "BANK_RECEIPT_UNIQUE", "ERP_JOURNAL_UNIQUE"} \subseteq passed
  BY <1>7 DEF passed, Checks
<1>9. Checks \ {"BANK_RECEIPT_DIRECTION"} \subseteq passed
  BY <1>3, <1>8 DEF Checks
<1>10. "ERP_JOURNAL_UNBALANCED" \notin reasons
  BY <1>2
<1> QED
  BY <1>1, <1>3, <1>8, <1>9, <1>10

-----------------------------------------------------------------------------
(***************************************************************************)
(* A settlement deserves to be cleared when its case is proved.            *)
(***************************************************************************)
\* PaidWithoutDoubt within the bounds of the search, of any batch and any free rows.
Paid(b, r, free) ==
  LET g          == b.gateway[r]
      holders    == WithUtr(b, g.utr, free)
      candidates == BankCandidates(b, r, free)
  IN
  /\ g.rows = 1 /\ g.net = g.gross - g.fee - g.tax
  /\ holders # {} /\ holders \subseteq candidates
  /\ Cardinality(candidates) <= MaxCandidates /\ Cardinality(holders) <= MaxGroupSize
  /\ AmountOf(b, holders) = g.net
  /\ \A S \in SUBSET candidates :
       Cardinality(S) <= MaxGroupSize /\ AmountOf(b, S) = g.net => S = holders

\* The selection of a case that passes every check and whose identifiers do
\* not conflict: the search has found the holders of the UTR, and only them.
LEMMA ProvedIsPaid ==
  ASSUME NEW b, IsBatch(b), NEW r \in DOMAIN b.gateway, NEW free, free \subseteq DOMAIN b.bank,
         CaseOf(b, r, free).passed = Checks,
         "DUPLICATE_IDENTIFIER" \notin CaseOf(b, r, free).reasons
  PROVE  Paid(b, r, free)
<1> DEFINE g          == b.gateway[r]
           sel        == SelectBank(b, r, free)
           results    == CheckResults(b, r, sel)
           passed     == {c \in Checks : results[c]}
           given      == ReasonsGiven(b, r, free, sel, passed)
           holders    == WithUtr(b, g.utr, free)
           candidates == BankCandidates(b, r, free)
           valid      == ValidGroups(b, r, candidates)
           found      == FoundGroups(b, r, candidates)
<1>1. /\ CaseOf(b, r, free).passed = passed
      /\ CaseOf(b, r, free).bank = sel.considered
      /\ CaseOf(b, r, free).reasons = {x \in DOMAIN given : given[x]}
  BY DEF CaseOf
<1>2. /\ g.rows = 1 /\ ExpectedNet(g) = g.net
      /\ sel.considered # {}
      /\ \A x \in sel.considered : b.bank[x].credit /\ InWindow(b, r, x) /\ b.bank[x].utr = g.utr
      /\ AmountOf(b, sel.considered) = g.net
  BY <1>1, CaseProofLemma
<1>3. ObservedNet(b, r) = g.net /\ ExpectedUtr(b, r) = g.utr
  BY <1>2 DEF ObservedNet, ExpectedUtr
<1>4. ~IdentifierConflict(b, r, free)
  <2>1. ~given["DUPLICATE_IDENTIFIER"]
    BY <1>1 DEF ReasonsGiven
  <2>2. QED
    BY <2>1 DEF ReasonsGiven
<1>5. ~sel.ambiguous
  <2>1. results["BANK_RECEIPT_UNIQUE"]
    BY <1>1 DEF Checks
  <2>2. QED
    BY <2>1, ResultsLemma
<1> HIDE DEF results, passed, given
<1>6. /\ holders \subseteq DOMAIN b.bank /\ IsFiniteSet(holders)
      /\ candidates \subseteq DOMAIN b.bank /\ IsFiniteSet(candidates) /\ candidates \subseteq free
  <2>1. holders \subseteq free /\ candidates \subseteq free
    BY DEF WithUtr, BankCandidates
  <2>2. QED
    BY <2>1, FS_Subset DEF IsBatch
<1>7. ~BoundedOut(candidates)
  BY <1>5 DEF SelectBank
<1>8. /\ sel = IF found # {}
                 THEN [group |-> First(found), considered |-> UNION found,
                       ambiguous |-> Cardinality(found) > 1 \/ BoundedOut(candidates)]
               ELSE IF holders = {}
                 THEN [group |-> {}, considered |-> {}, ambiguous |-> FALSE \/ BoundedOut(candidates)]
               ELSE [group |-> {Min(holders)}, considered |-> holders,
                     ambiguous |-> Cardinality(holders) > 1 \/ BoundedOut(candidates)]
  BY <1>4 DEF SelectBank
<1>9. /\ found \subseteq valid /\ (valid # {} => found # {})
      /\ \A G : found = {G} <=> valid = {G}
  BY <1>6, <1>7, FoundIffOnly
<1>10. IsFiniteSet(found)
  BY <1>6, FoundLemma
<1>11. sel.considered \subseteq free
  BY SelectionLemma
<1> HIDE DEF sel, found, valid, holders
<1>12. found # {}
  <2>1. SUFFICES ASSUME found = {} PROVE FALSE
    OBVIOUS
  <2>2. sel.considered = holders /\ holders # {} /\ ~(Cardinality(holders) > 1)
    BY <1>2, <1>5, <1>8, <2>1
  <2>3. PICK x \in holders : holders = {x}
    BY <1>6, <2>2, SingletonLemma
  <2>4. {x} \in SUBSET candidates
    BY <1>2, <1>11, <2>2, <2>3 DEF BankCandidates
  <2>5. Cardinality({x}) <= MaxGroupSize
    <3>1. Cardinality({x}) = 1
      BY FS_Singleton
    <3>2. QED
      BY <3>1, PolicyAssumption
  <2>6. {x} \in valid
    BY <1>2, <1>3, <2>2, <2>3, <2>4, <2>5 DEF valid, ValidGroups
  <2>7. QED
    BY <1>9, <2>1, <2>6
<1>13. PICK G \in found : found = {G}
  BY <1>5, <1>8, <1>10, <1>12, SingletonLemma
<1>14. valid = {G} /\ sel.considered = G
  BY <1>8, <1>9, <1>12, <1>13
<1>15. /\ G \in SUBSET candidates /\ G # {} /\ Cardinality(G) <= MaxGroupSize
       /\ AmountOf(b, G) = g.net
  BY <1>3, <1>14 DEF valid, ValidGroups
<1>16. G \subseteq holders
  <2>1. g.utr # NoUtr
    <3>1. results["BANK_RECEIPT_REFERENCE"]
      BY <1>1 DEF Checks, passed
    <3>2. sel.group \subseteq WithUtr(b, ExpectedUtr(b, r), sel.group)
      BY <3>1, ResultsLemma DEF results
    <3>3. sel.group = G
      <4>1. IsFiniteSet(G)
        BY <1>6, <1>15, FS_Subset
      <4>2. First({G}) = G
        BY <4>1, FirstSingleton
      <4>3. QED
        BY <1>8, <1>12, <1>13, <4>2
    <3>4. QED
      BY <1>3, <1>15, <3>2, <3>3 DEF WithUtr
  <2>2. QED
    BY <1>2, <1>11, <1>14, <2>1 DEF holders, WithUtr
<1>17. G = holders
  <2>1. CASE Cardinality(holders) > 1
    <3>1. AmountOf(b, holders) = g.net
      BY <1>3, <1>4, <2>1 DEF IdentifierConflict, holders
    <3>2. G # holders => AmountOf(b, G) < AmountOf(b, holders)
      BY <1>6, <1>16, AmountLemma
    <3>3. AmountOf(b, holders) \in Int
      BY <1>6, AmountLemma
    <3>4. QED
      BY <1>15, <3>1, <3>2, <3>3
  <2>2. CASE ~(Cardinality(holders) > 1)
    <3>1. holders # {}
      BY <1>15, <1>16
    <3>2. \E x \in holders : holders = {x}
      BY <1>6, <2>2, <3>1, SingletonLemma
    <3>3. QED
      BY <1>15, <1>16, <3>2
  <2>3. QED
    BY <2>1, <2>2
<1>18. ASSUME NEW S \in SUBSET candidates, Cardinality(S) <= MaxGroupSize, AmountOf(b, S) = g.net
       PROVE  S = holders
  <2>1. S # {}
    <3>1. AmountOf(b, {}) = 0 /\ (G # {} => AmountOf(b, {}) < AmountOf(b, G))
      BY <1>6, <1>15, AmountLemma
    <3>2. QED
      BY <1>15, <1>18, <3>1
  <2>2. S \in valid
    BY <1>3, <1>18, <2>1 DEF valid, ValidGroups
  <2>3. QED
    BY <1>14, <1>17, <2>2
<1>19. Cardinality(candidates) <= MaxCandidates
  <2>1. Cardinality(candidates) \in Nat
    BY <1>6, FS_CardinalityType
  <2>2. QED
    BY <1>7, <2>1, PolicyAssumption DEF BoundedOut
<1>20. g.net = g.gross - g.fee - g.tax
  BY <1>2 DEF ExpectedNet
<1> HIDE DEF g, candidates
<1>21. QED
  BY <1>2, <1>15, <1>17, <1>18, <1>19, <1>20 DEF Paid, g, holders, candidates

\* The check results, all at once, of a case that deserves it.
LEMMA ChecksPass ==
  ASSUME NEW b, NEW r, NEW sel, NEW j,
         LET g == b.gateway[r] IN
         /\ g.rows = 1 /\ ExpectedNet(g) = ObservedNet(b, r)
         /\ sel.group # {} /\ AmountOf(b, sel.group) = ObservedNet(b, r)
         /\ \A x \in sel.group : b.bank[x].credit /\ InWindow(b, r, x)
         /\ sel.group \subseteq WithUtr(b, ExpectedUtr(b, r), sel.group)
         /\ ~sel.ambiguous
         /\ Journals(b, r) = {j} /\ Imbalance(b.erp[j]) = 0
         /\ b.erp[j].bank = ObservedNet(b, r) /\ b.erp[j].clearing = g.gross
         /\ b.erp[j].fee = g.fee /\ b.erp[j].tax = g.tax
  PROVE  \A c \in Checks : CheckResults(b, r, sel)[c]
<1>1. Cardinality(Journals(b, r)) = 1 /\ Journals(b, r) # {}
  BY FS_Singleton
<1> DEFINE results == CheckResults(b, r, sel)
<1>2. /\ results["GATEWAY_SETTLEMENT_UNIQUE"] /\ results["SETTLEMENT_COMPONENT_INVARIANT"]
      /\ results["BANK_RECEIPT_PRESENT"] /\ results["BANK_RECEIPT_AMOUNT"]
      /\ results["BANK_RECEIPT_DIRECTION"] /\ results["BANK_RECEIPT_REFERENCE"]
      /\ results["BANK_RECEIPT_DATE"] /\ results["BANK_RECEIPT_UNIQUE"]
      /\ results["ERP_JOURNAL_PRESENT"] /\ results["ERP_JOURNAL_UNIQUE"]
  BY <1>1 DEF CheckResults
<1>3. /\ results["ERP_JOURNAL_BALANCED"] /\ results["ERP_BANK_POSTING"]
      /\ results["ERP_CLEARING_POSTING"] /\ results["ERP_FEE_POSTING"]
      /\ results["ERP_TAX_POSTING"]
  BY <1>1 DEF CheckResults
<1> HIDE DEF results
<1>4. \A c \in Checks : results[c]
  BY <1>2, <1>3 DEF Checks, PostingChecks
<1>5. QED
  BY <1>4 DEF results

\* A settlement that is paid without doubt and posted correctly is proved.
LEMMA PaidIsProved ==
  ASSUME NEW b, IsBatch(b), NEW r \in DOMAIN b.gateway, NEW free, free \subseteq DOMAIN b.bank,
         Paid(b, r, free), NEW required, required \subseteq Checks,
         NEW j, Journals(b, r) = {j}, Imbalance(b.erp[j]) = 0,
         b.erp[j].bank = b.gateway[r].net, b.erp[j].clearing = b.gateway[r].gross,
         b.erp[j].fee = b.gateway[r].fee, b.erp[j].tax = b.gateway[r].tax
  PROVE  ProofLevel(CaseOf(b, r, free), required) = "PROVED"
<1> DEFINE g          == b.gateway[r]
           sel        == SelectBank(b, r, free)
           results    == CheckResults(b, r, sel)
           passed     == {c \in Checks : results[c]}
           given      == ReasonsGiven(b, r, free, sel, passed)
           reasons    == {x \in DOMAIN given : given[x]}
           holders    == WithUtr(b, g.utr, free)
           candidates == BankCandidates(b, r, free)
           valid      == ValidGroups(b, r, candidates)
           found      == FoundGroups(b, r, candidates)
<1>1. /\ g.rows = 1 /\ ExpectedNet(g) = g.net
      /\ holders # {} /\ holders \subseteq candidates
      /\ Cardinality(candidates) <= MaxCandidates /\ Cardinality(holders) <= MaxGroupSize
      /\ AmountOf(b, holders) = g.net
      /\ \A S \in SUBSET candidates :
           Cardinality(S) <= MaxGroupSize /\ AmountOf(b, S) = g.net => S = holders
  BY DEF Paid, ExpectedNet
<1>2. ObservedNet(b, r) = g.net /\ ExpectedUtr(b, r) = g.utr
  BY <1>1 DEF ObservedNet, ExpectedUtr
<1>3. candidates \subseteq DOMAIN b.bank /\ candidates \subseteq free
  BY DEF BankCandidates
<1>4. IsFiniteSet(candidates) /\ IsFiniteSet(holders)
  BY <1>1, <1>3, FS_Subset DEF IsBatch
<1>5. ~BoundedOut(candidates)
  <2>1. Cardinality(candidates) \in Nat
    BY <1>4, FS_CardinalityType
  <2>2. QED
    BY <1>1, <2>1, PolicyAssumption DEF BoundedOut
<1>6. valid = {holders}
  <2>1. \A S \in valid : S = holders
    BY <1>1, <1>2 DEF ValidGroups
  <2>2. holders \in valid
    BY <1>1, <1>2 DEF ValidGroups
  <2>3. QED
    BY <2>1, <2>2
<1>7. found = {holders}
  BY <1>3, <1>5, <1>6, FoundIffOnly
<1>8. ~IdentifierConflict(b, r, free)
  BY <1>1, <1>2 DEF IdentifierConflict
<1>9. sel.group = holders /\ sel.considered = holders /\ sel.ambiguous = FALSE
  <2>1. sel = [group |-> First(found), considered |-> UNION found,
               ambiguous |-> Cardinality(found) > 1 \/ BoundedOut(candidates)]
    BY <1>7, <1>8 DEF SelectBank
  <2>2. First(found) = holders /\ UNION found = holders
    BY <1>4, <1>7, FirstSingleton
  <2>3. ~(Cardinality(found) > 1)
    <3>1. Cardinality(found) = 1
      BY <1>7, FS_Singleton
    <3>2. QED
      BY <3>1
  <2> HIDE DEF sel, found, holders, candidates
  <2>4. QED
    BY <1>5, <2>1, <2>2, <2>3
<1> HIDE DEF sel, found, valid
<1>10. \A x \in holders : b.bank[x].credit /\ InWindow(b, r, x)
  BY <1>1 DEF BankCandidates
<1>11. holders \subseteq WithUtr(b, g.utr, holders)
  BY DEF WithUtr
<1> HIDE DEF holders, candidates
<1>12. \A c \in Checks : results[c]
  BY <1>1, <1>2, <1>9, <1>10, <1>11, ChecksPass
<1>13. passed = Checks
  BY <1>12
<1>14. /\ CaseOf(b, r, free).passed = passed /\ CaseOf(b, r, free).reasons = reasons
       /\ CaseOf(b, r, free).ambiguous = sel.ambiguous
       /\ CaseOf(b, r, free).invalid <=> "ERP_JOURNAL_UNBALANCED" \in reasons
       /\ CaseOf(b, r, free).unique <=>
            {"GATEWAY_SETTLEMENT_UNIQUE", "BANK_RECEIPT_UNIQUE", "ERP_JOURNAL_UNIQUE"} \subseteq passed
  BY DEF CaseOf, sel
<1> HIDE DEF passed, results
<1>15. reasons \cap HardContradictions = {} /\ "ERP_JOURNAL_UNBALANCED" \notin reasons
  <2>1. Cardinality(Journals(b, r)) = 1
    BY FS_Singleton
  <2>2. /\ ~given["DUPLICATE_IDENTIFIER"] /\ ~given["DUPLICATE_ERP_POSTING"]
        /\ ~given["SETTLEMENT_COMPONENT_MISMATCH"] /\ ~given["BANK_AMOUNT_MISMATCH"]
        /\ ~given["ERP_POSTING_MISMATCH"] /\ ~given["ERP_JOURNAL_UNBALANCED"]
    <3>1. /\ "SETTLEMENT_COMPONENT_INVARIANT" \in passed /\ "BANK_RECEIPT_AMOUNT" \in passed
          /\ "ERP_JOURNAL_BALANCED" \in passed /\ PostingChecks \subseteq passed
      BY <1>13 DEF Checks
    <3>2. ~(g.rows > 1) /\ ~(Cardinality(Journals(b, r)) > 1)
      BY <1>1, <2>1
    <3>3. QED
      BY <1>8, <3>1, <3>2 DEF ReasonsGiven
  <2> HIDE DEF given
  <2>3. QED
    BY <2>2 DEF HardContradictions
<1>16. {"GATEWAY_SETTLEMENT_UNIQUE", "BANK_RECEIPT_UNIQUE", "ERP_JOURNAL_UNIQUE"} \subseteq passed
  BY <1>13 DEF Checks
<1>17. QED
  BY <1>9, <1>13, <1>14, <1>15, <1>16 DEF ProofLevel

-----------------------------------------------------------------------------
(***************************************************************************)
(* CasesOf, without its recursion: the settlements one after the other,    *)
(* each with what those before it have left.                               *)
(***************************************************************************)

\* The rows that the settlements before r leave, when they have these cases.
LeftBy(b, cases, r) ==
  DOMAIN b.bank \ UNION {cases[q].bank : q \in {p \in DOMAIN b.gateway : p < r}}

\* The cases after settlement r, from those before it.
Matched(b, before, r) ==
  IF r \in DOMAIN b.gateway
    THEN [q \in DOMAIN before \cup {r} |->
            IF q = r
              THEN CaseOf(b, r, DOMAIN b.bank \ UNION {before[p].bank : p \in DOMAIN before})
            ELSE before[q]]
    ELSE before

NoCases == [q \in {} |-> {}]

\* What the recursion of CasesOf makes of a function f.
MatchStep(b, f, S) == [r \in S |-> Matched(b, IF r = 0 THEN NoCases ELSE f[r - 1], r)]

\* The recursion has a solution: it is made for the small references first.
LEMMA MatchExists ==
  ASSUME NEW b
  PROVE  \A n \in Nat : \E f : f = MatchStep(b, f, 0..n)
<1> DEFINE Good == {n \in Nat : \E f : f = MatchStep(b, f, 0..n)}
<1>1. 0 \in Good
  <2> DEFINE f == [r \in 0..0 |-> Matched(b, NoCases, r)]
  <2>1. f = MatchStep(b, f, 0..0)
    BY DEF MatchStep
  <2> HIDE DEF f
  <2>2. \E g : g = MatchStep(b, g, 0..0)
    BY <2>1, Zenon
  <2>3. QED
    BY <2>2
<1>2. ASSUME NEW n \in Nat, n \in Good PROVE n + 1 \in Good
  <2>1. PICK f : f = MatchStep(b, f, 0..n)
    BY <1>2
  <2> DEFINE g == MatchStep(b, f, 0..(n + 1))
  <2>2. ASSUME NEW r \in 0..n PROVE g[r] = f[r]
    BY <2>1 DEF MatchStep
  <2>3. \A r \in 0..(n + 1) : r # 0 => r - 1 \in 0..n
    OBVIOUS
  <2>4. \A r \in 0..(n + 1) : MatchStep(b, f, 0..(n + 1))[r] = MatchStep(b, g, 0..(n + 1))[r]
    <3> HIDE DEF g
    <3>1. QED
      BY <2>2, <2>3 DEF MatchStep
  <2>5. g = MatchStep(b, g, 0..(n + 1))
    BY <2>4 DEF MatchStep
  <2> HIDE DEF g
  <2>6. \E h : h = MatchStep(b, h, 0..(n + 1))
    BY <2>5, Zenon
  <2>7. QED
    BY <2>6
<1>3. Nat \subseteq Good
  <2> HIDE DEF Good
  <2>1. QED
    BY <1>1, <1>2, NaturalInduction
<1>4. QED
  BY <1>3

\* Every settlement has a case, and it is the one CaseOf gives for what is left.
LEMMA CasesLemma ==
  ASSUME NEW b, IsBatch(b)
  PROVE  /\ DOMAIN CasesOf(b) = DOMAIN b.gateway
         /\ \A r \in DOMAIN b.gateway : CasesOf(b)[r] = CaseOf(b, r, LeftBy(b, CasesOf(b), r))
<1> DEFINE R == DOMAIN b.gateway
           last == Max(R \cup {0})
           fold == CHOOSE f : f = MatchStep(b, f, 0..last)
           Upto(n) == {q \in R : q <= n}
           Right(n) == /\ DOMAIN fold[n] = Upto(n)
                       /\ \A r \in Upto(n) : fold[n][r] = CaseOf(b, r, LeftBy(b, fold[n], r))
           Good == {n \in Nat : n \in 0..last => Right(n)}
<1>1. R \subseteq Nat /\ last \in Nat /\ \A r \in R : r <= last
  <2> DEFINE S == R \cup {0}
  <2>1. S \subseteq Nat /\ IsFiniteSet(S) /\ S # {}
    BY FS_AddElement DEF IsBatch
  <2>2. \E x \in S : \A y \in S : x >= y
    <3>1. \E x \in S : \A y \in S : y <= x
      BY <2>1, GreatestLemma
    <3>2. QED
      BY <2>1, <3>1
  <2>3. Max(S) \in S /\ \A y \in S : Max(S) >= y
    BY <2>2 DEF Max
  <2>4. QED
    BY <2>1, <2>3
<1>2. CasesOf(b) = fold[last]
  BY Zenon DEF CasesOf, MatchStep, Matched, NoCases
<1> HIDE DEF last
<1>3. fold = MatchStep(b, fold, 0..last)
  <2>1. \E f : f = MatchStep(b, f, 0..last)
    BY <1>1, MatchExists
  <2>2. QED
    BY <2>1, Zenon
<1> HIDE DEF fold
<1>4. \A n \in 0..last : fold[n] = Matched(b, IF n = 0 THEN NoCases ELSE fold[n - 1], n)
  BY <1>3 DEF MatchStep
<1>5. ASSUME NEW n \in Nat, n \in 0..last, NEW before,
             fold[n] = Matched(b, before, n),
             DOMAIN before = {q \in R : q < n},
             \A r \in DOMAIN before : before[r] = CaseOf(b, r, LeftBy(b, before, r))
      PROVE  Right(n)
  <2>1. CASE n \notin R
    <3>1. fold[n] = before
      BY <1>5, <2>1 DEF Matched
    <3>2. Upto(n) = {q \in R : q < n}
      BY <1>1, <2>1
    <3>3. QED
      BY <1>5, <3>1, <3>2
  <2>2. CASE n \in R
    <3> DEFINE rest == DOMAIN b.bank \ UNION {before[p].bank : p \in DOMAIN before}
    <3>1. fold[n] = [q \in DOMAIN before \cup {n} |-> IF q = n THEN CaseOf(b, n, rest) ELSE before[q]]
      BY <1>5, <2>2 DEF Matched
    <3>2. Upto(n) = DOMAIN before \cup {n} /\ n \notin DOMAIN before
      BY <1>1, <1>5, <2>2
    <3> HIDE DEF rest
    <3>3. /\ DOMAIN fold[n] = Upto(n) /\ fold[n][n] = CaseOf(b, n, rest)
          /\ \A q \in DOMAIN before : fold[n][q] = before[q]
      BY <3>1, <3>2
    <3>4. LeftBy(b, fold[n], n) = rest
      BY <1>5, <3>3 DEF LeftBy, rest
    <3>5. ASSUME NEW r \in DOMAIN before PROVE LeftBy(b, fold[n], r) = LeftBy(b, before, r)
      <4>1. \A p \in R : p < r => p \in DOMAIN before
        BY <1>1, <1>5
      <4>2. \A p \in {o \in R : o < r} : fold[n][p] = before[p]
        BY <3>3, <4>1
      <4>3. QED
        BY <4>2 DEF LeftBy
    <3>6. QED
      BY <1>5, <3>2, <3>3, <3>4, <3>5
  <2>3. QED
    BY <2>1, <2>2
<1>6. 0 \in Good
  <2>1. 0 \in 0..last /\ fold[0] = Matched(b, NoCases, 0)
    BY <1>1, <1>4
  <2>2. DOMAIN NoCases = {q \in R : q < 0}
    BY <1>1 DEF NoCases
  <2>3. \A r \in DOMAIN NoCases : NoCases[r] = CaseOf(b, r, LeftBy(b, NoCases, r))
    BY DEF NoCases
  <2>4. Right(0)
    BY <1>5, <2>1, <2>2, <2>3
  <2> HIDE DEF Right
  <2>5. QED
    BY <2>4
<1>7. ASSUME NEW n \in Nat, n \in Good PROVE n + 1 \in Good
  <2>1. SUFFICES ASSUME n + 1 \in 0..last PROVE Right(n + 1)
    OBVIOUS
  <2>2. n \in 0..last /\ (n + 1) - 1 = n /\ n + 1 # 0
    BY <1>1, <2>1
  <2>3. fold[n + 1] = Matched(b, fold[n], n + 1)
    BY <1>4, <2>1, <2>2
  <2>4. Right(n)
    BY <1>7, <2>2
  <2>5. {q \in R : q < n + 1} = Upto(n)
    BY <1>1
  <2>6. QED
    BY <1>5, <2>1, <2>3, <2>4, <2>5
<1>8. Nat \subseteq Good
  <2> HIDE DEF Good
  <2>1. QED
    BY <1>6, <1>7, NaturalInduction
<1>9. Right(last) /\ Upto(last) = R
  BY <1>1, <1>8
<1>10. QED
  BY <1>2, <1>9

-----------------------------------------------------------------------------
(***************************************************************************)
(* Two batches with the same gateway and bank rows and different ledgers.  *)
(* The selection of bank rows does not look at the ledger, so a journal    *)
(* more changes the decision on its own settlement only.                   *)
(***************************************************************************)
Alike(b, c) == c.gateway = b.gateway /\ c.bank = b.bank /\ c.required = b.required

LEMMA SelectAlike ==
  ASSUME NEW b, NEW c, Alike(b, c), NEW r, NEW free
  PROVE  /\ SelectBank(c, r, free) = SelectBank(b, r, free)
         /\ IdentifierConflict(c, r, free) = IdentifierConflict(b, r, free)
<1>1. /\ \A S : AmountOf(c, S) = AmountOf(b, S)
      /\ \A x : InWindow(c, r, x) = InWindow(b, r, x)
      /\ ObservedNet(c, r) = ObservedNet(b, r) /\ ExpectedUtr(c, r) = ExpectedUtr(b, r)
      /\ \A utr : WithUtr(c, utr, free) = WithUtr(b, utr, free)
  BY DEF Alike, AmountOf, InWindow, ObservedNet, ExpectedUtr, WithUtr
<1>2. BankCandidates(c, r, free) = BankCandidates(b, r, free)
  BY <1>1 DEF Alike, BankCandidates
<1>3. \A S : ValidGroups(c, r, S) = ValidGroups(b, r, S)
  BY <1>1 DEF ValidGroups
<1>4. \A S : FoundGroups(c, r, S) = FoundGroups(b, r, S)
  <2>1. ASSUME NEW S PROVE FoundGroups(c, r, S) = FoundGroups(b, r, S)
    <3>1. ValidGroups(c, r, S) = ValidGroups(b, r, S)
      BY <1>3
    <3>2. QED
      BY <3>1, Zenon DEF FoundGroups
  <2>2. QED
    BY <2>1
<1>5. IdentifierConflict(c, r, free) = IdentifierConflict(b, r, free)
  BY <1>1 DEF IdentifierConflict
<1>6. SelectBank(c, r, free) = SelectBank(b, r, free)
  BY <1>1, <1>2, <1>4, <1>5, Zenon DEF SelectBank, Alike
<1>7. QED
  BY <1>5, <1>6

\* The checks that are not about the ERP say the same of both.
LEMMA ReceiptsAlike ==
  ASSUME NEW b, NEW c, Alike(b, c), NEW r, NEW sel
  PROVE  LET old == CheckResults(b, r, sel)
             new == CheckResults(c, r, sel)
         IN
         /\ new["GATEWAY_SETTLEMENT_UNIQUE"] = old["GATEWAY_SETTLEMENT_UNIQUE"]
         /\ new["SETTLEMENT_COMPONENT_INVARIANT"] = old["SETTLEMENT_COMPONENT_INVARIANT"]
         /\ new["BANK_RECEIPT_PRESENT"] = old["BANK_RECEIPT_PRESENT"]
         /\ new["BANK_RECEIPT_AMOUNT"] = old["BANK_RECEIPT_AMOUNT"]
         /\ new["BANK_RECEIPT_DIRECTION"] = old["BANK_RECEIPT_DIRECTION"]
         /\ new["BANK_RECEIPT_REFERENCE"] = old["BANK_RECEIPT_REFERENCE"]
         /\ new["BANK_RECEIPT_DATE"] = old["BANK_RECEIPT_DATE"]
         /\ new["BANK_RECEIPT_UNIQUE"] = old["BANK_RECEIPT_UNIQUE"]
<1>1. /\ \A S : AmountOf(c, S) = AmountOf(b, S)
      /\ \A x : InWindow(c, r, x) = InWindow(b, r, x)
      /\ ObservedNet(c, r) = ObservedNet(b, r) /\ ExpectedUtr(c, r) = ExpectedUtr(b, r)
      /\ \A utr, S : WithUtr(c, utr, S) = WithUtr(b, utr, S)
      /\ c.gateway = b.gateway /\ c.bank = b.bank
  BY DEF Alike, AmountOf, InWindow, ObservedNet, ExpectedUtr, WithUtr
<1>2. QED
  BY <1>1, Zenon DEF CheckResults

\* With the same journals, the case is the same.
LEMMA CaseAlike ==
  ASSUME NEW b, NEW c, Alike(b, c), NEW r, NEW free,
         Journals(c, r) = Journals(b, r), \A j \in Journals(b, r) : c.erp[j] = b.erp[j]
  PROVE  CaseOf(c, r, free) = CaseOf(b, r, free)
<1> DEFINE sel == SelectBank(b, r, free)
<1>1. SelectBank(c, r, free) = sel /\ IdentifierConflict(c, r, free) = IdentifierConflict(b, r, free)
  BY SelectAlike
<1> HIDE DEF sel
<1>2. CheckResults(c, r, sel) = CheckResults(b, r, sel)
  <2>1. /\ \A S : AmountOf(c, S) = AmountOf(b, S)
        /\ \A x : InWindow(c, r, x) = InWindow(b, r, x)
        /\ ObservedNet(c, r) = ObservedNet(b, r) /\ ExpectedUtr(c, r) = ExpectedUtr(b, r)
        /\ \A utr, S : WithUtr(c, utr, S) = WithUtr(b, utr, S)
        /\ c.gateway = b.gateway /\ c.bank = b.bank
    BY DEF Alike, AmountOf, InWindow, ObservedNet, ExpectedUtr, WithUtr
  <2>2. QED
    BY <2>1 DEF CheckResults
<1>3. \A passed : ReasonsGiven(c, r, free, sel, passed) = ReasonsGiven(b, r, free, sel, passed)
  BY <1>1 DEF ReasonsGiven, Alike
<1>4. QED
  BY <1>1, <1>2, <1>3, Zenon DEF CaseOf, sel

\* Whatever the journals, it takes the same rows.
LEMMA CaseBankAlike ==
  ASSUME NEW b, NEW c, Alike(b, c), NEW r, NEW free
  PROVE  CaseOf(c, r, free).bank = CaseOf(b, r, free).bank
<1>1. SelectBank(c, r, free) = SelectBank(b, r, free)
  BY SelectAlike
<1>2. QED
  BY <1>1 DEF CaseOf

\* So every settlement is left the same rows.
LEMMA LeftAlike ==
  ASSUME NEW b, NEW c, IsBatch(b), IsBatch(c), Alike(b, c)
  PROVE  \A r \in DOMAIN b.gateway :
           /\ LeftBy(c, CasesOf(c), r) = LeftBy(b, CasesOf(b), r)
           /\ CasesOf(c)[r].bank = CasesOf(b)[r].bank
<1> DEFINE Good == {n \in Nat : \A r \in DOMAIN b.gateway :
                                  r < n => CasesOf(c)[r].bank = CasesOf(b)[r].bank}
<1>1. DOMAIN b.gateway \subseteq Nat /\ DOMAIN c.gateway = DOMAIN b.gateway
  BY DEF IsBatch, Alike
<1>2. ASSUME NEW r \in DOMAIN b.gateway,
             \A q \in DOMAIN b.gateway : q < r => CasesOf(c)[q].bank = CasesOf(b)[q].bank
      PROVE  /\ LeftBy(c, CasesOf(c), r) = LeftBy(b, CasesOf(b), r)
             /\ CasesOf(c)[r].bank = CasesOf(b)[r].bank
  <2>1. LeftBy(c, CasesOf(c), r) = LeftBy(b, CasesOf(b), r)
    BY <1>1, <1>2 DEF LeftBy, Alike
  <2>2. CasesOf(b)[r] = CaseOf(b, r, LeftBy(b, CasesOf(b), r))
    BY CasesLemma
  <2>3. CasesOf(c)[r] = CaseOf(c, r, LeftBy(c, CasesOf(c), r))
    BY <1>1, CasesLemma
  <2>4. QED
    BY <2>1, <2>2, <2>3, CaseBankAlike
<1>3. 0 \in Good
  BY <1>1
<1>4. ASSUME NEW n \in Nat, n \in Good PROVE n + 1 \in Good
  <2>1. ASSUME NEW r \in DOMAIN b.gateway, r < n + 1
        PROVE  CasesOf(c)[r].bank = CasesOf(b)[r].bank
    <3>1. \A q \in DOMAIN b.gateway : q < r => q < n
      BY <1>1, <2>1
    <3>2. QED
      BY <1>2, <1>4, <3>1
  <2>2. QED
    BY <2>1
<1>5. Nat \subseteq Good
  <2> HIDE DEF Good
  <2>1. QED
    BY <1>3, <1>4, NaturalInduction
<1>6. \A r \in DOMAIN b.gateway : CasesOf(c)[r].bank = CasesOf(b)[r].bank
  <2>1. ASSUME NEW r \in DOMAIN b.gateway PROVE CasesOf(c)[r].bank = CasesOf(b)[r].bank
    <3>1. r + 1 \in Good /\ r < r + 1
      BY <1>1, <1>5
    <3>2. QED
      BY <3>1
  <2>2. QED
    BY <2>1
<1>7. QED
  BY <1>2, <1>6

\* The decisions of a batch, one by one.
LEMMA DecisionsLemma ==
  ASSUME NEW b, IsBatch(b)
  PROVE  /\ DOMAIN DecisionsOf(b) = DOMAIN b.gateway
         /\ \A r \in DOMAIN b.gateway :
              DecisionsOf(b)[r] = Decision(CaseOf(b, r, LeftBy(b, CasesOf(b), r)), b.required)
<1>1. /\ DOMAIN CasesOf(b) = DOMAIN b.gateway
      /\ \A r \in DOMAIN b.gateway : CasesOf(b)[r] = CaseOf(b, r, LeftBy(b, CasesOf(b), r))
  BY CasesLemma
<1>2. QED
  BY <1>1 DEF DecisionsOf, DecisionsOn

\* The kernel is local: settlements whose journals are the same get the same decision.
LEMMA DecisionsAreLocal ==
  ASSUME NEW b, NEW c, IsBatch(b), IsBatch(c), Alike(b, c), NEW r \in DOMAIN b.gateway,
         Journals(c, r) = Journals(b, r), \A j \in Journals(b, r) : c.erp[j] = b.erp[j]
  PROVE  DecisionsOf(c)[r] = DecisionsOf(b)[r]
<1> DEFINE free == LeftBy(b, CasesOf(b), r)
<1>1. LeftBy(c, CasesOf(c), r) = free
  BY LeftAlike
<1>2. DecisionsOf(b)[r] = Decision(CaseOf(b, r, free), b.required)
  BY DecisionsLemma
<1>3. DecisionsOf(c)[r] = Decision(CaseOf(c, r, free), b.required)
  BY <1>1, DecisionsLemma DEF Alike
<1> HIDE DEF free
<1>4. CaseOf(c, r, free) = CaseOf(b, r, free)
  BY CaseAlike
<1>5. QED
  BY <1>2, <1>3, <1>4
-----------------------------------------------------------------------------
(***************************************************************************)
(* What it says of a case that it is filed under a posting reason.         *)
(***************************************************************************)
LEMMA FiledLemma ==
  ASSUME NEW c, NEW required, NEW i \in 1..11, FiledUnder(c, required) = Priority[i]
  PROVE  /\ ProofLevel(c, required) # "PROVED"
         /\ Priority[i] \in c.reasons
         /\ \A k \in 1..12 : k < i => Priority[k] \notin c.reasons
<1> DEFINE given == {k \in DOMAIN Priority : Priority[k] \in c.reasons}
<1>1. /\ Priority[i] # "NONE" /\ Priority[i] # "UNKNOWN_UNRESOLVED"
      /\ \A k \in 1..12 : Priority[k] = Priority[i] => k = i
  BY PriorityValues
<1>2. given \subseteq Nat /\ given \subseteq 1..12 /\ \A k \in given : Priority[k] \in c.reasons
  BY PriorityValues
<1>3. given # {} => Min(given) \in given /\ \A k \in given : Min(given) <= k
  BY <1>2, MinLemma
<1>4. /\ ProofLevel(c, required) # "PROVED" /\ given # {}
      /\ FiledUnder(c, required) = Priority[Min(given)]
  BY <1>1 DEF FiledUnder
<1>5. Min(given) = i
  BY <1>1, <1>2, <1>3, <1>4
<1>6. \A k \in 1..12 : k < i => k \notin given
  BY <1>2, <1>3, <1>4, <1>5
<1>7. QED
  BY <1>2, <1>3, <1>4, <1>5, <1>6, PriorityValues

\* A settlement whose posting is all that is missing is paid by the rows its case
\* takes, and there is no doubt which ones they are.
LEMMA MissingPostingLemma ==
  ASSUME NEW b, IsBatch(b), NEW r \in DOMAIN b.gateway, NEW free, free \subseteq DOMAIN b.bank,
         NEW required, FiledUnder(CaseOf(b, r, free), required) = "MISSING_ERP_POSTING"
  PROVE  LET g   == b.gateway[r]
             sel == SelectBank(b, r, free)
         IN
         /\ g.rows = 1 /\ ExpectedNet(g) = g.net
         /\ Journals(b, r) = {}
         /\ ~IdentifierConflict(b, r, free) /\ ~sel.ambiguous
         /\ sel.group # {} /\ sel.group = sel.considered
         /\ AmountOf(b, sel.group) = g.net
         /\ \/ \A x \in sel.group : b.bank[x].credit
            \/ \E x : sel.group = {x}
<1> DEFINE g       == b.gateway[r]
           sel     == SelectBank(b, r, free)
           results == CheckResults(b, r, sel)
           passed  == {c \in Checks : results[c]}
           given   == ReasonsGiven(b, r, free, sel, passed)
           reasons == CaseOf(b, r, free).reasons
<1>1. reasons = {x \in DOMAIN given : given[x]}
  BY DEF CaseOf
<1>2. /\ "MISSING_ERP_POSTING" \in reasons
      /\ "DUPLICATE_IDENTIFIER" \notin reasons /\ "BANK_RECEIPT_AMBIGUOUS" \notin reasons
      /\ "SETTLEMENT_COMPONENT_MISMATCH" \notin reasons /\ "BANK_AMOUNT_MISMATCH" \notin reasons
      /\ "REFERENCE_MISMATCH" \notin reasons /\ "MISSING_BANK_RECEIPT" \notin reasons
  <2>1. /\ Priority[10] \in reasons
        /\ \A k \in 1..12 : k < 10 => Priority[k] \notin reasons
    <3>1. FiledUnder(CaseOf(b, r, free), required) = Priority[10] /\ 10 \in 1..11
      BY PriorityValues
    <3>2. QED
      BY <3>1, FiledLemma
  <2> HIDE DEF reasons
  <2>2. QED
    BY <2>1, PriorityValues
<1> HIDE DEF sel, passed, reasons
<1>3. /\ ~(g.rows > 1) /\ ~IdentifierConflict(b, r, free)
      /\ "SETTLEMENT_COMPONENT_INVARIANT" \in passed
      /\ "BANK_RECEIPT_PRESENT" \in passed /\ "BANK_RECEIPT_AMOUNT" \in passed
      /\ "BANK_RECEIPT_REFERENCE" \in passed
      /\ ~sel.ambiguous /\ "ERP_JOURNAL_PRESENT" \notin passed
  BY <1>1, <1>2 DEF ReasonsGiven
<1>4. /\ ExpectedNet(g) = ObservedNet(b, r) /\ sel.group # {}
      /\ AmountOf(b, sel.group) = ObservedNet(b, r)
      /\ sel.group \subseteq WithUtr(b, ExpectedUtr(b, r), sel.group)
  <2>1. /\ results["SETTLEMENT_COMPONENT_INVARIANT"] /\ results["BANK_RECEIPT_PRESENT"]
        /\ results["BANK_RECEIPT_AMOUNT"] /\ results["BANK_RECEIPT_REFERENCE"]
    BY <1>3 DEF passed
  <2>2. QED
    BY <2>1, ResultsLemma
<1>5. Journals(b, r) = {}
  <2>1. ~results["ERP_JOURNAL_PRESENT"]
    BY <1>3 DEF passed, Checks
  <2>2. QED
    BY <2>1 DEF CheckResults
<1>6. g.rows = 1
  <2>1. ExpectedUtr(b, r) # NoUtr
    BY <1>4 DEF WithUtr
  <2>2. g.rows # 0 /\ g.rows \in Nat
    BY <2>1 DEF ExpectedUtr, IsBatch, Gateway
  <2>3. QED
    BY <1>3, <2>2
<1>7. ObservedNet(b, r) = g.net
  BY <1>6 DEF ObservedNet
<1>8. sel.group = sel.considered
  BY <1>3, SelectionLemma DEF sel
<1>9. (\A x \in sel.group : b.bank[x].credit) \/ \E x : sel.group = {x}
  <2> DEFINE exact      == WithUtr(b, g.utr, free)
             candidates == BankCandidates(b, r, free)
             found      == FoundGroups(b, r, candidates)
  <2>1. sel.group = IF found # {} THEN First(found)
                    ELSE IF exact = {} THEN {} ELSE {Min(exact)}
    <3> DEFINE bounded == BoundedOut(candidates)
               several == Cardinality(found) > 1
               many    == Cardinality(exact) > 1
    <3>1. sel = IF found # {}
                  THEN [group |-> First(found), considered |-> UNION found,
                        ambiguous |-> several \/ bounded]
                ELSE IF exact = {}
                  THEN [group |-> {}, considered |-> {}, ambiguous |-> FALSE \/ bounded]
                ELSE [group |-> {Min(exact)}, considered |-> exact, ambiguous |-> many \/ bounded]
      BY <1>3 DEF sel, SelectBank
    <3> HIDE DEF found, exact, several, many, bounded, candidates
    <3>2. QED
      BY <3>1
  <2>2. CASE found = {}
    BY <1>4, <2>1, <2>2
  <2>3. CASE found # {}
    <3>1. candidates \subseteq DOMAIN b.bank /\ candidates \subseteq Nat
      BY DEF BankCandidates, IsBatch
    <3>2. /\ found \subseteq SUBSET candidates /\ IsFiniteSet(found)
          /\ \A S \in found : IsFiniteSet(S)
      BY <3>1, FoundLemma
    <3> HIDE DEF found
    <3>3. \A S \in found : S \subseteq Nat /\ IsFiniteSet(S)
      BY <3>1, <3>2
    <3>4. \E S \in found : \A T \in found : ~Before(T, S)
      BY <2>3, <3>2, <3>3, SomeGroupIsFirst
    <3>5. First(found) \in found
      BY <3>4 DEF First
    <3>6. \A x \in sel.group : x \in candidates
      BY <2>1, <2>3, <3>2, <3>5
    <3>7. QED
      BY <3>6 DEF BankCandidates
  <2>4. QED
    BY <2>2, <2>3
<1>10. QED
  BY <1>3, <1>4, <1>5, <1>6, <1>7, <1>8, <1>9 DEF sel

\* A settlement filed as posted twice has several journals.
LEMMA DuplicatePostingLemma ==
  ASSUME NEW b, NEW r, NEW free, NEW required,
         FiledUnder(CaseOf(b, r, free), required) = "DUPLICATE_ERP_POSTING"
  PROVE  Cardinality(Journals(b, r)) > 1
<1> DEFINE sel     == SelectBank(b, r, free)
           passed  == {c \in Checks : CheckResults(b, r, sel)[c]}
           given   == ReasonsGiven(b, r, free, sel, passed)
<1>1. CaseOf(b, r, free).reasons = {x \in DOMAIN given : given[x]}
  BY DEF CaseOf
<1>2. "DUPLICATE_ERP_POSTING" \in CaseOf(b, r, free).reasons
  <2>1. FiledUnder(CaseOf(b, r, free), required) = Priority[2] /\ 2 \in 1..11
    BY PriorityValues
  <2>2. Priority[2] \in CaseOf(b, r, free).reasons
    BY <2>1, FiledLemma
  <2>3. QED
    BY <2>2, PriorityValues
<1>3. given["DUPLICATE_ERP_POSTING"]
  BY <1>1, <1>2
<1> HIDE DEF sel, passed
<1>4. QED
  BY <1>3 DEF ReasonsGiven

\* As long as there are several journals, no check looks at them.
LEMMA StillDuplicate ==
  ASSUME NEW b, NEW c, Alike(b, c), NEW r, NEW free, NEW required,
         Cardinality(Journals(b, r)) > 1, Cardinality(Journals(c, r)) > 1,
         Journals(b, r) # {}, Journals(c, r) # {}
  PROVE  Decision(CaseOf(c, r, free), required) = Decision(CaseOf(b, r, free), required)
<1> DEFINE sel == SelectBank(b, r, free)
           old == CheckResults(b, r, sel)
           new == CheckResults(c, r, sel)
<1>1. SelectBank(c, r, free) = sel /\ IdentifierConflict(c, r, free) = IdentifierConflict(b, r, free)
  BY SelectAlike
<1> HIDE DEF sel
<1>2. new = old
  <2>1. /\ \A S : AmountOf(c, S) = AmountOf(b, S)
        /\ \A x : InWindow(c, r, x) = InWindow(b, r, x)
        /\ ObservedNet(c, r) = ObservedNet(b, r) /\ ExpectedUtr(c, r) = ExpectedUtr(b, r)
        /\ \A utr, S : WithUtr(c, utr, S) = WithUtr(b, utr, S)
        /\ c.gateway = b.gateway /\ c.bank = b.bank
    BY DEF Alike, AmountOf, InWindow, ObservedNet, ExpectedUtr, WithUtr
  <2>2. (Cardinality(Journals(b, r)) = 1) = FALSE /\ (Cardinality(Journals(c, r)) = 1) = FALSE
    OBVIOUS
  <2>3. (Journals(b, r) # {}) = TRUE /\ (Journals(c, r) # {}) = TRUE
    OBVIOUS
  <2>4. QED
    BY <2>1, <2>2, <2>3 DEF CheckResults
<1> HIDE DEF old, new
<1>3. \A passed : ReasonsGiven(c, r, free, sel, passed) = ReasonsGiven(b, r, free, sel, passed)
  <2>1. (Cardinality(Journals(b, r)) > 1) = TRUE /\ (Cardinality(Journals(c, r)) > 1) = TRUE
    OBVIOUS
  <2>2. QED
    BY <1>1, <2>1 DEF ReasonsGiven, Alike
<1> DEFINE before == CaseOf(b, r, free)
           after  == CaseOf(c, r, free)
<1>4. /\ after.bank = before.bank /\ after.passed = before.passed /\ after.reasons = before.reasons
      /\ after.unique = before.unique /\ after.ambiguous = before.ambiguous
      /\ after.invalid = before.invalid
  BY <1>1, <1>2, <1>3, Zenon DEF CaseOf, sel, old, new
<1> HIDE DEF before, after
<1>5. QED
  BY <1>4 DEF Decision, ProofLevel, FiledUnder, before, after
=============================================================================
