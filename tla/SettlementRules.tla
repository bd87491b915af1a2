--------------------------- MODULE SettlementRules ---------------------------
(***************************************************************************)
(* The rules of the reconciliation kernel, as operators: which bank rows   *)
(* and ERP journals a settlement selects, what its checks say, and what    *)
(* the risk gate and the exception factory make of its case.               *)
(*                                                                         *)
(* Amounts are compared exactly: the three tolerances of the policy        *)
(* razorpay_inr_v1 are zero.                                               *)
(***************************************************************************)
EXTENDS Integers, FiniteSets, FiniteSetsExt, Functions

CONSTANTS
  Utrs,           \* the bank references (UTRs) in use
  NoUtr,          \* a row without one
  MinDays,        \* policy: the window from settlement to bank receipt
  MaxDays,
  MaxCandidates,  \* policy: bank rows a group is searched among
  MaxGroupSize,   \* policy: rows of a group
  MaxValidGroups, \* policy: groups after which the search stops
  AutoClear       \* policy: whether a proved case is cleared

(***************************************************************************)
(* A batch.  References and bank rows are numbers; their order is the      *)
(* order of their ids.  Of the gateway rows of a settlement only           *)
(* what the rules read is kept: how many SETTLEMENT rows there are, the    *)
(* amount, UTR and day of the first (of the first row, if there is none),  *)
(* and the totals of its components.  A bank row has an amount, a UTR, a   *)
(* value date and a direction.  A journal here is what the rules see of    *)
(* one: the lines of the ERP journal doc that carry one reference, with    *)
(* their totals on the four policy accounts, each on the side the policy   *)
(* gives it, and the debits less the credits of all other lines.  A batch  *)
(* also carries the checks that the policy of its run requires.            *)
(***************************************************************************)
Gateway == [rows : Nat, net : Nat, gross : Int, fee : Nat, tax : Nat,
            utr : Utrs \cup {NoUtr}, day : Int]

BankRow == [amount : Nat \ {0}, utr : Utrs \cup {NoUtr}, day : Int, credit : BOOLEAN]

Journal == [doc : Nat, ref : Nat, bank : Nat, clearing : Nat, fee : Nat, tax : Nat,
            other : Int]

\* A batch, with what the adapters and ReconciliationContext.build make sure of.
IsBatch(b) ==
  /\ b = [part \in {"gateway", "bank", "erp", "required"} |-> b[part]]
  /\ DOMAIN b.gateway \subseteq Nat /\ DOMAIN b.bank \subseteq Nat
  /\ \A rows \in {DOMAIN b.gateway, DOMAIN b.bank, DOMAIN b.erp} : IsFiniteSet(rows)
  /\ b.gateway \in [DOMAIN b.gateway -> Gateway]
  /\ b.bank \in [DOMAIN b.bank -> BankRow]
  /\ b.erp \in [DOMAIN b.erp -> Journal]

PostingChecks ==
  {"ERP_BANK_POSTING", "ERP_CLEARING_POSTING", "ERP_FEE_POSTING", "ERP_TAX_POSTING"}

Checks ==
  {"GATEWAY_SETTLEMENT_UNIQUE", "SETTLEMENT_COMPONENT_INVARIANT",
   "BANK_RECEIPT_PRESENT", "BANK_RECEIPT_AMOUNT", "BANK_RECEIPT_DIRECTION",
   "BANK_RECEIPT_REFERENCE", "BANK_RECEIPT_DATE", "BANK_RECEIPT_UNIQUE",
   "ERP_JOURNAL_PRESENT", "ERP_JOURNAL_UNIQUE", "ERP_JOURNAL_BALANCED"} \cup PostingChecks

\* What load_policy and _validate_ranges accept.
ASSUME PolicyAssumption ==
  /\ MinDays \in Nat /\ MaxDays \in Nat /\ MinDays <= MaxDays
  /\ MaxGroupSize \in Nat \ {0} /\ MaxCandidates \in Nat /\ MaxGroupSize <= MaxCandidates
  /\ MaxValidGroups \in Nat /\ MaxValidGroups >= 2
  /\ AutoClear \in BOOLEAN
  /\ NoUtr \notin Utrs

-----------------------------------------------------------------------------
(***************************************************************************)
(* Bank rows: candidates and groups.                                       *)
(***************************************************************************)
AmountOf(b, S) == SumFunctionOnSet([x \in DOMAIN b.bank |-> b.bank[x].amount], S)

InWindow(b, r, x) == b.bank[x].day - b.gateway[r].day \in MinDays..MaxDays

\* bank_candidates: credits in the window that no earlier case has taken.
BankCandidates(b, r, free) == {x \in free : b.bank[x].credit /\ InWindow(b, r, x)}

\* The amount on the SETTLEMENT row, 0 when there is none.
ObservedNet(b, r) == IF b.gateway[r].rows = 0 THEN 0 ELSE b.gateway[r].net

\* itertools.combinations: smaller groups first, then in the order of the ids.
Before(S, T) ==
  \/ Cardinality(S) < Cardinality(T)
  \/ Cardinality(S) = Cardinality(T) /\ S # T /\ Min(SymDiff(S, T)) \in S

First(groups) == CHOOSE S \in groups : \A T \in groups : ~Before(T, S)

\* All groups the search may find.
ValidGroups(b, r, candidates) ==
  {S \in SUBSET candidates : /\ S # {}
                             /\ Cardinality(S) <= MaxGroupSize
                             /\ AmountOf(b, S) = ObservedNet(b, r)}

\* Slip: the bound itself is out of bounds.
BoundedOutEarly(candidates) == Cardinality(candidates) >= MaxCandidates

BoundedOut(candidates) == Cardinality(candidates) > MaxCandidates

\* Slip: the first group that fits ends the search.
FirstGroupOnly(b, r, candidates) ==
  LET valid == ValidGroups(b, r, candidates) IN
  IF valid = {} \/ BoundedOut(candidates) THEN {} ELSE {First(valid)}

\* amount_groups: the first MaxValidGroups of them, none beyond the bound.
FoundGroups(b, r, candidates) ==
  LET valid == ValidGroups(b, r, candidates) IN
  IF BoundedOut(candidates)
    THEN {}
    ELSE {S \in valid : Cardinality({T \in valid : Before(T, S)}) < MaxValidGroups}

\* Rows of any date and direction that carry the reference.
WithUtr(b, utr, free) == {x \in free : utr # NoUtr /\ b.bank[x].utr = utr}

\* The UTR on the SETTLEMENT row.
ExpectedUtr(b, r) == IF b.gateway[r].rows = 0 THEN NoUtr ELSE b.gateway[r].utr

\* Several rows carry the reference and do not add up to the settlement.
IdentifierConflict(b, r, free) ==
  LET exact == WithUtr(b, ExpectedUtr(b, r), free) IN
  Cardinality(exact) > 1 /\ AmountOf(b, exact) # ObservedNet(b, r)

(***************************************************************************)
(* _select_bank_group and what analyze_settlement makes of it: the rows    *)
(* the checks are about, the rows the case takes, and whether it is        *)
(* ambiguous which ones they are.                                          *)
(***************************************************************************)
SelectBank(b, r, free) ==
  LET exact   == WithUtr(b, b.gateway[r].utr, free)
      bounded == BoundedOut(BankCandidates(b, r, free))
      found   == FoundGroups(b, r, BankCandidates(b, r, free))
      Selection(group, considered, ambiguous) ==
        [group |-> group, considered |-> considered, ambiguous |-> ambiguous \/ bounded]
  IN
  IF IdentifierConflict(b, r, free) THEN Selection(exact, exact, FALSE)
  ELSE IF found # {} THEN Selection(First(found), UNION found, Cardinality(found) > 1)
  ELSE IF exact = {} THEN Selection({}, {}, FALSE)
  ELSE Selection({Min(exact)}, exact, Cardinality(exact) > 1)

-----------------------------------------------------------------------------
(***************************************************************************)
(* ERP journals.                                                           *)
(***************************************************************************)
Journals(b, r) == {j \in DOMAIN b.erp : b.erp[j].ref = r}

\* Slip: only the lines on the four policy accounts.
PolicyImbalance(j) == j.bank + j.fee + j.tax - j.clearing

\* Debits less credits of the lines.
Imbalance(j) == j.bank + j.fee + j.tax + j.other - j.clearing

-----------------------------------------------------------------------------
(***************************************************************************)
(* The case of a settlement.                                               *)
(***************************************************************************)
ExpectedNet(g) == g.gross - g.fee - g.tax

\* Check -> whether it passed.
CheckResults(b, r, sel) ==
  LET g       == b.gateway[r]
      net     == ObservedNet(b, r)
      group   == sel.group
      present == group # {}
      single  == Cardinality(Journals(b, r)) = 1
      \* All the journals of r, when there is exactly one.
      Posted(P(_)) == single /\ \A j \in Journals(b, r) : P(b.erp[j])
  IN [GATEWAY_SETTLEMENT_UNIQUE      |-> g.rows = 1,
      SETTLEMENT_COMPONENT_INVARIANT |-> ExpectedNet(g) = net,
      BANK_RECEIPT_PRESENT           |-> present,
      BANK_RECEIPT_AMOUNT            |-> present /\ AmountOf(b, group) = net,
      BANK_RECEIPT_DIRECTION         |-> present /\ \A x \in group : b.bank[x].credit,
      BANK_RECEIPT_REFERENCE         |-> present /\ group \subseteq WithUtr(b, ExpectedUtr(b, r), group),
      BANK_RECEIPT_DATE              |-> present /\ \A x \in group : InWindow(b, r, x),
      BANK_RECEIPT_UNIQUE            |-> present /\ ~sel.ambiguous,
      ERP_JOURNAL_PRESENT            |-> Journals(b, r) # {},
      ERP_JOURNAL_UNIQUE             |-> single,
      ERP_JOURNAL_BALANCED           |-> Posted(LAMBDA j : Imbalance(j) = 0),
      ERP_BANK_POSTING               |-> Posted(LAMBDA j : j.bank = net),
      ERP_CLEARING_POSTING           |-> Posted(LAMBDA j : j.clearing = g.gross),
      ERP_FEE_POSTING                |-> Posted(LAMBDA j : j.fee = g.fee),
      ERP_TAX_POSTING                |-> Posted(LAMBDA j : j.tax = g.tax)]

\* Reason -> whether it is given.
ReasonsGiven(b, r, free, sel, passed) ==
  LET present == "BANK_RECEIPT_PRESENT" \in passed
      amount  == "BANK_RECEIPT_AMOUNT" \in passed
      single  == "ERP_JOURNAL_UNIQUE" \in passed
  IN [UNKNOWN_UNRESOLVED            |-> b.gateway[r].rows = 0,
      DUPLICATE_IDENTIFIER          |-> b.gateway[r].rows > 1 \/ IdentifierConflict(b, r, free),
      SETTLEMENT_COMPONENT_MISMATCH |-> "SETTLEMENT_COMPONENT_INVARIANT" \notin passed,
      MISSING_BANK_RECEIPT          |-> ~present,
      BANK_AMOUNT_MISMATCH          |-> present /\ ~amount,
      REFERENCE_MISMATCH            |-> amount /\ "BANK_RECEIPT_REFERENCE" \notin passed,
      BANK_DATE_OUT_OF_RANGE        |-> present /\ "BANK_RECEIPT_DATE" \notin passed,
      BANK_RECEIPT_AMBIGUOUS        |-> sel.ambiguous,
      MISSING_ERP_POSTING           |-> "ERP_JOURNAL_PRESENT" \notin passed,
      DUPLICATE_ERP_POSTING         |-> Cardinality(Journals(b, r)) > 1,
      ERP_JOURNAL_UNBALANCED        |-> single /\ "ERP_JOURNAL_BALANCED" \notin passed,
      ERP_POSTING_MISMATCH          |-> /\ "ERP_JOURNAL_BALANCED" \in passed
                                        /\ ~(PostingChecks \subseteq passed)]

\* analyze_settlement.
CaseOf(b, r, free) ==
  LET sel     == SelectBank(b, r, free)
      results == CheckResults(b, r, sel)
      passed  == {c \in Checks : results[c]}
      given   == ReasonsGiven(b, r, free, sel, passed)
  IN [bank      |-> sel.considered,
      erp       |-> Journals(b, r),
      passed    |-> passed,
      reasons   |-> {x \in DOMAIN given : given[x]},
      unique    |-> {"GATEWAY_SETTLEMENT_UNIQUE", "BANK_RECEIPT_UNIQUE",
                     "ERP_JOURNAL_UNIQUE"} \subseteq passed,
      ambiguous |-> sel.ambiguous,
      invalid   |-> "ERP_JOURNAL_UNBALANCED" \in {x \in DOMAIN given : given[x]}]

-----------------------------------------------------------------------------
(***************************************************************************)
(* The risk gate and the exception factory.                                *)
(***************************************************************************)
HardContradictions ==
  {"DUPLICATE_IDENTIFIER", "DUPLICATE_ERP_POSTING", "SETTLEMENT_COMPONENT_MISMATCH",
   "BANK_AMOUNT_MISMATCH", "ERP_POSTING_MISMATCH"}

Levels == {"INVALID_INPUT", "AMBIGUOUS", "CONTRADICTED", "PROVED", "SUPPORTED"}

\* decide.
ProofLevel(c, required) ==
  IF c.invalid THEN "INVALID_INPUT"
  ELSE IF c.ambiguous THEN "AMBIGUOUS"
  ELSE IF c.reasons \cap HardContradictions # {} THEN "CONTRADICTED"
  ELSE IF required \subseteq c.passed /\ c.unique THEN "PROVED"
  ELSE "SUPPORTED"

\* Slip: two reasons have no place.
ShortPriority ==
  <<"ERP_JOURNAL_UNBALANCED", "DUPLICATE_ERP_POSTING", "DUPLICATE_IDENTIFIER",
    "BANK_RECEIPT_AMBIGUOUS", "SETTLEMENT_COMPONENT_MISMATCH", "BANK_AMOUNT_MISMATCH",
    "ERP_POSTING_MISMATCH", "MISSING_BANK_RECEIPT", "BANK_DATE_OUT_OF_RANGE",
    "UNKNOWN_UNRESOLVED">>

\* _PRIORITY.
Priority ==
  <<"ERP_JOURNAL_UNBALANCED", "DUPLICATE_ERP_POSTING", "DUPLICATE_IDENTIFIER",
    "BANK_RECEIPT_AMBIGUOUS", "SETTLEMENT_COMPONENT_MISMATCH", "BANK_AMOUNT_MISMATCH",
    "ERP_POSTING_MISMATCH", "REFERENCE_MISMATCH", "MISSING_BANK_RECEIPT",
    "MISSING_ERP_POSTING", "BANK_DATE_OUT_OF_RANGE", "UNKNOWN_UNRESOLVED">>

Reasons == {Priority[i] : i \in DOMAIN Priority}

Filings == Reasons \cup {"NONE"}

\* create_exception: the reason a case that is not proved is filed under.
FiledUnder(c, required) ==
  LET given == {i \in DOMAIN Priority : Priority[i] \in c.reasons} IN
  IF ProofLevel(c, required) = "PROVED" THEN "NONE"
  ELSE IF given = {} THEN "UNKNOWN_UNRESOLVED"
  ELSE Priority[Min(given)]

\* Slip: only the checks the policy requires are looked at again.
RefusedIfRequired(c, required) == ProofLevel(c, required) = "PROVED" /\ ~(required \subseteq c.passed)

\* ReconciliationDecision.__post_init__: a proved case with a failed check is refused.
Refused(c, required) == ProofLevel(c, required) = "PROVED" /\ c.passed # Checks

-----------------------------------------------------------------------------
(***************************************************************************)
(* reconcile() as a whole: the settlements in the order of their           *)
(* references, each with the bank rows that those before it have left.     *)
(***************************************************************************)
CasesOf(b) ==
  LET References == DOMAIN b.gateway
      After(cases, r) ==
        [q \in DOMAIN cases \cup {r} |->
           IF q = r THEN CaseOf(b, r, DOMAIN b.bank \ UNION {cases[p].bank : p \in DOMAIN cases})
           ELSE cases[q]]
      upTo[r \in 0..Max(References \cup {0})] ==
        LET before == IF r = 0 THEN [q \in {} |-> {}] ELSE upTo[r - 1] IN
        IF r \in References THEN After(before, r) ELSE before
  IN upTo[Max(References \cup {0})]

\* What is stored of the decision on a case and of its exception.
Decision(c, required) ==
  [bank |-> c.bank, passed |-> c.passed,
   level |-> ProofLevel(c, required), filed |-> FiledUnder(c, required)]

\* The decisions, by reference.
DecisionsOn(cases, required) == [r \in DOMAIN cases |-> Decision(cases[r], required)]

DecisionsOf(b) == DecisionsOn(CasesOf(b), b.required)

\* One of them is refused: reconcile() raises.
Raises(b) == \E r \in DOMAIN b.gateway : Refused(CasesOf(b)[r], b.required)
=============================================================================
