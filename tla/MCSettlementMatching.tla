------------------------ MODULE MCSettlementMatching ------------------------
(***************************************************************************)
(* Small instances of SettlementMatching: sets of batches, each of which   *)
(* varies one side and keeps the others as they should be.                 *)
(***************************************************************************)
EXTENDS SettlementMatching

\* Reference r carries UTR r and is settled on day 0, in a window of 0..1 days.
Settled(r, rows, net, gross, fee) ==
  [rows |-> rows, net |-> net, gross |-> gross, fee |-> fee, tax |-> 0, utr |-> r, day |-> 0]

Posting(doc, ref, bank, clearing, fee, other) ==
  [doc |-> doc, ref |-> ref, bank |-> bank, clearing |-> clearing, fee |-> fee, tax |-> 0,
   other |-> other]

Row(amount, utr, day, credit) == [amount |-> amount, utr |-> utr, day |-> day, credit |-> credit]

(***************************************************************************)
(* Two settlements, correctly posted, and three bank rows: any amounts and *)
(* UTRs, received in the window, after it, or paid out.                    *)
(***************************************************************************)
BankRows(amounts) ==
  {Row(a, u, day, TRUE) : a \in amounts, u \in {1, 2, 0}, day \in {0, 2}}
    \cup {Row(a, u, 0, FALSE) : a \in amounts, u \in {1, 2, 0}}

Perfect(nets) == [r \in DOMAIN nets |-> Settled(r, 1, nets[r], nets[r] + 1, 1)]

PerfectErp(nets) == [r \in DOMAIN nets |-> Posting(r, r, nets[r], nets[r] + 1, 1, 0)]

BankBatches ==
  UNION {[gateway : {Perfect(nets)}, bank : [1..3 -> BankRows({1, 2})], erp : {PerfectErp(nets)},
          required : {Checks}] :
           nets \in {<<2, 2>>, <<2, 3>>, <<3, 2>>}}

\* One settlement and four bank rows, all credits, in the window or after it: as many
\* as are searched, with groups of more rows than are looked at.
GroupBatches ==
  [gateway : {Perfect(<<4>>)},
   bank : [1..4 -> {Row(a, u, day, TRUE) : a \in {1, 2, 4}, u \in {1, 0}, day \in {0, 2}}],
   erp : {PerfectErp(<<4>>)},
   required : {Checks}]

\* One row more than are searched.
CrowdedBatches ==
  [gateway : {Perfect(<<4>>)},
   bank : [1..5 -> {Row(a, u, 0, TRUE) : a \in {1, 4}, u \in {1, 0}}],
   erp : {PerfectErp(<<4>>)},
   required : {Checks}]

\* The same under policies that leave most checks out, or require one that there
\* is not: load_policy accepts both.
FewChecksBatches ==
  [gateway : {Perfect(<<2, 3>>)}, bank : [1..3 -> BankRows({1, 2})], erp : {PerfectErp(<<2, 3>>)},
   required : {{"BANK_RECEIPT_AMOUNT", "ERP_BANK_POSTING"}, Checks \cup {"BANK_RECEIPT_TIME"}}]

(***************************************************************************)
(* Two settlements, correctly paid; none, one or two SETTLEMENT rows that  *)
(* may disagree with the components; up to three journals, posted under    *)
(* either reference or another, correct or in one of three ways wrong, and *)
(* maybe of one ERP document, whose other lines may make up for it.        *)
(***************************************************************************)
LedgerGateways ==
  {<<Settled(1, rows, 2, gross, 1), Settled(2, 1, 3, 4, 1)>> : rows \in 0..2, gross \in {3, 4}}

LedgerRows == <<Row(2, 1, 0, TRUE), Row(3, 2, 1, TRUE)>>

LedgerPostings ==
  LET Net(ref) == IF ref = 2 THEN 3 ELSE 2 IN
  {Posting(doc, ref, Net(ref), Net(ref) + 1, 1, 0) : doc \in {1, 2}, ref \in 1..3}
    \cup {Posting(doc, ref, Net(ref), Net(ref) + 1, 1, other) :
            doc \in {1, 2}, ref \in 1..3, other \in {1, -1}}
    \cup {Posting(doc, ref, Net(ref), Net(ref) + 1, 0, 1) : doc \in {1, 2}, ref \in 1..3}

Distinct(erp) ==
  \A i, j \in DOMAIN erp : erp[i].doc = erp[j].doc /\ erp[i].ref = erp[j].ref => i = j

LedgerBatches ==
  [gateway : LedgerGateways,
   bank : {LedgerRows},
   erp : {e \in UNION {[1..n -> LedgerPostings] : n \in 1..3} : Distinct(e)},
   required : {Checks}]

\* All of them, for one run.
AllBatches ==
  BankBatches \cup FewChecksBatches \cup GroupBatches \cup CrowdedBatches \cup LedgerBatches
=============================================================================
