-------------------------- MODULE MCCorrectionLoop --------------------------
(***************************************************************************)
(* Small instances of CorrectionLoop.                                      *)
(***************************************************************************)
EXTENDS CorrectionLoop

\* Reference r carries UTR r and is settled on day 0, in a window of 0..1 days.
Settled(r, net) ==
  [rows |-> 1, net |-> net, gross |-> net + 3, fee |-> 2, tax |-> 1, utr |-> r, day |-> 0]

Paid(r, net, day) == [amount |-> net, utr |-> r, day |-> day, credit |-> TRUE]

Posted(doc, r, net) ==
  [doc |-> doc, ref |-> r, bank |-> net, clearing |-> net + 3, fee |-> 2, tax |-> 1, other |-> 0]

Batch(gateway, bank, erp, required) ==
  [gateway |-> gateway, bank |-> bank, erp |-> erp, required |-> required]

(***************************************************************************)
(* Two settlements.  The posting of the first is missing; that of the      *)
(* second is missing too, and the bank paid late or in two rows, or it is  *)
(* made twice, by journals of which one id says so.                        *)
(***************************************************************************)
TwoSettlements ==
  LET gateway == <<Settled(1, 5), Settled(2, 7)>> IN
  {Batch(gateway, <<Paid(1, 5, 0), Paid(2, 7, 9)>>, <<>>, Checks),
   Batch(gateway, <<Paid(1, 5, 0), Paid(2, 3, 0), Paid(2, 4, 0)>>, <<>>, Checks),
   Batch(gateway, <<Paid(1, 5, 0), Paid(2, 7, 0)>>, <<Posted(1, 2, 7), Posted(2, 2, 7)>>, Checks)}

\* One whose posting is missing, under a policy that requires a check that there is
\* not, or that does not ask when the bank paid, which was late: with its posting
\* the gate proves it, and the decision is refused.
OtherPolicies ==
  {Batch(<<Settled(1, 5)>>, <<Paid(1, 5, 0)>>, <<>>, Checks \cup {"BANK_RECEIPT_TIME"}),
   Batch(<<Settled(1, 5)>>, <<Paid(1, 5, 9)>>, <<>>, Checks \ {"BANK_RECEIPT_DATE"})}

MCBatches == TwoSettlements \cup OtherPolicies

MCDuplicateIds == {1}
=============================================================================
