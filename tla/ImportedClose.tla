---------------------------- MODULE ImportedClose ----------------------------
(***************************************************************************)
(* From the uploaded files to the cleared settlements: what ImportBatch    *)
(* has committed, as the reconciliation kernel of SettlementRules sees it. *)
(* RunLifecycle has the order of these steps; here it is what the figures  *)
(* of a file become that matters.                                          *)
(***************************************************************************)
EXTENDS ImportBatch, SettlementRules

CONSTANTS
  Names,          \* the references and record ids in use, in their order
  Currency,       \* policy: the currency of the rows
  Sign,           \* policy: gateway component -> 1 or -1
  Accounts,       \* policy: role -> account codes
  Side            \* policy: role -> the direction of its postings

\* load_policy and _validate_ranges: what a policy is when it loads.
ValidPolicy ==
  /\ Currency = "INR"
  /\ \A c \in DOMAIN Sign : Sign[c] \in {-1, 1}
  /\ DOMAIN Accounts = {"bank", "clearing", "fee", "tax"} /\ DOMAIN Side = DOMAIN Accounts
  /\ \A role \in DOMAIN Accounts : Accounts[role] # {} /\ Side[role] \in {"DEBIT", "CREDIT"}
  /\ MinDays >= 0 /\ MaxDays >= MinDays
  /\ MaxGroupSize >= 1 /\ MaxCandidates >= MaxGroupSize /\ MaxValidGroups >= 2
  /\ AutoClear \in BOOLEAN

ASSUME LoadedPolicy == ValidPolicy

\* What load_policy leaves open and config/policies/razorpay_inr_v1.yaml says: payments
\* and credits count for a settlement, all else against it (ExpectedNet of SettlementRules
\* takes the signs of fees and taxes for granted); a receipt debits the bank account and
\* credits the clearing account.
ASSUME CheckedInPolicy ==
  /\ Sign["PAYMENT"] = 1 /\ Sign["ADJUSTMENT_CREDIT"] = 1
  /\ \A c \in {"REFUND", "FEE", "TAX", "ADJUSTMENT_DEBIT"} : Sign[c] = -1
  /\ Side["bank"] = "DEBIT" /\ Side["clearing"] = "CREDIT"

\* The names are those of the files, each once; a reference may be blank.
ASSUME NamesAssumption ==
  /\ Names \in Seq(Range(Names)) /\ IsInjective(Names)
  /\ Utrs = Range(Names) /\ NoUtr = ""
  /\ \A q \in Requests : \A i \in DOMAIN q.docs, p \in Profiles : \A e \in Events(q.docs[i], p) :
       /\ e.record[1] \in Range(Names)
       /\ {e.settlement, e.external} \ {""} \subseteq Range(Names)

\* Ids are compared as strings; their rank is all that matters.
Rank(name) == CHOOSE n \in DOMAIN Names : Names[n] = name

Total(events) == SumFunctionOnSet([e \in events |-> e.amount], events)

OfSource(events, source) == {e \in events : e.source = source}

OfType(events, type) == {e \in events : e.type = type}

\* settlement_references.
References(events) == {e.settlement : e \in OfSource(events, "GATEWAY")} \ {""}

\* Slip: an adjustment has the sign of a payment.
UnsignedAdjustment(e) ==
  Sign[IF e.type = "ADJUSTMENT" THEN "ADJUSTMENT_CREDIT" ELSE e.type]

\* component_sign: the direction of a row counts for adjustments only.
ComponentSign(e) ==
  CASE e.type # "ADJUSTMENT" -> Sign[e.type]
    [] e.type = "ADJUSTMENT" /\ e.direction = "CREDIT" -> Sign["ADJUSTMENT_CREDIT"]
    [] e.type = "ADJUSTMENT" /\ e.direction = "DEBIT" -> Sign["ADJUSTMENT_DEBIT"]

\* clearing_expected of analyze_settlement.
Gross(rows) ==
  LET collected == {e \in rows : e.type \in {"PAYMENT", "REFUND", "ADJUSTMENT"}} IN
  SumFunctionOnSet([e \in collected |-> e.amount * ComponentSign(e)], collected)

\* The gateway rows of a reference, in the order of their ids.
GatewayOf(events, reference) ==
  LET rows == {e \in OfSource(events, "GATEWAY") : e.settlement = reference}
      settled == OfType(rows, "SETTLEMENT")
      among == IF settled = {} THEN rows ELSE settled
      anchor == CHOOSE e \in among : \A f \in among : Rank(e.record[1]) <= Rank(f.record[1])
  IN [rows |-> Cardinality(settled), net |-> anchor.amount, gross |-> Gross(rows),
      fee |-> Total(OfType(rows, "FEE")), tax |-> Total(OfType(rows, "TAX")),
      utr |-> anchor.external, day |-> anchor.day]

\* The lines on the accounts of a role, on its side.
Posted(lines, role) ==
  {e \in lines : e.account \in Accounts[role] /\ e.direction = Side[role]}

\* The lines of an ERP journal that carry one reference.
JournalOf(events, doc, reference) ==
  LET lines == {e \in OfSource(events, "ERP") : e.record[1] = doc /\ e.external = reference}
      others == lines \ UNION {Posted(lines, role) : role \in DOMAIN Accounts}
      debits(S) ==
        SumFunctionOnSet([e \in S |-> IF e.direction = "DEBIT" THEN e.amount ELSE -e.amount], S)
  IN [doc |-> Rank(doc), ref |-> Rank(reference),
      bank |-> Total(Posted(lines, "bank")), clearing |-> Total(Posted(lines, "clearing")),
      fee |-> Total(Posted(lines, "fee")), tax |-> Total(Posted(lines, "tax")),
      other |-> debits(others)]

\* CandidateIndexes.build, as far as the rules look things up.
KernelInput(events) ==
  LET bank(n) == CHOOSE e \in OfSource(events, "BANK") : Rank(e.record[1]) = n
      journals == {<<e.record[1], e.external>> : e \in {f \in OfSource(events, "ERP") : f.external # ""}}
  IN [gateway  |-> Table([n \in {Rank(x) : x \in References(events)} |-> GatewayOf(events, Names[n])]),
      bank     |-> Table([n \in {Rank(e.record[1]) : e \in OfSource(events, "BANK")} |->
                      [amount |-> bank(n).amount, utr |-> bank(n).external, day |-> bank(n).day,
                       credit |-> bank(n).direction = "CREDIT"]]),
      erp      |-> Table([j \in journals |-> JournalOf(events, j[1], j[2])]),
      required |-> Checks]

\* reconcile of a validated run: the decisions, by the rank of the reference;
\* ReconciliationContext.build refuses a run in another currency.
Decisions(run) ==
  IF run.state = "VALIDATED" /\ \A e \in run.events : e.currency = Currency
    THEN Table(DecisionsOf(KernelInput(run.events))) ELSE << >>

\* The decisions that clear.
Cleared(decisions) ==
  {n \in DOMAIN decisions : AutoClear /\ decisions[n].level = "PROVED"}

-----------------------------------------------------------------------------
\* What a gateway row adds to the settlement, with the sign it has in the file.
Reported(e) == IF e.direction = "CREDIT" THEN e.amount ELSE -e.amount

ReportedTotal(rows) == SumFunctionOnSet([e \in rows |-> Reported(e)], rows)

Components(run, n) ==
  {e \in OfSource(run.events, "GATEWAY") : e.settlement = Names[n] /\ e.type # "SETTLEMENT"}

\* Payments credit; refunds, fees and taxes debit; adjustments do either.
Unsigned(e) ==
  \/ e.type = "ADJUSTMENT"
  \/ e.direction = IF e.type = "PAYMENT" THEN "CREDIT" ELSE "DEBIT"

Received(run, decision) ==
  Total({e \in OfSource(run.events, "BANK") : Rank(e.record[1]) \in decision.bank})

AsReported(run, decisions) ==
  \A n \in Cleared(decisions) :
    ReportedTotal(Components(run, n)) = Received(run, decisions[n])

(***************************************************************************)
(* A settlement is cleared only if the amounts of its gateway rows, as the *)
(* gateway reports them - payments less refunds, fees and taxes, and       *)
(* adjustments either way, with the sign each has in the file - add up to  *)
(* what the bank rows of its case have paid.                               *)
(***************************************************************************)
ClearedIsAsReported == \A r \in DOMAIN runs : AsReported(runs[r], Decisions(runs[r]))

\* One journal, which debits the bank with what it paid and credits the clearing
\* account with what the gateway has collected.
PostedOnce(lines, received, collected) ==
  /\ Cardinality({e.record[1] : e \in lines}) = 1
  /\ Total({e \in lines : e.account \in Accounts["bank"] /\ e.direction = "DEBIT"}) = received
  /\ Total({e \in lines : e.account \in Accounts["clearing"] /\ e.direction = "CREDIT"})
       = collected

Agrees(run, decisions) ==
  \A n \in Cleared(decisions) :
    LET rows == Components(run, n) IN
    (\A e \in rows : Unsigned(e)) =>
      /\ ReportedTotal(rows) = Received(run, decisions[n])
      /\ PostedOnce({e \in OfSource(run.events, "ERP") : e.external = Names[n]},
                    Received(run, decisions[n]),
                    ReportedTotal({e \in rows : e.type \notin {"FEE", "TAX"}}))

(***************************************************************************)
(* The same for files that keep to the unsigned convention: adapters,      *)
(* transforms and kernel agree on units, sides and signs, so that whatever *)
(* is cleared is what the three files say, whichever layout they have, and *)
(* is posted once.                                                         *)
(***************************************************************************)
ClearedAgrees == \A r \in DOMAIN runs : Agrees(runs[r], Decisions(runs[r]))
=============================================================================
