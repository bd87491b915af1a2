--------------------------- MODULE MCImportBatch ---------------------------
(* Instances of ImportBatch and ImportedClose for TLC. *)
EXTENDS ImportedClose

\* Texts and what the transforms read in them.  Rupees are decimals; the dates are
\* around the 45 days that the events of a run may be apart.
MCInteger ==
  ("0" :> 0) @@ ("1" :> 1) @@ ("2" :> 2) @@ ("3" :> 3) @@ ("100" :> 100) @@ ("-100" :> -100)
    @@ ("200" :> 200) @@ ("300" :> 300)
MCPaise == ("0" :> 0) @@ ("1" :> 100) @@ ("-1" :> -100) @@ ("2" :> 200) @@ ("0.50" :> 50) @@ ("3" :> 300)
MCDay == ("2026-03-01" :> 0) @@ ("2026-04-15" :> 45) @@ ("2026-04-16" :> 46)
MCInstant == ("2026-03-01T08:00Z" :> 0) @@ ("2026-04-15T08:00Z" :> 45)

Field(name, required, transform, aliases) ==
  [name |-> name, required |-> required, transform |-> transform, aliases |-> aliases]

Profile(source, id, fields) ==
  [source |-> source, id |-> id, formats |-> {"CSV", "XLSX"}, fields |-> fields]

\* Layouts of config/mappings, with some of the optional fields.
MCProfiles ==
  { Profile("GATEWAY", "gateway_standard",
      {Field("source_record_id", TRUE, "strip", <<"gateway_event_id">>),
       Field("event_type", TRUE, "upper", <<"event_type">>),
       Field("amount_minor", TRUE, "minor_units", <<"amount_minor">>),
       Field("currency", TRUE, "upper", <<"currency">>),
       Field("event_at", TRUE, "iso_datetime", <<"event_at">>),
       Field("settlement_reference", FALSE, "strip", <<"settlement_id">>),
       Field("external_reference", FALSE, "strip", <<"reference">>)}),
    Profile("BANK", "bank_debit_credit",
      {Field("source_record_id", TRUE, "strip", <<"bank_record_id">>),
       Field("value_date", TRUE, "iso_date", <<"value_date">>),
       Field("booking_date", TRUE, "iso_date", <<"booking_date">>),
       Field("credit_minor", TRUE, "decimal_minor", <<"credit_amount">>),
       Field("debit_minor", TRUE, "decimal_minor", <<"debit_amount">>),
       Field("currency", TRUE, "upper", <<"currency">>),
       Field("bank_utr", FALSE, "strip", <<"utr">>)}),
    Profile("BANK", "bank_signed",
      {Field("source_record_id", TRUE, "strip", <<"bank_record_id", "record_id">>),
       Field("value_date", TRUE, "iso_date", <<"value_date", "transaction_date">>),
       Field("booking_date", TRUE, "iso_date", <<"booking_date", "posted_date">>),
       Field("signed_amount_minor", TRUE, "decimal_minor", <<"signed_amount", "transaction_amount">>),
       Field("currency", TRUE, "upper", <<"currency", "ccy">>),
       Field("bank_utr", FALSE, "strip", <<"utr", "bank_reference">>),
       Field("narration", FALSE, "strip", <<"narration", "description">>)}),
    Profile("ERP", "erp_gl_standard",
      {Field("journal_id", TRUE, "strip", <<"journal_id">>),
       Field("line_number", TRUE, "integer", <<"line_number">>),
       Field("posting_date", TRUE, "iso_date", <<"posting_date">>),
       Field("account_code", TRUE, "strip", <<"account_code">>),
       Field("debit_minor", TRUE, "decimal_minor", <<"debit_amount">>),
       Field("credit_minor", TRUE, "decimal_minor", <<"credit_amount">>),
       Field("currency", TRUE, "upper", <<"currency">>),
       Field("external_reference", FALSE, "strip", <<"reference">>)}) }

-----------------------------------------------------------------------------
Line(cells) == [number |-> {}, cells |-> cells]

File(slot, header, rows) ==
  [file |-> slot, format |-> "CSV", broken |-> FALSE,
   lines |-> <<Line(header)>> \o [i \in DOMAIN rows |-> Line(rows[i])]]

GatewayHeader == <<"gateway_event_id", "event_type", "amount_minor", "currency", "event_at", "settlement_id">>
G1 == <<"g1", "PAYMENT", "100", "INR", "2026-03-01T08:00Z", "s1">>
G2 == <<"g2", "FEE", "-100", "INR", "2026-03-01T08:00Z", "">>

BankHeader == <<"bank_record_id", "value_date", "booking_date", "credit_amount", "debit_amount", "currency">>
B1 == <<"b1", "2026-03-01", "2026-03-01", "1", "0", "INR">>

SignedHeader == <<"record_id", "transaction_date", "posted_date", "transaction_amount", "ccy", "narration">>
S1 == <<"b2", "2026-03-01", "2026-03-01", "-1", "INR", "">>

\* A statement with the columns of both layouts, and a column of a third of them.
BothHeader == BankHeader \o <<"signed_amount", "utr">>
Both1 == B1 \o <<"1", "u1">>

ErpHeader == <<"journal_id", "line_number", "posting_date", "account_code", "debit_amount", "credit_amount", "currency">>
E1 == <<"j1", "1", "2026-03-01", "110000", "1", "0", "INR">>
E2 == <<"j1", "2", "2026-03-01", "120000", "0", "1", "INR">>

GatewayFile == File("gateway", GatewayHeader, <<G1, G2>>)
Bank == File("bank", BankHeader, <<B1>>)
Erp == File("erp", ErpHeader, <<E1, E2>>)

\* Files that differ from good ones in one cell.
With(file, i, k, text) == [file EXCEPT !.lines[i].cells[k] = text]

Gateways ==
  {GatewayFile} \cup
  {With(GatewayFile, 3, k, t) : k \in 1..5, t \in {"", "g1"}} \cup
  {With(GatewayFile, 3, 2, t) : t \in {"PAYMENT", "BANK_DEBIT"}} \cup
  {With(GatewayFile, 3, 3, "0"), With(GatewayFile, 3, 4, "USD"),
   With(With(GatewayFile, 3, 4, "USD"), 3, 2, "PAYMENT"), With(GatewayFile, 3, 5, "2026-04-15T08:00Z")}

Banks ==
  {Bank} \cup {With(Bank, 2, k, "") : k \in 1..6} \cup
  {With(Bank, 2, 2, t) : t \in {"2026-04-15", "2026-04-16"}} \cup
  {With(Bank, 2, 4, t) : t \in {"-1", "0", "0.50"}} \cup {With(Bank, 2, 6, "USD")} \cup
  {File("bank", SignedHeader, <<S1>>), With(File("bank", SignedHeader, <<S1>>), 2, 4, "0"),
   File("bank", SignedHeader, <<S1, <<"b2", "2026-03-01", "2026-03-01", "x", "INR", "">> >>),
   File("bank", BothHeader, <<Both1>>), With(File("bank", BothHeader, <<Both1>>), 1, 1, "id")}

Erps ==
  {Erp} \cup {With(Erp, 3, k, "") : k \in 1..7} \cup
  {With(Erp, 3, 2, t) : t \in {"0", "1"}} \cup
  {With(Erp, 3, 5, "1"), With(Erp, 3, 6, "2"), With(Erp, 3, 6, "-1"), With(Erp, 3, 7, "USD"),
   With(Erp, 3, 1, "j2")}

\* Files that are wrong as files.
Numbered(n, m) ==
  [Bank EXCEPT !.format = "XLSX", !.lines =
     <<Line(BankHeader), [number |-> n, cells |-> B1],
       [number |-> m, cells |-> <<"b3", "2026-03-01", "2026-03-01", "2">>], Line(<<"">>)>>]

Misshapen ==
  {[Bank EXCEPT !.broken = TRUE], [Bank EXCEPT !.format = "UNKNOWN"], [Bank EXCEPT !.lines = <<>>],
   [Bank EXCEPT !.lines = <<Line(<<"">>)>>], With(Bank, 1, 6, ""), With(Bank, 1, 6, "utr"),
   With(Bank, 1, 6, "value_date"), [Bank EXCEPT !.lines[2].cells = <<"b1">>],
   [Bank EXCEPT !.lines[2].cells = <<"", "">>],
   Numbered({}, {}), Numbered({2}, {2}), Numbered({}, {0}), Numbered({7}, {})}

Batch(docs, confirmations) == [docs |-> docs, confirmations |-> confirmations]

Confirm(source, profile) == [file |-> "bank", source |-> source, profile |-> profile]

Confirmations ==
  {{}} \cup {{Confirm("BANK", p)} : p \in {"bank_debit_credit", "bank_signed", "none"}}
       \cup {{Confirm("ERP", "erp_gl_standard")}, {Confirm("ERP", "bank_signed")}}

Bank2(rows) == File("bank2", BankHeader, rows)

MCRequests ==
  {Batch(<<g, Bank, Erp>>, {}) : g \in Gateways} \cup
  {Batch(<<e, Bank, GatewayFile>>, {}) : e \in Erps} \cup
  {Batch(<<GatewayFile, b, Erp>>, c) : b \in Banks \cup Misshapen, c \in Confirmations} \cup
  {Batch(<<g, b, e>>, {}) : g \in {With(GatewayFile, 2, 4, "USD"), With(With(GatewayFile, 2, 4, "USD"), 3, 4, "USD")},
                            b \in {Bank, With(Bank, 2, 6, "USD")},
                            e \in {Erp, With(With(Erp, 2, 7, "USD"), 3, 7, "USD")}} \cup
  {Batch(docs, {}) : docs \in
     {<<>>, <<GatewayFile>>, <<GatewayFile, Erp>>, <<Erp, GatewayFile, Bank>>, <<GatewayFile, GatewayFile, Erp>>,
      <<GatewayFile, Bank, [Bank EXCEPT !.file = "erp"]>>,
      <<GatewayFile, Bank, Erp, Bank2(<<B1, B1>>)>>,
      <<GatewayFile, Bank, Erp, Bank2(<<B1, <<"b9", "2026-03-01", "2026-03-01", "0", "1", "INR">> >>)>>,
      <<GatewayFile, Bank, Erp, Bank2(<< <<"b9", "2026-03-01", "2026-03-01", "0", "1", "INR">> >>)>>,
      <<GatewayFile, Bank2(<<>>), Erp>>}}
-----------------------------------------------------------------------------
\* The order of the strings.
MCNames == <<"b1", "b2", "b3", "b9", "g1", "g2", "g3", "j1", "j2", "s1", "u1">>

MCUtrs == Range(MCNames)

\* config/policies/razorpay_inr_v1.yaml
MCSign ==
  ("PAYMENT" :> 1) @@ ("REFUND" :> -1) @@ ("FEE" :> -1) @@ ("TAX" :> -1)
    @@ ("ADJUSTMENT_CREDIT" :> 1) @@ ("ADJUSTMENT_DEBIT" :> -1)
MCAccounts ==
  ("bank" :> {"110000"}) @@ ("clearing" :> {"120000"}) @@ ("fee" :> {"510000"}) @@ ("tax" :> {"140000"})
MCSide == ("bank" :> "DEBIT") @@ ("clearing" :> "CREDIT") @@ ("fee" :> "DEBIT") @@ ("tax" :> "DEBIT")

(***************************************************************************)
(* Closes: a payment, another component, and what is settled, received and *)
(* posted.                                                                 *)
(***************************************************************************)
GatewayReport(type, amount, settled) ==
  File("gateway", GatewayHeader \o <<"reference">>,
    << <<"g1", "PAYMENT", "200", "INR", "2026-03-01T08:00Z", "s1", "">>,
       <<"g2", type, amount, "INR", "2026-03-01T08:00Z", "s1", "">>,
       <<"g3", "SETTLEMENT", settled, "INR", "2026-03-01T08:00Z", "s1", "u1">> >>)

Statement(credit, debit) ==
  File("bank", BankHeader \o <<"utr">>,
    << <<"b1", "2026-03-01", "2026-03-01", credit, debit, "INR", "u1">> >>)

SignedStatement(amount) ==
  File("bank", <<"record_id", "transaction_date", "posted_date", "transaction_amount", "ccy", "utr">>,
    << <<"b1", "2026-03-01", "2026-03-01", amount, "INR", "u1">> >>)

Ledger(bank, clearing, account, debit) ==
  File("erp", ErpHeader \o <<"reference">>,
    << <<"j1", "1", "2026-03-01", "110000", bank, "0", "INR", "s1">>,
       <<"j1", "2", "2026-03-01", "120000", "0", clearing, "INR", "s1">> >>
    \o IF debit = "0" THEN << >>
       ELSE << <<"j1", "3", "2026-03-01", account, debit, "0", "INR", "s1">> >>)

Closes(types, amounts, settled) ==
  {Batch(<<GatewayReport(type, amount, net), bank, erp>>, {}) :
     type \in types, amount \in amounts, net \in settled,
     bank \in {Statement("1", "0"), Statement("3", "0"), Statement("0", "1"), SignedStatement("1"),
               SignedStatement("-1"), SignedStatement("3")},
     erp \in {Ledger("1", "1", "", "0"), Ledger("3", "3", "", "0"), Ledger("1", "2", "510000", "1"),
              Ledger("1", "2", "140000", "1")}}

CloseRequests ==
  Closes({"PAYMENT", "REFUND", "FEE", "TAX", "ADJUSTMENT"}, {"100"}, {"100", "300"})
    \cup Closes({"ADJUSTMENT"}, {"-100"}, {"300"})

SignRequests == Closes({"PAYMENT"}, {"100", "-100"}, {"100", "300"})

AllRequests == MCRequests \cup CloseRequests
=============================================================================
