--------------------------- MODULE SourceAdapters ---------------------------
(***************************************************************************)
(* What the source adapters make of one uploaded file: which layout it     *)
(* has, which of its rows are wrong and how, and the events of the others. *)
(*                                                                         *)
(* A cell is its text, stripped; the transforms of the mapping profiles    *)
(* are the constants that say which texts are numbers, amounts, dates and  *)
(* times.  A file is [file, format, broken, lines]: its slot, the format   *)
(* its name says, whether its bytes cannot be read as that, and its lines, *)
(* the header first; a line is its cells and, in a workbook, the row       *)
(* number it states, if it states one.                                     *)
(***************************************************************************)
EXTENDS Integers, Sequences, FiniteSets, SequencesExt

CONSTANTS
  Profiles,   \* the mapping profiles of the catalogue (config/mappings)
  Integer,    \* text -> integer, for the texts int() accepts
  Paise,      \* text -> minor units, for the decimals of at most two places
  Day,        \* text -> day, for the ISO dates
  Instant,    \* text -> day, for the ISO timestamps with a timezone
  Currencies, \* the three-letter codes
  Threshold,  \* confidence from which a layout is taken without asking
  Margin      \* distance at which two candidates are too close to choose

Sources == {"GATEWAY", "BANK", "ERP"}

GatewayTypes == {"PAYMENT", "REFUND", "FEE", "TAX", "ADJUSTMENT", "SETTLEMENT"}

EventTypes == GatewayTypes \cup {"BANK_CREDIT", "BANK_DEBIT", "ERP_JOURNAL_LINE"}

Transforms ==
  {"strip", "upper", "integer", "minor_units", "decimal_minor", "iso_date", "iso_datetime"}

ValidField(field) ==
  /\ field.name # ""
  /\ field.aliases # <<>> /\ "" \notin Range(field.aliases) /\ IsInjective(field.aliases)
  /\ field.transform \in Transforms

ValidProfile(profile) ==
  /\ \A f \in profile.fields : ValidField(f)
  /\ \A f, g \in profile.fields : f.name = g.name => f = g
  /\ \E f \in profile.fields : f.required
  /\ profile.formats # {} /\ profile.formats \subseteq {"CSV", "XLSX"}

\* The checked-in YAML, as it is when it loads.
ValidCatalog(profiles) ==
  /\ \A p \in profiles : p.source \in Sources /\ ValidProfile(p)
  /\ \A p, q \in profiles : p.id = q.id => p = q

ASSUME CatalogAssumption ==
  /\ ValidCatalog(Profiles)
  /\ IsFiniteSet(Profiles) /\ \A p \in Profiles : IsFiniteSet(p.fields)

ASSUME ConfidenceAssumption == Threshold \in Nat /\ Margin \in Nat

\* The transforms return integers and dates; a date is a number of days.
ASSUME ReadingsAssumption ==
  /\ Integer \in [DOMAIN Integer -> Int] /\ Paise \in [DOMAIN Paise -> Int]
  /\ Day \in [DOMAIN Day -> Int] /\ Instant \in [DOMAIN Instant -> Int]

\* The fields an adapter reads as amounts, and as dates.
AmountFields ==
  [GATEWAY |-> {"amount_minor"},
   BANK |-> {"signed_amount_minor", "credit_minor", "debit_minor"},
   ERP |-> {"credit_minor", "debit_minor"}]

DateFields ==
  [GATEWAY |-> {"event_at"}, BANK |-> {"value_date", "booking_date"}, ERP |-> {"posting_date"}]

Requires(profile, name) == \E f \in profile.fields : f.required /\ f.name = name

(***************************************************************************)
(* What the adapters assert of a layout when they parse a row: the amounts *)
(* it gives are integers and the dates are dates, a time for a gateway.    *)
(* The catalogue does not check it; the checked-in YAML is like that.      *)
(***************************************************************************)
FitsAdapter(profile) ==
  LET amounts == AmountFields[profile.source]
      dates == DateFields[profile.source]
  IN
  /\ \A f \in profile.fields :
       /\ f.name \in amounts => f.transform \in {"integer", "minor_units", "decimal_minor"}
       /\ f.name \in dates => f.transform \in {"iso_date", "iso_datetime"}
       /\ f.name \in dates \cap {"event_at"} => f.transform = "iso_datetime"
  /\ \A name \in dates : Requires(profile, name)
  /\ \/ \A name \in amounts \ {"signed_amount_minor"} : Requires(profile, name)
     \/ "signed_amount_minor" \in amounts /\ Requires(profile, "signed_amount_minor")

ASSUME LayoutsAssumption == \A p \in Profiles : FitsAdapter(p)

\* The same function, as a table: TLC works its values out once.
Table(f) == IF f = << >> THEN << >> ELSE f

\* A check gives its code when it fails, "" when it does not; of a list of checks, in
\* the order they are made, the first that fails counts.
Check(code, failed) == IF failed THEN code ELSE ""

FirstFailure(checks) ==
  LET failed == {i \in DOMAIN checks : checks[i] # ""} IN
  IF failed = {} THEN "" ELSE checks[Min(failed)]

-----------------------------------------------------------------------------
(***************************************************************************)
(* tabular.py: the rows of a file.                                         *)
(***************************************************************************)
Header(doc) == doc.lines[1].cells

Blank(cells) == \A i \in DOMAIN cells : cells[i] = ""

\* A workbook row is cut, or filled up, to the width of the header.
Cells(doc, i) ==
  IF doc.format = "CSV" THEN doc.lines[i].cells
  ELSE [k \in DOMAIN Header(doc) |->
          IF k \in DOMAIN doc.lines[i].cells THEN doc.lines[i].cells[k] ELSE ""]

\* The lines that are rows.
Rows(doc) == {i \in 2..Len(doc.lines) : ~Blank(Cells(doc, i))}

RowNumber(doc, i) ==
  IF doc.format = "XLSX" /\ doc.lines[i].number # {}
    THEN CHOOSE n \in doc.lines[i].number : TRUE ELSE i

ReadError(doc) ==
  IF doc.format \notin {"CSV", "XLSX"} THEN "UNSUPPORTED_FILE_FORMAT"
  ELSE IF doc.broken THEN "MALFORMED"
  ELSE IF doc.lines = <<>> THEN "EMPTY_FILE"
  ELSE FirstFailure(
    << Check("HEADER_MISSING", Blank(Header(doc))),
       Check("HEADER_BLANK", "" \in Range(Header(doc))),
       Check("HEADER_DUPLICATE", ~IsInjective(Header(doc))),
       Check("CSV_COLUMN_COUNT_MISMATCH",
         \E i \in Rows(doc) : Len(Cells(doc, i)) # Len(Header(doc))) >>)

Readable(doc) == ReadError(doc) = ""

-----------------------------------------------------------------------------
(***************************************************************************)
(* mappings.py: a profile against a header.                                *)
(***************************************************************************)
\* The column of a field: the first of its aliases that the header has.
Column(field, header) ==
  LET named == {k \in DOMAIN field.aliases : field.aliases[k] \in Range(header)} IN
  IF named = {} THEN {} ELSE {field.aliases[Min(named)]}

Missing(profile, header) ==
  {f \in profile.fields : f.required /\ Column(f, header) = {}}

Score(profile, header) ==
  LET optional == {f \in profile.fields : ~f.required}
      matched == {f \in optional : Column(f, header) # {}}
  IN
  IF Missing(profile, header) # {} THEN 0
  ELSE 8000 + IF optional = {} THEN 2000
              ELSE (2000 * Cardinality(matched)) \div Cardinality(optional)

Parsed(text, meaning) == IF text \in DOMAIN meaning THEN {meaning[text]} ELSE {}

\* apply_transform: the value of a cell, none when the transform rejects it.
Transformed(transform, text) ==
  CASE transform \in {"strip", "upper"} -> {text}
    [] transform \in {"integer", "minor_units"} -> Parsed(text, Integer)
    [] transform = "decimal_minor" -> Parsed(text, Paise)
    [] transform = "iso_date" -> Parsed(text, Day)
    [] transform = "iso_datetime" -> Parsed(text, Instant)

The(set) == CHOOSE x \in set : TRUE

Fields ==
  {"source_record_id", "event_type", "event_at", "amount_minor", "currency", "value_date",
   "booking_date", "signed_amount_minor", "credit_minor", "debit_minor", "bank_utr",
   "journal_id", "line_number", "posting_date", "account_code", "settlement_reference",
   "external_reference"}

\* _mapped: the values of the fields, blank without a column, none when rejected.
Mapped(doc, i, profile) ==
  LET columns(f) == Column(f, Header(doc))
      text(c) == Cells(doc, i)[CHOOSE k \in DOMAIN Header(doc) : Header(doc)[k] = c]
      named(name) == {f \in profile.fields : f.name = name /\ columns(f) # {}}
  IN
  [name \in Fields |->
     IF named(name) = {} THEN {""}
     ELSE UNION {Transformed(f.transform, text(The(columns(f)))) : f \in named(name)}]

-----------------------------------------------------------------------------
(***************************************************************************)
(* gateway.py, bank.py, erp_gl.py: _parse_row and _build_event; v has the  *)
(* values of the fields of a row, as _mapped gives them.                   *)
(***************************************************************************)
Negative(amount) == \E n \in amount : n < 0

Positive(amount) == \E n \in amount : n > 0

GatewayChecks(v) ==
  << Check("SOURCE_RECORD_ID_MISSING", v.source_record_id = {""}),
     Check("GATEWAY_EVENT_TYPE_UNKNOWN", v.event_type \cap EventTypes = {}),
     Check("GATEWAY_EVENT_TYPE_UNSUPPORTED", v.event_type \cap GatewayTypes = {}),
     Check("AMOUNT_MINOR_INVALID", v.amount_minor = {}),
     Check("AMOUNT_ZERO", v.amount_minor = {0}),
     Check("CURRENCY_INVALID", v.currency \cap Currencies = {}),
     Check("EVENT_AT_INVALID", v.event_at = {}) >>

\* Exactly one of the two amounts is positive, and neither is negative.
SideChecks(v, negative, sides) ==
  << Check("AMOUNT_MINOR_INVALID", v.debit_minor = {} \/ v.credit_minor = {}),
     Check(negative, Negative(v.debit_minor) \/ Negative(v.credit_minor)),
     Check(sides, Positive(v.debit_minor) <=> Positive(v.credit_minor)) >>

BankChecks(v, signed) ==
  << Check("SOURCE_RECORD_ID_MISSING", v.source_record_id = {""}),
     Check("VALUE_DATE_INVALID", v.value_date = {}),
     Check("BOOKING_DATE_INVALID", v.booking_date = {}) >>
  \o (IF signed THEN << Check("SIGNED_AMOUNT_MINOR_INVALID", v.signed_amount_minor = {}),
                        Check("BANK_AMOUNT_ZERO", v.signed_amount_minor = {0}) >>
      ELSE SideChecks(v, "BANK_AMOUNT_NEGATIVE", "BANK_SIDES_INVALID"))
  \o << Check("CURRENCY_INVALID", v.currency \cap Currencies = {}) >>

ErpChecks(v) ==
  << Check("JOURNAL_ID_MISSING", v.journal_id = {""}),
     Check("LINE_NUMBER_INVALID", ~Positive(v.line_number)),
     Check("POSTING_DATE_INVALID", v.posting_date = {}),
     Check("ACCOUNT_CODE_MISSING", v.account_code = {""}) >>
  \o SideChecks(v, "ERP_AMOUNT_NEGATIVE", "ERP_SIDES_INVALID")
  \o << Check("CURRENCY_INVALID", v.currency \cap Currencies = {}) >>

Signed(doc, profile) ==
  \E f \in profile.fields : f.name = "signed_amount_minor" /\ Column(f, Header(doc)) # {}

\* The problem with a row, "" when it has none.
Problem(doc, i, profile) ==
  LET v == Mapped(doc, i, profile) IN
  FirstFailure(
    CASE profile.source = "GATEWAY" -> GatewayChecks(v)
      [] profile.source = "BANK" -> BankChecks(v, Signed(doc, profile))
      [] profile.source = "ERP" -> ErpChecks(v))

Abs(n) == IF n < 0 THEN -n ELSE n

Opposite(direction) == IF direction = "CREDIT" THEN "DEBIT" ELSE "CREDIT"

\* The signed amount of a row without a problem: what it credits.  A refund, fee,
\* tax or adjustment is a debit unless its amount is negative.
Credit(doc, i, profile) ==
  LET v == Mapped(doc, i, profile) IN
  CASE profile.source = "GATEWAY" ->
         IF The(v.event_type) \in {"PAYMENT", "SETTLEMENT"}
           THEN The(v.amount_minor) ELSE -The(v.amount_minor)
    [] profile.source = "BANK" /\ Signed(doc, profile) -> The(v.signed_amount_minor)
    [] OTHER -> The(v.credit_minor) - The(v.debit_minor)

Direction(doc, i, profile) ==
  IF Credit(doc, i, profile) > 0 THEN "CREDIT" ELSE "DEBIT"

EventType(doc, i, profile) ==
  CASE profile.source = "GATEWAY" -> The(Mapped(doc, i, profile)["event_type"])
    [] profile.source = "BANK" ->
         IF Direction(doc, i, profile) = "CREDIT" THEN "BANK_CREDIT" ELSE "BANK_DEBIT"
    [] profile.source = "ERP" -> "ERP_JOURNAL_LINE"

EventDay(doc, i, profile) ==
  The(Mapped(doc, i, profile)[
    CASE profile.source = "GATEWAY" -> "event_at"
      [] profile.source = "BANK" -> "value_date"
      [] profile.source = "ERP" -> "posting_date"])

\* source_record_id: a journal line is named by its journal and its number.
Record(doc, i, profile) ==
  LET v == Mapped(doc, i, profile) IN
  IF profile.source = "ERP"
    THEN <<The(v.journal_id), The(v.line_number)>> ELSE <<The(v.source_record_id)>>

\* A reference or account; one without a column is blank, as one left blank is.
Optional(doc, i, profile, name) == The(Mapped(doc, i, profile)[name])

\* The event of a row; its id is its run, source and record.
Event(doc, i, profile) ==
  [source |-> profile.source, record |-> Record(doc, i, profile),
   type |-> EventType(doc, i, profile), amount |-> Abs(Credit(doc, i, profile)),
   direction |-> Direction(doc, i, profile),
   currency |-> The(Mapped(doc, i, profile)["currency"]),
   day |-> EventDay(doc, i, profile),
   settlement |-> Optional(doc, i, profile, "settlement_reference"),
   external |-> Optional(doc, i, profile,
                         IF profile.source = "BANK" THEN "bank_utr" ELSE "external_reference"),
   account |-> Optional(doc, i, profile, "account_code"),
   file |-> doc.file, row |-> RowNumber(doc, i)]

-----------------------------------------------------------------------------
(***************************************************************************)
(* base.py: validate and normalize.  An issue is about a row, or about the *)
(* whole file when its row is {}.                                          *)
(***************************************************************************)
Issue(rows, code, blocking) == [row |-> rows, code |-> code, blocking |-> blocking]

FileIssues(doc, profile) ==
  IF ~Readable(doc) THEN {Issue({}, ReadError(doc), TRUE)}
  ELSE IF Missing(profile, Header(doc)) # {} THEN {Issue({}, "REQUIRED_MAPPING_MISSING", TRUE)}
  ELSE {}

RowIssues(doc, profile) ==
  LET problem == Table([i \in Rows(doc) |-> Problem(doc, i, profile)]) IN
  {Issue({RowNumber(doc, i)}, problem[i], TRUE) : i \in {j \in Rows(doc) : problem[j] # ""}}

\* The lines of a journal that are not refused already must differ in number, and
\* should balance: a journal that does not is imported and left to the kernel.
JournalIssues(doc, profile, refusals) ==
  LET parsed == {i \in Rows(doc) : \A x \in refusals : RowNumber(doc, i) \notin x.row}
      line == Table([i \in parsed |-> [record |-> Record(doc, i, profile),
                                       credit |-> Credit(doc, i, profile)]])
      journal(i) == {j \in parsed : line[j].record[1] = line[i].record[1]}
  IN
  {Issue({RowNumber(doc, i)}, "ERP_LINE_DUPLICATE", TRUE) :
     i \in {j \in parsed : \E k \in parsed \ {j} : line[k].record = line[j].record}}
  \cup
  {Issue({RowNumber(doc, i)}, "JOURNAL_UNBALANCED", FALSE) :
     i \in {j \in parsed : MapThenSumSet(LAMBDA k : line[k].credit, journal(j)) # 0}}

Report(doc, profile) ==
  LET refusals == RowIssues(doc, profile) IN
  IF FileIssues(doc, profile) # {} THEN FileIssues(doc, profile)
  ELSE refusals \cup
       IF profile.source = "ERP" THEN JournalIssues(doc, profile, refusals) ELSE {}

IsValid(report) == \A x \in report : ~x.blocking

CanNormalize(report) == \A x \in report : x.blocking => x.row # {}

Quarantined(report) == UNION {x.row : x \in {y \in report : y.blocking}}

\* The rows that become events.
Normalized(doc, profile) ==
  LET report == Report(doc, profile)
      refused == Quarantined(report)
  IN IF CanNormalize(report) THEN {i \in Rows(doc) : RowNumber(doc, i) \notin refused} ELSE {}

Events(doc, profile) == {Event(doc, i, profile) : i \in Normalized(doc, profile)}

Component(event) == IF event.source = "GATEWAY" THEN event.type ELSE event.direction

\* A component in two currencies has no total: control_totals raises.
MixedTotals(events) ==
  \E e, f \in events : Component(e) = Component(f) /\ e.currency # f.currency

\* What NormalizationResult refuses, and with it what ends the request: rows that
\* cannot be told apart or located, and records that repeat.
NormalizationRaises(doc, profile) ==
  /\ CanNormalize(Report(doc, profile))
  /\ \/ \E i, j \in Rows(doc) : i # j /\ RowNumber(doc, i) = RowNumber(doc, j)
     \/ \E i \in Rows(doc) : RowNumber(doc, i) < 1
     \/ \E i, j \in Normalized(doc, profile) :
          i # j /\ Record(doc, i, profile) = Record(doc, j, profile)
     \/ MixedTotals(Events(doc, profile))

-----------------------------------------------------------------------------
(***************************************************************************)
(* registry.py: the layout of a file.                                      *)
(***************************************************************************)
Candidates(doc) ==
  IF ~Readable(doc) THEN {}
  ELSE {p \in Profiles : doc.format \in p.formats /\ Score(p, Header(doc)) > 0}

\* Slip: each candidate has the confidence of its own layout.
ConfidenceOfProfile(doc, profile) == Score(profile, Header(doc))

\* Every candidate has the confidence of the best layout of its adapter.
Confidence(doc, profile) ==
  Max({Score(p, Header(doc)) : p \in {q \in Candidates(doc) : q.source = profile.source}})

\* The candidates that are too close to the best one to be told from it.
Close(doc) ==
  LET candidates == Candidates(doc)
      confidence == Table([p \in candidates |-> Confidence(doc, p)])
  IN {p \in candidates : \A q \in candidates : confidence[q] - confidence[p] <= Margin}

RequiresConfirmation(doc, close) ==
  \/ Cardinality(close) # 1
  \/ \E p \in close : Confidence(doc, p) < Threshold

\* select: the profile a file is read with, none when the request is refused.  A
\* confirmation names an adapter, by its source, and a profile.
Selected(doc, confirmations) ==
  LET close == Close(doc) IN
  IF confirmations # {}
    THEN {p \in Profiles : /\ \E c \in confirmations : p.source = c.source /\ p.id = c.profile
                           /\ doc.format \in p.formats}
    ELSE IF RequiresConfirmation(doc, close) THEN {} ELSE close
=============================================================================
