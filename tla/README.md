# VeriClose in TLA+

VeriClose closes a payment-gateway settlement: it imports three source files
(gateway, bank, ERP ledger) as one *run*, matches them with deterministic rules,
clears only what is proved, turns the rest into cases, and lets a reviewer approve
actions whose export may be replayed as a correction.  This directory holds the
TLA+ modules that describe how it does so, the TLC configurations that check them
on small instances, and proofs that hold for every instance.

To run something: `tlc -config RunLifecycle_race.cfg MCRunLifecycle.tla`,
`tlapm RunLifecycleProofs.tla`.

## The system

| Part | Code | State | Operations |
|---|---|---|---|
| Run lifecycle | `domain/runs.py`, `application/run_reconciliation.py` | `runs` snapshots | `transition`, `run`, `_mark_failed` |
| Import | `ingestion/service.py` | rows of `source_files`, `validation_issues`, `row_dispositions`, `control_totals`, `canonical_events` | `import_batch` |
| File store | `infrastructure/local_file_store.py` | files `runs/<run>/uploads/<file>-<sha>` | `put`, `get` |
| Persistence | `infrastructure/duckdb/` | the DuckDB file, `schema_migrations` | `DuckDBUnitOfWork`, repositories, `apply_migrations` |
| Kernel | `reconciliation/` | none: a function from events and policy to decisions | `reconcile` |
| Actions | `application/actions.py`, `domain/actions.py`, `infrastructure/local_action_exporter.py` | `actions` snapshots, `reviews`, `receipts`, export files | `propose`, `review`, `export`, `download` |
| Corrections | `application/corrections.py` | a second run, a receipt | `apply_approved_journal` |
| Adapters | `adapters/`, `config/mappings/` | none: functions from a file to issues and events | `detect`, `validate`, `normalize` |
| Investigation | `investigation/`, `infrastructure/live_model.py` | `investigations`, `reviews` | `investigate`, `review_latest` |
| Web client | `apps/web/src/App.tsx` | the case on screen, what is loading, what is busy | `openCase`, `investigate`, `judgeInvestigation`, `saveReview` |
| Case review, artifacts | `application/review_cases.py`, `application/artifacts.py` | `reviews` | `record`, `build` |
| API, scripts | `apps/api/`, `scripts/` | none of their own | routes, `import_batch.py`, `reconcile.py` |

**How they interact.**  Everything shared is in two places: the DuckDB file and the
directories of uploaded and exported files.  Every access to the database is a
`DuckDBUnitOfWork`: connect (which takes DuckDB's exclusive lock on the file),
migrate, `BEGIN`, the body, `COMMIT` or `ROLLBACK`, close.  Services hold no state
between calls.  The API is one uvicorn worker (`--workers 1`) whose `async`
handlers call synchronous services, so one API request runs to its end before the
next begins; the scripts are separate processes on the same database.

**What is hard.**  An import is two units of work with file writes between them, a
reconciliation is two with the kernel between them, an export writes a file inside
no transaction, a correction is an import, a reconciliation and a receipt in a row, a
request for advice waits for a model between its reads and its write, and a desk of
the web client shows what was true when its last response arrived.
Between any two of these steps another process may act, a call may raise or the
process may die, and nothing is recovered when it starts again.  The kernel is
sequential, but the order in which its rules consume rows decides what is proved.

**What makes each part correct.**

- *Lifecycle*: snapshots follow the state machine; results are visible exactly in
  completed runs; a started reconciliation ends.
- *Import and file store*: one importer wins a run id; a row never names a file
  that is missing or cut short; nothing recorded is rewritten.
- *Actions*: nothing leaves without approval and what leaves is what was approved; one
  receipt per action, for a file that is whole; an action's history follows its state
  machine; an approved action can be exported however often an attempt stops.
- *Adapters and import*: every row of every file is one event or is refused with a
  reason; a run is released only when nothing was refused and the events make one
  close; no file is read in a layout that was guessed; what is cleared afterwards is
  what the files say.
- *Corrections*: the ledger of every run is explained by approved journals; a receipt
  names a finished run of its action and never changes; a correction changes the
  decision it is about and no other; asking again is enough to get there.
- *Kernel*: every event is in at most one settlement and in exactly one
  disposition; an automatic clearance rests on proved checks; ambiguity, limits and
  invalid input never clear.
- *Investigation*: whatever a model answers, an attached note is grounded in the case,
  balanced and hedged; every request ends; a verdict is filed under the note that was
  seen or a later one.

## The modules

| Module | What it is |
|---|---|
| `RunPromise` | abstract: what a reader of the database is promised about one run |
| `RunLifecycle` | import and reconciliation by several processes, with exceptions and crashes |
| `RunLifecycleProofs` | its theorems |
| `ActionPromise` | abstract: what a controller is promised about one finance action |
| `ActionLoop` | proposal, review and export of actions by API workers whose requests may stop anywhere |
| `ActionLoopProofs` | its theorems |
| `SettlementRules` | the rules of the kernel as operators: selection, checks, risk gate, exception factory |
| `SettlementRulesProofs` | lemmas about these rules, for the proofs of both modules that use them |
| `SettlementMatching` | `reconcile` as a loop over these rules |
| `SettlementMatchingProofs` | its theorems |
| `CorrectionLoop` | corrections by several workers, with the kernel of `SettlementRules`; implements `RunPromise` |
| `CorrectionLoopProofs` | its theorems |
| `SourceAdapters` | one file: its layout, what is wrong with its rows, its events |
| `ImportBatch` | a request to import files, one after the other and then as a whole, on `SourceAdapters` |
| `ImportBatchProofs` | its theorems, and that about `ImportedClose` |
| `FiniteSetLemmas` | finite sets, induction over them, and sums over sets, for the proofs of several modules |
| `ImportedClose` | from the imported events to what the kernel clears: `ImportBatch` with `SettlementRules` |
| `Investigation` | advice from a model and verdicts on it, at several desks of the web client |
| `InvestigationProofs` | its theorems |
| `MCRunLifecycle`, `MCActionLoop`, `MCSettlementMatching`, `MCCorrectionLoop`, `MCImportBatch`, `MCInvestigation` | the instances TLC checks |

Three modules are about imports, each for a question of its own: `RunLifecycle` about the
order of the steps of several importers, and there a document is a name and a content;
`ImportBatch` about what one importer makes of the contents; and `CorrectionLoop` about
imports that are steps of a larger request, one atomic step there because `RunLifecycle`
implements `RunPromise`, in which they are.

### RunLifecycle

State: `runs` (the snapshots of each run, oldest first: the table `runs`),
`imported` (the documents that own rows of `source_files` and the tables beside it),
`results` (the document sets the visible decisions, exceptions and summary were
computed from), `audit` (the suffixes of the audit ids present), `disk` (what stands
at each upload path: nothing, a file cut short, the whole file), and for each process
`pc` and `job`, the locals of the request it is serving.

One action is one unit of work, one step of the file store, or one return or
exception of a call between them.

| Code | Actions |
|---|---|
| `import_batch` up to its first unit of work | `RequestImport`, `CheckAbsent`, `RefuseExisting` |
| `LocalFileStore.put` | `CreateFile` then `WriteFile`; `ReuseFile`; `RefuseTornFile` |
| `import_batch`, second unit of work | `CommitImport`, `RefuseImport` |
| `run`, first unit of work | `StartReconciliation` |
| `reconcile(...)` | `KernelReturns`, `KernelRaises` |
| `run`, second unit of work | `CommitResults`, `CommitRaises` |
| the rest of the `try` block | `ReturnResult`, `LogRaises` |
| `except Exception` / `_mark_failed` | `MarkFailed`, `KeepOutcome`, `MarkRaises`, `Reraise` |
| a process dies | `Crash` |

Abstractions.  A document is a file id and a content; the content stands for its
SHA-256, and `ValidContents` for what the adapters accept.  `IsReady` is the
outcome of the source reports and of `validate_cross_source_readiness`; its checks of
entity, currency and dates are contents that are not valid.  Which rows a run has is
abstracted to which documents own them, because one transaction inserts them all.
Preparing one document (parsing) is part of the step that stores it, since it has no
effect before.  Death between bytes written and bytes on the platter (power loss;
`put` flushes and does not sync) is not modelled.  The file store is one directory,
as it is for the scripts; the API has a root of its own by default, which only
removes interleavings.  `CANCELLED` is a state no operation of the code produces.

### RunPromise

Phase, input and published results of each run; `Import`, `Start`, `Complete`,
`Fail`.  `RunLifecycle` implements it with `phase` = the state of the latest
snapshot, `input` = `imported`, `published` = `results`.

### ActionLoop

State, one entry per action (an action belongs to one case, so its rows have one
writer at a time in the deployment): `history` (its snapshots in the table `actions`),
`reviews` (its rows in `reviews`), `audit` (whether the two audit ids that occur once
are present), `receipts` (the contents its export receipts name), `files` (what stands
at each export path: nothing, a file cut short, the whole file), and for each worker
`pc` and `job`, the locals of its request.  `stops` only bounds the faults.

One action is one unit of work or one half of a file write; the reads a request
starts with and the checks on them are one step, its last transaction another.

| Code | Actions |
|---|---|
| `propose` | `RequestPropose`, `CommitPropose`, `RefusePropose` (primary key of `audit_events`) |
| `review` | `RequestReview`, `CommitReview` |
| `export` up to the exporter | `RequestExport`, `ReturnReceipt`, `RefuseUnapproved`, `BeginExport` |
| `LocalActionExporter.export` | `CreateFile` then `WriteFile`; `ReuseFile`; `RefuseTornFile` |
| `export`, last unit of work | `CommitExport`, `RefuseExport` (`UNIQUE (run_id, idempotency_key)`) |
| `download`, `LocalActionExporter.read` | they change nothing: `Downloadable` |
| the process dies, a unit of work or a file write raises | `Stop` |

Abstractions.  The text of an action is its two editable payload fields; `Content`
is what the exporter renders from an action: a journal's CSV reads neither field, the
markdown of the others does.  The export path holds a digest of the content, so a path
is an action and a content, and digests of different contents differ.  An export of
one action never meets a file of another.  A request that the checks refuse before
any write is not a step.  Whether proposal succeeds for a case (it has an exception,
its journal balances) does not depend on the state here and is left to the case.
Review and audit ids of reviews contain a timestamp; that two requests of the same
reviewer with the same decision never carry the same microsecond is assumed.

`Workers` is a parameter although `Dockerfile:58` starts one: the properties then say
which promises rest on that.  `OnlyApprovedLeaves`, `ReceiptsVerify` and
`RecordsAreAppendOnly` do not, and the proofs say so.  `HistoryLegal`,
`ReviewsExplainHistory` and the refinement do: `review` and `export` append a snapshot
computed from one they read in an earlier unit of work, so two workers can, for example,
reject an action after it was exported.

### ActionPromise

Phase, text, written contents and receipt of each action; `Propose`, `Review`, `Write`,
`Export`.  With one worker `ActionLoop` implements it with `phase` and `text` = the
latest snapshot, `out` = the contents with a file (a file cut short has left as
well), `receipt` = `receipts`.

### SettlementRules and SettlementMatching

`reconcile` is a function: `batch` is its input, and the other variables are what its
loop has computed so far.  `cases` holds the case of each settlement analysed
(`CaseProposal`), `orphans` what the orphan cases are about, `stage` where the function
is, `decisions` the proof level and the reason each case is filed under.  The sets
`consumed_bank` and `consumed_erp` of the code are the unions over `cases`.

| Code | Definitions |
|---|---|
| `reconcile`: an iteration of the loop, the orphans, the gate | `Analyze`, `FileOrphans`, `Decide` |
| a decision that `ReconciliationDecision` refuses to construct | `Refuse` |
| `ReconciliationContext` | `BankCandidates`, `Journals` |
| `amount_groups` | `ValidGroups`, `Before`, `BoundedOut`, `FoundGroups` |
| `_select_bank_group` and the override for duplicate identifiers | `SelectBank`, `IdentifierConflict` |
| `analyze_settlement` | `CheckResults`, `ReasonsGiven`, `CaseOf` |
| `risk_gate.decide`, `create_exception` | `ProofLevel`, `FiledUnder` |

Abstractions.  Ids are numbers whose order is the order the code sorts by.  The lines
of an ERP journal are their totals on the accounts of the policy, per document and
reference, which is how `erp_journals` sees them; `Journal` therefore covers documents
whose lines carry several references.  Gateway rows are their totals and the first
`SETTLEMENT` row.  The tolerances of the policy (amount, fee, tax) are zero in the only
policy there is; one currency and one entity.  Support scores, amounts at risk and the
summary are not modelled: nothing is decided by them.

The tolerances are taken from the policy file; a reference of its own (`settlement_id`)
is required by `docs/domain/SOURCE_SCHEMAS.md:29` and optional in
`config/mappings/gateway.yaml:11`: gateway rows without one are in no settlement
(`context.py:48`) and in no decision, and are outside of a `batch`.

The definitions were compared with the Python `reconcile()` on the 88,360 batches of
`SettlementMatching_close` that require all checks: level, reason filed under, bank rows,
journals, passed checks and reasons of every settlement are the same.

### CorrectionLoop

State: `runs` (phase, events, the action it corrects, decisions), `exported` (the exported
journals, by run and settlement), `receipts` (the corrected run each names), and `pc`
and `job` of each worker.  Run 0 is a completed run imported by hand; all others are
corrections, also of corrected runs.

| Code | Actions |
|---|---|
| `propose` to `export` of `ActionService`, for a journal (`ActionLoop` has the steps) | `Export` |
| `apply_approved_journal`: the lookup of the receipt, the corrected file | `Request`, `Corrected` |
| `_missing_erp_journal`, `_duplicate_reversal` | `MissingPosting`, `Reversal`, `HasJournal` |
| `import_batch` of the corrected files | `Import`, `ImportInvalid`, `RefuseImport` |
| `run` of the new run | `Start`, `Complete`, `Fail` |
| the unit of work with the receipt | `CommitReceipt`, `RefuseReceipt` |
| the process dies, or a unit of work raises | `Stop` |

Abstractions.  Events are a `batch` of `SettlementRules`, so decisions are those of the
kernel and not assumed.  `Import` is one step and a reconciliation two, as in
`RunPromise`.  Files are what they contain.  A client picks any id for its run; ids are
numbered as they appear, and two workers may be given the same one.  The client does not
ask again for an action that has a receipt: the request then changes nothing.

### SourceAdapters, ImportBatch and ImportedClose

A file is its slot, the format of its name, whether its bytes can be read, and its lines; a
line is its cells.  Which texts are integers, amounts, dates and times is a set of
constants, instantiated with texts around every boundary the checks have.  Profiles are
those of `config/mappings`, with the fields that are read later.

| Code | Definitions |
|---|---|
| `tabular.py` | `ReadError`, `Rows`, `RowNumber`, `Cells` |
| `mappings.py` | `Column`, `Missing`, `Score`, `Transformed`, `Mapped`, `ValidCatalog` |
| `_parse_row` of the three adapters | `GatewayChecks`, `BankChecks`, `ErpChecks`, `SideChecks`, `Problem` |
| `_build_event` | `Credit`, `Direction`, `EventType`, `Record`, `Event` |
| `validate` of `base.py`, `erp_gl.py` | `FileIssues`, `RowIssues`, `JournalIssues`, `Report` |
| `normalize`, `NormalizationResult` | `Normalized`, `Events`, `NormalizationRaises` |
| `registry.py` | `Candidates`, `Confidence`, `Close`, `RequiresConfirmation`, `Selected` |
| `import_batch` | `Upload`, `Prepare`, `Refuse`, `Commit`, `RefuseCommit`; `Committed` |
| `validate_cross_source_readiness` | `CrossSourceReady`, `FinalState` |
| `CandidateIndexes.build`, `component_sign`, `load_policy` | `KernelInput`, `ComponentSign`, `ValidPolicy` |

The checks of a row are a sequence of codes, in the order of the code, and only the first of
a check that fails is reported.  `FitsAdapter` is what `_parse_row` asserts of a layout: the
amounts and dates it takes from a row are numbers and dates, so their fields are required
and have such a transform.  The catalogue does not check it and the checked-in YAML is like
that: `LayoutsAssumption`, where the code would stop with an `AssertionError` otherwise.
`MALFORMED` stands for the read errors of encodings, CSV and workbooks;
`AMOUNT_MINOR_INVALID` for the two codes of debit and credit.  Cells are stripped text.
The status of bank and gateway rows is not checked by the code and is left out.
`ImportedClose` adds no action: it evaluates `SettlementRules` on what `ImportBatch` has
committed, and so relates the figures in the files to what is cleared.  Names are given
the numbers of their places in `Names` (`Rank`); ERP journals keep their names, whose
order the kernel does not use.

### Investigation

State: `notes` (the table `investigations`, by case and time), `reviews`, the time `now`,
and for each desk, a tab of the client: `pc` and `job` (the request it waits for), `shown`,
`opening` (responses under way) and `loading`.

| Code | Actions |
|---|---|
| `openCase`, its response or the lack of one | `Open`, `Arrive`, `Miss` |
| `investigate` of the client and of the service, up to the model | `Ask` |
| `generate` and `_validate_model_result`, once and once more | `AnswerAccepted`, `AnswerRejected` |
| `ModelUnavailableError`, `ValueError`, and what is neither | `ModelFails` |
| `_persist` | `Attach`, `AttachRefused` |
| `judgeInvestigation`, `review_latest` | `Judge`, `Record` |
| `saveReview`, `PreliminaryReviewService.record` | `Save` |
| `refreshCase`, or a response that is lost | `Refresh`, `Lose` |

Abstractions.  An answer is the fields the validation reads; which of them are accepted is
`Accepted`, with every check of `_validate_model_result`.  References are numbers: a place
in the case or an event id.  Whether a verdict accepts or rejects is not kept, since it
makes no difference to what it is filed under.  The wording of prompts, fallbacks and
hedges is not modelled.  A process that dies while it waits for the model loses the
request and nothing else, because nothing is written before `_persist`: the desk is where
`Lose` leaves it.

## The runs

| Run | Checks | Instance |
|---|---|---|
| `lifecycle_race` | type invariant, five safety invariants, an action property, refinement of `RunPromise` | two processes, one run id, every fault |
| `lifecycle_ends` | `ReconciliationEnds` under `FairSpec` | two processes, two policies, exceptions without death or a failing `_mark_failed` |
| `lifecycle_mark` | `ExceptionMarksFailed`, violated | one process, a failing `_mark_failed` |
| `action_loop` | type invariant, four safety invariants, an action property, refinement of `ActionPromise` | one worker, a journal and a clarification, two reviews each, two stops |
| `action_retry` | `ApprovedIsExported` under `RetrySpec` | two workers, one action, one stop between steps |
| `action_tear` | `ApprovedIsExported`, violated | one worker, one action, stops inside a file write |
| `match_close` | type invariant, rows used once, cleared exactly when deserved, failures named, no false clearance | four sets of batches: two settlements and three bank rows of every kind; the same under a policy that requires two checks, and under one that requires a check there is not; two settlements, 0 to 2 `SETTLEMENT` rows, up to three journals, alone or parts of a document that balances as a whole or not; one settlement and four rows, in groups of any size; one and five rows, more than the search takes |
| `match_duplicate` | `DuplicateNeverCleared`, violated | the set that varies bank rows |
| `correction_retry` | type invariant, four safety invariants, an action property, refinement of `RunPromise`, `ExportedIsCorrected` under `RetrySpec` | two workers, three batches and two under other policies, two exports, five runs, one failure of any kind |
| `advice_desks` | type invariant, grounded advice, verdicts, an action property, `EveryAskEnds` under `FairSpec` | two desks, two workers, two cases, two instants, three cases opened, one verdict |
| `import_files` | type invariant, rows accounted for, released exactly when ready, routing, what is cleared | about 370 batches of files that differ from good ones in one or two places; two requests |
| `import_signs` | `ClearedIsAsReported`, violated | payments with either sign |

The configuration of `lifecycle_x` is `RunLifecycle_x.cfg` (`_live` for `ends`), and so on:
`PROJECT.json` lists them.

**Bounds and why they are enough.**  Runs do not share rows, files or audit ids, so
one run id shows every interaction there is; two processes are enough for each race
(two importers, importer and reconciler, two reconcilers), and a crash followed by a
new request makes each of them stand for any number of successive processes.  Two
source slots stand for three: the code compares sets of slots.  The five batches
contain a complete valid close, a second one that shares no (slot, content) pair with
it, one that shares a file and fails validation, one incomplete, and one that names a
slot twice.

The kernel compares amounts, dates, references and directions only with each other, so
two values of each that fit and one that does not give every outcome of every
comparison.  Two settlements are the first that can compete for rows, three rows the
first that can be a group and a rival, two valid groups the first ambiguity.  The
policy bounds are scaled down with the rows (`MaxCandidates` 4 for 12, `MaxGroupSize` 2
for 4, `MaxValidGroups` 2 as configured) so that each is reached and passed: five rows are
more than the search takes, four rows that are searched have groups of three and four,
which it does not look at.  A document may have lines under both references, or under one
and none, that balance each, together, or not at all.  These
runs stop when the function returns, hence `CHECK_DEADLOCK FALSE`; all their batches
are initial states, so every batch is checked.  The other runs with that setting stop when
the requests they bound are used up.

Corrections: two exports are the first correction of a correction, and the first pair on
one run; five runs give each of them a run that fails and one that is orphaned by a
receipt another worker had; one failure is enough because a request that fails leaves
nothing that a later failure would read.  The batches have a missing posting that can be
cleared, two that cannot (paid late, paid in two rows), and a duplicate.  Two more are under
a policy with which the kernel raises once the posting is there, or never clears at all.

Imports: requests vary one file at a time, and every cell of a row takes a value that each
check on it refuses and one that it lets pass; dates are 45 and 46 days apart.  Files are
independent of each other until the batch is committed, where only currencies, dates,
sources and repeated records relate them, and these are varied together.  The second
request shows a run id used again and files left by a refused request.

Advice: two desks are the first whose screens may disagree, two instants the first that
differ, and collisions happen within one of them.  Answers differ from an acceptable one in
each field the validation reads.

**Fairness.**  `FairSpec` assumes that a live process goes on with the request it has
(`WF_vars(Progress(p))` for each process): a Python process that is in the middle of
a synchronous call continues.  It assumes nothing about requests and nothing about
faults.  Process death and a raising `_mark_failed` are excluded from the liveness
run because the code then does leave the run `RECONCILING`; `RunLifecycle_mark`
shows the second.

`RetrySpec` assumes that a request in progress goes on (`WF`), that stops are finite in
number (`MaxStops`), and that the client asks for the export of an action again and
again whenever the worker is free (`SF` on `RequestExport`).  The last is not the
code's to guarantee: it is the condition under which the idempotency key is meant to
help, and the run shows that asking again is enough.  `RetrySpec` of `CorrectionLoop` is
the same for corrections: requests go on, failures end, and clients keep asking for what
has no receipt under ids that are not taken.

`FairSpec` of `Investigation` assumes `WF_pc(Moves(d))`: a request that the API serves does
not stay where it is.  `live_model.py` gives each call a timeout, so the model answers or
fails; the rest is synchronous code.  Nothing is assumed about desks and responses.

**The findings.**  `IMPLEMENTATION_REPORT.md:663` says that on a kernel or persistence
exception the run goes from `RECONCILING` to `FAILED`.  `_mark_failed` is a unit of
work like the one that raised: when the database file is held by another process or
the disk is full, it raises too, and the run stays `RECONCILING`, from which `run`
refuses it and `import_batch` refuses its id.  The stronger promise beside it,
that a failed run never appears complete, holds (`ResultsOnlyWhenCompleted`).

`README.md:242` says that every export returns an idempotency receipt.  An export
whose file write is cut short leaves a torn file under its final name.  Every later
export of the action finds it, compares the bytes and raises; the approved text can no
longer be edited, so the path never changes and the receipt never comes.  A stop just
before or just after the write is repaired by asking again (`ActionLoop_retry`), and in
no case does a receipt name the torn file (`ReceiptsVerify`).

`tests/integration/test_segment4_reconciliation.py:170` says that a duplicated identifier
with a conflicting amount is a contradiction even when one row would match alone.
`analyze_settlement` looks for duplicates among the rows that are left.  When an
earlier settlement has taken one of them (its amount fits, its UTR does not, so that
settlement is not proved), the later one is cleared with the other
(`match_duplicate`).  It is not cleared without being paid: `ClearedIsPaidAndPosted` holds.

`docs/domain/SOURCE_SCHEMAS.md:30` says that a negative `amount_minor` rejects its row.  The
gateway adapter stores its absolute value and turns the direction around
(`gateway.py:122`), and the kernel reads the direction of adjustments only
(`policy.py:76`): a payment of -100 is counted as 100 received, and the settlement may be
cleared on it (`import_signs`).  For files without such amounts, adapters and kernel agree
(`ClearedAgrees`).

Other sentences of the documents differ from the code as well.  They have no run of their
own; the properties that hold leave out what they concern:

- `IMPLEMENTATION_REPORT.md:662`: an unbalanced ERP journal is invalid input and cannot clear.
  The adapter warns of a document that does not balance and keeps it, and
  `analyze_settlement` balances the lines of it that carry the reference of the settlement
  (`settlement.py:214`): a balanced part of it clears.  `ClearedIffDeserved` does not call
  this deserved: it has the premise `DocumentsBalance`.
- `IMPLEMENTATION_REPORT.md:658`: excessive candidate or group size is ambiguity, and computation
  limits cannot force a guess.  Only the number of candidates is reported; groups above
  `max_group_size` are not looked at (`grouping.py:29`), and a settlement that one of them pays as
  well is cleared as uniquely matched.  Rivals in `PaidWithoutDoubt` are of any size, so
  `ClearedIffDeserved` has the premise `GroupsAreSearched`.  The Python `reconcile()` was
  run on a batch of either kind and clears it.
- The client asks "Do you agree with this note?" beside the note on screen (`App.tsx:460`).  The
  request names the case only, and `review_latest` files the verdict under the latest note
  (`service.py:184`): with two desks, maybe one the reviewer has not seen.  It is never an
  older one, nor one of another case (`VerdictsNeverGoBack`).
- `docs/domain/INVARIANTS.md:39`: a failing model activates the deterministic fallback.  A
  body that is cut off or that is JSON but no object (`live_model.py:63`, `:68`) raises
  what `investigate` does not catch; the request ends with no note (`ModelFails`, `Escaping`).
- `docs/domain/SOURCE_SCHEMAS.md:67`: a duplicate line rejects its journal.  The lines that
  share a number are refused, the others are imported (`JournalIssues`).
- `docs/domain/SOURCE_SCHEMAS.md:31`: a run in another currency than INR is blocked.  The
  import accepts any one currency; reconciliation refuses the run later (`Decisions`).
- `bank_to_erp_max_days` of the policy (`policy.py:26`) is read by no rule.

## The proofs

`RunLifecycleProofs` proves, for every set of processes, runs, contents, batches and
policies and every combination of faults, each invariant of the race run, the action
property and the refinement.  The only assumption is `ConstantsAssumption`.

None of the invariants is inductive alone: that the snapshot appended by
`CommitResults` is legal depends on what another process may have done since the
first unit of work.  `IInv` adds

- `RunShape`: a run has 0, 3, 4 or 5 snapshots, and their states and files, its audit
  events and its results are a function of that number and of the last state;
- `JobShape`: what each stage of a process knows - an importer has stored, whole,
  every document it no longer has to store; a reconciler between its units of work
  has the fourth snapshot in hand;
- `OneWorker`: at most one process can still close a run with four snapshots.

One lemma per action shows that it preserves these; `EveryStepIsDbStep` then
classifies every step as no change of the tables, or exactly one of import, start,
completion and failure of exactly one run, from which the action property and the
refinement follow.

`ActionLoopProofs` proves, for every set of workers, actions, journals and texts and
every bound, type correctness, `OnlyApprovedLeaves`, `ReceiptsVerify` and
`RecordsAreAppendOnly`; and from the assumption that there is one worker
(`OneWorker`), `HistoryLegal` and the refinement of `ActionPromise`.  Its invariant
has two layers:

- `IInv`, for any number of workers: `TypeOK`; `ViewShape`, what a request knows at
  each stage (the snapshot it read is in the history, an export past its lookup read
  an approved one, one past its file has a whole file); `TableShape`, how the files,
  receipts, snapshots and audit events of an action hang together.  That histories
  and reviews only grow (`Grows`) is what keeps the first true while others act.
- `OneInv`, for one worker: the snapshot the request read is still the latest
  (`Fresh`), consecutive snapshots are legal (`Legal`), and the files of an action are
  the content of its latest snapshot (`Out`).

`OneInv` has a third use: `Explained`, which carries `ReviewsExplainHistory`.  The invariant
places each review that changes something by counting those up to it (`Changes`, `Place`), so that
appending one of them leaves the places of the others alone and takes the next one itself
(`ChangesAppend`), and no recursion over the reviews is needed.  `Fresh` then says what the request
in hand will append: the state its review makes of a proposal, and the text it read unless it edits.

`SettlementRulesProofs` holds what the kernel's rules say, for every batch (`IsBatch`) and every
policy `load_policy` accepts (`PolicyAssumption`).  It has five parts:

- `SelectionLemma` (what a selection takes is free, and is the group that was checked unless it
  is ambiguous), `ResultsLemma` and `CaseProofLemma` (what the checks and a proved case say of the
  batch); `FilingLemma` and `NoReasonLemma` (a case without a reason has passed every check but
  that of the direction).
- `Before` is a strict order (`BeforeTransitive`), so that some valid group is the first
  (`SomeGroupIsFirst`) and the search finds one group if and only if there is one
  (`FoundIffOnly`), although it stops after `MaxValidGroups`.
- `ProvedIsPaid` and `PaidIsProved`: the gate proves a case if and only if one group of credits
  that no other within the bounds of the search rivals (`Paid`) pays it and one journal posts it.
- `CasesLemma`: the loop over the settlements, a recursive function of their references, exists
  and gives each settlement its case on what is left (`LeftBy`); by induction on the references.
- `DecisionsAreLocal`, `MissingPostingLemma`, `StillDuplicate`: batches that differ in journals
  only (`Alike`) give the same bank selections, so a journal more changes the decision on its own
  reference only; one for a missing posting passes all its checks; one more is still a duplicate.

`SettlementMatchingProofs` proves, for every set of batches of any size and every policy,
`TypeOK`, `EvidenceUsedOnce`, `ClearedIsPaidAndPosted`, `FailureIsNamed` and
`ClearedIffDeserved`.  The assumptions are `BatchesAssumption` (each is a batch) and
`PolicyAssumption`.  The invariant, `IInv`, is that each case is `CaseOf` of what the cases of
smaller references left, and that analysed settlements are an initial part of the
order: without the order, what a case could take is not a function of its reference.
With it the lemmas about a case carry over to every case there is.  `ClearedExactly` says of
every settlement, without a premise on documents or groups, what the search within its bounds
clears; `SearchedIsPaid` says that this is what is paid without doubt, in groups of any size,
where those that pay are looked at.

`CorrectionLoopProofs` proves, for every set of workers, batches and policies and every
combination of faults, `TypeOK`, `ReceiptsNameResults`, `AnswersStay`, that the runs
implement `RunPromise`, `LedgerIsExplained`, `CorrectionsAreLocal` and
`CorrectionsSettleTheirCause`.  The assumptions are `CorrectionsAssumption` (the
batches are those of the kernel, with journals that are numbered) and `PolicyAssumption`.  A worker takes several units of work and reads nothing again in
between, so `IInv` says what it relies on: `Jobs` (a run that is being corrected exists,
is of the action, and stands in the phase of the worker's stage), `OwnRuns` (no two
workers are at work on one run), `Causes` (a corrected run names an exported action), and
`Gateways` (all runs have the gateway rows of the first, so that the settlements an action
names are those of its run).  `MovedImplements` and `ImportImplements` then map each step
to one of `RunPromise`.

`Ledger`, kept beside `IInv`, says where the contents of the tables come from: every run holds a
batch the kernel can be given and, once completed, what `DecisionsOf` makes of it (`Decided`);
an exported journal is the one its case was given (`Approved`); a corrected run holds what its
source and that journal make of it (`Derived`).  The last three properties are about one run
and its source then, and follow from the lemmas about the kernel.  That the appended journal
displaces none needs that a finite set of ids has a greatest one (`GreatestLemma`).

`ImportBatchProofs` proves, for every catalogue of profiles, every reading of the texts, every
margin and every set of uploads, `TypeOK`, `EveryRowIsAccountedFor`, `ValidatedIffReady` and
`UnconfirmedIsUnambiguous`.  The assumptions are `CatalogAssumption` (what the catalogue
checks when it loads; profiles and fields are finite), `ConfidenceAssumption`,
`RequestsAssumption` (an upload is a sequence of files, each a sequence of lines),
`ReadingsAssumption` (the transforms return integers and days) and `LayoutsAssumption` (what
the adapters assert of a layout); the last two are needed for `TypeOK` and for
`ClearedAgrees`, below.  `IInv` says that every run is
`Committed(files)` for some `Batch` of files: each routed and normalised (`Imports`), in slots
of their own, with no record twice.  That turns the properties into facts about one batch.
Slots tell the rows of the files apart (`EventsLemma`, `BlockersLemma`, `StatusLemma`), numbers
the rows of a file (`NumbersLemma`), and a row is quarantined if and only if a blocking issue is
about it (`QuarantineLemma`): `EventsOfLemma` and `RowLemma` follow, and with `ValidLemma` and
`CrossSourceLemma` the conditions of a release.  `RoutingLemma` needs that there is a best
candidate (`GreatestLemma` again): being among the close ones it is the only one, so that no
other layout of its source fits and every other candidate is further away than the margin.

`TypeOK` says of every event that its amount is positive and its day a day, whatever the
cells hold; the tables, which keep an event as JSON, enforce neither.  A row that is not
quarantined has no `Problem` (`PassesLemma`), so it passes each check of its adapter
(`GatewayPasses`, `BankPasses`, `ErpPasses`, from `FirstFailureLemma`); a field has at most
one value (`MappedLemma`), which is a number where the adapter reads one (`NumberLemma`);
and that is enough, adapter by adapter, for the amount, day, type and currency
(`WellTyped`), and for the types a gateway row may have.  Its other half is `Custody`, an
invariant of its own beside `IInv`: what is committed or prepared is in the store, and a
request is served only for a run that is not there yet.

It also proves `ClearedAgrees`, which spans the adapters, the index of the events and the
kernel: the amounts of cleared gateway rows add up to the bank rows of the case, and one
journal posts both.  The further assumptions are

- `PolicyAssumption` and `LoadedPolicy`: what `load_policy` and `_validate_ranges` accept;
- `CheckedInPolicy`: the signs of the components and the sides of the bank and clearing
  accounts, which `load_policy` leaves open and `razorpay_inr_v1.yaml` sets.  Under a
  policy that counts a fee for the settlement, or expects receipts on the credit side,
  the property is not what that policy asks for;
- `NamesAssumption`: `Names` has the names that the files use, each once.

No new invariant is needed: a run is `Committed(files)` by `IInv`, and what is cleared is a
function of its events.  The argument follows the code from the files to the decision:

- `RunIsAdmitted`: the events of a committed run are finitely many, of known types, with
  positive amounts, names that `Rank` tells apart, and no record twice (`Admitted`).
- `InputLemma`: what the index makes of such events is a batch the kernel can be given
  (`IsBatch`), and its figures are sums over the events they come from (`Faithful`), part
  by part: `GatewayPart`, `BankPart`, `JournalPart`.
- The lemmas about the kernel then apply: what is cleared passed every check
  (`ClearedPassed`, from `DecisionsLemma`), and so its figures are those of its bank rows and
  of its only journal (`CaseProofLemma`).
- `ReceiptLemma`, `ReportedLemma`, `PostingLemma` carry the equations of that case
  back to the events.  The first changes the numbers of bank rows for the rows; the second
  splits the components into what is collected, fees and taxes, and is where the
  unsigned convention is used: only under it is the sign of the policy that of the file;
  the third needs that one journal with a reference is all the lines with that reference.

This is also why `import_signs` is violated: without the convention, `ReportedLemma` fails
for a payment that debits.

`InvestigationProofs` proves, for every set of desks, workers, cases and answers a model may
give, `TypeOK`, `VerdictsNeverGoBack`, `HistoryStays` and `AdviceIsSound`.  The assumption is
`InvestigationAssumption` (the types of events and answers; what an exception cites are
rows of its case).  Between what a request reads and what it writes other desks act, so
`IInv` says of each stage what the request carries (`RequestOK`): a note to attach is a
`Note` of the case it is for, and a verdict about to be recorded is `Ordered`, the note on
screen being no later than the one it will be filed under.  `LatestLemma` makes it so when
the request is served, and since notes are only added (`OtherDesk`) it stays so.
`ValidatedLemma` is the part that is about the model's answers: what `Accepted` lets
through becomes a `Note`.

`Advised` says of every note, attached or about to be, what `AdviceIsSound` says of the attached.
A journal that balances has lines on both sides because amounts are positive: were all lines on
one side, the sum over them would be greater than the empty one (`BothSides`, with `SumGrows`).

`FiniteSetLemmas` has what these proofs share: `GreatestLemma` and `SmallestLemma`; induction over
the natural numbers and over the subsets of a finite set, stated for a set of numbers or of subsets
(`NaturalInduction`, `SubsetInduction`), since a lemma with an operator for a parameter cannot
be used; and sums over sets, by `SubsetInduction` from the recursion that defines the fold
(`FoldExists`, `SumUnfolds`): the sum over a set is that over the rest and one element more,
over a singleton it is its value, and of positive numbers it grows; it splits over disjoint
sets (`SumSplits`), and stays the same when the elements are renamed one by one (`SumImage`)
or the function is replaced by an equal one (`SumCongruent`); that of opposites is the opposite
(`SumNegates`).

Only model-checked, and why: `ReconciliationEnds`, `ApprovedIsExported`, `ExportedIsCorrected`
and `EveryAskEnds`.  They are liveness under fairness, which TLAPS does not reach.  Every
invariant, every action property and every refinement of the passing runs is proved.

## The plan

Done, in this order: `RunPromise` and `RunLifecycle`; `ActionPromise` and `ActionLoop`;
`SettlementRules` and `SettlementMatching`; `CorrectionLoop`; `Investigation`;
`SourceAdapters`, `ImportBatch` and `ImportedClose`; the proofs of all of them.  Left: reading the events of a corrected run from its
files (`ImportBatch`) instead of a `batch`.

## Not modelled

- The encoding of records, rows and money as text, and the text of reports and prompts:
  conversions nothing is decided by.
- `questions.py`, artifacts and the listing routes: they only read.
- The import wizard and the action panel of the web client: one request at a time each.
  The response of `prepareAction` sets the action of the case on screen, whichever that
  is then (`App.tsx:208`); what is stored is not affected.
- `apply_migrations`: idempotent DDL in the transaction of each connection.
- `scripts/`, as far as they are more than another process of `RunLifecycle`.
- The synthetic data generator, the evaluation and the demo generators: offline tools.
- A process that dies in the kernel leaves its run `RECONCILING`; the code has no recovery
  and promises none.  `Crash` is in the safety run, and no property asks for more.
