----------------------------- MODULE ImportBatch -----------------------------
(***************************************************************************)
(* One process imports batches of source files (ImportBatchService).       *)
(*                                                                         *)
(* The files of a request are routed to an adapter, validated, normalised  *)
(* and stored one after another, and the whole batch is then committed in  *)
(* one unit of work.  Any of these steps may refuse the request with an    *)
(* exception; what it has stored by then stays in the file store.          *)
(* RunLifecycle has the same import with several processes and crashes,    *)
(* and takes from here which contents are valid.                           *)
(***************************************************************************)
EXTENDS SourceAdapters

CONSTANTS
  RunIds,        \* the run ids clients use
  Requests,      \* what clients upload: [docs, confirmations]
  MaxSpan,       \* how many days the events of a run may be apart
  MaxRequests    \* bound: requests served

\* A request is a sequence of files, a file a sequence of lines, and a workbook numbers
\* its rows.
ASSUME RequestsAssumption ==
  /\ MaxRequests \in Nat
  /\ \A q \in Requests : q.docs \in Seq(Range(q.docs))
  /\ \A q \in Requests : \A i \in DOMAIN q.docs :
       /\ q.docs[i].lines \in Seq(Range(q.docs[i].lines))
       /\ \A k \in DOMAIN q.docs[i].lines : q.docs[i].lines[k].number \subseteq Int

VARIABLES
  runs,      \* run id -> the rows its import has committed
  disk,      \* the files in the store, by run
  request,   \* the request being served
  prepared,  \* its files so far, each with what became of it
  served     \* requests taken

vars == <<runs, disk, request, prepared, served>>

NoRequest == [run |-> 0, docs |-> <<>>, confirmations |-> <<>>]

\* The bytes of a file; their SHA-256 identifies them.
Bytes(doc) == [broken |-> doc.broken, lines |-> doc.lines]

\* No two files of a request have the same bytes, or the same slot.
DistinctUploads(docs) ==
  \A i, j \in DOMAIN docs : i # j =>
    Bytes(docs[i]) # Bytes(docs[j]) /\ docs[i].file # docs[j].file

Serving == request # NoRequest

Remaining == {i \in DOMAIN request.docs : i > Len(prepared)}

\* FileImportResult.
Prepared(doc, profile, confirmed) ==
  [doc |-> doc, profile |-> profile, confirmed |-> confirmed,
   issues |-> Report(doc, profile), events |-> Events(doc, profile)]

\* The events of a batch; each has its file and row.
AllEvents(files) == UNION {files[i].events : i \in DOMAIN files}

\* _event_date and validate_cross_source_readiness.
CrossSourceReady(events) ==
  /\ {e.source : e \in events} = Sources
  /\ Cardinality({e.currency : e \in events}) <= 1
  /\ \A e, f \in events : e.day - f.day <= MaxSpan

\* Slip: what is left after the quarantine is all that is looked at.
FinalStateOfEvents(files) ==
  IF CrossSourceReady(AllEvents(files)) THEN "VALIDATED" ELSE "FAILED_VALIDATION"

FinalState(files) ==
  IF (\A i \in DOMAIN files : IsValid(files[i].issues)) /\ CrossSourceReady(AllEvents(files))
    THEN "VALIDATED" ELSE "FAILED_VALIDATION"

\* Slip: the event table without its primary key.
RepeatsNothing(files) == FALSE

\* The primary key (run_id, event_id) of the events: no record twice in a run.
RepeatsARecord(files) ==
  \E i, j \in DOMAIN files : i # j /\
    \E e \in files[i].events, f \in files[j].events : e.source = f.source /\ e.record = f.record

\* The row_dispositions of a file: one for each row, if its rows were normalised.
Dispositions(file) ==
  IF ~CanNormalize(file.issues) THEN {}
  ELSE {[file |-> file.doc.file, row |-> RowNumber(file.doc, i),
         status |-> IF i \in Normalized(file.doc, file.profile)
                      THEN "NORMALIZED" ELSE "QUARANTINED"] : i \in Rows(file.doc)}

\* The control totals of a file, by component.
Totals(file) ==
  LET of(c) == {e \in file.events : Component(e) = c} IN
  {[file |-> file.doc.file, component |-> c,
    currency |-> The({e.currency : e \in of(c)}),
    amount |-> MapThenSumSet(LAMBDA e : e.amount, of(c)),
    count |-> Cardinality(of(c))] : c \in {Component(e) : e \in file.events}}

\* source_files and validation_issues.
SourceFiles(files) ==
  {[doc |-> f.doc, profile |-> f.profile, confirmed |-> f.confirmed] : f \in Range(files)}

Issues(files) ==
  UNION {{[file |-> f.doc.file, issue |-> x] : x \in f.issues} : f \in Range(files)}

\* The rows of one import.
Committed(files) ==
  [state  |-> FinalState(files),
   files  |-> SourceFiles(files),
   issues |-> Issues(files),
   rows   |-> UNION {Dispositions(f) : f \in Range(files)},
   totals |-> UNION {Totals(f) : f \in Range(files)},
   events |-> AllEvents(files)]

-----------------------------------------------------------------------------
Init ==
  /\ runs = << >>
  /\ disk = {}
  /\ request = NoRequest
  /\ prepared = << >>
  /\ served = 0

\* Slip: the run is not looked up.
UploadOver(r, q) ==
  /\ ~Serving
  /\ served < MaxRequests
  /\ q.docs # <<>> /\ DistinctUploads(q.docs)
  /\ request' = [run |-> r, docs |-> q.docs, confirmations |-> q.confirmations]
  /\ served' = served + 1
  /\ UNCHANGED <<runs, disk, prepared>>

\* import_batch: the checks of the request, and that the run is not there yet.
Upload(r, q) ==
  /\ ~Serving
  /\ served < MaxRequests
  /\ q.docs # <<>> /\ DistinctUploads(q.docs)
  /\ r \notin DOMAIN runs
  /\ request' = [run |-> r, docs |-> q.docs, confirmations |-> q.confirmations]
  /\ served' = served + 1
  /\ UNCHANGED <<runs, disk, prepared>>

\* One file: routed, validated, normalised, totalled and stored.
Prepare(i) ==
  LET doc == request.docs[i]
      confirmations == {c \in request.confirmations : c.file = doc.file}
  IN
  \E profile \in Selected(doc, confirmations) :
    /\ ~NormalizationRaises(doc, profile)
    /\ prepared' = Append(prepared, Prepared(doc, profile, confirmations # {}))
    /\ disk' = disk \cup {<<request.run, doc.file>>}
    /\ UNCHANGED <<runs, request, served>>

Drop ==
  /\ request' = NoRequest
  /\ prepared' = << >>
  /\ UNCHANGED <<runs, disk, served>>

\* The file cannot be routed, or not be normalised: the exception ends the request.
Refuse(i) ==
  LET doc == request.docs[i]
      selected == Selected(doc, {c \in request.confirmations : c.file = doc.file})
  IN
  /\ \A profile \in selected : NormalizationRaises(doc, profile)
  /\ Drop

\* The unit of work that writes the batch.
Commit ==
  /\ Serving /\ Remaining = {}
  /\ ~RepeatsARecord(prepared)
  /\ runs' = [r \in DOMAIN runs \cup {request.run} |->
                IF r = request.run THEN Committed(prepared) ELSE runs[r]]
  /\ request' = NoRequest
  /\ prepared' = << >>
  /\ UNCHANGED <<disk, served>>

RefuseCommit ==
  /\ Serving /\ Remaining = {}
  /\ RepeatsARecord(prepared)
  /\ Drop

Next ==
  \/ \E r \in RunIds, q \in Requests : Upload(r, q)
  \/ \E i \in Remaining : i = Len(prepared) + 1 /\ (Prepare(i) \/ Refuse(i))
  \/ Commit \/ RefuseCommit

Spec == Init /\ [][Next]_vars

-----------------------------------------------------------------------------
(***************************************************************************)
(* Properties.                                                             *)
(***************************************************************************)
(***************************************************************************)
(* Files, rows and events have the shapes the code gives them, whatever    *)
(* the cells hold: an event that was imported has a known type, a day, and *)
(* an amount that is positive, however its layout spells it.  The file of  *)
(* a row is in the store; what is prepared is of the request being served. *)
(***************************************************************************)
TypeOK ==
  /\ DOMAIN runs \subseteq RunIds
  /\ \A r \in DOMAIN runs :
       /\ runs[r].state \in {"VALIDATED", "FAILED_VALIDATION"}
       /\ \A f \in runs[r].files : f.profile \in Profiles /\ <<r, f.doc.file>> \in disk
       /\ \A e \in runs[r].events :
            /\ e.source \in Sources /\ e.type \in EventTypes /\ e.currency \in Currencies
            /\ e.amount \in Nat \ {0} /\ e.direction \in {"DEBIT", "CREDIT"}
            /\ e.day \in Int /\ e.row \in Nat \ {0}
  /\ Len(prepared) <= Len(request.docs)
  /\ \A i \in DOMAIN prepared :
       prepared[i].doc = request.docs[i] /\ <<request.run, request.docs[i].file>> \in disk
  /\ Serving => request.run \in RunIds \ DOMAIN runs
  /\ served \in 0..MaxRequests

Interpretable(f) == Readable(f.doc) /\ Missing(f.profile, Header(f.doc)) = {}

EventsOf(run, f, i) ==
  {e \in run.events : e.file = f.doc.file /\ e.row = RowNumber(f.doc, i)}

BlockersOf(run, f, rows) ==
  {x \in run.issues : x.file = f.doc.file /\ x.issue.blocking /\ x.issue.row = rows}

StatusesOf(run, f, i) ==
  {d.status : d \in {x \in run.rows : x.file = f.doc.file /\ x.row = RowNumber(f.doc, i)}}

RowIsAccountedFor(run, f, i) ==
  LET normalized == EventsOf(run, f, i) # {} IN
  /\ Cardinality(EventsOf(run, f, i)) <= 1
  /\ normalized <=> BlockersOf(run, f, {RowNumber(f.doc, i)}) = {}
  /\ StatusesOf(run, f, i) = {IF normalized THEN "NORMALIZED" ELSE "QUARANTINED"}

(***************************************************************************)
(* Nothing is lost or counted twice between the bytes of an upload and the *)
(* tables: a row of an imported file is either exactly one event, of a     *)
(* record that no other row of the run has, or it is quarantined with a    *)
(* reason; a file that could not be interpreted has no events and a reason *)
(* of its own; and no event comes from elsewhere.                          *)
(***************************************************************************)
EveryRowIsAccountedFor ==
  \A r \in DOMAIN runs : LET run == runs[r] IN
    /\ \A f \in run.files :
         IF Interpretable(f)
           THEN \A i \in Rows(f.doc) : RowIsAccountedFor(run, f, i)
           ELSE /\ Cardinality(BlockersOf(run, f, {})) = 1
                /\ \A e \in run.events : e.file # f.doc.file
    /\ \A e \in run.events : \E f \in run.files : \E i \in Rows(f.doc) : e \in EventsOf(run, f, i)
    /\ \A e, g \in run.events : e.source = g.source /\ e.record = g.record => e = g

(***************************************************************************)
(* A run is released for reconciliation if and only if every row of every  *)
(* uploaded file has become an event and the batch makes one close: three  *)
(* sources, one currency, dates within reach of one another.  Whatever was *)
(* quarantined, by itself or with its journal, keeps the whole run back.   *)
(***************************************************************************)
ValidatedIffReady ==
  \A r \in DOMAIN runs : LET run == runs[r] IN
    run.state = "VALIDATED" <=>
      /\ \A f \in run.files :
           Interpretable(f) /\ \A i \in Rows(f.doc) : EventsOf(run, f, i) # {}
      /\ \A s \in Sources : \E e \in run.events : e.source = s
      /\ \A e, f \in run.events : e.currency = f.currency /\ e.day - f.day <= MaxSpan

(***************************************************************************)
(* A file nobody confirmed a layout for was read in the only layout of its *)
(* source that it has all required columns of, and no layout of another    *)
(* source fits it nearly as well: routing never guesses.                   *)
(***************************************************************************)
UnconfirmedIsUnambiguous ==
  \A r \in DOMAIN runs : \A f \in runs[r].files :
    ~f.confirmed =>
      \A p \in Profiles \ {f.profile} :
        LET score == Score(p, Header(f.doc)) IN
        f.doc.format \in p.formats /\ score > 0 =>
          p.source # f.profile.source /\ score + Margin < Score(f.profile, Header(f.doc))
=============================================================================
