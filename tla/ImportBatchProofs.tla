-------------------------- MODULE ImportBatchProofs --------------------------
(***************************************************************************)
(* Theorems about ImportBatch and ImportedClose, for every catalogue,      *)
(* every reading of the texts and every upload.                            *)
(*                                                                         *)
(* Every run in the database is what Committed makes of some batch of      *)
(* files that were routed, normalised and told apart (IInv); what the      *)
(* properties say of a run is then a fact about such batches, and what is  *)
(* cleared a fact about the batch of the kernel that their events make.    *)
(***************************************************************************)
EXTENDS ImportedClose, SettlementRulesProofs

Docs == UNION {{q.docs[i] : i \in DOMAIN q.docs} : q \in Requests}

\* A file that got through Prepare.
Imports ==
  {x \in {Prepared(d, p, c) : d \in Docs, p \in Profiles, c \in BOOLEAN} :
     /\ ~NormalizationRaises(x.doc, x.profile)
     /\ ~x.confirmed => x.profile \in Selected(x.doc, {})}

Batch(files) ==
  /\ files \in Seq(Imports)
  /\ \A i, j \in DOMAIN files : i # j => files[i].doc.file # files[j].doc.file
  /\ ~RepeatsARecord(files)

IInv ==
  /\ request.docs \in Seq(Docs)
  /\ DistinctUploads(request.docs)
  /\ prepared \in Seq(Imports)
  /\ \A i \in DOMAIN prepared :
       i \in DOMAIN request.docs /\ prepared[i].doc = request.docs[i]
  /\ \A r \in DOMAIN runs : \E files : Batch(files) /\ runs[r] = Committed(files)

\* A layout can be applied to a file: Interpretable, of the two.
Readings(d, p) == Readable(d) /\ Missing(p, Header(d)) = {}

-----------------------------------------------------------------------------
(***************************************************************************)
(* The report on a file.                                                   *)
(***************************************************************************)

\* What Prepare has stored about a file.
LEMMA ImportLemma ==
  ASSUME NEW x \in Imports
  PROVE  /\ x.doc \in Docs /\ x.profile \in Profiles /\ x.confirmed \in BOOLEAN
         /\ x.issues = Report(x.doc, x.profile) /\ x.events = Events(x.doc, x.profile)
         /\ ~NormalizationRaises(x.doc, x.profile)
         /\ ~x.confirmed => x.profile \in Selected(x.doc, {})
BY DEF Imports, Prepared

\* Every issue of a journal is about one of its rows.
LEMMA JournalLemma ==
  ASSUME NEW d, NEW p, NEW R
  PROVE  \A x \in JournalIssues(d, p, R) : \E i \in Rows(d) : x.row = {RowNumber(d, i)}
<1> SUFFICES ASSUME NEW x \in JournalIssues(d, p, R)
             PROVE  \E i \in Rows(d) : x.row = {RowNumber(d, i)}
  OBVIOUS
<1> DEFINE parsed == {i \in Rows(d) : \A y \in R : RowNumber(d, i) \notin y.row}
<1>1. \E i \in parsed : \E code, blocking : x = Issue({RowNumber(d, i)}, code, blocking)
  BY Zenon DEF JournalIssues
<1>2. QED
  BY <1>1 DEF Issue

\* A file that cannot be interpreted has one blocking issue, of no row.
LEMMA UnreadLemma ==
  ASSUME NEW d, NEW p, ~Readings(d, p)
  PROVE  /\ \E code : Report(d, p) = {Issue({}, code, TRUE)}
         /\ Normalized(d, p) = {} /\ Events(d, p) = {}
<1>1. PICK code : FileIssues(d, p) = {Issue({}, code, TRUE)}
  BY DEF Readings, FileIssues
<1>2. Report(d, p) = {Issue({}, code, TRUE)}
  BY <1>1 DEF Report
<1>3. ~CanNormalize(Report(d, p))
  BY <1>2 DEF CanNormalize, Issue
<1>4. Normalized(d, p) = {}
  BY <1>3 DEF Normalized
<1>5. QED
  BY <1>2, <1>4 DEF Events

\* An issue of any other file is about one of its rows.
LEMMA ReadLemma ==
  ASSUME NEW d, NEW p, Readings(d, p)
  PROVE  \A x \in Report(d, p) : \E i \in Rows(d) : x.row = {RowNumber(d, i)}
<1> SUFFICES ASSUME NEW x \in Report(d, p)
             PROVE  \E i \in Rows(d) : x.row = {RowNumber(d, i)}
  OBVIOUS
<1> DEFINE R == RowIssues(d, p)
<1>1. FileIssues(d, p) = {}
  BY DEF Readings, FileIssues
<1>2. x \in R \/ x \in JournalIssues(d, p, R)
  BY <1>1, Zenon DEF Report
<1>3. CASE x \in R
  <2>1. \E i \in Rows(d) : \E code : x = Issue({RowNumber(d, i)}, code, TRUE)
    BY <1>3, Zenon DEF RowIssues
  <2>2. QED
    BY <2>1 DEF Issue
<1>4. CASE x \in JournalIssues(d, p, R)
  <2> HIDE DEF R
  <2>1. \A y \in JournalIssues(d, p, R) : \E i \in Rows(d) : y.row = {RowNumber(d, i)}
    BY JournalLemma
  <2>2. QED
    BY <1>4, <2>1
<1>5. QED
  BY <1>2, <1>3, <1>4

\* Its rows become events unless a blocking issue is about them.
LEMMA QuarantineLemma ==
  ASSUME NEW d, NEW p, Readings(d, p)
  PROVE  /\ CanNormalize(Report(d, p))
         /\ \A i \in Rows(d) :
              i \in Normalized(d, p) <=>
                ~\E x \in Report(d, p) : x.blocking /\ x.row = {RowNumber(d, i)}
<1>1. \A x \in Report(d, p) : \E i \in Rows(d) : x.row = {RowNumber(d, i)}
  BY ReadLemma, Zenon
<1>2. CanNormalize(Report(d, p))
  BY <1>1 DEF CanNormalize
<1>3. ASSUME NEW i \in Rows(d)
      PROVE  RowNumber(d, i) \in Quarantined(Report(d, p)) <=>
               \E x \in Report(d, p) : x.blocking /\ x.row = {RowNumber(d, i)}
  BY <1>1 DEF Quarantined
<1>4. QED
  BY <1>2, <1>3 DEF Normalized

LEMMA NormalizedLemma ==
  ASSUME NEW d, NEW p
  PROVE  Normalized(d, p) \subseteq Rows(d)
BY DEF Normalized

\* The rows of a file that was normalised are told apart by their numbers.
LEMMA NumbersLemma ==
  ASSUME NEW x \in Imports, Readings(x.doc, x.profile),
         NEW i \in Rows(x.doc), NEW j \in Rows(x.doc),
         RowNumber(x.doc, i) = RowNumber(x.doc, j)
  PROVE  i = j
<1>1. CanNormalize(Report(x.doc, x.profile))
  BY QuarantineLemma, Zenon
<1>2. QED
  BY <1>1, ImportLemma DEF NormalizationRaises

-----------------------------------------------------------------------------
(***************************************************************************)
(* The rows of a run, file by file.                                        *)
(***************************************************************************)

\* The event of a row has the file, row, source and record it was read from.
LEMMA EventLemma ==
  ASSUME NEW x \in Imports
  PROVE  \A e \in x.events : \E i \in Normalized(x.doc, x.profile) :
           /\ e = Event(x.doc, i, x.profile)
           /\ e.file = x.doc.file /\ e.row = RowNumber(x.doc, i)
           /\ e.source = x.profile.source /\ e.record = Record(x.doc, i, x.profile)
<1>1. x.events = {Event(x.doc, i, x.profile) : i \in Normalized(x.doc, x.profile)}
  BY ImportLemma DEF Events
<1>2. \A i \in Normalized(x.doc, x.profile) :
        LET e == Event(x.doc, i, x.profile) IN
        /\ e.file = x.doc.file /\ e.row = RowNumber(x.doc, i)
        /\ e.source = x.profile.source /\ e.record = Record(x.doc, i, x.profile)
  BY DEF Event
<1>3. QED
  BY <1>1, <1>2

LEMMA FileLemma ==
  ASSUME NEW files, Batch(files)
  PROVE  /\ \A k \in DOMAIN files : files[k] \in Imports
         /\ \A f \in SourceFiles(files) : \E k \in DOMAIN files :
              /\ f.doc = files[k].doc /\ f.profile = files[k].profile
              /\ f.confirmed = files[k].confirmed
         /\ \A k \in DOMAIN files : \E f \in SourceFiles(files) :
              /\ f.doc = files[k].doc /\ f.profile = files[k].profile
              /\ f.confirmed = files[k].confirmed
<1> DEFINE entry(k) == [doc |-> files[k].doc, profile |-> files[k].profile,
                        confirmed |-> files[k].confirmed]
<1>1. \A k \in DOMAIN files : files[k] \in Imports
  BY DEF Batch
<1>2. SourceFiles(files) = {entry(k) : k \in DOMAIN files}
  BY DEF SourceFiles, Range
<1>3. ASSUME NEW f \in SourceFiles(files)
      PROVE  \E k \in DOMAIN files : f = entry(k)
  BY <1>2, Zenon
<1>4. ASSUME NEW k \in DOMAIN files
      PROVE  entry(k) \in SourceFiles(files)
  BY <1>2, Zenon
<1>5. \A k : /\ entry(k).doc = files[k].doc /\ entry(k).profile = files[k].profile
            /\ entry(k).confirmed = files[k].confirmed
  OBVIOUS
<1> HIDE DEF entry
<1>6. QED
  BY <1>1, <1>3, <1>4, <1>5

\* The events of a run that have the slot of a file are the events of that file.
LEMMA EventsLemma ==
  ASSUME NEW files, Batch(files), NEW k \in DOMAIN files
  PROVE  {e \in AllEvents(files) : e.file = files[k].doc.file} = files[k].events
<1>1. ASSUME NEW l \in DOMAIN files, NEW e \in files[l].events
      PROVE  e.file = files[l].doc.file
  <2>1. files[l] \in Imports
    BY FileLemma
  <2>2. QED
    BY <2>1, EventLemma
<1>2. \A l \in DOMAIN files : l # k => files[l].doc.file # files[k].doc.file
  BY DEF Batch
<1>3. QED
  BY <1>1, <1>2 DEF AllEvents

\* A row has its event if it was normalised, and no other.
LEMMA EventsOfLemma ==
  ASSUME NEW files, Batch(files), NEW k \in DOMAIN files, NEW f, f.doc = files[k].doc,
         Readings(files[k].doc, files[k].profile), NEW i \in Rows(files[k].doc)
  PROVE  EventsOf(Committed(files), f, i) =
           {Event(files[k].doc, j, files[k].profile) :
              j \in {i} \cap Normalized(files[k].doc, files[k].profile)}
<1> DEFINE x == files[k]
           normalized == Normalized(x.doc, x.profile)
           found == EventsOf(Committed(files), f, i)
<1>0. x \in Imports /\ Readings(x.doc, x.profile)
  BY FileLemma
<1>1. found = {e \in x.events : e.row = RowNumber(x.doc, i)}
  <2>1. Committed(files).events = AllEvents(files)
    BY DEF Committed
  <2>2. QED
    BY <2>1, EventsLemma DEF EventsOf
<1>2. ASSUME NEW e \in found
      PROVE  i \in normalized /\ e = Event(x.doc, i, x.profile)
  <2>1. PICK j \in normalized : e = Event(x.doc, j, x.profile) /\ e.row = RowNumber(x.doc, j)
    BY <1>0, <1>1, EventLemma
  <2>2. j \in Rows(x.doc)
    BY NormalizedLemma
  <2>3. i = j
    BY <1>0, <1>1, <2>1, <2>2, NumbersLemma
  <2>4. QED
    BY <2>1, <2>3
<1>3. ASSUME i \in normalized
      PROVE  Event(x.doc, i, x.profile) \in found
  <2>1. Event(x.doc, i, x.profile) \in x.events
    BY <1>0, <1>3, ImportLemma DEF Events
  <2>2. Event(x.doc, i, x.profile).row = RowNumber(x.doc, i)
    BY DEF Event
  <2>3. QED
    BY <1>1, <2>1, <2>2
<1>4. QED
  BY <1>2, <1>3

\* The blocking issues of an imported file about the given rows, as they are stored.
Blockers(x, rows) ==
  {[file |-> x.doc.file, issue |-> y] : y \in {z \in x.issues : z.blocking /\ z.row = rows}}

\* The blocking issues of a file are those of its report.
LEMMA BlockersLemma ==
  ASSUME NEW files, Batch(files), NEW k \in DOMAIN files, NEW f, f.doc = files[k].doc, NEW rows
  PROVE  BlockersOf(Committed(files), f, rows) = Blockers(files[k], rows)
<1>1. Committed(files).issues =
        UNION {{[file |-> files[l].doc.file, issue |-> x] : x \in files[l].issues} : l \in DOMAIN files}
  BY DEF Committed, Issues, Range
<1>2. \A l \in DOMAIN files : l # k => files[l].doc.file # files[k].doc.file
  BY DEF Batch
<1>3. QED
  BY <1>1, <1>2 DEF BlockersOf, Blockers

\* A row of a file that was interpreted has one disposition.
LEMMA StatusLemma ==
  ASSUME NEW files, Batch(files), NEW k \in DOMAIN files, NEW f, f.doc = files[k].doc,
         Readings(files[k].doc, files[k].profile), NEW i \in Rows(files[k].doc)
  PROVE  StatusesOf(Committed(files), f, i) =
           {IF i \in Normalized(files[k].doc, files[k].profile)
              THEN "NORMALIZED" ELSE "QUARANTINED"}
<1> DEFINE x == files[k]
           status(j) == IF j \in Normalized(x.doc, x.profile)
                          THEN "NORMALIZED" ELSE "QUARANTINED"
           row(j) == [file |-> x.doc.file, row |-> RowNumber(x.doc, j), status |-> status(j)]
           own == {d \in Committed(files).rows : d.file = x.doc.file}
<1>1. \A l \in DOMAIN files : \A d \in Dispositions(files[l]) : d.file = files[l].doc.file
  BY DEF Dispositions
<1>2. \A l \in DOMAIN files : l # k => files[l].doc.file # files[k].doc.file
  BY DEF Batch
<1>3. Committed(files).rows = UNION {Dispositions(files[l]) : l \in DOMAIN files}
  BY DEF Committed, Range
<1>4. own = Dispositions(x)
  BY <1>1, <1>2, <1>3
<1>5. CanNormalize(x.issues)
  BY FileLemma, ImportLemma, QuarantineLemma
<1>6. Dispositions(x) = {row(j) : j \in Rows(x.doc)}
  BY <1>5 DEF Dispositions
<1>7. \A j \in Rows(x.doc) : RowNumber(x.doc, j) = RowNumber(x.doc, i) => j = i
  BY FileLemma, NumbersLemma
<1>8. {d \in own : d.row = RowNumber(x.doc, i)} = {row(i)}
  BY <1>4, <1>6, <1>7
<1>9. StatusesOf(Committed(files), f, i) = {d.status : d \in {row(i)}}
  BY <1>8 DEF StatusesOf
<1>10. QED
  BY <1>9

-----------------------------------------------------------------------------
(***************************************************************************)
(* What the properties say, of one batch.                                  *)
(***************************************************************************)
LEMMA RowLemma ==
  ASSUME NEW files, Batch(files), NEW k \in DOMAIN files, NEW f,
         f.doc = files[k].doc, f.profile = files[k].profile,
         Interpretable(f), NEW i \in Rows(f.doc)
  PROVE  /\ RowIsAccountedFor(Committed(files), f, i)
         /\ EventsOf(Committed(files), f, i) # {} <=> i \in Normalized(f.doc, f.profile)
<1> DEFINE x == files[k]
           found == EventsOf(Committed(files), f, i)
           normalized == i \in Normalized(x.doc, x.profile)
           blockers == BlockersOf(Committed(files), f, {RowNumber(f.doc, i)})
           statuses == StatusesOf(Committed(files), f, i)
<1>1. Readings(x.doc, x.profile) /\ i \in Rows(x.doc)
  BY DEF Interpretable, Readings
<1>2. found = {Event(x.doc, j, x.profile) : j \in {i} \cap Normalized(x.doc, x.profile)}
  BY <1>1, EventsOfLemma
<1>3. found # {} <=> normalized
  BY <1>2
<1>4. Cardinality(found) <= 1
  <2>1. CASE normalized
    <3>1. found = {Event(x.doc, i, x.profile)}
      BY <1>2, <2>1
    <3>2. Cardinality(found) = 1
      BY <3>1, FS_Singleton
    <3>3. QED
      BY <3>2
  <2>2. CASE ~normalized
    <3>1. Cardinality(found) = 0
      BY <1>3, <2>2, FS_EmptySet
    <3>2. QED
      BY <3>1
  <2>3. QED
    BY <2>1, <2>2
<1>5. normalized <=> blockers = {}
  <2>1. blockers = Blockers(x, {RowNumber(x.doc, i)})
    BY BlockersLemma
  <2>2. x.issues = Report(x.doc, x.profile)
    BY FileLemma, ImportLemma
  <2>3. normalized <=> ~\E y \in x.issues : y.blocking /\ y.row = {RowNumber(x.doc, i)}
    BY <1>1, <2>2, QuarantineLemma
  <2>4. QED
    BY <2>1, <2>3 DEF Blockers
<1>6. statuses = {IF normalized THEN "NORMALIZED" ELSE "QUARANTINED"}
  BY <1>1, StatusLemma
<1>7. RowIsAccountedFor(Committed(files), f, i)
  <2> HIDE DEF found, normalized, blockers, statuses
  <2>1. /\ Cardinality(found) <= 1
        /\ found # {} <=> blockers = {}
        /\ statuses = {IF found # {} THEN "NORMALIZED" ELSE "QUARANTINED"}
    BY <1>3, <1>4, <1>5, <1>6
  <2>2. QED
    BY <2>1, Zenon DEF RowIsAccountedFor, found, blockers, statuses
<1>8. QED
  BY <1>3, <1>7

\* A file that was not interpreted has a reason of its own and no events.
LEMMA UnreadFileLemma ==
  ASSUME NEW files, Batch(files), NEW k \in DOMAIN files, NEW f,
         f.doc = files[k].doc, f.profile = files[k].profile, ~Interpretable(f)
  PROVE  /\ Cardinality(BlockersOf(Committed(files), f, {})) = 1
         /\ \A e \in Committed(files).events : e.file # f.doc.file
<1> DEFINE x == files[k]
<1>1. x \in Imports /\ ~Readings(x.doc, x.profile)
  BY FileLemma DEF Interpretable, Readings
<1>2. x.issues = Report(x.doc, x.profile) /\ x.events = Events(x.doc, x.profile)
  BY <1>1, ImportLemma
<1>3. PICK code : x.issues = {Issue({}, code, TRUE)}
  BY <1>1, <1>2, UnreadLemma
<1>4. BlockersOf(Committed(files), f, {}) =
        {[file |-> x.doc.file, issue |-> Issue({}, code, TRUE)]}
  <2>1. BlockersOf(Committed(files), f, {}) = Blockers(x, {})
    BY BlockersLemma
  <2>2. {z \in x.issues : z.blocking /\ z.row = {}} = {Issue({}, code, TRUE)}
    BY <1>3 DEF Issue
  <2>3. QED
    BY <2>1, <2>2 DEF Blockers
<1>5. x.events = {}
  BY <1>1, <1>2, UnreadLemma
<1>6. {e \in AllEvents(files) : e.file = x.doc.file} = {}
  BY <1>5, EventsLemma
<1>7. Committed(files).events = AllEvents(files)
  BY DEF Committed
<1>8. QED
  BY <1>4, <1>6, <1>7, FS_Singleton

\* No event comes from elsewhere, and no record is there twice.
LEMMA SourceLemma ==
  ASSUME NEW files, Batch(files)
  PROVE  /\ \A e \in AllEvents(files) : \E k \in DOMAIN files :
              \E i \in Rows(files[k].doc) :
                /\ e \in files[k].events
                /\ e.file = files[k].doc.file /\ e.row = RowNumber(files[k].doc, i)
         /\ \A e, g \in AllEvents(files) : e.source = g.source /\ e.record = g.record => e = g
<1>1. ASSUME NEW e \in AllEvents(files)
      PROVE  \E k \in DOMAIN files : \E i \in Rows(files[k].doc) :
               /\ e \in files[k].events
               /\ e.file = files[k].doc.file /\ e.row = RowNumber(files[k].doc, i)
  <2>1. PICK k \in DOMAIN files : e \in files[k].events
    BY DEF AllEvents
  <2>2. files[k] \in Imports
    BY FileLemma
  <2>3. PICK i \in Normalized(files[k].doc, files[k].profile) :
          e.file = files[k].doc.file /\ e.row = RowNumber(files[k].doc, i)
    BY <2>1, <2>2, EventLemma
  <2>4. i \in Rows(files[k].doc)
    BY NormalizedLemma
  <2>5. QED
    BY <2>1, <2>3, <2>4
<1>2. ASSUME NEW e \in AllEvents(files), NEW g \in AllEvents(files),
             e.source = g.source, e.record = g.record
      PROVE  e = g
  <2>1. PICK k \in DOMAIN files, l \in DOMAIN files :
          e \in files[k].events /\ g \in files[l].events
    BY DEF AllEvents
  <2>2. k = l
    BY <1>2, <2>1 DEF Batch, RepeatsARecord
  <2> DEFINE x == files[k]
             rows == Normalized(x.doc, x.profile)
  <2>3. x \in Imports
    BY FileLemma
  <2>4. PICK i \in rows, j \in rows :
          /\ e = Event(x.doc, i, x.profile) /\ e.record = Record(x.doc, i, x.profile)
          /\ g = Event(x.doc, j, x.profile) /\ g.record = Record(x.doc, j, x.profile)
    <3>1. \E i \in rows : e = Event(x.doc, i, x.profile) /\ e.record = Record(x.doc, i, x.profile)
      BY <2>1, <2>3, EventLemma
    <3>2. \E j \in rows : g = Event(x.doc, j, x.profile) /\ g.record = Record(x.doc, j, x.profile)
      BY <2>1, <2>2, <2>3, EventLemma
    <3>3. QED
      BY <3>1, <3>2
  <2>5. CanNormalize(Report(x.doc, x.profile))
    <3>1. CASE Readings(x.doc, x.profile)
      BY <3>1, QuarantineLemma
    <3>2. CASE ~Readings(x.doc, x.profile)
      BY <2>4, <3>2, UnreadLemma
    <3>3. QED
      BY <3>1, <3>2
  <2>6. i = j
    BY <1>2, <2>3, <2>4, <2>5, ImportLemma DEF NormalizationRaises
  <2>7. QED
    BY <2>4, <2>6
<1>3. QED
  BY <1>1, <1>2

\* A file is valid if and only if it was interpreted and each of its rows became
\* an event.
LEMMA ValidLemma ==
  ASSUME NEW x \in Imports
  PROVE  IsValid(x.issues) <=>
           /\ Readings(x.doc, x.profile)
           /\ \A i \in Rows(x.doc) : i \in Normalized(x.doc, x.profile)
<1>1. x.issues = Report(x.doc, x.profile)
  BY ImportLemma
<1>2. CASE ~Readings(x.doc, x.profile)
  <2>1. PICK code : x.issues = {Issue({}, code, TRUE)}
    <3>1. \E code : Report(x.doc, x.profile) = {Issue({}, code, TRUE)}
      BY <1>2, UnreadLemma
    <3>2. QED
      BY <1>1, <3>1
  <2>2. ~IsValid(x.issues)
    BY <2>1 DEF IsValid, Issue
  <2>3. QED
    BY <1>2, <2>2
<1>3. CASE Readings(x.doc, x.profile)
  <2>1. \A i \in Rows(x.doc) : i \in Normalized(x.doc, x.profile) <=>
          ~\E y \in x.issues : y.blocking /\ y.row = {RowNumber(x.doc, i)}
    BY <1>1, <1>3, QuarantineLemma
  <2>2. \A y \in x.issues : \E i \in Rows(x.doc) : y.row = {RowNumber(x.doc, i)}
    BY <1>1, <1>3, ReadLemma
  <2>3. IsValid(x.issues) <=> \A y \in x.issues : ~y.blocking
    BY DEF IsValid
  <2>4. QED
    BY <1>3, <2>1, <2>2, <2>3
<1>4. QED
  BY <1>2, <1>3

\* A batch has finitely many events.
LEMMA FiniteLemma ==
  ASSUME NEW files, Batch(files)
  PROVE  IsFiniteSet(AllEvents(files))
<1> DEFINE events == [k \in DOMAIN files |-> files[k].events]
<1>1. ASSUME NEW k \in DOMAIN files
      PROVE  IsFiniteSet(events[k])
  <2> DEFINE x == files[k]
             event == [i \in Normalized(x.doc, x.profile) |-> Event(x.doc, i, x.profile)]
  <2>1. x \in Imports
    BY FileLemma
  <2>2. Len(x.doc.lines) \in Nat
    <3>1. x.doc \in Docs
      BY <2>1, ImportLemma
    <3>2. x.doc.lines \in Seq(Range(x.doc.lines))
      BY <3>1, RequestsAssumption DEF Docs
    <3>3. QED
      BY <3>2
  <2>3. IsFiniteSet(2..Len(x.doc.lines))
    BY <2>2, FS_Interval
  <2>4. Normalized(x.doc, x.profile) \subseteq 2..Len(x.doc.lines)
    BY NormalizedLemma DEF Rows
  <2>5. IsFiniteSet(Normalized(x.doc, x.profile))
    BY <2>3, <2>4, FS_Subset
  <2>6. x.events = {event[i] : i \in DOMAIN event}
    BY <2>1, ImportLemma DEF Events
  <2>7. IsFiniteSet({event[i] : i \in DOMAIN event})
    <3>1. IsFiniteSet(DOMAIN event)
      BY <2>5
    <3> HIDE DEF event
    <3>2. QED
      BY <3>1, ImageLemma
  <2>8. QED
    BY <2>6, <2>7
<1>2. IsFiniteSet(DOMAIN files)
  <2>1. Len(files) \in Nat /\ DOMAIN files = 1..Len(files)
    BY DEF Batch
  <2>2. QED
    BY <2>1, FS_Interval
<1>3. DOMAIN events = DOMAIN files
  OBVIOUS
<1>4. AllEvents(files) = UNION {events[k] : k \in DOMAIN events}
  BY DEF AllEvents
<1> HIDE DEF events
<1>5. IsFiniteSet({events[k] : k \in DOMAIN events})
  BY <1>2, <1>3, ImageLemma
<1>6. \A T \in {events[k] : k \in DOMAIN events} : IsFiniteSet(T)
  BY <1>1, <1>3
<1>7. IsFiniteSet(UNION {events[k] : k \in DOMAIN events})
  BY <1>5, <1>6, FS_UNION
<1>8. QED
  BY <1>4, <1>7

\* The sources, the currency and the dates of a batch.
LEMMA CrossSourceLemma ==
  ASSUME NEW files, Batch(files)
  PROVE  CrossSourceReady(AllEvents(files)) <=>
           /\ \A s \in Sources : \E e \in AllEvents(files) : e.source = s
           /\ \A e, f \in AllEvents(files) : e.currency = f.currency /\ e.day - f.day <= MaxSpan
<1> DEFINE E == AllEvents(files)
           currency == [e \in E |-> e.currency]
           currencies == {currency[e] : e \in DOMAIN currency}
<1>1. \A e \in E : e.source \in Sources
  <2>1. SUFFICES ASSUME NEW e \in E PROVE e.source \in Sources
    OBVIOUS
  <2>2. PICK k \in DOMAIN files : e \in files[k].events
    BY DEF AllEvents
  <2>3. files[k] \in Imports
    BY FileLemma
  <2>4. e.source = files[k].profile.source
    BY <2>2, <2>3, EventLemma
  <2>5. files[k].profile \in Profiles
    BY <2>3, ImportLemma
  <2>6. QED
    BY <2>4, <2>5, CatalogAssumption DEF ValidCatalog
<1>2. {e.source : e \in E} = Sources <=> \A s \in Sources : \E e \in E : e.source = s
  BY <1>1
<1>3. {e.currency : e \in E} = currencies
  OBVIOUS
<1>4. IsFiniteSet(currencies)
  <2>1. IsFiniteSet(DOMAIN currency)
    BY FiniteLemma
  <2> HIDE DEF currency
  <2>2. QED
    BY <2>1, ImageLemma
<1>5. (\A x, y \in currencies : x = y) <=> \A e, f \in E : e.currency = f.currency
  OBVIOUS
<1>6. Cardinality({e.currency : e \in E}) <= 1 <=> \A e, f \in E : e.currency = f.currency
  <2>1. Cardinality(currencies) <= 1 <=> \A x, y \in currencies : x = y
    BY <1>4, AtMostOneLemma
  <2>2. QED
    BY <1>3, <1>5, <2>1
<1> HIDE DEF E
<1>7. CrossSourceReady(E) <=>
        /\ \A s \in Sources : \E e \in E : e.source = s
        /\ \A e, f \in E : e.currency = f.currency
        /\ \A e, f \in E : e.day - f.day <= MaxSpan
  BY <1>2, <1>6 DEF CrossSourceReady
<1>8. QED
  BY <1>7 DEF E

LEMMA ReadyLemma ==
  ASSUME NEW files, Batch(files)
  PROVE  LET run == Committed(files) IN
         run.state = "VALIDATED" <=>
           /\ \A f \in run.files :
                Interpretable(f) /\ \A i \in Rows(f.doc) : EventsOf(run, f, i) # {}
           /\ \A s \in Sources : \E e \in run.events : e.source = s
           /\ \A e, f \in run.events : e.currency = f.currency /\ e.day - f.day <= MaxSpan
<1> DEFINE run == Committed(files)
           valid == \A k \in DOMAIN files : IsValid(files[k].issues)
           accepted(f) == Interpretable(f) /\ \A i \in Rows(f.doc) : EventsOf(run, f, i) # {}
<1>1. /\ run.files = SourceFiles(files) /\ run.events = AllEvents(files)
      /\ run.state = FinalState(files)
  BY DEF Committed
<1>2. ASSUME NEW k \in DOMAIN files, NEW f, f.doc = files[k].doc, f.profile = files[k].profile
      PROVE  accepted(f) <=> IsValid(files[k].issues)
  <2>1. Interpretable(f) => \A i \in Rows(f.doc) :
          EventsOf(run, f, i) # {} <=> i \in Normalized(f.doc, f.profile)
    BY <1>2, RowLemma
  <2>2. files[k] \in Imports
    BY FileLemma
  <2>3. IsValid(files[k].issues) <=>
          /\ Interpretable(f)
          /\ \A i \in Rows(f.doc) : i \in Normalized(f.doc, f.profile)
    BY <1>2, <2>2, ValidLemma DEF Interpretable, Readings
  <2>4. QED
    BY <2>1, <2>3
<1>3. (\A f \in run.files : accepted(f)) <=> valid
  <2> HIDE DEF accepted
  <2>1. ASSUME NEW f \in run.files, valid
        PROVE  accepted(f)
    <3>1. PICK k \in DOMAIN files : f.doc = files[k].doc /\ f.profile = files[k].profile
      BY <1>1, FileLemma
    <3>2. QED
      BY <1>2, <2>1, <3>1
  <2>2. ASSUME \A f \in run.files : accepted(f), NEW k \in DOMAIN files
        PROVE  IsValid(files[k].issues)
    <3>1. PICK f \in run.files : f.doc = files[k].doc /\ f.profile = files[k].profile
      BY <1>1, FileLemma
    <3>2. QED
      BY <1>2, <2>2, <3>1
  <2>3. QED
    BY <2>1, <2>2
<1>4. run.state = "VALIDATED" <=> valid /\ CrossSourceReady(AllEvents(files))
  BY <1>1 DEF FinalState
<1>5. QED
  BY <1>1, <1>3, <1>4, CrossSourceLemma

-----------------------------------------------------------------------------
(***************************************************************************)
(* Routing.                                                                *)
(***************************************************************************)
LEMMA ScoreLemma ==
  ASSUME NEW p \in Profiles, NEW h
  PROVE  Score(p, h) \in Nat
<1> DEFINE optional == {f \in p.fields : ~f.required}
           matched == {f \in optional : Column(f, h) # {}}
<1>1. IsFiniteSet(optional)
  BY CatalogAssumption, FS_Subset
<1>2. IsFiniteSet(matched)
  BY <1>1, FS_Subset
<1>3. Cardinality(optional) \in Nat /\ Cardinality(matched) \in Nat
  BY <1>1, <1>2, FS_CardinalityType
<1>4. optional # {} => Cardinality(optional) > 0
  BY <1>1, <1>3, FS_EmptySet
<1>5. optional # {} => (2000 * Cardinality(matched)) \div Cardinality(optional) \in Nat
  BY <1>3, <1>4
<1>6. Score(p, h) = IF Missing(p, h) # {} THEN 0
                    ELSE 8000 + IF optional = {} THEN 2000
                                ELSE (2000 * Cardinality(matched)) \div Cardinality(optional)
  BY DEF Score
<1> HIDE DEF optional, matched
<1>7. QED
  BY <1>5, <1>6

\* The confidence of a candidate is the best score of the candidates of its source.
LEMMA ConfidenceLemma ==
  ASSUME NEW d, NEW p \in Candidates(d)
  PROVE  /\ Confidence(d, p) \in Nat
         /\ \A q \in Candidates(d) :
              q.source = p.source => Score(q, Header(d)) <= Confidence(d, p)
         /\ \E q \in Candidates(d) :
              q.source = p.source /\ Score(q, Header(d)) = Confidence(d, p)
<1> DEFINE C == {q \in Candidates(d) : q.source = p.source}
           score == [q \in C |-> Score(q, Header(d))]
           S == {score[q] : q \in DOMAIN score}
<1>1. C \subseteq Profiles /\ p \in C
  BY DEF Candidates
<1>2. IsFiniteSet(C)
  BY <1>1, CatalogAssumption, FS_Subset
<1>3. S \subseteq Nat /\ S # {}
  BY <1>1, ScoreLemma
<1>4. IsFiniteSet(S)
  <2>1. IsFiniteSet(DOMAIN score)
    BY <1>2
  <2> HIDE DEF score
  <2>2. QED
    BY <2>1, ImageLemma
<1>5. Confidence(d, p) = Max(S)
  <2>1. {Score(q, Header(d)) : q \in C} = S
    OBVIOUS
  <2>2. QED
    BY <2>1 DEF Confidence
<1>6. Max(S) \in S /\ \A y \in S : y <= Max(S)
  <2> HIDE DEF S
  <2>1. \E x \in S : \A y \in S : y <= x
    BY <1>3, <1>4, GreatestLemma
  <2>2. \E x \in S : \A y \in S : x >= y
    BY <1>3, <2>1
  <2>3. Max(S) \in S /\ \A y \in S : Max(S) >= y
    BY <2>2 DEF Max
  <2>4. QED
    BY <1>3, <2>3
<1>7. QED
  BY <1>3, <1>5, <1>6

LEMMA CloseLemma ==
  ASSUME NEW d
  PROVE  Close(d) = {p \in Candidates(d) :
                       \A q \in Candidates(d) : Confidence(d, q) - Confidence(d, p) <= Margin}
<1> DEFINE f == [p \in Candidates(d) |-> Confidence(d, p)]
<1>1. \A p \in Candidates(d) : Table(f)[p] = f[p]
  BY DEF Table
<1>2. \A p \in Candidates(d) : Table(f)[p] = Confidence(d, p)
  BY <1>1
<1>3. Close(d) = {p \in Candidates(d) :
                    \A q \in Candidates(d) : Table(f)[q] - Table(f)[p] <= Margin}
  BY DEF Close
<1> HIDE DEF f
<1>4. QED
  BY <1>2, <1>3

\* A layout taken without confirmation is the only one near the best.
LEMMA RoutingLemma ==
  ASSUME NEW d, NEW p \in Selected(d, {}),
         NEW q \in Profiles \ {p}, d.format \in q.formats, Score(q, Header(d)) > 0
  PROVE  q.source # p.source /\ Score(q, Header(d)) + Margin < Score(p, Header(d))
<1> DEFINE score(x) == Score(x, Header(d))
<1>1. Cardinality(Close(d)) = 1 /\ p \in Close(d)
  BY DEF Selected, RequiresConfirmation
<1>2. Candidates(d) \subseteq Profiles /\ Close(d) \subseteq Candidates(d)
  BY CloseLemma DEF Candidates
<1>3. Close(d) = {p}
  <2>1. IsFiniteSet(Close(d))
    BY <1>2, CatalogAssumption, FS_Subset
  <2>2. \E x : Close(d) = {x}
    BY <1>1, <2>1, FS_Singleton
  <2>3. QED
    BY <1>1, <2>2
<1>4. p \in Candidates(d) /\ q \in Candidates(d)
  BY <1>1, <1>2 DEF Candidates
<1>5. \A x \in Candidates(d) : Confidence(d, x) \in Nat /\ score(x) \in Nat
  BY <1>2, ConfidenceLemma, ScoreLemma
<1>6. PICK b \in Candidates(d) : \A x \in Candidates(d) : Confidence(d, x) <= Confidence(d, b)
  <2> DEFINE conf == [x \in Candidates(d) |-> Confidence(d, x)]
             S == {conf[x] : x \in DOMAIN conf}
  <2>1. IsFiniteSet(DOMAIN conf)
    BY <1>2, CatalogAssumption, FS_Subset
  <2>2. S \subseteq Nat /\ S # {}
    BY <1>4, <1>5
  <2>3. IsFiniteSet(S)
    <3> HIDE DEF conf
    <3>1. QED
      BY <2>1, ImageLemma
  <2>4. \E x \in S : \A y \in S : y <= x
    <3> HIDE DEF S
    <3>1. QED
      BY <2>2, <2>3, GreatestLemma
  <2>5. QED
    BY <2>4
<1>7. b = p
  <2>1. \A x \in Candidates(d) : Confidence(d, x) - Confidence(d, b) <= Margin
    BY <1>5, <1>6, ConfidenceAssumption
  <2>2. b \in Close(d)
    BY <2>1, CloseLemma
  <2>3. QED
    BY <1>3, <2>2
<1>8. ASSUME NEW x \in Candidates(d), x # p
      PROVE  Confidence(d, x) + Margin < Confidence(d, p)
  <2>1. x \notin Close(d)
    BY <1>3, <1>8
  <2>2. PICK y \in Candidates(d) : ~(Confidence(d, y) - Confidence(d, x) <= Margin)
    BY <2>1, CloseLemma
  <2>3. Confidence(d, y) <= Confidence(d, p)
    BY <1>6, <1>7
  <2>4. /\ Confidence(d, x) \in Nat /\ Confidence(d, y) \in Nat
        /\ Confidence(d, p) \in Nat /\ Margin \in Nat
    BY <1>4, <1>5, ConfidenceAssumption
  <2>5. QED
    BY <2>2, <2>3, <2>4
<1>9. ASSUME NEW x \in Candidates(d), x.source = p.source
      PROVE  x = p
  <2>1. Confidence(d, x) = Confidence(d, p)
    BY <1>9 DEF Confidence
  <2>2. Confidence(d, p) \in Nat /\ Margin \in Nat
    BY <1>4, <1>5, ConfidenceAssumption
  <2>3. QED
    BY <1>8, <2>1, <2>2
<1>10. Confidence(d, p) = score(p)
  BY <1>4, <1>9, ConfidenceLemma
<1>11. score(q) <= Confidence(d, q)
  BY <1>4, ConfidenceLemma
<1>12. q.source # p.source
  BY <1>4, <1>9
<1>13. Confidence(d, q) + Margin < score(p)
  BY <1>4, <1>8, <1>10
<1>14. score(q) \in Nat /\ score(p) \in Nat /\ Confidence(d, q) \in Nat /\ Margin \in Nat
  BY <1>4, <1>5, ConfidenceAssumption
<1>15. score(q) + Margin < score(p)
  <2> HIDE DEF score
  <2>1. QED
    BY <1>11, <1>13, <1>14
<1>16. QED
  BY <1>12, <1>15

-----------------------------------------------------------------------------
(***************************************************************************)
(* What is imported has the types of the tables.                           *)
(***************************************************************************)

\* A row that passes a list of checks passes each of them.
LEMMA FirstFailureLemma ==
  ASSUME NEW checks, NEW n \in Nat, DOMAIN checks = 1..n
  PROVE  FirstFailure(checks) = "" => \A k \in 1..n : checks[k] = ""
<1> DEFINE failed == {k \in DOMAIN checks : checks[k] # ""}
<1>1. \A k \in DOMAIN checks : k \in Nat
  OBVIOUS
<1>2. failed \subseteq Nat
  BY <1>1, Zenon
<1>3. ASSUME failed # {} PROVE Min(failed) \in failed
  <2> HIDE DEF failed
  <2>1. \E x : x \in failed /\ \A y \in failed : x <= y
    BY <1>2, <1>3, SmallestLemma
  <2>2. QED
    BY <2>1, Zenon DEF Min
<1>4. failed # {} => FirstFailure(checks) = checks[Min(failed)]
  BY Zenon DEF FirstFailure
<1>5. failed # {} => checks[Min(failed)] # ""
  BY <1>3
<1>6. failed = {} => \A k \in 1..n : checks[k] = ""
  OBVIOUS
<1>7. QED
  BY <1>4, <1>5, <1>6, Zenon

\* What is known of a gateway row without a problem.
LEMMA GatewayPasses ==
  ASSUME NEW v
  PROVE  FirstFailure(GatewayChecks(v)) = "" =>
         /\ v.event_type \cap GatewayTypes # {}
         /\ v.amount_minor # {} /\ v.amount_minor # {0}
         /\ v.currency \cap Currencies # {}
         /\ v.event_at # {}
<1> DEFINE c == GatewayChecks(v)
<1>1. DOMAIN c = 1..7
  BY DEF GatewayChecks, Check
<1>2. c[3] = "" /\ c[4] = "" /\ c[5] = "" /\ c[6] = "" /\ c[7] = "" =>
         /\ v.event_type \cap GatewayTypes # {}
         /\ v.amount_minor # {} /\ v.amount_minor # {0}
         /\ v.currency \cap Currencies # {}
         /\ v.event_at # {}
  BY DEF GatewayChecks, Check
<1> HIDE DEF c
<1>3. FirstFailure(c) = "" => \A k \in 1..7 : c[k] = ""
  BY <1>1, FirstFailureLemma
<1>4. 3 \in 1..7 /\ 4 \in 1..7 /\ 5 \in 1..7 /\ 6 \in 1..7 /\ 7 \in 1..7
  OBVIOUS
<1>5. QED
  BY <1>2, <1>3, <1>4, Zenon DEF c

\* The lists of checks are put together from parts.
LEMMA JoinedLemma ==
  ASSUME NEW a1, NEW a2, NEW a3, NEW a4, NEW b1, NEW b2, NEW b3, NEW e
  PROVE  /\ DOMAIN (<<a1, a2, a3>> \o <<b1, b2>> \o <<e>>) = 1..6
         /\ (<<a1, a2, a3>> \o <<b1, b2>> \o <<e>>)[2] = a2
         /\ (<<a1, a2, a3>> \o <<b1, b2>> \o <<e>>)[4] = b1
         /\ (<<a1, a2, a3>> \o <<b1, b2>> \o <<e>>)[5] = b2
         /\ (<<a1, a2, a3>> \o <<b1, b2>> \o <<e>>)[6] = e
         /\ DOMAIN (<<a1, a2, a3>> \o <<b1, b2, b3>> \o <<e>>) = 1..7
         /\ (<<a1, a2, a3>> \o <<b1, b2, b3>> \o <<e>>)[2] = a2
         /\ (<<a1, a2, a3>> \o <<b1, b2, b3>> \o <<e>>)[4] = b1
         /\ (<<a1, a2, a3>> \o <<b1, b2, b3>> \o <<e>>)[5] = b2
         /\ (<<a1, a2, a3>> \o <<b1, b2, b3>> \o <<e>>)[6] = b3
         /\ (<<a1, a2, a3>> \o <<b1, b2, b3>> \o <<e>>)[7] = e
         /\ DOMAIN (<<a1, a2, a3, a4>> \o <<b1, b2, b3>> \o <<e>>) = 1..8
         /\ (<<a1, a2, a3, a4>> \o <<b1, b2, b3>> \o <<e>>)[3] = a3
         /\ (<<a1, a2, a3, a4>> \o <<b1, b2, b3>> \o <<e>>)[5] = b1
         /\ (<<a1, a2, a3, a4>> \o <<b1, b2, b3>> \o <<e>>)[6] = b2
         /\ (<<a1, a2, a3, a4>> \o <<b1, b2, b3>> \o <<e>>)[7] = b3
         /\ (<<a1, a2, a3, a4>> \o <<b1, b2, b3>> \o <<e>>)[8] = e
OBVIOUS

\* A check that gives no code has not failed.
LEMMA CheckLemma ==
  ASSUME NEW code, code # "", NEW failed
  PROVE  Check(code, failed) = "" => ~failed
BY DEF Check

\* Two amounts, neither negative, exactly one of them positive.
SidesGiven(v) ==
  /\ v.debit_minor # {} /\ v.credit_minor # {}
  /\ ~Negative(v.debit_minor) /\ ~Negative(v.credit_minor)
  /\ ~(Positive(v.debit_minor) <=> Positive(v.credit_minor))

\* What is known of two sides that pass their checks.
LEMMA SidesPass ==
  ASSUME NEW v
  PROVE  /\ \E x, y, z :
              /\ SideChecks(v, "BANK_AMOUNT_NEGATIVE", "BANK_SIDES_INVALID") = <<x, y, z>>
              /\ x = "" /\ y = "" /\ z = "" => SidesGiven(v)
         /\ \E x, y, z :
              /\ SideChecks(v, "ERP_AMOUNT_NEGATIVE", "ERP_SIDES_INVALID") = <<x, y, z>>
              /\ x = "" /\ y = "" /\ z = "" => SidesGiven(v)
<1> DEFINE missing == v.debit_minor = {} \/ v.credit_minor = {}
           negative == Negative(v.debit_minor) \/ Negative(v.credit_minor)
           sides == Positive(v.debit_minor) <=> Positive(v.credit_minor)
<1>1. ~missing /\ ~negative /\ ~sides => SidesGiven(v)
  BY Zenon DEF SidesGiven
<1>2. Check("AMOUNT_MINOR_INVALID", missing) = "" => ~missing
  BY CheckLemma, Zenon
<1>3. /\ Check("BANK_AMOUNT_NEGATIVE", negative) = "" => ~negative
      /\ Check("ERP_AMOUNT_NEGATIVE", negative) = "" => ~negative
  BY CheckLemma, Zenon
<1>4. /\ Check("BANK_SIDES_INVALID", sides) = "" => ~sides
      /\ Check("ERP_SIDES_INVALID", sides) = "" => ~sides
  BY CheckLemma, Zenon
<1>5. \A x, y : SideChecks(v, x, y) =
         <<Check("AMOUNT_MINOR_INVALID", missing), Check(x, negative), Check(y, sides)>>
  BY Zenon DEF SideChecks
<1> HIDE DEF missing, negative, sides
<1> DEFINE m == Check("AMOUNT_MINOR_INVALID", missing)
<1>6. ASSUME NEW x, NEW y,
             Check(x, negative) = "" => ~negative,
             Check(y, sides) = "" => ~sides
      PROVE  \E a, b, c : /\ SideChecks(v, x, y) = <<a, b, c>>
                          /\ a = "" /\ b = "" /\ c = "" => SidesGiven(v)
  <2>1. m = "" /\ Check(x, negative) = "" /\ Check(y, sides) = "" => SidesGiven(v)
    BY <1>1, <1>2, <1>6, Zenon
  <2>2. SideChecks(v, x, y) = <<m, Check(x, negative), Check(y, sides)>>
    BY <1>5, Zenon
  <2> HIDE DEF m
  <2>3. QED
    BY <2>1, <2>2, Zenon
<1>7. QED
  BY <1>3, <1>4, <1>6, Zenon

\* What is known of a bank row without a problem: signed, or with its two sides.
LEMMA BankPasses ==
  ASSUME NEW v
  PROVE  /\ FirstFailure(BankChecks(v, TRUE)) = "" =>
              /\ v.value_date # {} /\ v.currency \cap Currencies # {}
              /\ v.signed_amount_minor # {} /\ v.signed_amount_minor # {0}
         /\ FirstFailure(BankChecks(v, FALSE)) = "" =>
              /\ v.value_date # {} /\ v.currency \cap Currencies # {}
              /\ SidesGiven(v)
<1> DEFINE c == BankChecks(v, TRUE)
           d == BankChecks(v, FALSE)
           a1 == Check("SOURCE_RECORD_ID_MISSING", v.source_record_id = {""})
           a2 == Check("VALUE_DATE_INVALID", v.value_date = {})
           a3 == Check("BOOKING_DATE_INVALID", v.booking_date = {})
           b1 == Check("SIGNED_AMOUNT_MINOR_INVALID", v.signed_amount_minor = {})
           b2 == Check("BANK_AMOUNT_ZERO", v.signed_amount_minor = {0})
           e == Check("CURRENCY_INVALID", v.currency \cap Currencies = {})
<1>1. c = <<a1, a2, a3>> \o <<b1, b2>> \o <<e>>
  BY Zenon DEF BankChecks
<1>2. PICK x, y, z :
        /\ SideChecks(v, "BANK_AMOUNT_NEGATIVE", "BANK_SIDES_INVALID") = <<x, y, z>>
        /\ x = "" /\ y = "" /\ z = "" => SidesGiven(v)
  BY SidesPass, Zenon
<1>3. d = <<a1, a2, a3>> \o <<x, y, z>> \o <<e>>
  BY <1>2, Zenon DEF BankChecks
<1>4. /\ a2 = "" /\ e = "" => v.value_date # {} /\ v.currency \cap Currencies # {}
      /\ b1 = "" /\ b2 = "" => v.signed_amount_minor # {} /\ v.signed_amount_minor # {0}
  BY DEF Check
<1> HIDE DEF c, d, a1, a2, a3, b1, b2, e
<1>5. DOMAIN c = 1..6 /\ c[2] = a2 /\ c[4] = b1 /\ c[5] = b2 /\ c[6] = e
  BY <1>1, JoinedLemma
<1>6. DOMAIN d = 1..7 /\ d[2] = a2 /\ d[4] = x /\ d[5] = y /\ d[6] = z /\ d[7] = e
  BY <1>3, JoinedLemma
<1>7. /\ FirstFailure(c) = "" => \A k \in 1..6 : c[k] = ""
      /\ FirstFailure(d) = "" => \A k \in 1..7 : d[k] = ""
  BY <1>5, <1>6, FirstFailureLemma
<1>8. /\ 2 \in 1..6 /\ 4 \in 1..6 /\ 5 \in 1..6 /\ 6 \in 1..6
      /\ 2 \in 1..7 /\ 4 \in 1..7 /\ 5 \in 1..7 /\ 6 \in 1..7 /\ 7 \in 1..7
  OBVIOUS
<1>9. QED
  BY <1>2, <1>4, <1>5, <1>6, <1>7, <1>8, Zenon DEF c, d

\* What is known of a journal line without a problem.
LEMMA ErpPasses ==
  ASSUME NEW v
  PROVE  FirstFailure(ErpChecks(v)) = "" =>
           v.posting_date # {} /\ v.currency \cap Currencies # {} /\ SidesGiven(v)
<1> DEFINE c == ErpChecks(v)
<1>1. PICK x, y, z :
        /\ SideChecks(v, "ERP_AMOUNT_NEGATIVE", "ERP_SIDES_INVALID") = <<x, y, z>>
        /\ x = "" /\ y = "" /\ z = "" => SidesGiven(v)
  BY SidesPass, Zenon
<1> DEFINE a1 == Check("JOURNAL_ID_MISSING", v.journal_id = {""})
           a2 == Check("LINE_NUMBER_INVALID", ~Positive(v.line_number))
           a3 == Check("POSTING_DATE_INVALID", v.posting_date = {})
           a4 == Check("ACCOUNT_CODE_MISSING", v.account_code = {""})
           e == Check("CURRENCY_INVALID", v.currency \cap Currencies = {})
<1>2. c = <<a1, a2, a3, a4>> \o <<x, y, z>> \o <<e>>
  BY <1>1, Zenon DEF ErpChecks
<1>3. a3 = "" /\ e = "" => v.posting_date # {} /\ v.currency \cap Currencies # {}
  BY DEF Check
<1> HIDE DEF c, a1, a2, a3, a4, e
<1>4. DOMAIN c = 1..8 /\ c[3] = a3 /\ c[5] = x /\ c[6] = y /\ c[7] = z /\ c[8] = e
  BY <1>2, JoinedLemma
<1>5. FirstFailure(c) = "" => \A k \in 1..8 : c[k] = ""
  BY <1>4, FirstFailureLemma
<1>6. 3 \in 1..8 /\ 5 \in 1..8 /\ 6 \in 1..8 /\ 7 \in 1..8 /\ 8 \in 1..8
  OBVIOUS
<1>7. QED
  BY <1>1, <1>3, <1>4, <1>5, <1>6, Zenon DEF c

\* A transform gives at most one value, a number unless it leaves the text as it is.
LEMMA TransformLemma ==
  ASSUME NEW transform \in Transforms, NEW text
  PROVE  /\ \A x, y \in Transformed(transform, text) : x = y
         /\ transform \notin {"strip", "upper"} => Transformed(transform, text) \subseteq Int
<1>1. CASE transform \in {"strip", "upper"}
  BY <1>1 DEF Transformed
<1>2. ASSUME NEW meaning, meaning \in [DOMAIN meaning -> Int]
      PROVE  /\ \A x, y \in Parsed(text, meaning) : x = y
             /\ Parsed(text, meaning) \subseteq Int
  BY <1>2 DEF Parsed
<1>3. CASE transform \notin {"strip", "upper"}
  <2>1. \E meaning \in {Integer, Paise, Day, Instant} :
          Transformed(transform, text) = Parsed(text, meaning)
    BY <1>3 DEF Transformed, Transforms
  <2>2. \A meaning \in {Integer, Paise, Day, Instant} : meaning \in [DOMAIN meaning -> Int]
    BY ReadingsAssumption
  <2>3. QED
    BY <1>2, <1>3, <2>1, <2>2
<1>4. QED
  BY <1>1, <1>3

\* A field has at most one value: what its transform makes of a cell.
LEMMA MappedLemma ==
  ASSUME NEW p \in Profiles, NEW d, NEW i, NEW name \in Fields
  PROVE  LET v == Mapped(d, i, p)[name] IN
         /\ \A x, y \in v : x = y
         /\ \A f \in p.fields : f.name = name /\ Column(f, Header(d)) # {} =>
              \E text : v = Transformed(f.transform, text)
<1> DEFINE text(f) == Cells(d, i)[CHOOSE k \in DOMAIN Header(d) :
                        Header(d)[k] = The(Column(f, Header(d)))]
           named == {f \in p.fields : f.name = name /\ Column(f, Header(d)) # {}}
           v == Mapped(d, i, p)[name]
<1>1. v = IF named = {} THEN {""} ELSE UNION {Transformed(f.transform, text(f)) : f \in named}
  BY DEF Mapped
<1>2. \A f \in p.fields : f.transform \in Transforms
  BY CatalogAssumption DEF ValidCatalog, ValidProfile, ValidField
<1>3. \A f, g \in named : f = g
  BY CatalogAssumption DEF ValidCatalog, ValidProfile
<1> HIDE DEF text
<1>4. ASSUME NEW f \in named PROVE v = Transformed(f.transform, text(f))
  <2> HIDE DEF v, named
  <2>1. named = {f}
    BY <1>3, <1>4
  <2>2. v = UNION {Transformed(g.transform, text(g)) : g \in {f}}
    BY <1>1, <2>1
  <2>3. QED
    BY <2>2
<1>5. CASE named = {}
  BY <1>1, <1>5
<1>6. CASE named # {}
  <2>1. PICK f \in named : TRUE
    BY <1>6
  <2>2. \A x, y \in Transformed(f.transform, text(f)) : x = y
    BY <1>2, TransformLemma
  <2> HIDE DEF v
  <2>3. \A x, y \in v : x = y
    BY <1>4, <2>2
  <2>4. \A g \in named : \E t : v = Transformed(g.transform, t)
    BY <1>4
  <2>5. QED
    BY <2>3, <2>4 DEF v
<1>7. QED
  BY <1>5, <1>6

\* The fields an adapter reads as amounts or dates.
Numbers(p) == AmountFields[p.source] \cup DateFields[p.source]

LEMMA NumbersDefined ==
  /\ \A p \in Profiles : Numbers(p) \subseteq Fields
  /\ \A p : p.source = "GATEWAY" => Numbers(p) = {"amount_minor", "event_at"}
  /\ \A p : p.source = "BANK" =>
       Numbers(p) = {"signed_amount_minor", "credit_minor", "debit_minor",
                     "value_date", "booking_date"}
  /\ \A p : p.source = "ERP" => Numbers(p) = {"credit_minor", "debit_minor", "posting_date"}
BY CatalogAssumption DEF ValidCatalog, Sources, Numbers, AmountFields, DateFields, Fields

\* The amounts and dates that have a column are numbers.
LEMMA NumberLemma ==
  ASSUME NEW p \in Profiles, NEW d, NEW i, NEW name \in Numbers(p),
         \E f \in p.fields : f.name = name /\ Column(f, Header(d)) # {}
  PROVE  Mapped(d, i, p)[name] \subseteq Int
<1>1. PICK f \in p.fields : f.name = name /\ Column(f, Header(d)) # {}
  OBVIOUS
<1>2. name \in Fields
  BY NumbersDefined
<1>3. PICK text : Mapped(d, i, p)[name] = Transformed(f.transform, text)
  BY <1>1, <1>2, MappedLemma
<1>4. f.transform \in Transforms /\ f.transform \notin {"strip", "upper"}
  BY <1>1, LayoutsAssumption DEF FitsAdapter, Numbers, Transforms
<1>5. QED
  BY <1>3, <1>4, TransformLemma

\* A field the layout requires has a column when the layout can be applied.
LEMMA RequiredLemma ==
  ASSUME NEW p \in Profiles, NEW d, NEW i, Readings(d, p),
         NEW name \in Numbers(p), Requires(p, name)
  PROVE  Mapped(d, i, p)[name] \subseteq Int
<1>1. \E f \in p.fields : f.name = name /\ Column(f, Header(d)) # {}
  BY DEF Requires, Readings, Missing
<1>2. QED
  BY <1>1, NumberLemma

\* A row that became an event had no problem.
LEMMA PassesLemma ==
  ASSUME NEW d, NEW p, Readings(d, p), NEW i \in Normalized(d, p)
  PROVE  Problem(d, i, p) = ""
<1> DEFINE f == [j \in Rows(d) |-> Problem(d, j, p)]
<1>1. i \in Rows(d)
  BY NormalizedLemma
<1>2. ASSUME Problem(d, i, p) # ""
      PROVE  \E code : Issue({RowNumber(d, i)}, code, TRUE) \in Report(d, p)
  <2>1. Table(f)[i] = f[i] /\ f[i] = Problem(d, i, p)
    BY <1>1 DEF Table
  <2>2. RowIssues(d, p) = {Issue({RowNumber(d, j)}, Table(f)[j], TRUE) :
                              j \in {k \in Rows(d) : Table(f)[k] # ""}}
    BY Zenon DEF RowIssues
  <2> HIDE DEF f
  <2>3. Issue({RowNumber(d, i)}, Table(f)[i], TRUE) \in RowIssues(d, p)
    BY <1>1, <1>2, <2>1, <2>2
  <2>4. FileIssues(d, p) = {}
    BY DEF Readings, FileIssues
  <2>5. RowIssues(d, p) \subseteq Report(d, p)
    BY <2>4, Zenon DEF Report
  <2>6. QED
    BY <2>3, <2>5
<1>3. ASSUME NEW code PROVE Issue({RowNumber(d, i)}, code, TRUE) \notin Report(d, p)
  <2>1. ~\E x \in Report(d, p) : x.blocking /\ x.row = {RowNumber(d, i)}
    BY <1>1, QuarantineLemma
  <2>2. QED
    BY <2>1 DEF Issue
<1>4. QED
  BY <1>2, <1>3

\* The only value of a field.
LEMMA TheLemma ==
  ASSUME NEW v, v # {}, \A x, y \in v : x = y
  PROVE  The(v) \in v /\ v = {The(v)}
<1>1. The(v) \in v
  BY DEF The
<1>2. QED
  BY <1>1

\* Of two sides, what the row credits is not zero.
LEMMA SidesLemma ==
  ASSUME NEW v, v.debit_minor \subseteq Int, v.credit_minor \subseteq Int,
         \A x, y \in v.debit_minor : x = y, \A x, y \in v.credit_minor : x = y,
         SidesGiven(v)
  PROVE  /\ The(v.credit_minor) - The(v.debit_minor) \in Int
         /\ The(v.credit_minor) - The(v.debit_minor) # 0
<1> DEFINE a == The(v.debit_minor)
           b == The(v.credit_minor)
<1>1. v.debit_minor = {a} /\ v.credit_minor = {b}
  BY TheLemma DEF SidesGiven
<1>2. a \in Int /\ b \in Int
  BY <1>1
<1> HIDE DEF a, b
<1>3. ~(a < 0) /\ ~(b < 0) /\ ~(a > 0 <=> b > 0)
  BY <1>1 DEF SidesGiven, Negative, Positive
<1>4. QED
  BY <1>2, <1>3 DEF a, b

\* Each of the fields an event is made of has at most one value.
LEMMA FieldsLemma ==
  ASSUME NEW p \in Profiles, NEW d, NEW i
  PROVE  LET v == Mapped(d, i, p) IN
         /\ \A x, y \in v.event_type : x = y
         /\ \A x, y \in v.amount_minor : x = y
         /\ \A x, y \in v.signed_amount_minor : x = y
         /\ \A x, y \in v.debit_minor : x = y
         /\ \A x, y \in v.credit_minor : x = y
         /\ \A x, y \in v.currency : x = y
         /\ \A x, y \in v.event_at : x = y
         /\ \A x, y \in v.value_date : x = y
         /\ \A x, y \in v.posting_date : x = y
<1>1. \A name \in Fields : \A x, y \in Mapped(d, i, p)[name] : x = y
  BY MappedLemma
<1>2. {"event_type", "amount_minor", "signed_amount_minor", "debit_minor", "credit_minor",
       "currency", "event_at", "value_date", "posting_date"} \subseteq Fields
  BY DEF Fields
<1>3. QED
  BY <1>1, <1>2

\* What the adapters assert of a row before they build its event.
WellTyped(d, i, p) ==
  /\ Credit(d, i, p) \in Int /\ Credit(d, i, p) # 0
  /\ EventType(d, i, p) \in EventTypes
  /\ p.source = "GATEWAY" => EventType(d, i, p) \in GatewayTypes
  /\ The(Mapped(d, i, p)["currency"]) \in Currencies
  /\ EventDay(d, i, p) \in Int

\* A row whose currency is known is in that currency.
LEMMA CurrencyLemma ==
  ASSUME NEW p \in Profiles, NEW d, NEW i,
         Mapped(d, i, p).currency \cap Currencies # {}
  PROVE  The(Mapped(d, i, p)["currency"]) \in Currencies
<1> DEFINE v == Mapped(d, i, p).currency
<1>1. \A x, y \in v : x = y
  BY FieldsLemma
<1> HIDE DEF v
<1>2. v \cap Currencies # {}
  BY DEF v
<1>3. The(v) \in Currencies
  BY <1>1, <1>2, TheLemma
<1>4. QED
  BY <1>3 DEF v

\* The three adapters: the checks of a row and the layouts they accept are enough for
\* what they assert.
LEMMA GatewayLemma ==
  ASSUME NEW p \in Profiles, p.source = "GATEWAY", NEW d, Readings(d, p),
         NEW i \in Normalized(d, p)
  PROVE  WellTyped(d, i, p)
<1> DEFINE v == Mapped(d, i, p)
<1>1. Problem(d, i, p) = FirstFailure(GatewayChecks(v))
  BY DEF Problem
<1>2. /\ v.event_type \cap GatewayTypes # {}
      /\ v.amount_minor # {} /\ v.amount_minor # {0}
      /\ v.currency \cap Currencies # {} /\ v.event_at # {}
  BY <1>1, PassesLemma, GatewayPasses, Zenon
<1>3. v["amount_minor"] \subseteq Int /\ v["event_at"] \subseteq Int
  <2>1. Requires(p, "amount_minor") /\ Requires(p, "event_at")
    BY LayoutsAssumption DEF FitsAdapter, AmountFields, DateFields
  <2>2. {"amount_minor", "event_at"} \subseteq Numbers(p)
    BY NumbersDefined
  <2>3. QED
    BY <2>1, <2>2, RequiredLemma
<1>4. /\ \A x, y \in v.event_type : x = y
      /\ \A x, y \in v.amount_minor : x = y
      /\ \A x, y \in v.event_at : x = y
  BY FieldsLemma
<1>5. The(v["currency"]) \in Currencies
  BY <1>2, CurrencyLemma
<1>6. EventType(d, i, p) = The(v["event_type"]) /\ EventDay(d, i, p) = The(v["event_at"])
  BY DEF EventType, EventDay
<1>7. Credit(d, i, p) = IF The(v.event_type) \in {"PAYMENT", "SETTLEMENT"}
                          THEN The(v.amount_minor) ELSE -The(v.amount_minor)
  BY DEF Credit
<1> HIDE DEF v
<1>8. The(v.event_type) \in GatewayTypes
  <2> DEFINE t == v.event_type
  <2> HIDE DEF t
  <2>1. t \cap GatewayTypes # {} /\ \A x, y \in t : x = y
    BY <1>2, <1>4 DEF t
  <2>2. The(t) \in GatewayTypes
    BY <2>1, TheLemma
  <2>3. QED
    BY <2>2 DEF t
<1>9. The(v.amount_minor) \in Int /\ The(v.amount_minor) # 0
  BY <1>2, <1>3, <1>4, TheLemma
<1>10. The(v.event_at) \in Int
  BY <1>2, <1>3, <1>4, TheLemma
<1>11. Credit(d, i, p) \in Int /\ Credit(d, i, p) # 0
  BY <1>7, <1>9
<1>12. The(v.event_type) \in EventTypes
  BY <1>8 DEF EventTypes
<1>13. QED
  BY <1>5, <1>6, <1>8, <1>10, <1>11, <1>12 DEF WellTyped, v

LEMMA BankLemma ==
  ASSUME NEW p \in Profiles, p.source = "BANK", NEW d, Readings(d, p),
         NEW i \in Normalized(d, p)
  PROVE  WellTyped(d, i, p)
<1> DEFINE v == Mapped(d, i, p)
<1>1. Problem(d, i, p) = FirstFailure(BankChecks(v, Signed(d, p)))
  BY DEF Problem
<1>2. /\ Signed(d, p) => Signed(d, p) = TRUE
      /\ ~Signed(d, p) => Signed(d, p) = FALSE
  BY DEF Signed
<1>3. /\ v.value_date # {} /\ v.currency \cap Currencies # {}
      /\ Signed(d, p) => v.signed_amount_minor # {} /\ v.signed_amount_minor # {0}
      /\ ~Signed(d, p) => SidesGiven(v)
  <2>1. FirstFailure(BankChecks(v, Signed(d, p))) = ""
    BY <1>1, PassesLemma, Zenon
  <2>2. CASE Signed(d, p)
    <3>1. BankChecks(v, Signed(d, p)) = BankChecks(v, TRUE)
      BY <1>2, <2>2, Zenon
    <3>2. QED
      BY <2>1, <2>2, <3>1, BankPasses, Zenon
  <2>3. CASE ~Signed(d, p)
    <3>1. BankChecks(v, Signed(d, p)) = BankChecks(v, FALSE)
      BY <1>2, <2>3, Zenon
    <3>2. QED
      BY <2>1, <2>3, <3>1, BankPasses, Zenon
  <2>4. QED
    BY <2>2, <2>3, Zenon
<1>4. /\ \A x, y \in v.value_date : x = y
      /\ \A x, y \in v.signed_amount_minor : x = y
      /\ \A x, y \in v.debit_minor : x = y
      /\ \A x, y \in v.credit_minor : x = y
  BY FieldsLemma
<1>5. {"value_date", "signed_amount_minor", "debit_minor", "credit_minor"}
        \subseteq Numbers(p)
  BY NumbersDefined
<1>6. v["value_date"] \subseteq Int
  <2>1. Requires(p, "value_date")
    BY LayoutsAssumption DEF FitsAdapter, DateFields
  <2>2. QED
    BY <1>5, <2>1, RequiredLemma
<1>7. ASSUME Signed(d, p)
      PROVE  v["signed_amount_minor"] \subseteq Int
  BY <1>5, <1>7, NumberLemma DEF Signed
<1>8. ASSUME ~Signed(d, p)
      PROVE  v["debit_minor"] \subseteq Int /\ v["credit_minor"] \subseteq Int
  <2>1. ~Requires(p, "signed_amount_minor")
    BY <1>8 DEF Signed, Requires, Readings, Missing
  <2>2. Requires(p, "debit_minor") /\ Requires(p, "credit_minor")
    BY <2>1, LayoutsAssumption DEF FitsAdapter, AmountFields
  <2>3. QED
    BY <1>5, <2>2, RequiredLemma
<1>9. The(v["currency"]) \in Currencies
  BY <1>3, CurrencyLemma
<1>10. EventType(d, i, p) \in EventTypes
  BY DEF EventType, EventTypes
<1>11. EventDay(d, i, p) = The(v["value_date"])
  BY DEF EventDay
<1>12. Credit(d, i, p) = IF Signed(d, p) THEN The(v.signed_amount_minor)
                         ELSE The(v.credit_minor) - The(v.debit_minor)
  BY DEF Credit
<1> HIDE DEF v
<1>13. The(v.value_date) \in Int
  BY <1>3, <1>4, <1>6, TheLemma
<1>14. CASE Signed(d, p)
  <2>1. The(v.signed_amount_minor) \in Int /\ The(v.signed_amount_minor) # 0
    BY <1>3, <1>4, <1>7, <1>14, TheLemma
  <2>2. QED
    BY <1>9, <1>10, <1>11, <1>12, <1>13, <1>14, <2>1 DEF WellTyped, v
<1>15. CASE ~Signed(d, p)
  <2>1. /\ The(v.credit_minor) - The(v.debit_minor) \in Int
        /\ The(v.credit_minor) - The(v.debit_minor) # 0
    BY <1>3, <1>4, <1>8, <1>15, SidesLemma
  <2>2. QED
    BY <1>9, <1>10, <1>11, <1>12, <1>13, <1>15, <2>1 DEF WellTyped, v
<1>16. QED
  BY <1>14, <1>15

LEMMA ErpLemma ==
  ASSUME NEW p \in Profiles, p.source = "ERP", NEW d, Readings(d, p),
         NEW i \in Normalized(d, p)
  PROVE  WellTyped(d, i, p)
<1> DEFINE v == Mapped(d, i, p)
<1>1. Problem(d, i, p) = FirstFailure(ErpChecks(v))
  BY DEF Problem
<1>2. v.posting_date # {} /\ v.currency \cap Currencies # {} /\ SidesGiven(v)
  BY <1>1, PassesLemma, ErpPasses, Zenon
<1>3. /\ v["posting_date"] \subseteq Int
      /\ v["debit_minor"] \subseteq Int /\ v["credit_minor"] \subseteq Int
  <2>1. Requires(p, "posting_date") /\ Requires(p, "debit_minor") /\ Requires(p, "credit_minor")
    BY LayoutsAssumption DEF FitsAdapter, AmountFields, DateFields
  <2>2. {"posting_date", "debit_minor", "credit_minor"} \subseteq Numbers(p)
    BY NumbersDefined
  <2>3. QED
    BY <2>1, <2>2, RequiredLemma
<1>4. /\ \A x, y \in v.posting_date : x = y
      /\ \A x, y \in v.debit_minor : x = y
      /\ \A x, y \in v.credit_minor : x = y
  BY FieldsLemma
<1>5. The(v["currency"]) \in Currencies
  BY <1>2, CurrencyLemma
<1>6. EventType(d, i, p) \in EventTypes /\ EventDay(d, i, p) = The(v["posting_date"])
  BY DEF EventType, EventDay, EventTypes
<1>7. Credit(d, i, p) = The(v.credit_minor) - The(v.debit_minor)
  BY DEF Credit
<1> HIDE DEF v
<1>8. The(v.posting_date) \in Int
  BY <1>2, <1>3, <1>4, TheLemma
<1>9. Credit(d, i, p) \in Int /\ Credit(d, i, p) # 0
  BY <1>2, <1>3, <1>4, <1>7, SidesLemma
<1>10. QED
  BY <1>5, <1>6, <1>8, <1>9 DEF WellTyped, v

\* A row that is normalised has a place in its file, counted from one.
LEMMA RowNumberLemma ==
  ASSUME NEW x \in Imports, NEW i \in Normalized(x.doc, x.profile)
  PROVE  RowNumber(x.doc, i) \in Nat \ {0}
<1> DEFINE d == x.doc
<1>1. i \in Rows(d) /\ CanNormalize(Report(d, x.profile))
  BY NormalizedLemma DEF Normalized
<1>2. ~(RowNumber(d, i) < 1)
  BY <1>1, ImportLemma DEF NormalizationRaises
<1>3. RowNumber(d, i) \in Int
  <2>1. d \in Docs
    BY ImportLemma
  <2>2. /\ d.lines \in Seq(Range(d.lines))
        /\ \A k \in DOMAIN d.lines : d.lines[k].number \subseteq Int
    BY <2>1, RequestsAssumption DEF Docs
  <2>3. i \in Int /\ i \in DOMAIN d.lines
    BY <1>1, <2>2 DEF Rows
  <2>4. d.lines[i].number # {} => (CHOOSE n \in d.lines[i].number : TRUE) \in Int
    BY <2>2, <2>3
  <2>5. QED
    BY <2>3, <2>4 DEF RowNumber
<1>4. QED
  BY <1>2, <1>3

\* The event of any row that is normalised is well typed.
LEMMA EventTypeLemma ==
  ASSUME NEW x \in Imports, NEW e \in x.events
  PROVE  /\ e.source \in Sources /\ e.type \in EventTypes /\ e.currency \in Currencies
         /\ e.amount \in Nat \ {0} /\ e.direction \in {"DEBIT", "CREDIT"}
         /\ e.day \in Int /\ e.row \in Nat \ {0}
         /\ e.source = "GATEWAY" => e.type \in GatewayTypes
<1> DEFINE d == x.doc
           p == x.profile
<1>1. PICK i \in Normalized(d, p) : e = Event(d, i, p)
  BY EventLemma
<1>2. p \in Profiles /\ p.source \in Sources
  BY ImportLemma, CatalogAssumption DEF ValidCatalog
<1>3. Readings(d, p)
  BY <1>1, UnreadLemma
<1>4. WellTyped(d, i, p)
  BY <1>2, <1>3, GatewayLemma, BankLemma, ErpLemma DEF Sources
<1>5. RowNumber(d, i) \in Nat \ {0}
  BY RowNumberLemma
<1>6. /\ e.source = p.source /\ e.type = EventType(d, i, p)
      /\ e.amount = Abs(Credit(d, i, p)) /\ e.direction = Direction(d, i, p)
      /\ e.currency = The(Mapped(d, i, p)["currency"])
      /\ e.day = EventDay(d, i, p) /\ e.row = RowNumber(d, i)
  BY <1>1 DEF Event
<1>7. Direction(d, i, p) \in {"DEBIT", "CREDIT"}
  BY DEF Direction
<1>8. Abs(Credit(d, i, p)) \in Nat \ {0}
  BY <1>4 DEF Abs, WellTyped
<1>9. QED
  BY <1>2, <1>4, <1>5, <1>6, <1>7, <1>8 DEF WellTyped

-----------------------------------------------------------------------------
(***************************************************************************)
(* Every run is made of a batch.                                           *)
(***************************************************************************)
LEMMA InitLemma == Init => IInv
BY DEF Init, IInv, NoRequest, DistinctUploads

LEMMA UploadLemma ==
  ASSUME IInv, NEW r \in RunIds, NEW q \in Requests, Upload(r, q)
  PROVE  IInv'
<1>1. /\ request'.docs = q.docs /\ DistinctUploads(q.docs)
      /\ runs' = runs /\ prepared' = prepared /\ request = NoRequest
  BY DEF Upload, Serving
<1>2. request'.docs \in Seq(Docs)
  <2>1. q.docs \in Seq(Range(q.docs))
    BY RequestsAssumption
  <2>2. Range(q.docs) \subseteq Docs
    BY DEF Range, Docs
  <2>3. QED
    BY <1>1, <2>1, <2>2
<1>3. DOMAIN prepared = {}
  <2>1. \A i \in DOMAIN prepared : i \in DOMAIN << >>
    BY <1>1 DEF IInv, NoRequest
  <2>2. QED
    BY <2>1
<1>4. QED
  BY <1>1, <1>2, <1>3 DEF IInv

LEMMA PrepareLemma ==
  ASSUME IInv, NEW i \in Remaining, i = Len(prepared) + 1, Prepare(i)
  PROVE  IInv'
<1> DEFINE doc == request.docs[i]
           confirmations == {c \in request.confirmations : c.file = doc.file}
<1>1. PICK profile \in Selected(doc, confirmations) :
        /\ ~NormalizationRaises(doc, profile)
        /\ prepared' = Append(prepared, Prepared(doc, profile, confirmations # {}))
        /\ runs' = runs /\ request' = request
  BY DEF Prepare
<1> DEFINE x == Prepared(doc, profile, confirmations # {})
<1>2. i \in DOMAIN request.docs /\ doc \in Docs
  BY DEF Remaining, IInv
<1>3. profile \in Profiles
  BY CloseLemma DEF Selected, Candidates
<1>4. x.doc = doc /\ x.profile = profile /\ x.confirmed = (confirmations # {})
  BY DEF Prepared
<1>5. confirmations = {} => profile \in Selected(doc, {})
  BY <1>1
<1>6. x \in Imports
  <2>1. x \in {Prepared(d, p, c) : d \in Docs, p \in Profiles, c \in BOOLEAN}
    <3>1. ASSUME NEW d \in Docs, NEW p \in Profiles, NEW c \in BOOLEAN
          PROVE  Prepared(d, p, c) \in
                   {Prepared(e, q, b) : e \in Docs, q \in Profiles, b \in BOOLEAN}
      OBVIOUS
    <3> DEFINE asked == confirmations # {}
    <3>2. asked \in BOOLEAN
      OBVIOUS
    <3> HIDE DEF doc, confirmations, asked
    <3>3. Prepared(doc, profile, asked) \in
            {Prepared(e, q, b) : e \in Docs, q \in Profiles, b \in BOOLEAN}
      BY <1>2, <1>3, <3>1, <3>2
    <3>4. QED
      BY <3>3 DEF asked
  <2>2. ~NormalizationRaises(x.doc, x.profile)
    BY <1>1, <1>4
  <2>3. ~x.confirmed => x.profile \in Selected(x.doc, {})
    BY <1>4, <1>5
  <2> HIDE DEF x
  <2>4. QED
    BY <2>1, <2>2, <2>3 DEF Imports
<1> HIDE DEF x
<1>7. prepared' \in Seq(Imports)
  BY <1>1, <1>6 DEF IInv, x
<1>8. \A j \in DOMAIN prepared' : j \in DOMAIN request'.docs /\ prepared'[j].doc = request'.docs[j]
  <2>1. /\ prepared \in Seq(Imports) /\ prepared' = Append(prepared, x)
        /\ \A j \in DOMAIN prepared : j \in DOMAIN request.docs /\ prepared[j].doc = request.docs[j]
    BY <1>1 DEF IInv, x
  <2>2. ASSUME NEW j \in DOMAIN prepared'
        PROVE  \/ j \in DOMAIN prepared /\ prepared'[j] = prepared[j]
               \/ j = i /\ prepared'[j] = x
    BY <1>6, <2>1
  <2>3. QED
    BY <1>1, <1>2, <1>4, <2>1, <2>2
<1>9. QED
  BY <1>1, <1>7, <1>8 DEF IInv

LEMMA DropLemma ==
  ASSUME IInv, Drop
  PROVE  IInv'
<1>1. request' = NoRequest /\ prepared' = << >> /\ runs' = runs
  BY DEF Drop
<1>2. request'.docs = << >>
  BY <1>1 DEF NoRequest
<1>3. DistinctUploads(request'.docs)
  BY <1>2 DEF DistinctUploads
<1>4. QED
  BY <1>1, <1>2, <1>3 DEF IInv

LEMMA CommitLemma ==
  ASSUME IInv, Commit
  PROVE  IInv'
<1>1. /\ request' = NoRequest /\ prepared' = << >> /\ ~RepeatsARecord(prepared)
      /\ runs' = [r \in DOMAIN runs \cup {request.run} |->
                    IF r = request.run THEN Committed(prepared) ELSE runs[r]]
  BY DEF Commit
<1>2. Batch(prepared)
  BY <1>1 DEF IInv, Batch, DistinctUploads
<1>3. \A r \in DOMAIN runs' : \E files : Batch(files) /\ runs'[r] = Committed(files)
  BY <1>1, <1>2 DEF IInv
<1>4. request'.docs = << >>
  BY <1>1 DEF NoRequest
<1>5. DistinctUploads(request'.docs)
  BY <1>4 DEF DistinctUploads
<1>6. prepared' = << >> /\ prepared' \in Seq(Imports)
  BY <1>1
<1>7. QED
  BY <1>3, <1>4, <1>5, <1>6 DEF IInv

\* Every run is what Committed makes of a batch that was routed, normalised and told
\* apart (import_batch and its unit of work).
THEOREM InductiveInvariant == Spec => []IInv
<1>1. Init => IInv
  BY InitLemma
<1>2. IInv /\ [Next]_vars => IInv'
  <2> SUFFICES ASSUME IInv, [Next]_vars PROVE IInv'
    OBVIOUS
  <2>1. CASE \E r \in RunIds, q \in Requests : Upload(r, q)
    BY <2>1, UploadLemma
  <2>2. CASE \E i \in Remaining : i = Len(prepared) + 1 /\ Prepare(i)
    BY <2>2, PrepareLemma
  <2>3. CASE \E i \in Remaining : i = Len(prepared) + 1 /\ Refuse(i)
    BY <2>3, DropLemma DEF Refuse
  <2>4. CASE Commit
    BY <2>4, CommitLemma
  <2>5. CASE RefuseCommit
    BY <2>5, DropLemma DEF RefuseCommit
  <2>6. CASE UNCHANGED vars
    BY <2>6 DEF IInv, vars
  <2>7. QED
    BY <2>1, <2>2, <2>3, <2>4, <2>5, <2>6 DEF Next
<1>3. QED
  BY <1>1, <1>2, PTL DEF Spec

\* What a batch has stored, and what it works on: the files of a run are in the store,
\* and the request being served is one for a run that is not there yet.
Custody ==
  /\ DOMAIN runs \subseteq RunIds
  /\ \A r \in DOMAIN runs : \A f \in runs[r].files : <<r, f.doc.file>> \in disk
  /\ Len(prepared) <= Len(request.docs)
  /\ \A i \in DOMAIN prepared : <<request.run, request.docs[i].file>> \in disk
  /\ Serving => request.run \in RunIds \ DOMAIN runs
  /\ served \in 0..MaxRequests

LEMMA CustodyInit == Init => Custody
<1> SUFFICES ASSUME Init PROVE Custody
  OBVIOUS
<1>1. /\ DOMAIN runs = {} /\ prepared = << >> /\ request = NoRequest /\ served = 0
      /\ request.docs = << >>
  BY DEF Init, NoRequest
<1>2. MaxRequests \in Nat
  BY RequestsAssumption
<1>3. QED
  BY <1>1, <1>2 DEF Custody, Serving

LEMMA CustodyUpload ==
  ASSUME IInv, Custody, NEW r \in RunIds, NEW q \in Requests, Upload(r, q)
  PROVE  Custody'
<1>1. /\ request'.run = r /\ request'.docs = q.docs /\ r \notin DOMAIN runs
      /\ runs' = runs /\ prepared' = prepared /\ disk' = disk
      /\ request = NoRequest /\ served < MaxRequests /\ served' = served + 1
  BY DEF Upload, Serving
<1>2. prepared \in Seq(Imports) /\ Len(prepared) = 0 /\ DOMAIN prepared = {}
  BY <1>1 DEF IInv, Custody, NoRequest
<1>3. Len(q.docs) \in Nat
  BY RequestsAssumption
<1>4. served' \in 0..MaxRequests
  BY <1>1, RequestsAssumption DEF Custody
<1>5. QED
  BY <1>1, <1>2, <1>3, <1>4 DEF Custody

LEMMA CustodyPrepare ==
  ASSUME IInv, Custody, NEW i \in Remaining, i = Len(prepared) + 1, Prepare(i)
  PROVE  Custody'
<1>1. PICK x : /\ prepared' = Append(prepared, x)
               /\ disk' = disk \cup {<<request.run, request.docs[i].file>>}
               /\ runs' = runs /\ request' = request /\ served' = served
  BY DEF Prepare
<1>2. /\ prepared \in Seq(Imports) /\ Len(prepared) \in Nat
      /\ DOMAIN prepared = 1..Len(prepared)
      /\ request.docs \in Seq(Docs) /\ i \in 1..Len(request.docs)
  BY DEF IInv, Remaining
<1>3. Len(prepared') = i /\ DOMAIN prepared' = 1..i
  BY <1>1, <1>2
<1>4. \A j \in DOMAIN prepared' : j \in DOMAIN prepared \/ j = i
  BY <1>2, <1>3
<1>5. \A j \in DOMAIN prepared' : <<request'.run, request'.docs[j].file>> \in disk'
  BY <1>1, <1>4 DEF Custody
<1>6. Len(prepared') <= Len(request'.docs)
  BY <1>1, <1>2, <1>3
<1>7. QED
  BY <1>1, <1>5, <1>6 DEF Custody, Serving

LEMMA CustodyDrop ==
  ASSUME Custody, Drop
  PROVE  Custody'
<1>1. /\ request' = NoRequest /\ prepared' = << >>
      /\ runs' = runs /\ disk' = disk /\ served' = served
  BY DEF Drop
<1>2. request'.docs = << >>
  BY <1>1 DEF NoRequest
<1>3. QED
  BY <1>1, <1>2 DEF Custody, Serving

LEMMA CustodyCommit ==
  ASSUME IInv, Custody, Commit
  PROVE  Custody'
<1>1. /\ request' = NoRequest /\ prepared' = << >> /\ disk' = disk /\ served' = served
      /\ runs' = [r \in DOMAIN runs \cup {request.run} |->
                    IF r = request.run THEN Committed(prepared) ELSE runs[r]]
      /\ Batch(prepared) /\ request.run \in RunIds
  BY DEF Commit, IInv, Batch, DistinctUploads, Custody
<1>2. request'.docs = << >> /\ ~Serving'
  BY <1>1 DEF NoRequest, Serving
<1>3. DOMAIN runs' \subseteq RunIds
  BY <1>1 DEF Custody
<1>4. ASSUME NEW f \in Committed(prepared).files
      PROVE  <<request.run, f.doc.file>> \in disk
  <2>1. PICK k \in DOMAIN prepared : f.doc = prepared[k].doc
    BY <1>1, FileLemma DEF Committed
  <2>2. prepared[k].doc = request.docs[k]
    BY DEF IInv
  <2>3. QED
    BY <2>1, <2>2 DEF Custody
<1>5. \A r \in DOMAIN runs' : \A f \in runs'[r].files : <<r, f.doc.file>> \in disk'
  BY <1>1, <1>4 DEF Custody
<1>6. /\ Len(prepared') <= Len(request'.docs)
      /\ \A i \in DOMAIN prepared' : <<request'.run, request'.docs[i].file>> \in disk'
  <2>1. prepared' = << >> /\ request'.docs = << >>
    BY <1>1, <1>2
  <2>2. QED
    BY <2>1
<1>7. served' \in 0..MaxRequests
  BY <1>1 DEF Custody
<1>8. QED
  BY <1>2, <1>3, <1>5, <1>6, <1>7 DEF Custody

\* The files of what is committed and of what is prepared are in the store
\* (LocalFileStore.store comes before the unit of work), and only a request for a run
\* that is not there yet is served.
THEOREM CustodyInvariant == Spec => []Custody
<1>1. Init => Custody
  BY CustodyInit
<1>2. IInv /\ Custody /\ [Next]_vars => Custody'
  <2> SUFFICES ASSUME IInv, Custody, [Next]_vars PROVE Custody'
    OBVIOUS
  <2>1. CASE \E r \in RunIds, q \in Requests : Upload(r, q)
    BY <2>1, CustodyUpload
  <2>2. CASE \E i \in Remaining : i = Len(prepared) + 1 /\ Prepare(i)
    BY <2>2, CustodyPrepare
  <2>3. CASE \E i \in Remaining : i = Len(prepared) + 1 /\ Refuse(i)
    BY <2>3, CustodyDrop DEF Refuse
  <2>4. CASE Commit
    BY <2>4, CustodyCommit
  <2>5. CASE RefuseCommit
    BY <2>5, CustodyDrop DEF RefuseCommit
  <2>6. CASE UNCHANGED vars
    BY <2>6 DEF Custody, Serving, vars
  <2>7. QED
    BY <2>1, <2>2, <2>3, <2>4, <2>5, <2>6 DEF Next
<1>3. QED
  BY <1>1, <1>2, InductiveInvariant, PTL DEF Spec

\* Whatever the cells of the files hold, an event that was imported has a known type
\* and currency, a day, and a positive amount (_parse_row and _build_event of the
\* adapters, and what they assert of a layout); its file is in the store.
THEOREM TypeCorrect == Spec => []TypeOK
<1>1. IInv /\ Custody => TypeOK
  <2> SUFFICES ASSUME IInv, Custody PROVE TypeOK
    OBVIOUS
  <2>1. ASSUME NEW r \in DOMAIN runs
        PROVE  /\ runs[r].state \in {"VALIDATED", "FAILED_VALIDATION"}
               /\ \A f \in runs[r].files : f.profile \in Profiles
               /\ \A e \in runs[r].events :
                    /\ e.source \in Sources /\ e.type \in EventTypes
                    /\ e.currency \in Currencies
                    /\ e.amount \in Nat \ {0} /\ e.direction \in {"DEBIT", "CREDIT"}
                    /\ e.day \in Int /\ e.row \in Nat \ {0}
    <3>1. PICK files : Batch(files) /\ runs[r] = Committed(files)
      BY DEF IInv
    <3>2. /\ runs[r].state = FinalState(files) /\ runs[r].files = SourceFiles(files)
          /\ runs[r].events = AllEvents(files)
      BY <3>1 DEF Committed
    <3>3. FinalState(files) \in {"VALIDATED", "FAILED_VALIDATION"}
      BY DEF FinalState
    <3>4. ASSUME NEW f \in SourceFiles(files)
          PROVE  f.profile \in Profiles
      BY <3>1, FileLemma, ImportLemma
    <3>5. ASSUME NEW e \in AllEvents(files)
          PROVE  \E k \in DOMAIN files : files[k] \in Imports /\ e \in files[k].events
      BY <3>1, FileLemma DEF AllEvents
    <3>6. QED
      BY <3>2, <3>3, <3>4, <3>5, EventTypeLemma
  <2>2. \A i \in DOMAIN prepared : prepared[i].doc = request.docs[i]
    BY DEF IInv
  <2>3. QED
    BY <2>1, <2>2 DEF TypeOK, Custody
<1>2. QED
  BY <1>1, InductiveInvariant, CustodyInvariant, PTL

\* A row of an imported file is one event, of a record of its own, or quarantined
\* with a reason (TabularSourceAdapter.normalize, NormalizationResult, the tables).
THEOREM RowsAreAccountedFor == Spec => []EveryRowIsAccountedFor
<1>1. IInv => EveryRowIsAccountedFor
  <2> SUFFICES ASSUME IInv, NEW r \in DOMAIN runs
               PROVE  LET run == runs[r] IN
                      /\ \A f \in run.files :
                           IF Interpretable(f)
                             THEN \A i \in Rows(f.doc) : RowIsAccountedFor(run, f, i)
                             ELSE /\ Cardinality(BlockersOf(run, f, {})) = 1
                                  /\ \A e \in run.events : e.file # f.doc.file
                      /\ \A e \in run.events : \E f \in run.files :
                           \E i \in Rows(f.doc) : e \in EventsOf(run, f, i)
                      /\ \A e, g \in run.events :
                           e.source = g.source /\ e.record = g.record => e = g
    BY DEF EveryRowIsAccountedFor
  <2>1. PICK files : Batch(files) /\ runs[r] = Committed(files)
    BY DEF IInv
  <2> DEFINE run == runs[r]
  <2>2. run.files = SourceFiles(files) /\ run.events = AllEvents(files)
    BY <2>1 DEF Committed
  <2>3. ASSUME NEW f \in run.files
        PROVE  IF Interpretable(f)
                 THEN \A i \in Rows(f.doc) : RowIsAccountedFor(run, f, i)
                 ELSE /\ Cardinality(BlockersOf(run, f, {})) = 1
                      /\ \A e \in run.events : e.file # f.doc.file
    <3>1. PICK k \in DOMAIN files : f.doc = files[k].doc /\ f.profile = files[k].profile
      BY <2>1, <2>2, FileLemma
    <3>2. CASE Interpretable(f)
      BY <2>1, <3>1, <3>2, RowLemma
    <3>3. CASE ~Interpretable(f)
      BY <2>1, <3>1, <3>3, UnreadFileLemma
    <3>4. QED
      BY <3>2, <3>3
  <2>4. ASSUME NEW e \in run.events
        PROVE  \E f \in run.files : \E i \in Rows(f.doc) : e \in EventsOf(run, f, i)
    <3>1. PICK k \in DOMAIN files : \E i \in Rows(files[k].doc) :
            e.file = files[k].doc.file /\ e.row = RowNumber(files[k].doc, i)
      BY <2>1, <2>2, SourceLemma
    <3>2. PICK f \in run.files : f.doc = files[k].doc
      BY <2>1, <2>2, FileLemma
    <3>3. QED
      BY <3>1, <3>2 DEF EventsOf
  <2>5. \A e, g \in run.events : e.source = g.source /\ e.record = g.record => e = g
    BY <2>1, <2>2, SourceLemma
  <2> HIDE DEF run
  <2>6. QED
    BY <2>3, <2>4, <2>5 DEF run
<1>2. QED
  BY <1>1, InductiveInvariant, PTL

\* A run is released for reconciliation if and only if nothing was quarantined and
\* the batch makes one close (_prepare_files, validate_cross_source_readiness).
THEOREM ReleasedWhenReady == Spec => []ValidatedIffReady
<1>1. IInv => ValidatedIffReady
  <2> SUFFICES ASSUME IInv, NEW r \in DOMAIN runs
               PROVE  LET run == runs[r] IN
                      run.state = "VALIDATED" <=>
                        /\ \A f \in run.files :
                             Interpretable(f) /\ \A i \in Rows(f.doc) : EventsOf(run, f, i) # {}
                        /\ \A s \in Sources : \E e \in run.events : e.source = s
                        /\ \A e, f \in run.events :
                             e.currency = f.currency /\ e.day - f.day <= MaxSpan
    BY DEF ValidatedIffReady
  <2>1. PICK files : Batch(files) /\ runs[r] = Committed(files)
    BY DEF IInv
  <2>2. QED
    BY <2>1, ReadyLemma
<1>2. QED
  BY <1>1, InductiveInvariant, PTL

\* Routing never guesses: a layout nobody confirmed is the only one that fits its
\* source and beats every layout of another by more than the margin (registry.py).
THEOREM RoutingNeverGuesses == Spec => []UnconfirmedIsUnambiguous
<1>1. IInv => UnconfirmedIsUnambiguous
  <2> SUFFICES ASSUME IInv, NEW r \in DOMAIN runs, NEW f \in runs[r].files, ~f.confirmed,
                      NEW p \in Profiles \ {f.profile},
                      f.doc.format \in p.formats, Score(p, Header(f.doc)) > 0
               PROVE  /\ p.source # f.profile.source
                      /\ Score(p, Header(f.doc)) + Margin < Score(f.profile, Header(f.doc))
    BY DEF UnconfirmedIsUnambiguous
  <2>1. PICK files : Batch(files) /\ runs[r] = Committed(files)
    BY DEF IInv
  <2>2. runs[r].files = SourceFiles(files)
    BY <2>1 DEF Committed
  <2>3. PICK k \in DOMAIN files :
          /\ f.doc = files[k].doc /\ f.profile = files[k].profile
          /\ f.confirmed = files[k].confirmed
    BY <2>1, <2>2, FileLemma
  <2>4. files[k] \in Imports
    BY <2>1, FileLemma
  <2>5. f.profile \in Selected(f.doc, {})
    BY <2>3, <2>4, ImportLemma
  <2>6. QED
    BY <2>5, RoutingLemma
<1>2. QED
  BY <1>1, InductiveInvariant, PTL

-----------------------------------------------------------------------------
(***************************************************************************)
(* A run as a batch of the kernel.                                         *)
(***************************************************************************)

\* What is known of the events of a run: no record twice, types, known names.
Admitted(E) ==
  /\ IsFiniteSet(E)
  /\ \A e, f \in E : e.source = f.source /\ e.record = f.record => e = f
  /\ \A e \in E :
       /\ e.amount \in Nat \ {0} /\ e.day \in Int /\ e.direction \in {"DEBIT", "CREDIT"}
       /\ e.source = "GATEWAY" => e.type \in GatewayTypes
       /\ e.source # "ERP" => e.record = <<e.record[1]>>
       /\ e.record[1] \in Range(Names)
       /\ {e.settlement, e.external} \ {""} \subseteq Range(Names)

LEMMA RunIsAdmitted ==
  ASSUME NEW files, Batch(files)
  PROVE  Admitted(Committed(files).events)
<1> DEFINE E == AllEvents(files)
<1>1. Committed(files).events = E
  BY DEF Committed
<1>2. IsFiniteSet(E)
  BY FiniteLemma
<1>3. \A e, f \in E : e.source = f.source /\ e.record = f.record => e = f
  BY SourceLemma
<1>4. ASSUME NEW e \in E
      PROVE  /\ e.amount \in Nat \ {0} /\ e.day \in Int /\ e.direction \in {"DEBIT", "CREDIT"}
             /\ e.source = "GATEWAY" => e.type \in GatewayTypes
             /\ e.source # "ERP" => e.record = <<e.record[1]>>
             /\ e.record[1] \in Range(Names)
             /\ {e.settlement, e.external} \ {""} \subseteq Range(Names)
  <2>1. PICK k \in DOMAIN files : e \in files[k].events
    BY DEF AllEvents
  <2> DEFINE x == files[k]
  <2>2. x \in Imports /\ e \in x.events
    BY <2>1, FileLemma
  <2> HIDE DEF x
  <2>3. /\ e.amount \in Nat \ {0} /\ e.day \in Int /\ e.direction \in {"DEBIT", "CREDIT"}
        /\ e.source = "GATEWAY" => e.type \in GatewayTypes
    BY <2>2, EventTypeLemma
  <2>4. x.doc \in Docs /\ x.profile \in Profiles /\ x.events = Events(x.doc, x.profile)
    BY <2>2, ImportLemma
  <2>5. e.source # "ERP" => e.record = <<e.record[1]>>
    <3>1. \E i : e.source = x.profile.source /\ e.record = Record(x.doc, i, x.profile)
      BY <2>2, EventLemma
    <3>2. \A i : x.profile.source # "ERP" =>
            \E y : Record(x.doc, i, x.profile) = <<y>>
      BY DEF Record
    <3>3. QED
      BY <3>1, <3>2
  <2>6. PICK q \in Requests : \E i \in DOMAIN q.docs : x.doc = q.docs[i]
    BY <2>4 DEF Docs
  <2>7. PICK i \in DOMAIN q.docs : x.doc = q.docs[i]
    BY <2>6
  <2>8. /\ e.record[1] \in Range(Names)
        /\ {e.settlement, e.external} \ {""} \subseteq Range(Names)
    <3>1. \A f \in Events(q.docs[i], x.profile) :
            /\ f.record[1] \in Range(Names)
            /\ {f.settlement, f.external} \ {""} \subseteq Range(Names)
      BY <2>4, NamesAssumption, Zenon
    <3>2. e \in Events(q.docs[i], x.profile)
      BY <2>2, <2>4, <2>7
    <3>3. QED
      BY <3>1, <3>2, Zenon
  <2>9. QED
    BY <2>3, <2>5, <2>8
<1> HIDE DEF E
<1>5. QED
  BY <1>1, <1>2, <1>3, <1>4, Zenon DEF Admitted

\* Names are ranked, and told apart by their ranks.
LEMMA RankLemma ==
  /\ "" \notin Range(Names) /\ DOMAIN Names \subseteq Nat
  /\ \A x \in Range(Names) : Rank(x) \in DOMAIN Names /\ Rank(x) \in Nat /\ Names[Rank(x)] = x
  /\ \A x, y \in Range(Names) : Rank(x) = Rank(y) => x = y
<1>1. "" \notin Range(Names)
  BY NamesAssumption, PolicyAssumption
<1>2. DOMAIN Names \subseteq Nat
  <2>1. Names \in Seq(Range(Names))
    BY NamesAssumption
  <2>2. QED
    BY <2>1
<1>3. ASSUME NEW x \in Range(Names)
      PROVE  Rank(x) \in DOMAIN Names /\ Names[Rank(x)] = x
  <2>1. \E n \in DOMAIN Names : Names[n] = x
    BY DEF Range
  <2>2. QED
    BY <2>1 DEF Rank
<1>4. QED
  BY <1>1, <1>2, <1>3

-----------------------------------------------------------------------------
(***************************************************************************)
(* Totals of events.                                                       *)
(***************************************************************************)
LEMMA TotalLemma ==
  ASSUME NEW S, IsFiniteSet(S), \A e \in S : e.amount \in Nat
  PROVE  Total(S) \in Nat
<1> DEFINE f == [e \in S |-> e.amount]
<1>1. \A e \in S : f[e] \in Nat
  OBVIOUS
<1> HIDE DEF f
<1>2. SumFunctionOnSet(f, S) \in Nat
  BY <1>1, SumNatural
<1>3. QED
  BY <1>2 DEF Total, f

\* A row counts for the settlement or against it.
LEMMA SignLemma ==
  ASSUME NEW e, e.type \in {"PAYMENT", "REFUND", "ADJUSTMENT"},
         e.amount \in Nat, e.direction \in {"DEBIT", "CREDIT"}
  PROVE  /\ e.amount * ComponentSign(e) \in Int
         /\ Unsigned(e) => e.amount * ComponentSign(e) = Reported(e)
<1>1. /\ ComponentSign(e) = 1 \/ ComponentSign(e) = -1
      /\ Unsigned(e) => Reported(e) = IF ComponentSign(e) = 1 THEN e.amount ELSE -e.amount
  BY CheckedInPolicy DEF ComponentSign, Unsigned, Reported
<1>2. e.amount * ComponentSign(e) = IF ComponentSign(e) = 1 THEN e.amount ELSE -e.amount
  BY <1>1
<1>3. QED
  BY <1>1, <1>2

LEMMA PartLemma ==
  ASSUME NEW E, Admitted(E), NEW S, S \subseteq E
  PROVE  /\ IsFiniteSet(S) /\ Total(S) \in Nat
         /\ \A e \in S : e.amount \in Nat
<1>1. IsFiniteSet(S)
  BY FS_Subset DEF Admitted
<1>2. \A e \in S : e.amount \in Nat
  BY DEF Admitted
<1>3. QED
  BY <1>1, <1>2, TotalLemma

\* The rows of a reference that pay for something.
Collected(rows) == {e \in rows : e.type \in {"PAYMENT", "REFUND", "ADJUSTMENT"}}

LEMMA GrossLemma ==
  ASSUME NEW E, Admitted(E), NEW S, S \subseteq E
  PROVE  Gross(S) \in Int
<1> DEFINE C == Collected(S)
           f == [e \in C |-> e.amount * ComponentSign(e)]
<1>1. C \subseteq E
  BY DEF Collected
<1>2. IsFiniteSet(C)
  BY <1>1, PartLemma
<1>3. \A e \in C : f[e] \in Int
  <2>1. SUFFICES ASSUME NEW e \in C PROVE e.amount * ComponentSign(e) \in Int
    OBVIOUS
  <2>2. e.type \in {"PAYMENT", "REFUND", "ADJUSTMENT"}
    BY DEF Collected
  <2>3. e.amount \in Nat /\ e.direction \in {"DEBIT", "CREDIT"}
    BY <1>1 DEF Admitted
  <2>4. QED
    BY <2>2, <2>3, SignLemma
<1> HIDE DEF f
<1>4. SumFunctionOnSet(f, C) \in Int
  BY <1>2, <1>3, SumType
<1>5. Gross(S) = SumFunctionOnSet(f, C)
  BY Zenon DEF Gross, Collected, f
<1>6. QED
  BY <1>4, <1>5

\* The gateway rows of a reference.
RowsOf(E, x) == {e \in OfSource(E, "GATEWAY") : e.settlement = x}

\* A reference has a row that stands for its settlement.
LEMMA AnchorLemma ==
  ASSUME NEW E, Admitted(E), NEW x \in References(E)
  PROVE  /\ x \in Range(Names)
         /\ GatewayOf(E, x) \in Gateway
         /\ GatewayOf(E, x).gross = Gross(RowsOf(E, x))
         /\ GatewayOf(E, x).fee = Total(OfType(RowsOf(E, x), "FEE"))
         /\ GatewayOf(E, x).tax = Total(OfType(RowsOf(E, x), "TAX"))
<1> DEFINE rows == RowsOf(E, x)
           settled == OfType(rows, "SETTLEMENT")
           among == IF settled = {} THEN rows ELSE settled
           best(e) == \A f \in among : Rank(e.record[1]) <= Rank(f.record[1])
           anchor == CHOOSE e \in among : best(e)
           ranks == {Rank(e.record[1]) : e \in among}
<1>1. x \in Range(Names) /\ rows # {}
  BY DEF References, RowsOf, OfSource, Admitted
<1>2. rows \subseteq E /\ settled \subseteq E /\ among \subseteq E
  BY DEF RowsOf, OfSource, OfType
<1>3. among # {}
  BY <1>1
<1> HIDE DEF among
<1>4. \A e \in among : e.record[1] \in Range(Names)
  BY <1>2 DEF Admitted
<1>5. ranks \subseteq Nat /\ ranks # {}
  <2>1. \A e \in among : Rank(e.record[1]) \in Nat
    BY <1>4, RankLemma, Zenon
  <2>2. QED
    BY <1>3, <2>1, Zenon
<1>6. \E n \in ranks : \A m \in ranks : n <= m
  <2> HIDE DEF ranks
  <2>1. QED
    BY <1>5, SmallestLemma
<1>7. \E e \in among : best(e)
  BY <1>6
<1>8. anchor \in among
  <2> HIDE DEF best
  <2>1. QED
    BY <1>7
<1>9. anchor.amount \in Nat /\ anchor.day \in Int /\ anchor.external \in Utrs \cup {NoUtr}
  BY <1>2, <1>8, NamesAssumption DEF Admitted
<1>10. Cardinality(settled) \in Nat
  BY <1>2, PartLemma, FS_CardinalityType
<1>11. Gross(rows) \in Int
  BY <1>2, GrossLemma
<1>12. Total(OfType(rows, "FEE")) \in Nat /\ Total(OfType(rows, "TAX")) \in Nat
  <2>1. OfType(rows, "FEE") \subseteq E /\ OfType(rows, "TAX") \subseteq E
    BY <1>2 DEF OfType
  <2>2. QED
    BY <2>1, PartLemma
<1>13. GatewayOf(E, x) =
         [rows |-> Cardinality(settled), net |-> anchor.amount, gross |-> Gross(rows),
          fee |-> Total(OfType(rows, "FEE")), tax |-> Total(OfType(rows, "TAX")),
          utr |-> anchor.external, day |-> anchor.day]
  BY Zenon DEF GatewayOf, RowsOf, among
<1> HIDE DEF rows, settled, anchor
<1>14. QED
  BY <1>1, <1>9, <1>10, <1>11, <1>12, <1>13 DEF Gateway, rows

\* The lines of a journal that carry a reference.
LinesOf(E, doc, x) == {e \in OfSource(E, "ERP") : e.record[1] = doc /\ e.external = x}

LEMMA JournalOfLemma ==
  ASSUME NEW E, Admitted(E), NEW doc \in Range(Names), NEW x \in Range(Names)
  PROVE  LET j == JournalOf(E, doc, x) IN
         /\ j \in Journal /\ j.doc = Rank(doc) /\ j.ref = Rank(x)
         /\ j.bank = Total(Posted(LinesOf(E, doc, x), "bank"))
         /\ j.clearing = Total(Posted(LinesOf(E, doc, x), "clearing"))
<1> DEFINE lines == LinesOf(E, doc, x)
           others == lines \ UNION {Posted(lines, role) : role \in DOMAIN Accounts}
           f == [e \in others |-> IF e.direction = "DEBIT" THEN e.amount ELSE -e.amount]
           debits(S) ==
             SumFunctionOnSet([e \in S |-> IF e.direction = "DEBIT" THEN e.amount ELSE -e.amount], S)
<1>1. lines \subseteq E
  BY DEF LinesOf, OfSource
<1>2. \A role : Total(Posted(lines, role)) \in Nat
  <2>1. \A role : Posted(lines, role) \subseteq E
    BY <1>1 DEF Posted
  <2>2. QED
    BY <2>1, PartLemma
<1>3. debits(others) \in Int
  <2>1. others \subseteq E
    BY <1>1
  <2> HIDE DEF others
  <2>2. IsFiniteSet(others) /\ \A e \in others : e.amount \in Nat
    BY <2>1, PartLemma
  <2>3. \A e \in others : f[e] \in Int
    BY <2>2
  <2> HIDE DEF f
  <2>4. SumFunctionOnSet(f, others) \in Int
    BY <2>2, <2>3, SumType
  <2>5. QED
    BY <2>4 DEF f
<1>4. Rank(doc) \in Nat /\ Rank(x) \in Nat
  BY RankLemma
<1>5. JournalOf(E, doc, x) =
        [doc |-> Rank(doc), ref |-> Rank(x),
         bank |-> Total(Posted(lines, "bank")), clearing |-> Total(Posted(lines, "clearing")),
         fee |-> Total(Posted(lines, "fee")), tax |-> Total(Posted(lines, "tax")),
         other |-> debits(others)]
  BY Zenon DEF JournalOf, LinesOf
<1> HIDE DEF lines, others, debits
<1>6. QED
  BY <1>2, <1>3, <1>4, <1>5 DEF Journal, lines

\* What reconcile is given: the rows of the references, the bank rows by their ranks,
\* the journals by their number and reference, and all the checks.
Faithful(E, b) ==
  /\ b.required = Checks
  /\ DOMAIN b.gateway = {Rank(x) : x \in References(E)}
  /\ \A x \in References(E) : b.gateway[Rank(x)] = GatewayOf(E, x)
  /\ DOMAIN b.bank = {Rank(e.record[1]) : e \in OfSource(E, "BANK")}
  /\ \A e \in OfSource(E, "BANK") : b.bank[Rank(e.record[1])].amount = e.amount
  /\ \A j \in DOMAIN b.erp : j[1] \in Range(Names) /\ j[2] \in Range(Names)
  /\ \A j : j \in DOMAIN b.erp <=>
       \E e \in OfSource(E, "ERP") : e.external # "" /\ j = <<e.record[1], e.external>>
  /\ \A j \in DOMAIN b.erp : b.erp[j] = JournalOf(E, j[1], j[2])

\* The references and their gateway rows.
LEMMA GatewayPart ==
  ASSUME NEW E, Admitted(E), NEW g,
         g = [n \in {Rank(x) : x \in References(E)} |-> GatewayOf(E, Names[n])]
  PROVE  /\ DOMAIN g = {Rank(x) : x \in References(E)}
         /\ DOMAIN g \subseteq Nat /\ IsFiniteSet(DOMAIN g)
         /\ g \in [DOMAIN g -> Gateway]
         /\ \A x \in References(E) : g[Rank(x)] = GatewayOf(E, x)
<1> DEFINE rows == {e \in OfSource(E, "GATEWAY") : e.settlement # ""}
           rank == [e \in rows |-> Rank(e.settlement)]
<1>1. \A x \in References(E) : x \in Range(Names) /\ GatewayOf(E, x) \in Gateway
  BY AnchorLemma
<1>2. \A x \in References(E) : Rank(x) \in Nat /\ Names[Rank(x)] = x
  BY <1>1, RankLemma
<1>3. \A x \in References(E) : g[Rank(x)] = GatewayOf(E, x)
  <2>1. ASSUME NEW x \in References(E) PROVE g[Rank(x)] = GatewayOf(E, x)
    <3>1. g[Rank(x)] = GatewayOf(E, Names[Rank(x)])
      OBVIOUS
    <3>2. QED
      BY <1>2, <3>1, Zenon
  <2>2. QED
    BY <2>1
<1>4. DOMAIN g = {Rank(x) : x \in References(E)}
  OBVIOUS
<1>5. DOMAIN g \subseteq Nat
  BY <1>2, <1>4, Zenon
<1>6. IsFiniteSet(DOMAIN g)
  <2>1. IsFiniteSet(rows)
    <3>1. rows \subseteq E
      BY DEF OfSource
    <3>2. QED
      BY <3>1, PartLemma
  <2>2. References(E) = {e.settlement : e \in rows}
    BY DEF References
  <2>3. DOMAIN g = {rank[e] : e \in DOMAIN rank}
    BY <1>4, <2>2
  <2>4. DOMAIN rank = rows
    OBVIOUS
  <2> HIDE DEF rank
  <2>5. IsFiniteSet({rank[e] : e \in DOMAIN rank})
    BY <2>1, <2>4, ImageLemma
  <2>6. QED
    BY <2>3, <2>5
<1>7. g \in [DOMAIN g -> Gateway]
  <2>1. \A n \in DOMAIN g : g[n] \in Gateway
    BY <1>1, <1>3, <1>4, Zenon
  <2>2. g = [n \in DOMAIN g |-> g[n]]
    OBVIOUS
  <2>3. QED
    BY <2>1, <2>2, Zenon
<1>8. QED
  BY <1>3, <1>4, <1>5, <1>6, <1>7

\* The bank rows.
BankEvent(E, n) == CHOOSE e \in OfSource(E, "BANK") : Rank(e.record[1]) = n

BankRows(E) ==
  [n \in {Rank(e.record[1]) : e \in OfSource(E, "BANK")} |->
     [amount |-> BankEvent(E, n).amount, utr |-> BankEvent(E, n).external,
      day |-> BankEvent(E, n).day, credit |-> BankEvent(E, n).direction = "CREDIT"]]

LEMMA BankPart ==
  ASSUME NEW E, Admitted(E)
  PROVE  LET bank == BankRows(E) IN
         /\ DOMAIN bank = {Rank(e.record[1]) : e \in OfSource(E, "BANK")}
         /\ DOMAIN bank \subseteq Nat /\ IsFiniteSet(DOMAIN bank)
         /\ bank \in [DOMAIN bank -> BankRow]
         /\ \A e \in OfSource(E, "BANK") : bank[Rank(e.record[1])].amount = e.amount
<1> DEFINE bank == BankRows(E)
           rows == OfSource(E, "BANK")
           rank == [e \in rows |-> Rank(e.record[1])]
<1>1. rows \subseteq E /\ \A e \in rows : e.source = "BANK"
  BY DEF OfSource
<1>2. \A e \in rows : e.record[1] \in Range(Names) /\ e.record = <<e.record[1]>>
  BY <1>1 DEF Admitted
<1>3. \A e \in rows : Rank(e.record[1]) \in Nat
  BY <1>2, RankLemma, Zenon
<1>4. ASSUME NEW e \in rows PROVE BankEvent(E, Rank(e.record[1])) = e
  <2> DEFINE f == BankEvent(E, Rank(e.record[1]))
  <2>1. f \in rows /\ Rank(f.record[1]) = Rank(e.record[1])
    BY DEF BankEvent
  <2> HIDE DEF f, rows
  <2>2. f.record[1] = e.record[1]
    BY <1>2, <2>1, RankLemma, Zenon
  <2>3. f.record = e.record
    BY <1>2, <2>1, <2>2
  <2>4. QED
    BY <1>1, <2>1, <2>3 DEF Admitted, f
<1>5. DOMAIN bank = {Rank(e.record[1]) : e \in rows}
  BY DEF BankRows
<1>6. DOMAIN bank \subseteq Nat
  BY <1>3, <1>5, Zenon
<1>7. ASSUME NEW e \in rows
      PROVE  bank[Rank(e.record[1])] = [amount |-> e.amount, utr |-> e.external, day |-> e.day,
                                        credit |-> e.direction = "CREDIT"]
  <2> DEFINE n == Rank(e.record[1])
  <2>1. bank[n] = [amount |-> BankEvent(E, n).amount, utr |-> BankEvent(E, n).external,
                   day |-> BankEvent(E, n).day,
                   credit |-> BankEvent(E, n).direction = "CREDIT"]
    BY Zenon DEF BankRows
  <2>2. QED
    BY <1>4, <2>1
<1>8. IsFiniteSet(DOMAIN bank)
  <2>1. IsFiniteSet(rows)
    BY <1>1, PartLemma
  <2>2. DOMAIN bank = {rank[e] : e \in DOMAIN rank} /\ DOMAIN rank = rows
    BY <1>5
  <2> HIDE DEF rank
  <2>3. IsFiniteSet({rank[e] : e \in DOMAIN rank})
    BY <2>1, <2>2, ImageLemma
  <2>4. QED
    BY <2>2, <2>3
<1>9. ASSUME NEW e \in rows PROVE bank[Rank(e.record[1])] \in BankRow
  <2>1. e.amount \in Nat \ {0} /\ e.external \in Utrs \cup {NoUtr} /\ e.day \in Int
    BY <1>1, NamesAssumption DEF Admitted
  <2>2. [amount |-> e.amount, utr |-> e.external, day |-> e.day,
         credit |-> e.direction = "CREDIT"] \in BankRow
    BY <2>1 DEF BankRow
  <2>3. QED
    BY <1>7, <2>2, Zenon
<1>10. bank \in [DOMAIN bank -> BankRow]
  <2>1. \A n \in DOMAIN bank : bank[n] \in BankRow
    BY <1>5, <1>9, Zenon
  <2>2. bank = [n \in DOMAIN bank |-> bank[n]]
    BY DEF BankRows
  <2>3. QED
    BY <2>1, <2>2, Zenon
<1>11. ASSUME NEW e \in rows PROVE bank[Rank(e.record[1])].amount = e.amount
  <2>1. [amount |-> e.amount, utr |-> e.external, day |-> e.day,
         credit |-> e.direction = "CREDIT"].amount = e.amount
    OBVIOUS
  <2>2. QED
    BY <1>7, <2>1, Zenon
<1>12. QED
  BY <1>5, <1>6, <1>8, <1>10, <1>11, Zenon

\* The journals.
LEMMA JournalPart ==
  ASSUME NEW E, Admitted(E), NEW erp,
         erp = [j \in {<<e.record[1], e.external>> :
                         e \in {f \in OfSource(E, "ERP") : f.external # ""}} |->
                  JournalOf(E, j[1], j[2])]
  PROVE  /\ IsFiniteSet(DOMAIN erp) /\ erp \in [DOMAIN erp -> Journal]
         /\ \A j \in DOMAIN erp : j[1] \in Range(Names) /\ j[2] \in Range(Names)
         /\ \A j : j \in DOMAIN erp <=>
              \E e \in OfSource(E, "ERP") : e.external # "" /\ j = <<e.record[1], e.external>>
         /\ \A j \in DOMAIN erp : erp[j] = JournalOf(E, j[1], j[2])
<1> DEFINE lines == {f \in OfSource(E, "ERP") : f.external # ""}
           key == [e \in lines |-> <<e.record[1], e.external>>]
<1>1. lines \subseteq E
  BY DEF OfSource
<1>2. DOMAIN erp = {key[e] : e \in DOMAIN key} /\ DOMAIN key = lines
  OBVIOUS
<1>3. \A j \in DOMAIN erp : erp[j] = JournalOf(E, j[1], j[2])
  OBVIOUS
<1>4. ASSUME NEW j \in DOMAIN erp PROVE j[1] \in Range(Names) /\ j[2] \in Range(Names)
  <2>1. PICK e \in lines : j = <<e.record[1], e.external>>
    BY <1>2
  <2>2. e.record[1] \in Range(Names) /\ e.external \in Range(Names)
    BY <1>1 DEF Admitted
  <2>3. QED
    BY <2>1, <2>2
<1>5. IsFiniteSet(DOMAIN erp)
  <2>1. IsFiniteSet(lines)
    BY <1>1, PartLemma
  <2>2. IsFiniteSet(DOMAIN key)
    BY <1>2, <2>1, Zenon
  <2> HIDE DEF key
  <2>3. IsFiniteSet({key[e] : e \in DOMAIN key})
    BY <2>2, ImageLemma, Zenon
  <2>4. QED
    BY <1>2, <2>3, Zenon
<1>6. erp \in [DOMAIN erp -> Journal]
  <2>1. ASSUME NEW j \in DOMAIN erp PROVE erp[j] \in Journal
    BY <1>3, <1>4, JournalOfLemma, Zenon
  <2>2. erp = [j \in DOMAIN erp |-> erp[j]]
    OBVIOUS
  <2>3. QED
    BY <2>1, <2>2, Zenon
<1>7. \A j : j \in DOMAIN erp <=>
        \E e \in OfSource(E, "ERP") : e.external # "" /\ j = <<e.record[1], e.external>>
  OBVIOUS
<1>8. QED
  BY <1>3, <1>4, <1>5, <1>6, <1>7

\* What the run is to the kernel is a batch, with the figures of the events.
LEMMA InputLemma ==
  ASSUME NEW E, Admitted(E)
  PROVE  IsBatch(KernelInput(E)) /\ Faithful(E, KernelInput(E))
<1> DEFINE gateway == [n \in {Rank(x) : x \in References(E)} |-> GatewayOf(E, Names[n])]
           bank == BankRows(E)
           erp == [j \in {<<e.record[1], e.external>> :
                            e \in {f \in OfSource(E, "ERP") : f.external # ""}} |->
                     JournalOf(E, j[1], j[2])]
           b == KernelInput(E)
<1>1. \A f : Table(f) = f
  BY DEF Table
<1>2. b = [gateway |-> Table(gateway), bank |-> Table(bank), erp |-> Table(erp),
           required |-> Checks]
  BY Zenon DEF KernelInput, BankRows, BankEvent
<1>3. /\ DOMAIN gateway = {Rank(x) : x \in References(E)}
      /\ DOMAIN gateway \subseteq Nat /\ IsFiniteSet(DOMAIN gateway)
      /\ gateway \in [DOMAIN gateway -> Gateway]
      /\ \A x \in References(E) : gateway[Rank(x)] = GatewayOf(E, x)
  BY GatewayPart
<1>4. /\ DOMAIN bank = {Rank(e.record[1]) : e \in OfSource(E, "BANK")}
      /\ DOMAIN bank \subseteq Nat /\ IsFiniteSet(DOMAIN bank)
      /\ bank \in [DOMAIN bank -> BankRow]
      /\ \A e \in OfSource(E, "BANK") : bank[Rank(e.record[1])].amount = e.amount
  BY BankPart
<1>5. /\ IsFiniteSet(DOMAIN erp) /\ erp \in [DOMAIN erp -> Journal]
      /\ \A j \in DOMAIN erp : j[1] \in Range(Names) /\ j[2] \in Range(Names)
      /\ \A j : j \in DOMAIN erp <=>
           \E e \in OfSource(E, "ERP") : e.external # "" /\ j = <<e.record[1], e.external>>
      /\ \A j \in DOMAIN erp : erp[j] = JournalOf(E, j[1], j[2])
  BY JournalPart
<1> HIDE DEF gateway, bank, erp, b
<1>6. /\ b = [part \in {"gateway", "bank", "erp", "required"} |-> b[part]]
      /\ b.gateway = gateway /\ b.bank = bank /\ b.erp = erp /\ b.required = Checks
  BY <1>1, <1>2
<1>7. IsBatch(b)
  BY <1>3, <1>4, <1>5, <1>6 DEF IsBatch
<1>8. Faithful(E, b)
  BY <1>3, <1>4, <1>5, <1>6, Zenon DEF Faithful
<1>9. QED
  BY <1>7, <1>8 DEF b

-----------------------------------------------------------------------------
(***************************************************************************)
(* What is cleared is what the files say.                                  *)
(***************************************************************************)

\* The bank rows of a case have, as events, the amount they have as rows.
LEMMA ReceiptLemma ==
  ASSUME NEW E, Admitted(E), NEW b, IsBatch(b), Faithful(E, b), NEW taken \in SUBSET DOMAIN b.bank
  PROVE  AmountOf(b, taken) =
           Total({e \in OfSource(E, "BANK") : Rank(e.record[1]) \in taken})
<1> DEFINE S == {e \in OfSource(E, "BANK") : Rank(e.record[1]) \in taken}
           fun == [e \in S |-> e.amount]
           named == [x \in DOMAIN b.bank |-> b.bank[x].amount]
           name == [e \in S |-> Rank(e.record[1])]
<1>1. S \subseteq E /\ \A e \in S : e.source = "BANK"
  BY DEF OfSource
<1>2. \A e \in S : /\ e.record[1] \in Range(Names) /\ e.record = <<e.record[1]>>
                   /\ e.amount \in Nat
  BY <1>1 DEF Admitted
<1>3. ASSUME NEW e \in S, NEW f \in S, name[e] = name[f]
      PROVE  e = f
  <2>1. Rank(e.record[1]) = Rank(f.record[1])
    BY <1>3
  <2>2. e.record[1] = f.record[1]
    BY <1>2, <2>1, RankLemma, Zenon
  <2>3. e.record = f.record
    BY <1>2, <2>2
  <2>4. QED
    BY <1>1, <2>3 DEF Admitted
<1>4. ASSUME NEW e \in S
      PROVE  fun[e] \in Int /\ named[name[e]] = fun[e]
  <2> DEFINE n == Rank(e.record[1])
  <2>1. fun[e] = e.amount /\ name[e] = n
    OBVIOUS
  <2>2. n \in DOMAIN b.bank /\ b.bank[n].amount = e.amount
    BY DEF Faithful
  <2> HIDE DEF n
  <2>3. named[n] = b.bank[n].amount
    BY <2>2
  <2>4. QED
    BY <1>2, <2>1, <2>2, <2>3
<1>5. taken = {name[e] : e \in S}
  <2>1. \A n \in taken : \E e \in OfSource(E, "BANK") : n = Rank(e.record[1])
    BY DEF Faithful
  <2>2. QED
    BY <2>1
<1>6. Renames(fun, named, name, S)
  <2>1. DOMAIN name = S
    OBVIOUS
  <2> HIDE DEF fun, named, name
  <2>2. QED
    BY <1>3, <1>4, <2>1 DEF Renames
<1>7. IsFiniteSet(S)
  BY <1>1, PartLemma
<1> HIDE DEF fun, named, name, S
<1>8. SumFunctionOnSet(named, {name[e] : e \in S}) = SumFunctionOnSet(fun, S)
  BY <1>6, <1>7, SumImage
<1>9. SumFunctionOnSet(named, taken) = SumFunctionOnSet(fun, S)
  BY <1>5, <1>8
<1>10. QED
  BY <1>9, Zenon DEF AmountOf, Total, fun, named, S

\* What is reported of rows adds up over its parts.
LEMMA ReportedSplits ==
  ASSUME NEW S, IsFiniteSet(S), \A e \in S : e.amount \in Nat, NEW T \in SUBSET S
  PROVE  /\ ReportedTotal(S) = ReportedTotal(T) + ReportedTotal(S \ T)
         /\ ReportedTotal(S) \in Int
<1> DEFINE f == [e \in S |-> Reported(e)]
           rest == S \ T
<1>1. \A e \in S : f[e] = Reported(e) /\ Reported(e) \in Int
  BY DEF Reported
<1>2. IsFiniteSet(T) /\ IsFiniteSet(rest)
  BY FS_Subset
<1>3. ASSUME NEW R \in SUBSET S, IsFiniteSet(R)
      PROVE  ReportedTotal(R) = SumFunctionOnSet(f, R)
  <2> DEFINE g == [e \in R |-> Reported(e)]
  <2>1. SameOn(f, g, R)
    BY <1>1 DEF SameOn
  <2> HIDE DEF f, g
  <2>2. SumFunctionOnSet(g, R) = SumFunctionOnSet(f, R)
    BY <1>3, <2>1, SumCongruent
  <2>3. QED
    BY <2>2 DEF ReportedTotal, g
<1>4. \A e \in S : f[e] \in Int
  BY <1>1
<1> HIDE DEF f
<1>5. /\ SumFunctionOnSet(f, S) = SumFunctionOnSet(f, T) + SumFunctionOnSet(f, rest)
      /\ SumFunctionOnSet(f, S) \in Int
  BY <1>4, SumSplits, SumType
<1>6. QED
  BY <1>2, <1>3, <1>5

\* Debits are reported with the opposite of their total.
LEMMA ReportedDebits ==
  ASSUME NEW S, IsFiniteSet(S), \A e \in S : e.amount \in Nat /\ Reported(e) = -e.amount
  PROVE  ReportedTotal(S) = -Total(S)
<1> DEFINE f == [e \in S |-> e.amount]
           g == [e \in S |-> Reported(e)]
<1>1. \A e \in S : f[e] \in Int /\ g[e] = -f[e]
  OBVIOUS
<1> HIDE DEF f, g
<1>2. SumFunctionOnSet(g, S) = -SumFunctionOnSet(f, S)
  BY <1>1, SumNegates
<1>3. QED
  BY <1>2 DEF ReportedTotal, Total, f, g

\* The rows of the components: what is collected, the fees and the taxes.
LEMMA ReportedLemma ==
  ASSUME NEW E, Admitted(E), NEW rows, rows \subseteq OfSource(E, "GATEWAY"),
         \A e \in rows : e.type # "SETTLEMENT" => Unsigned(e)
  PROVE  LET parts == {e \in rows : e.type # "SETTLEMENT"} IN
         /\ ReportedTotal({e \in parts : e.type \notin {"FEE", "TAX"}}) = Gross(rows)
         /\ ReportedTotal(parts) =
              Gross(rows) - Total(OfType(rows, "FEE")) - Total(OfType(rows, "TAX"))
<1> DEFINE parts == {e \in rows : e.type # "SETTLEMENT"}
           C == Collected(rows)
           F == OfType(rows, "FEE")
           X == OfType(rows, "TAX")
           D == parts \ C
<1>1. /\ rows \subseteq E
      /\ \A e \in rows : /\ e.type \in GatewayTypes /\ e.amount \in Nat
                         /\ e.direction \in {"DEBIT", "CREDIT"}
  BY DEF OfSource, Admitted
<1>2. /\ C = {e \in parts : e.type \notin {"FEE", "TAX"}} /\ C \subseteq parts
      /\ F \subseteq D /\ X = D \ F
  BY <1>1 DEF Collected, OfType, GatewayTypes
<1>3. /\ IsFiniteSet(parts) /\ IsFiniteSet(C) /\ IsFiniteSet(D) /\ IsFiniteSet(F) /\ IsFiniteSet(X)
      /\ Total(F) \in Nat /\ Total(X) \in Nat
  <2>1. parts \subseteq E /\ C \subseteq E /\ D \subseteq E /\ F \subseteq E /\ X \subseteq E
    BY <1>1 DEF Collected, OfType
  <2> HIDE DEF parts, C, D, F, X
  <2>2. QED
    BY <2>1, PartLemma
<1>4. \A e \in parts : e.amount \in Nat
  BY <1>1
<1>5. ReportedTotal(C) = Gross(rows)
  <2> DEFINE f == [e \in C |-> Reported(e)]
             g == [e \in C |-> e.amount * ComponentSign(e)]
  <2>1. ASSUME NEW e \in C
        PROVE  e.amount * ComponentSign(e) \in Int /\ e.amount * ComponentSign(e) = Reported(e)
    <3>1. /\ e.type \in {"PAYMENT", "REFUND", "ADJUSTMENT"} /\ Unsigned(e)
          /\ e.amount \in Nat /\ e.direction \in {"DEBIT", "CREDIT"}
      BY <1>1, <1>2 DEF Collected
    <3>2. QED
      BY <3>1, SignLemma
  <2>2. f = g
    BY <2>1, Zenon
  <2>3. ReportedTotal(C) = SumFunctionOnSet(f, C) /\ Gross(rows) = SumFunctionOnSet(g, C)
    BY Zenon DEF ReportedTotal, Gross, Collected
  <2> HIDE DEF f, g, C
  <2>4. QED
    BY <2>2, <2>3
<1>6. ASSUME NEW S \in {F, X}
      PROVE  ReportedTotal(S) = -Total(S)
  <2>1. \A e \in S : e.amount \in Nat /\ Reported(e) = -e.amount
    BY <1>1 DEF OfType, Unsigned, Reported
  <2>2. IsFiniteSet(S)
    BY <1>3
  <2>3. QED
    BY <2>1, <2>2, ReportedDebits
<1>7. Gross(rows) \in Int
  BY <1>1, GrossLemma
<1> HIDE DEF C, F, X
<1>8. ReportedTotal(parts) = ReportedTotal(C) + ReportedTotal(D)
  <2> HIDE DEF parts
  <2>1. QED
    BY <1>2, <1>3, <1>4, ReportedSplits
<1>9. ReportedTotal(D) = ReportedTotal(F) + ReportedTotal(X)
  <2>1. \A e \in D : e.amount \in Nat
    BY <1>4
  <2> HIDE DEF D
  <2>2. ReportedTotal(D) = ReportedTotal(F) + ReportedTotal(D \ F)
    BY <1>2, <1>3, <2>1, ReportedSplits
  <2>3. QED
    BY <1>2, <2>2
<1>10. /\ ReportedTotal(F) = -Total(F) /\ ReportedTotal(X) = -Total(X)
  BY <1>6
<1> HIDE DEF D, parts
<1>11. ReportedTotal(parts) = Gross(rows) - Total(F) - Total(X)
  BY <1>3, <1>5, <1>7, <1>8, <1>9, <1>10
<1>12. QED
  BY <1>2, <1>5, <1>11 DEF F, X, parts

LinesWith(E, x) == {e \in OfSource(E, "ERP") : e.external = x}

\* The only journal of a reference is made of all the lines that carry it.
LEMMA PostingLemma ==
  ASSUME NEW E, Admitted(E), NEW b, IsBatch(b), Faithful(E, b), NEW x \in Range(Names),
         NEW j, Journals(b, Rank(x)) = {j}
  PROVE  LET lines == LinesWith(E, x) IN
         /\ Cardinality({e.record[1] : e \in lines}) = 1
         /\ b.erp[j].bank = Total(Posted(lines, "bank"))
         /\ b.erp[j].clearing = Total(Posted(lines, "clearing"))
<1> DEFINE lines == LinesWith(E, x)
<1>1. j \in DOMAIN b.erp /\ b.erp[j].ref = Rank(x)
  BY DEF Journals
<1>2. \A k \in DOMAIN b.erp : /\ k[1] \in Range(Names) /\ k[2] \in Range(Names)
                              /\ b.erp[k] = JournalOf(E, k[1], k[2])
                              /\ b.erp[k].ref = Rank(k[2])
  <2>1. ASSUME NEW k \in DOMAIN b.erp
        PROVE  /\ k[1] \in Range(Names) /\ k[2] \in Range(Names)
               /\ b.erp[k] = JournalOf(E, k[1], k[2])
    BY Zenon DEF Faithful
  <2>2. QED
    BY <2>1, JournalOfLemma
<1>3. j[2] = x
  BY <1>1, <1>2, RankLemma
<1>4. ASSUME NEW e \in lines
      PROVE  e.record[1] = j[1]
  <2> DEFINE k == <<e.record[1], e.external>>
  <2>1. e \in OfSource(E, "ERP") /\ e.external = x /\ x # ""
    BY RankLemma DEF LinesWith
  <2>2. k \in DOMAIN b.erp
    BY <2>1, Zenon DEF Faithful
  <2>3. b.erp[k].ref = Rank(k[2]) /\ k[2] = x
    BY <1>2, <2>1, <2>2
  <2>4. k \in Journals(b, Rank(x))
    BY <2>2, <2>3 DEF Journals
  <2>5. QED
    BY <2>4
<1>5. \E e \in lines : e.record[1] = j[1]
  <2>1. PICK e \in OfSource(E, "ERP") : e.external # "" /\ j = <<e.record[1], e.external>>
    BY <1>1, Zenon DEF Faithful
  <2>2. QED
    BY <1>3, <2>1 DEF LinesWith
<1>6. {e.record[1] : e \in lines} = {j[1]}
  <2> HIDE DEF lines
  <2>1. QED
    BY <1>4, <1>5, Zenon
<1>7. Cardinality({e.record[1] : e \in lines}) = 1
  BY <1>6, FS_Singleton
<1>8. LinesOf(E, j[1], j[2]) = lines
  BY <1>3, <1>4 DEF LinesOf, LinesWith
<1>9. b.erp[j] = JournalOf(E, j[1], j[2]) /\ j[1] \in Range(Names) /\ j[2] \in Range(Names)
  BY <1>1, <1>2
<1> HIDE DEF lines
<1>10. /\ b.erp[j].bank = Total(Posted(lines, "bank"))
       /\ b.erp[j].clearing = Total(Posted(lines, "clearing"))
  BY <1>8, <1>9, JournalOfLemma
<1>11. QED
  BY <1>7, <1>10 DEF lines

\* A proved decision has passed all the checks.
LEMMA ClearedPassed ==
  ASSUME NEW b, IsBatch(b), b.required = Checks, NEW n \in Cleared(DecisionsOf(b))
  PROVE  /\ n \in DOMAIN b.gateway
         /\ \E free \in SUBSET DOMAIN b.bank :
              /\ CaseOf(b, n, free).passed = Checks
              /\ DecisionsOf(b)[n].bank = CaseOf(b, n, free).bank
              /\ CaseOf(b, n, free).bank \subseteq free
<1> DEFINE free == LeftBy(b, CasesOf(b), n)
           c == CaseOf(b, n, free)
<1>1. n \in DOMAIN b.gateway /\ DecisionsOf(b)[n] = Decision(c, Checks)
  BY DecisionsLemma DEF Cleared
<1>2. free \subseteq DOMAIN b.bank
  BY DEF LeftBy
<1>3. c.passed \subseteq Checks /\ c.bank \subseteq free
  <2> HIDE DEF free
  <2>1. c \in [bank : SUBSET free, erp : SUBSET DOMAIN b.erp, passed : SUBSET Checks,
               reasons : SUBSET Reasons,
               unique : BOOLEAN, ambiguous : BOOLEAN, invalid : BOOLEAN]
    BY <1>1, <1>2, CaseTypeLemma
  <2> HIDE DEF c
  <2>2. QED
    BY <2>1
<1> HIDE DEF free, c
<1>4. ProofLevel(c, Checks) = "PROVED" /\ DecisionsOf(b)[n].bank = c.bank
  BY <1>1 DEF Cleared, Decision
<1>5. c.passed = Checks
  <2>1. Checks \subseteq c.passed
    BY <1>4 DEF ProofLevel
  <2>2. QED
    BY <1>3, <2>1
<1>6. free \in SUBSET DOMAIN b.bank
  BY <1>2
<1>7. /\ CaseOf(b, n, free).passed = Checks
      /\ DecisionsOf(b)[n].bank = CaseOf(b, n, free).bank
      /\ CaseOf(b, n, free).bank \subseteq free
  BY <1>3, <1>4, <1>5 DEF c
<1>8. QED
  BY <1>1, <1>6, <1>7, Zenon

\* The property, of one run.
LEMMA AgreesLemma ==
  ASSUME NEW run, Admitted(run.events)
  PROVE  Agrees(run, Decisions(run))
<1> DEFINE E == run.events
           b == KernelInput(E)
           D == Decisions(run)
<1> SUFFICES ASSUME NEW n \in Cleared(D), \A e \in Components(run, n) : Unsigned(e)
             PROVE  /\ ReportedTotal(Components(run, n)) = Received(run, D[n])
                    /\ PostedOnce({e \in OfSource(E, "ERP") : e.external = Names[n]},
                         Received(run, D[n]),
                         ReportedTotal({e \in Components(run, n) : e.type \notin {"FEE", "TAX"}}))
  BY Zenon DEF Agrees
<1>1. D = DecisionsOf(b)
  <2>1. D = DecisionsOf(b) \/ DOMAIN D = {}
    BY DEF Decisions, Table
  <2>2. n \in DOMAIN D
    BY DEF Cleared
  <2>3. QED
    BY <2>1, <2>2
<1>2. IsBatch(b) /\ Faithful(E, b) /\ b.required = Checks
  <2>1. IsBatch(b) /\ Faithful(E, b)
    BY InputLemma
  <2>2. QED
    BY <2>1 DEF Faithful
<1> HIDE DEF b, D
<1>3. /\ n \in DOMAIN b.gateway
      /\ \E free \in SUBSET DOMAIN b.bank :
           /\ CaseOf(b, n, free).passed = Checks
           /\ D[n].bank = CaseOf(b, n, free).bank
           /\ CaseOf(b, n, free).bank \subseteq free
  BY <1>1, <1>2, ClearedPassed
<1>4. PICK free \in SUBSET DOMAIN b.bank :
        /\ CaseOf(b, n, free).passed = Checks
        /\ D[n].bank = CaseOf(b, n, free).bank
        /\ CaseOf(b, n, free).bank \subseteq free
  BY <1>3
<1> DEFINE g == b.gateway[n]
           taken == D[n].bank
<1>5. /\ ExpectedNet(g) = g.net /\ AmountOf(b, taken) = g.net
      /\ \E j : /\ Journals(b, n) = {j}
                /\ b.erp[j].bank = g.net /\ b.erp[j].clearing = g.gross
  BY <1>2, <1>3, <1>4, CaseProofLemma
<1>6. PICK x \in References(E) : n = Rank(x)
  BY <1>2, <1>3 DEF Faithful
<1> DEFINE rows == RowsOf(E, x)
<1>7. /\ x \in Range(Names)
      /\ g.gross = Gross(rows)
      /\ g.fee = Total(OfType(rows, "FEE")) /\ g.tax = Total(OfType(rows, "TAX"))
  <2>1. g = GatewayOf(E, x)
    BY <1>2, <1>6, Zenon DEF Faithful
  <2> HIDE DEF g
  <2>2. QED
    BY <2>1, AnchorLemma
<1>8. Names[n] = x
  BY <1>6, <1>7, RankLemma
<1>9. Components(run, n) = {e \in rows : e.type # "SETTLEMENT"}
  BY <1>8 DEF Components, RowsOf
<1> DEFINE parts == {e \in rows : e.type # "SETTLEMENT"}
<1>10. /\ ReportedTotal({e \in parts : e.type \notin {"FEE", "TAX"}}) = Gross(rows)
       /\ ReportedTotal(parts) =
            Gross(rows) - Total(OfType(rows, "FEE")) - Total(OfType(rows, "TAX"))
  <2>1. rows \subseteq OfSource(E, "GATEWAY")
    BY DEF RowsOf
  <2>2. \A e \in rows : e.type # "SETTLEMENT" => Unsigned(e)
    BY <1>9
  <2> HIDE DEF rows
  <2>3. QED
    BY <2>1, <2>2, ReportedLemma
<1>11. Received(run, D[n]) = g.net
  <2>1. taken \in SUBSET DOMAIN b.bank
    BY <1>4
  <2>2. AmountOf(b, taken) = Total({e \in OfSource(E, "BANK") : Rank(e.record[1]) \in taken})
    BY <1>2, <2>1, ReceiptLemma
  <2>3. QED
    BY <1>5, <2>2 DEF Received
<1> HIDE DEF g, rows
<1>12. ReportedTotal(parts) = Received(run, D[n])
  BY <1>5, <1>7, <1>10, <1>11 DEF ExpectedNet
<1> DEFINE lines == LinesWith(E, x)
<1>13. /\ Cardinality({e.record[1] : e \in lines}) = 1
       /\ Total(Posted(lines, "bank")) = g.net
       /\ Total(Posted(lines, "clearing")) = g.gross
  <2>1. PICK j : /\ Journals(b, Rank(x)) = {j}
                 /\ b.erp[j].bank = g.net /\ b.erp[j].clearing = g.gross
    BY <1>5, <1>6
  <2>2. Admitted(E) /\ IsBatch(b) /\ Faithful(E, b) /\ x \in Range(Names)
    BY <1>2, <1>7
  <2> HIDE DEF E
  <2>3. /\ Cardinality({e.record[1] : e \in LinesWith(E, x)}) = 1
        /\ b.erp[j].bank = Total(Posted(LinesWith(E, x), "bank"))
        /\ b.erp[j].clearing = Total(Posted(LinesWith(E, x), "clearing"))
    BY <2>1, <2>2, PostingLemma
  <2>4. QED
    BY <2>1, <2>3
<1>14. /\ Posted(lines, "bank") =
            {e \in lines : e.account \in Accounts["bank"] /\ e.direction = "DEBIT"}
       /\ Posted(lines, "clearing") =
            {e \in lines : e.account \in Accounts["clearing"] /\ e.direction = "CREDIT"}
  BY CheckedInPolicy DEF Posted
<1> HIDE DEF lines, parts
<1>15. PostedOnce(lines, Received(run, D[n]),
                  ReportedTotal({e \in parts : e.type \notin {"FEE", "TAX"}}))
  BY <1>7, <1>10, <1>11, <1>13, <1>14 DEF PostedOnce
<1>16. QED
  BY <1>8, <1>9, <1>12, <1>15 DEF lines, LinesWith, parts

\* Whatever is cleared is what the three files say: adapters, transforms and kernel
\* agree on units, sides and signs (the adapters, settlement.py, accounting.py).
THEOREM ClearedIsWhatTheFilesSay == Spec => []ClearedAgrees
<1>1. IInv => ClearedAgrees
  <2> SUFFICES ASSUME IInv, NEW r \in DOMAIN runs
               PROVE  Agrees(runs[r], Decisions(runs[r]))
    BY DEF ClearedAgrees
  <2>1. PICK files : Batch(files) /\ runs[r] = Committed(files)
    BY DEF IInv
  <2>2. Admitted(runs[r].events)
    BY <2>1, RunIsAdmitted
  <2>3. QED
    BY <2>2, AgreesLemma
<1>2. QED
  BY <1>1, InductiveInvariant, PTL
=============================================================================
