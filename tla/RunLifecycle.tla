---------------------------- MODULE RunLifecycle ----------------------------
(***************************************************************************)
(* The life of a close run: import, reconciliation, completion or failure. *)
(*                                                                         *)
(* Several processes work on one DuckDB file and one directory of uploads: *)
(* the API worker (`uvicorn --workers 1`, whose synchronous handlers run   *)
(* one at a time) and the command-line scripts import_batch.py and         *)
(* reconcile.py.  Each process executes one request at a time.  A unit of  *)
(* work (DuckDBUnitOfWork) is one atomic step: it holds the database file  *)
(* from connect to COMMIT, so two of them never overlap, and one that      *)
(* raises rolls back.  Between two units of work, and around each write to *)
(* the file store, every other process may act, and a process may die.     *)
(***************************************************************************)
EXTENDS Naturals, Sequences

CONSTANTS
  Procs,        \* the API worker and the command-line processes
  RunIds,       \* run identifiers a client may name
  FileIds,      \* the source slots a complete close needs (gateway, bank, erp)
  Contents,     \* file contents, identified with their SHA-256
  ValidContents,\* the contents every adapter check accepts
  Batches,      \* the sets of documents a client may upload together
  Policies,     \* policy versions a request may name
  OurPolicy,    \* the policy version the reconciler was started with
  Faults        \* the faults that may happen, a subset of FaultKind

(***************************************************************************)
(* "crash": a process dies between two steps.  The others are exceptions:  *)
(* "import" anywhere in an import (an unreadable file, a full disk, the    *)
(* database file locked by another process), "kernel" in reconcile(),      *)
(* "commit" in the unit of work that persists the results, "log" after     *)
(* its COMMIT and still inside the try block, "mark" in _mark_failed.      *)
(***************************************************************************)
FaultKind == {"crash", "import", "kernel", "commit", "log", "mark"}

Document == [file : FileIds, content : Contents]

ASSUME ConstantsAssumption ==
  /\ ValidContents \subseteq Contents
  /\ Batches \subseteq SUBSET Document
  /\ OurPolicy \in Policies
  /\ Faults \subseteq FaultKind

VARIABLES
  runs,      \* run id -> its snapshots in the `runs` table, oldest first
  imported,  \* run id -> documents with source_files, ingestion and event rows
  results,   \* run id -> the document sets its decisions and summary are about
  audit,     \* run id -> suffixes of the audit_ids present in audit_events
  disk,      \* run id -> document -> what its path in the file store holds
  pc,        \* process -> where it stands in the request it serves
  job        \* process -> the locals of that request

dbVars == <<runs, imported, results, audit>>
vars == <<runs, imported, results, audit, disk, pc, job>>

(***************************************************************************)
(* Data.                                                                   *)
(***************************************************************************)
NoRun == "none"

RunState ==
  {"CREATED", "FILES_ATTACHED", "VALIDATED", "FAILED_VALIDATION",
   "RECONCILING", "COMPLETED", "FAILED", "CANCELLED"}

AllowedTransitions ==
  {<<"CREATED", "FILES_ATTACHED">>, <<"CREATED", "CANCELLED">>,
   <<"FILES_ATTACHED", "VALIDATED">>, <<"FILES_ATTACHED", "FAILED_VALIDATION">>,
   <<"FILES_ATTACHED", "CANCELLED">>,
   <<"VALIDATED", "RECONCILING">>, <<"VALIDATED", "CANCELLED">>,
   <<"RECONCILING", "COMPLETED">>, <<"RECONCILING", "FAILED">>,
   <<"RECONCILING", "CANCELLED">>}

\* A snapshot of the manifest: its state, its input files and its policy.
Manifest == [state : RunState, files : SUBSET Document, policy : Policies]

AuditKind == {"import", "started", "completed", "failed"}

\* manifest.transition: the same manifest in another state.
Transitioned(manifest, s) ==
  [state |-> s, files |-> manifest.files, policy |-> manifest.policy]

Latest(history) == history[Len(history)]

\* RunRepository.get: the latest snapshot decides; "ABSENT" stands for None.
StateOf(history) ==
  IF history = <<>> THEN "ABSENT" ELSE Latest(history).state

\* manifest.transition(s) followed by runs.append: the snapshot after the last.
Advanced(history, s) == Append(history, Transitioned(Latest(history), s))

MayTransition(history, s) == <<StateOf(history), s>> \in AllowedTransitions

\* No two documents of a request have the same bytes.
DistinctContents(docs) ==
  \A d, e \in docs : d.content = e.content => d = e

DistinctFiles(docs) == \A d, e \in docs : d.file = e.file => d = e

\* Source reports valid and the three sources present: ready for matching.
IsReady(docs) ==
  /\ \A d \in docs : d.content \in ValidContents
  /\ {d.file : d \in docs} = FileIds

\* Slip: the kernel's status for bad input, which is no state of a run.
FinalStateOfDecision(docs) ==
  IF IsReady(docs) THEN "VALIDATED" ELSE "INVALID_INPUT"

FinalState(docs) == IF IsReady(docs) THEN "VALIDATED" ELSE "FAILED_VALIDATION"

\* The three snapshots an import appends: created, attached, final.
ImportedHistory(docs, policy) ==
  << [state |-> "CREATED", files |-> {}, policy |-> policy],
     [state |-> "FILES_ATTACHED", files |-> docs, policy |-> policy],
     [state |-> FinalState(docs), files |-> docs, policy |-> policy] >>

\* Slip: only the duplicate-upload check, no primary keys.
ImportConflictsByHash(r, docs) ==
  \E d \in docs, e \in imported[r] : d.content = e.content

\* exists_hash and the primary keys (run, file_id) and (run, audit_id).
ImportConflicts(r, docs) ==
  \/ \E d \in docs, e \in imported[r] : d.content = e.content \/ d.file = e.file
  \/ "import" \in audit[r]

\* The locals of a request: the run it is about, the documents it imports or
\* whose events it read, the ones it has still to store, the one whose file it
\* has open, and the manifest it built or read.
Job == [run : RunIds \cup {NoRun}, docs : SUBSET Document,
        todo : SUBSET Document, open : SUBSET Document, manifest : Manifest]

NewManifest(policy) == [state |-> "CREATED", files |-> {}, policy |-> policy]

NoJob == [run |-> NoRun, docs |-> {}, todo |-> {}, open |-> {},
          manifest |-> NewManifest(OurPolicy)]

ImportJob(r, docs, policy) ==
  [run |-> r, docs |-> docs, todo |-> docs, open |-> {},
   manifest |-> NewManifest(policy)]

\* The events of the run are read, and its manifest kept, at the start.
ReconcileJob(r, manifest) ==
  [run |-> r, docs |-> imported[r], todo |-> {}, open |-> {},
   manifest |-> manifest]

Stages ==
  {"idle", "check", "store", "write", "kernel", "commit", "log", "failing",
   "raised"}

ImportStages == {"check", "store", "write"}

(***************************************************************************)
(* Initially the database and the file store are empty.                    *)
(***************************************************************************)
Init ==
  /\ runs = [r \in RunIds |-> <<>>]
  /\ imported = [r \in RunIds |-> {}]
  /\ results = [r \in RunIds |-> {}]
  /\ audit = [r \in RunIds |-> {}]
  /\ disk = [r \in RunIds |-> [d \in Document |-> "absent"]]
  /\ pc = [p \in Procs |-> "idle"]
  /\ job = [p \in Procs |-> NoJob]

Goto(p, from, to) ==
  /\ pc[p] = from
  /\ pc' = [pc EXCEPT ![p] = to]

\* The request ends, with a result or an exception, and its locals are gone.
Finish(p) ==
  /\ pc' = [pc EXCEPT ![p] = "idle"]
  /\ job' = [job EXCEPT ![p] = NoJob]

(***************************************************************************)
(* ImportBatchService.import_batch.                                        *)
(***************************************************************************)
\* A request arrives; one with repeated contents is refused before any effect.
RequestImport(p, r, docs, policy) ==
  /\ Goto(p, "idle", "check")
  /\ docs # {}
  /\ DistinctContents(docs)
  /\ job' = [job EXCEPT ![p] = ImportJob(r, docs, policy)]
  /\ UNCHANGED <<dbVars, disk>>

\* First unit of work: the run must not exist.
CheckAbsent(p) ==
  /\ Goto(p, "check", "store")
  /\ runs[job[p].run] = <<>>
  /\ UNCHANGED <<dbVars, disk, job>>

RefuseExisting(p) ==
  /\ pc[p] = "check"
  /\ runs[job[p].run] # <<>>
  /\ Finish(p)
  /\ UNCHANGED <<dbVars, disk>>

\* LocalFileStore.put where the path is free: open("xb") creates an empty file.
CreateFile(p, d) ==
  /\ Goto(p, "store", "write")
  /\ d \in job[p].todo
  /\ disk[job[p].run][d] = "absent"
  /\ disk' = [disk EXCEPT ![job[p].run][d] = "torn"]
  /\ job' = [job EXCEPT ![p].todo = @ \ {d}, ![p].open = {d}]
  /\ UNCHANGED dbVars

\* ... and then the bytes are written and flushed.
WriteFile(p, d) ==
  /\ Goto(p, "write", "store")
  /\ d \in job[p].open
  /\ disk' = [disk EXCEPT ![job[p].run][d] = "whole"]
  /\ job' = [job EXCEPT ![p].open = {}]
  /\ UNCHANGED dbVars

\* Slip: an existing path is taken for the document, its bytes are not compared.
ReuseFileUnread(p, d) ==
  /\ pc[p] = "store"
  /\ d \in job[p].todo
  /\ disk[job[p].run][d] # "absent"
  /\ job' = [job EXCEPT ![p].todo = @ \ {d}]
  /\ UNCHANGED <<dbVars, disk, pc>>

\* put where the path holds the same bytes already: a replay, accepted.
ReuseFile(p, d) ==
  /\ pc[p] = "store"
  /\ d \in job[p].todo
  /\ disk[job[p].run][d] = "whole"
  /\ job' = [job EXCEPT ![p].todo = @ \ {d}]
  /\ UNCHANGED <<dbVars, disk, pc>>

\* put where the path holds other bytes, a file cut short: ValueError.
RefuseTornFile(p, d) ==
  /\ pc[p] = "store"
  /\ d \in job[p].todo
  /\ disk[job[p].run][d] = "torn"
  /\ Finish(p)
  /\ UNCHANGED <<dbVars, disk>>

\* Second unit of work: the three snapshots, the rows and the audit event.
CommitImport(p) ==
  LET r == job[p].run
      docs == job[p].docs
  IN
  /\ pc[p] = "store"
  /\ job[p].todo = {}
  /\ DistinctFiles(docs)
  /\ ~ImportConflicts(r, docs)
  /\ runs' = [runs EXCEPT ![r] = @ \o ImportedHistory(docs, job[p].manifest.policy)]
  /\ imported' = [imported EXCEPT ![r] = @ \cup docs]
  /\ audit' = [audit EXCEPT ![r] = @ \cup {"import"}]
  /\ Finish(p)
  /\ UNCHANGED <<results, disk>>

\* with_files refuses repeated file ids; a duplicate upload or a key rolls back.
RefuseImport(p) ==
  /\ pc[p] = "store"
  /\ job[p].todo = {}
  /\ ~DistinctFiles(job[p].docs) \/ ImportConflicts(job[p].run, job[p].docs)
  /\ Finish(p)
  /\ UNCHANGED <<dbVars, disk>>

\* Any other exception of an import: nothing is committed, files stay.
ImportRaises(p) ==
  /\ "import" \in Faults
  /\ pc[p] \in ImportStages
  /\ Finish(p)
  /\ UNCHANGED <<dbVars, disk>>

(***************************************************************************)
(* RunReconciliationService.run.                                           *)
(***************************************************************************)
\* Slip: a run that is already being reconciled may be started again.
StartReconciliationAgain(p, r) ==
  /\ Goto(p, "idle", "kernel")
  /\ StateOf(runs[r]) \in {"VALIDATED", "RECONCILING"}
  /\ runs' = [runs EXCEPT ![r] = Advanced(@, "RECONCILING")]
  /\ audit' = [audit EXCEPT ![r] = @ \cup {"started"}]
  /\ job' = [job EXCEPT ![p] =
       ReconcileJob(r, Transitioned(Latest(runs[r]), "RECONCILING"))]
  /\ UNCHANGED <<imported, results, disk>>

\* First unit of work: the checks, the RECONCILING snapshot, the audit event;
\* the events and the manifest stay in memory.  A request that a check
\* refuses changes nothing.
StartReconciliation(p, r) ==
  LET history == runs[r] IN
  /\ Goto(p, "idle", "kernel")
  /\ StateOf(history) = "VALIDATED"
  /\ Latest(history).policy = OurPolicy
  /\ MayTransition(history, "RECONCILING")
  /\ "started" \notin audit[r]
  /\ runs' = [runs EXCEPT ![r] = Advanced(history, "RECONCILING")]
  /\ audit' = [audit EXCEPT ![r] = @ \cup {"started"}]
  /\ job' = [job EXCEPT ![p] =
       ReconcileJob(r, Transitioned(Latest(history), "RECONCILING"))]
  /\ UNCHANGED <<imported, results, disk>>

\* Slip: decisions are persisted as the kernel yields them, before completion.
KernelReturnsPersisting(p) ==
  /\ Goto(p, "kernel", "commit")
  /\ results' = [results EXCEPT ![job[p].run] = {job[p].docs}]
  /\ UNCHANGED <<runs, imported, audit, disk, job>>

\* reconcile() returns.
KernelReturns(p) ==
  /\ Goto(p, "kernel", "commit")
  /\ UNCHANGED <<dbVars, disk, job>>

KernelRaises(p) ==
  /\ "kernel" \in Faults
  /\ Goto(p, "kernel", "failing")
  /\ UNCHANGED <<dbVars, disk, job>>

\* Second unit of work: decisions, exceptions, summary, the COMPLETED snapshot
\* of the manifest held since the first one, and the audit event.
CommitResults(p) ==
  LET r == job[p].run IN
  /\ Goto(p, "commit", "log")
  /\ results[r] = {}
  /\ "completed" \notin audit[r]
  /\ results' = [results EXCEPT ![r] = {job[p].docs}]
  /\ runs' = [runs EXCEPT ![r] =
       Append(@, Transitioned(job[p].manifest, "COMPLETED"))]
  /\ audit' = [audit EXCEPT ![r] = @ \cup {"completed"}]
  /\ UNCHANGED <<imported, disk, job>>

\* Slip: the unit of work that raises keeps what it has written so far.
CommitRaisesKeeping(p) ==
  /\ "commit" \in Faults
  /\ Goto(p, "commit", "failing")
  /\ audit' = [audit EXCEPT ![job[p].run] = @ \cup {"completed"}]
  /\ UNCHANGED <<runs, imported, results, disk, job>>

CommitRaises(p) ==
  /\ "commit" \in Faults
  /\ Goto(p, "commit", "failing")
  /\ UNCHANGED <<dbVars, disk, job>>

\* The try block ends after the COMMIT, in _log.
ReturnResult(p) ==
  /\ pc[p] = "log"
  /\ Finish(p)
  /\ UNCHANGED <<dbVars, disk>>

LogRaises(p) ==
  /\ "log" \in Faults
  /\ Goto(p, "log", "failing")
  /\ UNCHANGED <<dbVars, disk, job>>

\* Slip: the failure is recorded from the manifest in memory, without reading
\* the run again.
MarkFailedBlindly(p) ==
  /\ Goto(p, "failing", "raised")
  /\ runs' = [runs EXCEPT ![job[p].run] =
       Append(@, Transitioned(job[p].manifest, "FAILED"))]
  /\ audit' = [audit EXCEPT ![job[p].run] = @ \cup {"failed"}]
  /\ UNCHANGED <<imported, results, disk, job>>

\* _mark_failed, in a unit of work of its own: re-reads the run and records the
\* failure only while it is still RECONCILING.
MarkFailed(p) ==
  LET r == job[p].run IN
  /\ Goto(p, "failing", "raised")
  /\ StateOf(runs[r]) = "RECONCILING"
  /\ "failed" \notin audit[r]
  /\ runs' = [runs EXCEPT ![r] = Advanced(@, "FAILED")]
  /\ audit' = [audit EXCEPT ![r] = @ \cup {"failed"}]
  /\ UNCHANGED <<imported, results, disk, job>>

\* Slip: the handler may give up on a run that is still RECONCILING.
KeepOutcomeAlways(p) ==
  /\ Goto(p, "failing", "raised")
  /\ UNCHANGED <<dbVars, disk, job>>

KeepOutcome(p) ==
  /\ Goto(p, "failing", "raised")
  /\ StateOf(runs[job[p].run]) # "RECONCILING"
  /\ UNCHANGED <<dbVars, disk, job>>

MarkRaises(p) ==
  /\ "mark" \in Faults
  /\ Goto(p, "failing", "raised")
  /\ UNCHANGED <<dbVars, disk, job>>

\* The exception leaves run().
Reraise(p) ==
  /\ pc[p] = "raised"
  /\ Finish(p)
  /\ UNCHANGED <<dbVars, disk>>

(***************************************************************************)
(* A process dies.  Its next incarnation starts idle: nothing is recovered *)
(* at start-up, neither the run it was reconciling nor a file cut short.   *)
(***************************************************************************)
Crash(p) ==
  /\ "crash" \in Faults
  /\ pc[p] # "idle"
  /\ Finish(p)
  /\ UNCHANGED <<dbVars, disk>>

-----------------------------------------------------------------------------
Request(p) ==
  \E r \in RunIds :
    \/ \E docs \in Batches, policy \in Policies : RequestImport(p, r, docs, policy)
    \/ StartReconciliation(p, r)

\* What a live process does next when nothing goes wrong outside it.
Progress(p) ==
  \/ CheckAbsent(p) \/ RefuseExisting(p)
  \/ \E d \in Document :
       CreateFile(p, d) \/ WriteFile(p, d) \/ ReuseFile(p, d) \/ RefuseTornFile(p, d)
  \/ CommitImport(p) \/ RefuseImport(p)
  \/ KernelReturns(p) \/ CommitResults(p) \/ ReturnResult(p)
  \/ MarkFailed(p) \/ KeepOutcome(p) \/ Reraise(p)

Fault(p) ==
  \/ ImportRaises(p) \/ KernelRaises(p) \/ CommitRaises(p)
  \/ LogRaises(p) \/ MarkRaises(p) \/ Crash(p)

Next == \E p \in Procs : Request(p) \/ Progress(p) \/ Fault(p)

Spec == Init /\ [][Next]_vars

\* A live process goes on with its request; nobody is obliged to make one.
FairSpec == Spec /\ \A p \in Procs : WF_vars(Progress(p))

-----------------------------------------------------------------------------
(***************************************************************************)
(* Properties.                                                             *)
(***************************************************************************)

\* Types: rows, files, stages and locals have the shapes the code gives them.
TypeOK ==
  /\ runs \in [RunIds -> Seq(Manifest)]
  /\ imported \in [RunIds -> SUBSET Document]
  /\ results \in [RunIds -> SUBSET SUBSET Document]
  /\ audit \in [RunIds -> SUBSET AuditKind]
  /\ disk \in [RunIds -> [Document -> {"absent", "torn", "whole"}]]
  /\ pc \in [Procs -> Stages]
  /\ job \in [Procs -> Job]

\* The snapshots of every run follow the documented state machine from CREATED,
\* one transition each, although import appends three snapshots unread and
\* CommitResults appends a manifest it read a transaction earlier.
HistoryLegal ==
  \A r \in RunIds : runs[r] # <<>> =>
    /\ runs[r][1].state = "CREATED"
    /\ \A i \in 1..(Len(runs[r]) - 1) :
         <<runs[r][i].state, runs[r][i + 1].state>> \in AllowedTransitions

\* One importer wins a run id: from FILES_ATTACHED on, the input files of every
\* snapshot are exactly the documents that own the run's rows, also when two
\* processes import the same run id side by side.
ManifestMatchesRows ==
  \A r \in RunIds : \A i \in 2..Len(runs[r]) : runs[r][i].files = imported[r]

\* Every row of source_files names a file whose bytes are all on disk, although
\* files are written before, and outside, the transaction that inserts the row.
CommittedFilesWhole ==
  \A r \in RunIds : \A d \in imported[r] : disk[r][d] = "whole"

\* Decisions are visible exactly when the run reads COMPLETED, and they are
\* about the documents of that run: a failed run never appears complete.
ResultsOnlyWhenCompleted ==
  \A r \in RunIds :
    IF StateOf(runs[r]) = "COMPLETED"
      THEN results[r] = {imported[r]}
      ELSE results[r] = {}

States(history) == {history[i].state : i \in 1..Len(history)}

\* The audit trail tells the same story as the snapshots.
AuditMirrorsHistory ==
  \A r \in RunIds :
    /\ "import" \in audit[r] <=> runs[r] # <<>>
    /\ "started" \in audit[r] <=> "RECONCILING" \in States(runs[r])
    /\ "completed" \in audit[r] <=> "COMPLETED" \in States(runs[r])
    /\ "failed" \in audit[r] <=> "FAILED" \in States(runs[r])

\* Between its two units of work a reconciliation owns its run: no other process
\* reconciles it, and the manifest and the events it holds are still current.
ReconcilerOwnsRun ==
  \A p \in Procs : pc[p] \in {"kernel", "commit"} =>
    LET r == job[p].run IN
    /\ runs[r] # <<>> /\ Latest(runs[r]) = job[p].manifest
    /\ imported[r] = job[p].docs
    /\ \A q \in Procs : pc[q] \in {"kernel", "commit"} /\ job[q].run = r => q = p

\* History g begins with history h.
Continues(g, h) == Len(h) <= Len(g) /\ \A i \in 1..Len(h) : g[i] = h[i]

\* Nothing recorded is rewritten: snapshots are only appended, audit events only
\* added, and the rows of an imported run and its decisions never change.
RecordsAreAppendOnly ==
  [][\A r \in RunIds :
       /\ Continues(runs'[r], runs[r])
       /\ audit[r] \subseteq audit'[r]
       /\ imported[r] # {} => imported'[r] = imported[r]
       /\ results[r] # {} => results'[r] = results[r]]_dbVars

\* The run as its readers see it is the run RunPromise describes.
Promise == INSTANCE RunPromise WITH
  DocumentSets <- SUBSET Document,
  phase <- [r \in RunIds |-> StateOf(runs[r])],
  input <- imported,
  published <- results

ImplementsPromise == Promise!Spec

\* A started reconciliation ends, COMPLETED or FAILED, when processes do not die
\* and the handler can write: exceptions of the kernel, of the persistence of
\* the results or of the logger do not leave the run hanging.
ReconciliationEnds ==
  \A r \in RunIds :
    StateOf(runs[r]) = "RECONCILING" ~> StateOf(runs[r]) \in {"COMPLETED", "FAILED"}

\* "Kernel or persistence exception: run transitions from RECONCILING to FAILED":
\* once the exception leaves run(), the run is no longer RECONCILING.
ExceptionMarksFailed ==
  \A p \in Procs : pc[p] = "raised" => StateOf(runs[job[p].run]) # "RECONCILING"
=============================================================================
