------------------------- MODULE RunLifecycleProofs -------------------------
(***************************************************************************)
(* Theorems about RunLifecycle, for every number of processes, runs and    *)
(* documents and for every combination of faults.                          *)
(*                                                                         *)
(* None of the safety properties is inductive alone.  IInv adds what the   *)
(* code relies on without saying so: a process between the two units of    *)
(* work of a reconciliation finds its run as it left it, and an importer   *)
(* has stored, whole, every document it no longer has to store.            *)
(***************************************************************************)
EXTENDS RunLifecycle, TLAPS

Working(p) == pc[p] \in {"kernel", "commit", "failing"}

\* What the tables hold about one run, by the number of its snapshots h: its
\* documents docs, its audit events au and its results res.
TableShape(h, docs, au, res) ==
  /\ Len(h) \in {0, 3, 4, 5}
  /\ Len(h) = 0 => docs = {}
  /\ Len(h) >= 3 =>
       /\ docs # {}
       /\ h[1].state = "CREATED" /\ h[2].state = "FILES_ATTACHED"
       /\ h[3].state = FinalState(docs)
       /\ h[2].files = docs /\ h[3].files = docs
  /\ Len(h) >= 4 =>
       /\ h[3].state = "VALIDATED"
       /\ h[4].state = "RECONCILING" /\ h[4].files = docs
  /\ Len(h) = 5 =>
       /\ h[5].state \in {"COMPLETED", "FAILED"} /\ h[5].files = docs
  /\ "import" \in au <=> Len(h) >= 3
  /\ "started" \in au <=> Len(h) >= 4
  /\ "completed" \in au <=> Len(h) = 5 /\ h[5].state = "COMPLETED"
  /\ "failed" \in au <=> Len(h) = 5 /\ h[5].state = "FAILED"
  /\ res = IF Len(h) = 5 /\ h[5].state = "COMPLETED" THEN {docs} ELSE {}

RunShape(r) == TableShape(runs[r], imported[r], audit[r], results[r])

\* What the locals of a process say about the tables and the file store.
JobShape(p) ==
  LET r == job[p].run IN
  /\ pc[p] # "idle" => r \in RunIds
  /\ pc[p] \in ImportStages =>
       /\ job[p].docs # {}
       /\ \A d \in job[p].docs :
            d \in job[p].todo \cup job[p].open \/ disk[r][d] = "whole"
  /\ pc[p] \in {"check", "store"} => job[p].open = {}
  /\ \A d, e \in job[p].open : d = e
  /\ pc[p] \in {"kernel", "commit"} =>
       /\ Len(runs[r]) = 4
       /\ runs[r][4] = job[p].manifest
       /\ imported[r] = job[p].docs
  /\ pc[p] = "log" => Len(runs[r]) = 5
  /\ pc[p] = "failing" => Len(runs[r]) \in {4, 5}

OneWorker ==
  \A p, q \in Procs :
    /\ Working(p) /\ Working(q)
    /\ job[p].run = job[q].run /\ Len(runs[job[p].run]) = 4
    => p = q

Shapes ==
  /\ \A r \in RunIds : RunShape(r)
  /\ \A p \in Procs : JobShape(p)
  /\ OneWorker
  /\ CommittedFilesWhole

IInv == TypeOK /\ Shapes

-----------------------------------------------------------------------------
(***************************************************************************)
(* Types.                                                                  *)
(***************************************************************************)

\* The snapshots an import appends are manifests.
LEMMA ImportedHistoryType ==
  ASSUME NEW docs \in SUBSET Document, NEW policy \in Policies
  PROVE  /\ ImportedHistory(docs, policy) \in Seq(Manifest)
         /\ Len(ImportedHistory(docs, policy)) = 3
  BY DEF ImportedHistory, Manifest, RunState, FinalState

LEMMA NoJobType == NoJob \in Job
  BY ConstantsAssumption DEF NoJob, Job, NewManifest, Manifest, RunState

LEMMA InitTypeOK == Init => TypeOK
  BY NoJobType DEF Init, TypeOK, Stages

\* Finish and Goto keep the stages and the locals in their types.
LEMMA FinishType ==
  ASSUME NEW p \in Procs, TypeOK, Finish(p)
  PROVE  pc' \in [Procs -> Stages] /\ job' \in [Procs -> Job]
  BY NoJobType DEF TypeOK, Finish, Stages

\* Records built from a manifest are manifests.
LEMMA TransitionedType ==
  ASSUME NEW m \in Manifest, NEW s \in RunState
  PROVE  Transitioned(m, s) \in Manifest /\ Transitioned(m, s).state = s
  BY DEF Transitioned, Manifest

\* The latest snapshot of a run that has one.
LEMMA LatestType ==
  ASSUME NEW h \in Seq(Manifest), h # <<>>
  PROVE  /\ Len(h) \in Nat \ {0}
         /\ Latest(h) \in Manifest
         /\ StateOf(h) = Latest(h).state
  BY DEF Latest, StateOf

LEMMA RequestTypeOK ==
  ASSUME NEW p \in Procs, TypeOK, Request(p)
  PROVE  TypeOK'
<1>1. ASSUME NEW r \in RunIds, NEW docs \in Batches, NEW policy \in Policies,
             RequestImport(p, r, docs, policy)
      PROVE  TypeOK'
  <2>1. docs \in SUBSET Document
    BY ConstantsAssumption
  <2>2. ImportJob(r, docs, policy) \in Job
    BY <2>1 DEF ImportJob, Job, NewManifest, Manifest, RunState
  <2>3. pc' \in [Procs -> Stages] /\ job' \in [Procs -> Job]
    BY <1>1, <2>2 DEF TypeOK, RequestImport, Goto, Stages
  <2>4. QED
    BY <1>1, <2>3 DEF TypeOK, RequestImport, dbVars
<1>2. ASSUME NEW r \in RunIds, StartReconciliation(p, r)
      PROVE  TypeOK'
  <2> DEFINE m == Transitioned(Latest(runs[r]), "RECONCILING")
  <2>1. runs[r] \in Seq(Manifest) /\ imported[r] \in SUBSET Document
    BY DEF TypeOK
  <2>2. runs[r] # <<>>
    BY <1>2 DEF StartReconciliation, StateOf
  <2>3. m \in Manifest
    BY <2>1, <2>2, LatestType, TransitionedType DEF RunState
  <2>4. runs' \in [RunIds -> Seq(Manifest)]
    BY <1>2, <2>1, <2>3 DEF StartReconciliation, Advanced, TypeOK
  <2>5. ReconcileJob(r, m) \in Job
    BY <2>1, <2>3 DEF ReconcileJob, Job
  <2>6. pc' \in [Procs -> Stages] /\ job' \in [Procs -> Job]
    BY <1>2, <2>5 DEF TypeOK, StartReconciliation, Goto, Stages
  <2>7. audit' \in [RunIds -> SUBSET AuditKind]
    BY <1>2 DEF TypeOK, StartReconciliation, AuditKind
  <2>8. QED
    BY <1>2, <2>4, <2>6, <2>7 DEF TypeOK, StartReconciliation
<1>3. QED
  BY <1>1, <1>2 DEF Request

LEMMA ProgressTypeOK ==
  ASSUME NEW p \in Procs, TypeOK, Progress(p)
  PROVE  TypeOK'
<1> USE DEF TypeOK
<1>0. job[p] \in Job /\ pc[p] \in Stages
  OBVIOUS
<1>1. CASE CheckAbsent(p)
  BY <1>1 DEF CheckAbsent, Goto, Stages, dbVars
<1>2. CASE RefuseExisting(p)
  BY <1>2, FinishType DEF RefuseExisting, dbVars
<1>3. ASSUME NEW d \in Document, CreateFile(p, d)
      PROVE  TypeOK'
  <2>1. job' \in [Procs -> Job]
    BY <1>0, <1>3 DEF CreateFile, Job
  <2>2. disk' \in [RunIds -> [Document -> {"absent", "torn", "whole"}]]
    BY <1>3 DEF CreateFile
  <2>3. QED
    BY <1>3, <2>1, <2>2 DEF CreateFile, Goto, Stages, dbVars
<1>4. ASSUME NEW d \in Document, WriteFile(p, d)
      PROVE  TypeOK'
  <2>1. job' \in [Procs -> Job]
    BY <1>0, <1>4 DEF WriteFile, Job
  <2>2. disk' \in [RunIds -> [Document -> {"absent", "torn", "whole"}]]
    BY <1>4 DEF WriteFile
  <2>3. QED
    BY <1>4, <2>1, <2>2 DEF WriteFile, Goto, Stages, dbVars
<1>5. ASSUME NEW d \in Document, ReuseFile(p, d)
      PROVE  TypeOK'
  <2>1. job' \in [Procs -> Job]
    BY <1>0, <1>5 DEF ReuseFile, Job
  <2>2. QED
    BY <1>5, <2>1 DEF ReuseFile, dbVars
<1>6. ASSUME NEW d \in Document, RefuseTornFile(p, d)
      PROVE  TypeOK'
  BY <1>6, FinishType DEF RefuseTornFile, dbVars
<1>7. CASE CommitImport(p)
  <2> DEFINE r == job[p].run
             h == ImportedHistory(job[p].docs, job[p].manifest.policy)
  <2>1. job[p].docs \in SUBSET Document /\ job[p].manifest.policy \in Policies
    BY <1>0 DEF Job, Manifest
  <2>2. h \in Seq(Manifest)
    BY <2>1, ImportedHistoryType
  <2>3. runs' \in [RunIds -> Seq(Manifest)]
    <3>1. r \in RunIds => runs[r] \o h \in Seq(Manifest)
      BY <2>2
    <3>2. QED
      BY <1>7, <3>1 DEF CommitImport
  <2>4. /\ imported' \in [RunIds -> SUBSET Document]
        /\ audit' \in [RunIds -> SUBSET AuditKind]
    BY <1>7, <2>1 DEF CommitImport, AuditKind
  <2>5. pc' \in [Procs -> Stages] /\ job' \in [Procs -> Job]
    BY <1>7, FinishType DEF CommitImport
  <2>6. QED
    BY <1>7, <2>3, <2>4, <2>5 DEF CommitImport
<1>8. CASE RefuseImport(p)
  BY <1>8, FinishType DEF RefuseImport, dbVars
<1>9. CASE KernelReturns(p)
  BY <1>9 DEF KernelReturns, Goto, Stages, dbVars
<1>10. CASE CommitResults(p)
  <2> DEFINE r == job[p].run
             m == Transitioned(job[p].manifest, "COMPLETED")
  <2>1. m \in Manifest /\ job[p].docs \in SUBSET Document
    BY <1>0, TransitionedType DEF Job, RunState
  <2>2. runs' \in [RunIds -> Seq(Manifest)]
    <3>1. r \in RunIds => Append(runs[r], m) \in Seq(Manifest)
      BY <2>1
    <3>2. QED
      BY <1>10, <3>1 DEF CommitResults
  <2>3. /\ results' \in [RunIds -> SUBSET SUBSET Document]
        /\ audit' \in [RunIds -> SUBSET AuditKind]
    BY <1>10, <2>1 DEF CommitResults, AuditKind
  <2>4. QED
    BY <1>10, <2>2, <2>3 DEF CommitResults, Goto, Stages
<1>11. CASE ReturnResult(p)
  BY <1>11, FinishType DEF ReturnResult, dbVars
<1>12. CASE MarkFailed(p)
  <2> DEFINE r == job[p].run
  <2>1. runs' \in [RunIds -> Seq(Manifest)]
    <3>1. ASSUME r \in RunIds
          PROVE  Advanced(runs[r], "FAILED") \in Seq(Manifest)
      <4>1. runs[r] \in Seq(Manifest)
        BY <3>1
      <4>2. runs[r] # <<>>
        BY <1>12 DEF MarkFailed, StateOf
      <4>3. Transitioned(Latest(runs[r]), "FAILED") \in Manifest
        BY <4>1, <4>2, LatestType, TransitionedType DEF RunState
      <4>4. QED
        BY <4>1, <4>3 DEF Advanced
    <3>2. QED
      BY <1>12, <3>1 DEF MarkFailed
  <2>2. audit' \in [RunIds -> SUBSET AuditKind]
    BY <1>12 DEF MarkFailed, AuditKind
  <2>3. QED
    BY <1>12, <2>1, <2>2 DEF MarkFailed, Goto, Stages
<1>13. CASE KeepOutcome(p)
  BY <1>13 DEF KeepOutcome, Goto, Stages, dbVars
<1>14. CASE Reraise(p)
  BY <1>14, FinishType DEF Reraise, dbVars
<1>15. QED
  BY <1>1, <1>2, <1>3, <1>4, <1>5, <1>6, <1>7, <1>8, <1>9, <1>10, <1>11,
     <1>12, <1>13, <1>14 DEF Progress

\* A fault moves the process that suffers it and nothing else.
LEMMA FaultChangesOnlyLocals ==
  ASSUME NEW p \in Procs, Fault(p)
  PROVE  /\ UNCHANGED <<dbVars, disk>>
         /\ \/ Finish(p)
            \/ UNCHANGED job /\ \E s \in {"failing", "raised"} :
                 pc' = [pc EXCEPT ![p] = s]
  BY DEF Fault, ImportRaises, KernelRaises, CommitRaises, LogRaises, MarkRaises,
         Crash, Goto

LEMMA FaultTypeOK ==
  ASSUME NEW p \in Procs, TypeOK, Fault(p)
  PROVE  TypeOK'
<1>1. pc' \in [Procs -> Stages] /\ job' \in [Procs -> Job]
  <2>1. CASE Finish(p)
    BY <2>1, FinishType
  <2>2. CASE UNCHANGED job /\ \E s \in {"failing", "raised"} : pc' = [pc EXCEPT ![p] = s]
    BY <2>2 DEF TypeOK, Stages
  <2>3. QED
    BY <2>1, <2>2, FaultChangesOnlyLocals
<1>2. QED
  BY <1>1, FaultChangesOnlyLocals DEF TypeOK, dbVars

\* Every row, file, stage and local keeps its type, whatever the interleaving
\* and the faults.
THEOREM TypeCorrect == Spec => []TypeOK
<1>1. TypeOK /\ [Next]_vars => TypeOK'
  <2> SUFFICES ASSUME TypeOK, [Next]_vars PROVE TypeOK'
    OBVIOUS
  <2>1. CASE Next
    BY <2>1, RequestTypeOK, ProgressTypeOK, FaultTypeOK DEF Next
  <2>2. CASE UNCHANGED vars
    BY <2>2 DEF TypeOK, vars
  <2>3. QED
    BY <2>1, <2>2
<1>2. QED
  BY InitTypeOK, <1>1, PTL DEF Spec

-----------------------------------------------------------------------------
(***************************************************************************)
(* The inductive invariant.                                                *)
(***************************************************************************)

LEMMA InitShapes == Init => Shapes
  BY DEF Init, Shapes, RunShape, TableShape, JobShape, OneWorker, Working, NoJob,
         CommittedFilesWhole, ImportStages

\* A request that ends without touching the tables or the files.
LEMMA FinishShapes ==
  ASSUME NEW p \in Procs, IInv, Finish(p), UNCHANGED <<dbVars, disk>>
  PROVE  Shapes'
<1>1. \A r \in RunIds : RunShape(r)'
  BY DEF IInv, Shapes, RunShape, dbVars
<1>2. CommittedFilesWhole'
  BY DEF IInv, Shapes, CommittedFilesWhole, dbVars
<1>3. /\ pc'[p] = "idle" /\ job'[p] = NoJob
      /\ \A q \in Procs \ {p} : pc'[q] = pc[q] /\ job'[q] = job[q]
  BY DEF IInv, TypeOK, Finish
<1>4. \A q \in Procs : JobShape(q)'
  BY <1>3 DEF IInv, Shapes, JobShape, ImportStages, NoJob, dbVars
<1>5. OneWorker'
  BY <1>3 DEF IInv, Shapes, OneWorker, Working, dbVars
<1>6. QED
  BY <1>1, <1>2, <1>4, <1>5 DEF Shapes

\* A step of one process that only moves it to a stage its locals allow.
LEMMA MoveShapes ==
  ASSUME NEW p \in Procs, IInv, UNCHANGED <<dbVars, disk, job>>,
         NEW s \in Stages, pc' = [pc EXCEPT ![p] = s],
         \/ pc[p] = "check" /\ s = "store"
         \/ pc[p] = "kernel" /\ s \in {"commit", "failing"}
         \/ pc[p] \in {"commit", "log"} /\ s = "failing"
         \/ pc[p] = "failing" /\ s = "raised"
  PROVE  Shapes'
<1>1. \A r \in RunIds : RunShape(r)'
  BY DEF IInv, Shapes, RunShape, dbVars
<1>2. CommittedFilesWhole'
  BY DEF IInv, Shapes, CommittedFilesWhole, dbVars
<1>3. pc'[p] = s /\ \A q \in Procs \ {p} : pc'[q] = pc[q]
  BY DEF IInv, TypeOK
<1>4. \A q \in Procs : JobShape(q)'
  BY <1>3 DEF IInv, Shapes, JobShape, ImportStages, dbVars
<1>5. OneWorker'
  <2> SUFFICES ASSUME NEW q1 \in Procs, NEW q2 \in Procs,
                      Working(q1)', Working(q2)', job[q1].run = job[q2].run,
                      Len(runs[job[q1].run]) = 4
               PROVE  q1 = q2
    BY DEF OneWorker, dbVars
  <2>1. ASSUME NEW q \in Procs, Working(q)', Len(runs[job[q].run]) = 4
        PROVE  Working(q)
    BY <1>3, <2>1 DEF IInv, Shapes, JobShape, Working
  <2>2. QED
    BY <2>1 DEF IInv, Shapes, OneWorker
<1>6. QED
  BY <1>1, <1>2, <1>4, <1>5 DEF Shapes

\* The shape of a run depends on its rows only.
LEMMA SameRunShape ==
  ASSUME NEW x \in RunIds, RunShape(x),
         runs'[x] = runs[x], imported'[x] = imported[x],
         audit'[x] = audit[x], results'[x] = results[x]
  PROVE  RunShape(x)'
  BY DEF RunShape

LEMMA RequestImportShapes ==
  ASSUME NEW p \in Procs, IInv, NEW r \in RunIds, NEW docs \in Batches,
         NEW policy \in Policies, RequestImport(p, r, docs, policy)
  PROVE  Shapes'
<1>0. UNCHANGED <<dbVars, disk>>
  BY DEF RequestImport
<1>1. \A x \in RunIds : RunShape(x)'
  BY <1>0 DEF IInv, Shapes, RunShape, dbVars
<1>2. CommittedFilesWhole'
  BY <1>0 DEF IInv, Shapes, CommittedFilesWhole, dbVars
<1>3. /\ pc'[p] = "check" /\ job'[p] = ImportJob(r, docs, policy)
      /\ \A q \in Procs \ {p} : pc'[q] = pc[q] /\ job'[q] = job[q]
      /\ docs # {}
  BY DEF IInv, TypeOK, RequestImport, Goto
<1>4. \A q \in Procs : JobShape(q)'
  BY <1>0, <1>3 DEF IInv, Shapes, JobShape, ImportStages, ImportJob, dbVars
<1>5. OneWorker'
  BY <1>0, <1>3 DEF IInv, Shapes, OneWorker, Working, dbVars
<1>6. QED
  BY <1>1, <1>2, <1>4, <1>5 DEF Shapes

\* A step of put: the tables stay, a document leaves todo, its file grows.
LEMMA PutShapes ==
  ASSUME NEW p \in Procs, IInv, NEW d \in Document,
         CreateFile(p, d) \/ WriteFile(p, d) \/ ReuseFile(p, d)
  PROVE  Shapes'
<1> DEFINE r == job[p].run
<1>0. UNCHANGED dbVars /\ r \in RunIds /\ job[p] \in Job
  BY DEF CreateFile, WriteFile, ReuseFile, Goto, IInv, TypeOK, Shapes, JobShape
<1>1. \A x \in RunIds : RunShape(x)'
  BY <1>0 DEF IInv, Shapes, RunShape, dbVars
<1>2. \A x \in RunIds, e \in Document :
        disk[x][e] = "whole" => disk'[x][e] = "whole"
  BY <1>0 DEF IInv, TypeOK, CreateFile, WriteFile, ReuseFile
<1>3. CommittedFilesWhole'
  BY <1>0, <1>2 DEF IInv, TypeOK, Shapes, CommittedFilesWhole, dbVars
<1>4. \A q \in Procs \ {p} : pc'[q] = pc[q] /\ job'[q] = job[q]
  BY DEF IInv, TypeOK, CreateFile, WriteFile, ReuseFile, Goto
<1>5. \A q \in Procs \ {p} : JobShape(q)'
  <2>1. \A q \in Procs : job[q].docs \subseteq Document
    BY DEF IInv, TypeOK, Job
  <2>2. QED
    BY <1>0, <1>2, <1>4, <2>1 DEF IInv, Shapes, JobShape, ImportStages, dbVars
<1>6. /\ job'[p].run = r /\ job'[p].docs = job[p].docs
      /\ pc'[p] \in {"store", "write"}
  BY <1>0 DEF IInv, TypeOK, Job, CreateFile, WriteFile, ReuseFile, Goto
<1>7. JobShape(p)'
  <2>1. CASE CreateFile(p, d)
    <3>1. /\ pc[p] = "store" /\ pc'[p] = "write"
          /\ job'[p].todo = job[p].todo \ {d} /\ job'[p].open = {d}
      BY <1>0, <2>1 DEF IInv, TypeOK, Job, CreateFile, Goto
    <3>2. \A e \in job[p].docs :
            e \in job'[p].todo \cup job'[p].open \/ disk'[r][e] = "whole"
      BY <1>0, <1>2, <3>1 DEF IInv, Shapes, JobShape, Job, ImportStages
    <3>3. job[p].docs # {} /\ \A e, f \in job'[p].open : e = f
      BY <3>1 DEF IInv, Shapes, JobShape, ImportStages
    <3>4. QED
      BY <1>0, <1>6, <3>1, <3>2, <3>3, SMTT(30) DEF JobShape, ImportStages
  <2>2. CASE WriteFile(p, d)
    <3>1. /\ pc[p] = "write" /\ pc'[p] = "store" /\ d \in job[p].open
          /\ job'[p].todo = job[p].todo /\ job'[p].open = {}
          /\ disk'[r][d] = "whole"
      BY <1>0, <2>2 DEF IInv, TypeOK, Job, WriteFile, Goto
    <3>2. job[p].open = {d}
      BY <3>1 DEF IInv, Shapes, JobShape
    <3>3. /\ job[p].docs # {}
          /\ \A e \in job[p].docs :
               e \in job'[p].todo \cup job'[p].open \/ disk'[r][e] = "whole"
      BY <1>0, <1>2, <3>1, <3>2 DEF IInv, Shapes, JobShape, Job, ImportStages
    <3>4. QED
      BY <1>0, <1>6, <3>1, <3>3 DEF JobShape, ImportStages
  <2>3. CASE ReuseFile(p, d)
    <3>1. /\ pc[p] = "store" /\ pc'[p] = "store"
          /\ job'[p].todo = job[p].todo \ {d} /\ job'[p].open = job[p].open
          /\ disk'[r][d] = "whole"
      BY <1>0, <2>3 DEF IInv, TypeOK, Job, ReuseFile
    <3>2. \A e \in job[p].docs :
            e \in job'[p].todo \cup job'[p].open \/ disk'[r][e] = "whole"
      BY <1>0, <1>2, <3>1 DEF IInv, Shapes, JobShape, Job, ImportStages
    <3>3. job[p].docs # {} /\ job[p].open = {}
      BY <3>1 DEF IInv, Shapes, JobShape, ImportStages
    <3>4. QED
      BY <1>0, <1>6, <3>1, <3>2, <3>3 DEF JobShape, ImportStages
  <2>4. QED
    BY <2>1, <2>2, <2>3
<1>8. OneWorker'
  BY <1>0, <1>4, <1>6 DEF IInv, Shapes, OneWorker, Working, dbVars
<1>9. QED
  BY <1>1, <1>3, <1>5, <1>7, <1>8 DEF Shapes

\* Import commits only where nothing was imported before.
LEMMA CommitImportFindsNothing ==
  ASSUME NEW p \in Procs, IInv, CommitImport(p)
  PROVE  /\ job[p].run \in RunIds
         /\ runs[job[p].run] = <<>> /\ imported[job[p].run] = {}
         /\ audit[job[p].run] = {} /\ results[job[p].run] = {}
<1> DEFINE r == job[p].run
<1>1. r \in RunIds /\ runs[r] \in Seq(Manifest) /\ audit[r] \subseteq AuditKind
  BY DEF CommitImport, IInv, TypeOK, Shapes, JobShape
<1>2. "import" \notin audit[r]
  BY DEF CommitImport, ImportConflicts
<1>3. RunShape(r)
  BY <1>1 DEF IInv, Shapes
<1>4. Len(runs[r]) = 0
  BY <1>2, <1>3 DEF RunShape, TableShape
<1>5. runs[r] = <<>>
  BY <1>1, <1>4
<1>6. audit[r] = {}
  BY <1>1, <1>3, <1>4 DEF RunShape, TableShape, AuditKind
<1>7. QED
  BY <1>1, <1>3, <1>4, <1>5, <1>6 DEF RunShape, TableShape

LEMMA CommitImportShapes ==
  ASSUME NEW p \in Procs, NEW r \in RunIds, r = job[p].run,
         IInv, CommitImport(p)
  PROVE  Shapes'
<1> DEFINE docs == job[p].docs
           h == ImportedHistory(docs, job[p].manifest.policy)
<1>1. /\ r \in RunIds /\ runs[r] = <<>> /\ imported[r] = {}
      /\ audit[r] = {} /\ results[r] = {}
  BY CommitImportFindsNothing
<1>2. /\ docs # {} /\ docs \subseteq Document
      /\ \A d \in docs : disk[r][d] = "whole"
  BY DEF CommitImport, IInv, TypeOK, Job, Shapes, JobShape, ImportStages
<1>3. /\ runs'[r] = h /\ imported'[r] = docs /\ audit'[r] = {"import"}
      /\ results' = results /\ disk' = disk
      /\ \A x \in RunIds \ {r} :
           runs'[x] = runs[x] /\ imported'[x] = imported[x] /\ audit'[x] = audit[x]
  <2>1. <<>> \o h = h
    BY DEF ImportedHistory
  <2>2. QED
    BY <1>1, <2>1 DEF CommitImport, IInv, TypeOK
<1>4. /\ Len(h) = 3
      /\ h[1].state = "CREATED" /\ h[2].state = "FILES_ATTACHED"
      /\ h[3].state = FinalState(docs) /\ h[2].files = docs /\ h[3].files = docs
  BY DEF ImportedHistory
<1>5. \A x \in RunIds : RunShape(x)'
  <2>1. RunShape(r)'
    <3>1. TableShape(h, docs, {"import"}, {})
      BY <1>2, <1>4 DEF TableShape
    <3>2. QED
      BY <1>1, <1>3, <3>1 DEF RunShape
  <2>2. \A x \in RunIds \ {r} : RunShape(x)'
    BY <1>3, SameRunShape DEF IInv, Shapes
  <2>3. QED
    BY <2>1, <2>2
<1>6. CommittedFilesWhole'
  BY <1>2, <1>3 DEF IInv, Shapes, CommittedFilesWhole
<1>7. /\ pc'[p] = "idle" /\ job'[p] = NoJob
      /\ \A q \in Procs \ {p} : pc'[q] = pc[q] /\ job'[q] = job[q]
  BY DEF IInv, TypeOK, CommitImport, Finish
<1>8. \A q \in Procs : JobShape(q)'
  <2>1. JobShape(p)'
    BY <1>7 DEF JobShape, ImportStages, NoJob
  <2>2. ASSUME NEW q \in Procs \ {p}
        PROVE  JobShape(q)'
    <3>1. JobShape(q)
      BY DEF IInv, Shapes
    <3>2. pc[q] \in {"kernel", "commit", "log", "failing"} => job[q].run # r
      BY <1>1, <3>1 DEF JobShape
    <3>3. QED
      BY <1>3, <1>7, <3>1, <3>2 DEF JobShape, ImportStages
  <2>3. QED
    BY <2>1, <2>2
<1>9. OneWorker'
  BY <1>3, <1>4, <1>7 DEF IInv, Shapes, OneWorker, Working, JobShape
<1>10. QED
  BY <1>5, <1>6, <1>8, <1>9 DEF Shapes

\* History g is history h and snapshot m after it.
OneMore(g, h, m) ==
  /\ Len(g) = Len(h) + 1
  /\ g[Len(h) + 1] = m
  /\ \A i \in 1..Len(h) : g[i] = h[i]

LEMMA AppendAddsOne ==
  ASSUME NEW h \in Seq(Manifest), NEW m \in Manifest
  PROVE  OneMore(Append(h, m), h, m)
  BY DEF OneMore

\* Starting adds the fourth snapshot and its audit event.
LEMMA ShapeStarted ==
  ASSUME NEW h \in Seq(Manifest), NEW docs, NEW au, NEW res,
         TableShape(h, docs, au, res), Len(h) = 3, h[3].state = "VALIDATED",
         NEW m \in Manifest, m.state = "RECONCILING", m.files = docs,
         NEW g, OneMore(g, h, m)
  PROVE  TableShape(g, docs, au \cup {"started"}, res)
<1>1. Len(g) = 4 /\ g[4] = m /\ g[1] = h[1] /\ g[2] = h[2] /\ g[3] = h[3]
  BY DEF OneMore
<1>2. QED
  BY <1>1 DEF TableShape

\* Closing adds the fifth snapshot and its audit event.
LEMMA ShapeClosed ==
  ASSUME NEW h \in Seq(Manifest), NEW docs, NEW au, NEW res,
         TableShape(h, docs, au, res), Len(h) = 4,
         NEW m \in Manifest, m.state \in {"COMPLETED", "FAILED"}, m.files = docs,
         NEW g, OneMore(g, h, m)
  PROVE  TableShape(g, docs,
           au \cup {IF m.state = "COMPLETED" THEN "completed" ELSE "failed"},
           IF m.state = "COMPLETED" THEN {docs} ELSE res)
<1>1. /\ Len(g) = 5 /\ g[5] = m
      /\ g[1] = h[1] /\ g[2] = h[2] /\ g[3] = h[3] /\ g[4] = h[4]
  BY DEF OneMore
<1>2. CASE m.state = "COMPLETED"
  BY <1>1, <1>2 DEF TableShape
<1>3. CASE m.state = "FAILED"
  BY <1>1, <1>3 DEF TableShape
<1>4. QED
  BY <1>2, <1>3

\* What a reader is told tells how many snapshots there are.
LEMMA ShapeState ==
  ASSUME NEW r \in RunIds, IInv
  PROVE  /\ runs[r] \in Seq(Manifest)
         /\ Len(runs[r]) = 0 <=> StateOf(runs[r]) = "ABSENT"
         /\ Len(runs[r]) = 3 <=> StateOf(runs[r]) \in {"VALIDATED", "FAILED_VALIDATION"}
         /\ Len(runs[r]) = 4 <=> StateOf(runs[r]) = "RECONCILING"
         /\ Len(runs[r]) = 5 <=> StateOf(runs[r]) \in {"COMPLETED", "FAILED"}
         /\ runs[r] = <<>> \/ StateOf(runs[r]) = runs[r][Len(runs[r])].state
<1>1. runs[r] \in Seq(Manifest) /\ RunShape(r)
  BY DEF IInv, TypeOK, Shapes
<1>2. FinalState(imported[r]) \in {"VALIDATED", "FAILED_VALIDATION"}
  BY DEF FinalState
<1>3. CASE runs[r] = <<>>
  BY <1>1, <1>3 DEF StateOf
<1>4. CASE runs[r] # <<>>
  <2>1. StateOf(runs[r]) = runs[r][Len(runs[r])].state /\ Len(runs[r]) # 0
    BY <1>1, <1>4 DEF StateOf, Latest
  <2>2. Len(runs[r]) \in {3, 4, 5}
    BY <1>1, <2>1 DEF RunShape, TableShape
  <2>3. CASE Len(runs[r]) = 3
    BY <1>1, <1>2, <2>1, <2>3 DEF RunShape, TableShape
  <2>4. CASE Len(runs[r]) = 4
    BY <1>1, <2>1, <2>4 DEF RunShape, TableShape
  <2>5. CASE Len(runs[r]) = 5
    BY <1>1, <2>1, <2>5 DEF RunShape, TableShape
  <2>6. QED
    BY <1>1, <2>2, <2>3, <2>4, <2>5
<1>5. QED
  BY <1>3, <1>4

\* A reconciliation starts on a run with three snapshots, which nobody works on.
LEMMA StartFindsValidated ==
  ASSUME NEW p \in Procs, NEW r \in RunIds, IInv, StartReconciliation(p, r)
  PROVE  /\ runs[r] \in Seq(Manifest) /\ Len(runs[r]) = 3
         /\ runs[r][3].state = "VALIDATED"
         /\ \A q \in Procs : job[q].run = r =>
              pc[q] \notin {"kernel", "commit", "log", "failing"}
<1>1. runs[r] \in Seq(Manifest) /\ RunShape(r) /\ StateOf(runs[r]) = "VALIDATED"
  BY DEF StartReconciliation, IInv, TypeOK, Shapes
<1>2. Len(runs[r]) = 3 /\ runs[r][3].state = "VALIDATED"
  <2>1. Len(runs[r]) = 3
    BY <1>1, ShapeState
  <2>2. runs[r] # <<>>
    BY <2>1
  <2>3. QED
    BY <1>1, <2>1, <2>2 DEF StateOf, Latest
<1>3. ASSUME NEW q \in Procs, job[q].run = r
      PROVE  pc[q] \notin {"kernel", "commit", "log", "failing"}
  <2>1. JobShape(q)
    BY DEF IInv, Shapes
  <2>2. QED
    BY <1>2, <1>3, <2>1 DEF JobShape
<1>4. QED
  BY <1>1, <1>2, <1>3

LEMMA StartReconciliationShapes ==
  ASSUME NEW p \in Procs, NEW r \in RunIds, IInv, StartReconciliation(p, r)
  PROVE  Shapes'
<1> DEFINE m == Transitioned(runs[r][3], "RECONCILING")
<1>1. /\ runs[r] \in Seq(Manifest) /\ Len(runs[r]) = 3
      /\ runs[r][3].state = "VALIDATED" /\ RunShape(r)
  BY StartFindsValidated DEF IInv, Shapes
<1>2. /\ runs'[r] = Append(runs[r], m)
      /\ audit'[r] = audit[r] \cup {"started"}
      /\ imported' = imported /\ results' = results /\ disk' = disk
      /\ \A x \in RunIds \ {r} : runs'[x] = runs[x] /\ audit'[x] = audit[x]
  BY <1>1 DEF StartReconciliation, IInv, TypeOK, Advanced, Latest
<1>3. /\ Len(runs'[r]) = 4 /\ runs'[r][4] = m
      /\ \A i \in 1..3 : runs'[r][i] = runs[r][i]
  BY <1>1, <1>2
<1>4. m.state = "RECONCILING" /\ m.files = imported[r]
  BY <1>1 DEF Transitioned, RunShape, TableShape
<1>5. \A x \in RunIds : RunShape(x)'
  <2>1. RunShape(r)'
    <3>1. m \in Manifest
      BY <1>1, TransitionedType DEF RunState
    <3>2. OneMore(runs'[r], runs[r], m)
      BY <1>1, <1>2, <3>1, AppendAddsOne
    <3>3. QED
      BY <1>1, <1>2, <1>4, <3>1, <3>2, ShapeStarted DEF RunShape
  <2>2. \A x \in RunIds \ {r} : RunShape(x)'
    BY <1>2, SameRunShape DEF IInv, Shapes
  <2>3. QED
    BY <2>1, <2>2
<1>6. CommittedFilesWhole'
  BY <1>2 DEF IInv, Shapes, CommittedFilesWhole
<1>7. /\ pc[p] = "idle" /\ pc'[p] = "kernel" /\ job'[p] = ReconcileJob(r, m)
      /\ \A q \in Procs \ {p} : pc'[q] = pc[q] /\ job'[q] = job[q]
  BY <1>1 DEF IInv, TypeOK, StartReconciliation, Goto, Latest
<1>8. \A q \in Procs : JobShape(q)'
  <2>1. JobShape(p)'
    <3>1. /\ job'[p].run = r /\ job'[p].docs = imported'[r]
          /\ job'[p].open = {} /\ job'[p].manifest = m
      BY <1>2, <1>7 DEF ReconcileJob
    <3>2. QED
      BY <1>3, <1>7, <3>1 DEF JobShape, ImportStages
  <2>2. ASSUME NEW q \in Procs \ {p}
        PROVE  JobShape(q)'
    <3>1. /\ JobShape(q)
          /\ job[q].run = r => pc[q] \notin {"kernel", "commit", "log", "failing"}
      BY StartFindsValidated DEF IInv, Shapes
    <3>2. QED
      BY <1>2, <1>7, <3>1 DEF JobShape, ImportStages
  <2>3. QED
    BY <2>1, <2>2
<1>9. OneWorker'
  <2> SUFFICES ASSUME NEW q1 \in Procs, NEW q2 \in Procs,
                      Working(q1)', Working(q2)', job'[q1].run = job'[q2].run,
                      Len(runs'[job'[q1].run]) = 4
               PROVE  q1 = q2
    BY DEF OneWorker
  <2>1. job'[p].run = r
    BY <1>7 DEF ReconcileJob
  <2>2. \A q \in Procs \ {p} : Working(q)' => job'[q].run \in RunIds \ {r}
    BY <1>7, StartFindsValidated DEF IInv, Shapes, JobShape, Working
  <2>3. \A q \in Procs \ {p} : Working(q)' => Working(q)
    BY <1>7 DEF Working
  <2>4. QED
    BY <1>2, <1>7, <2>1, <2>2, <2>3 DEF IInv, Shapes, OneWorker
<1>10. QED
  BY <1>5, <1>6, <1>8, <1>9 DEF Shapes

\* The last step of a reconciliation: its run gets a fifth snapshot, and nobody
\* else stands between the two units of work on that run.
LEMMA CloseShapes ==
  ASSUME NEW p \in Procs, NEW r \in RunIds, r = job[p].run, IInv,
         Working(p), Len(runs[r]) = 4,
         NEW s \in {"COMPLETED", "FAILED"}, NEW m \in Manifest,
         m.state = s, m.files = imported[r],
         runs' = [runs EXCEPT ![r] = Append(@, m)],
         audit' = [audit EXCEPT ![r] =
           @ \cup {IF s = "COMPLETED" THEN "completed" ELSE "failed"}],
         results' = [results EXCEPT ![r] = IF s = "COMPLETED" THEN {imported[r]} ELSE @],
         UNCHANGED <<imported, disk, job>>,
         pc' = [pc EXCEPT ![p] = IF s = "COMPLETED" THEN "log" ELSE "raised"]
  PROVE  Shapes'
<1>1. runs[r] \in Seq(Manifest) /\ RunShape(r)
  BY DEF IInv, TypeOK, Shapes
<1>2. /\ runs'[r] = Append(runs[r], m)
      /\ audit'[r] = audit[r] \cup {IF s = "COMPLETED" THEN "completed" ELSE "failed"}
      /\ results'[r] = IF s = "COMPLETED" THEN {imported[r]} ELSE results[r]
      /\ \A x \in RunIds \ {r} :
           runs'[x] = runs[x] /\ audit'[x] = audit[x] /\ results'[x] = results[x]
  BY DEF IInv, TypeOK
<1>a. OneMore(runs'[r], runs[r], m)
  BY <1>1, <1>2, AppendAddsOne
<1>3. /\ Len(runs'[r]) = 5 /\ runs'[r][5] = m
      /\ \A i \in 1..4 : runs'[r][i] = runs[r][i]
  BY <1>1, <1>a DEF OneMore
<1>4. \A x \in RunIds : RunShape(x)'
  <2>1. RunShape(r)'
    <3>1. TableShape(runs'[r], imported[r],
            audit[r] \cup {IF s = "COMPLETED" THEN "completed" ELSE "failed"},
            IF s = "COMPLETED" THEN {imported[r]} ELSE results[r])
      BY <1>1, <1>a, ShapeClosed DEF RunShape
    <3>2. QED
      BY <1>2, <3>1 DEF RunShape
  <2>2. \A x \in RunIds \ {r} : RunShape(x)'
    BY <1>2, SameRunShape DEF IInv, Shapes
  <2>3. QED
    BY <2>1, <2>2
<1>5. CommittedFilesWhole'
  BY DEF IInv, Shapes, CommittedFilesWhole
<1>6. /\ pc'[p] \in {"log", "raised"}
      /\ \A q \in Procs \ {p} : pc'[q] = pc[q]
  BY DEF IInv, TypeOK
<1>7. \A q \in Procs \ {p} : Working(q) => job[q].run # r
  BY DEF IInv, Shapes, OneWorker
<1>8. \A q \in Procs : JobShape(q)'
  <2>1. JobShape(p)'
    <3>1. \A d, e \in job[p].open : d = e
      BY DEF IInv, Shapes, JobShape
    <3>2. QED
      BY <1>3, <1>6, <3>1 DEF JobShape, ImportStages
  <2>2. ASSUME NEW q \in Procs \ {p}
        PROVE  JobShape(q)'
    <3>1. JobShape(q) /\ pc'[q] = pc[q] /\ job' = job
      BY <1>6 DEF IInv, Shapes
    <3>2. CASE job[q].run = r
      BY <1>3, <1>7, <3>1, <3>2 DEF JobShape, Working, ImportStages
    <3>3. CASE job[q].run # r
      BY <1>2, <3>1, <3>3 DEF JobShape, ImportStages
    <3>4. QED
      BY <3>2, <3>3
  <2>3. QED
    BY <2>1, <2>2
<1>9. OneWorker'
  <2> SUFFICES ASSUME NEW q1 \in Procs, NEW q2 \in Procs,
                      Working(q1)', Working(q2)', job[q1].run = job[q2].run,
                      Len(runs'[job[q1].run]) = 4
               PROVE  q1 = q2
    BY DEF OneWorker
  <2>1. \A q \in Procs : Working(q)' => q # p /\ Working(q) /\ job[q].run \in RunIds
    BY <1>6 DEF IInv, Shapes, JobShape, Working
  <2>2. job[q1].run # r
    BY <1>7, <2>1
  <2>3. QED
    BY <1>2, <2>1, <2>2 DEF IInv, Shapes, OneWorker
<1>10. QED
  BY <1>4, <1>5, <1>8, <1>9 DEF Shapes

LEMMA CommitResultsShapes ==
  ASSUME NEW p \in Procs, IInv, CommitResults(p)
  PROVE  Shapes'
<1> DEFINE r == job[p].run
           m == Transitioned(job[p].manifest, "COMPLETED")
<1>1. /\ r \in RunIds /\ pc[p] = "commit" /\ job[p] \in Job
      /\ RunShape(r) /\ JobShape(p)
  BY DEF CommitResults, Goto, IInv, TypeOK, Shapes, JobShape
<1>2. /\ Len(runs[r]) = 4 /\ runs[r][4] = job[p].manifest
      /\ imported[r] = job[p].docs
  BY <1>1 DEF JobShape
<1>3. m \in Manifest /\ m.state = "COMPLETED" /\ m.files = imported[r]
  <2>1. job[p].manifest \in Manifest /\ runs[r][4].files = imported[r]
    BY <1>1, <1>2 DEF Job, RunShape, TableShape
  <2>2. m \in Manifest /\ m.state = "COMPLETED"
    BY <2>1, TransitionedType DEF RunState
  <2>3. m.files = job[p].manifest.files
    BY DEF Transitioned
  <2>4. QED
    BY <1>2, <2>1, <2>2, <2>3
<1>4. Working(p)
  BY <1>1 DEF Working
<1>5. QED
  BY <1>1, <1>2, <1>3, <1>4, CloseShapes DEF CommitResults, Goto

LEMMA MarkFailedShapes ==
  ASSUME NEW p \in Procs, IInv, MarkFailed(p)
  PROVE  Shapes'
<1> DEFINE r == job[p].run
           m == Transitioned(Latest(runs[r]), "FAILED")
<1>1. /\ r \in RunIds /\ pc[p] = "failing" /\ runs[r] \in Seq(Manifest)
      /\ RunShape(r) /\ JobShape(p) /\ StateOf(runs[r]) = "RECONCILING"
  BY DEF MarkFailed, Goto, IInv, TypeOK, Shapes, JobShape
<1>2. Len(runs[r]) = 4 /\ Latest(runs[r]) = runs[r][4]
  BY <1>1, ShapeState DEF Latest
<1>3. runs[r][4] \in Manifest
  BY <1>1, <1>2
<1>4. m \in Manifest /\ m.state = "FAILED" /\ m.files = imported[r]
  <2>1. m \in Manifest /\ m.state = "FAILED"
    BY <1>2, <1>3, TransitionedType DEF RunState
  <2>2. m.files = runs[r][4].files
    BY <1>2 DEF Transitioned
  <2>3. QED
    BY <1>1, <1>2, <2>1, <2>2 DEF RunShape, TableShape
<1>5. Working(p)
  BY <1>1 DEF Working
<1>6. results' = [results EXCEPT ![r] = @]
  BY DEF MarkFailed, IInv, TypeOK
<1>7. QED
  BY <1>1, <1>2, <1>4, <1>5, <1>6, CloseShapes DEF MarkFailed, Goto, Advanced

LEMMA StutterShapes == IInv /\ UNCHANGED vars => Shapes'
<1> SUFFICES ASSUME IInv, UNCHANGED vars PROVE Shapes'
  OBVIOUS
<1>1. \A x \in RunIds : RunShape(x)'
  BY SameRunShape DEF IInv, Shapes, vars
<1>2. \A q \in Procs : JobShape(q)'
  BY DEF IInv, Shapes, JobShape, vars
<1>3. OneWorker'
  BY DEF IInv, Shapes, OneWorker, Working, vars
<1>4. CommittedFilesWhole'
  BY DEF IInv, Shapes, CommittedFilesWhole, vars
<1>5. QED
  BY <1>1, <1>2, <1>3, <1>4 DEF Shapes

LEMMA FaultShapes ==
  ASSUME NEW p \in Procs, IInv, Fault(p)
  PROVE  Shapes'
<1>1. CASE Finish(p)
  BY <1>1, FinishShapes, FaultChangesOnlyLocals
<1>2. CASE KernelRaises(p) \/ CommitRaises(p) \/ LogRaises(p)
  BY <1>2, MoveShapes DEF KernelRaises, CommitRaises, LogRaises, Goto, Stages
<1>3. CASE MarkRaises(p)
  BY <1>3, MoveShapes DEF MarkRaises, Goto, Stages
<1>4. QED
  BY <1>1, <1>2, <1>3 DEF Fault, ImportRaises, Crash

LEMMA ProgressShapes ==
  ASSUME NEW p \in Procs, IInv, Progress(p)
  PROVE  Shapes'
<1>1. CASE CheckAbsent(p)
  BY <1>1, MoveShapes DEF CheckAbsent, Goto, Stages
<1>2. CASE RefuseExisting(p) \/ RefuseImport(p) \/ ReturnResult(p) \/ Reraise(p)
  BY <1>2, FinishShapes DEF RefuseExisting, RefuseImport, ReturnResult, Reraise
<1>3. ASSUME NEW d \in Document, CreateFile(p, d) \/ WriteFile(p, d) \/ ReuseFile(p, d)
      PROVE  Shapes'
  BY <1>3, PutShapes
<1>4. ASSUME NEW d \in Document, RefuseTornFile(p, d)
      PROVE  Shapes'
  BY <1>4, FinishShapes DEF RefuseTornFile
<1>5. CASE CommitImport(p)
  BY <1>5, CommitImportFindsNothing, CommitImportShapes
<1>6. CASE KernelReturns(p)
  BY <1>6, MoveShapes DEF KernelReturns, Goto, Stages
<1>7. CASE CommitResults(p)
  BY <1>7, CommitResultsShapes
<1>8. CASE MarkFailed(p)
  BY <1>8, MarkFailedShapes
<1>9. CASE KeepOutcome(p)
  BY <1>9, MoveShapes DEF KeepOutcome, Goto, Stages
<1>10. QED
  BY <1>1, <1>2, <1>3, <1>4, <1>5, <1>6, <1>7, <1>8, <1>9 DEF Progress

\* The strengthened invariant holds in every reachable state.
THEOREM InductiveInvariant == Spec => []IInv
<1>1. Init => IInv
  BY InitTypeOK, InitShapes DEF IInv
<1>2. TypeOK /\ TypeOK' /\ IInv /\ [Next]_vars => IInv'
  <2> SUFFICES ASSUME IInv, TypeOK', [Next]_vars PROVE Shapes'
    BY DEF IInv
  <2>1. ASSUME NEW p \in Procs, Request(p) PROVE Shapes'
    BY <2>1, RequestImportShapes, StartReconciliationShapes DEF Request
  <2>2. CASE Next
    BY <2>1, <2>2, ProgressShapes, FaultShapes DEF Next
  <2>3. CASE UNCHANGED vars
    BY <2>3, StutterShapes
  <2>4. QED
    BY <2>2, <2>3
<1>3. QED
  BY <1>1, <1>2, TypeCorrect, PTL DEF Spec

-----------------------------------------------------------------------------
(***************************************************************************)
(* What follows from the invariant in each state.                          *)
(***************************************************************************)

\* Where a snapshot, and a pair of neighbours, may stand in a history.
LEMMA SnapshotSlots ==
  ASSUME NEW n \in {0, 3, 4, 5}, NEW i \in 2..n
  PROVE  /\ n >= 3 /\ i \in {2, 3, 4, 5}
         /\ i = 4 => n >= 4
         /\ i = 5 => n = 5
  OBVIOUS

LEMMA TransitionSlots ==
  ASSUME NEW n \in {3, 4, 5}, NEW i \in 1..(n - 1)
  PROVE  i \in {1, 2, 3, 4} /\ (i = 3 => n >= 4) /\ (i = 4 => n = 5)
  OBVIOUS

\* Whatever processes do to one run side by side, and wherever they die, its
\* snapshots follow the documented state machine.
THEOREM HistoryIsLegal == Spec => []HistoryLegal
<1>1. IInv => HistoryLegal
  <2> SUFFICES ASSUME IInv, NEW r \in RunIds, runs[r] # <<>>
               PROVE  /\ runs[r][1].state = "CREATED"
                      /\ \A i \in 1..(Len(runs[r]) - 1) :
                           <<runs[r][i].state, runs[r][i + 1].state>> \in AllowedTransitions
    BY DEF HistoryLegal
  <2>1. runs[r] \in Seq(Manifest) /\ RunShape(r)
    BY DEF IInv, TypeOK, Shapes
  <2>2. Len(runs[r]) \in {3, 4, 5}
    BY <2>1 DEF RunShape, TableShape
  <2>3. /\ runs[r][1].state = "CREATED" /\ runs[r][2].state = "FILES_ATTACHED"
        /\ runs[r][3].state \in {"VALIDATED", "FAILED_VALIDATION"}
    BY <2>1, <2>2 DEF RunShape, TableShape, FinalState
  <2>4. /\ Len(runs[r]) >= 4 => /\ runs[r][3].state = "VALIDATED"
                                /\ runs[r][4].state = "RECONCILING"
        /\ Len(runs[r]) = 5 => runs[r][5].state \in {"COMPLETED", "FAILED"}
    BY <2>1 DEF RunShape, TableShape
  <2>5. ASSUME NEW i \in 1..(Len(runs[r]) - 1)
        PROVE  <<runs[r][i].state, runs[r][i + 1].state>> \in AllowedTransitions
    <3>1. i \in {1, 2, 3, 4} /\ (i = 3 => Len(runs[r]) >= 4) /\ (i = 4 => Len(runs[r]) = 5)
      BY <2>2, TransitionSlots
    <3>2. CASE i \in {1, 2}
      BY <2>3, <3>2 DEF AllowedTransitions
    <3>3. CASE i = 3
      BY <2>4, <3>1, <3>3 DEF AllowedTransitions
    <3>4. CASE i = 4
      BY <2>4, <3>1, <3>4 DEF AllowedTransitions
    <3>5. QED
      BY <3>1, <3>2, <3>3, <3>4
  <2>6. QED
    BY <2>3, <2>5
<1>2. QED
  BY <1>1, InductiveInvariant, PTL

\* One importer wins a run id: the manifest's files are the documents with rows.
THEOREM OneImporterWins == Spec => []ManifestMatchesRows
<1>1. IInv => ManifestMatchesRows
  <2> SUFFICES ASSUME IInv, NEW r \in RunIds, NEW i \in 2..Len(runs[r])
               PROVE  runs[r][i].files = imported[r]
    BY DEF ManifestMatchesRows
  <2>1. runs[r] \in Seq(Manifest) /\ RunShape(r)
    BY DEF IInv, TypeOK, Shapes
  <2>2. Len(runs[r]) \in {0, 3, 4, 5}
    BY <2>1 DEF RunShape, TableShape
  <2>3. /\ Len(runs[r]) >= 3 /\ i \in {2, 3, 4, 5}
        /\ i = 4 => Len(runs[r]) >= 4
        /\ i = 5 => Len(runs[r]) = 5
    BY <2>2, SnapshotSlots
  <2>4. QED
    BY <2>1, <2>3 DEF RunShape, TableShape
<1>2. QED
  BY <1>1, InductiveInvariant, PTL

\* Every committed row names a file that is whole on disk.
THEOREM CommittedFilesAreWhole == Spec => []CommittedFilesWhole
<1>1. IInv => CommittedFilesWhole
  BY DEF IInv, Shapes
<1>2. QED
  BY <1>1, InductiveInvariant, PTL

\* A failed or unfinished run never appears complete, a complete one has the
\* results of its own documents.
THEOREM FailedNeverLooksComplete == Spec => []ResultsOnlyWhenCompleted
<1>1. IInv => ResultsOnlyWhenCompleted
  <2> SUFFICES ASSUME IInv, NEW r \in RunIds
               PROVE  IF StateOf(runs[r]) = "COMPLETED"
                        THEN results[r] = {imported[r]} ELSE results[r] = {}
    BY DEF ResultsOnlyWhenCompleted
  <2>1. RunShape(r) /\ runs[r] \in Seq(Manifest)
    BY DEF IInv, Shapes, TypeOK
  <2>2. CASE Len(runs[r]) = 5
    <3>1. runs[r] # <<>>
      <4>1. StateOf(runs[r]) \in {"COMPLETED", "FAILED"}
        BY <2>2, ShapeState
      <4>2. QED
        BY <4>1 DEF StateOf
    <3>2. StateOf(runs[r]) = runs[r][5].state
      BY <2>2, <3>1, ShapeState
    <3>3. QED
      BY <2>1, <2>2, <3>2 DEF RunShape, TableShape
  <2>3. CASE Len(runs[r]) # 5
    <3>1. StateOf(runs[r]) # "COMPLETED"
      BY <2>3, ShapeState
    <3>2. results[r] = {}
      BY <2>1, <2>3 DEF RunShape, TableShape
    <3>3. QED
      BY <3>1, <3>2
  <2>4. QED
    BY <2>2, <2>3
<1>2. QED
  BY <1>1, InductiveInvariant, PTL

\* The audit trail and the snapshots agree on what happened to every run.
THEOREM AuditTellsTheHistory == Spec => []AuditMirrorsHistory
<1>1. IInv => AuditMirrorsHistory
  <2> SUFFICES ASSUME IInv, NEW r \in RunIds
               PROVE  /\ "import" \in audit[r] <=> runs[r] # <<>>
                      /\ "started" \in audit[r] <=> "RECONCILING" \in States(runs[r])
                      /\ "completed" \in audit[r] <=> "COMPLETED" \in States(runs[r])
                      /\ "failed" \in audit[r] <=> "FAILED" \in States(runs[r])
    BY DEF AuditMirrorsHistory
  <2>1. RunShape(r) /\ runs[r] \in Seq(Manifest)
    BY DEF IInv, Shapes, TypeOK
  <2>2. Len(runs[r]) \in {0, 3, 4, 5} /\ (runs[r] = <<>> <=> Len(runs[r]) = 0)
    BY <2>1 DEF RunShape, TableShape
  <2>3. FinalState(imported[r]) \in {"VALIDATED", "FAILED_VALIDATION"}
    BY DEF FinalState
  <2>4. CASE Len(runs[r]) = 0
    <3>1. States(runs[r]) = {}
      BY <2>4 DEF States
    <3>2. QED
      BY <2>1, <2>2, <2>4, <3>1 DEF RunShape, TableShape
  <2>5. CASE Len(runs[r]) = 3
    <3>1. States(runs[r]) = {"CREATED", "FILES_ATTACHED", FinalState(imported[r])}
      BY <2>1, <2>5 DEF States, RunShape, TableShape
    <3>2. QED
      BY <2>1, <2>2, <2>3, <2>5, <3>1 DEF RunShape, TableShape
  <2>6. CASE Len(runs[r]) = 4
    <3>1. States(runs[r]) = {"CREATED", "FILES_ATTACHED", "VALIDATED", "RECONCILING"}
      BY <2>1, <2>6 DEF States, RunShape, TableShape
    <3>2. QED
      BY <2>1, <2>2, <2>6, <3>1 DEF RunShape, TableShape
  <2>7. CASE Len(runs[r]) = 5
    <3>1. States(runs[r]) =
            {"CREATED", "FILES_ATTACHED", "VALIDATED", "RECONCILING", runs[r][5].state}
      BY <2>1, <2>7 DEF States, RunShape, TableShape
    <3>2. QED
      BY <2>1, <2>2, <2>7, <3>1 DEF RunShape, TableShape
  <2>8. QED
    BY <2>2, <2>4, <2>5, <2>6, <2>7
<1>2. QED
  BY <1>1, InductiveInvariant, PTL

\* What a reconciliation read in its first unit of work is still true in its
\* second, and no other process reconciles the run.
THEOREM ReconcilerOwnsItsRun == Spec => []ReconcilerOwnsRun
<1>1. IInv => ReconcilerOwnsRun
  <2> SUFFICES ASSUME IInv, NEW p \in Procs, pc[p] \in {"kernel", "commit"}
               PROVE  /\ runs[job[p].run] # <<>>
                      /\ Latest(runs[job[p].run]) = job[p].manifest
                      /\ imported[job[p].run] = job[p].docs
                      /\ \A q \in Procs : pc[q] \in {"kernel", "commit"}
                           /\ job[q].run = job[p].run => q = p
    BY DEF ReconcilerOwnsRun
  <2>1. /\ job[p].run \in RunIds /\ Len(runs[job[p].run]) = 4
        /\ runs[job[p].run][4] = job[p].manifest
        /\ imported[job[p].run] = job[p].docs
    BY DEF IInv, Shapes, JobShape
  <2>2. runs[job[p].run] # <<>> /\ Latest(runs[job[p].run]) = job[p].manifest
    BY <2>1 DEF Latest
  <2>3. \A q \in Procs : pc[q] \in {"kernel", "commit"}
          /\ job[q].run = job[p].run => q = p
    BY <2>1 DEF IInv, Shapes, OneWorker, Working
  <2>4. QED
    BY <2>1, <2>2, <2>3
<1>2. QED
  BY <1>1, InductiveInvariant, PTL

-----------------------------------------------------------------------------
(***************************************************************************)
(* What a step does to the tables, and the promise it keeps.               *)
(***************************************************************************)

\* One run, and no other, is read in state from before the step and in state
\* to after it; nothing recorded about it is lost.
RunMoves(r, from, to) ==
  /\ StateOf(runs[r]) = from /\ StateOf(runs'[r]) = to
  /\ Continues(runs'[r], runs[r]) /\ audit[r] \subseteq audit'[r]
  /\ \A x \in RunIds \ {r} : runs'[x] = runs[x] /\ audit'[x] = audit[x]

ImportsRun(r) ==
  /\ \E s \in {"VALIDATED", "FAILED_VALIDATION"} : RunMoves(r, "ABSENT", s)
  /\ imported[r] = {}
  /\ \E docs \in SUBSET Document : imported' = [imported EXCEPT ![r] = docs]
  /\ UNCHANGED results

StartsRun(r) ==
  RunMoves(r, "VALIDATED", "RECONCILING") /\ UNCHANGED <<imported, results>>

CompletesRun(r) ==
  /\ RunMoves(r, "RECONCILING", "COMPLETED")
  /\ results[r] = {}
  /\ results' = [results EXCEPT ![r] = {imported[r]}]
  /\ UNCHANGED imported

FailsRun(r) ==
  RunMoves(r, "RECONCILING", "FAILED") /\ UNCHANGED <<imported, results>>

DbStep ==
  \/ UNCHANGED dbVars
  \/ \E r \in RunIds : ImportsRun(r) \/ StartsRun(r) \/ CompletesRun(r) \/ FailsRun(r)

\* The snapshot added last is the one readers are shown.
LEMMA OneMoreIsLatest ==
  ASSUME NEW h \in Seq(Manifest), NEW m \in Manifest, NEW g, OneMore(g, h, m)
  PROVE  Continues(g, h) /\ StateOf(g) = m.state
<1>1. Len(g) = Len(h) + 1 /\ Len(h) \in Nat
  BY DEF OneMore
<1>2. g # <<>>
  BY <1>1
<1>3. g[Len(g)] = m
  BY <1>1 DEF OneMore
<1>4. StateOf(g) = m.state
  BY <1>2, <1>3 DEF StateOf, Latest
<1>5. Continues(g, h)
  BY <1>1 DEF OneMore, Continues
<1>6. QED
  BY <1>4, <1>5

LEMMA CommitImportStep ==
  ASSUME NEW p \in Procs, NEW r \in RunIds, r = job[p].run, IInv, CommitImport(p)
  PROVE  ImportsRun(r)
<1> DEFINE docs == job[p].docs
           h == ImportedHistory(docs, job[p].manifest.policy)
<1>1. runs[r] = <<>> /\ imported[r] = {} /\ audit[r] = {}
  BY CommitImportFindsNothing
<1>2. docs \in SUBSET Document
  BY DEF IInv, TypeOK, Job
<1>3. /\ runs'[r] = h /\ results' = results
      /\ imported' = [imported EXCEPT ![r] = docs]
      /\ \A x \in RunIds \ {r} : runs'[x] = runs[x] /\ audit'[x] = audit[x]
  <2>1. <<>> \o h = h
    BY DEF ImportedHistory
  <2>2. QED
    BY <1>1, <2>1 DEF CommitImport, IInv, TypeOK
<1>4. StateOf(h) = FinalState(docs)
  BY DEF StateOf, Latest, ImportedHistory
<1>5. Continues(h, <<>>)
  BY DEF Continues, ImportedHistory
<1>6. StateOf(runs[r]) = "ABSENT"
  BY <1>1 DEF StateOf
<1>7. RunMoves(r, "ABSENT", FinalState(docs))
  BY <1>1, <1>3, <1>4, <1>5, <1>6 DEF RunMoves
<1>8. FinalState(docs) \in {"VALIDATED", "FAILED_VALIDATION"}
  BY DEF FinalState
<1>9. QED
  BY <1>1, <1>2, <1>3, <1>7, <1>8 DEF ImportsRun

LEMMA StartReconciliationStep ==
  ASSUME NEW p \in Procs, NEW r \in RunIds, IInv, StartReconciliation(p, r)
  PROVE  StartsRun(r)
<1> DEFINE m == Transitioned(Latest(runs[r]), "RECONCILING")
<1>1. runs[r] \in Seq(Manifest) /\ runs[r] # <<>>
  BY DEF IInv, TypeOK, StartReconciliation, StateOf
<1>2. m \in Manifest /\ m.state = "RECONCILING"
  BY <1>1, LatestType, TransitionedType DEF RunState
<1>3. /\ runs'[r] = Append(runs[r], m) /\ audit[r] \subseteq audit'[r]
      /\ \A x \in RunIds \ {r} : runs'[x] = runs[x] /\ audit'[x] = audit[x]
      /\ UNCHANGED <<imported, results>> /\ StateOf(runs[r]) = "VALIDATED"
  BY DEF StartReconciliation, Advanced, IInv, TypeOK
<1>4. Continues(runs'[r], runs[r]) /\ StateOf(runs'[r]) = "RECONCILING"
  BY <1>1, <1>2, <1>3, AppendAddsOne, OneMoreIsLatest
<1>5. QED
  BY <1>3, <1>4 DEF StartsRun, RunMoves

LEMMA CommitResultsStep ==
  ASSUME NEW p \in Procs, NEW r \in RunIds, r = job[p].run, IInv, CommitResults(p)
  PROVE  CompletesRun(r)
<1> DEFINE m == Transitioned(job[p].manifest, "COMPLETED")
<1>1. runs[r] \in Seq(Manifest) /\ job[p] \in Job /\ JobShape(p) /\ pc[p] = "commit"
  BY DEF IInv, TypeOK, Shapes, CommitResults, Goto
<1>2. m \in Manifest /\ m.state = "COMPLETED"
  BY <1>1, TransitionedType DEF Job, RunState
<1>3. StateOf(runs[r]) = "RECONCILING" /\ imported[r] = job[p].docs
  <2>1. Len(runs[r]) = 4 /\ imported[r] = job[p].docs
    BY <1>1 DEF JobShape
  <2>2. QED
    BY <2>1, ShapeState
<1>4. /\ runs'[r] = Append(runs[r], m) /\ audit[r] \subseteq audit'[r]
      /\ \A x \in RunIds \ {r} : runs'[x] = runs[x] /\ audit'[x] = audit[x]
      /\ results[r] = {} /\ results' = [results EXCEPT ![r] = {imported[r]}]
      /\ UNCHANGED imported
  BY <1>3 DEF CommitResults, IInv, TypeOK
<1>5. Continues(runs'[r], runs[r]) /\ StateOf(runs'[r]) = "COMPLETED"
  BY <1>1, <1>2, <1>4, AppendAddsOne, OneMoreIsLatest
<1>6. QED
  BY <1>3, <1>4, <1>5 DEF CompletesRun, RunMoves

LEMMA MarkFailedStep ==
  ASSUME NEW p \in Procs, NEW r \in RunIds, r = job[p].run, IInv, MarkFailed(p)
  PROVE  FailsRun(r)
<1> DEFINE m == Transitioned(Latest(runs[r]), "FAILED")
<1>1. runs[r] \in Seq(Manifest) /\ runs[r] # <<>>
  BY DEF IInv, TypeOK, MarkFailed, StateOf
<1>2. m \in Manifest /\ m.state = "FAILED"
  BY <1>1, LatestType, TransitionedType DEF RunState
<1>3. /\ runs'[r] = Append(runs[r], m) /\ audit[r] \subseteq audit'[r]
      /\ \A x \in RunIds \ {r} : runs'[x] = runs[x] /\ audit'[x] = audit[x]
      /\ UNCHANGED <<imported, results>> /\ StateOf(runs[r]) = "RECONCILING"
  BY DEF MarkFailed, Advanced, IInv, TypeOK
<1>4. Continues(runs'[r], runs[r]) /\ StateOf(runs'[r]) = "FAILED"
  BY <1>1, <1>2, <1>3, AppendAddsOne, OneMoreIsLatest
<1>5. QED
  BY <1>3, <1>4 DEF FailsRun, RunMoves

LEMMA EveryStepIsDbStep == IInv /\ [Next]_vars => DbStep
<1> SUFFICES ASSUME IInv, [Next]_vars PROVE DbStep
  OBVIOUS
<1>1. CASE UNCHANGED vars
  BY <1>1 DEF vars, dbVars, DbStep
<1>2. ASSUME NEW p \in Procs, Request(p) PROVE DbStep
  BY <1>2, StartReconciliationStep DEF Request, RequestImport, DbStep
<1>3. ASSUME NEW p \in Procs, Progress(p) PROVE DbStep
  <2>1. CASE UNCHANGED dbVars
    BY <2>1 DEF DbStep
  <2>2. CASE CommitImport(p)
    BY <2>2, CommitImportFindsNothing, CommitImportStep DEF DbStep
  <2>3. pc[p] # "idle" => job[p].run \in RunIds
    BY DEF IInv, Shapes, JobShape
  <2>4. CASE CommitResults(p)
    BY <2>3, <2>4, CommitResultsStep DEF CommitResults, Goto, DbStep
  <2>5. CASE MarkFailed(p)
    BY <2>3, <2>5, MarkFailedStep DEF MarkFailed, Goto, DbStep
  <2>6. QED
    BY <1>3, <2>1, <2>2, <2>4, <2>5
       DEF Progress, CheckAbsent, RefuseExisting, CreateFile, WriteFile, ReuseFile,
           RefuseTornFile, RefuseImport, KernelReturns, ReturnResult, KeepOutcome, Reraise
<1>4. ASSUME NEW p \in Procs, Fault(p) PROVE DbStep
  BY <1>4, FaultChangesOnlyLocals DEF DbStep
<1>5. QED
  BY <1>1, <1>2, <1>3, <1>4 DEF Next

\* No step rewrites or removes what is recorded about a run.
THEOREM NothingIsRewritten == Spec => RecordsAreAppendOnly
<1> DEFINE Kept(r) == /\ Continues(runs'[r], runs[r])
                      /\ audit[r] \subseteq audit'[r]
                      /\ imported[r] # {} => imported'[r] = imported[r]
                      /\ results[r] # {} => results'[r] = results[r]
<1>1. IInv /\ [Next]_vars => \A r \in RunIds : Kept(r)
  <2> SUFFICES ASSUME IInv, DbStep, NEW x \in RunIds PROVE Kept(x)
    BY EveryStepIsDbStep
  <2>1. Continues(runs[x], runs[x])
    BY DEF Continues, IInv, TypeOK
  <2>2. CASE UNCHANGED dbVars
    BY <2>1, <2>2 DEF dbVars
  <2>3. ASSUME NEW r \in RunIds,
               ImportsRun(r) \/ StartsRun(r) \/ CompletesRun(r) \/ FailsRun(r)
        PROVE  Kept(x)
    <3>1. Continues(runs'[x], runs[x]) /\ audit[x] \subseteq audit'[x]
      BY <2>1, <2>3 DEF ImportsRun, StartsRun, CompletesRun, FailsRun, RunMoves
    <3>2. /\ imported[x] # {} => imported'[x] = imported[x]
          /\ results[x] # {} => results'[x] = results[x]
      BY <2>3 DEF ImportsRun, StartsRun, CompletesRun, FailsRun, IInv, TypeOK
    <3>3. QED
      BY <3>1, <3>2
  <2>4. QED
    BY <2>2, <2>3 DEF DbStep
<1>2. QED
  BY <1>1, InductiveInvariant, PTL DEF Spec, RecordsAreAppendOnly

\* The tables, read through runs.get, implement RunPromise: a run is imported
\* once, reconciled at most once, and its results appear as it completes.
THEOREM RunsKeepThePromise == Spec => ImplementsPromise
<1> DEFINE phase == [r \in RunIds |-> StateOf(runs[r])]
<1>1. Init => Promise!Init
  BY DEF Init, Promise!Init, StateOf
<1>2. IInv /\ IInv' /\ [Next]_vars => [Promise!Next]_Promise!vars
  <2> SUFFICES ASSUME IInv, DbStep PROVE [Promise!Next]_Promise!vars
    BY EveryStepIsDbStep
  <2>1. CASE UNCHANGED dbVars
    BY <2>1 DEF dbVars, Promise!vars
  <2>2. ASSUME NEW r \in RunIds, NEW from, NEW to, RunMoves(r, from, to)
        PROVE  phase[r] = from /\ phase' = [phase EXCEPT ![r] = to]
    BY <2>2 DEF RunMoves
  <2>3. ASSUME NEW r \in RunIds, ImportsRun(r) PROVE Promise!Import(r)
    <3>1. PICK s \in {"VALIDATED", "FAILED_VALIDATION"} : RunMoves(r, "ABSENT", s)
      BY <2>3 DEF ImportsRun
    <3>2. PICK docs \in SUBSET Document : imported' = [imported EXCEPT ![r] = docs]
      BY <2>3 DEF ImportsRun
    <3>3. phase[r] = "ABSENT" /\ phase' = [phase EXCEPT ![r] = s]
      BY <2>2, <3>1
    <3>4. UNCHANGED results
      BY <2>3 DEF ImportsRun
    <3>5. QED
      BY <3>2, <3>3, <3>4 DEF Promise!Import
  <2>4. ASSUME NEW r \in RunIds, StartsRun(r) PROVE Promise!Start(r)
    BY <2>2, <2>4 DEF StartsRun, Promise!Start
  <2>5. ASSUME NEW r \in RunIds, CompletesRun(r) PROVE Promise!Complete(r)
    BY <2>2, <2>5 DEF CompletesRun, Promise!Complete
  <2>6. ASSUME NEW r \in RunIds, FailsRun(r) PROVE Promise!Fail(r)
    BY <2>2, <2>6 DEF FailsRun, Promise!Fail
  <2>7. QED
    BY <2>1, <2>3, <2>4, <2>5, <2>6 DEF DbStep, Promise!Next
<1>3. QED
  BY <1>1, <1>2, InductiveInvariant, PTL DEF Spec, ImplementsPromise, Promise!Spec
=============================================================================
