-------------------------- MODULE ActionLoopProofs --------------------------
(***************************************************************************)
(* Theorems about ActionLoop, for every number of workers, actions, texts, *)
(* reviews and stops; the ones that need a single worker say so.           *)
(*                                                                         *)
(* A request decides on a snapshot it read in an earlier unit of work.     *)
(* What survives other workers is that the snapshot is still in the        *)
(* history (ViewShape) and that history and files only grow (Grows); with  *)
(* one worker the snapshot is also still the latest (Fresh).               *)
(***************************************************************************)
EXTENDS ActionLoop, FiniteSetTheorems, TLAPS

\* The snapshots of a history, whatever their order.
Elems(h) == {h[i] : i \in 1..Len(h)}

ExportedOnce(h) ==
  \A i, j \in 1..Len(h) : h[i].state = "EXPORTED" /\ h[j].state = "EXPORTED" => i = j

ApprovalOnRecord(rs) == \E i \in 1..Len(rs) : rs[i].state = "APPROVED"

\* What the locals of a worker say of the tables and the files.
ViewShape(w) ==
  LET a == job[w].action IN
  /\ pc[w] # "idle" => a \in Actions
  /\ pc[w] = "propose" => job[w].next.state = "PROPOSED"
  /\ pc[w] = "review" /\ ChangesAction(job[w].review) =>
       \/ job[w].next.state = "PROPOSED"
       \/ job[w].next.state \in Decisions /\ job[w].next.state = job[w].review.state
  /\ pc[w] \in ExportStages =>
       /\ job[w].view \in Elems(history[a])
       /\ job[w].next.state = "EXPORTED"
  /\ pc[w] \in {"file", "write", "commit"} => job[w].view.state = "APPROVED"
  /\ pc[w] \in {"write", "commit"} => files[a][ContentOf(w)] # "absent"
  /\ pc[w] = "commit" => files[a][ContentOf(w)] = "whole"

\* What the tables and the files of one action say of each other: its history h,
\* its reviews rs, its audit events au, its receipts re and its files fs.
TableShape(a, h, rs, au, re, fs) ==
  /\ \A s \in Elems(h) : s.state = "APPROVED" => ApprovalOnRecord(rs)
  /\ \A c \in Bytes : fs[c] # "absent" =>
       \E s \in Elems(h) : s.state = "APPROVED" /\ Content[a][s.text] = c
  /\ re # {} <=> \E s \in Elems(h) : s.state = "EXPORTED"
  /\ re # {} <=> "exported" \in au
  /\ ExportedOnce(h)
  /\ \A c, d \in re : c = d
  /\ \A c \in re : fs[c] = "whole"

ActionShape(a) ==
  TableShape(a, history[a], reviews[a], audit[a], receipts[a], files[a])

Shapes ==
  /\ \A w \in Workers : ViewShape(w)
  /\ \A a \in Actions : ActionShape(a)

IInv == TypeOK /\ Shapes

-----------------------------------------------------------------------------
(***************************************************************************)
(* Histories.                                                              *)
(***************************************************************************)

LEMMA AppendFacts ==
  ASSUME NEW S, NEW h \in Seq(S), NEW x \in S
  PROVE  /\ Append(h, x) \in Seq(S)
         /\ Append(h, x) # <<>>
         /\ Len(Append(h, x)) = Len(h) + 1
         /\ Append(h, x)[Len(h) + 1] = x
         /\ \A i \in 1..Len(h) : Append(h, x)[i] = h[i]
         /\ Latest(Append(h, x)) = x
  BY DEF Latest

LEMMA LenNat ==
  ASSUME NEW S, NEW h \in Seq(S)
  PROVE  Len(h) \in Nat /\ (h # <<>> => Len(h) \in 1..Len(h) /\ Latest(h) \in S)
  BY DEF Latest

\* A history that grows by one snapshot.
LEMMA ElemsAppend ==
  ASSUME NEW S, NEW h \in Seq(S), NEW x \in S
  PROVE  Elems(Append(h, x)) = Elems(h) \cup {x}
<1> DEFINE g == Append(h, x)
<1>1. /\ Len(g) = Len(h) + 1 /\ g[Len(h) + 1] = x
      /\ \A i \in 1..Len(h) : g[i] = h[i]
  BY AppendFacts
<1>2. Len(h) \in Nat
  BY LenNat
<1> HIDE DEF g
<1>3. 1..(Len(h) + 1) = 1..Len(h) \cup {Len(h) + 1}
  BY <1>2
<1>4. Elems(g) = Elems(h) \cup {x}
  BY <1>1, <1>3 DEF Elems
<1>5. QED
  BY <1>4 DEF g

LEMMA LatestIsElem ==
  ASSUME NEW S, NEW h \in Seq(S), h # <<>>
  PROVE  Latest(h) \in Elems(h)
  BY LenNat DEF Latest, Elems

LEMMA EmptyElems == Elems(<<>>) = {}
  BY DEF Elems

\* EXPORTED is appended at most once.
LEMMA ExportedOnceAppend ==
  ASSUME NEW h \in Seq(Snapshot), NEW x \in Snapshot, ExportedOnce(h),
         x.state # "EXPORTED" \/ \A s \in Elems(h) : s.state # "EXPORTED"
  PROVE  ExportedOnce(Append(h, x))
<1> DEFINE g == Append(h, x)
<1>1. /\ Len(g) = Len(h) + 1 /\ g[Len(h) + 1] = x
      /\ \A i \in 1..Len(h) : g[i] = h[i]
  BY AppendFacts
<1>2. Len(h) \in Nat
  BY LenNat
<1> HIDE DEF g
<1>3. SUFFICES ASSUME NEW i \in 1..Len(g), NEW j \in 1..Len(g),
                      g[i].state = "EXPORTED", g[j].state = "EXPORTED"
               PROVE  i = j
  BY DEF ExportedOnce, g
<1>4. CASE i \in 1..Len(h) /\ j \in 1..Len(h)
  BY <1>1, <1>3, <1>4 DEF ExportedOnce
<1>5. CASE i = Len(h) + 1 /\ j = Len(h) + 1
  BY <1>5
<1>6. CASE i \in 1..Len(h) /\ j = Len(h) + 1
  BY <1>1, <1>3, <1>6 DEF Elems
<1>7. CASE i = Len(h) + 1 /\ j \in 1..Len(h)
  BY <1>1, <1>3, <1>7 DEF Elems
<1>8. QED
  BY <1>1, <1>2, <1>4, <1>5, <1>6, <1>7

\* An approval stays on record, and an approving review puts one there.
LEMMA RecordAppend ==
  ASSUME NEW rs \in Seq(Review), NEW x \in Review
  PROVE  ApprovalOnRecord(Append(rs, x)) <=>
           ApprovalOnRecord(rs) \/ x.state = "APPROVED"
<1> DEFINE g == Append(rs, x)
<1>1. /\ Len(g) = Len(rs) + 1 /\ g[Len(rs) + 1] = x
      /\ \A i \in 1..Len(rs) : g[i] = rs[i]
  BY AppendFacts
<1>2. Len(rs) \in Nat
  BY LenNat
<1> HIDE DEF g
<1>3. 1..(Len(rs) + 1) = 1..Len(rs) \cup {Len(rs) + 1}
  BY <1>2
<1>4. ApprovalOnRecord(g) <=> ApprovalOnRecord(rs) \/ x.state = "APPROVED"
  BY <1>1, <1>3 DEF ApprovalOnRecord
<1>5. QED
  BY <1>4 DEF g

-----------------------------------------------------------------------------
(***************************************************************************)
(* Types.                                                                  *)
(***************************************************************************)

LEMMA ProposalType == Proposal \in Snapshot /\ NoReview \in Review
  BY ConstantsAssumption DEF Proposal, NoReview, Snapshot, Review, ActionState,
     ReviewState, Decisions

LEMMA NewJobType ==
  ASSUME NEW a \in Actions \cup {NoAction}, NEW v \in Snapshot, NEW n \in Snapshot,
         NEW rv \in Review
  PROVE  NewJob(a, v, n, rv) \in Job
  BY DEF NewJob, Job

LEMMA NoJobType == NoJob \in Job
  BY ProposalType, NewJobType DEF NoJob

LEMMA ContentType ==
  ASSUME NEW a \in Actions, NEW t \in Texts
  PROVE  Content[a][t] \in Bytes
  BY DEF Content, Bytes

LEMMA InitTypeOK == Init => TypeOK
  BY NoJobType, ConstantsAssumption DEF Init, TypeOK, Stages, ExportStages

LEMMA FinishType ==
  ASSUME NEW w \in Workers, TypeOK, Finish(w)
  PROVE  /\ pc' \in [Workers -> Stages] /\ job' \in [Workers -> Job]
         /\ pc'[w] = "idle" /\ job'[w] = NoJob
         /\ \A v \in Workers \ {w} : pc'[v] = pc[v] /\ job'[v] = job[v]
  BY NoJobType DEF TypeOK, Finish, Stages, ExportStages

\* A request that worker w starts to serve, and the locals j it starts with.
Serves(w, j) ==
  \/ /\ pc' = [pc EXCEPT ![w] = "propose"]
     /\ \E a \in Actions :
          /\ history[a] = <<>>
          /\ j = NewJob(a, Proposal, Proposal, NoReview)
  \/ /\ pc' = [pc EXCEPT ![w] = "review"]
     /\ \E a \in Actions, rv \in Review, t \in Texts :
          LET view == Latest(history[a]) IN
          /\ history[a] # <<>>
          /\ IF rv.edited THEN view.state = "PROPOSED" ELSE t = view.text
          /\ rv.state \in Decisions => MayTransition(view.state, rv.state)
          /\ j = NewJob(a, view,
                   [state |-> StateAfter(view.state, rv), text |-> t], rv)
  \/ /\ pc' = [pc EXCEPT ![w] = "lookup"]
     /\ \E a \in Actions :
          LET view == Latest(history[a]) IN
          /\ history[a] # <<>>
          /\ j = NewJob(a, view,
                   [state |-> "EXPORTED", text |-> view.text], NoReview)

\* A request that arrives leaves tables and files alone and sets the locals.
LEMMA RequestLocals ==
  ASSUME NEW w \in Workers, TypeOK, Request(w)
  PROVE  /\ UNCHANGED <<tables, files, stops>>
         /\ pc[w] = "idle"
         /\ \E j \in Job : job' = [job EXCEPT ![w] = j] /\ Serves(w, j)
<1>1. ASSUME NEW a \in Actions, RequestPropose(w, a)
      PROVE  NewJob(a, Proposal, Proposal, NoReview) \in Job
  BY NewJobType, ProposalType
<1>2. ASSUME NEW a \in Actions, NEW rv \in Review, NEW t \in Texts,
             RequestReview(w, a, rv, t)
      PROVE  NewJob(a, Latest(history[a]),
               [state |-> StateAfter(Latest(history[a]).state, rv), text |-> t], rv)
               \in Job
  <2>1. history[a] \in Seq(Snapshot) /\ history[a] # <<>>
    BY <1>2 DEF TypeOK, RequestReview
  <2>2. Latest(history[a]) \in Snapshot
    BY <2>1, LenNat
  <2>3. StateAfter(Latest(history[a]).state, rv) \in ActionState
    BY <2>2 DEF StateAfter, Snapshot, Review, Decisions, ActionState
  <2>4. QED
    BY <2>2, <2>3, NewJobType DEF Snapshot
<1>3. ASSUME NEW a \in Actions, RequestExport(w, a)
      PROVE  NewJob(a, Latest(history[a]),
               [state |-> "EXPORTED", text |-> Latest(history[a]).text], NoReview)
               \in Job
  <2>1. history[a] \in Seq(Snapshot) /\ history[a] # <<>>
    BY <1>3 DEF TypeOK, RequestExport
  <2>2. Latest(history[a]) \in Snapshot
    BY <2>1, LenNat
  <2>3. [state |-> "EXPORTED", text |-> Latest(history[a]).text] \in Snapshot
    BY <2>2 DEF Snapshot, ActionState
  <2>4. QED
    BY <2>2, <2>3, NewJobType, ProposalType
<1>4. CASE \E a \in Actions : RequestPropose(w, a)
  BY <1>1, <1>4 DEF RequestPropose, Goto, Serves
<1>5. CASE \E a \in Actions, rv \in Review, t \in Texts : RequestReview(w, a, rv, t)
  <2>1. PICK a \in Actions, rv \in Review, t \in Texts : RequestReview(w, a, rv, t)
    BY <1>5
  <2>2. QED
    BY <1>2, <2>1 DEF RequestReview, Goto, Serves
<1>6. CASE \E a \in Actions : RequestExport(w, a)
  BY <1>3, <1>6 DEF RequestExport, Goto, Serves
<1>7. QED
  BY <1>4, <1>5, <1>6 DEF Request

\* The steps that leave tables and files alone.
Quiet(w) ==
  \/ Request(w) \/ RefusePropose(w) \/ ReturnReceipt(w) \/ RefuseUnapproved(w)
  \/ BeginExport(w) \/ ReuseFile(w) \/ RefuseTornFile(w) \/ RefuseExport(w) \/ Stop(w)

\* The steps that commit a unit of work or write a file.
Writing(w) ==
  \/ CommitPropose(w) \/ CommitReview(w) \/ CreateFile(w) \/ WriteFile(w)
  \/ CommitExport(w)

LEMMA NextSplits ==
  Next <=> \E w \in Workers : Quiet(w) \/ Writing(w)
  BY DEF Next, Quiet, Writing, Progress

\* A quiet step ends the request, serves a new one, or moves an export on.
LEMMA QuietSteps ==
  ASSUME NEW w \in Workers, Quiet(w)
  PROVE  /\ UNCHANGED <<tables, files>>
         /\ stops' = stops \/ (stops < MaxStops /\ stops' = stops + 1)
         /\ Request(w) \/ Finish(w) \/ BeginExport(w) \/ ReuseFile(w)
  BY DEF Quiet, Request, RequestPropose, RequestReview, RequestExport, RefusePropose,
     ReturnReceipt, RefuseUnapproved, BeginExport, ReuseFile, RefuseTornFile,
     RefuseExport, Stop

LEMMA QuietTypeOK ==
  ASSUME NEW w \in Workers, TypeOK, Quiet(w)
  PROVE  TypeOK'
<1>1. stops' \in 0..MaxStops
  BY QuietSteps, ConstantsAssumption DEF TypeOK
<1>2. pc' \in [Workers -> Stages] /\ job' \in [Workers -> Job]
  <2>1. CASE Request(w)
    <3>1. \E j \in Job, s \in {"propose", "review", "lookup"} :
            job' = [job EXCEPT ![w] = j] /\ pc' = [pc EXCEPT ![w] = s]
      BY <2>1, RequestLocals DEF Serves
    <3>2. QED
      BY <3>1 DEF TypeOK, Stages, ExportStages
  <2>2. CASE Finish(w)
    BY <2>2, FinishType
  <2>3. CASE BeginExport(w) \/ ReuseFile(w)
    BY <2>3 DEF TypeOK, BeginExport, ReuseFile, Goto, Stages, ExportStages
  <2>4. QED
    BY <2>1, <2>2, <2>3, QuietSteps
<1>3. QED
  BY <1>1, <1>2, QuietSteps DEF TypeOK, tables

\* The locals of a worker that serves a request about an action.
LEMMA JobTypes ==
  ASSUME NEW w \in Workers, TypeOK, job[w].action \in Actions
  PROVE  /\ job[w].view \in Snapshot /\ job[w].next \in Snapshot
         /\ job[w].review \in Review
         /\ ContentOf(w) \in Bytes
         /\ history[job[w].action] \in Seq(Snapshot)
         /\ reviews[job[w].action] \in Seq(Review)
<1>1. job[w] \in Job
  BY DEF TypeOK
<1>2. job[w].view \in Snapshot /\ job[w].next \in Snapshot /\ job[w].review \in Review
  BY <1>1 DEF Job
<1>3. ContentOf(w) \in Bytes
  BY <1>2, ContentType DEF ContentOf, Snapshot
<1>4. QED
  BY <1>2, <1>3 DEF TypeOK

LEMMA WritingTypeOK ==
  ASSUME NEW w \in Workers, TypeOK, Writing(w), job[w].action \in Actions
  PROVE  TypeOK'
<1> DEFINE a == job[w].action
<1>1. /\ job[w].next \in Snapshot /\ job[w].review \in Review /\ ContentOf(w) \in Bytes
      /\ history[a] \in Seq(Snapshot) /\ reviews[a] \in Seq(Review)
  BY JobTypes
<1>2. Append(history[a], job[w].next) \in Seq(Snapshot)
  BY <1>1, AppendFacts
<1>3. Append(reviews[a], job[w].review) \in Seq(Review)
  BY <1>1, AppendFacts
<1>4. CASE CommitPropose(w)
  <2>1. history' \in [Actions -> Seq(Snapshot)]
    BY <1>2, <1>4 DEF TypeOK, CommitPropose
  <2>2. audit' \in [Actions -> SUBSET {"proposed", "exported"}]
    BY <1>4 DEF TypeOK, CommitPropose
  <2>3. QED
    BY <1>4, <2>1, <2>2, FinishType DEF TypeOK, CommitPropose
<1>5. CASE CommitReview(w)
  <2>1. history' \in [Actions -> Seq(Snapshot)]
    BY <1>2, <1>5 DEF TypeOK, CommitReview
  <2>2. reviews' \in [Actions -> Seq(Review)]
    BY <1>3, <1>5 DEF TypeOK, CommitReview
  <2>3. QED
    BY <1>5, <2>1, <2>2, FinishType DEF TypeOK, CommitReview
<1>6. CASE CreateFile(w)
  <2>1. files' \in [Actions -> [Bytes -> {"absent", "torn", "whole"}]]
    BY <1>6 DEF TypeOK, CreateFile
  <2>2. pc' \in [Workers -> Stages]
    BY <1>6 DEF TypeOK, CreateFile, Goto, Stages, ExportStages
  <2>3. QED
    BY <1>6, <2>1, <2>2 DEF TypeOK, CreateFile, tables
<1>7. CASE WriteFile(w)
  <2>1. files' \in [Actions -> [Bytes -> {"absent", "torn", "whole"}]]
    BY <1>7 DEF TypeOK, WriteFile
  <2>2. pc' \in [Workers -> Stages]
    BY <1>7 DEF TypeOK, WriteFile, Goto, Stages, ExportStages
  <2>3. QED
    BY <1>7, <2>1, <2>2 DEF TypeOK, WriteFile, tables
<1>8. CASE CommitExport(w)
  <2>1. history' \in [Actions -> Seq(Snapshot)]
    BY <1>2, <1>8 DEF TypeOK, CommitExport
  <2>2. receipts' \in [Actions -> SUBSET Bytes]
    BY <1>1, <1>8 DEF TypeOK, CommitExport
  <2>3. audit' \in [Actions -> SUBSET {"proposed", "exported"}]
    BY <1>8 DEF TypeOK, CommitExport
  <2>4. QED
    BY <1>8, <2>1, <2>2, <2>3, FinishType DEF TypeOK, CommitExport
<1>9. QED
  BY <1>4, <1>5, <1>6, <1>7, <1>8 DEF Writing

-----------------------------------------------------------------------------
(***************************************************************************)
(* The inductive invariant.                                                *)
(***************************************************************************)

LEMMA InitShapes == Init => Shapes
<1> SUFFICES ASSUME Init PROVE Shapes
  OBVIOUS
<1>1. ASSUME NEW a \in Actions PROVE ActionShape(a)
  <2>1. /\ history[a] = <<>> /\ audit[a] = {} /\ receipts[a] = {}
        /\ \A c \in Bytes : files[a][c] = "absent"
    BY DEF Init
  <2>2. ExportedOnce(history[a])
    BY <2>1 DEF ExportedOnce
  <2>3. QED
    BY <2>1, <2>2, EmptyElems DEF ActionShape, TableShape
<1>2. \A w \in Workers : ViewShape(w)
  BY DEF Init, ViewShape, ExportStages
<1>3. QED
  BY <1>1, <1>2 DEF Shapes

\* Histories only gain snapshots, and files only gain bytes.
Grows ==
  /\ \A a \in Actions : Elems(history[a]) \subseteq Elems(history'[a])
  /\ \A a \in Actions, c \in Bytes :
       /\ files[a][c] # "absent" => files'[a][c] # "absent"
       /\ files[a][c] = "whole" => files'[a][c] = "whole"

\* A step of one worker keeps what the locals of the others say.
LEMMA OthersKeep ==
  ASSUME NEW v \in Workers, TypeOK, ViewShape(v), Grows,
         pc'[v] = pc[v], job'[v] = job[v]
  PROVE  ViewShape(v)'
<1>1. CASE pc[v] = "idle"
  BY <1>1 DEF ViewShape, ExportStages
<1>2. CASE pc[v] # "idle"
  <2>1. job[v].action \in Actions /\ ContentOf(v) \in Bytes
    BY <1>2, JobTypes DEF ViewShape
  <2>2. ContentOf(v)' = ContentOf(v)
    BY DEF ContentOf, Content
  <2>3. QED
    BY <2>1, <2>2 DEF ViewShape, Grows
<1>3. QED
  BY <1>1, <1>2

\* A worker that has finished is idle.
LEMMA IdleShape ==
  ASSUME NEW w \in Workers, pc'[w] = "idle"
  PROVE  ViewShape(w)'
  BY DEF ViewShape, ExportStages

LEMMA QuietShapes ==
  ASSUME NEW w \in Workers, IInv, Quiet(w)
  PROVE  Shapes'
<1>1. UNCHANGED <<tables, files>>
  BY QuietSteps
<1>2. \A a \in Actions : ActionShape(a)'
  BY <1>1 DEF IInv, Shapes, ActionShape, tables
<1>3. Grows
  BY <1>1 DEF Grows, tables
<1>4. ViewShape(w)' /\ \A v \in Workers \ {w} : pc'[v] = pc[v] /\ job'[v] = job[v]
  <2>1. CASE Finish(w)
    BY <2>1, FinishType, IdleShape DEF IInv
  <2>2. CASE BeginExport(w)
    <3>1. /\ pc[w] = "lookup" /\ pc'[w] = "file" /\ job' = job
          /\ \A v \in Workers \ {w} : pc'[v] = pc[v]
      BY <2>2 DEF IInv, TypeOK, BeginExport, Goto
    <3>2. job[w].view.state = "APPROVED"
      BY <2>2 DEF BeginExport
    <3>3. QED
      BY <1>1, <3>1, <3>2 DEF IInv, Shapes, ViewShape, ExportStages, tables
  <2>3. CASE ReuseFile(w)
    <3>1. /\ pc[w] = "file" /\ pc'[w] = "commit" /\ job' = job
          /\ \A v \in Workers \ {w} : pc'[v] = pc[v]
      BY <2>3 DEF IInv, TypeOK, ReuseFile, Goto
    <3>2. files[job[w].action][ContentOf(w)] = "whole" /\ ContentOf(w)' = ContentOf(w)
      BY <2>3, <3>1 DEF ReuseFile, ContentOf, Content
    <3>3. QED
      BY <1>1, <3>1, <3>2 DEF IInv, Shapes, ViewShape, ExportStages, tables
  <2>4. CASE Request(w)
    <3>1. PICK j \in Job : job' = [job EXCEPT ![w] = j] /\ Serves(w, j)
      BY <2>4, RequestLocals DEF IInv
    <3>2. job'[w] = j /\ \A v \in Workers \ {w} : pc'[v] = pc[v] /\ job'[v] = job[v]
      BY <3>1 DEF IInv, TypeOK, Serves
    <3>3. CASE pc' = [pc EXCEPT ![w] = "propose"]
      <4>1. pc'[w] = "propose" /\ j.action \in Actions /\ j.next.state = "PROPOSED"
        BY <3>1, <3>3 DEF IInv, TypeOK, NewJob, Proposal, Serves
      <4>2. QED
        BY <3>2, <4>1 DEF ViewShape, ExportStages
    <3>4. CASE pc' = [pc EXCEPT ![w] = "review"]
      <4>1. pc'[w] = "review"
        BY <3>4 DEF IInv, TypeOK
      <4>2. PICK a \in Actions, rv \in Review, t \in Texts :
              /\ rv.edited => Latest(history[a]).state = "PROPOSED"
              /\ j = NewJob(a, Latest(history[a]),
                       [state |-> StateAfter(Latest(history[a]).state, rv),
                        text |-> t], rv)
        BY <3>1, <3>4, <4>1 DEF IInv, TypeOK, Serves
      <4>3. /\ j.action = a /\ j.review = rv
            /\ j.next.state = StateAfter(Latest(history[a]).state, rv)
        BY <4>2 DEF NewJob
      <4>4. ChangesAction(rv) => \/ j.next.state = "PROPOSED"
                                 \/ j.next.state \in Decisions /\ j.next.state = rv.state
        BY <4>2, <4>3 DEF ChangesAction, StateAfter
      <4>5. QED
        BY <3>2, <4>1, <4>3, <4>4 DEF ViewShape, ExportStages
    <3>5. CASE pc' = [pc EXCEPT ![w] = "lookup"]
      <4>1. pc'[w] = "lookup"
        BY <3>5 DEF IInv, TypeOK
      <4>2. PICK a \in Actions :
              /\ history[a] # <<>>
              /\ j = NewJob(a, Latest(history[a]),
                       [state |-> "EXPORTED", text |-> Latest(history[a]).text],
                       NoReview)
        BY <3>1, <3>5, <4>1 DEF IInv, TypeOK, Serves
      <4>3. /\ j.action = a /\ j.view = Latest(history[a]) /\ j.next.state = "EXPORTED"
        BY <4>2 DEF NewJob
      <4>4. j.view \in Elems(history'[a])
        BY <1>1, <4>2, <4>3, LatestIsElem DEF IInv, TypeOK, tables
      <4>5. QED
        BY <3>2, <4>1, <4>3, <4>4 DEF ViewShape
    <3>6. QED
      BY <3>1, <3>2, <3>3, <3>4, <3>5 DEF Serves
  <2>5. QED
    BY <2>1, <2>2, <2>3, <2>4, QuietSteps
<1>5. \A v \in Workers : ViewShape(v)'
  BY <1>3, <1>4, OthersKeep DEF IInv, Shapes
<1>6. QED
  BY <1>2, <1>5 DEF Shapes

\* What the shapes say of a worker about to commit or to write.
LEMMA WriterFacts ==
  ASSUME NEW w \in Workers, IInv, Writing(w)
  PROVE  /\ pc[w] # "idle" /\ ViewShape(w)
         /\ job[w].action \in Actions
         /\ ActionShape(job[w].action)
         /\ \A v \in Workers \ {w} : pc'[v] = pc[v] /\ job'[v] = job[v]
<1>1. pc[w] # "idle"
  BY DEF Writing, CommitPropose, CommitReview, CreateFile, WriteFile, CommitExport, Goto
<1>2. ViewShape(w) /\ job[w].action \in Actions
  BY <1>1 DEF IInv, Shapes, ViewShape
<1>3. \A v \in Workers \ {w} : pc'[v] = pc[v] /\ job'[v] = job[v]
  BY DEF IInv, TypeOK, Writing, CommitPropose, CommitReview, CreateFile, WriteFile,
     CommitExport, Goto, Finish
<1>4. QED
  BY <1>1, <1>2, <1>3 DEF IInv, Shapes

\* A snapshot that is neither an unrecorded approval nor an export, and a review,
\* keep the shape of the tables.
LEMMA ShapeAppend ==
  ASSUME NEW a \in Actions, NEW h \in Seq(Snapshot), NEW rs \in Seq(Review),
         NEW rs2 \in Seq(Review), NEW au, NEW au2, NEW re \in SUBSET Bytes,
         NEW fs \in [Bytes -> {"absent", "torn", "whole"}], NEW x \in Snapshot,
         TableShape(a, h, rs, au, re, fs),
         ApprovalOnRecord(rs) => ApprovalOnRecord(rs2),
         x.state = "APPROVED" => ApprovalOnRecord(rs2),
         x.state # "EXPORTED",
         "exported" \in au <=> "exported" \in au2
  PROVE  TableShape(a, Append(h, x), rs2, au2, re, fs)
<1>1. Elems(Append(h, x)) = Elems(h) \cup {x}
  BY ElemsAppend
<1>2. ExportedOnce(Append(h, x))
  BY ExportedOnceAppend DEF TableShape
<1>3. QED
  BY <1>1, <1>2 DEF TableShape

\* A review that appends no snapshot.
LEMMA ShapeRecord ==
  ASSUME NEW a \in Actions, NEW h, NEW rs, NEW rs2, NEW au, NEW re, NEW fs,
         TableShape(a, h, rs, au, re, fs),
         ApprovalOnRecord(rs) => ApprovalOnRecord(rs2)
  PROVE  TableShape(a, h, rs2, au, re, fs)
  BY DEF TableShape

\* A file with the content of an approved snapshot is created or completed.
LEMMA ShapeWrite ==
  ASSUME NEW a \in Actions, NEW h, NEW rs, NEW au, NEW re \in SUBSET Bytes, NEW fs,
         NEW fs2, NEW c \in Bytes, NEW s \in Elems(h),
         TableShape(a, h, rs, au, re, fs),
         s.state = "APPROVED", Content[a][s.text] = c,
         \A d \in Bytes \ {c} : fs2[d] = fs[d],
         fs[c] = "whole" => fs2[c] = "whole"
  PROVE  TableShape(a, h, rs, au, re, fs2)
<1>1. \A d \in re : fs2[d] = "whole"
  BY DEF TableShape
<1>2. \A d \in Bytes : fs2[d] # "absent" =>
        \E t \in Elems(h) : t.state = "APPROVED" /\ Content[a][t.text] = d
  BY DEF TableShape
<1>3. QED
  BY <1>1, <1>2 DEF TableShape

LEMMA CommitProposeShapes ==
  ASSUME NEW w \in Workers, IInv, CommitPropose(w)
  PROVE  Shapes'
<1> DEFINE a == job[w].action
<1>0. Writing(w)
  BY DEF Writing
<1>1. /\ a \in Actions /\ job[w].next \in Snapshot /\ history[a] \in Seq(Snapshot)
      /\ reviews[a] \in Seq(Review) /\ receipts[a] \in SUBSET Bytes
      /\ files[a] \in [Bytes -> {"absent", "torn", "whole"}]
  BY <1>0, WriterFacts, JobTypes DEF IInv, TypeOK
<1>2. /\ history'[a] = Append(history[a], job[w].next)
      /\ \A b \in Actions \ {a} : history'[b] = history[b]
      /\ audit'[a] = audit[a] \cup {"proposed"}
      /\ \A b \in Actions \ {a} : audit'[b] = audit[b]
      /\ UNCHANGED <<reviews, receipts, files>>
  BY <1>1 DEF IInv, TypeOK, CommitPropose
<1>3. job[w].next.state = "PROPOSED"
  BY <1>0, WriterFacts DEF CommitPropose, ViewShape
<1>4. TableShape(a, history'[a], reviews[a], audit'[a], receipts[a], files[a])
  BY <1>0, <1>1, <1>2, <1>3, WriterFacts, ShapeAppend DEF ActionShape
<1>5. \A b \in Actions : ActionShape(b)'
  BY <1>2, <1>4 DEF IInv, Shapes, ActionShape
<1>6. Grows
  <2>1. Elems(history[a]) \subseteq Elems(history'[a])
    BY <1>1, <1>2, ElemsAppend
  <2>2. QED
    BY <1>2, <2>1 DEF Grows
<1>7. pc'[w] = "idle"
  BY FinishType DEF IInv, CommitPropose
<1>8. \A v \in Workers : ViewShape(v)'
  BY <1>0, <1>6, <1>7, WriterFacts, IdleShape, OthersKeep DEF IInv, Shapes
<1>9. QED
  BY <1>5, <1>8 DEF Shapes

LEMMA CommitReviewShapes ==
  ASSUME NEW w \in Workers, IInv, CommitReview(w)
  PROVE  Shapes'
<1> DEFINE a == job[w].action
           rs == Append(reviews[a], job[w].review)
<1>0. Writing(w)
  BY DEF Writing
<1>1. /\ a \in Actions /\ job[w].next \in Snapshot /\ history[a] \in Seq(Snapshot)
      /\ reviews[a] \in Seq(Review) /\ receipts[a] \in SUBSET Bytes
      /\ files[a] \in [Bytes -> {"absent", "torn", "whole"}]
      /\ job[w].review \in Review
  BY <1>0, WriterFacts, JobTypes DEF IInv, TypeOK
<1>2. /\ reviews'[a] = rs
      /\ \A b \in Actions \ {a} : reviews'[b] = reviews[b] /\ history'[b] = history[b]
      /\ UNCHANGED <<audit, receipts, files>>
  BY <1>1 DEF IInv, TypeOK, CommitReview
<1>3. /\ rs \in Seq(Review)
      /\ ApprovalOnRecord(rs) <=>
           ApprovalOnRecord(reviews[a]) \/ job[w].review.state = "APPROVED"
  BY <1>1, RecordAppend, AppendFacts
<1>4. TableShape(a, history[a], reviews[a], audit[a], receipts[a], files[a])
  BY <1>0, WriterFacts DEF ActionShape
<1>5. /\ TableShape(a, history'[a], rs, audit[a], receipts[a], files[a])
      /\ Elems(history[a]) \subseteq Elems(history'[a])
  <2>1. CASE ChangesAction(job[w].review)
    <3>1. history'[a] = Append(history[a], job[w].next)
      BY <1>1, <2>1 DEF IInv, TypeOK, CommitReview
    <3>2. /\ job[w].next.state # "EXPORTED"
          /\ job[w].next.state = "APPROVED" => job[w].review.state = "APPROVED"
      BY <1>0, <2>1, WriterFacts DEF CommitReview, ViewShape, Decisions
    <3> HIDE DEF a, rs
    <3>3. TableShape(a, Append(history[a], job[w].next), rs, audit[a], receipts[a],
                     files[a])
      BY <1>1, <1>3, <1>4, <3>2, ShapeAppend
    <3>4. Elems(Append(history[a], job[w].next)) = Elems(history[a]) \cup {job[w].next}
      BY <1>1, ElemsAppend
    <3>5. QED
      BY <3>1, <3>3, <3>4
  <2>2. CASE ~ChangesAction(job[w].review)
    <3>1. history' = history
      BY <2>2 DEF CommitReview
    <3> HIDE DEF a, rs
    <3>2. TableShape(a, history[a], rs, audit[a], receipts[a], files[a])
      BY <1>1, <1>3, <1>4, ShapeRecord
    <3>3. QED
      BY <3>1, <3>2
  <2>3. QED
    BY <2>1, <2>2
<1>6. \A b \in Actions : ActionShape(b)'
  BY <1>2, <1>5 DEF IInv, Shapes, ActionShape
<1>7. Grows
  BY <1>2, <1>5 DEF Grows
<1>8. pc'[w] = "idle"
  BY FinishType DEF IInv, CommitReview
<1>9. \A v \in Workers : ViewShape(v)'
  BY <1>0, <1>7, <1>8, WriterFacts, IdleShape, OthersKeep DEF IInv, Shapes
<1>10. QED
  BY <1>6, <1>9 DEF Shapes

LEMMA CreateFileShapes ==
  ASSUME NEW w \in Workers, IInv, CreateFile(w)
  PROVE  Shapes'
<1> DEFINE a == job[w].action
           c == ContentOf(w)
<1>0. Writing(w)
  BY DEF Writing
<1>1. /\ a \in Actions /\ c \in Bytes /\ ViewShape(w) /\ pc[w] = "file"
      /\ ActionShape(a)
  BY <1>0, WriterFacts, JobTypes DEF IInv, CreateFile, Goto
<1>2. /\ files[a][c] = "absent" /\ files'[a][c] = "torn"
      /\ \A d \in Bytes \ {c} : files'[a][d] = files[a][d]
      /\ \A b \in Actions \ {a} : files'[b] = files[b]
      /\ UNCHANGED <<tables, job>>
      /\ pc'[w] = "write"
  BY <1>1 DEF IInv, TypeOK, CreateFile, Goto
<1>3. /\ job[w].view \in Elems(history[a])
      /\ job[w].view.state = "APPROVED" /\ Content[a][job[w].view.text] = c
  BY <1>1 DEF ViewShape, ExportStages, ContentOf
<1>4. TableShape(a, history[a], reviews[a], audit[a], receipts[a], files'[a])
  <2>1. /\ TableShape(a, history[a], reviews[a], audit[a], receipts[a], files[a])
        /\ receipts[a] \in SUBSET Bytes
    BY <1>1 DEF ActionShape, IInv, TypeOK
  <2>2. /\ \A d \in Bytes \ {c} : files'[a][d] = files[a][d]
        /\ files[a][c] = "whole" => files'[a][c] = "whole"
    BY <1>2
  <2> HIDE DEF a, c
  <2>3. QED
    BY <1>1, <1>3, <2>1, <2>2, ShapeWrite
<1>5. \A b \in Actions : ActionShape(b)'
  BY <1>2, <1>4 DEF IInv, Shapes, ActionShape, tables
<1>6. Grows
  BY <1>2 DEF Grows, tables
<1>7. ViewShape(w)'
  <2>1. ContentOf(w)' = c
    BY <1>2 DEF ContentOf, Content
  <2>2. QED
    BY <1>1, <1>2, <2>1 DEF ViewShape, ExportStages, tables
<1>8. \A v \in Workers : ViewShape(v)'
  BY <1>0, <1>6, <1>7, WriterFacts, OthersKeep DEF IInv, Shapes
<1>9. QED
  BY <1>5, <1>8 DEF Shapes

LEMMA WriteFileShapes ==
  ASSUME NEW w \in Workers, IInv, WriteFile(w)
  PROVE  Shapes'
<1> DEFINE a == job[w].action
           c == ContentOf(w)
<1>0. Writing(w)
  BY DEF Writing
<1>1. /\ a \in Actions /\ c \in Bytes /\ ViewShape(w) /\ pc[w] = "write"
      /\ ActionShape(a)
  BY <1>0, WriterFacts, JobTypes DEF IInv, WriteFile, Goto
<1>2. /\ files'[a][c] = "whole"
      /\ \A d \in Bytes \ {c} : files'[a][d] = files[a][d]
      /\ \A b \in Actions \ {a} : files'[b] = files[b]
      /\ UNCHANGED <<tables, job>>
      /\ pc'[w] = "commit"
  BY <1>1 DEF IInv, TypeOK, WriteFile, Goto
<1>3. /\ job[w].view \in Elems(history[a])
      /\ job[w].view.state = "APPROVED" /\ Content[a][job[w].view.text] = c
  BY <1>1 DEF ViewShape, ExportStages, ContentOf
<1>4. TableShape(a, history[a], reviews[a], audit[a], receipts[a], files'[a])
  <2>1. /\ TableShape(a, history[a], reviews[a], audit[a], receipts[a], files[a])
        /\ receipts[a] \in SUBSET Bytes
    BY <1>1 DEF ActionShape, IInv, TypeOK
  <2>2. /\ \A d \in Bytes \ {c} : files'[a][d] = files[a][d]
        /\ files[a][c] = "whole" => files'[a][c] = "whole"
    BY <1>2
  <2> HIDE DEF a, c
  <2>3. QED
    BY <1>1, <1>3, <2>1, <2>2, ShapeWrite
<1>5. \A b \in Actions : ActionShape(b)'
  BY <1>2, <1>4 DEF IInv, Shapes, ActionShape, tables
<1>6. Grows
  BY <1>2 DEF Grows, tables
<1>7. ViewShape(w)'
  <2>1. ContentOf(w)' = c
    BY <1>2 DEF ContentOf, Content
  <2>2. QED
    BY <1>1, <1>2, <2>1 DEF ViewShape, ExportStages, tables
<1>8. \A v \in Workers : ViewShape(v)'
  BY <1>0, <1>6, <1>7, WriterFacts, OthersKeep DEF IInv, Shapes
<1>9. QED
  BY <1>5, <1>8 DEF Shapes

LEMMA CommitExportShapes ==
  ASSUME NEW w \in Workers, IInv, CommitExport(w)
  PROVE  Shapes'
<1> DEFINE a == job[w].action
           c == ContentOf(w)
           x == job[w].next
<1>0. Writing(w)
  BY DEF Writing
<1>1. /\ a \in Actions /\ c \in Bytes /\ x \in Snapshot /\ history[a] \in Seq(Snapshot)
      /\ TableShape(a, history[a], reviews[a], audit[a], receipts[a], files[a])
  BY <1>0, WriterFacts, JobTypes DEF IInv, ActionShape
<1>2. /\ receipts[a] = {} /\ receipts'[a] = {c}
      /\ history'[a] = Append(history[a], x)
      /\ audit'[a] = audit[a] \cup {"exported"}
      /\ \A b \in Actions \ {a} : /\ history'[b] = history[b] /\ audit'[b] = audit[b]
                                  /\ receipts'[b] = receipts[b]
      /\ UNCHANGED <<reviews, files>>
  BY <1>1 DEF IInv, TypeOK, CommitExport
<1>3. x.state = "EXPORTED" /\ files[a][c] = "whole"
  BY <1>0, WriterFacts DEF CommitExport, ViewShape, ExportStages
<1>4. Elems(history'[a]) = Elems(history[a]) \cup {x}
  BY <1>1, <1>2, ElemsAppend
<1>5. ExportedOnce(history'[a])
  <2>1. \A s \in Elems(history[a]) : s.state # "EXPORTED"
    BY <1>1, <1>2 DEF TableShape
  <2>2. QED
    BY <1>1, <1>2, <2>1, ExportedOnceAppend DEF TableShape
<1>6. TableShape(a, history'[a], reviews[a], audit'[a], receipts'[a], files[a])
  BY <1>1, <1>2, <1>3, <1>4, <1>5 DEF TableShape
<1>7. \A b \in Actions : ActionShape(b)'
  BY <1>2, <1>6 DEF IInv, Shapes, ActionShape
<1>8. Grows
  BY <1>2, <1>4 DEF Grows
<1>9. pc'[w] = "idle"
  BY FinishType DEF IInv, CommitExport
<1>10. \A v \in Workers : ViewShape(v)'
  BY <1>0, <1>8, <1>9, WriterFacts, IdleShape, OthersKeep DEF IInv, Shapes
<1>11. QED
  BY <1>7, <1>10 DEF Shapes

LEMMA StepIInv == IInv /\ [Next]_vars => IInv'
<1> SUFFICES ASSUME IInv, [Next]_vars PROVE IInv'
  OBVIOUS
<1>1. ASSUME NEW w \in Workers, Quiet(w) PROVE IInv'
  BY <1>1, QuietTypeOK, QuietShapes DEF IInv
<1>2. ASSUME NEW w \in Workers, Writing(w) PROVE IInv'
  BY <1>2, WriterFacts, WritingTypeOK, CommitProposeShapes, CommitReviewShapes,
     CreateFileShapes, WriteFileShapes, CommitExportShapes DEF IInv, Writing
<1>3. CASE UNCHANGED vars
  <2>1. TypeOK'
    BY <1>3 DEF IInv, TypeOK, vars
  <2>2. \A a \in Actions : ActionShape(a)'
    BY <1>3 DEF IInv, Shapes, ActionShape, vars
  <2>3. Grows /\ pc' = pc /\ job' = job
    BY <1>3 DEF Grows, vars
  <2>4. \A v \in Workers : ViewShape(v)'
    BY <2>3, OthersKeep DEF IInv, Shapes
  <2>5. QED
    BY <2>1, <2>2, <2>4 DEF IInv, Shapes
<1>4. QED
  BY <1>1, <1>2, <1>3, NextSplits

-----------------------------------------------------------------------------
(***************************************************************************)
(* What holds for any number of workers.                                   *)
(***************************************************************************)

\* Types and shapes hold in every state, for any number of workers that stop
\* anywhere: the inductive invariant of the theorems below.
THEOREM InductiveInvariant == Spec => []IInv
<1>1. Init => IInv
  BY InitTypeOK, InitShapes DEF IInv
<1>2. QED
  BY <1>1, StepIInv, PTL DEF Spec

\* Every row, file, stage and local keeps the shape the code gives it.
THEOREM TypeCorrect == Spec => []TypeOK
<1>1. IInv => TypeOK
  BY DEF IInv
<1>2. QED
  BY <1>1, InductiveInvariant, PTL

\* The approval gate of export(): no file, not even one cut short, is ever in the
\* export directory for a content no reviewer approved.
THEOREM ApprovalGuardsExport == Spec => []OnlyApprovedLeaves
<1>1. IInv => OnlyApprovedLeaves
  <2> SUFFICES ASSUME IInv, NEW a \in Actions, NEW c \in Bytes, files[a][c] # "absent"
               PROVE  /\ \E i \in 1..Len(history[a]) :
                           /\ history[a][i].state = "APPROVED"
                           /\ Content[a][history[a][i].text] = c
                      /\ \E i \in 1..Len(reviews[a]) : reviews[a][i].state = "APPROVED"
    BY DEF OnlyApprovedLeaves
  <2>1. PICK s \in Elems(history[a]) : s.state = "APPROVED" /\ Content[a][s.text] = c
    BY DEF IInv, Shapes, ActionShape, TableShape
  <2>2. PICK i \in 1..Len(history[a]) : history[a][i] = s
    BY <2>1 DEF Elems
  <2>3. ApprovalOnRecord(reviews[a])
    BY <2>1 DEF IInv, Shapes, ActionShape, TableShape
  <2>4. QED
    BY <2>1, <2>2, <2>3 DEF ApprovalOnRecord
<1>2. QED
  BY <1>1, InductiveInvariant, PTL

\* The receipt is idempotent and true: one EXPORTED snapshot, one receipt, one
\* audit event, and a download that passes its digest check.
THEOREM ReceiptsAreTrue == Spec => []ReceiptsVerify
<1>1. IInv => ReceiptsVerify
  <2> SUFFICES ASSUME IInv, NEW a \in Actions
               PROVE  /\ receipts[a] # {} <=> "EXPORTED" \in States(history[a])
                      /\ receipts[a] # {} <=> "exported" \in audit[a]
                      /\ ExportedOnce(history[a])
                      /\ \A c, d \in receipts[a] : c = d
                      /\ receipts[a] # {} => Downloadable(a)
    BY DEF ReceiptsVerify, ExportedOnce
  <2>1. TableShape(a, history[a], reviews[a], audit[a], receipts[a], files[a])
    BY DEF IInv, Shapes, ActionShape
  <2>2. (\E s \in Elems(history[a]) : s.state = "EXPORTED")
          <=> "EXPORTED" \in States(history[a])
    BY DEF Elems, States
  <2>3. receipts[a] # {} => Downloadable(a)
    BY <2>1 DEF TableShape, Downloadable
  <2>4. QED
    BY <2>1, <2>2, <2>3 DEF TableShape
<1>2. QED
  BY <1>1, InductiveInvariant, PTL

LEMMA ContinuesAppend ==
  ASSUME NEW S, NEW h \in Seq(S), NEW x \in S
  PROVE  Continues(Append(h, x), h) /\ Continues(h, h)
<1>1. Len(h) \in Nat
  BY LenNat
<1>2. QED
  BY <1>1, AppendFacts DEF Continues

\* Tables and export files are append-only, whoever acts and whoever stops.
THEOREM NothingIsRewritten == Spec => RecordsAreAppendOnly
<1> DEFINE Kept(a) ==
      /\ Continues(history'[a], history[a])
      /\ Continues(reviews'[a], reviews[a])
      /\ audit[a] \subseteq audit'[a]
      /\ receipts[a] # {} => receipts'[a] = receipts[a]
      /\ \A c \in Bytes : files[a][c] = "whole" => files'[a][c] = "whole"
<1>1. IInv /\ [Next]_vars => \A a \in Actions : Kept(a)
  <2> SUFFICES ASSUME IInv, [Next]_vars, NEW b \in Actions PROVE Kept(b)
    OBVIOUS
  <2>1. Continues(history[b], history[b]) /\ Continues(reviews[b], reviews[b])
    BY ContinuesAppend, ProposalType DEF IInv, TypeOK
  <2>2. CASE UNCHANGED <<tables, files>>
    BY <2>1, <2>2 DEF tables
  <2>3. ASSUME NEW w \in Workers, Writing(w) PROVE Kept(b)
    <3> DEFINE a == job[w].action
    <3>1. /\ a \in Actions
          /\ Continues(Append(history[a], job[w].next), history[a])
          /\ Continues(Append(reviews[a], job[w].review), reviews[a])
      BY <2>3, WriterFacts, JobTypes, ContinuesAppend DEF IInv
    <3>2. Continues(history'[b], history[b])
      <4>1. history' = history \/ history' = [history EXCEPT ![a] = Append(@, job[w].next)]
        BY <2>3 DEF Writing, CommitPropose, CommitReview, CreateFile, WriteFile,
           CommitExport, tables
      <4>2. history'[b] = history[b] \/ (b = a /\ history'[b] = Append(history[a], job[w].next))
        BY <4>1 DEF IInv, TypeOK
      <4>3. QED
        BY <2>1, <3>1, <4>2
    <3>3. Continues(reviews'[b], reviews[b])
      <4>1. reviews' = reviews \/ reviews' = [reviews EXCEPT ![a] = Append(@, job[w].review)]
        BY <2>3 DEF Writing, CommitPropose, CommitReview, CreateFile, WriteFile,
           CommitExport, tables
      <4>2. reviews'[b] = reviews[b] \/ (b = a /\ reviews'[b] = Append(reviews[a], job[w].review))
        BY <4>1 DEF IInv, TypeOK
      <4>3. QED
        BY <2>1, <3>1, <4>2
    <3>4. audit[b] \subseteq audit'[b] /\ (receipts[b] # {} => receipts'[b] = receipts[b])
      BY <2>3 DEF Writing, CommitPropose, CommitReview, CreateFile, WriteFile,
         CommitExport, tables, IInv, TypeOK
    <3>5. \A c \in Bytes : files[b][c] = "whole" => files'[b][c] = "whole"
      <4>1. ContentOf(w) \in Bytes
        BY <3>1, JobTypes DEF IInv
      <4>2. CASE CreateFile(w)
        BY <3>1, <4>1, <4>2 DEF CreateFile, IInv, TypeOK
      <4>3. CASE WriteFile(w)
        BY <3>1, <4>1, <4>3 DEF WriteFile, IInv, TypeOK
      <4>4. CASE UNCHANGED files
        BY <4>4
      <4>5. QED
        BY <2>3, <4>2, <4>3, <4>4 DEF Writing, CommitPropose, CommitReview, CommitExport
    <3>6. QED
      BY <3>2, <3>3, <3>4, <3>5
  <2>4. CASE UNCHANGED vars
    BY <2>2, <2>4 DEF vars, tables
  <2>5. QED
    BY <2>2, <2>3, <2>4, NextSplits, QuietSteps
<1>2. QED
  BY <1>1, InductiveInvariant, PTL DEF Spec, RecordsAreAppendOnly

-----------------------------------------------------------------------------
(***************************************************************************)
(* What holds with one worker: the snapshot a request read is still the    *)
(* latest when it commits.                                                 *)
(***************************************************************************)
OneWorker == \A v, w \in Workers : v = w

\* The states the code can reach: nothing sets FAILED or CANCELLED.
Reached == {"PROPOSED", "APPROVED", "REJECTED", "EXPORTED"}

\* What HistoryLegal says of one history, and the states in it.
Legal(h) ==
  /\ h # <<>> => h[1] = Proposal
  /\ \A i \in 1..(Len(h) - 1) : Follows(h[i + 1], h[i])
  /\ \A s \in Elems(h) : s.state \in Reached

\* What is written out belongs to the latest snapshot.
Out(a, h, fs) ==
  \A c \in Bytes : fs[c] # "absent" =>
    /\ h # <<>>
    /\ Latest(h).state \in {"APPROVED", "EXPORTED"}
    /\ Content[a][Latest(h).text] = c

Fresh(w) ==
  LET h == history[job[w].action]
      review == job[w].review
  IN
  /\ pc[w] = "propose" => h = <<>> /\ job[w].next = Proposal
  /\ pc[w] = "review" =>
       /\ h # <<>> /\ Latest(h) = job[w].view
       /\ ChangesAction(review) =>
            /\ job[w].view.state = "PROPOSED"
            /\ job[w].next.state \in {"PROPOSED", "APPROVED", "REJECTED"}
            /\ job[w].next.state = StateAfter("PROPOSED", review)
            /\ review.edited \/ job[w].next.text = job[w].view.text
  /\ pc[w] \in ExportStages =>
       /\ h # <<>> /\ Latest(h) = job[w].view
       /\ job[w].next.text = job[w].view.text

OneInv ==
  /\ \A w \in Workers : Fresh(w)
  /\ \A a \in Actions : Legal(history[a]) /\ Out(a, history[a], files[a])

LEMMA LegalAppend ==
  ASSUME NEW h \in Seq(Snapshot), NEW x \in Snapshot, Legal(h), x.state \in Reached,
         IF h = <<>> THEN x = Proposal ELSE Follows(x, Latest(h))
  PROVE  Legal(Append(h, x))
<1> DEFINE g == Append(h, x)
<1>1. /\ g # <<>> /\ Len(g) = Len(h) + 1 /\ g[Len(h) + 1] = x
      /\ \A i \in 1..Len(h) : g[i] = h[i]
  BY AppendFacts
<1>2. Len(h) \in Nat /\ (h # <<>> => Len(h) \in 1..Len(h)) /\ (h = <<>> => Len(h) = 0)
  BY LenNat
<1>3. Elems(g) = Elems(h) \cup {x}
  BY ElemsAppend
<1> HIDE DEF g
<1>4. g[1] = Proposal
  <2>1. CASE h = <<>>
    BY <1>1, <1>2, <2>1
  <2>2. CASE h # <<>>
    <3>1. 1 \in 1..Len(h)
      BY <1>2, <2>2
    <3>2. QED
      BY <1>1, <2>2, <3>1 DEF Legal
  <2>3. QED
    BY <2>1, <2>2
<1>5. ASSUME NEW i \in 1..(Len(g) - 1) PROVE Follows(g[i + 1], g[i])
  <2>1. i \in 1..Len(h) /\ h # <<>>
    BY <1>1, <1>2, <1>5
  <2>2. CASE i = Len(h)
    <3>1. g[i + 1] = x /\ g[i] = Latest(h)
      BY <1>1, <2>1, <2>2 DEF Latest
    <3>2. QED
      BY <2>1, <3>1
  <2>3. CASE i # Len(h)
    <3>1. i \in 1..(Len(h) - 1) /\ i + 1 \in 1..Len(h)
      BY <1>2, <2>1, <2>3
    <3>2. g[i + 1] = h[i + 1] /\ g[i] = h[i]
      BY <1>1, <2>1, <3>1
    <3>3. QED
      BY <3>1, <3>2 DEF Legal
  <2>4. QED
    BY <2>2, <2>3
<1>6. Legal(g)
  BY <1>3, <1>4, <1>5 DEF Legal
<1>7. QED
  BY <1>6 DEF g

LEMMA InitOneInv == Init => OneInv
<1> SUFFICES ASSUME Init PROVE OneInv
  OBVIOUS
<1>1. ASSUME NEW a \in Actions PROVE Legal(history[a]) /\ Out(a, history[a], files[a])
  <2>1. history[a] = <<>> /\ \A c \in Bytes : files[a][c] = "absent"
    BY DEF Init
  <2>2. Legal(<<>>)
    BY EmptyElems DEF Legal
  <2>3. QED
    BY <2>1, <2>2 DEF Out
<1>2. \A w \in Workers : Fresh(w)
  BY DEF Init, Fresh, ExportStages
<1>3. QED
  BY <1>1, <1>2 DEF OneInv

\* An idle worker holds no view.
LEMMA IdleIsFresh ==
  ASSUME NEW w \in Workers, pc'[w] = "idle"
  PROVE  Fresh(w)'
  BY DEF Fresh, ExportStages

LEMMA QuietOneInv ==
  ASSUME NEW w \in Workers, IInv, OneInv, OneWorker, Quiet(w)
  PROVE  OneInv'
<1>1. UNCHANGED <<tables, files>>
  BY QuietSteps
<1>2. \A a \in Actions : (Legal(history[a]) /\ Out(a, history[a], files[a]))'
  BY <1>1 DEF OneInv, Out, Content, tables
<1>3. Fresh(w)'
  <2>1. CASE Finish(w)
    BY <2>1, FinishType, IdleIsFresh DEF IInv
  <2>2. CASE BeginExport(w) \/ ReuseFile(w)
    <3>1. /\ pc[w] \in ExportStages /\ pc'[w] \in {"file", "commit"} /\ job' = job
      BY <2>2 DEF IInv, TypeOK, BeginExport, ReuseFile, Goto, ExportStages
    <3>2. QED
      BY <1>1, <3>1 DEF OneInv, Fresh, ExportStages, tables
  <2>3. CASE Request(w)
    <3>1. PICK j \in Job : job' = [job EXCEPT ![w] = j] /\ Serves(w, j)
      BY <2>3, RequestLocals DEF IInv
    <3>2. job'[w] = j /\ history' = history
      BY <1>1, <3>1 DEF IInv, TypeOK, tables
    <3>3. CASE pc' = [pc EXCEPT ![w] = "propose"]
      <4>1. pc'[w] = "propose"
        BY <3>3 DEF IInv, TypeOK
      <4>2. PICK a \in Actions :
              history[a] = <<>> /\ j = NewJob(a, Proposal, Proposal, NoReview)
        BY <3>1, <3>3, <4>1 DEF IInv, TypeOK, Serves
      <4>3. j.action = a /\ j.next = Proposal
        BY <4>2 DEF NewJob
      <4>4. QED
        BY <3>2, <4>1, <4>2, <4>3 DEF Fresh, ExportStages
    <3>4. CASE pc' = [pc EXCEPT ![w] = "review"]
      <4>1. pc'[w] = "review"
        BY <3>4 DEF IInv, TypeOK
      <4>2. PICK a \in Actions, rv \in Review, t \in Texts :
              /\ history[a] # <<>>
              /\ IF rv.edited THEN Latest(history[a]).state = "PROPOSED"
                              ELSE t = Latest(history[a]).text
              /\ rv.state \in Decisions => MayTransition(Latest(history[a]).state, rv.state)
              /\ j = NewJob(a, Latest(history[a]),
                       [state |-> StateAfter(Latest(history[a]).state, rv),
                        text |-> t], rv)
        BY <3>1, <3>4, <4>1 DEF IInv, TypeOK, Serves
      <4>3. /\ j.action = a /\ j.review = rv /\ j.view = Latest(history[a])
            /\ j.next.state = StateAfter(Latest(history[a]).state, rv)
            /\ rv.edited \/ j.next.text = j.view.text
        BY <4>2 DEF NewJob
      <4>4. Latest(history[a]).state \in Reached
        BY <4>2, LatestIsElem DEF OneInv, Legal, IInv, TypeOK
      <4>5. ChangesAction(rv) =>
              /\ j.view.state = "PROPOSED"
              /\ j.next.state \in {"PROPOSED", "APPROVED", "REJECTED"}
              /\ j.next.state = StateAfter("PROPOSED", rv)
              /\ rv.edited \/ j.next.text = j.view.text
        BY <4>2, <4>3, <4>4 DEF ChangesAction, StateAfter, Decisions, MayTransition,
           ActionTransitions, Reached
      <4>6. QED
        BY <3>2, <4>1, <4>2, <4>3, <4>5 DEF Fresh, ExportStages
    <3>5. CASE pc' = [pc EXCEPT ![w] = "lookup"]
      <4>1. pc'[w] = "lookup"
        BY <3>5 DEF IInv, TypeOK
      <4>2. PICK a \in Actions :
              /\ history[a] # <<>>
              /\ j = NewJob(a, Latest(history[a]),
                       [state |-> "EXPORTED", text |-> Latest(history[a]).text],
                       NoReview)
        BY <3>1, <3>5, <4>1 DEF IInv, TypeOK, Serves
      <4>3. /\ j.action = a /\ j.view = Latest(history[a])
            /\ j.next.text = Latest(history[a]).text
        BY <4>2 DEF NewJob
      <4>4. QED
        BY <3>2, <4>1, <4>2, <4>3 DEF Fresh, ExportStages
    <3>6. QED
      BY <3>1, <3>3, <3>4, <3>5 DEF Serves
  <2>4. QED
    BY <2>1, <2>2, <2>3, QuietSteps
<1>4. QED
  BY <1>2, <1>3 DEF OneInv, OneWorker

\* What a step that commits or writes finds, with one worker, and what it does:
\* to the action a of the request, by the stage of the worker.
Proposes(a) ==
  /\ history[a] = <<>>
  /\ history' = [history EXCEPT ![a] = Append(@, Proposal)]
  /\ UNCHANGED <<receipts, files>>

Reviews(a) ==
  /\ history[a] # <<>> /\ Latest(history[a]).state = "PROPOSED"
  /\ \E x \in Snapshot :
       /\ x.state \in {"PROPOSED", "APPROVED", "REJECTED"}
       /\ history' = [history EXCEPT ![a] = Append(@, x)]
  /\ UNCHANGED <<receipts, files>>

Writes(a) ==
  /\ history[a] # <<>> /\ Latest(history[a]).state = "APPROVED"
  /\ LET c == Content[a][Latest(history[a]).text] IN
       \E s \in {"torn", "whole"} : files' = [files EXCEPT ![a][c] = s]
  /\ UNCHANGED <<history, receipts>>

Exports(a) ==
  /\ history[a] # <<>> /\ Latest(history[a]).state = "APPROVED"
  /\ \E x \in Snapshot :
       /\ x.state = "EXPORTED" /\ x.text = Latest(history[a]).text
       /\ history' = [history EXCEPT ![a] = Append(@, x)]
  /\ LET c == Content[a][Latest(history[a]).text] IN
       /\ files[a][c] = "whole"
       /\ receipts' = [receipts EXCEPT ![a] = {c}]
  /\ UNCHANGED files

LEMMA WritingStep ==
  ASSUME NEW w \in Workers, IInv, OneInv, Writing(w)
  PROVE  \/ UNCHANGED <<history, receipts, files>>
         \/ \E a \in Actions : Proposes(a) \/ Reviews(a) \/ Writes(a) \/ Exports(a)
<1> DEFINE a == job[w].action
<1>1. /\ a \in Actions /\ Fresh(w) /\ ViewShape(w) /\ job[w].next \in Snapshot
  BY WriterFacts, JobTypes DEF IInv, OneInv
<1>2. CASE CommitPropose(w)
  <2>1. Proposes(a)
    BY <1>1, <1>2 DEF CommitPropose, Fresh, Proposes
  <2>2. QED
    BY <1>1, <2>1
<1>3. CASE CommitReview(w)
  <2>1. CASE ChangesAction(job[w].review)
    <3>1. Reviews(a)
      BY <1>1, <1>3, <2>1 DEF CommitReview, Fresh, Reviews
    <3>2. QED
      BY <1>1, <3>1
  <2>2. CASE ~ChangesAction(job[w].review)
    BY <1>3, <2>2 DEF CommitReview
  <2>3. QED
    BY <2>1, <2>2
<1>4. ASSUME CreateFile(w) \/ WriteFile(w)
      PROVE  Writes(a)
  <2>1. /\ history[a] # <<>> /\ Latest(history[a]) = job[w].view
        /\ job[w].view.state = "APPROVED"
    BY <1>1, <1>4 DEF CreateFile, WriteFile, Goto, Fresh, ViewShape, ExportStages
  <2>2. ContentOf(w) = Content[a][Latest(history[a]).text]
    BY <2>1 DEF ContentOf
  <2>3. \E s \in {"torn", "whole"} : files' = [files EXCEPT ![a][ContentOf(w)] = s]
    BY <1>4 DEF CreateFile, WriteFile
  <2>4. UNCHANGED <<history, receipts>>
    BY <1>4 DEF CreateFile, WriteFile, tables
  <2>5. QED
    BY <2>1, <2>2, <2>3, <2>4 DEF Writes
<1>5. CASE CommitExport(w)
  <2>1. /\ history[a] # <<>> /\ Latest(history[a]) = job[w].view
        /\ job[w].view.state = "APPROVED"
        /\ job[w].next.state = "EXPORTED" /\ job[w].next.text = job[w].view.text
        /\ files[a][ContentOf(w)] = "whole"
    BY <1>1, <1>5 DEF CommitExport, Fresh, ViewShape, ExportStages
  <2>2. ContentOf(w) = Content[a][Latest(history[a]).text]
    BY <2>1 DEF ContentOf
  <2>3. Exports(a)
    BY <1>1, <1>5, <2>1, <2>2 DEF CommitExport, Exports
  <2>4. QED
    BY <1>1, <2>3
<1>6. QED
  BY <1>1, <1>2, <1>3, <1>4, <1>5 DEF Writing

\* Each of the four steps keeps every history legal and every file explained.
LEMMA StepsKeepLegal ==
  ASSUME IInv, OneInv, NEW a \in Actions,
         Proposes(a) \/ Reviews(a) \/ Writes(a) \/ Exports(a)
  PROVE  \A b \in Actions : (Legal(history[b]) /\ Out(b, history[b], files[b]))'
<1>1. /\ history[a] \in Seq(Snapshot) /\ Legal(history[a])
      /\ Out(a, history[a], files[a])
  BY DEF IInv, TypeOK, OneInv
<1>2. \A b \in Actions \ {a} : history'[b] = history[b] /\ files'[b] = files[b]
  BY DEF IInv, TypeOK, Proposes, Reviews, Writes, Exports
<1>3. Legal(history'[a]) /\ Out(a, history'[a], files'[a])
  <2>1. CASE Proposes(a)
    <3>1. /\ history[a] = <<>> /\ files' = files
          /\ history'[a] = Append(history[a], Proposal)
      BY <2>1 DEF IInv, TypeOK, Proposes
    <3>2. Legal(Append(history[a], Proposal))
      BY <1>1, <3>1, LegalAppend, ProposalType DEF Reached, Proposal
    <3>3. QED
      BY <1>1, <3>1, <3>2 DEF Out
  <2>2. CASE Reviews(a)
    <3>1. PICK x \in Snapshot :
            /\ x.state \in {"PROPOSED", "APPROVED", "REJECTED"}
            /\ history'[a] = Append(history[a], x)
      BY <2>2 DEF IInv, TypeOK, Reviews
    <3>2. /\ history[a] # <<>> /\ Latest(history[a]).state = "PROPOSED"
          /\ files' = files
      BY <2>2 DEF Reviews
    <3>3. Follows(x, Latest(history[a]))
      BY <3>1, <3>2 DEF Follows, ActionTransitions
    <3>4. Legal(Append(history[a], x))
      BY <1>1, <3>1, <3>2, <3>3, LegalAppend DEF Reached
    <3>5. QED
      BY <1>1, <3>1, <3>2, <3>4 DEF Out
  <2>3. CASE Writes(a)
    <3>1. /\ history' = history
          /\ history[a] # <<>> /\ Latest(history[a]).state = "APPROVED"
          /\ \A c \in Bytes : c # Content[a][Latest(history[a]).text] =>
               files'[a][c] = files[a][c]
      BY <2>3 DEF IInv, TypeOK, Writes
    <3>2. QED
      BY <1>1, <3>1 DEF Out
  <2>4. CASE Exports(a)
    <3>1. PICK x \in Snapshot :
            /\ x.state = "EXPORTED" /\ x.text = Latest(history[a]).text
            /\ history'[a] = Append(history[a], x)
      BY <2>4 DEF IInv, TypeOK, Exports
    <3>2. /\ history[a] # <<>> /\ Latest(history[a]).state = "APPROVED"
          /\ files' = files
      BY <2>4 DEF Exports
    <3>3. Follows(x, Latest(history[a]))
      BY <3>1, <3>2 DEF Follows, ActionTransitions
    <3>4. Legal(Append(history[a], x))
      BY <1>1, <3>1, <3>2, <3>3, LegalAppend DEF Reached
    <3>5. history'[a] # <<>> /\ Latest(history'[a]) = x
      BY <1>1, <3>1, AppendFacts
    <3>6. QED
      BY <1>1, <3>1, <3>2, <3>4, <3>5 DEF Out
  <2>5. QED
    BY <2>1, <2>2, <2>3, <2>4
<1>4. QED
  BY <1>1, <1>2, <1>3 DEF OneInv, Out, Content

LEMMA WritingOneInv ==
  ASSUME NEW w \in Workers, IInv, OneInv, OneWorker, Writing(w)
  PROVE  OneInv'
<1>1. \A a \in Actions : (Legal(history[a]) /\ Out(a, history[a], files[a]))'
  <2>1. CASE UNCHANGED <<history, receipts, files>>
    BY <2>1 DEF OneInv, Out, Content
  <2>2. CASE \E a \in Actions : Proposes(a) \/ Reviews(a) \/ Writes(a) \/ Exports(a)
    BY <2>2, StepsKeepLegal
  <2>3. QED
    BY <2>1, <2>2, WritingStep
<1>2. Fresh(w)'
  <2>1. CASE CreateFile(w) \/ WriteFile(w)
    <3>1. /\ pc[w] \in ExportStages /\ pc'[w] \in {"write", "commit"}
          /\ job' = job /\ history' = history
      BY <2>1 DEF IInv, TypeOK, CreateFile, WriteFile, Goto, ExportStages, tables
    <3>2. QED
      BY <3>1 DEF OneInv, Fresh, ExportStages
  <2>2. CASE CommitPropose(w) \/ CommitReview(w) \/ CommitExport(w)
    BY <2>2, FinishType, IdleIsFresh DEF IInv, CommitPropose, CommitReview, CommitExport
  <2>3. QED
    BY <2>1, <2>2 DEF Writing
<1>3. QED
  BY <1>1, <1>2 DEF OneInv, OneWorker

\* With one worker a request never acts on a stale snapshot.
THEOREM ViewsStayFresh ==
  ASSUME OneWorker
  PROVE  Spec => [](IInv /\ OneInv)
<1>1. IInv /\ OneInv /\ [Next]_vars => OneInv'
  <2> SUFFICES ASSUME IInv, OneInv, [Next]_vars PROVE OneInv'
    OBVIOUS
  <2>1. CASE UNCHANGED vars
    BY <2>1 DEF vars, OneInv, Fresh, Out, Content
  <2>2. ASSUME NEW w \in Workers, Quiet(w) \/ Writing(w) PROVE OneInv'
    BY <2>2, QuietOneInv, WritingOneInv
  <2>3. QED
    BY <2>1, <2>2, NextSplits
<1>2. QED
  BY <1>1, InitOneInv, InductiveInvariant, PTL DEF Spec

\* With one worker the snapshots follow the documented transitions, and the text
\* of an action never changes after its approval.
THEOREM HistoryIsLegal ==
  ASSUME OneWorker
  PROVE  Spec => []HistoryLegal
<1>1. OneInv => HistoryLegal
  BY DEF OneInv, Legal, HistoryLegal
<1>2. QED
  BY <1>1, ViewsStayFresh, PTL

-----------------------------------------------------------------------------
(***************************************************************************)
(* With one worker, the reviews on record explain the history.             *)
(***************************************************************************)
LEMMA ChangesFacts ==
  ASSUME NEW rs \in Seq(Review)
  PROVE  /\ Changes(rs) \subseteq 1..Len(rs)
         /\ IsFiniteSet(Changes(rs)) /\ Cardinality(Changes(rs)) \in Nat
         /\ \A i \in Changes(rs) : Place(rs, i) \in 2..(Cardinality(Changes(rs)) + 1)
<1>1. Len(rs) \in Nat
  BY LenNat
<1>2. Changes(rs) \subseteq 1..Len(rs)
  BY DEF Changes
<1>3. IsFiniteSet(Changes(rs)) /\ Cardinality(Changes(rs)) \in Nat
  <2>1. IsFiniteSet(1..Len(rs))
    BY <1>1, FS_Interval
  <2>2. IsFiniteSet(Changes(rs))
    BY <1>2, <2>1, FS_Subset
  <2>3. QED
    BY <2>2, FS_CardinalityType
<1>4. ASSUME NEW i \in Changes(rs)
      PROVE  Place(rs, i) \in 2..(Cardinality(Changes(rs)) + 1)
  <2> DEFINE upto == {k \in Changes(rs) : k <= i}
  <2>1. upto \subseteq Changes(rs) /\ i \in upto
    BY <1>1, <1>2
  <2>2. Place(rs, i) = 1 + Cardinality(upto)
    BY DEF Place
  <2> HIDE DEF upto
  <2>3. IsFiniteSet(upto) /\ Cardinality(upto) <= Cardinality(Changes(rs))
    BY <1>3, <2>1, FS_Subset
  <2>4. Cardinality(upto) \in Nat /\ Cardinality(upto) # 0
    BY <2>1, <2>3, FS_CardinalityType, FS_EmptySet
  <2>5. QED
    BY <1>3, <2>2, <2>3, <2>4
<1>5. QED
  BY <1>2, <1>3, <1>4

\* A review more on record.
LEMMA ChangesAppend ==
  ASSUME NEW rs \in Seq(Review), NEW x \in Review
  PROVE  LET g == Append(rs, x) IN
         /\ g \in Seq(Review)
         /\ \A i \in Changes(rs) : g[i] = rs[i] /\ Place(g, i) = Place(rs, i)
         /\ ~ChangesAction(x) => Changes(g) = Changes(rs)
         /\ ChangesAction(x) =>
              /\ Changes(g) = Changes(rs) \cup {Len(rs) + 1}
              /\ g[Len(rs) + 1] = x
              /\ Cardinality(Changes(g)) = Cardinality(Changes(rs)) + 1
              /\ Place(g, Len(rs) + 1) = Cardinality(Changes(rs)) + 2
<1> DEFINE g == Append(rs, x)
<1>1. /\ g \in Seq(Review) /\ Len(g) = Len(rs) + 1 /\ g[Len(rs) + 1] = x
      /\ \A i \in 1..Len(rs) : g[i] = rs[i]
  BY AppendFacts
<1> HIDE DEF g
<1>2. Len(rs) \in Nat
  BY LenNat
<1>3. 1..Len(g) = 1..Len(rs) \cup {Len(rs) + 1} /\ Len(rs) + 1 \notin 1..Len(rs)
  BY <1>1, <1>2
<1>4. Changes(g) = Changes(rs) \cup (IF ChangesAction(x) THEN {Len(rs) + 1} ELSE {})
  BY <1>1, <1>3 DEF Changes
<1>5. ASSUME NEW i \in Changes(rs) PROVE g[i] = rs[i] /\ Place(g, i) = Place(rs, i)
  <2>1. i \in 1..Len(rs)
    BY ChangesFacts
  <2>2. {k \in Changes(g) : k <= i} = {k \in Changes(rs) : k <= i}
    BY <1>2, <1>4, <2>1
  <2>3. QED
    BY <1>1, <2>1, <2>2 DEF Place
<1>6. CASE ChangesAction(x)
  <2>1. Changes(g) = Changes(rs) \cup {Len(rs) + 1}
    BY <1>4, <1>6
  <2>2. Cardinality(Changes(g)) = Cardinality(Changes(rs)) + 1
    <3>1. Len(rs) + 1 \notin Changes(rs)
      BY <1>3, ChangesFacts
    <3>2. QED
      BY <2>1, <3>1, ChangesFacts, FS_AddElement
  <2>3. {k \in Changes(g) : k <= Len(rs) + 1} = Changes(g)
    <3>1. Changes(g) \subseteq 1..(Len(rs) + 1)
      BY <1>1, ChangesFacts
    <3>2. QED
      BY <1>2, <3>1
  <2>4. Place(g, Len(rs) + 1) = 1 + Cardinality(Changes(g))
    BY <2>3 DEF Place
  <2>5. Place(g, Len(rs) + 1) = Cardinality(Changes(rs)) + 2
    BY <2>2, <2>4, ChangesFacts
  <2>6. QED
    BY <1>1, <1>5, <1>6, <2>1, <2>2, <2>5 DEF g
<1>7. CASE ~ChangesAction(x)
  <2>1. Changes(g) = Changes(rs)
    BY <1>4, <1>7
  <2>2. QED
    BY <1>1, <1>5, <1>7, <2>1 DEF g
<1>8. QED
  BY <1>6, <1>7

LEMMA ExplainsProposal == Explains(<<>>, {}, Append(<<>>, Proposal))
<1>1. Changes(<<>>) = {} /\ Cardinality(Changes(<<>>)) = 0
  BY FS_EmptySet DEF Changes
<1>2. Len(Append(<<>>, Proposal)) = 1 /\ Append(<<>>, Proposal)[1] = Proposal
  OBVIOUS
<1>3. QED
  BY <1>1, <1>2 DEF Explains, Proposal

\* A review that changes the action, and the snapshot it appends.
LEMMA ExplainsChange ==
  ASSUME NEW rs \in Seq(Review), NEW h \in Seq(Snapshot), Explains(rs, {}, h),
         NEW x \in Review, ChangesAction(x),
         NEW s \in Snapshot, s.state = StateAfter("PROPOSED", x),
         x.edited \/ s.text = Latest(h).text
  PROVE  Explains(Append(rs, x), {}, Append(h, s))
<1> DEFINE g == Append(rs, x)
           f == Append(h, s)
           n == Cardinality(Changes(rs))
<1>1. /\ \A i \in Changes(rs) : g[i] = rs[i] /\ Place(g, i) = Place(rs, i)
      /\ Changes(g) = Changes(rs) \cup {Len(rs) + 1}
      /\ g[Len(rs) + 1] = x
      /\ Cardinality(Changes(g)) = n + 1
      /\ Place(g, Len(rs) + 1) = n + 2
  BY ChangesAppend
<1>2. Len(f) = Len(h) + 1 /\ f[Len(h) + 1] = s /\ \A i \in 1..Len(h) : f[i] = h[i]
  BY AppendFacts
<1>3. n \in Nat /\ \A i \in Changes(rs) : Place(rs, i) \in 2..(n + 1)
  BY ChangesFacts
<1>4. /\ Len(h) = n + 1 /\ h[1].state = "PROPOSED"
      /\ \A i \in Changes(rs) :
           /\ h[Place(rs, i)].state = StateAfter("PROPOSED", rs[i])
           /\ rs[i].edited \/ h[Place(rs, i)].text = h[Place(rs, i) - 1].text
  BY DEF Explains
<1>5. x.edited \/ s.text = h[Len(h)].text
  BY DEF Latest
<1> HIDE DEF g, f, n
<1>6. ASSUME NEW i \in Changes(g)
      PROVE  /\ f[Place(g, i)].state = StateAfter("PROPOSED", g[i])
             /\ g[i].edited \/ f[Place(g, i)].text = f[Place(g, i) - 1].text
  <2>1. CASE i \in Changes(rs)
    <3>1. Place(rs, i) \in 1..Len(h) /\ Place(rs, i) - 1 \in 1..Len(h)
      BY <1>3, <1>4, <2>1
    <3>2. f[Place(g, i)] = h[Place(rs, i)] /\ f[Place(g, i) - 1] = h[Place(rs, i) - 1]
      BY <1>1, <1>2, <2>1, <3>1
    <3>3. QED
      BY <1>1, <1>4, <2>1, <3>2
  <2>2. CASE i = Len(rs) + 1
    <3>1. Place(g, i) = Len(h) + 1 /\ Place(g, i) - 1 = Len(h) /\ Len(h) \in 1..Len(h)
      BY <1>1, <1>3, <1>4, <2>2
    <3>2. f[Place(g, i)] = s /\ f[Place(g, i) - 1] = h[Len(h)] /\ g[i] = x
      BY <1>1, <1>2, <2>2, <3>1
    <3>3. QED
      BY <1>5, <3>2
  <2>3. QED
    BY <1>1, <2>1, <2>2
<1>7. f[1] = h[1] /\ Len(f) = Cardinality(Changes(g)) + 1
  <2>1. 1 \in 1..Len(h)
    BY <1>3, <1>4
  <2>2. QED
    BY <1>1, <1>2, <1>3, <1>4, <2>1
<1>8. Explains(g, {}, f)
  BY <1>4, <1>6, <1>7 DEF Explains
<1>9. QED
  BY <1>8 DEF g, f

\* A review that changes nothing.
LEMMA ExplainsRemark ==
  ASSUME NEW rs \in Seq(Review), NEW re, NEW h, Explains(rs, re, h),
         NEW x \in Review, ~ChangesAction(x)
  PROVE  Explains(Append(rs, x), re, h)
<1> DEFINE g == Append(rs, x)
<1>1. /\ \A i \in Changes(rs) : g[i] = rs[i] /\ Place(g, i) = Place(rs, i)
      /\ Changes(g) = Changes(rs)
  BY ChangesAppend
<1> HIDE DEF g
<1>2. Explains(g, re, h)
  BY <1>1 DEF Explains
<1>3. QED
  BY <1>2 DEF g

LEMMA ExplainsExport ==
  ASSUME NEW rs \in Seq(Review), NEW h \in Seq(Snapshot), Explains(rs, {}, h),
         NEW s \in Snapshot, s.state = "EXPORTED", NEW re, re # {}
  PROVE  Explains(rs, re, Append(h, s))
<1> DEFINE f == Append(h, s)
           n == Cardinality(Changes(rs))
<1>1. /\ Len(f) = Len(h) + 1 /\ Latest(f) = s
      /\ \A i \in 1..Len(h) : f[i] = h[i]
  BY AppendFacts
<1>2. n \in Nat /\ \A i \in Changes(rs) : Place(rs, i) \in 2..(n + 1)
  BY ChangesFacts
<1>3. /\ Len(h) = n + 1 /\ h[1].state = "PROPOSED"
      /\ \A i \in Changes(rs) :
           /\ h[Place(rs, i)].state = StateAfter("PROPOSED", rs[i])
           /\ rs[i].edited \/ h[Place(rs, i)].text = h[Place(rs, i) - 1].text
  BY DEF Explains
<1> HIDE DEF f, n
<1>4. ASSUME NEW i \in Changes(rs)
      PROVE  f[Place(rs, i)] = h[Place(rs, i)] /\ f[Place(rs, i) - 1] = h[Place(rs, i) - 1]
  BY <1>1, <1>2, <1>3
<1>5. f[1] = h[1] /\ Len(f) = n + 2
  BY <1>1, <1>2, <1>3
<1>6. Explains(rs, re, f)
  BY <1>1, <1>3, <1>4, <1>5 DEF Explains, n
<1>7. QED
  BY <1>6 DEF f

\* What the records of one action say of its history; reviews need a proposal.
Explained(a) ==
  IF history[a] = <<>> THEN reviews[a] = <<>>
                       ELSE Explains(reviews[a], receipts[a], history[a])

\* A step that commits a review or an export explains the snapshot it appends.
LEMMA WritingExplained ==
  ASSUME NEW w \in Workers, IInv, OneInv, Writing(w), NEW b \in Actions, Explained(b)
  PROVE  Explained(b)'
<1> DEFINE a == job[w].action
<1>1. /\ a \in Actions /\ Fresh(w) /\ ViewShape(w) /\ ActionShape(a)
      /\ job[w].next \in Snapshot /\ job[w].review \in Review
      /\ history[a] \in Seq(Snapshot) /\ reviews[a] \in Seq(Review)
  BY WriterFacts, JobTypes DEF IInv, OneInv
<1>2. history[a] = <<>> => receipts[a] = {}
  BY <1>1, EmptyElems DEF ActionShape, TableShape
<1>3. CASE UNCHANGED <<history, reviews, receipts>>
  BY <1>3 DEF Explained
<1>4. CASE b # a
  <2>1. history'[b] = history[b] /\ reviews'[b] = reviews[b] /\ receipts'[b] = receipts[b]
    BY <1>1, <1>4 DEF IInv, TypeOK, Writing, CommitPropose, CommitReview, CreateFile, WriteFile,
                      CommitExport, tables
  <2>2. QED
    BY <2>1 DEF Explained
<1>5. CASE b = a /\ CommitPropose(w)
  <2>1. history[a] = <<>> /\ job[w].next = Proposal
    BY <1>1, <1>5 DEF CommitPropose, Fresh
  <2>2. /\ history'[a] = Append(<<>>, Proposal)
        /\ reviews'[a] = <<>> /\ receipts'[a] = {}
    BY <1>1, <1>2, <1>5, <2>1 DEF CommitPropose, IInv, TypeOK, Explained
  <2>3. history'[a] # <<>>
    BY <2>2
  <2>4. QED
    BY <1>5, <2>2, <2>3, ExplainsProposal DEF Explained
<1>6. CASE b = a /\ CommitReview(w)
  <2>1. /\ history[a] # <<>> /\ Explains(reviews[a], receipts[a], history[a])
        /\ reviews'[a] = Append(reviews[a], job[w].review)
        /\ receipts'[a] = receipts[a]
    BY <1>1, <1>6 DEF CommitReview, IInv, TypeOK, Explained, Fresh
  <2>2. CASE ChangesAction(job[w].review)
    <3>1. /\ Latest(history[a]) = job[w].view /\ job[w].view.state = "PROPOSED"
          /\ job[w].next.state = StateAfter("PROPOSED", job[w].review)
          /\ job[w].review.edited \/ job[w].next.text = Latest(history[a]).text
      BY <1>1, <1>6, <2>2 DEF CommitReview, Fresh
    <3>2. receipts[a] = {}
      BY <2>1, <3>1 DEF Explains
    <3>3. history'[a] = Append(history[a], job[w].next)
      BY <1>1, <1>6, <2>2 DEF CommitReview, IInv, TypeOK
    <3>4. Explains(Append(reviews[a], job[w].review), {}, Append(history[a], job[w].next))
      BY <1>1, <2>1, <2>2, <3>1, <3>2, ExplainsChange
    <3>5. history'[a] # <<>>
      BY <1>1, <3>3, AppendFacts
    <3>6. QED
      BY <1>6, <2>1, <3>2, <3>3, <3>4, <3>5 DEF Explained
  <2>3. CASE ~ChangesAction(job[w].review)
    <3>1. history'[a] = history[a]
      BY <1>6, <2>3 DEF CommitReview
    <3>2. Explains(Append(reviews[a], job[w].review), receipts[a], history[a])
      BY <1>1, <2>1, <2>3, ExplainsRemark
    <3>3. QED
      BY <1>6, <2>1, <3>1, <3>2 DEF Explained
  <2>4. QED
    BY <2>2, <2>3
<1>7. CASE b = a /\ CommitExport(w)
  <2>1. /\ history[a] # <<>> /\ receipts[a] = {} /\ job[w].next.state = "EXPORTED"
    BY <1>1, <1>7 DEF CommitExport, Fresh, ViewShape, ExportStages
  <2>2. /\ history'[a] = Append(history[a], job[w].next)
        /\ reviews'[a] = reviews[a] /\ receipts'[a] # {}
    BY <1>1, <1>7 DEF CommitExport, IInv, TypeOK
  <2>3. Explains(reviews[a], receipts'[a], Append(history[a], job[w].next))
    BY <1>1, <1>7, <2>1, <2>2, ExplainsExport DEF Explained
  <2>4. history'[a] # <<>>
    BY <1>1, <2>2, AppendFacts
  <2>5. QED
    BY <1>7, <2>2, <2>3, <2>4 DEF Explained
<1>8. CASE CreateFile(w) \/ WriteFile(w)
  BY <1>3, <1>8 DEF CreateFile, WriteFile, tables
<1>9. QED
  BY <1>4, <1>5, <1>6, <1>7, <1>8 DEF Writing

\* With one worker the reviews on record and the receipt explain every snapshot of
\* an action, and no snapshot they ask for is missing: a snapshot is computed from
\* one read in an earlier unit of work, and committed together with its review.
THEOREM ReviewsTellTheHistory ==
  ASSUME OneWorker
  PROVE  Spec => []ReviewsExplainHistory
<1> DEFINE Told == \A a \in Actions : Explained(a)
<1>1. Init => Told
  BY DEF Init, Explained
<1>2. IInv /\ OneInv /\ Told /\ [Next]_vars => Told'
  <2> SUFFICES ASSUME IInv, OneInv, Told, [Next]_vars PROVE Told'
    OBVIOUS
  <2>1. CASE UNCHANGED <<history, reviews, receipts>>
    BY <2>1 DEF Explained
  <2>2. ASSUME NEW w \in Workers, Writing(w) PROVE Told'
    BY <2>2, WritingExplained
  <2>3. CASE UNCHANGED vars
    BY <2>1, <2>3 DEF vars
  <2>4. QED
    BY <2>1, <2>2, <2>3, NextSplits, QuietSteps DEF tables
<1>3. Told => ReviewsExplainHistory
  BY DEF Explained, ReviewsExplainHistory
<1>4. QED
  BY <1>1, <1>2, <1>3, ViewsStayFresh, PTL DEF Spec

-----------------------------------------------------------------------------
\* The abstract state of one action, as the refinement mapping gives it.
PhaseOf(h) == IF h = <<>> THEN "ABSENT" ELSE Latest(h).state
TextOf(h) == IF h = <<>> THEN DefaultText ELSE Latest(h).text
OutOf(fs) == {c \in Bytes : fs[c] # "absent"}

LEMMA StepsKeepThePromise ==
  ASSUME IInv, OneInv, NEW a \in Actions,
         Proposes(a) \/ Reviews(a) \/ Writes(a) \/ Exports(a)
  PROVE  Promise!Next
<1> DEFINE phase == [b \in Actions |-> PhaseOf(history[b])]
           text == [b \in Actions |-> TextOf(history[b])]
           out == [b \in Actions |-> OutOf(files[b])]
<1>0. history[a] \in Seq(Snapshot) /\ Out(a, history[a], files[a])
  BY DEF IInv, TypeOK, OneInv
<1>1. CASE Proposes(a)
  <2>1. /\ history[a] = <<>> /\ UNCHANGED <<receipts, files>>
        /\ history' = [history EXCEPT ![a] = Append(@, Proposal)]
    BY <1>1 DEF Proposes
  <2>2. history'[a] # <<>> /\ Latest(history'[a]) = Proposal
    <3>1. history'[a] = Append(history[a], Proposal)
      BY <2>1 DEF IInv, TypeOK
    <3>2. QED
      BY <1>0, <3>1, ProposalType, AppendFacts
  <2>3. /\ PhaseOf(history[a]) = "ABSENT" /\ PhaseOf(history'[a]) = "PROPOSED"
        /\ TextOf(history'[a]) = TextOf(history[a])
    BY <2>1, <2>2 DEF PhaseOf, TextOf, Proposal
  <2>4. /\ phase' = [phase EXCEPT ![a] = "PROPOSED"]
        /\ text' = text /\ out' = out
    BY <2>1, <2>3 DEF IInv, TypeOK
  <2>5. Promise!Propose(a)
    BY <2>1, <2>3, <2>4 DEF Promise!Propose, PhaseOf, TextOf, OutOf
  <2>6. QED
    BY <2>5 DEF Promise!Next
<1>2. CASE Reviews(a)
  <2>1. /\ history[a] # <<>> /\ Latest(history[a]).state = "PROPOSED"
        /\ UNCHANGED <<receipts, files>>
    BY <1>2 DEF Reviews
  <2>2. PICK x \in Snapshot :
          /\ x.state \in {"PROPOSED", "APPROVED", "REJECTED"}
          /\ history' = [history EXCEPT ![a] = Append(@, x)]
    BY <1>2 DEF Reviews
  <2>3. history'[a] # <<>> /\ Latest(history'[a]) = x /\ x.text \in Texts
    <3>1. history'[a] = Append(history[a], x)
      BY <2>2 DEF IInv, TypeOK
    <3>2. x.text \in Texts
      BY DEF Snapshot
    <3>3. QED
      BY <1>0, <3>1, <3>2, AppendFacts
  <2>4. /\ PhaseOf(history[a]) = "PROPOSED" /\ PhaseOf(history'[a]) = x.state
        /\ TextOf(history'[a]) = x.text
    BY <2>1, <2>3 DEF PhaseOf, TextOf
  <2>5. /\ phase' = [phase EXCEPT ![a] = x.state]
        /\ text' = [text EXCEPT ![a] = x.text] /\ out' = out
    BY <2>1, <2>2, <2>4 DEF IInv, TypeOK
  <2>6. Promise!Review(a)
    BY <2>1, <2>2, <2>3, <2>4, <2>5 DEF Promise!Review, PhaseOf, TextOf, OutOf
  <2>7. QED
    BY <2>6 DEF Promise!Next
<1>3. ASSUME Writes(a) \/ Exports(a)
      PROVE  /\ PhaseOf(history[a]) = "APPROVED"
             /\ TextOf(history[a]) = Latest(history[a]).text
             /\ Content[a][TextOf(history[a])] \in Bytes
             /\ OutOf(files[a]) \subseteq {Content[a][TextOf(history[a])]}
  <2>1. history[a] # <<>> /\ Latest(history[a]).state = "APPROVED"
    BY <1>3 DEF Writes, Exports
  <2>2. Latest(history[a]).text \in Texts
    <3>1. Latest(history[a]) \in Snapshot
      BY <1>0, <2>1, LenNat
    <3>2. QED
      BY <3>1 DEF Snapshot
  <2>3. QED
    BY <1>0, <2>1, <2>2, ContentType DEF PhaseOf, TextOf, OutOf, Out
<1>4. CASE Writes(a)
  <2> DEFINE c == Content[a][TextOf(history[a])]
  <2>1. PICK s \in {"torn", "whole"} : files' = [files EXCEPT ![a][c] = s]
    BY <1>3, <1>4 DEF Writes
  <2>2. history' = history /\ receipts' = receipts
    BY <1>4 DEF Writes
  <2>3. OutOf(files'[a]) = {c}
    BY <1>3, <1>4, <2>1 DEF OutOf, IInv, TypeOK
  <2>4. phase' = phase /\ text' = text /\ out' = [out EXCEPT ![a] = {c}]
    BY <2>1, <2>2, <2>3 DEF IInv, TypeOK
  <2>5. Promise!Write(a)
    BY <1>3, <1>4, <2>2, <2>4 DEF Promise!Write, PhaseOf, TextOf, OutOf
  <2>6. QED
    BY <2>5 DEF Promise!Next
<1>5. CASE Exports(a)
  <2> DEFINE c == Content[a][TextOf(history[a])]
  <2>1. PICK x \in Snapshot :
          /\ x.state = "EXPORTED" /\ x.text = Latest(history[a]).text
          /\ history' = [history EXCEPT ![a] = Append(@, x)]
    BY <1>5 DEF Exports
  <2>2. /\ files' = files /\ files[a][c] = "whole"
        /\ receipts' = [receipts EXCEPT ![a] = {c}]
    BY <1>3, <1>5 DEF Exports
  <2>3. history'[a] # <<>> /\ Latest(history'[a]) = x
    <3>1. history'[a] = Append(history[a], x)
      BY <2>1 DEF IInv, TypeOK
    <3>2. QED
      BY <1>0, <3>1, AppendFacts
  <2>4. /\ PhaseOf(history'[a]) = "EXPORTED"
        /\ TextOf(history'[a]) = TextOf(history[a])
    BY <1>3, <1>5, <2>1, <2>3 DEF PhaseOf, TextOf
  <2>5. OutOf(files[a]) = {c}
    BY <1>3, <1>5, <2>2 DEF OutOf
  <2>6. /\ phase' = [phase EXCEPT ![a] = "EXPORTED"]
        /\ text' = text /\ out' = out
    BY <2>1, <2>2, <2>4 DEF IInv, TypeOK
  <2>7. Promise!Export(a)
    BY <1>3, <1>5, <2>2, <2>5, <2>6 DEF Promise!Export, PhaseOf, TextOf, OutOf
  <2>8. QED
    BY <2>7 DEF Promise!Next
<1>6. QED
  BY <1>1, <1>2, <1>4, <1>5

\* With one worker, ActionLoop implements ActionPromise: what is written out and
\* exported is the text that was approved, once, and with a receipt.
THEOREM ActionsKeepThePromise ==
  ASSUME OneWorker
  PROVE  Spec => ImplementsPromise
<1>1. Init => Promise!Init
  BY DEF Init, Promise!Init
<1>2. IInv /\ OneInv /\ [Next]_vars => [Promise!Next]_Promise!vars
  <2> SUFFICES ASSUME IInv, OneInv, [Next]_vars
               PROVE  Promise!Next \/ UNCHANGED Promise!vars
    OBVIOUS
  <2>1. CASE UNCHANGED <<history, receipts, files>>
    BY <2>1 DEF Promise!vars
  <2>2. ASSUME NEW w \in Workers, Writing(w)
        PROVE  Promise!Next \/ UNCHANGED Promise!vars
    BY <2>1, <2>2, WritingStep, StepsKeepThePromise
  <2>3. CASE UNCHANGED vars
    BY <2>1, <2>3 DEF vars
  <2>4. QED
    BY <2>1, <2>2, <2>3, NextSplits, QuietSteps DEF tables
<1>3. QED
  BY <1>1, <1>2, ViewsStayFresh, PTL DEF Spec, ImplementsPromise, Promise!Spec
=============================================================================
