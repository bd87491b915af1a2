----------------------------- MODULE ActionLoop -----------------------------
(***************************************************************************)
(* The finance action of an exception case: proposal, review, export.      *)
(*                                                                         *)
(* A worker of the API serves one request at a time (ActionService is      *)
(* synchronous).  Every read and every write of the tables is a unit of    *)
(* work, one atomic step; between two of them, and around the two halves   *)
(* of a file write, the request may stop for good: the process dies, the   *)
(* database file is locked, the disk is full.  The service is deployed     *)
(* with one worker; Workers is a parameter so that what depends on that    *)
(* can be told from what does not.                                         *)
(***************************************************************************)
EXTENDS Naturals, Sequences, FiniteSets

CONSTANTS
  Workers,     \* the API workers; the deployment has one
  Actions,     \* the actions, one for each case that has an exception
  Journals,    \* the actions of type JOURNAL_EXPORT
  Texts,       \* the texts (rationale and clarification) of an action
  DefaultText, \* the text propose() gives it
  JournalCsv,  \* the bytes of an exported journal
  MaxReviews,  \* bound: reviews recorded for one action
  MaxStops,    \* bound: requests that stop half-way
  Faults       \* the ways a request may stop, a subset of {"stop", "tear"}

\* "stop": a request stops between two steps; "tear": in the middle of writing
\* an export file.
ASSUME ConstantsAssumption ==
  /\ Journals \subseteq Actions
  /\ DefaultText \in Texts
  /\ MaxReviews \in Nat
  /\ MaxStops \in Nat
  /\ Faults \subseteq {"stop", "tear"}

VARIABLES
  history,  \* action -> its snapshots in the `actions` table, oldest first
  reviews,  \* action -> its rows in `reviews`, oldest first
  audit,    \* action -> which of its audit_ids that occur once are present
  receipts, \* action -> the contents its export receipts name
  files,    \* action -> content -> what the path of that export holds
  pc,       \* worker -> where it stands in the request it serves
  job,      \* worker -> the locals of that request
  stops     \* how many requests have stopped half-way

tables == <<history, reviews, audit, receipts>>
records == <<tables, files>>
vars == <<history, reviews, audit, receipts, files, pc, job, stops>>

(***************************************************************************)
(* Data.                                                                   *)
(***************************************************************************)
NoAction == "none"

ActionState ==
  {"PROPOSED", "APPROVED", "REJECTED", "EXPORTED", "FAILED", "CANCELLED"}

ActionTransitions ==
  {<<"PROPOSED", "APPROVED">>, <<"PROPOSED", "REJECTED">>, <<"PROPOSED", "CANCELLED">>,
   <<"APPROVED", "EXPORTED">>, <<"APPROVED", "FAILED">>, <<"APPROVED", "CANCELLED">>,
   <<"FAILED", "APPROVED">>, <<"FAILED", "CANCELLED">>}

\* Slip: a decision may be taken back.
MayTransitionBack(s, t) ==
  <<s, t>> \in ActionTransitions \cup {<<"APPROVED", "REJECTED">>, <<"REJECTED", "APPROVED">>}

\* ProposedAction.transition: the transitions the table allows.
MayTransition(s, t) == <<s, t>> \in ActionTransitions

\* The states a review request may carry; the first two are decisions, the
\* others are put on record only.
Decisions == {"APPROVED", "REJECTED"}
ReviewState == Decisions \cup {"EDIT_REQUESTED", "DEFERRED"}

\* A snapshot of an action: what changes between two of them.
Snapshot == [state : ActionState, text : Texts]

\* A row of `reviews` and the "edited" flag of its audit event.
Review == [state : ReviewState, edited : BOOLEAN]

Latest(h) == h[Len(h)]

\* Does the request append a snapshot, or only a review?
ChangesAction(review) == review.edited \/ review.state \in Decisions

\* Slip: every review request becomes the state of the action.
StateAfterAny(s, review) == review.state

\* The state of the action after the review.
StateAfter(s, review) ==
  IF review.state \in Decisions THEN review.state ELSE s

Bytes == Texts \cup {JournalCsv}

\* _journal_csv reads nothing a reviewer may edit; _action_markdown prints the
\* clarification text.  The name of the export file is a digest of its content.
Content ==
  [a \in Actions |-> [t \in Texts |-> IF a \in Journals THEN JournalCsv ELSE t]]

\* The locals of a request: the action, the snapshot read at the start, the one
\* to append, the review to record.
Job == [action : Actions \cup {NoAction}, view : Snapshot, next : Snapshot,
        review : Review]

Proposal == [state |-> "PROPOSED", text |-> DefaultText]
NoReview == [state |-> "DEFERRED", edited |-> FALSE]

NewJob(a, view, next, review) ==
  [action |-> a, view |-> view, next |-> next, review |-> review]

NoJob == NewJob(NoAction, Proposal, Proposal, NoReview)

\* The content the export under way writes.
ContentOf(w) == Content[job[w].action][job[w].view.text]

ExportStages == {"lookup", "file", "write", "commit"}
Stages == {"idle", "propose", "review"} \cup ExportStages

Init ==
  /\ history = [a \in Actions |-> <<>>]
  /\ reviews = [a \in Actions |-> <<>>]
  /\ audit = [a \in Actions |-> {}]
  /\ receipts = [a \in Actions |-> {}]
  /\ files = [a \in Actions |-> [c \in Bytes |-> "absent"]]
  /\ pc = [w \in Workers |-> "idle"]
  /\ job = [w \in Workers |-> NoJob]
  /\ stops = 0

Goto(w, from, to) ==
  /\ pc[w] = from
  /\ pc' = [pc EXCEPT ![w] = to]

\* The request ends, with a result or an exception, and its locals are gone.
Finish(w) ==
  /\ pc' = [pc EXCEPT ![w] = "idle"]
  /\ job' = [job EXCEPT ![w] = NoJob]

(***************************************************************************)
(* ActionService.propose.  A case has one action; asked again, propose     *)
(* returns it and changes nothing.                                         *)
(***************************************************************************)
RequestPropose(w, a) ==
  /\ Goto(w, "idle", "propose")
  /\ history[a] = <<>>
  /\ job' = [job EXCEPT ![w] = NewJob(a, Proposal, Proposal, NoReview)]
  /\ UNCHANGED <<tables, files, stops>>

CommitPropose(w) ==
  LET a == job[w].action IN
  /\ pc[w] = "propose"
  /\ "proposed" \notin audit[a]
  /\ history' = [history EXCEPT ![a] = Append(@, job[w].next)]
  /\ audit' = [audit EXCEPT ![a] = @ \cup {"proposed"}]
  /\ Finish(w)
  /\ UNCHANGED <<reviews, receipts, files, stops>>

\* The primary key of audit_events rolls a second proposal back.
RefusePropose(w) ==
  /\ pc[w] = "propose"
  /\ "proposed" \in audit[job[w].action]
  /\ Finish(w)
  /\ UNCHANGED <<tables, files, stops>>

(***************************************************************************)
(* ActionService.review.  The checks run on the snapshot read first; a     *)
(* request they refuse, or a decision already taken, changes nothing.      *)
(***************************************************************************)
\* Slip: a decided action may still be edited.
RequestReviewAnyEdit(w, a, review, text) ==
  LET view == Latest(history[a]) IN
  /\ Goto(w, "idle", "review")
  /\ history[a] # <<>>
  /\ Len(reviews[a]) < MaxReviews
  /\ ~review.edited => text = view.text
  /\ review.state \in Decisions => MayTransition(view.state, review.state)
  /\ job' = [job EXCEPT ![w] =
       NewJob(a, view, [state |-> StateAfter(view.state, review), text |-> text],
              review)]
  /\ UNCHANGED <<tables, files, stops>>

RequestReview(w, a, review, text) ==
  LET view == Latest(history[a]) IN
  /\ Goto(w, "idle", "review")
  /\ history[a] # <<>>
  /\ Len(reviews[a]) < MaxReviews
  /\ IF review.edited THEN view.state = "PROPOSED" ELSE text = view.text
  /\ review.state \in Decisions => MayTransition(view.state, review.state)
  /\ job' = [job EXCEPT ![w] =
       NewJob(a, view, [state |-> StateAfter(view.state, review), text |-> text],
              review)]
  /\ UNCHANGED <<tables, files, stops>>

\* Slip: an edit that comes without a decision is recorded and not kept.
CommitReviewDecisionsOnly(w) ==
  LET a == job[w].action
      review == job[w].review
  IN
  /\ pc[w] = "review"
  /\ history' = IF review.state \in Decisions
                  THEN [history EXCEPT ![a] = Append(@, job[w].next)]
                  ELSE history
  /\ reviews' = [reviews EXCEPT ![a] = Append(@, review)]
  /\ Finish(w)
  /\ UNCHANGED <<audit, receipts, files, stops>>

CommitReview(w) ==
  LET a == job[w].action
      review == job[w].review
  IN
  /\ pc[w] = "review"
  /\ history' = IF ChangesAction(review)
                  THEN [history EXCEPT ![a] = Append(@, job[w].next)]
                  ELSE history
  /\ reviews' = [reviews EXCEPT ![a] = Append(@, review)]
  /\ Finish(w)
  /\ UNCHANGED <<audit, receipts, files, stops>>

(***************************************************************************)
(* ActionService.export and LocalActionExporter.export.                    *)
(***************************************************************************)
RequestExport(w, a) ==
  LET view == Latest(history[a]) IN
  /\ Goto(w, "idle", "lookup")
  /\ history[a] # <<>>
  /\ job' = [job EXCEPT ![w] =
       NewJob(a, view, [state |-> "EXPORTED", text |-> view.text], NoReview)]
  /\ UNCHANGED <<tables, files, stops>>

\* The receipt of the idempotency key exists and is returned again.
ReturnReceipt(w) ==
  /\ pc[w] = "lookup"
  /\ receipts[job[w].action] # {}
  /\ Finish(w)
  /\ UNCHANGED <<tables, files, stops>>

RefuseUnapproved(w) ==
  /\ pc[w] = "lookup"
  /\ receipts[job[w].action] = {}
  /\ job[w].view.state # "APPROVED"
  /\ Finish(w)
  /\ UNCHANGED <<tables, files, stops>>

\* Slip: everything that is not rejected may be exported.
BeginExportUnlessRejected(w) ==
  /\ Goto(w, "lookup", "file")
  /\ receipts[job[w].action] = {}
  /\ job[w].view.state # "REJECTED"
  /\ UNCHANGED <<tables, files, job, stops>>

BeginExport(w) ==
  /\ Goto(w, "lookup", "file")
  /\ receipts[job[w].action] = {}
  /\ job[w].view.state = "APPROVED"
  /\ UNCHANGED <<tables, files, job, stops>>

\* Slip: open("wb"), a second attempt truncates the file of the first.
CreateFileTruncating(w) ==
  LET a == job[w].action IN
  /\ Goto(w, "file", "write")
  /\ files' = [files EXCEPT ![a][ContentOf(w)] = "torn"]
  /\ UNCHANGED <<tables, job, stops>>

\* open("xb") creates the file, empty.
CreateFile(w) ==
  LET a == job[w].action IN
  /\ Goto(w, "file", "write")
  /\ files[a][ContentOf(w)] = "absent"
  /\ files' = [files EXCEPT ![a][ContentOf(w)] = "torn"]
  /\ UNCHANGED <<tables, job, stops>>

WriteFile(w) ==
  LET a == job[w].action IN
  /\ Goto(w, "write", "commit")
  /\ files' = [files EXCEPT ![a][ContentOf(w)] = "whole"]
  /\ UNCHANGED <<tables, job, stops>>

\* Slip: the file of an earlier attempt is always an error.
ReuseFileNever(w) ==
  /\ pc[w] = "file"
  /\ files[job[w].action][ContentOf(w)] = "whole"
  /\ Finish(w)
  /\ UNCHANGED <<tables, files, stops>>

\* Slip: the file of an earlier attempt is taken as it is.
ReuseFileUnread(w) ==
  /\ Goto(w, "file", "commit")
  /\ files[job[w].action][ContentOf(w)] # "absent"
  /\ UNCHANGED <<tables, files, job, stops>>

\* The file is there with the same bytes: an earlier attempt wrote it.
ReuseFile(w) ==
  /\ Goto(w, "file", "commit")
  /\ files[job[w].action][ContentOf(w)] = "whole"
  /\ UNCHANGED <<tables, files, job, stops>>

\* The file is there with other bytes, cut short: ValueError.
RefuseTornFile(w) ==
  /\ pc[w] = "file"
  /\ files[job[w].action][ContentOf(w)] = "torn"
  /\ Finish(w)
  /\ UNCHANGED <<tables, files, stops>>

\* Slip: no UNIQUE key and no primary key, a second receipt is inserted.
CommitExportAgain(w) ==
  LET a == job[w].action IN
  /\ pc[w] = "commit"
  /\ history' = [history EXCEPT ![a] = Append(@, job[w].next)]
  /\ receipts' = [receipts EXCEPT ![a] = @ \cup {ContentOf(w)}]
  /\ audit' = [audit EXCEPT ![a] = @ \cup {"exported"}]
  /\ Finish(w)
  /\ UNCHANGED <<reviews, files, stops>>

\* Slip: the last of several receipts replaces the others.
CommitExportReplacing(w) ==
  LET a == job[w].action IN
  /\ pc[w] = "commit"
  /\ history' = [history EXCEPT ![a] = Append(@, job[w].next)]
  /\ receipts' = [receipts EXCEPT ![a] = {ContentOf(w)}]
  /\ audit' = [audit EXCEPT ![a] = @ \cup {"exported"}]
  /\ Finish(w)
  /\ UNCHANGED <<reviews, files, stops>>

\* The EXPORTED snapshot, the receipt and the audit event, in one unit of work.
CommitExport(w) ==
  LET a == job[w].action IN
  /\ pc[w] = "commit"
  /\ receipts[a] = {}
  /\ "exported" \notin audit[a]
  /\ history' = [history EXCEPT ![a] = Append(@, job[w].next)]
  /\ receipts' = [receipts EXCEPT ![a] = {ContentOf(w)}]
  /\ audit' = [audit EXCEPT ![a] = @ \cup {"exported"}]
  /\ Finish(w)
  /\ UNCHANGED <<reviews, files, stops>>

\* UNIQUE (run_id, idempotency_key) rolls the second export back.
RefuseExport(w) ==
  /\ pc[w] = "commit"
  /\ receipts[job[w].action] # {} \/ "exported" \in audit[job[w].action]
  /\ Finish(w)
  /\ UNCHANGED <<tables, files, stops>>

(***************************************************************************)
(* A request stops half-way.  Nothing it wrote outside a unit of work is   *)
(* undone.                                                                 *)
(***************************************************************************)
Stop(w) ==
  /\ stops < MaxStops
  /\ stops' = stops + 1
  /\ \/ "stop" \in Faults /\ pc[w] \notin {"idle", "write"}
     \/ "tear" \in Faults /\ pc[w] = "write"
  /\ Finish(w)
  /\ UNCHANGED <<tables, files>>

(***************************************************************************)
(* ActionService.download and LocalActionExporter.read: the file of the    *)
(* receipt is served after its digest is compared.                         *)
(***************************************************************************)
Downloadable(a) == \E c \in receipts[a] : files[a][c] = "whole"

-----------------------------------------------------------------------------
Request(w) ==
  \E a \in Actions :
    \/ RequestPropose(w, a)
    \/ \E review \in Review, text \in Texts : RequestReview(w, a, review, text)
    \/ RequestExport(w, a)

Progress(w) ==
  \/ CommitPropose(w) \/ RefusePropose(w)
  \/ CommitReview(w)
  \/ ReturnReceipt(w) \/ RefuseUnapproved(w) \/ BeginExport(w)
  \/ CreateFile(w) \/ WriteFile(w) \/ ReuseFile(w) \/ RefuseTornFile(w)
  \/ CommitExport(w) \/ RefuseExport(w)

Next == \E w \in Workers : Request(w) \/ Progress(w) \/ Stop(w)

Spec == Init /\ [][Next]_vars

\* Requests are served, and the client asks for every export again and again
\* until it has its receipt.
RetrySpec ==
  /\ Spec
  /\ \A w \in Workers : WF_vars(Progress(w))
  /\ \A a \in Actions : SF_vars(\E w \in Workers : RequestExport(w, a))

-----------------------------------------------------------------------------
(***************************************************************************)
(* Properties.                                                             *)
(***************************************************************************)

\* Types: rows, files, stages and locals have the shapes the code gives them.
TypeOK ==
  /\ history \in [Actions -> Seq(Snapshot)]
  /\ reviews \in [Actions -> Seq(Review)]
  /\ audit \in [Actions -> SUBSET {"proposed", "exported"}]
  /\ receipts \in [Actions -> SUBSET Bytes]
  /\ files \in [Actions -> [Bytes -> {"absent", "torn", "whole"}]]
  /\ pc \in [Workers -> Stages]
  /\ job \in [Workers -> Job]
  /\ stops \in 0..MaxStops

States(h) == {h[i].state : i \in 1..Len(h)}

\* May snapshot t follow snapshot s?  An edit keeps PROPOSED; a transition is in
\* the table; and from the approval on the text is the one approved.
Follows(t, s) ==
  /\ <<s.state, t.state>> \in ActionTransitions \cup {<<"PROPOSED", "PROPOSED">>}
  /\ s.state # "PROPOSED" => t.text = s.text

\* With one worker: every snapshot may follow the one before it, although it is
\* computed from a snapshot read in an earlier unit of work.
HistoryLegal ==
  \A a \in Actions : history[a] # <<>> =>
    /\ history[a][1] = Proposal
    /\ \A i \in 1..(Len(history[a]) - 1) : Follows(history[a][i + 1], history[a][i])

\* With any number of workers, and whenever they stop: what is in the export
\* directory, whole or cut short, is the content of a snapshot a reviewer
\* approved, and the approval is on record.
OnlyApprovedLeaves ==
  \A a \in Actions, c \in Bytes : files[a][c] # "absent" =>
    /\ \E i \in 1..Len(history[a]) :
         history[a][i].state = "APPROVED" /\ Content[a][history[a][i].text] = c
    /\ \E i \in 1..Len(reviews[a]) : reviews[a][i].state = "APPROVED"

\* With any number of workers: an action is EXPORTED at most once, exactly when
\* it has its one receipt and its audit event, and the file the receipt names
\* passes the integrity check of a download.
ReceiptsVerify ==
  \A a \in Actions :
    /\ receipts[a] # {} <=> "EXPORTED" \in States(history[a])
    /\ receipts[a] # {} <=> "exported" \in audit[a]
    /\ \A i, j \in 1..Len(history[a]) :
         history[a][i].state = "EXPORTED" /\ history[a][j].state = "EXPORTED" => i = j
    /\ \A c, d \in receipts[a] : c = d
    /\ receipts[a] # {} => Downloadable(a)

\* The reviews on record that appended a snapshot, and where it stands in the
\* history if each appended one, in order, to the proposal.
Changes(rs) == {i \in 1..Len(rs) : ChangesAction(rs[i])}
Place(rs, i) == 1 + Cardinality({k \in Changes(rs) : k <= i})

\* What the reviews rs and the receipts re on record say of the history h.
Explains(rs, re, h) ==
  /\ IF re = {}
       THEN Len(h) = Cardinality(Changes(rs)) + 1
       ELSE Len(h) = Cardinality(Changes(rs)) + 2 /\ Latest(h).state = "EXPORTED"
  /\ h[1].state = "PROPOSED"
  /\ \A i \in Changes(rs) :
       /\ h[Place(rs, i)].state = StateAfter("PROPOSED", rs[i])
       /\ rs[i].edited \/ h[Place(rs, i)].text = h[Place(rs, i) - 1].text

\* With one worker: replaying the reviews on record and the receipt gives every
\* snapshot, in order: no snapshot is there that they do not explain, no review
\* that should have left one is without it, and only an edit changes the text.
ReviewsExplainHistory ==
  \A a \in Actions :
    history[a] # <<>> => Explains(reviews[a], receipts[a], history[a])

\* History g begins with history h.
Continues(g, h) == Len(h) <= Len(g) /\ \A i \in 1..Len(h) : g[i] = h[i]

\* Nothing recorded is rewritten: snapshots, reviews and audit events are only
\* added, a receipt is never replaced, and a whole export file never changes.
RecordsAreAppendOnly ==
  [][\A a \in Actions :
       /\ Continues(history'[a], history[a])
       /\ Continues(reviews'[a], reviews[a])
       /\ audit[a] \subseteq audit'[a]
       /\ receipts[a] # {} => receipts'[a] = receipts[a]
       /\ \A c \in Bytes : files[a][c] = "whole" => files'[a][c] = "whole"
    ]_records

\* With one worker, an action as its readers see it is what ActionPromise
\* describes: a file cut short counts as written out.
Promise == INSTANCE ActionPromise WITH
  phase <- [a \in Actions |->
              IF history[a] = <<>> THEN "ABSENT" ELSE Latest(history[a]).state],
  text <- [a \in Actions |->
              IF history[a] = <<>> THEN DefaultText ELSE Latest(history[a]).text],
  out <- [a \in Actions |-> {c \in Bytes : files[a][c] # "absent"}],
  receipt <- receipts

ImplementsPromise == Promise!Spec

\* An approved action is exported in the end, if its client goes on asking, and
\* requests that stop between two steps, also between the file and the receipt,
\* are repaired by the next one.  (With several workers a decision that raced the
\* approval may be recorded after it and end it instead.)
ApprovedIsExported ==
  \A a \in Actions :
    (history[a] # <<>> /\ Latest(history[a]).state = "APPROVED")
      ~> (receipts[a] # {} \/ (history[a] # <<>> /\ Latest(history[a]).state # "APPROVED"))
=============================================================================
