----------------------------- MODULE Investigation -----------------------------
(***************************************************************************)
(* Advice on exceptions: a reviewer asks for it in the web client, an API  *)
(* worker asks the model, checks what it answers, once more if the answer  *)
(* is no good, and attaches the answer or else a note of its own.  The     *)
(* reviewer accepts or rejects the latest note of the case.                *)
(*                                                                         *)
(* Several desks (tabs of the client) may show the same case, requests of  *)
(* different desks overlap when there are workers to serve them, and a     *)
(* desk that opens one case after another may get the responses in the     *)
(* other order.                                                            *)
(***************************************************************************)
EXTENDS Integers, FiniteSets, FiniteSetsExt, SequencesExt

CONSTANTS
  Desks,        \* tabs of the web client
  Workers,      \* how many requests the API serves at once; the deployment has one worker
  Cases,        \* the cases of the run
  Exceptions,   \* those that are exceptions; the others are proved
  NoCase,       \* none of them
  Events,       \* case -> the sequence of its event ids
  Amount,       \* event id -> its amount
  Cited,        \* case -> the event ids its exception links to, in order
  Recommended,  \* case -> the action its exception recommends
  Answers,      \* case -> the structured answers a model may give on it
  Failures,     \* the other ways a request to the model may end
  MaxTime,      \* bound: instants at which something happens
  MaxReviews,   \* bound: judgments recorded
  MaxOpens      \* bound: cases opened at a desk

AllowedActions ==
  {"JOURNAL_EXPORT", "CLARIFICATION_REQUEST", "MAPPING_CORRECTION", "CORRECTED_DATA_IMPORT",
   "WAIT", "ACCEPT_DIFFERENCE", "MANUAL_REVIEW", "NO_ACTION"}

(***************************************************************************)
(* An answer refers to an event by its place in the case, E01, E02, ... or *)
(* by its id; both are numbers here.  `complete` says that its fields are  *)
(* those of the schema and its texts not blank, `certain` that a text      *)
(* claims certainty.                                                       *)
(***************************************************************************)
JournalLine == [debit : BOOLEAN, amount : Int, evidence : Seq(Nat)]

Answer == [complete : BOOLEAN, evidence : Seq(Nat), mentioned : SUBSET (Nat \X Int),
           action : STRING, human : BOOLEAN, journal : Seq(JournalLine),
           confidence : Int, certain : BOOLEAN]

ASSUME InvestigationAssumption ==
  /\ NoCase \notin Cases /\ Exceptions \subseteq Cases
  /\ Workers \in Nat \ {0} /\ MaxTime \in Nat /\ MaxReviews \in Nat /\ MaxOpens \in Nat
  /\ \A c \in Cases :
       /\ Events[c] \in Seq(Nat) /\ IsInjective(Events[c])
       /\ DOMAIN Events[c] \cap Range(Events[c]) = {}
       /\ Cited[c] \in Seq(Range(Events[c])) /\ IsInjective(Cited[c])
       /\ Recommended[c] \in AllowedActions
       /\ Answers[c] \subseteq Answer

VARIABLES
  notes,    \* case and time asked for -> the note attached
  reviews,  \* review id -> what was judged and the note the reviewer had on screen
  now,      \* the time
  pc,       \* desk -> how far the request it waits for has come
  job,      \* desk -> what that request is about
  shown,    \* desk -> the case on screen, with its latest note as of then
  opening,  \* desk -> the responses to openCase on their way to it
  loading,  \* desk -> whether it says "Loading"
  opens     \* how many cases were opened

vars == <<notes, reviews, now, pc, job, shown, opening, loading, opens>>

-----------------------------------------------------------------------------
(***************************************************************************)
(* The checks on an answer.                                                *)
(***************************************************************************)

\* _resolve_refs, one reference: the event it stands for.
Resolve(c, ref) == IF ref \in DOMAIN Events[c] THEN Events[c][ref] ELSE ref

\* _context: the references a request to the model offers.
Offered(c) == DOMAIN Events[c] \cup Range(Events[c])

\* Slip: a reference is looked up among all events.
KnownAnywhere(c, ref) == Resolve(c, ref) \in DOMAIN Amount

Known(c, ref) == ref \in Offered(c)

\* _string_tuple and _resolve_refs: all known, no event twice.
Citable(c, refs) ==
  LET ids == [i \in DOMAIN refs |-> Resolve(c, refs[i])] IN
  IsInjective(ids) /\ \A i \in DOMAIN refs : Known(c, refs[i])

\* The total of the lines on one side.
Total(journal, debit) ==
  SumFunctionOnSet([i \in DOMAIN journal |-> journal[i].amount],
                   {i \in DOMAIN journal : journal[i].debit = debit})

\* _journal, AdvisoryJournalLine and AdvisoryJournal.
JournalHolds(c, journal) ==
  /\ \A i \in DOMAIN journal :
       /\ Citable(c, journal[i].evidence) /\ journal[i].evidence # <<>>
       /\ journal[i].amount > 0
  /\ Len(journal) >= 2
  /\ Total(journal, TRUE) = Total(journal, FALSE)

\* The range of a confidence, and what one that goes with a claim to certainty is cut to.
BasisPoints == 0..10000
CertaintyCap == 8000

\* What _validate_model_result accepts.
Accepted(c, a) ==
  /\ a.complete
  /\ a.evidence # <<>> /\ Citable(c, a.evidence)
  /\ \A m \in a.mentioned : Known(c, m[1]) /\ m[2] = Amount[Resolve(c, m[1])]
  /\ a.action \in AllowedActions
  /\ a.human
  /\ a.journal # <<>> => JournalHolds(c, a.journal)
  /\ a.action = "JOURNAL_EXPORT" <=> a.journal # <<>>
  /\ a.confidence \in BasisPoints

Confidence(a) == IF a.certain THEN Min({a.confidence, CertaintyCap}) ELSE a.confidence

\* The note made of an accepted answer; `hedged` when its hypothesis says so.
Validated(c, a) ==
  [status |-> "MODEL_VALIDATED", evidence |-> [i \in DOMAIN a.evidence |-> Resolve(c, a.evidence[i])],
   action |-> a.action,
   journal |-> [i \in DOMAIN a.journal |->
                  [a.journal[i] EXCEPT !.evidence = [k \in DOMAIN @ |-> Resolve(c, @[k])]]],
   confidence |-> Confidence(a), certain |-> a.certain, hedged |-> a.certain]

\* The notes the model's answers on a case may become, and whether one of them
\* may be rejected.
GoodNotes == [c \in Cases |-> {Validated(c, a) : a \in {x \in Answers[c] : Accepted(c, x)}}]
MayDisappoint == [c \in Cases |-> \E a \in Answers[c] : ~Accepted(c, a)]

\* _fallback
Fallback(c, failure) ==
  [status |-> failure, evidence |-> Cited[c], action |-> Recommended[c], journal |-> <<>>,
   confidence |-> 0, certain |-> FALSE, hedged |-> FALSE]

(***************************************************************************)
(* OpenAIModelGateway.generate and DisabledModelGateway: how a request     *)
(* that brings no structured answer ends.                                  *)
(***************************************************************************)
FailureKinds ==
  {"no response", "not completed", "no text", "text not an object",  \* ModelUnavailableError
   "not JSON",                                                       \* a ValueError
   "not an object", "broken off"}                                    \* neither

Unavailable(f) == f \in {"no response", "not completed", "no text", "text not an object"}
Unreadable(f) == f = "not JSON"
Escaping(f) == f \in {"not an object", "broken off"}

-----------------------------------------------------------------------------
(***************************************************************************)
(* Notes and what a desk shows.                                            *)
(***************************************************************************)
NoNote == <<>>

NotesOn(c) == {k \in DOMAIN notes : k[1] = c}

\* Slip: the oldest one.
Earliest(c) == IF NotesOn(c) = {} THEN NoNote
               ELSE <<c, Min({k[2] : k \in NotesOn(c)})>>

\* list_for_case, its last item: by the time the note was asked for.
Latest(c) == IF NotesOn(c) = {} THEN NoNote
             ELSE <<c, Max({k[2] : k \in NotesOn(c)})>>

\* get_case: the case with its latest note.
View(c) == [case |-> c, note |-> Latest(c)]
NothingShown == [case |-> NoCase, note |-> NoNote]

\* now() at some step: the time has moved or it has not.
Tick == now' \in {now, now + 1} /\ now' <= MaxTime

Stages == {"idle", "first", "retry", "attach", "judge", "refresh"}

\* The request of the desk is with the API; another one may be if a worker is free.
Serving(d) == pc[d] \in {"first", "retry", "attach", "judge"}
WorkerFree == Cardinality({d \in Desks : Serving(d)}) < Workers

NoResult == [status |-> "", evidence |-> <<>>, action |-> "", journal |-> <<>>, confidence |-> 0,
             certain |-> FALSE, hedged |-> FALSE]

NoJob == [case |-> NoCase, note |-> NoNote, result |-> NoResult, seen |-> NoNote]

Init ==
  /\ notes = [k \in {} |-> NoResult]
  /\ reviews = [k \in {} |-> NoNote]
  /\ now = 0
  /\ pc = [d \in Desks |-> "idle"]
  /\ job = [d \in Desks |-> NoJob]
  /\ shown = [d \in Desks |-> NothingShown]
  /\ opening = [d \in Desks |-> {}]
  /\ loading = [d \in Desks |-> FALSE]
  /\ opens = 0

(***************************************************************************)
(* openCase: also while another request of the desk is busy.  The worker   *)
(* reads the case; the response arrives later, in any order, or never.     *)
(***************************************************************************)
Open(d, c) ==
  /\ WorkerFree
  /\ opens < MaxOpens
  /\ opens' = opens + 1
  /\ opening' = [opening EXCEPT ![d] = @ \cup {View(c)}]
  /\ loading' = [loading EXCEPT ![d] = TRUE]
  /\ UNCHANGED <<notes, reviews, now, pc, job, shown>>

Arrive(d) ==
  /\ loading' = [loading EXCEPT ![d] = FALSE]
  /\ \E v \in opening[d] :
       /\ opening' = [opening EXCEPT ![d] = @ \ {v}]
       /\ shown' = [shown EXCEPT ![d] = v]
  /\ UNCHANGED <<notes, reviews, now, pc, job, opens>>

\* The response is an error or lost: the desk keeps what it shows.
Miss(d) ==
  /\ loading' = [loading EXCEPT ![d] = FALSE]
  /\ \E v \in opening[d] : opening' = [opening EXCEPT ![d] = @ \ {v}]
  /\ UNCHANGED <<notes, reviews, now, pc, job, shown, opens>>

\* Nothing else is in progress, and the API has a worker free.
Clickable(d) == pc[d] = "idle" /\ shown[d].case # NoCase /\ WorkerFree

(***************************************************************************)
(* investigate.  The button is there while the desk shows an exception     *)
(* without a note, even while another case is loading.                     *)
(***************************************************************************)
Ask(d) ==
  /\ Clickable(d) /\ shown[d].note = NoNote /\ shown[d].case \in Exceptions
  /\ Tick
  /\ pc' = [pc EXCEPT ![d] = "first"]
  /\ job' = [job EXCEPT ![d] = [NoJob EXCEPT !.case = shown[d].case,
                                             !.note = <<shown[d].case, now'>>]]
  /\ UNCHANGED <<notes, reviews, shown, opening, loading, opens>>

\* The worker is left with a result, to be attached.
Result(d, note) ==
  /\ pc' = [pc EXCEPT ![d] = "attach"]
  /\ job' = [job EXCEPT ![d].result = note]

AnswerAccepted(d) ==
  /\ pc[d] \in {"first", "retry"}
  /\ \E note \in GoodNotes[job[d].case] : Result(d, note)
  /\ UNCHANGED <<notes, reviews, now, shown, opening, loading, opens>>

\* Slip: it asks again for as long as the answers are rejected.
RejectAgain(d) ==
  /\ pc[d] \in {"first", "retry"}
  /\ MayDisappoint[job[d].case]
  /\ pc' = [pc EXCEPT ![d] = IF @ = "first" THEN "retry" ELSE "first"]
  /\ UNCHANGED <<notes, reviews, now, job, shown, opening, loading, opens>>

\* A first answer that is rejected is asked for again, a second one replaced.
AnswerRejected(d) ==
  /\ pc[d] \in {"first", "retry"}
  /\ MayDisappoint[job[d].case]
  /\ \/ /\ pc[d] = "first"
        /\ pc' = [pc EXCEPT ![d] = "retry"]
        /\ UNCHANGED job
     \/ /\ pc[d] = "retry"
        /\ Result(d, Fallback(job[d].case, "MODEL_OUTPUT_INVALID"))
  /\ UNCHANGED <<notes, reviews, now, shown, opening, loading, opens>>

ModelFails(d) ==
  /\ pc[d] \in {"first", "retry"}
  /\ \E f \in Failures :
       \/ Unavailable(f) /\ Result(d, Fallback(job[d].case, "MODEL_UNAVAILABLE"))
       \/ Unreadable(f) /\ Result(d, Fallback(job[d].case, "MODEL_OUTPUT_INVALID"))
       \/ /\ Escaping(f)
          /\ pc' = [pc EXCEPT ![d] = "idle"]
          /\ job' = [job EXCEPT ![d] = NoJob]
  /\ UNCHANGED <<notes, reviews, now, shown, opening, loading, opens>>

\* Slip: what is there already is overwritten.
AttachOver(d) ==
  /\ pc[d] = "attach"
  /\ notes' = [k \in DOMAIN notes \cup {job[d].note} |->
                 IF k = job[d].note THEN job[d].result ELSE notes[k]]
  /\ pc' = [pc EXCEPT ![d] = "refresh"]
  /\ job' = [job EXCEPT ![d].result = NoResult]
  /\ UNCHANGED <<reviews, now, shown, opening, loading, opens>>

\* _persist: the note and its audit event, under an id made of case and time.
Attach(d) ==
  /\ pc[d] = "attach" /\ job[d].note \notin DOMAIN notes
  /\ notes' = [k \in DOMAIN notes \cup {job[d].note} |->
                 IF k = job[d].note THEN job[d].result ELSE notes[k]]
  /\ pc' = [pc EXCEPT ![d] = "refresh"]
  /\ job' = [job EXCEPT ![d].result = NoResult]
  /\ UNCHANGED <<reviews, now, shown, opening, loading, opens>>

\* Another request asked for advice on the case at the same instant.
AttachRefused(d) ==
  /\ pc[d] = "attach" /\ job[d].note \in DOMAIN notes
  /\ pc' = [pc EXCEPT ![d] = "idle"]
  /\ job' = [job EXCEPT ![d] = NoJob]
  /\ UNCHANGED <<notes, reviews, now, shown, opening, loading, opens>>

(***************************************************************************)
(* judgeInvestigation and review_latest: the note judged is the latest one *)
(* when the request is served, not the one on screen.  Whether it accepts  *)
(* or rejects makes no difference to what is recorded for which note.      *)
(***************************************************************************)
\* Slip: a case without note is judged too.
JudgeAnything(d) ==
  /\ Clickable(d) /\ ~loading[d]
  /\ Cardinality(DOMAIN reviews) < MaxReviews
  /\ pc' = [pc EXCEPT ![d] = "judge"]
  /\ job' = [job EXCEPT ![d] = [NoJob EXCEPT !.case = shown[d].case,
                                             !.note = Latest(shown[d].case),
                                             !.seen = shown[d].note]]
  /\ UNCHANGED <<notes, reviews, now, shown, opening, loading, opens>>

Judge(d) ==
  /\ Clickable(d) /\ ~loading[d] /\ shown[d].note # NoNote
  /\ Cardinality(DOMAIN reviews) < MaxReviews
  /\ pc' = [pc EXCEPT ![d] = "judge"]
  /\ job' = [job EXCEPT ![d] = [NoJob EXCEPT !.case = shown[d].case,
                                             !.note = Latest(shown[d].case),
                                             !.seen = shown[d].note]]
  /\ UNCHANGED <<notes, reviews, now, shown, opening, loading, opens>>

\* The review is appended unless its id is there already.
FileReview(id, review) ==
  reviews' = IF id \in DOMAIN reviews THEN reviews
             ELSE [k \in DOMAIN reviews \cup {id} |-> IF k = id THEN review ELSE reviews[k]]

Record(d) ==
  /\ pc[d] = "judge"
  /\ Tick
  /\ LET id == <<job[d].note, now'>> IN
     /\ FileReview(id, [of |-> job[d].note, seen |-> job[d].seen])
     /\ pc' = [pc EXCEPT ![d] = IF id \in DOMAIN reviews THEN "idle" ELSE "refresh"]
  /\ UNCHANGED <<notes, job, shown, opening, loading, opens>>

(***************************************************************************)
(* saveReview and PreliminaryReviewService.record: judgment on the case    *)
(* itself.  The reviewer is the desk's.                                    *)
(***************************************************************************)
Save(d) ==
  /\ Clickable(d) /\ ~loading[d]
  /\ Cardinality(DOMAIN reviews) < MaxReviews
  /\ Tick
  /\ LET id == <<shown[d].case, d, now'>> IN
     /\ FileReview(id, [of |-> <<shown[d].case>>, seen |-> NoNote])
     /\ IF id \in DOMAIN reviews
          THEN UNCHANGED <<pc, job>>
          ELSE /\ pc' = [pc EXCEPT ![d] = "refresh"]
               /\ job' = [job EXCEPT ![d] = [NoJob EXCEPT !.case = shown[d].case]]
  /\ UNCHANGED <<notes, shown, opening, loading, opens>>

\* refreshCase shows the case the request was about, whatever was opened since.
Refresh(d) ==
  /\ pc[d] = "refresh" /\ WorkerFree
  /\ shown' = [shown EXCEPT ![d] = View(job[d].case)]
  /\ pc' = [pc EXCEPT ![d] = "idle"]
  /\ job' = [job EXCEPT ![d] = NoJob]
  /\ UNCHANGED <<notes, reviews, now, opening, loading, opens>>

\* The response to the request or to the refresh is lost.
Lose(d) ==
  /\ pc[d] = "refresh"
  /\ pc' = [pc EXCEPT ![d] = "idle"]
  /\ job' = [job EXCEPT ![d] = NoJob]
  /\ UNCHANGED <<notes, reviews, now, shown, opening, loading, opens>>

\* The steps of the API and of the model, which answers or fails in time.
Serve(d) ==
  \/ AnswerAccepted(d) \/ AnswerRejected(d) \/ ModelFails(d)
  \/ Attach(d) \/ AttachRefused(d) \/ Record(d)

Next == \E d \in Desks :
  \/ \E c \in Cases : Open(d, c)
  \/ Arrive(d) \/ Miss(d)
  \/ Ask(d) \/ Judge(d) \/ Save(d)
  \/ Serve(d) \/ Refresh(d) \/ Lose(d)

Spec == Init /\ [][Next]_vars

\* A step of the API on the request of a desk moves that request on.
Moves(d) ==
  /\ Serving(d)
  /\ pc' \in {[pc EXCEPT ![d] = stage] : stage \in Stages \ {pc[d]}}

\* The model's timeout ends every request to it; the worker then goes on.
FairSpec == Spec /\ \A d \in Desks : WF_pc(Moves(d))

-----------------------------------------------------------------------------
NoteKeys == Exceptions \X (0..MaxTime)

Note(c) ==
  [status : {"MODEL_VALIDATED", "MODEL_OUTPUT_INVALID", "MODEL_UNAVAILABLE"},
   evidence : Seq(Range(Events[c])), action : AllowedActions, journal : Seq(JournalLine),
   confidence : BasisPoints, certain : BOOLEAN, hedged : BOOLEAN]

\* Notes are of the case and time they are kept under, a review of a note names
\* one that is attached, and a desk shows nothing that was never there.
TypeOK ==
  /\ DOMAIN notes \subseteq NoteKeys
  /\ \A k \in DOMAIN notes : notes[k] \in Note(k[1])
  /\ \A id \in DOMAIN reviews : reviews[id].of \in DOMAIN notes \cup {<<c>> : c \in Cases}
  /\ now \in 0..MaxTime
  /\ pc \in [Desks -> Stages]
  /\ \A d \in Desks :
       /\ \A v \in opening[d] \cup {shown[d]} :
            /\ v.case \in Cases \cup {NoCase}
            /\ v.note # NoNote => v.note \in DOMAIN notes /\ v.note[1] = v.case
       /\ Serving(d) =>
            job[d].case \in Cases /\ job[d].note # NoNote /\ job[d].note[1] = job[d].case
  /\ loading \in [Desks -> BOOLEAN]
  /\ opens \in 0..MaxOpens

\* A note advises a journal exactly when its action is to export one, and what
\* that journal debits it credits, in at least two lines.
Balances(n) ==
  /\ n.action = "JOURNAL_EXPORT" <=> n.journal # <<>>
  /\ n.journal # <<>> =>
       \E i1, i2 \in DOMAIN n.journal : n.journal[i1].debit /\ ~n.journal[i2].debit
  /\ Total(n.journal, TRUE) = Total(n.journal, FALSE)

\* A note cites rows of its case, at least one and none twice, in its lines too.
CitesCase(n, c) ==
  /\ n.evidence # <<>> /\ IsInjective(n.evidence)
  /\ Range(n.evidence) \subseteq Range(Events[c])
  /\ \A i \in DOMAIN n.journal : Range(n.journal[i].evidence) \subseteq Range(Events[c])

(***************************************************************************)
(* Whatever the model answers, first or again, a note made of its answer   *)
(* cites the case it is about and nothing else, advises an allowed action  *)
(* and a journal that balances, and, if it claims certainty, says that it  *)
(* is a hypothesis and is not surer than the limit; a note of the service  *)
(* cites what the exception does (docs/domain/INVARIANTS.md, AI 1 to 3).   *)
(***************************************************************************)
AdviceIsSound ==
  \A k \in DOMAIN notes : LET n == notes[k] IN
    IF n.status = "MODEL_VALIDATED"
      THEN /\ CitesCase(n, k[1]) /\ Balances(n)
           /\ n.action \in AllowedActions
           /\ n.certain => n.hedged /\ n.confidence <= CertaintyCap
      ELSE n = Fallback(k[1], n.status)

(***************************************************************************)
(* A verdict on a note is recorded for the note that is the latest when    *)
(* the request is served.  The reviewer may have had another one on        *)
(* screen, since a second desk or a late response came between; but then   *)
(* an older one, never one newer than the note the verdict is filed under. *)
(***************************************************************************)
VerdictsNeverGoBack ==
  \A id \in DOMAIN reviews : LET r == reviews[id] IN
    r.of \in DOMAIN notes =>
      r.seen \in DOMAIN notes /\ r.seen[1] = r.of[1] /\ r.seen[2] <= r.of[2]

(***************************************************************************)
(* Notes and verdicts are added and never changed: those that two desks    *)
(* ask for at one instant are one note.                                    *)
(***************************************************************************)
HistoryStays ==
  [][/\ \A k \in DOMAIN notes : k \in DOMAIN notes' /\ notes'[k] = notes[k]
     /\ \A k \in DOMAIN reviews : k \in DOMAIN reviews' /\ reviews'[k] = reviews[k]]_vars

(***************************************************************************)
(* Whatever the model answers, or fails to, every request for advice ends: *)
(* it asks the model twice at most.  And it ends with a note on its case,  *)
(* the model's or one of the service, once it has a result to attach; the  *)
(* failures that the gateway lets through end it before that.              *)
(***************************************************************************)
EveryAskEnds ==
  /\ \A d \in Desks :
       pc[d] \in {"first", "retry"} ~> pc[d] \notin {"first", "retry", "attach"}
  /\ [][\A d \in Desks : pc[d] = "attach" /\ pc'[d] # "attach" =>
                           job[d].note \in DOMAIN notes']_vars
=============================================================================
