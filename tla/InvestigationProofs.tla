------------------------ MODULE InvestigationProofs ------------------------
(***************************************************************************)
(* Theorems about Investigation, for every number of desks and workers,    *)
(* all cases and whatever a model answers.                                 *)
(*                                                                         *)
(* A request carries what it has read until it writes: IInv says of each   *)
(* stage what that is, and that it stays true while other desks act.  What *)
(* a note says is settled before it is attached: Advised, at the end, adds *)
(* that the result a request carries was checked.                          *)
(***************************************************************************)
EXTENDS Investigation, FiniteSetLemmas

\* What a verdict on a note is about to be recorded with.
Ordered(seen, of) ==
  /\ of \in DOMAIN notes /\ seen \in DOMAIN notes
  /\ seen[1] = of[1] /\ seen[2] <= of[2]

ViewOK(v) ==
  /\ v.case \in Cases \cup {NoCase}
  /\ v.note # NoNote => v.note \in DOMAIN notes /\ v.note[1] = v.case

\* The request a desk waits for, by its stage.
RequestOK(d) ==
  /\ DOMAIN job[d] = {"case", "note", "result", "seen"}
  /\ pc[d] # "idle" => job[d].case \in Cases
  /\ Serving(d) => job[d].note # NoNote /\ job[d].note[1] = job[d].case
  /\ pc[d] \in {"first", "retry", "attach"} => job[d].note \in NoteKeys
  /\ pc[d] = "attach" => job[d].result \in Note(job[d].case)
  /\ pc[d] = "judge" => Ordered(job[d].seen, job[d].note)

Desk(d) == RequestOK(d) /\ \A v \in opening[d] \cup {shown[d]} : ViewOK(v)

Tables ==
  /\ DOMAIN notes \subseteq NoteKeys
  /\ \A k \in DOMAIN notes : notes[k] \in Note(k[1])
  /\ \A id \in DOMAIN reviews : reviews[id].of \in DOMAIN notes \cup {<<c>> : c \in Cases}

Shape ==
  /\ now \in 0..MaxTime /\ opens \in 0..MaxOpens
  /\ pc \in [Desks -> Stages] /\ loading \in [Desks -> BOOLEAN]
  /\ DOMAIN job = Desks /\ DOMAIN shown = Desks /\ DOMAIN opening = Desks

IInv == Tables /\ VerdictsNeverGoBack /\ Shape /\ \A d \in Desks : Desk(d)

-----------------------------------------------------------------------------
(***************************************************************************)
(* The latest note of a case.                                              *)
(***************************************************************************)
LEMMA MaxLemma ==
  ASSUME NEW S, S \subseteq 0..MaxTime, S # {}
  PROVE  Max(S) \in S /\ \A x \in S : x <= Max(S)
<1> DEFINE Rest == {MaxTime - x : x \in S}
<1>1. MaxTime \in Nat
  BY InvestigationAssumption
<1>2. Rest \subseteq Nat /\ Rest # {}
  <2>1. PICK x \in S : TRUE
    OBVIOUS
  <2>2. MaxTime - x \in Rest
    BY <2>1
  <2>3. \A y \in S : MaxTime - y \in Nat
    BY <1>1
  <2>4. QED
    BY <2>2, <2>3, Zenon
<1>3. PICK m \in Rest : \A n \in Rest : ~(<<n, m>> \in OpToRel(<, Nat))
  BY <1>2, WFMin, NatLessThanWellFounded, Zenon
<1>4. \A n \in Rest : ~(n < m)
  BY <1>2, <1>3 DEF OpToRel
<1>5. PICK x \in S : m = MaxTime - x
  OBVIOUS
<1>6. \A y \in S : x >= y
  <2>1. SUFFICES ASSUME NEW y \in S PROVE x >= y
    OBVIOUS
  <2>2. ~(MaxTime - y < MaxTime - x)
    BY <1>4, <1>5
  <2>3. QED
    BY <1>1, <2>2
<1>7. QED
  BY <1>5, <1>6 DEF Max

LEMMA LatestLemma ==
  ASSUME IInv, NEW k \in DOMAIN notes
  PROVE  /\ Latest(k[1]) \in DOMAIN notes
         /\ Latest(k[1])[1] = k[1] /\ k[2] <= Latest(k[1])[2]
<1> DEFINE Times == {n[2] : n \in NotesOn(k[1])}
<1>1. \A n \in DOMAIN notes : n = <<n[1], n[2]>> /\ n[2] \in 0..MaxTime
  BY DEF IInv, Tables, NoteKeys
<1>2. k \in NotesOn(k[1]) /\ NotesOn(k[1]) \subseteq DOMAIN notes
  BY DEF NotesOn
<1>3. Times \subseteq 0..MaxTime /\ k[2] \in Times
  BY <1>1, <1>2
<1>4. Max(Times) \in Times /\ k[2] <= Max(Times)
  BY <1>3, MaxLemma
<1>5. PICK n \in NotesOn(k[1]) : n[2] = Max(Times)
  BY <1>4
<1>6. n = <<k[1], Max(Times)>>
  BY <1>1, <1>2, <1>5 DEF NotesOn
<1>7. Latest(k[1]) = <<k[1], Max(Times)>>
  BY <1>2 DEF Latest
<1>8. QED
  BY <1>2, <1>4, <1>6, <1>7

\* What get_case answers is a view like those on screen.
LEMMA ViewLemma ==
  ASSUME IInv, NEW c \in Cases
  PROVE  /\ View(c).case = c
         /\ View(c).note # NoNote => View(c).note \in DOMAIN notes /\ View(c).note[1] = c
<1>1. CASE NotesOn(c) = {}
  BY <1>1 DEF View, Latest
<1>2. CASE NotesOn(c) # {}
  <2>1. PICK k \in DOMAIN notes : k[1] = c
    BY <1>2 DEF NotesOn
  <2>2. QED
    BY <2>1, LatestLemma DEF View
<1>3. QED
  BY <1>1, <1>2

-----------------------------------------------------------------------------
(***************************************************************************)
(* What is attached is a note on its case.                                 *)
(***************************************************************************)
LEMMA ResolveLemma ==
  ASSUME NEW c \in Cases, NEW refs \in Seq(Nat), Citable(c, refs)
  PROVE  [i \in DOMAIN refs |-> Resolve(c, refs[i])] \in Seq(Range(Events[c]))
<1>1. \A i \in DOMAIN refs : Resolve(c, refs[i]) \in Range(Events[c])
  BY DEF Citable, Known, Offered, Resolve, Range
<1>2. PICK n \in Nat : DOMAIN refs = 1..n
  OBVIOUS
<1>3. QED
  BY <1>1, <1>2

LEMMA EventsLemma == \A c \in Cases : Range(Events[c]) \subseteq Nat
<1>1. \A c \in Cases : Events[c] \in Seq(Nat)
  BY InvestigationAssumption, Zenon
<1>2. QED
  BY <1>1 DEF Range

LEMMA SeqLemma ==
  ASSUME NEW S, NEW T, S \subseteq T, NEW q \in Seq(S)
  PROVE  q \in Seq(T)
<1>1. PICK n \in Nat : DOMAIN q = 1..n /\ \A i \in 1..n : q[i] \in S
  OBVIOUS
<1>2. q = [i \in 1..n |-> q[i]]
  BY <1>1
<1>3. [i \in 1..n |-> q[i]] \in Seq(T)
  BY <1>1
<1>4. QED
  BY <1>2, <1>3

LEMMA JournalLemma ==
  ASSUME NEW c \in Cases, NEW journal \in Seq(JournalLine),
         \A i \in DOMAIN journal : Citable(c, journal[i].evidence)
  PROVE  [i \in DOMAIN journal |->
            [journal[i] EXCEPT !.evidence = [k \in DOMAIN @ |-> Resolve(c, @[k])]]]
           \in Seq(JournalLine)
<1> DEFINE Line(i) == [journal[i] EXCEPT !.evidence =
                         [k \in DOMAIN journal[i].evidence |-> Resolve(c, journal[i].evidence[k])]]
<1>1. ASSUME NEW i \in DOMAIN journal PROVE Line(i) \in JournalLine
  <2>1. journal[i] \in JournalLine
    OBVIOUS
  <2>2. [k \in DOMAIN journal[i].evidence |-> Resolve(c, journal[i].evidence[k])]
          \in Seq(Range(Events[c]))
    <3>1. journal[i].evidence \in Seq(Nat)
      BY <2>1 DEF JournalLine
    <3>2. Citable(c, journal[i].evidence)
      OBVIOUS
    <3>3. QED
      BY <3>1, <3>2, ResolveLemma
  <2>3. [k \in DOMAIN journal[i].evidence |-> Resolve(c, journal[i].evidence[k])] \in Seq(Nat)
    <3>1. Range(Events[c]) \subseteq Nat
      BY EventsLemma
    <3>2. QED
      BY <2>2, <3>1, SeqLemma
  <2>4. QED
    BY <2>1, <2>3 DEF JournalLine
<1>2. PICK n \in Nat : DOMAIN journal = 1..n
  OBVIOUS
<1>3. [i \in DOMAIN journal |-> Line(i)] \in Seq(JournalLine)
  BY <1>1, <1>2
<1>4. QED
  BY <1>3

LEMMA CapLemma ==
  ASSUME NEW n \in BasisPoints
  PROVE  Min({n, CertaintyCap}) \in BasisPoints /\ Min({n, CertaintyCap}) <= CertaintyCap
<1>1. n \in Int /\ CertaintyCap \in Int
  BY DEF BasisPoints, CertaintyCap
<1>2. PICK m \in {n, CertaintyCap} : \A y \in {n, CertaintyCap} : m <= y
  <2>1. CASE n <= CertaintyCap
    BY <1>1, <2>1
  <2>2. CASE CertaintyCap <= n
    BY <1>1, <2>2
  <2>3. QED
    BY <1>1, <2>1, <2>2
<1>3. /\ Min({n, CertaintyCap}) \in {n, CertaintyCap}
      /\ Min({n, CertaintyCap}) <= CertaintyCap
  BY <1>2 DEF Min
<1>4. CertaintyCap \in BasisPoints
  BY DEF BasisPoints, CertaintyCap
<1>5. {n, CertaintyCap} \subseteq BasisPoints
  BY <1>4, Zenon
<1>6. QED
  BY <1>3, <1>5, Zenon

LEMMA NoteLemma ==
  ASSUME NEW c, NEW evidence \in Seq(Range(Events[c])), NEW journal \in Seq(JournalLine),
         NEW action \in AllowedActions, NEW confidence \in BasisPoints,
         NEW certain \in BOOLEAN, NEW hedged \in BOOLEAN,
         NEW status \in {"MODEL_VALIDATED", "MODEL_OUTPUT_INVALID", "MODEL_UNAVAILABLE"}
  PROVE  [status |-> status, evidence |-> evidence, action |-> action, journal |-> journal,
          confidence |-> confidence, certain |-> certain, hedged |-> hedged] \in Note(c)
BY DEF Note

LEMMA ValidatedLemma ==
  ASSUME NEW c \in Cases, NEW a \in Answer, Accepted(c, a)
  PROVE  Validated(c, a) \in Note(c)
<1>0. /\ a.evidence \in Seq(Nat) /\ a.journal \in Seq(JournalLine)
      /\ a.certain \in BOOLEAN
  BY DEF Answer
<1>a. /\ Citable(c, a.evidence)
      /\ a.action \in AllowedActions
      /\ a.journal # <<>> => JournalHolds(c, a.journal)
      /\ a.confidence \in BasisPoints
  BY DEF Accepted
<1>1. [i \in DOMAIN a.evidence |-> Resolve(c, a.evidence[i])] \in Seq(Range(Events[c]))
  BY <1>0, <1>a, ResolveLemma
<1>2. \A i \in DOMAIN a.journal : Citable(c, a.journal[i].evidence)
  <2>1. CASE a.journal = <<>>
    BY <2>1
  <2>2. CASE a.journal # <<>>
    <3>1. JournalHolds(c, a.journal)
      BY <1>a, <2>2
    <3>2. QED
      BY <3>1, Zenon DEF JournalHolds
  <2>3. QED
    BY <2>1, <2>2
<1>3. [i \in DOMAIN a.journal |->
         [a.journal[i] EXCEPT !.evidence = [k \in DOMAIN @ |-> Resolve(c, @[k])]]]
        \in Seq(JournalLine)
  BY <1>0, <1>2, JournalLemma
<1>4. Confidence(a) \in BasisPoints
  <2>1. Min({a.confidence, CertaintyCap}) \in BasisPoints
    BY <1>a, CapLemma, Zenon
  <2>2. CASE a.certain
    BY <2>1, <2>2 DEF Confidence
  <2>3. CASE ~a.certain
    BY <1>a, <2>3 DEF Confidence
  <2>4. QED
    BY <2>2, <2>3
<1> DEFINE evidence == [i \in DOMAIN a.evidence |-> Resolve(c, a.evidence[i])]
           journal == [i \in DOMAIN a.journal |->
                         [a.journal[i] EXCEPT !.evidence = [k \in DOMAIN @ |-> Resolve(c, @[k])]]]
<1>5. evidence \in Seq(Range(Events[c])) /\ journal \in Seq(JournalLine)
  BY <1>1, <1>3, Zenon
<1>6. Validated(c, a) =
        [status |-> "MODEL_VALIDATED", evidence |-> evidence, action |-> a.action,
         journal |-> journal, confidence |-> Confidence(a), certain |-> a.certain,
         hedged |-> a.certain]
  BY Zenon DEF Validated
<1> HIDE DEF evidence, journal
<1>7. "MODEL_VALIDATED" \in {"MODEL_VALIDATED", "MODEL_OUTPUT_INVALID", "MODEL_UNAVAILABLE"}
  OBVIOUS
<1>8. [status |-> "MODEL_VALIDATED", evidence |-> evidence, action |-> a.action,
       journal |-> journal, confidence |-> Confidence(a), certain |-> a.certain,
       hedged |-> a.certain] \in Note(c)
  BY <1>0, <1>a, <1>4, <1>5, <1>7, NoteLemma
<1>9. QED
  BY <1>6, <1>8

LEMMA GoodNotesLemma ==
  ASSUME NEW c \in Cases, NEW note \in GoodNotes[c]
  PROVE  note \in Note(c)
<1>1. Answers[c] \subseteq Answer
  BY InvestigationAssumption, Zenon
<1>2. QED
  BY <1>1, ValidatedLemma DEF GoodNotes

LEMMA FallbackLemma ==
  ASSUME NEW c \in Cases, NEW failure \in {"MODEL_OUTPUT_INVALID", "MODEL_UNAVAILABLE"}
  PROVE  Fallback(c, failure) \in Note(c)
<1>1. Cited[c] \in Seq(Range(Events[c])) /\ Recommended[c] \in AllowedActions
  BY InvestigationAssumption, Zenon
<1>2. 0 \in BasisPoints
  BY DEF BasisPoints
<1>3. QED
  BY <1>1, <1>2 DEF Fallback, Note

-----------------------------------------------------------------------------
(***************************************************************************)
(* The invariant, step by step.                                            *)
(***************************************************************************)

\* A desk is not disturbed by what happens at another one.
LEMMA OtherDesk ==
  ASSUME NEW e \in Desks, Desk(e),
         pc'[e] = pc[e], job'[e] = job[e], shown'[e] = shown[e], opening'[e] = opening[e],
         DOMAIN notes \subseteq DOMAIN notes'
  PROVE  Desk(e)'
<1>1. RequestOK(e)'
  BY DEF Desk, RequestOK, Serving, Ordered
<1>2. \A v : ViewOK(v) => ViewOK(v)'
  BY DEF ViewOK
<1>3. (\A v \in opening[e] \cup {shown[e]} : ViewOK(v))'
  BY <1>2 DEF Desk
<1>4. QED
  BY <1>1, <1>3 DEF Desk

LEMMA StepLemma ==
  ASSUME IInv, NEW d \in Desks,
         Tables', VerdictsNeverGoBack', Shape', Desk(d)',
         DOMAIN notes \subseteq DOMAIN notes',
         \A e \in Desks \ {d} :
           pc'[e] = pc[e] /\ job'[e] = job[e] /\ shown'[e] = shown[e] /\ opening'[e] = opening[e]
  PROVE  IInv'
<1>1. ASSUME NEW e \in Desks, e # d PROVE Desk(e)'
  BY <1>1, OtherDesk DEF IInv
<1>2. QED
  BY <1>1 DEF IInv

\* What holds of the tables survives a step that leaves them alone.
LEMMA TablesStay ==
  ASSUME IInv, UNCHANGED <<notes, reviews>>
  PROVE  Tables' /\ VerdictsNeverGoBack' /\ DOMAIN notes \subseteq DOMAIN notes'
BY DEF IInv, Tables, VerdictsNeverGoBack

\* A desk whose request is gone has none to keep an eye on.
LEMMA IdleLemma ==
  ASSUME NEW d \in Desks, pc'[d] = "idle", job'[d] = NoJob,
         \A v \in opening'[d] \cup {shown'[d]} : ViewOK(v)'
  PROVE  Desk(d)'
BY DEF Desk, RequestOK, Serving, NoJob

LEMMA InitLemma == Init => IInv
<1> SUFFICES ASSUME Init PROVE IInv
  OBVIOUS
<1>1. Tables /\ VerdictsNeverGoBack
  BY DEF Init, Tables, VerdictsNeverGoBack
<1>2. Shape
  BY InvestigationAssumption DEF Init, Shape, Stages
<1>3. ASSUME NEW d \in Desks PROVE Desk(d)
  <2>1. RequestOK(d)
    BY DEF Init, RequestOK, Serving, NoJob
  <2>2. \A v \in opening[d] \cup {shown[d]} : ViewOK(v)
    BY DEF Init, ViewOK, NothingShown, NoNote
  <2>3. QED
    BY <2>1, <2>2 DEF Desk
<1>4. QED
  BY <1>1, <1>2, <1>3 DEF IInv

LEMMA OpenStep ==
  ASSUME IInv, NEW d \in Desks, NEW c \in Cases, Open(d, c)
  PROVE  IInv'
<1>1. Tables' /\ VerdictsNeverGoBack' /\ DOMAIN notes \subseteq DOMAIN notes'
  BY TablesStay DEF Open
<1>2. Shape'
  BY InvestigationAssumption DEF Open, IInv, Shape
<1>3. ViewOK(View(c))
  BY ViewLemma DEF ViewOK
<1>4. Desk(d)'
  <2>1. RequestOK(d)'
    BY DEF Open, IInv, Desk, RequestOK, Serving, Ordered
  <2>2. opening'[d] = opening[d] \cup {View(c)} /\ shown'[d] = shown[d]
    BY DEF Open, IInv, Shape
  <2>3. \A v : ViewOK(v) => ViewOK(v)'
    BY DEF Open, ViewOK
  <2>4. (\A v \in opening[d] \cup {shown[d]} : ViewOK(v))'
    BY <1>3, <2>2, <2>3 DEF IInv, Desk
  <2>5. QED
    BY <2>1, <2>4 DEF Desk
<1>5. QED
  BY <1>1, <1>2, <1>4, StepLemma DEF Open, IInv, Shape

\* A response arrives or is given up.
LEMMA ResponseStep ==
  ASSUME IInv, NEW d \in Desks, Arrive(d) \/ Miss(d)
  PROVE  IInv'
<1>1. UNCHANGED <<notes, reviews, now, pc, job, opens>>
  BY DEF Arrive, Miss
<1>2. Tables' /\ VerdictsNeverGoBack' /\ DOMAIN notes \subseteq DOMAIN notes'
  BY <1>1, TablesStay
<1>3. PICK v \in opening[d] : /\ opening' = [opening EXCEPT ![d] = @ \ {v}]
                              /\ loading' = [loading EXCEPT ![d] = FALSE]
                              /\ shown' = [shown EXCEPT ![d] = v] \/ shown' = shown
  BY DEF Arrive, Miss
<1>4. Shape'
  BY <1>1, <1>3 DEF IInv, Shape
<1>5. Desk(d)'
  <2>1. RequestOK(d)'
    BY <1>1 DEF IInv, Desk, RequestOK, Serving, Ordered
  <2>2. opening'[d] \subseteq opening[d] /\ shown'[d] \in opening[d] \cup {shown[d]}
    BY <1>3 DEF IInv, Shape
  <2>3. \A w : ViewOK(w) => ViewOK(w)'
    BY <1>1 DEF ViewOK
  <2>4. (\A w \in opening[d] \cup {shown[d]} : ViewOK(w))'
    BY <2>2, <2>3 DEF IInv, Desk
  <2>5. QED
    BY <2>1, <2>4 DEF Desk
<1>6. \A e \in Desks \ {d} : shown'[e] = shown[e] /\ opening'[e] = opening[e]
  BY <1>3 DEF IInv, Shape
<1>7. QED
  BY <1>1, <1>2, <1>4, <1>5, <1>6, StepLemma

\* A step on the request of a desk that leaves tables and screens alone.
LEMMA RequestLemma ==
  ASSUME IInv, NEW d \in Desks, UNCHANGED <<notes, reviews, shown, opening, loading, opens>>,
         now' \in 0..MaxTime,
         NEW stage \in Stages, pc' = [pc EXCEPT ![d] = stage],
         NEW j, job' = [job EXCEPT ![d] = j], RequestOK(d)'
  PROVE  IInv'
<1>1. Tables' /\ VerdictsNeverGoBack' /\ DOMAIN notes \subseteq DOMAIN notes'
  BY TablesStay
<1>2. Shape'
  BY DEF IInv, Shape
<1>3. Desk(d)'
  <2>1. \A v : ViewOK(v) => ViewOK(v)'
    BY DEF ViewOK
  <2>2. (\A v \in opening[d] \cup {shown[d]} : ViewOK(v))'
    BY <2>1 DEF IInv, Desk
  <2>3. QED
    BY <2>2 DEF Desk
<1>4. \A e \in Desks \ {d} : pc'[e] = pc[e] /\ job'[e] = job[e]
  BY DEF IInv, Shape
<1>5. QED
  BY <1>1, <1>2, <1>3, <1>4, StepLemma

\* The request ends.
LEMMA IdleStep ==
  ASSUME IInv, NEW d \in Desks, UNCHANGED <<notes, reviews, now, shown, opening, loading, opens>>,
         pc' = [pc EXCEPT ![d] = "idle"], job' = [job EXCEPT ![d] = NoJob]
  PROVE  IInv'
<1>1. pc'[d] = "idle" /\ job'[d] = NoJob /\ now' \in 0..MaxTime
  BY DEF IInv, Shape
<1>2. RequestOK(d)'
  BY <1>1 DEF RequestOK, Serving, NoJob
<1>3. "idle" \in Stages
  BY DEF Stages
<1>4. QED
  BY <1>1, <1>2, <1>3, RequestLemma

\* The worker is left with a note on the case.
LEMMA ResultStep ==
  ASSUME IInv, NEW d \in Desks, UNCHANGED <<notes, reviews, now, shown, opening, loading, opens>>,
         pc[d] \in {"first", "retry"}, NEW note \in Note(job[d].case), Result(d, note)
  PROVE  IInv'
<1> DEFINE j == [job[d] EXCEPT !.result = note]
<1>1. job' = [job EXCEPT ![d] = j] /\ pc' = [pc EXCEPT ![d] = "attach"]
  BY DEF Result
<1>2. job'[d] = j /\ pc'[d] = "attach"
  BY <1>1 DEF IInv, Shape
<1>3. DOMAIN job[d] = {"case", "note", "result", "seen"}
  BY DEF IInv, Desk, RequestOK
<1>4. /\ DOMAIN j = {"case", "note", "result", "seen"}
      /\ j.case = job[d].case /\ j.note = job[d].note /\ j.result = note
  BY <1>3
<1>5. /\ job[d].case \in Cases /\ job[d].note \in NoteKeys
      /\ job[d].note # NoNote /\ job[d].note[1] = job[d].case
  BY DEF IInv, Desk, RequestOK, Serving
<1> HIDE DEF j
<1>6. RequestOK(d)'
  BY <1>2, <1>4, <1>5 DEF RequestOK, Serving, NoteKeys, Note
<1>7. "attach" \in Stages /\ now' \in 0..MaxTime
  BY DEF Stages, IInv, Shape
<1>8. QED
  BY <1>1, <1>6, <1>7, RequestLemma

LEMMA AcceptStep ==
  ASSUME IInv, NEW d \in Desks, AnswerAccepted(d)
  PROVE  IInv'
<1>1. PICK note \in GoodNotes[job[d].case] : Result(d, note)
  BY DEF AnswerAccepted
<1>2. job[d].case \in Cases
  BY DEF AnswerAccepted, IInv, Desk, RequestOK
<1>3. note \in Note(job[d].case)
  BY <1>2, GoodNotesLemma
<1>4. QED
  BY <1>1, <1>3, ResultStep DEF AnswerAccepted

LEMMA RejectStep ==
  ASSUME IInv, NEW d \in Desks, AnswerRejected(d)
  PROVE  IInv'
<1>1. CASE /\ pc[d] = "first" /\ pc' = [pc EXCEPT ![d] = "retry"]
           /\ UNCHANGED <<notes, reviews, now, job, shown, opening, loading, opens>>
  <2>1. pc'[d] = "retry" /\ "retry" \in Stages /\ now' \in 0..MaxTime
    BY <1>1 DEF IInv, Shape, Stages
  <2>2. RequestOK(d)'
    BY <1>1, <2>1 DEF IInv, Desk, RequestOK, Serving, NoteKeys
  <2>3. (\A v \in opening[d] \cup {shown[d]} : ViewOK(v))'
    BY <1>1 DEF IInv, Desk, ViewOK
  <2>4. Tables' /\ VerdictsNeverGoBack' /\ DOMAIN notes \subseteq DOMAIN notes'
    BY <1>1, TablesStay
  <2>5. Shape' /\ \A e \in Desks \ {d} : pc'[e] = pc[e]
    BY <1>1, <2>1 DEF IInv, Shape
  <2>6. Desk(d)'
    BY <2>2, <2>3 DEF Desk
  <2>7. QED
    BY <1>1, <2>4, <2>5, <2>6, StepLemma
<1>2. CASE Result(d, Fallback(job[d].case, "MODEL_OUTPUT_INVALID"))
  <2>1. Fallback(job[d].case, "MODEL_OUTPUT_INVALID") \in Note(job[d].case)
    BY FallbackLemma DEF AnswerRejected, IInv, Desk, RequestOK
  <2>2. QED
    BY <1>2, <2>1, ResultStep DEF AnswerRejected
<1>3. QED
  BY <1>1, <1>2 DEF AnswerRejected

LEMMA FailStep ==
  ASSUME IInv, NEW d \in Desks, ModelFails(d)
  PROVE  IInv'
<1>1. ASSUME NEW failure \in {"MODEL_OUTPUT_INVALID", "MODEL_UNAVAILABLE"},
             Result(d, Fallback(job[d].case, failure))
      PROVE  IInv'
  <2>1. Fallback(job[d].case, failure) \in Note(job[d].case)
    BY FallbackLemma DEF ModelFails, IInv, Desk, RequestOK
  <2>2. QED
    BY <1>1, <2>1, ResultStep DEF ModelFails
<1>2. CASE pc' = [pc EXCEPT ![d] = "idle"] /\ job' = [job EXCEPT ![d] = NoJob]
  BY <1>2, IdleStep DEF ModelFails
<1>3. QED
  BY <1>1, <1>2 DEF ModelFails

LEMMA AskStep ==
  ASSUME IInv, NEW d \in Desks, Ask(d)
  PROVE  IInv'
<1> DEFINE j == [NoJob EXCEPT !.case = shown[d].case, !.note = <<shown[d].case, now'>>]
<1>1. job' = [job EXCEPT ![d] = j] /\ pc' = [pc EXCEPT ![d] = "first"]
  BY DEF Ask
<1>2. job'[d] = j /\ pc'[d] = "first"
  BY <1>1 DEF IInv, Shape
<1>3. /\ DOMAIN j = {"case", "note", "result", "seen"}
      /\ j.case = shown[d].case /\ j.note = <<shown[d].case, now'>>
  BY DEF NoJob
<1>4. now' \in 0..MaxTime
  BY InvestigationAssumption DEF Ask, Tick, IInv, Shape
<1>5. shown[d].case \in Exceptions /\ shown[d].case \in Cases
  BY InvestigationAssumption DEF Ask
<1>6. <<shown[d].case, now'>> \in NoteKeys /\ <<shown[d].case, now'>> # NoNote
  BY <1>4, <1>5 DEF NoteKeys, NoNote
<1> HIDE DEF j
<1>7. RequestOK(d)'
  BY <1>2, <1>3, <1>5, <1>6 DEF RequestOK, Serving, NoteKeys
<1>8. "first" \in Stages
  BY DEF Stages
<1>9. QED
  BY <1>1, <1>4, <1>7, <1>8, RequestLemma DEF Ask

LEMMA JudgeStep ==
  ASSUME IInv, NEW d \in Desks, Judge(d)
  PROVE  IInv'
<1> DEFINE latest == Latest(shown[d].case)
           j == [NoJob EXCEPT !.case = shown[d].case, !.note = latest, !.seen = shown[d].note]
<1>1. job' = [job EXCEPT ![d] = j] /\ pc' = [pc EXCEPT ![d] = "judge"]
  BY DEF Judge
<1>2. job'[d] = j /\ pc'[d] = "judge"
  BY <1>1 DEF IInv, Shape
<1>3. /\ DOMAIN j = {"case", "note", "result", "seen"}
      /\ j.case = shown[d].case /\ j.note = latest /\ j.seen = shown[d].note
  BY DEF NoJob
<1>4. ViewOK(shown[d]) /\ shown[d].note # NoNote /\ shown[d].case # NoCase
  BY DEF IInv, Desk, Judge, Clickable
<1>5. /\ shown[d].note \in DOMAIN notes /\ shown[d].note[1] = shown[d].case
      /\ shown[d].case \in Cases
  BY <1>4 DEF ViewOK
<1>6. /\ latest \in DOMAIN notes
      /\ latest[1] = shown[d].case /\ shown[d].note[2] <= latest[2]
  BY <1>5, LatestLemma
<1> HIDE DEF latest, j
<1>7. latest # NoNote
  BY <1>6 DEF IInv, Tables, NoteKeys, NoNote
<1>8. notes' = notes
  BY DEF Judge
<1>9. RequestOK(d)'
  BY <1>2, <1>3, <1>5, <1>6, <1>7, <1>8 DEF RequestOK, Serving, Ordered
<1>10. "judge" \in Stages /\ now' \in 0..MaxTime
  BY DEF Stages, Judge, IInv, Shape
<1>11. QED
  BY <1>1, <1>9, <1>10, RequestLemma DEF Judge

\* A review of a case is not filed under a note.
LEMMA KeyLemma == \A c : <<c>> \notin NoteKeys
BY DEF NoteKeys

LEMMA AttachStep ==
  ASSUME IInv, NEW d \in Desks, Attach(d)
  PROVE  IInv'
<1> DEFINE key == job[d].note
           j == [job[d] EXCEPT !.result = NoResult]
<1>1. /\ pc[d] = "attach" /\ key \notin DOMAIN notes
      /\ notes' = [k \in DOMAIN notes \cup {key} |-> IF k = key THEN job[d].result ELSE notes[k]]
      /\ pc' = [pc EXCEPT ![d] = "refresh"] /\ job' = [job EXCEPT ![d] = j]
      /\ UNCHANGED <<reviews, now, shown, opening, loading, opens>>
  BY DEF Attach
<1>2. /\ key \in NoteKeys /\ key[1] = job[d].case /\ job[d].case \in Cases
      /\ job[d].result \in Note(key[1])
      /\ DOMAIN job[d] = {"case", "note", "result", "seen"}
  BY <1>1 DEF IInv, Desk, RequestOK, Serving
<1>3. DOMAIN j = {"case", "note", "result", "seen"} /\ j.case = job[d].case
  BY <1>2
<1>4. job'[d] = j /\ pc'[d] = "refresh"
  BY <1>1 DEF IInv, Shape
<1> HIDE DEF key, j
<1>5. /\ DOMAIN notes' = DOMAIN notes \cup {key} /\ notes'[key] = job[d].result
      /\ \A k \in DOMAIN notes : notes'[k] = notes[k]
  BY <1>1
<1>6. Tables'
  <2>1. (\A k \in DOMAIN notes : notes[k] \in Note(k[1]))'
    <3>1. ASSUME NEW k \in DOMAIN notes' PROVE notes'[k] \in Note(k[1])
      <4>1. CASE k = key
        BY <1>2, <1>5, <4>1
      <4>2. CASE k # key
        BY <1>5, <4>2 DEF IInv, Tables
      <4>3. QED
        BY <4>1, <4>2
    <3>2. QED
      BY <3>1 DEF Note, JournalLine, AllowedActions, BasisPoints
  <2>2. (DOMAIN notes \subseteq NoteKeys)'
    BY <1>2, <1>5 DEF IInv, Tables, NoteKeys
  <2>3. (\A id \in DOMAIN reviews :
           reviews[id].of \in DOMAIN notes \cup {<<c>> : c \in Cases})'
    BY <1>1, <1>5 DEF IInv, Tables
  <2>4. QED
    BY <2>1, <2>2, <2>3 DEF Tables
<1>7. VerdictsNeverGoBack'
  <2>1. ASSUME NEW id \in DOMAIN reviews, reviews[id].of \in DOMAIN notes'
        PROVE  reviews[id].of \in DOMAIN notes
    <3>1. reviews[id].of # key
      BY <1>1, <1>2, KeyLemma DEF IInv, Tables
    <3>2. QED
      BY <1>5, <2>1, <3>1
  <2>2. QED
    BY <1>1, <1>5, <2>1 DEF IInv, VerdictsNeverGoBack
<1>8. Shape'
  BY <1>1 DEF IInv, Shape, Stages
<1>9. Desk(d)'
  <2>1. RequestOK(d)'
    BY <1>2, <1>3, <1>4 DEF RequestOK, Serving
  <2>2. \A v : ViewOK(v) => ViewOK(v)'
    BY <1>5 DEF ViewOK
  <2>3. (\A v \in opening[d] \cup {shown[d]} : ViewOK(v))'
    BY <1>1, <2>2 DEF IInv, Desk
  <2>4. QED
    BY <2>1, <2>3 DEF Desk
<1>10. \A e \in Desks \ {d} : pc'[e] = pc[e] /\ job'[e] = job[e]
  BY <1>1 DEF IInv, Shape
<1>11. QED
  BY <1>1, <1>5, <1>6, <1>7, <1>8, <1>9, <1>10, StepLemma

\* A review of what may be reviewed is filed.
LEMMA FileLemma ==
  ASSUME IInv, UNCHANGED notes, NEW id, NEW review, FileReview(id, review),
         review.of \in DOMAIN notes \cup {<<c>> : c \in Cases},
         review.of \in DOMAIN notes => Ordered(review.seen, review.of)
  PROVE  Tables' /\ VerdictsNeverGoBack' /\ DOMAIN notes \subseteq DOMAIN notes'
<1>1. CASE id \in DOMAIN reviews
  BY <1>1, TablesStay DEF FileReview
<1>2. CASE id \notin DOMAIN reviews
  <2>1. /\ DOMAIN reviews' = DOMAIN reviews \cup {id} /\ reviews'[id] = review
        /\ \A k \in DOMAIN reviews : reviews'[k] = reviews[k]
    BY <1>2 DEF FileReview
  <2>2. QED
    BY <2>1 DEF IInv, Tables, VerdictsNeverGoBack, Ordered
<1>3. QED
  BY <1>1, <1>2

LEMMA RecordStep ==
  ASSUME IInv, NEW d \in Desks, Record(d)
  PROVE  IInv'
<1> DEFINE id == <<job[d].note, now'>>
<1>1. /\ FileReview(id, [of |-> job[d].note, seen |-> job[d].seen])
      /\ pc' = [pc EXCEPT ![d] = IF id \in DOMAIN reviews THEN "idle" ELSE "refresh"]
  BY DEF Record
<1> HIDE DEF id
<1>2. Ordered(job[d].seen, job[d].note)
  BY DEF Record, IInv, Desk, RequestOK
<1>3. Tables' /\ VerdictsNeverGoBack' /\ DOMAIN notes \subseteq DOMAIN notes'
  BY <1>1, <1>2, FileLemma DEF Record, Ordered
<1>4. pc'[d] \in {"idle", "refresh"}
  BY <1>1 DEF IInv, Shape
<1>5. Shape'
  BY <1>1, InvestigationAssumption DEF Record, Tick, IInv, Shape, Stages
<1>6. Desk(d)'
  <2>1. pc[d] = "judge" /\ job' = job
    BY DEF Record
  <2>2. RequestOK(d)'
    BY <1>4, <2>1 DEF IInv, Desk, RequestOK, Serving
  <2>3. (\A v \in opening[d] \cup {shown[d]} : ViewOK(v))'
    BY DEF Record, IInv, Desk, ViewOK
  <2>4. QED
    BY <2>2, <2>3 DEF Desk
<1>7. \A e \in Desks \ {d} : pc'[e] = pc[e]
  BY <1>1 DEF IInv, Shape
<1>8. QED
  BY <1>3, <1>5, <1>6, <1>7, StepLemma DEF Record

LEMMA SaveStep ==
  ASSUME IInv, NEW d \in Desks, Save(d)
  PROVE  IInv'
<1> DEFINE id == <<shown[d].case, d, now'>>
           j == [NoJob EXCEPT !.case = shown[d].case]
<1>1. /\ FileReview(id, [of |-> <<shown[d].case>>, seen |-> NoNote])
      /\ \/ UNCHANGED <<pc, job>>
         \/ pc' = [pc EXCEPT ![d] = "refresh"] /\ job' = [job EXCEPT ![d] = j]
  BY DEF Save
<1>2. DOMAIN j = {"case", "note", "result", "seen"} /\ j.case = shown[d].case
  BY DEF NoJob
<1> HIDE DEF id, j
<1>3. shown[d].case \in Cases
  BY DEF Save, Clickable, IInv, Desk, ViewOK
<1>4. <<shown[d].case>> \notin DOMAIN notes
  BY KeyLemma DEF IInv, Tables
<1>5. Tables' /\ VerdictsNeverGoBack' /\ DOMAIN notes \subseteq DOMAIN notes'
  BY <1>1, <1>3, <1>4, FileLemma DEF Save
<1>6. Shape'
  BY <1>1, InvestigationAssumption DEF Save, Tick, IInv, Shape, Stages
<1>7. Desk(d)'
  <2>1. ASSUME UNCHANGED <<pc, job>> PROVE RequestOK(d)'
    BY <2>1 DEF Save, Clickable, IInv, Desk, RequestOK, Serving
  <2>2. ASSUME pc'[d] = "refresh", job'[d] = j PROVE RequestOK(d)'
    BY <1>2, <1>3, <2>2 DEF RequestOK, Serving
  <2>3. RequestOK(d)'
    BY <1>1, <2>1, <2>2 DEF IInv, Shape
  <2>4. (\A v \in opening[d] \cup {shown[d]} : ViewOK(v))'
    BY DEF Save, IInv, Desk, ViewOK
  <2>5. QED
    BY <2>3, <2>4 DEF Desk
<1>8. \A e \in Desks \ {d} : pc'[e] = pc[e] /\ job'[e] = job[e]
  BY <1>1 DEF IInv, Shape
<1>9. QED
  BY <1>5, <1>6, <1>7, <1>8, StepLemma DEF Save

LEMMA RefreshStep ==
  ASSUME IInv, NEW d \in Desks, Refresh(d)
  PROVE  IInv'
<1>1. Tables' /\ VerdictsNeverGoBack' /\ DOMAIN notes \subseteq DOMAIN notes'
  BY TablesStay DEF Refresh
<1>2. Shape'
  BY DEF Refresh, IInv, Shape, Stages
<1>3. pc'[d] = "idle" /\ job'[d] = NoJob /\ shown'[d] = View(job[d].case)
  BY DEF Refresh, IInv, Shape
<1>4. job[d].case \in Cases
  BY DEF Refresh, IInv, Desk, RequestOK
<1>5. ViewOK(View(job[d].case))
  BY <1>4, ViewLemma DEF ViewOK
<1>6. (\A v \in opening[d] \cup {shown[d]} : ViewOK(v))'
  <2>1. \A v : ViewOK(v) => ViewOK(v)'
    BY DEF Refresh, ViewOK
  <2>2. QED
    BY <1>3, <1>5, <2>1 DEF Refresh, IInv, Desk
<1>7. Desk(d)'
  BY <1>3, <1>6, IdleLemma
<1>8. \A e \in Desks \ {d} : pc'[e] = pc[e] /\ job'[e] = job[e] /\ shown'[e] = shown[e]
  BY DEF Refresh, IInv, Shape
<1>9. QED
  BY <1>1, <1>2, <1>7, <1>8, StepLemma DEF Refresh

LEMMA StepKeepsIInv == IInv /\ [Next]_vars => IInv'
<1> SUFFICES ASSUME IInv, [Next]_vars PROVE IInv'
  OBVIOUS
<1>1. CASE UNCHANGED vars
  BY <1>1 DEF vars, IInv, Tables, VerdictsNeverGoBack, Shape, Desk, RequestOK, Serving,
              Ordered, ViewOK
<1>2. ASSUME NEW d \in Desks, \E c \in Cases : Open(d, c) PROVE IInv'
  BY <1>2, OpenStep
<1>3. ASSUME NEW d \in Desks, Arrive(d) \/ Miss(d) PROVE IInv'
  BY <1>3, ResponseStep
<1>4. ASSUME NEW d \in Desks, Ask(d) PROVE IInv'
  BY <1>4, AskStep
<1>5. ASSUME NEW d \in Desks, Judge(d) PROVE IInv'
  BY <1>5, JudgeStep
<1>6. ASSUME NEW d \in Desks, Save(d) PROVE IInv'
  BY <1>6, SaveStep
<1>7. ASSUME NEW d \in Desks, Serve(d) PROVE IInv'
  <2>1. CASE AnswerAccepted(d) \/ AnswerRejected(d) \/ ModelFails(d)
    BY <2>1, AcceptStep, RejectStep, FailStep
  <2>2. CASE Attach(d)
    BY <2>2, AttachStep
  <2>3. CASE AttachRefused(d)
    BY <2>3, IdleStep DEF AttachRefused
  <2>4. CASE Record(d)
    BY <2>4, RecordStep
  <2>5. QED
    BY <1>7, <2>1, <2>2, <2>3, <2>4 DEF Serve
<1>8. ASSUME NEW d \in Desks, Refresh(d) PROVE IInv'
  BY <1>8, RefreshStep
<1>9. ASSUME NEW d \in Desks, Lose(d) PROVE IInv'
  BY <1>9, IdleStep DEF Lose
<1>10. QED
  BY <1>1, <1>2, <1>3, <1>4, <1>5, <1>6, <1>7, <1>8, <1>9 DEF Next

-----------------------------------------------------------------------------
(***************************************************************************)
(* IInv is inductive: whatever is read is still there when it is used.     *)
(***************************************************************************)
THEOREM InductiveInvariant == Spec => []IInv
BY InitLemma, StepKeepsIInv, PTL DEF Spec

(***************************************************************************)
(* Notes are kept under their case and the time they were asked for, and a *)
(* verdict names a note that is attached (_persist, review_latest).        *)
(***************************************************************************)
THEOREM TypeCorrect == Spec => []TypeOK
<1>1. ASSUME IInv PROVE TypeOK
  <2>1. ASSUME NEW d \in Desks
        PROVE  /\ \A v \in opening[d] \cup {shown[d]} :
                    /\ v.case \in Cases \cup {NoCase}
                    /\ v.note # NoNote => v.note \in DOMAIN notes /\ v.note[1] = v.case
               /\ Serving(d) =>
                    /\ job[d].case \in Cases
                    /\ job[d].note # NoNote /\ job[d].note[1] = job[d].case
    BY <1>1 DEF IInv, Desk, RequestOK, Serving, ViewOK
  <2>2. Tables /\ Shape
    BY <1>1 DEF IInv
  <2>3. QED
    BY <2>1, <2>2, Zenon DEF Tables, Shape, TypeOK
<1>2. QED
  BY <1>1, InductiveInvariant, PTL

(***************************************************************************)
(* However many desks ask, open and judge at once: a verdict is never      *)
(* filed under a note older than the one on screen (review_latest).        *)
(***************************************************************************)
THEOREM VerdictsAreOrdered == Spec => []VerdictsNeverGoBack
BY InductiveInvariant, PTL DEF IInv

(***************************************************************************)
(* No step changes or removes a note or a verdict, not even one that asks  *)
(* for advice on the case at the same instant (_persist and append).       *)
(***************************************************************************)
THEOREM HistoryIsKept == Spec => HistoryStays
<1> DEFINE Kept == /\ \A k \in DOMAIN notes : k \in DOMAIN notes' /\ notes'[k] = notes[k]
                   /\ \A k \in DOMAIN reviews : k \in DOMAIN reviews' /\ reviews'[k] = reviews[k]
<1>1. ASSUME NEW id, NEW review, FileReview(id, review)
      PROVE  \A k \in DOMAIN reviews : k \in DOMAIN reviews' /\ reviews'[k] = reviews[k]
  BY <1>1 DEF FileReview
<1>2. ASSUME NEW d \in Desks, Attach(d) PROVE Kept
  BY <1>2 DEF Attach
<1>3. ASSUME NEW d \in Desks, Record(d) \/ Save(d) PROVE Kept
  BY <1>1, <1>3 DEF Record, Save
<1>4. [Next]_vars => [Kept]_vars
  <2>1. SUFFICES ASSUME Next PROVE Kept
    OBVIOUS
  <2>2. CASE UNCHANGED <<notes, reviews>>
    BY <2>2
  <2>3. CASE ~UNCHANGED <<notes, reviews>>
    <3>1. PICK d \in Desks : Attach(d) \/ Record(d) \/ Save(d)
      BY <2>1, <2>3 DEF Next, Serve, Open, Arrive, Miss, Ask, Judge, AnswerAccepted, AnswerRejected,
                        ModelFails, AttachRefused, Refresh, Lose
    <3>2. QED
      BY <1>2, <1>3, <3>1
  <2>4. QED
    BY <2>2, <2>3
<1>5. QED
  BY <1>4, PTL DEF Spec, HistoryStays
-----------------------------------------------------------------------------
(***************************************************************************)
(* What a note says.                                                       *)
(***************************************************************************)
Sound(n, c) ==
  IF n.status = "MODEL_VALIDATED"
    THEN /\ CitesCase(n, c) /\ Balances(n)
         /\ n.action \in AllowedActions
         /\ n.certain => n.hedged /\ n.confidence <= CertaintyCap
    ELSE n = Fallback(c, n.status)

\* The notes there are, and those about to be attached.
Advised ==
  /\ \A k \in DOMAIN notes : Sound(notes[k], k[1])
  /\ \A d \in Desks : pc[d] = "attach" => Sound(job[d].result, job[d].case)

\* A journal whose lines have positive amounts and whose sides have the same total
\* has a line on each side, unless it has none at all.
LEMMA BothSides ==
  ASSUME NEW journal, IsFiniteSet(DOMAIN journal), DOMAIN journal # {},
         \A i \in DOMAIN journal : journal[i].amount \in Nat \ {0} /\ journal[i].debit \in BOOLEAN,
         Total(journal, TRUE) = Total(journal, FALSE)
  PROVE  \E i1, i2 \in DOMAIN journal : journal[i1].debit /\ ~journal[i2].debit
<1> DEFINE amounts == [i \in DOMAIN journal |-> journal[i].amount]
           Side(debit) == {i \in DOMAIN journal : journal[i].debit = debit}
<1>1. \A i \in DOMAIN journal : amounts[i] \in Nat \ {0} /\ amounts[i] \in Int
  OBVIOUS
<1>2. \A debit \in BOOLEAN : Total(journal, debit) = SumFunctionOnSet(amounts, Side(debit))
  BY DEF Total
<1>3. /\ \A debit \in BOOLEAN : Side(debit) \subseteq DOMAIN journal
      /\ Side(TRUE) \cup Side(FALSE) = DOMAIN journal
  OBVIOUS
<1> HIDE DEF amounts, Side
<1>4. \A S \in SUBSET DOMAIN journal :
        SumFunctionOnSet(amounts, S) \in Int
        /\ (S # {} => SumFunctionOnSet(amounts, {}) < SumFunctionOnSet(amounts, S))
  <2>1. ASSUME NEW S \in SUBSET DOMAIN journal
        PROVE  SumFunctionOnSet(amounts, S) \in Int
               /\ (S # {} => SumFunctionOnSet(amounts, {}) < SumFunctionOnSet(amounts, S))
    <3>1. IsFiniteSet(S) /\ \A x \in S : amounts[x] \in Nat \ {0} /\ amounts[x] \in Int
      BY <1>1, FS_Subset
    <3>2. SumFunctionOnSet(amounts, S) \in Int
      BY <3>1, SumType
    <3>3. S # {} => SumFunctionOnSet(amounts, {}) < SumFunctionOnSet(amounts, S)
      BY <3>1, SumGrows
    <3>4. QED
      BY <3>2, <3>3
  <2>2. QED
    BY <2>1
<1>5. SumFunctionOnSet(amounts, Side(TRUE)) = SumFunctionOnSet(amounts, Side(FALSE))
  BY <1>2
<1>6. Side(TRUE) # {} /\ Side(FALSE) # {}
  <2>0. \A x, y \in Int : x < y => x # y
    OBVIOUS
  <2>1. /\ SumFunctionOnSet(amounts, Side(TRUE)) \in Int
        /\ SumFunctionOnSet(amounts, Side(FALSE)) \in Int
        /\ SumFunctionOnSet(amounts, {}) \in Int
    BY <1>3, <1>4
  <2>2. Side(TRUE) # {} => SumFunctionOnSet(amounts, {}) < SumFunctionOnSet(amounts, Side(TRUE))
    BY <1>3, <1>4
  <2>3. Side(FALSE) # {} => SumFunctionOnSet(amounts, {}) < SumFunctionOnSet(amounts, Side(FALSE))
    BY <1>3, <1>4
  <2>4. Side(TRUE) # {} \/ Side(FALSE) # {}
    BY <1>3
  <2>5. CASE Side(TRUE) = {}
    <3>1. SumFunctionOnSet(amounts, {}) < SumFunctionOnSet(amounts, Side(FALSE))
      BY <2>3, <2>4, <2>5, Zenon
    <3>2. SumFunctionOnSet(amounts, {}) = SumFunctionOnSet(amounts, Side(FALSE))
      BY <1>5, <2>5, Zenon
    <3>3. QED
      BY <2>1, <3>1, <3>2, <2>0, Zenon
  <2>6. CASE Side(FALSE) = {}
    <3>1. SumFunctionOnSet(amounts, {}) < SumFunctionOnSet(amounts, Side(TRUE))
      BY <2>2, <2>4, <2>6, Zenon
    <3>2. SumFunctionOnSet(amounts, Side(TRUE)) = SumFunctionOnSet(amounts, {})
      BY <1>5, <2>6, Zenon
    <3>3. QED
      BY <2>1, <3>1, <3>2, <2>0, Zenon
  <2>7. QED
    BY <2>5, <2>6
<1>7. QED
  BY <1>6 DEF Side

\* Resolving the references of a journal leaves its sides and amounts as they are.
Resolved(c, journal) ==
  [i \in DOMAIN journal |->
     [journal[i] EXCEPT !.evidence = [k \in DOMAIN @ |-> Resolve(c, @[k])]]]

LEMMA ResolvedTotals ==
  ASSUME NEW c \in Cases, NEW journal \in Seq(JournalLine), NEW resolved,
         resolved = Resolved(c, journal)
  PROVE  /\ DOMAIN resolved = DOMAIN journal
         /\ \A i \in DOMAIN journal :
              resolved[i].debit = journal[i].debit /\ resolved[i].amount = journal[i].amount
         /\ \A debit \in BOOLEAN : Total(resolved, debit) = Total(journal, debit)
<1>1. DOMAIN resolved = DOMAIN journal
  BY DEF Resolved
<1>2. ASSUME NEW i \in DOMAIN journal
      PROVE  resolved[i].debit = journal[i].debit /\ resolved[i].amount = journal[i].amount
  <2>1. journal[i] \in JournalLine
    OBVIOUS
  <2>2. resolved[i] = [journal[i] EXCEPT !.evidence = [k \in DOMAIN @ |-> Resolve(c, @[k])]]
    BY DEF Resolved
  <2>3. QED
    BY <2>1, <2>2 DEF JournalLine
<1>3. ASSUME NEW debit \in BOOLEAN PROVE Total(resolved, debit) = Total(journal, debit)
  <2>1. [i \in DOMAIN resolved |-> resolved[i].amount] = [i \in DOMAIN journal |-> journal[i].amount]
    BY <1>1, <1>2
  <2>2. {i \in DOMAIN resolved : resolved[i].debit = debit}
          = {i \in DOMAIN journal : journal[i].debit = debit}
    BY <1>1, <1>2
  <2>3. QED
    BY <2>1, <2>2 DEF Total
<1>4. QED
  BY <1>1, <1>2, <1>3

\* What an accepted answer becomes is sound.
LEMMA ValidatedIsSound ==
  ASSUME NEW c \in Cases, NEW a \in Answer, Accepted(c, a)
  PROVE  Sound(Validated(c, a), c)
<1> DEFINE n == Validated(c, a)
<1>1. /\ a.evidence \in Seq(Nat) /\ a.journal \in Seq(JournalLine) /\ a.certain \in BOOLEAN
  BY DEF Answer
<1>2. /\ a.evidence # <<>> /\ Citable(c, a.evidence)
      /\ a.action \in AllowedActions
      /\ a.journal # <<>> => JournalHolds(c, a.journal)
      /\ a.action = "JOURNAL_EXPORT" <=> a.journal # <<>>
      /\ a.confidence \in BasisPoints
  BY DEF Accepted
<1>3. /\ n.status = "MODEL_VALIDATED" /\ n.action = a.action
      /\ n.evidence = [i \in DOMAIN a.evidence |-> Resolve(c, a.evidence[i])]
      /\ n.journal = Resolved(c, a.journal)
      /\ n.confidence = Confidence(a) /\ n.certain = a.certain /\ n.hedged = a.certain
  BY DEF Validated, Resolved
<1> HIDE DEF n
<1>4. /\ DOMAIN n.journal = DOMAIN a.journal
      /\ \A i \in DOMAIN a.journal :
           n.journal[i].debit = a.journal[i].debit /\ n.journal[i].amount = a.journal[i].amount
      /\ \A debit \in BOOLEAN : Total(n.journal, debit) = Total(a.journal, debit)
  BY <1>1, <1>3, ResolvedTotals
<1>5. CitesCase(n, c)
  <2>1. n.evidence # <<>> /\ IsInjective(n.evidence)
    <3>1. IsInjective(n.evidence)
      BY <1>2, <1>3 DEF Citable
    <3>2. DOMAIN n.evidence # {}
      BY <1>1, <1>2, <1>3
    <3>3. QED
      BY <3>1, <3>2
  <2>2. Range(n.evidence) \subseteq Range(Events[c])
    <3>1. n.evidence \in Seq(Range(Events[c]))
      BY <1>1, <1>2, <1>3, ResolveLemma
    <3>2. QED
      BY <3>1 DEF Range
  <2>3. ASSUME NEW i \in DOMAIN n.journal
        PROVE  Range(n.journal[i].evidence) \subseteq Range(Events[c])
    <3>1. a.journal[i] \in JournalLine /\ a.journal # <<>>
      BY <1>1, <1>4
    <3>2. Citable(c, a.journal[i].evidence)
      BY <1>2, <1>4, <3>1 DEF JournalHolds
    <3>3. a.journal[i].evidence \in Seq(Nat)
      BY <3>1 DEF JournalLine
    <3>4. [k \in DOMAIN a.journal[i].evidence |-> Resolve(c, a.journal[i].evidence[k])]
            \in Seq(Range(Events[c]))
      BY <3>2, <3>3, ResolveLemma
    <3>5. n.journal[i].evidence =
            [k \in DOMAIN a.journal[i].evidence |-> Resolve(c, a.journal[i].evidence[k])]
      BY <1>3, <1>4, <3>1 DEF JournalLine, Resolved
    <3>6. QED
      BY <3>4, <3>5 DEF Range
  <2>4. QED
    BY <2>1, <2>2, <2>3 DEF CitesCase
<1>6. Balances(n)
  <2>1. n.action = "JOURNAL_EXPORT" <=> n.journal # <<>>
    <3>1. a.journal = <<>> <=> DOMAIN a.journal = {}
      <4>1. \A s \in Seq(JournalLine) : s = <<>> <=> DOMAIN s = {}
        <5>1. ASSUME NEW s \in Seq(JournalLine), DOMAIN s = {} PROVE s = <<>>
          <6>1. Len(s) \in Nat /\ DOMAIN s = 1..Len(s)
            OBVIOUS
          <6>2. Len(s) = 0
            BY <5>1, <6>1
          <6>3. QED
            BY <6>2
        <5>2. DOMAIN <<>> = {}
          OBVIOUS
        <5>3. QED
          BY <5>1, <5>2
      <4>2. QED
        BY <1>1, <4>1, Zenon
    <3>2. CASE a.journal = <<>>
      <4>1. n.journal = <<>>
        BY <1>1, <1>3, <3>2 DEF Resolved
      <4>2. QED
        BY <1>2, <1>3, <3>2, <4>1
    <3>3. CASE a.journal # <<>>
      <4>1. n.journal # <<>>
        BY <1>4, <3>1, <3>3
      <4>2. QED
        BY <1>2, <1>3, <3>3, <4>1
    <3>4. QED
      BY <3>2, <3>3
  <2>2. CASE a.journal = <<>>
    <3>1. n.journal = <<>>
      BY <1>1, <1>3, <2>2 DEF Resolved
    <3>2. Total(<<>>, TRUE) = Total(<<>>, FALSE)
      <4>1. {i \in DOMAIN <<>> : <<>>[i].debit = TRUE} = {i \in DOMAIN <<>> : <<>>[i].debit = FALSE}
        OBVIOUS
      <4>2. QED
        BY <4>1 DEF Total
    <3>3. QED
      BY <2>1, <3>1, <3>2 DEF Balances
  <2>3. CASE a.journal # <<>>
    <3>1. /\ \A i \in DOMAIN a.journal : a.journal[i].amount > 0
          /\ Len(a.journal) >= 2
          /\ Total(a.journal, TRUE) = Total(a.journal, FALSE)
      BY <1>2, <2>3 DEF JournalHolds
    <3>2. PICK m \in Nat : DOMAIN a.journal = 1..m /\ m >= 2
      BY <1>1, <3>1
    <3>3. IsFiniteSet(DOMAIN a.journal) /\ DOMAIN a.journal # {}
      <4>1. IsFiniteSet(1..m)
        BY FS_Interval
      <4>2. 1 \in 1..m
        BY <3>2
      <4>3. QED
        BY <3>2, <4>1, <4>2
    <3>4. \A i \in DOMAIN a.journal :
            a.journal[i].amount \in Nat \ {0} /\ a.journal[i].debit \in BOOLEAN
      <4>1. ASSUME NEW i \in DOMAIN a.journal
            PROVE  a.journal[i].amount \in Nat \ {0} /\ a.journal[i].debit \in BOOLEAN
        <5>1. a.journal[i] \in JournalLine
          BY <1>1
        <5>2. a.journal[i].amount \in Int /\ a.journal[i].debit \in BOOLEAN
          BY <5>1 DEF JournalLine
        <5>3. a.journal[i].amount > 0
          BY <3>1
        <5>4. QED
          BY <5>2, <5>3
      <4>2. QED
        BY <4>1
    <3>5. \E i1, i2 \in DOMAIN a.journal : a.journal[i1].debit /\ ~a.journal[i2].debit
      BY <3>1, <3>3, <3>4, BothSides
    <3>6. \E i1, i2 \in DOMAIN n.journal : n.journal[i1].debit /\ ~n.journal[i2].debit
      BY <1>4, <3>5
    <3>7. Total(n.journal, TRUE) = Total(n.journal, FALSE)
      BY <1>4, <3>1
    <3>8. QED
      BY <2>1, <3>6, <3>7 DEF Balances
  <2>4. QED
    BY <2>2, <2>3
<1>7. n.certain => n.hedged /\ n.confidence <= CertaintyCap
  <2>1. Min({a.confidence, CertaintyCap}) <= CertaintyCap
    BY <1>2, CapLemma, Zenon
  <2>2. a.certain => Confidence(a) = Min({a.confidence, CertaintyCap})
    BY DEF Confidence
  <2>3. QED
    BY <1>3, <2>1, <2>2, Zenon
<1>8. QED
  BY <1>2, <1>3, <1>5, <1>6, <1>7 DEF Sound, n

LEMMA ResultIsSound ==
  ASSUME NEW c \in Cases
  PROVE  /\ \A note \in GoodNotes[c] : Sound(note, c)
         /\ \A failure \in {"MODEL_OUTPUT_INVALID", "MODEL_UNAVAILABLE"} :
              Sound(Fallback(c, failure), c)
<1>1. Answers[c] \subseteq Answer
  BY InvestigationAssumption, Zenon
<1>2. \A note \in GoodNotes[c] : Sound(note, c)
  BY <1>1, ValidatedIsSound DEF GoodNotes
<1>3. \A failure : Fallback(c, failure).status = failure
  BY DEF Fallback
<1>4. QED
  BY <1>2, <1>3 DEF Sound

\* Where results come from and go to: one is checked before it is carried, and only
\* what is carried is attached.
LEMMA StepKeepsAdvised == IInv /\ Advised /\ [Next]_vars => Advised'
<1> SUFFICES ASSUME IInv, Advised, [Next]_vars PROVE Advised'
  OBVIOUS
<1>1. ASSUME UNCHANGED notes,
             \A e \in Desks : pc'[e] = "attach" => pc[e] = "attach" /\ job'[e] = job[e]
      PROVE  Advised'
  BY <1>1 DEF Advised
<1>2. CASE UNCHANGED vars
  BY <1>1, <1>2 DEF vars
<1>3. ASSUME NEW d \in Desks, pc[d] # "attach", UNCHANGED notes,
             NEW result, Result(d, result), Sound(result, job[d].case)
      PROVE  Advised'
  <2>1. /\ pc' = [pc EXCEPT ![d] = "attach"]
        /\ job' = [job EXCEPT ![d] = [job[d] EXCEPT !.result = result]]
    BY <1>3 DEF Result
  <2>2. DOMAIN job[d] = {"case", "note", "result", "seen"}
    BY DEF IInv, Desk, RequestOK
  <2>3. job'[d].result = result /\ job'[d].case = job[d].case
    BY <2>1, <2>2 DEF IInv, Shape
  <2>4. \A e \in Desks \ {d} : pc'[e] = pc[e] /\ job'[e] = job[e]
    BY <2>1 DEF IInv, Shape
  <2>5. \A e \in Desks : pc'[e] = "attach" => Sound(job'[e].result, job'[e].case)
    BY <1>3, <2>3, <2>4 DEF Advised
  <2>6. QED
    BY <1>3, <2>5 DEF Advised
<1>4. ASSUME NEW d \in Desks, AnswerAccepted(d) \/ AnswerRejected(d) \/ ModelFails(d)
      PROVE  Advised'
  <2>1. pc[d] \in {"first", "retry"} /\ UNCHANGED notes /\ job[d].case \in Cases
    BY <1>4 DEF AnswerAccepted, AnswerRejected, ModelFails, IInv, Desk, RequestOK
  <2>2. CASE \E result : Result(d, result) /\ Sound(result, job[d].case)
    BY <1>3, <2>1, <2>2
  <2>3. CASE \/ pc' = [pc EXCEPT ![d] = "retry"] /\ UNCHANGED job
             \/ pc' = [pc EXCEPT ![d] = "idle"] /\ job' = [job EXCEPT ![d] = NoJob]
    <3>1. \A e \in Desks : pc'[e] = "attach" => pc[e] = "attach" /\ job'[e] = job[e]
      BY <2>3 DEF IInv, Shape
    <3>2. QED
      BY <1>1, <2>1, <3>1
  <2>4. QED
    BY <1>4, <2>1, <2>2, <2>3, ResultIsSound DEF AnswerAccepted, AnswerRejected, ModelFails
<1>5. ASSUME NEW d \in Desks, Attach(d) PROVE Advised'
  <2>1. /\ pc[d] = "attach" /\ job[d].note[1] = job[d].case
        /\ pc' = [pc EXCEPT ![d] = "refresh"]
        /\ job' = [job EXCEPT ![d] = [job[d] EXCEPT !.result = NoResult]]
    BY <1>5 DEF Attach, IInv, Desk, RequestOK, Serving
  <2>2. /\ DOMAIN notes' = DOMAIN notes \cup {job[d].note}
        /\ notes'[job[d].note] = job[d].result
        /\ \A k \in DOMAIN notes \ {job[d].note} : notes'[k] = notes[k]
    BY <1>5 DEF Attach
  <2>3. \A e \in Desks : pc'[e] = "attach" => pc[e] = "attach" /\ job'[e] = job[e]
    BY <2>1 DEF IInv, Shape
  <2>4. \A k \in DOMAIN notes' : Sound(notes'[k], k[1])
    BY <2>1, <2>2 DEF Advised
  <2>5. \A e \in Desks : pc'[e] = "attach" => Sound(job'[e].result, job'[e].case)
    BY <2>3 DEF Advised
  <2>6. QED
    BY <2>4, <2>5 DEF Advised
<1>6. ASSUME NEW d \in Desks, Arrive(d) \/ Miss(d) \/ (\E c \in Cases : Open(d, c)) PROVE Advised'
  BY <1>1, <1>6 DEF Arrive, Miss, Open
<1>7. ASSUME NEW d \in Desks,
             \/ Ask(d) \/ Judge(d) \/ Save(d) \/ AttachRefused(d) \/ Record(d)
             \/ Refresh(d) \/ Lose(d)
      PROVE  Advised'
  <2>1. UNCHANGED notes
    BY <1>7 DEF Ask, Judge, Save, AttachRefused, Record, Refresh, Lose
  <2>2. \A e \in Desks : pc'[e] = "attach" => pc[e] = "attach" /\ job'[e] = job[e]
    BY <1>7 DEF IInv, Shape, Ask, Judge, Save, AttachRefused, Record, Refresh, Lose
  <2>3. QED
    BY <1>1, <2>1, <2>2
<1>8. QED
  BY <1>2, <1>4, <1>5, <1>6, <1>7 DEF Next, Serve

(***************************************************************************)
(* AdviceIsSound: whatever the model answers, first or again, for however  *)
(* many desks, a note made of it is one the checks allow, and any other is *)
(* the note of the service (_validate_model_result, _fallback).            *)
(***************************************************************************)
THEOREM AdviceStaysSound == Spec => []AdviceIsSound
<1>1. Init => Advised
  BY DEF Init, Advised
<1>2. Advised => AdviceIsSound
  BY DEF Advised, Sound, AdviceIsSound
<1>3. QED
  BY <1>1, <1>2, InitLemma, StepKeepsIInv, StepKeepsAdvised, PTL DEF Spec
=============================================================================
