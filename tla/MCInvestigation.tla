---------------------------- MODULE MCInvestigation ----------------------------
(* Instances of Investigation for TLC. *)
EXTENDS Investigation

\* Two cases of one run: an exception, and a proved case with a row of its own.
MCEvents == [c \in {"c1", "c2"} |-> IF c = "c1" THEN <<11, 12>> ELSE <<13>>]
MCAmount == [e \in {11, 12, 13} |-> IF e = 12 THEN 90 ELSE 100]
MCCited == [c \in {"c1", "c2"} |-> MCEvents[c]]
MCRecommended == [c \in {"c1", "c2"} |-> "MANUAL_REVIEW"]

Line(debit, amount, evidence) == [debit |-> debit, amount |-> amount, evidence |-> evidence]

Plain == [complete |-> TRUE, evidence |-> <<1>>, mentioned |-> {}, action |-> "WAIT",
          human |-> TRUE, journal |-> <<>>, confidence |-> 6000, certain |-> FALSE]

\* Answers that differ from a plain one in what they cite, mention or lack; none
\* of these is to be accepted ...
Citing == {[Plain EXCEPT !.evidence = refs] : refs \in
             {<<>>, <<1, 11>>, <<2, 2>>, <<3>>, <<13>>, <<1, 13>>}}
Mentioning == {[Plain EXCEPT !.mentioned = m] : m \in {{<<2, 100>>}, {<<13, 100>>}}}
Flawed == {[Plain EXCEPT !.complete = FALSE], [Plain EXCEPT !.human = FALSE],
           [Plain EXCEPT !.action = "AUTO_CLEAR"], [Plain EXCEPT !.action = "JOURNAL_EXPORT"]}

\* ... and answers that claim and post; of these, the first journal alone.
Posting == {[Plain EXCEPT !.evidence = <<12, 1>>, !.mentioned = {<<1, 100>>, <<12, 90>>},
                          !.action = "JOURNAL_EXPORT", !.journal = j,
                          !.certain = TRUE, !.confidence = n] :
              n \in {9000, 10001, -1},
              j \in {<<Line(TRUE, 100, <<1>>), Line(FALSE, 100, <<11>>)>>,
                     <<Line(TRUE, 100, <<1>>), Line(FALSE, 90, <<2>>)>>,
                     <<Line(TRUE, 100, <<1>>)>>,
                     <<Line(TRUE, 0, <<1>>), Line(FALSE, 0, <<2>>)>>,
                     <<Line(TRUE, 100, <<13>>), Line(FALSE, 100, <<2>>)>>,
                     <<Line(TRUE, 100, <<1, 11>>), Line(FALSE, 100, <<2>>)>>,
                     <<Line(TRUE, 100, <<1>>), Line(FALSE, 100, <<>>)>>}}
Unasked == {[a EXCEPT !.action = "WAIT"] : a \in Posting}

MCAnswers == [c \in {"c1", "c2"} |->
  Citing \cup Mentioning \cup Flawed \cup Posting \cup Unasked]
=============================================================================
