---------------------------- MODULE ActionPromise ----------------------------
(***************************************************************************)
(* What a controller is promised about one proposed finance action.        *)
(*                                                                         *)
(* Its text may change until it is decided, and never after.  Nothing is   *)
(* written to the export directory before the approval, and what is        *)
(* written is the text that was approved.  It is exported at most once,    *)
(* with a receipt for a file that is there.  ActionLoop implements this    *)
(* when it runs with the one worker it is deployed with.                   *)
(***************************************************************************)
CONSTANTS
  Actions,     \* the finance actions, one for each exception case
  Texts,       \* the texts a reviewer may give an action
  DefaultText, \* the text an action is proposed with
  Content      \* action -> text -> the bytes an export of it writes

VARIABLES
  phase,   \* the state of each action, "ABSENT" before it is proposed
  text,    \* its text
  out,     \* the contents its export directory has a file for
  receipt  \* the contents it has a receipt for

vars == <<phase, text, out, receipt>>

Init ==
  /\ phase = [a \in Actions |-> "ABSENT"]
  /\ text = [a \in Actions |-> DefaultText]
  /\ out = [a \in Actions |-> {}]
  /\ receipt = [a \in Actions |-> {}]

Propose(a) ==
  /\ phase[a] = "ABSENT"
  /\ phase' = [phase EXCEPT ![a] = "PROPOSED"]
  /\ UNCHANGED <<text, out, receipt>>

\* An edit, a decision, or both in one request.
Review(a) ==
  /\ phase[a] = "PROPOSED"
  /\ \E s \in {"PROPOSED", "APPROVED", "REJECTED"}, t \in Texts :
       /\ phase' = [phase EXCEPT ![a] = s]
       /\ text' = [text EXCEPT ![a] = t]
  /\ UNCHANGED <<out, receipt>>

Write(a) ==
  /\ phase[a] = "APPROVED"
  /\ out' = [out EXCEPT ![a] = {Content[a][text[a]]}]
  /\ UNCHANGED <<phase, text, receipt>>

Export(a) ==
  /\ phase[a] = "APPROVED"
  /\ out[a] = {Content[a][text[a]]}
  /\ phase' = [phase EXCEPT ![a] = "EXPORTED"]
  /\ receipt' = [receipt EXCEPT ![a] = out[a]]
  /\ UNCHANGED <<text, out>>

Next == \E a \in Actions : Propose(a) \/ Review(a) \/ Write(a) \/ Export(a)

Spec == Init /\ [][Next]_vars
=============================================================================
