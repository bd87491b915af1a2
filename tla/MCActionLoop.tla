---------------------------- MODULE MCActionLoop ----------------------------
(***************************************************************************)
(* Small instances of ActionLoop: the configurations name the workers and  *)
(* the actions, one with a journal, one whose export prints its text.      *)
(***************************************************************************)
EXTENDS ActionLoop
=============================================================================
