----------------------------- MODULE RunPromise -----------------------------
(***************************************************************************)
(* What a reader of the database is promised about one close run, whoever  *)
(* imports it, reconciles it, crashes or retries.                          *)
(*                                                                         *)
(* A run appears already validated or already refused, with the documents  *)
(* it will keep for ever.  A validated run is reconciled at most once.     *)
(* Its results become visible in the very step that completes it, and they *)
(* are results about those documents.  RunLifecycle implements this.       *)
(***************************************************************************)
CONSTANTS
  RunIds,      \* identifiers of close runs
  DocumentSets \* the sets of documents a run can be imported from

VARIABLES
  phase,       \* what runs.get shows of each run, "ABSENT" before its import
  input,       \* the documents whose rows the run owns
  published    \* the document sets some visible decisions are about

vars == <<phase, input, published>>

Init ==
  /\ phase = [r \in RunIds |-> "ABSENT"]
  /\ input = [r \in RunIds |-> {}]
  /\ published = [r \in RunIds |-> {}]

Import(r) ==
  /\ phase[r] = "ABSENT"
  /\ \E s \in {"VALIDATED", "FAILED_VALIDATION"}, docs \in DocumentSets :
       /\ phase' = [phase EXCEPT ![r] = s]
       /\ input' = [input EXCEPT ![r] = docs]
  /\ UNCHANGED published

Start(r) ==
  /\ phase[r] = "VALIDATED"
  /\ phase' = [phase EXCEPT ![r] = "RECONCILING"]
  /\ UNCHANGED <<input, published>>

Complete(r) ==
  /\ phase[r] = "RECONCILING"
  /\ phase' = [phase EXCEPT ![r] = "COMPLETED"]
  /\ published' = [published EXCEPT ![r] = {input[r]}]
  /\ UNCHANGED input

Fail(r) ==
  /\ phase[r] = "RECONCILING"
  /\ phase' = [phase EXCEPT ![r] = "FAILED"]
  /\ UNCHANGED <<input, published>>

Next == \E r \in RunIds : Import(r) \/ Start(r) \/ Complete(r) \/ Fail(r)

Spec == Init /\ [][Next]_vars
=============================================================================
