--------------------------- MODULE MCRunLifecycle ---------------------------
(***************************************************************************)
(* Small instances of RunLifecycle: two source slots, three contents of    *)
(* which one fails validation, and the uploads that make importers meet.   *)
(***************************************************************************)
EXTENDS RunLifecycle, TLC

MCFileIds == {"gateway", "bank"}
MCContents == {"c1", "c2", "bad"}
MCValidContents == {"c1", "c2"}

Doc(f, c) == [file |-> f, content |-> c]

\* A complete valid close; a second one that shares no file with the first; an
\* invalid upload that shares one file with it; one document alone, which shares
\* no content with the first two pairs' partner; one file id used twice.
MCBatches ==
  { {Doc("gateway", "c1"), Doc("bank", "c2")},
    {Doc("gateway", "c2"), Doc("bank", "c1")},
    {Doc("gateway", "c1"), Doc("bank", "bad")},
    {Doc("bank", "bad")},
    {Doc("gateway", "c1"), Doc("gateway", "c2")} }

\* One batch that validates and one that does not, for the temporal runs.
MCFewBatches ==
  { {Doc("gateway", "c1"), Doc("bank", "c2")}, {Doc("bank", "bad")} }

\* Processes are interchangeable.
Symmetry == Permutations(Procs)
=============================================================================
