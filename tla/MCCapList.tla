---------------------------- MODULE MCCapList ------------------------------
(***************************************************************************)
(* Requests for the runs of CapList.                                         *)
(***************************************************************************)
EXTENDS CapList

\* "label" stands for the fields kept elsewhere.
SomeRequests == {{"caps"}, {"ext"}, {"caps", "ext", "label"}, {"caps", "rescan"}, {"ext", "rescan"}}
============================================================================
