----------------------------- MODULE MCCodesign ----------------------------
(* Instances of Codesign for TLC. *)
EXTENDS Codesign

\* A negative count, none, and enough for two requests to be abroad while a
\* third is made.
RetryCounts == {-1, 0, 2}

\* One slash more than the code trims at once.
UpToTwo == 0 .. 2
=============================================================================
