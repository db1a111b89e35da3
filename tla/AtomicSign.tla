----------------------------- MODULE AtomicSign ------------------------------
(***************************************************************************)
(* What a signing backend promises of one output path: a call either puts  *)
(* the finished signed file there, in one step, and returns nil, or leaves *)
(* the path as it was and returns an error.  A call that dies with its     *)
(* process has done one or the other.  A path that is an alias of the      *)
(* call's own input is always left alone.                                  *)
(***************************************************************************)
VARIABLES
  busy,    \* a call is under way
  before,  \* what the output path held when it began
  output,  \* what it holds now
  result   \* what the last call returned

vars == <<busy, before, output, result>>

Init ==
  /\ busy = FALSE
  /\ before = "absent"
  /\ output = "absent"
  /\ result = "none"

Begin ==
  /\ ~busy
  /\ busy' = TRUE
  /\ before' \in {"absent", "old", "input"}
  /\ output' = before'
  /\ result' = "none"

Publish ==
  /\ busy
  /\ output = before
  /\ before # "input"
  /\ output' = "signed"
  /\ UNCHANGED <<busy, before, result>>

Return ==
  /\ busy
  /\ busy' = FALSE
  /\ result' = IF output = "signed" THEN "nil" ELSE "error"
  /\ UNCHANGED <<before, output>>

Die ==
  /\ busy
  /\ busy' = FALSE
  /\ result' = "lost"
  /\ UNCHANGED <<before, output>>

Next == Begin \/ Publish \/ Return \/ Die

Spec == Init /\ [][Next]_vars
=============================================================================
