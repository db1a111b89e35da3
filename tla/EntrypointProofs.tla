--------------------------- MODULE EntrypointProofs --------------------------
(* Type correctness of Entrypoint, and that a zero status is earned.        *)
EXTENDS Entrypoint, TLAPS

\* The script passes wait -n only when a child ended with zero, and a child
\* that ended stays as it ended, through term and through the end of PID 1.
EarnedInv ==
  /\ exit # "none" => step = "gone"
  /\ step = "reap" \/ exit = "zero" => "zero" \in {pcscd, signerd}

ExitInv == TypeOK /\ EarnedInv

LEMMA ExitInit == Init => ExitInv
BY TriesAssumption DEF Init, ExitInv, TypeOK, EarnedInv, Ended

LEMMA ExitStep == ExitInv /\ [Next]_vars => ExitInv'
<1> SUFFICES ASSUME ExitInv, [Next]_vars PROVE ExitInv'
  OBVIOUS
<1> USE TriesAssumption DEF ExitInv, EarnedInv, TypeOK, Ended
<1>1. CASE Poll
  BY <1>1 DEF Poll
<1>2. CASE Check
  BY <1>2 DEF Check, Exit, Killed
<1>3. CASE ChildEnds
  BY <1>3 DEF ChildEnds, Exit, Killed, Terminate, Term
<1>4. CASE Interrupted
  BY <1>4 DEF Interrupted, Terminate, Term
<1>5. CASE SetE
  BY <1>5 DEF SetE, Exit, Killed
<1>6. CASE Reap
  BY <1>6 DEF Reap, Exit, Killed
<1>7. CASE Listen
  BY <1>7 DEF Listen
<1>8. CASE PcscdEnds
  BY <1>8 DEF PcscdEnds
<1>9. CASE SignerdEnds
  BY <1>9 DEF SignerdEnds
<1>10. CASE Stop
  BY <1>10 DEF Stop
<1>11. CASE Kill
  BY <1>11 DEF Kill, Exit, Killed
<1>12. CASE UNCHANGED vars
  BY <1>12 DEF vars
<1> QED
  BY <1>1, <1>2, <1>3, <1>4, <1>5, <1>6, <1>7, <1>8, <1>9, <1>10, <1>11, <1>12
     DEF Next, Script

LEMMA ExitAlways == Spec => []ExitInv
BY ExitInit, ExitStep, PTL DEF Spec

-----------------------------------------------------------------------------
\* The variables of Entrypoint keep their types, and the script looks for the
\* socket no more often than its loop says (entrypoint.sh:31).
THEOREM TypeCorrect == Spec => []TypeOK
<1>1. ExitInv => TypeOK
  BY DEF ExitInv
<1> QED
  BY <1>1, ExitAlways, PTL

\* The container ends with zero only if one of its children ended with zero,
\* for any length of the wait for the socket (entrypoint.sh:53).
THEOREM ZeroEarned == Spec => []ZeroIsEarned
<1>1. ExitInv => ZeroIsEarned
  BY DEF ExitInv, EarnedInv, ZeroIsEarned
<1> QED
  BY <1>1, ExitAlways, PTL
=============================================================================
