------------------------------ MODULE Entrypoint -----------------------------
(***************************************************************************)
(* PID 1 of the container, docker/entrypoint.sh, with its two children     *)
(* pcscd and signerd, under the rules of bash: set -e ends the script at a *)
(* command that fails, a trapped signal makes wait return non-zero and its *)
(* trap run, and a signal that PID 1 has no trap for is lost.  When PID 1  *)
(* exits the kernel kills what is left of the container.                   *)
(***************************************************************************)
EXTENDS Integers

CONSTANT Tries  \* how often the script looks for the socket

ASSUME TriesAssumption == Tries \in Nat

VARIABLES
  step,     \* where the script is: looking for the socket, waiting, or gone
  tries,    \* how often it has looked
  socket,   \* pcscd.comm exists
  pcscd,    \* the children: running, or how they ended
  signerd,
  stop,     \* the TERM of a container stop: not sent, at the script, used up
  exit      \* how the script ended

vars == <<step, tries, socket, pcscd, signerd, stop, exit>>

Ended == {"zero", "nonzero", "killed"}

TypeOK ==
  /\ step \in {"poll", "check", "wait", "ending", "reap", "gone"}
  /\ tries \in 0 .. Tries
  /\ socket \in BOOLEAN
  /\ pcscd \in {"running", "stopping"} \cup Ended
  /\ signerd \in {"none", "running", "stopping"} \cup Ended
  /\ stop \in {"none", "pending", "past"}
  /\ exit \in {"none"} \cup Ended

\* A container that is started again has the files of its last run, a socket
\* that pcscd left behind among them.
Init ==
  /\ step = "poll"
  /\ tries = 0
  /\ socket \in BOOLEAN
  /\ pcscd = "running"
  /\ signerd = "none"
  /\ stop = "none"
  /\ exit = "none"

Killed(child) == IF child \in {"running", "stopping"} THEN "killed" ELSE child

Exit(how) ==
  /\ step' = "gone"
  /\ exit' = how
  /\ pcscd' = Killed(pcscd)
  /\ signerd' = Killed(signerd)

-----------------------------------------------------------------------------
(* The script                                                              *)

\* Mutant: a loop without a count.
Poll_Endless ==
  /\ step = "poll"
  /\ IF socket
       THEN step' = "check" /\ UNCHANGED tries
       ELSE tries' = tries + 1 /\ UNCHANGED step
  /\ UNCHANGED <<socket, pcscd, signerd, stop, exit>>

\* Look for the socket, twenty times at most.
Poll ==
  /\ step = "poll"
  /\ IF socket \/ tries = Tries
       THEN step' = "check" /\ UNCHANGED tries
       ELSE tries' = tries + 1 /\ UNCHANGED step
  /\ UNCHANGED <<socket, pcscd, signerd, stop, exit>>

\* Mutant: after the loop nobody looks again.
Check_Skipped ==
  /\ step = "check"
  /\ step' = "wait"
  /\ signerd' = "running"
  /\ UNCHANGED <<tries, socket, pcscd, stop, exit>>

\* Refuse to start without a socket; else start signerd and set the trap.
Check ==
  /\ step = "check"
  /\ \/ ~socket /\ Exit("nonzero")
     \/ socket /\ step' = "wait" /\ signerd' = "running" /\ UNCHANGED <<pcscd, exit>>
  /\ UNCHANGED <<tries, socket, stop>>

Term(child) == IF child = "running" THEN "stopping" ELSE child

Terminate == pcscd' = Term(pcscd) /\ signerd' = Term(signerd)

\* Mutant: wait for all children instead of wait -n.
ChildEnds_All ==
  /\ step = "wait"
  /\ pcscd \in Ended /\ signerd \in Ended
  /\ IF "nonzero" \in {pcscd, signerd} THEN Exit("nonzero") ELSE Exit("zero")
  /\ UNCHANGED <<tries, socket, stop>>

\* Mutant: a failed child does not fail the script.
ChildEnds_OrTrue ==
  /\ step = "wait"
  /\ \E child \in {pcscd, signerd} : child \in Ended
  /\ step' = "reap"
  /\ Terminate
  /\ UNCHANGED <<tries, socket, stop, exit>>

\* wait -n: a non-zero status ends the script there and then; after a zero it
\* terminates the other child and goes on to wait for it.
ChildEnds ==
  /\ step = "wait"
  /\ \E child \in {pcscd, signerd} :
       \/ child = "nonzero" /\ Exit("nonzero")
       \/ child = "zero" /\ step' = "reap" /\ Terminate /\ UNCHANGED exit
  /\ UNCHANGED <<tries, socket, stop>>

\* The signal makes wait -n return non-zero and the trap terminate the children.
Interrupted ==
  /\ step = "wait"
  /\ stop = "pending"
  /\ stop' = "past"
  /\ step' = "ending"
  /\ Terminate
  /\ UNCHANGED <<tries, socket, exit>>

\* That status ends the script, under set -e, before the lines that wait.
SetE ==
  /\ step = "ending"
  /\ Exit("nonzero")
  /\ UNCHANGED <<tries, socket, stop>>

\* "wait || true", cut short by a signal or not.
Reap ==
  /\ step = "reap"
  /\ stop = "pending" \/ (pcscd \in Ended /\ signerd \in Ended)
  /\ Exit("zero")
  /\ UNCHANGED <<tries, socket, stop>>

-----------------------------------------------------------------------------
(* The children and the operator                                           *)

Listen ==
  /\ pcscd = "running"
  /\ ~socket
  /\ socket' = TRUE
  /\ UNCHANGED <<step, tries, pcscd, signerd, stop, exit>>

\* A crash leaves the socket behind.
PcscdEnds ==
  /\ pcscd \in {"running", "stopping"}
  /\ pcscd' \in {"zero", "nonzero"}
  /\ socket' \in {socket, FALSE}
  /\ UNCHANGED <<step, tries, signerd, stop, exit>>

\* By itself signerd ends with an error, or with zero if it was only asked for
\* its version; told to stop, it drains and ends either way.
SignerdEnds ==
  /\ signerd \in {"running", "stopping"}
  /\ signerd' \in {"zero", "nonzero"}
  /\ UNCHANGED <<step, tries, socket, pcscd, stop, exit>>

\* The stop of a container; before the trap is set the signal is lost.
Stop ==
  /\ stop = "none"
  /\ step # "gone"
  /\ stop' = IF step \in {"poll", "check"} THEN "past" ELSE "pending"
  /\ UNCHANGED <<step, tries, socket, pcscd, signerd, exit>>

\* The end of the grace period.
Kill ==
  /\ stop # "none"
  /\ step # "gone"
  /\ Exit("killed")
  /\ UNCHANGED <<tries, socket, stop>>

-----------------------------------------------------------------------------
Script == Poll \/ Check \/ ChildEnds \/ Interrupted \/ SetE \/ Reap

Next == Script \/ Listen \/ PcscdEnds \/ SignerdEnds \/ Stop \/ Kill

Spec == Init /\ [][Next]_vars

\* The script runs, and a child that was told to stop ends: pcscd at once,
\* signerd at the latest when Shutdown gives up.
FairSpec ==
  /\ Spec
  /\ WF_vars(Script)
  /\ WF_vars(pcscd = "stopping" /\ PcscdEnds)
  /\ WF_vars(signerd = "stopping" /\ SignerdEnds)

-----------------------------------------------------------------------------
(* Properties                                                              *)

\* Without a socket the container refuses to start (entrypoint.sh:31): if none
\* ever appears it ends, with an error and without ever having run signerd.
RefusesToStart ==
  [](~socket) => <>(exit \in {"nonzero", "killed"} /\ signerd = "none")

\* A restart policy that goes by the status is not misled: the container ends
\* with zero only if one of the children ended so (entrypoint.sh:53).
ZeroIsEarned == exit = "zero" => "zero" \in {pcscd, signerd}

\* "A dead pcscd (or signerd) exits the container" (entrypoint.sh:3), whichever
\* dies, at whatever moment of the start or of a stop.
DeadChildEndsContainer ==
  (pcscd \in Ended \/ signerd \in Ended) ~> step = "gone"

\* "Serve runs the daemon until the context is canceled, then shuts it down
\* gracefully." (server.go:177) and "PID 1 waits on both children"
\* (entrypoint.sh:3): unless the grace period runs out, the container does not
\* end over a signerd that is still draining.
StopIsGraceful ==
  [][exit' # "killed" => ~(signerd = "stopping" /\ signerd' = "killed")]_vars
=============================================================================
