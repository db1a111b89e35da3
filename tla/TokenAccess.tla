----------------------------- MODULE TokenAccess -----------------------------
(***************************************************************************)
(* What signerd promises about the hardware token, without handlers,       *)
(* channels, files or time: operations use the token one at a time, and a  *)
(* client's operation runs only while the client is one of at most Limit   *)
(* that were admitted.                                                     *)
(***************************************************************************)
EXTENDS Integers, FiniteSets

CONSTANTS
  Clients,   \* may be admitted, and then use the token
  Probers,   \* may use the token without being admitted
  Limit      \* how many clients may be admitted at a time

VARIABLES
  using,     \* whose operation is using the token
  admitted   \* the clients that were let in

vars == <<using, admitted>>

Init ==
  /\ using = {}
  /\ admitted = {}

Enter(c) ==
  /\ c \notin admitted
  /\ Cardinality(admitted) < Limit
  /\ admitted' = admitted \cup {c}
  /\ UNCHANGED using

Begin(a) ==
  /\ using = {}
  /\ a \in admitted \cup Probers
  /\ using' = {a}
  /\ UNCHANGED admitted

End ==
  /\ using # {}
  /\ using' = {}
  /\ UNCHANGED admitted

Depart(c) ==
  /\ c \in admitted \ using
  /\ admitted' = admitted \ {c}
  /\ UNCHANGED using

\* The process ends, and with it everything in progress.
Stop ==
  /\ using' = {}
  /\ admitted' = {}

Next ==
  \/ \E c \in Clients : Enter(c) \/ Depart(c)
  \/ \E a \in Clients \cup Probers : Begin(a)
  \/ End
  \/ Stop

Spec == Init /\ [][Next]_vars
=============================================================================
