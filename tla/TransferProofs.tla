---------------------------- MODULE TransferProofs ----------------------------
(***************************************************************************)
(* Theorems about codesign and signerd together, for every number of       *)
(* files, attempts and upload slots.                                       *)
(*                                                                         *)
(* What is proved of either end alone is used here, as ClientSide and      *)
(* DaemonSide: the proofs about SignClient and Signerd, for the variables  *)
(* of Transfer.                                                            *)
(***************************************************************************)
EXTENDS Transfer, FiniteSetTheorems, TLAPS

ClientSide == INSTANCE SignClientProofs

DaemonSide == INSTANCE SignerdProofs
  WITH SignReqs <- Seats, HealthReqs <- {}, pc <- handler,
       HealthCacheTTL <- -1, HealthTimeout <- 1,
       AllowLoopback <- FALSE, HasVerifier <- TRUE

-----------------------------------------------------------------------------
(* The two names of either end mean the same.                              *)

LEMMA SameClient ==
  /\ Client!Init <=> ClientSide!Init
  /\ Client!Next <=> ClientSide!Next
  /\ UNCHANGED Client!vars <=> UNCHANGED ClientSide!vars
<1>1. Client!Init <=> ClientSide!Init
  BY DEF Client!Init, ClientSide!Init, Client!Jobs, ClientSide!Jobs, Client!Targets,
         ClientSide!Targets, Client!InPlace, ClientSide!InPlace, Client!Absent,
         ClientSide!Absent, Client!Files, ClientSide!Files, Client!Attempts,
         ClientSide!Attempts
<1> USE DEF Client!Goto, ClientSide!Goto, Client!Exit, ClientSide!Exit, Client!loopVars,
            ClientSide!loopVars, Client!diskVars, ClientSide!diskVars
<1>2. Client!ClientSteps <=> ClientSide!ClientSteps
  BY DEF Client!ClientSteps, ClientSide!ClientSteps, Client!ReadInput,
         ClientSide!ReadInput, Client!Loop, ClientSide!Loop, Client!MayAttempt,
         ClientSide!MayAttempt, Client!MaxRetries, ClientSide!MaxRetries, Client!Delay,
         ClientSide!Delay, Client!Post, ClientSide!Post, Client!PostFails,
         ClientSide!PostFails, Client!HandshakeFails, ClientSide!HandshakeFails,
         Client!Became, ClientSide!Became, Client!AttemptFails, ClientSide!AttemptFails,
         Client!AttemptEnds, ClientSide!AttemptEnds, Client!HasTimeout,
         ClientSide!HasTimeout, Client!CreateTemp, ClientSide!CreateTemp,
         Client!WriteTemp, ClientSide!WriteTemp, Client!RemoveTemp, ClientSide!RemoveTemp,
         Client!Absent, ClientSide!Absent, Client!ChmodTemp, ClientSide!ChmodTemp,
         Client!OutputMode, ClientSide!OutputMode, Client!RenameTemp,
         ClientSide!RenameTemp, Client!MoreFiles, ClientSide!MoreFiles
<1>3. Client!Answers <=> ClientSide!Answers
  BY DEF Client!Answers, ClientSide!Answers, Client!AnswerComplete,
         ClientSide!AnswerComplete, Client!TakeFile, ClientSide!TakeFile,
         Client!AnswerCutShort, ClientSide!AnswerCutShort, Client!AnswerRefused,
         ClientSide!AnswerRefused, Client!GatewayFails, ClientSide!GatewayFails,
         Client!AttemptFails, ClientSide!AttemptFails, Client!Became, ClientSide!Became,
         Client!Request, ClientSide!Request
<1>4. Client!Next <=> ClientSide!Next
  BY <1>2, <1>3
  DEF Client!Next, ClientSide!Next, Client!Settle, ClientSide!Settle, Client!Interrupt,
      ClientSide!Interrupt, Client!Die, ClientSide!Die, Client!Files, ClientSide!Files,
      Client!Attempts, ClientSide!Attempts
<1>5. UNCHANGED Client!vars <=> UNCHANGED ClientSide!vars
  BY DEF Client!vars, ClientSide!vars
<1> QED
  BY <1>1, <1>4, <1>5

LEMMA SameDaemon ==
  /\ Daemon!Init <=> DaemonSide!Init
  /\ Daemon!ProcessStep <=> DaemonSide!ProcessStep
  /\ \A s \in Seats :
       /\ Daemon!SignArrive(s) <=> DaemonSide!SignArrive(s)
       /\ Daemon!SignHandler(s) <=> DaemonSide!SignHandler(s)
       /\ Daemon!SignSucceeds(s) <=> DaemonSide!SignSucceeds(s)
       /\ Daemon!SignFails(s) <=> DaemonSide!SignFails(s)
       /\ Daemon!SignCancelled(s) <=> DaemonSide!SignCancelled(s)
<1> USE DEF Daemon!Seats, DaemonSide!Seats, Daemon!NoRequest, DaemonSide!NoRequest,
            Daemon!NoVerdict, DaemonSide!NoVerdict, Daemon!EmptyCache,
            DaemonSide!EmptyCache, Daemon!CacheLimit, DaemonSide!CacheLimit,
            Daemon!requestVars, DaemonSide!requestVars, Daemon!healthVars,
            DaemonSide!healthVars, Daemon!daemonVars, DaemonSide!daemonVars,
            Daemon!Goto, DaemonSide!Goto, Daemon!Release, DaemonSide!Release,
            Daemon!Fail, DaemonSide!Fail, Daemon!Expired, DaemonSide!Expired
<1>1. Daemon!Init <=> DaemonSide!Init
  BY DEF Daemon!Init, DaemonSide!Init
<1>2. Daemon!ProcessStep <=> DaemonSide!ProcessStep
  BY DEF Daemon!ProcessStep, DaemonSide!ProcessStep, Daemon!Signal, DaemonSide!Signal,
         Daemon!Drained, DaemonSide!Drained, Daemon!Abort, DaemonSide!Abort,
         Daemon!EndProcess, DaemonSide!EndProcess, Daemon!Restart, DaemonSide!Restart
<1>3. ASSUME NEW s \in Seats PROVE Daemon!SignHandler(s) <=> DaemonSide!SignHandler(s)
  BY DEF Daemon!SignHandler, DaemonSide!SignHandler, Daemon!Authenticate,
         DaemonSide!Authenticate, Daemon!SkipsOIDC, DaemonSide!SkipsOIDC, Daemon!Finish,
         DaemonSide!Finish, Daemon!Admit, DaemonSide!Admit, Daemon!HasRoom,
         DaemonSide!HasRoom, Daemon!Cardinality, DaemonSide!Cardinality,
         Daemon!MakeDir, DaemonSide!MakeDir, Daemon!ReadBody, DaemonSide!ReadBody,
         Daemon!Acquire, DaemonSide!Acquire, Daemon!CancelSignWait,
         DaemonSide!CancelSignWait, Daemon!StartSign, DaemonSide!StartSign,
         Daemon!SendSigned, DaemonSide!SendSigned, Daemon!RemoveDir,
         DaemonSide!RemoveDir, Daemon!Leave, DaemonSide!Leave
<1>4. ASSUME NEW s \in Seats
      PROVE  /\ Daemon!SignArrive(s) <=> DaemonSide!SignArrive(s)
             /\ Daemon!SignSucceeds(s) <=> DaemonSide!SignSucceeds(s)
             /\ Daemon!SignFails(s) <=> DaemonSide!SignFails(s)
             /\ Daemon!SignCancelled(s) <=> DaemonSide!SignCancelled(s)
  BY DEF Daemon!SignArrive, DaemonSide!SignArrive, Daemon!Peers, DaemonSide!Peers,
         Daemon!Bearers, DaemonSide!Bearers, Daemon!SignSucceeds,
         DaemonSide!SignSucceeds, Daemon!SignFails, DaemonSide!SignFails,
         Daemon!SignCancelled, DaemonSide!SignCancelled
<1> QED
  BY <1>1, <1>2, <1>3, <1>4

\* What the proofs about either end assume of its constants.
LEMMA ClientAssumes == ClientSide!ClientAssumption
BY TransferAssumption DEF ClientSide!ClientAssumption

LEMMA FiniteSeats == IsFiniteSet(Seats)
<1>1. IsFiniteSet(Files) /\ IsFiniteSet(Client!Attempts)
  BY TransferAssumption, FS_Interval DEF Files, Client!Files, Client!Attempts
<1> QED
  BY <1>1, FS_Product DEF Seats

LEMMA DaemonAssumes == DaemonSide!SeatsAssumption /\ DaemonSide!ConfigAssumption
<1>1. DaemonSide!IsFiniteSet(Seats)
  BY FiniteSeats DEF IsFiniteSet, DaemonSide!IsFiniteSet
<1> QED
  BY <1>1, TransferAssumption DEF DaemonSide!SeatsAssumption, DaemonSide!ConfigAssumption

-----------------------------------------------------------------------------
(* The daemon: with any client and any network it is Signerd.              *)

LEMMA DaemonSteps == [Next]_vars => [DaemonSide!Next]_(DaemonSide!vars)
<1> SUFFICES ASSUME [Next]_vars
             PROVE  DaemonSide!Next \/ UNCHANGED DaemonSide!vars
  OBVIOUS
<1>1. ASSUME NEW s \in Seats, Arrive(s) \/ Handle(s) \/ Sign(s)
      PROVE  DaemonSide!SignStep(s)
  BY <1>1, SameDaemon DEF Arrive, Handle, Sign, DaemonSide!SignStep
<1>2. CASE DaemonProcess
  BY <1>2, SameDaemon DEF DaemonProcess, DaemonSide!Next
<1>3. \/ ClientAlone \/ Post \/ Receive \/ (\E s \in Seats : Lose(s)) \/ UNCHANGED vars
      => UNCHANGED DaemonSide!vars
  BY DEF ClientAlone, Post, Receive, ReceiveFile, ReceivePart, ReceiveBusy, ReceiveRefusal,
         NoAnswer, ProxyRefuses, Lose, vars, daemonVars,
         DaemonSide!vars
<1> QED
  BY <1>1, <1>2, <1>3 DEF Next, DaemonSide!Next

LEMMA DaemonRuns == Spec => DaemonSide!Spec
<1>1. Init => DaemonSide!Init
  BY SameDaemon DEF Init
<1> QED
  BY <1>1, DaemonSteps, PTL DEF Spec, DaemonSide!Spec

\* What the daemon guarantees by itself.
DaemonInv == DaemonSide!TypeOK /\ DaemonSide!CallerInv

LEMMA DaemonInvariant == Spec => []DaemonInv
<1>1. DaemonSide!Spec => []DaemonSide!TypeOK
  BY DaemonAssumes, DaemonSide!TypeCorrect
  DEF DaemonSide!SeatsAssumption, DaemonSide!ConfigAssumption
<1>2. DaemonSide!Spec => []DaemonSide!CallerInv
  BY DaemonAssumes, DaemonSide!CallerInvariant
  DEF DaemonSide!SeatsAssumption, DaemonSide!ConfigAssumption
<1> QED
  BY <1>1, <1>2, DaemonRuns, PTL DEF DaemonInv

-----------------------------------------------------------------------------
(* What a step of the daemon does to the seats.                            *)

LEMMA ArriveEffect ==
  ASSUME DaemonInv, NEW s \in Seats, Arrive(s)
  PROVE  /\ handler[s] = "idle" /\ handler'[s] # "idle" /\ signing[s] # "done"
         /\ signing' = signing
         /\ \A t \in Seats \ {s} : handler'[t] = handler[t]
BY DEF Arrive, Daemon!SignArrive, Daemon!Goto, DaemonInv, DaemonSide!TypeOK,
       DaemonSide!Seats, DaemonSide!CallerInv, DaemonSide!BeforeSigning

LEMMA OthersUntouched ==
  ASSUME DaemonInv, NEW s \in Seats, Handle(s) \/ Sign(s), NEW t \in Seats \ {s}
  PROVE  UNCHANGED <<handler[t], signing[t]>>
<1>1. DaemonSide!SignStep(s)
  BY SameDaemon DEF Handle, Sign, DaemonSide!SignStep
<1> QED
  BY <1>1, DaemonAssumes, DaemonSide!OtherSeats
  DEF DaemonInv, DaemonSide!SeatsAssumption, DaemonSide!ConfigAssumption

LEMMA HandleEffect ==
  ASSUME DaemonInv, NEW s \in Seats, Handle(s)
  PROVE  /\ handler[s] # "idle"
         /\ handler'[s] = "idle" <=> handler[s] = "leaving"
         /\ handler'[s] # "idle" => (signing'[s] = "done" <=> signing[s] = "done")
         /\ reply'[s] = "200" => signing[s] = "done"
<1>1. DaemonSide!SignHandler(s) \/ DaemonSide!SignFails(s) \/ DaemonSide!SignCancelled(s)
  BY SameDaemon DEF Handle
<1> QED
  BY <1>1, DaemonAssumes, DaemonSide!OwnSeat
  DEF DaemonInv, DaemonSide!SeatsAssumption, DaemonSide!ConfigAssumption

LEMMA SignEffect ==
  ASSUME DaemonInv, NEW s \in Seats, Sign(s)
  PROVE  /\ handler[s] # "idle" /\ handler'[s] # "idle"
         /\ signing[s] # "done" /\ signing'[s] = "done"
BY DEF Sign, Daemon!SignSucceeds, Daemon!Goto, DaemonInv, DaemonSide!TypeOK,
       DaemonSide!Seats, DaemonSide!CallerInv

LEMMA ProcessEffect ==
  ASSUME DaemonProcess
  PROVE  (\A s \in Seats : handler'[s] = "idle") \/ UNCHANGED <<handler, signing>>
BY DEF DaemonProcess, Daemon!ProcessStep, Daemon!Signal, Daemon!Drained, Daemon!Abort,
       Daemon!EndProcess, Daemon!Restart, Daemon!requestVars, Daemon!Seats

-----------------------------------------------------------------------------
(* The client, as far as its own proofs go.                                *)

ClientInv ==
  /\ ClientSide!TypeOK /\ ClientSide!LoopInv /\ ClientSide!RequestInv
  /\ ClientSide!UnusedInv /\ ClientSide!SignedInv

LEMMA ClientInit == Client!Init => ClientInv
<1> USE ClientAssumes DEF ClientSide!ClientAssumption
<1> SUFFICES ASSUME ClientSide!Init PROVE ClientInv
  BY SameClient
<1>1. ClientSide!TypeOK /\ ClientSide!LoopInv
  BY ClientSide!InitTypes
<1>2. ClientSide!RequestInv
  BY DEF ClientSide!Init, ClientSide!RequestInv, ClientSide!Files, ClientSide!Attempts
<1>3. ClientSide!UnusedInv /\ ClientSide!SignedInv
  BY ClientSide!SignedInit
<1> QED
  BY <1>1, <1>2, <1>3 DEF ClientInv

LEMMA ClientStep ==
  ASSUME ClientInv, [Client!Next]_(Client!vars)
  PROVE  /\ ClientInv'
         /\ ClientSide!RequestMoves
         /\ \A f \in Files : ClientSide!Over(f) =>
              /\ ClientSide!Over(f)'
              /\ \A a \in Client!Attempts :
                   requests[f][a] = "unsent" => requests'[f][a] = "unsent"
<1> USE ClientAssumes DEF ClientSide!ClientAssumption, ClientInv
<1>0. [ClientSide!Next]_(ClientSide!vars)
  BY SameClient
<1>1. ClientSide!TypeOK' /\ ClientSide!LoopInv'
  BY <1>0, ClientSide!TypeStep
<1>2. ClientSide!RequestInv'
  BY <1>0, ClientSide!RequestStep
<1>3. ClientSide!UnusedInv'
  BY <1>0, ClientSide!UnusedStep
<1>4. ClientSide!SignedInv'
  BY <1>0, ClientSide!SignedStep
<1>5. ClientSide!RequestMoves
  BY <1>0, ClientSide!RequestsMove
<1>6. ASSUME NEW f \in Files, ClientSide!Over(f)
      PROVE  /\ ClientSide!Over(f)'
             /\ \A a \in Client!Attempts :
                  requests[f][a] = "unsent" => requests'[f][a] = "unsent"
  BY <1>0, <1>6, ClientSide!OverStays
  DEF Files, Client!Files, ClientSide!Files, Client!Attempts, ClientSide!Attempts
<1> QED
  BY <1>1, <1>2, <1>3, <1>4, <1>5, <1>6

-----------------------------------------------------------------------------
(* The connections: where a request is, what has become of it, and what    *)
(* the client can read of its answer, agree.                               *)

\* What has become of the request in a seat, as the client's model has it.
Fate(s) == requests[s[1]][s[2]]

WireTypes ==
  /\ sent \subseteq Seats
  /\ answers \in [Seats -> Daemon!Replies]
  /\ answered \subseteq Seats

Refusals == {"400", "401", "413", "415"}

\* A request is not sent yet, on its way, with the daemon, or over; with the
\* daemon it is signed when the backend says so; a signed file, also half of one,
\* comes after that and a refusal of the daemon's instead of it; and only a
\* complete file can be read before the handler is done.
Wire(s) ==
  /\ Fate(s) = "unsent" =>
       s \notin sent /\ handler[s] = "idle" /\ answers[s] = "none" /\ s \notin answered
  /\ s \in sent => Fate(s) = "abroad" /\ handler[s] = "idle" /\ answers[s] = "none"
  /\ handler[s] # "idle" =>
       Fate(s) = IF signing[s] = "done" THEN "signed" ELSE "abroad"
  /\ answers[s] \in {"200", "cut"} => Fate(s) = "signed"
  /\ answers[s] \in Refusals \cup {"503"} => Fate(s) # "signed"
  /\ answers[s] \notin {"none", "200"} => handler[s] = "idle"

WireInv == WireTypes /\ \A s \in Seats : Wire(s)

\* A seat is one file and one attempt.
LEMMA SeatType ==
  ASSUME ClientInv
  PROVE  /\ Current \in Seats /\ Current[1] = file /\ Current[2] = attempt
         /\ file \in Files /\ attempt \in Client!Attempts
BY DEF ClientInv, ClientSide!TypeOK, ClientSide!Files, ClientSide!Attempts, Current,
       Seats, Files, Client!Files, Client!Attempts

\* Deciding on one request leaves the others alone.
LEMMA FateChanges ==
  ASSUME ClientInv, NEW s \in Seats, NEW what,
         requests' = [requests EXCEPT ![s[1]][s[2]] = what]
  PROVE  /\ Fate(s)' = what
         /\ \A t \in Seats \ {s} : Fate(t)' = Fate(t)
<1>1. requests \in [Files -> [Client!Attempts -> {"unsent", "abroad", "signed", "dead"}]]
  BY DEF ClientInv, ClientSide!TypeOK, ClientSide!Files, ClientSide!Attempts, Files,
         Client!Files, Client!Attempts
<1>2. \A t \in Seats : t[1] \in Files /\ t[2] \in Client!Attempts /\ t = <<t[1], t[2]>>
  BY DEF Seats
<1>3. ASSUME NEW t \in Seats \ {s} PROVE Fate(t)' = Fate(t)
  <2>1. t[1] # s[1] \/ t[2] # s[2]
    BY <1>2
  <2> QED
    BY <1>1, <1>2, <2>1 DEF Fate
<1>4. Fate(s)' = what
  BY <1>1, <1>2 DEF Fate
<1> QED
  BY <1>3, <1>4

LEMMA CurrentChanges ==
  ASSUME ClientInv, NEW what, Client!Became(what)
  PROVE  \E s \in Seats : /\ s = Current /\ Fate(s)' = what
                          /\ \A t \in Seats \ {s} : Fate(t)' = Fate(t)
<1>1. PICK s \in Seats : s = Current /\ s[1] = file /\ s[2] = attempt
  BY SeatType
<1>2. requests' = [requests EXCEPT ![s[1]][s[2]] = what]
  BY <1>1 DEF Client!Became
<1> QED
  BY <1>1, <1>2, FateChanges

\* The request about to be posted was never sent before.
LEMMA PostsFirstTime ==
  ASSUME ClientInv, pc = "post"
  PROVE  Fate(Current) = "unsent"
<1>1. file \in ClientSide!Files /\ attempt \in ClientSide!Attempts
  BY DEF ClientInv, ClientSide!TypeOK
<1>2. requests[file][attempt] = "unsent"
  BY <1>1 DEF ClientInv, ClientSide!UnusedInv, ClientSide!Unused
<1> QED
  BY <1>2, SeatType DEF Fate

\* Every step of the two together is one that SignClient knows of: the daemon
\* and the connections settle a request, or do nothing that concerns it.
LEMMA ClientSteps ==
  ASSUME ClientInv, DaemonInv, WireInv, [Next]_vars
  PROVE  [Client!Next]_(Client!vars)
<1>c. PICK c \in Seats : c = Current /\ c[1] = file /\ c[2] = attempt
  BY SeatType
<1>w. \A s \in Seats : Wire(s)
  BY DEF WireInv
<1>1. CASE ClientAlone
  BY <1>1 DEF ClientAlone, Client!Next, Client!ClientSteps, Client!Answers
<1>2. CASE Post
  BY <1>2 DEF Post, Client!Next, Client!ClientSteps
<1>3. CASE ReceiveFile
  <2>1. Client!Request = "signed"
    BY <1>3, <1>c, <1>w DEF ReceiveFile, Wire, Fate, Client!Request
  <2> QED
    BY <1>3, <2>1 DEF ReceiveFile, Client!Next, Client!Answers, Client!AnswerComplete
<1>4. CASE ReceivePart \/ ReceiveBusy \/ ReceiveRefusal \/ NoAnswer \/ ProxyRefuses
  BY <1>4 DEF ReceivePart, ReceiveBusy, ReceiveRefusal, NoAnswer, ProxyRefuses,
              Client!Next, Client!Answers
<1>5. ASSUME NEW s \in Seats, NEW what \in {"signed", "dead"}, Fate(s) = "abroad",
             requests' = [requests EXCEPT ![s[1]][s[2]] = what], UNCHANGED clientVars
      PROVE  Client!Next
  <2>1. s[1] \in Client!Files /\ s[2] \in Client!Attempts
    BY DEF Seats, Files
  <2>2. Client!Settle(s[1], s[2])
    BY <1>5 DEF Client!Settle, Fate, clientVars, Client!loopVars, Client!diskVars
  <2> QED
    BY <2>1, <2>2 DEF Client!Next
<1>6. ASSUME NEW s \in Seats, Lose(s) PROVE Client!Next
  BY <1>5, <1>6, <1>w DEF Lose, Wire
<1>7. ASSUME NEW s \in Seats, Sign(s) PROVE Client!Next
  <2>1. Fate(s) = "abroad"
    BY <1>7, <1>w, SignEffect DEF Wire
  <2> QED
    BY <1>5, <1>7, <2>1 DEF Sign
<1>8. DaemonProcess \/ (\E s \in Seats : Arrive(s) \/ Handle(s)) \/ UNCHANGED vars
      => UNCHANGED Client!vars
  BY DEF DaemonProcess, Arrive, Handle, vars, clientVars, Client!vars
<1> QED
  BY <1>1, <1>2, <1>3, <1>4, <1>6, <1>7, <1>8 DEF Next, Receive

LEMMA WireInit == Init => WireInv
BY DEF Init, Client!Init, Daemon!Init, Daemon!Seats, Daemon!Replies, WireInv, WireTypes, Wire,
       Fate, Seats, Files, Client!Files, Client!Attempts, Refusals

\* A seat that nothing happens to.
LEMMA SeatUntouched ==
  ASSUME NEW s \in Seats, Wire(s), UNCHANGED <<Fate(s), handler[s], signing[s], answers[s]>>,
         s \in sent' <=> s \in sent,
         s \in answered' => s \in answered \/ Fate(s) # "unsent"
  PROVE  Wire(s)'
BY DEF Wire

\* The client's own steps.
LEMMA WireClient ==
  ASSUME ClientInv, WireInv, ClientAlone \/ Post \/ Receive
  PROVE  WireInv'
<1>w. WireTypes /\ \A s \in Seats : Wire(s)
  BY DEF WireInv
<1>c. PICK c \in Seats : c = Current
  BY SeatType
<1>u. UNCHANGED <<handler, signing, answers>>
  BY DEF ClientAlone, Post, Receive, ReceiveFile, ReceivePart, ReceiveBusy, ReceiveRefusal,
         NoAnswer, ProxyRefuses, daemonVars, wireVars
<1>t. WireTypes'
  BY <1>w, <1>c, <1>u
  DEF WireTypes, ClientAlone, Post, Receive, ReceiveFile, ReceivePart, ReceiveBusy,
      ReceiveRefusal, NoAnswer, ProxyRefuses, wireVars, ghosts
\* Nothing is decided about a request.
<1>n. ASSUME UNCHANGED <<requests, sent>>,
             \/ answered' = answered
             \/ answered' = answered \cup {c} /\ Fate(c) # "unsent"
      PROVE  WireInv'
  <2>1. ASSUME NEW s \in Seats PROVE Wire(s)'
    BY <1>n, <1>u, <1>w, SeatUntouched DEF Fate
  <2> QED
    BY <1>t, <2>1 DEF WireInv
\* The current request is decided, the others are left alone.
<1>d. ASSUME NEW what, Client!Became(what), sent' \ {c} = sent \ {c},
             answered' \ {c} = answered \ {c}, Wire(c)'
      PROVE  WireInv'
  <2>1. ASSUME NEW s \in Seats \ {c} PROVE Wire(s)'
    <3>1. Fate(s)' = Fate(s)
      BY <1>d, <1>c, CurrentChanges
    <3> QED
      BY <1>d, <1>u, <1>w, <3>1, SeatUntouched
  <2> QED
    BY <1>d, <1>t, <2>1 DEF WireInv
<1>f. ASSUME NEW what, Client!Became(what) PROVE Fate(c)' = what
  BY <1>c, <1>f, CurrentChanges
<1>1. CASE ClientAlone
  <2>1. CASE Client!PostFails \/ Client!HandshakeFails
    <3>1. Client!Became("dead") /\ pc = "post" /\ UNCHANGED <<sent, answered>>
      BY <1>1, <2>1 DEF Client!PostFails, Client!HandshakeFails, ClientAlone, wireVars, ghosts
    <3>2. Wire(c)'
      BY <1>c, <1>f, <1>u, <1>w, <3>1, PostsFirstTime DEF Wire, Refusals
    <3> QED
      BY <1>d, <3>1, <3>2
  <2>2. CASE UNCHANGED requests
    BY <1>1, <1>n, <2>2 DEF ClientAlone, wireVars, ghosts
  <2>3. \/ Client!ReadInput \/ Client!Loop \/ Client!Delay \/ Client!AttemptEnds
        \/ Client!CreateTemp \/ Client!WriteTemp \/ Client!ChmodTemp \/ Client!RenameTemp
        \/ Client!Interrupt \/ Client!Die
        => UNCHANGED requests
    BY DEF Client!ReadInput, Client!Loop, Client!Delay, Client!AttemptEnds,
           Client!CreateTemp, Client!WriteTemp, Client!ChmodTemp, Client!RenameTemp,
           Client!Interrupt, Client!Die
  <2> QED
    BY <1>1, <2>1, <2>2, <2>3 DEF ClientAlone
<1>2. CASE Post
  <2>1. Client!Became("abroad") /\ pc = "post"
        /\ sent' = sent \cup {c} /\ UNCHANGED answered
    BY <1>2, <1>c DEF Post, Client!Post, ghosts
  <2>2. Wire(c)'
    BY <1>c, <1>f, <1>u, <1>w, <2>1, PostsFirstTime DEF Wire, Refusals
  <2> QED
    BY <1>d, <2>1, <2>2
<1>3. CASE ReceiveFile \/ ReceivePart \/ ReceiveBusy \/ NoAnswer
  <2>1. UNCHANGED <<requests, sent>>
    BY <1>3 DEF ReceiveFile, ReceivePart, ReceiveBusy, NoAnswer, Client!TakeFile,
                Client!AnswerCutShort, Client!GatewayFails, wireVars
  <2>2. \/ answered' = answered
        \/ answered' = answered \cup {c} /\ answers[c] # "none"
    BY <1>3, <1>c DEF ReceiveFile, ReceivePart, ReceiveBusy, NoAnswer, ghosts
  <2> QED
    BY <1>n, <1>w, <2>1, <2>2 DEF Wire
<1>4. CASE ReceiveRefusal \/ ProxyRefuses
  <2>1. Client!Became(IF Client!Request = "abroad" THEN "dead" ELSE Client!Request)
    BY <1>4 DEF ReceiveRefusal, ProxyRefuses, Client!AnswerRefused
  <2>2. Client!Request = Fate(c)
    BY <1>c, SeatType DEF Client!Request, Fate
  <2>3. Fate(c)' = IF Fate(c) = "abroad" THEN "dead" ELSE Fate(c)
    BY <1>f, <2>1, <2>2
  <2>4. CASE ReceiveRefusal
    <3>1. /\ answers[c] \notin {"none", "200"}
          /\ answered' = answered \cup {c} /\ UNCHANGED sent
      BY <1>c, <2>4 DEF ReceiveRefusal, wireVars
    <3>2. Wire(c)'
      BY <1>u, <1>w, <2>3, <3>1 DEF Wire, Refusals
    <3> QED
      BY <1>d, <2>1, <3>1, <3>2
  <2>5. CASE ProxyRefuses
    <3>1. c \in sent /\ sent' = sent \ {c} /\ UNCHANGED answered
      BY <1>c, <2>5 DEF ProxyRefuses, ghosts
    <3>2. Wire(c)'
      BY <1>u, <1>w, <2>3, <3>1 DEF Wire, Refusals
    <3> QED
      BY <1>d, <2>1, <3>1, <3>2
  <2> QED
    BY <1>4, <2>4, <2>5
<1> QED
  BY <1>1, <1>2, <1>3, <1>4 DEF Receive

\* The connections and the daemon.
LEMMA WireService ==
  ASSUME ClientInv, DaemonInv, DaemonInv', WireInv,
         DaemonProcess \/ \E s \in Seats : Lose(s) \/ Arrive(s) \/ Handle(s) \/ Sign(s)
  PROVE  WireInv'
<1>w. WireTypes /\ \A s \in Seats : Wire(s)
  BY DEF WireInv
\* What happens to one seat happens to no other.
<1>o. ASSUME NEW s \in Seats, Wire(s)', WireTypes', UNCHANGED answered,
             \A t \in Seats \ {s} :
               /\ UNCHANGED <<Fate(t), handler[t], signing[t], answers[t]>>
               /\ t \in sent' <=> t \in sent
      PROVE  WireInv'
  BY <1>o, <1>w, SeatUntouched DEF WireInv
<1>1. ASSUME NEW s \in Seats, Lose(s) PROVE WireInv'
  <2>1. /\ s \in sent /\ sent' = sent \ {s}
        /\ UNCHANGED <<handler, signing, answers, answered>>
    BY <1>1 DEF Lose, daemonVars, ghosts
  <2>2. Fate(s)' = "dead" /\ \A t \in Seats \ {s} : Fate(t)' = Fate(t)
    BY <1>1, FateChanges DEF Lose
  <2>3. Wire(s)' /\ WireTypes'
    BY <1>w, <2>1, <2>2 DEF Wire, WireTypes, Refusals
  <2> QED
    BY <1>o, <2>1, <2>2, <2>3
<1>2. ASSUME NEW s \in Seats, Arrive(s) PROVE WireInv'
  <2>1. /\ s \in sent /\ sent' = sent \ {s}
        /\ UNCHANGED <<requests, answers, answered>>
    BY <1>2 DEF Arrive, ghosts
  <2>2. Wire(s)' /\ WireTypes'
    BY <1>2, <1>w, <2>1, ArriveEffect DEF Wire, WireTypes, Fate, Refusals
  <2> QED
    BY <1>2, <1>o, <2>1, <2>2, ArriveEffect DEF Fate
<1>3. ASSUME NEW s \in Seats, Handle(s) PROVE WireInv'
  <2>1. /\ UNCHANGED <<requests, sent, answered>>
        /\ answers' = [answers EXCEPT ![s] = Visible(s)]
    BY <1>3 DEF Handle, ghosts
  <2>2. handler[s] # "idle" /\ s \notin sent /\ Fate(s) # "unsent"
        /\ answers[s] \in {"none", "200"}
    BY <1>3, <1>w, HandleEffect DEF Wire
  <2>3. Fate(s) = "signed" <=> signing[s] = "done"
    BY <1>w, <2>2 DEF Wire
  <2>4. reply[s] \in Daemon!Replies /\ reply'[s] \in Daemon!Replies
    BY DEF DaemonInv, DaemonSide!TypeOK, DaemonSide!Seats, DaemonSide!Replies, Daemon!Replies
  <2>5. /\ reply[s] \in Refusals \cup {"503"} => signing[s] = "no"
        /\ reply[s] \in {"200", "cut"} => signing[s] = "done"
    BY DEF DaemonInv, DaemonSide!CallerInv, Refusals
  <2>6. WireTypes' /\ answers'[s] = Visible(s)
    BY <1>w, <2>1, <2>2, <2>4 DEF WireTypes, Visible, Daemon!Replies
  <2>7. Wire(s)'
    BY <1>3, <1>w, <2>1, <2>2, <2>3, <2>5, <2>6, HandleEffect DEF Wire, Visible, Fate, Refusals
  <2> QED
    BY <1>3, <1>o, <1>w, <2>1, <2>6, <2>7, OthersUntouched DEF Fate, WireTypes
<1>4. ASSUME NEW s \in Seats, Sign(s) PROVE WireInv'
  <2>1. UNCHANGED <<sent, answers, answered>>
    BY <1>4 DEF Sign, wireVars
  <2>2. Fate(s)' = "signed" /\ \A t \in Seats \ {s} : Fate(t)' = Fate(t)
    BY <1>4, FateChanges DEF Sign
  <2>3. Wire(s)' /\ WireTypes'
    BY <1>4, <1>w, <2>1, <2>2, SignEffect DEF Wire, WireTypes, Refusals
  <2> QED
    BY <1>4, <1>o, <2>1, <2>2, <2>3, OthersUntouched
<1>5. CASE DaemonProcess
  <2>1. UNCHANGED <<requests, sent, answers, answered>>
    BY <1>5 DEF DaemonProcess, wireVars, ghosts
  <2>2. CASE UNCHANGED <<handler, signing>>
    BY <1>w, <2>1, <2>2, SeatUntouched DEF WireInv, WireTypes, Fate
  <2>3. CASE \A s \in Seats : handler'[s] = "idle"
    BY <1>w, <2>1, <2>3 DEF WireInv, WireTypes, Wire, Fate
  <2> QED
    BY <1>5, <2>2, <2>3, ProcessEffect
<1> QED
  BY <1>1, <1>2, <1>3, <1>4, <1>5

LEMMA WireStep ==
  ASSUME ClientInv, DaemonInv, DaemonInv', WireInv, [Next]_vars
  PROVE  WireInv'
<1>1. CASE UNCHANGED vars
  BY <1>1 DEF vars, daemonVars, wireVars, ghosts, WireInv, WireTypes, Wire, Fate
<1> QED
  BY <1>1, WireClient, WireService DEF Next

-----------------------------------------------------------------------------
(* The signatures.                                                         *)

\* Only the token signs.
LEMMA OnlySignSigns ==
  ASSUME ClientInv, WireInv, [Next]_vars,
         NEW s \in Seats, Fate(s) # "signed", Fate(s)' = "signed"
  PROVE  Sign(s)
<1>c. PICK c \in Seats : c = Current
  BY SeatType
<1>1. ASSUME NEW what, Client!Became(what), what # "signed" \/ what = Fate(c) PROVE FALSE
  BY <1>1, <1>c, CurrentChanges
<1>2. CASE Client!PostFails \/ Client!HandshakeFails \/ Client!Post
  BY <1>1, <1>2 DEF Client!PostFails, Client!HandshakeFails, Client!Post
<1>3. CASE Client!AnswerRefused
  <2>1. Client!Request = Fate(c)
    BY <1>c, SeatType DEF Client!Request, Fate
  <2> QED
    BY <1>1, <1>3, <2>1 DEF Client!AnswerRefused
<1>4. ASSUME UNCHANGED requests PROVE FALSE
  BY <1>4 DEF Fate
<1>5. CASE ClientAlone
  BY <1>2, <1>4, <1>5
  DEF ClientAlone, Client!ReadInput, Client!Loop, Client!Delay, Client!AttemptEnds,
      Client!CreateTemp, Client!WriteTemp, Client!ChmodTemp, Client!RenameTemp,
      Client!Interrupt, Client!Die
<1>6. CASE Post \/ Receive
  BY <1>2, <1>3, <1>4, <1>6
  DEF Post, Receive, ReceiveFile, ReceivePart, ReceiveBusy, ReceiveRefusal, NoAnswer,
      ProxyRefuses, Client!TakeFile, Client!AnswerCutShort, Client!GatewayFails
<1>7. ASSUME NEW t \in Seats, Lose(t) PROVE FALSE
  BY <1>7, FateChanges DEF Lose
<1>8. ~(DaemonProcess \/ (\E t \in Seats : Arrive(t) \/ Handle(t)) \/ UNCHANGED vars)
  BY <1>4 DEF DaemonProcess, Arrive, Handle, vars
<1>9. ASSUME NEW t \in Seats, Sign(t) PROVE t = s
  BY <1>9, FateChanges DEF Sign
<1> QED
  BY <1>5, <1>6, <1>7, <1>8, <1>9 DEF Next

\* The ghost counts what the token has signed for a file.
SignedAttempts(f) == {a \in Client!Attempts : requests[f][a] = "signed"}

CountInv ==
  /\ signatures \in [Files -> Nat]
  /\ \A f \in Files : signatures[f] = Cardinality(SignedAttempts(f))

LEMMA FiniteAttempts == \A f : IsFiniteSet(SignedAttempts(f))
<1>1. IsFiniteSet(Client!Attempts)
  BY TransferAssumption, FS_Interval DEF Client!Attempts
<1> QED
  BY <1>1, FS_Subset DEF SignedAttempts

LEMMA CountStep ==
  ASSUME ClientInv, DaemonInv, WireInv, CountInv, [Next]_vars
  PROVE  CountInv'
<1>s. \A f \in Files, a \in Client!Attempts : <<f, a>> \in Seats
  BY DEF Seats
\* What is signed stays so, and only Sign adds to it.
<1>m. ClientSide!RequestMoves
  BY ClientSteps, ClientStep
<1>k. \A f \in Files, a \in Client!Attempts :
        requests[f][a] = "signed" => requests'[f][a] = "signed"
  BY <1>m DEF ClientSide!RequestMoves, Files, Client!Files, ClientSide!Files,
              Client!Attempts, ClientSide!Attempts
<1>1. ASSUME NEW s \in Seats, Sign(s) PROVE CountInv'
  <2>1. Fate(s) # "signed" /\ s[1] \in Files /\ s[2] \in Client!Attempts
    BY <1>1, SignEffect DEF WireInv, Wire, Seats
  <2>2. /\ requests' = [requests EXCEPT ![s[1]][s[2]] = "signed"]
        /\ signatures' = [signatures EXCEPT ![s[1]] = @ + 1]
    BY <1>1 DEF Sign
  <2>3. requests \in [Files -> [Client!Attempts -> {"unsent", "abroad", "signed", "dead"}]]
    BY DEF ClientInv, ClientSide!TypeOK, ClientSide!Files, ClientSide!Attempts, Files,
           Client!Files, Client!Attempts
  <2>4. ASSUME NEW f \in Files
        PROVE  SignedAttempts(f)' = IF f = s[1] THEN SignedAttempts(f) \cup {s[2]}
                                                ELSE SignedAttempts(f)
    BY <2>1, <2>2, <2>3 DEF SignedAttempts
  <2>5. s[2] \notin SignedAttempts(s[1])
    BY <2>1 DEF SignedAttempts, Fate
  <2>6. Cardinality(SignedAttempts(s[1]) \cup {s[2]}) = Cardinality(SignedAttempts(s[1])) + 1
    BY <2>5, FiniteAttempts, FS_AddElement
  <2>7. signatures' \in [Files -> Nat]
    BY <2>1, <2>2 DEF CountInv
  <2>8. ASSUME NEW f \in Files PROVE signatures'[f] = Cardinality(SignedAttempts(f)')
    BY <2>1, <2>2, <2>4, <2>6 DEF CountInv
  <2> QED
    BY <2>7, <2>8 DEF CountInv
<1>2. CASE \A s \in Seats : ~Sign(s)
  <2>1. UNCHANGED signatures
    BY <1>2 DEF Next, ClientAlone, Post, Receive, ReceiveFile, ReceivePart, ReceiveBusy,
                ReceiveRefusal, NoAnswer, ProxyRefuses, Lose, Arrive, Handle,
                DaemonProcess, ghosts, vars
  <2>2. ASSUME NEW f \in Files, NEW a \in Client!Attempts
        PROVE  requests'[f][a] = "signed" <=> requests[f][a] = "signed"
    BY <1>2, <1>k, <1>s, OnlySignSigns DEF Fate
  <2>3. \A f \in Files : SignedAttempts(f)' = SignedAttempts(f)
    BY <2>2 DEF SignedAttempts
  <2> QED
    BY <2>1, <2>3 DEF CountInv
<1> QED
  BY <1>1, <1>2

-----------------------------------------------------------------------------
(* The complete answers.                                                   *)

\* An attempt that got a complete answer was signed, and then its file is over
\* and no later attempt was sent; or it was not, and then nothing can sign it
\* any more.
Final(s) ==
  s \in answered =>
    \/ /\ Fate(s) = "signed"
       /\ ClientSide!Over(s[1])
       /\ \A b \in Client!Attempts : s[2] < b => requests[s[1]][b] = "unsent"
    \/ Fate(s) # "signed" /\ s \notin sent /\ handler[s] = "idle"

FinalInv == \A s \in Seats : Final(s)

\* A request that is over stays out of the daemon.
LEMMA NeverAgain ==
  ASSUME ClientInv, DaemonInv, WireInv, [Next]_vars, NEW s \in Seats,
         Fate(s) # "unsent", s \notin sent, handler[s] = "idle"
  PROVE  s \notin sent' /\ handler'[s] = "idle"
<1>1. CASE Post
  <2>1. s # Current
    BY <1>1, PostsFirstTime DEF Post, Client!Post
  <2> QED
    BY <1>1, <2>1 DEF Post, daemonVars
<1>2. CASE ClientAlone \/ Receive
  BY <1>2 DEF ClientAlone, Receive, ReceiveFile, ReceivePart, ReceiveBusy, ReceiveRefusal,
              NoAnswer, ProxyRefuses, daemonVars, wireVars
<1>3. ASSUME NEW t \in Seats, Lose(t) PROVE s \notin sent' /\ handler'[s] = "idle"
  BY <1>3 DEF Lose, daemonVars
<1>4. ASSUME NEW t \in Seats, Arrive(t) PROVE s \notin sent' /\ handler'[s] = "idle"
  BY <1>4, ArriveEffect DEF Arrive
<1>5. ASSUME NEW t \in Seats, Handle(t) \/ Sign(t)
      PROVE  s \notin sent' /\ handler'[s] = "idle"
  <2>1. s # t
    BY <1>5, HandleEffect, SignEffect
  <2> QED
    BY <1>5, <2>1, OthersUntouched DEF Handle, Sign, wireVars
<1>6. CASE DaemonProcess
  BY <1>6, ProcessEffect DEF DaemonProcess, wireVars
<1>7. CASE UNCHANGED vars
  BY <1>7 DEF vars, daemonVars, wireVars
<1> QED
  BY <1>1, <1>2, <1>3, <1>4, <1>5, <1>6, <1>7 DEF Next

\* An answer that is complete just now.
LEMMA NewlyAnswered ==
  ASSUME ClientInv, ClientInv', WireInv, [Next]_vars,
         NEW s \in Seats, s \in answered' \ answered
  PROVE  Final(s)'
<1>w. Wire(s) /\ (s = Current => s[1] = file /\ s[2] = attempt /\ s[1] \in Files)
  BY SeatType DEF WireInv
<1>u. file \in Int /\ attempt \in Int
  BY SeatType DEF Files, Client!Files, Client!Attempts
\* Later attempts of the same file were not sent.
<1>l. ASSUME s = Current PROVE \A b \in Client!Attempts : s[2] < b => requests[s[1]][b] = "unsent"
  BY <1>l, <1>u, <1>w
  DEF ClientInv, ClientSide!UnusedInv, ClientSide!Unused, Files, Client!Files,
      ClientSide!Files, Client!Attempts, ClientSide!Attempts
<1>1. CASE ReceiveFile
  <2>1. s = Current /\ answers[s] = "200" /\ UNCHANGED <<requests, file>> /\ pc' = "create"
    BY <1>1 DEF ReceiveFile, Client!TakeFile, Client!Goto
  <2> QED
    BY <1>l, <1>w, <2>1 DEF Final, Wire, Fate, ClientSide!Over
<1>2. CASE ReceiveBusy
  <2>1. s = Current /\ answers[s] = "503" /\ UNCHANGED <<requests, sent, handler>>
    BY <1>2 DEF ReceiveBusy, Client!GatewayFails, daemonVars, wireVars
  <2> QED
    BY <1>w, <2>1 DEF Final, Wire, Fate
<1>3. CASE ReceiveRefusal
  <2>1. /\ s = Current /\ answers[s] \notin {"none", "200"}
        /\ UNCHANGED <<file, sent, handler>> /\ pc' = "exit"
        /\ requests' = [requests EXCEPT ![file][attempt] =
                          IF Client!Request = "abroad" THEN "dead" ELSE Client!Request]
    BY <1>3 DEF ReceiveRefusal, Client!AnswerRefused, Client!AttemptFails, Client!Exit,
                Client!Became, daemonVars, wireVars
  <2>2. Client!Request = Fate(s)
    BY <1>w, <2>1 DEF Client!Request, Fate
  <2>c. /\ Fate(s)' = IF Fate(s) = "abroad" THEN "dead" ELSE Fate(s)
        /\ \A t \in Seats \ {s} : Fate(t)' = Fate(t)
    <3> DEFINE what == IF Fate(s) = "abroad" THEN "dead" ELSE Fate(s)
    <3>1. requests' = [requests EXCEPT ![s[1]][s[2]] = what]
      BY <1>w, <2>1, <2>2
    <3> HIDE DEF what
    <3>2. Fate(s)' = what /\ \A t \in Seats \ {s} : Fate(t)' = Fate(t)
      BY <3>1, FateChanges
    <3> QED
      BY <3>2 DEF what
  <2>3. CASE Fate(s) = "signed"
    <3>1. /\ Fate(s)' = "signed"
          /\ \A t \in Seats \ {s} : Fate(t)' = Fate(t)
      BY <2>3, <2>c
    <3>2. \A b \in Client!Attempts : s[2] < b => requests'[s[1]][b] = "unsent"
      <4> SUFFICES ASSUME NEW b \in Client!Attempts, s[2] < b
                   PROVE  requests'[s[1]][b] = "unsent"
        OBVIOUS
      <4>1. b # s[2]
        BY <1>u, <1>w, <2>1
      <4>2. <<s[1], b>> \in Seats \ {s}
        BY <1>w, <2>1, <4>1 DEF Seats
      <4>3. requests'[s[1]][b] = requests[s[1]][b]
        BY <3>1, <4>2 DEF Fate
      <4> QED
        BY <1>l, <2>1, <4>3
    <3> QED
      BY <1>w, <2>1, <3>1, <3>2 DEF Final, ClientSide!Over
  <2>4. CASE Fate(s) # "signed"
    <3>1. Fate(s)' # "signed"
      BY <2>4, <2>c
    <3> QED
      BY <1>w, <2>1, <3>1 DEF Final, Wire
  <2> QED
    BY <2>3, <2>4
<1>4. ClientAlone \/ Post \/ ReceivePart \/ NoAnswer \/ ProxyRefuses \/ DaemonProcess
      \/ (\E t \in Seats : Lose(t) \/ Arrive(t) \/ Handle(t) \/ Sign(t)) \/ UNCHANGED vars
      => UNCHANGED answered
  BY DEF ClientAlone, Post, ReceivePart, NoAnswer, ProxyRefuses, DaemonProcess, Lose,
         Arrive, Handle, Sign, ghosts, vars
<1> QED
  BY <1>1, <1>2, <1>3, <1>4 DEF Next, Receive

LEMMA FinalStep ==
  ASSUME ClientInv, DaemonInv, WireInv, FinalInv, [Next]_vars
  PROVE  FinalInv'
<1>0. [Client!Next]_(Client!vars)
  BY ClientSteps
<1> SUFFICES ASSUME NEW s \in Seats, s \in answered' PROVE Final(s)'
  BY DEF FinalInv, Final
<1>s. s[1] \in Files /\ s[2] \in Client!Attempts
  BY DEF Seats
<1>1. CASE s \notin answered
  BY <1>0, <1>1, ClientStep, NewlyAnswered
<1>2. CASE s \in answered
  <2>0. Final(s) /\ Fate(s) # "unsent"
    BY <1>2 DEF FinalInv, WireInv, Wire
  <2>1. CASE Fate(s) = "signed"
    <3>1. /\ ClientSide!Over(s[1])
          /\ \A b \in Client!Attempts : s[2] < b => requests[s[1]][b] = "unsent"
      BY <1>2, <2>0, <2>1 DEF Final
    <3>2. /\ ClientSide!Over(s[1])'
          /\ \A b \in Client!Attempts : s[2] < b => requests'[s[1]][b] = "unsent"
      BY <1>0, <1>s, <3>1, ClientStep
    <3>3. Fate(s)' = "signed"
      <4>1. ClientSide!RequestMoves
        BY <1>0, ClientStep
      <4> QED
        BY <1>s, <2>1, <4>1 DEF ClientSide!RequestMoves, Fate, Files, Client!Files,
           ClientSide!Files, Client!Attempts, ClientSide!Attempts
    <3> QED
      BY <3>2, <3>3 DEF Final
  <2>2. CASE Fate(s) # "signed"
    <3>1. s \notin sent /\ handler[s] = "idle"
      BY <1>2, <2>0, <2>2 DEF Final
    <3>2. s \notin sent' /\ handler'[s] = "idle"
      BY <2>0, <3>1, NeverAgain
    <3>3. Fate(s)' # "signed"
      BY <2>2, <3>1, OnlySignSigns, SignEffect
    <3> QED
      BY <3>2, <3>3 DEF Final
  <2> QED
    BY <2>1, <2>2
<1> QED
  BY <1>1, <1>2

-----------------------------------------------------------------------------
(* The theorems                                                            *)

TransferInv == ClientInv /\ WireInv /\ CountInv /\ FinalInv

LEMMA TransferInit == Init => TransferInv
<1> SUFFICES ASSUME Init PROVE TransferInv
  OBVIOUS
<1>1. ClientInv
  BY ClientInit DEF Init
<1>2. CountInv
  <2>1. ASSUME NEW f \in Files PROVE SignedAttempts(f) = {}
    BY <2>1 DEF Init, Client!Init, SignedAttempts, Files
  <2> QED
    BY <2>1, FS_EmptySet DEF Init, CountInv
<1>3. FinalInv
  BY DEF Init, FinalInv, Final
<1> QED
  BY <1>1, <1>2, <1>3, WireInit DEF TransferInv

LEMMA TransferInvariant == Spec => [](TransferInv /\ DaemonInv)
<1>1. TransferInv /\ DaemonInv /\ DaemonInv' /\ [Next]_vars => TransferInv'
  <2> SUFFICES ASSUME TransferInv, DaemonInv, DaemonInv', [Next]_vars PROVE TransferInv'
    OBVIOUS
  <2> USE DEF TransferInv
  <2>1. ClientInv'
    BY ClientSteps, ClientStep
  <2>2. WireInv'
    BY WireStep
  <2>3. CountInv' /\ FinalInv'
    BY CountStep, FinalStep
  <2> QED
    BY <2>1, <2>2, <2>3
<1> QED
  BY <1>1, TransferInit, DaemonInvariant, PTL DEF Spec

\* The daemon and the connections are a service as SignClient assumes it, for
\* every number of files, attempts and upload slots.
THEOREM ServiceIsAsAssumed == Spec => ImplementsClient
<1>1. Init => Client!Init
  BY DEF Init
<1>2. TransferInv /\ DaemonInv /\ [Next]_vars => [Client!Next]_(Client!vars)
  BY ClientSteps DEF TransferInv
<1> QED
  BY <1>1, <1>2, TransferInvariant, PTL DEF Spec, ImplementsClient, Client!Spec

\* The token signs a file at most once more than -retries says, and it has
\* signed what the command calls signed, whatever the connections lose, cut or
\* delay and however often the daemon starts again.
THEOREM TokenUsesAreBounded == Spec => []TokenUsesBounded
<1>1. TransferInv => TokenUsesBounded
  <2> SUFFICES ASSUME TransferInv, NEW f \in Files
               PROVE  /\ signatures[f] <= Client!MaxRetries + 1
                      /\ targets[f].content = "signed" => signatures[f] > 0
    BY DEF TokenUsesBounded
  <2>0. ClientInv /\ CountInv
    BY DEF TransferInv
  <2>1. signatures[f] = Cardinality(SignedAttempts(f)) /\ signatures[f] \in Nat
    BY <2>0 DEF CountInv
  <2>2. signatures[f] <= 1 + (IF job.retries < 0 THEN 0 ELSE job.retries)
    <3>1. ClientSide!SignaturesBounded
      BY <2>0, ClientAssumes, ClientSide!BoundedSignatures
      DEF ClientInv, ClientSide!ClientAssumption
    <3>2. ClientSide!Cardinality(SignedAttempts(f)) = Cardinality(SignedAttempts(f))
      BY DEF ClientSide!Cardinality, Cardinality
    <3> QED
      BY <2>1, <3>1, <3>2 DEF ClientSide!SignaturesBounded, SignedAttempts, Files,
         Client!Files, ClientSide!Files, Client!Attempts, ClientSide!Attempts
  <2>3. job.retries \in Int
    BY <2>0, TransferAssumption DEF ClientInv, ClientSide!TypeOK
  <2>4. targets[f].content = "signed" => SignedAttempts(f) # {}
    BY <2>0 DEF ClientInv, ClientSide!SignedInv, ClientSide!SomeSigned, SignedAttempts,
       Files, Client!Files, ClientSide!Files, Client!Attempts, ClientSide!Attempts
  <2>5. SignedAttempts(f) # {} => signatures[f] # 0
    BY <2>1, FiniteAttempts, FS_EmptySet
  <2> QED
    BY <2>1, <2>2, <2>3, <2>4, <2>5 DEF Client!MaxRetries
<1> QED
  BY <1>1, TransferInvariant, PTL

\* After a complete answer of the daemon to an attempt that was signed the file
\* is not posted again (replySignError, server.go:328; signOnce, client.go:353).
THEOREM AnswersAreFinal == Spec => []AnsweredIsFinal
<1>1. TransferInv => AnsweredIsFinal
  <2> SUFFICES ASSUME TransferInv, NEW f \in Files, NEW a \in Client!Attempts,
                      NEW b \in Client!Attempts, a < b, <<f, a>> \in answered,
                      requests[f][a] = "signed"
               PROVE  requests[f][b] = "unsent"
    BY DEF AnsweredIsFinal
  <2>1. PICK s \in Seats : s = <<f, a>> /\ s[1] = f /\ s[2] = a
    BY DEF Seats
  <2> QED
    BY <2>1 DEF TransferInv, FinalInv, Final, Fate
<1> QED
  BY <1>1, TransferInvariant, PTL

\* With the daemon at the other end, too, a target is at every moment what it
\* was or the complete signed file, and the exit status says which.
THEOREM CommandStaysHonest == Spec => []Client!TargetsAtomic /\ []Client!ExitIsHonest
<1>1. Spec => ClientSide!Spec
  <2>1. Init => ClientSide!Init
    BY SameClient DEF Init
  <2>2. TransferInv /\ DaemonInv /\ [Next]_vars => [ClientSide!Next]_(ClientSide!vars)
    BY ClientSteps, SameClient DEF TransferInv
  <2> QED
    BY <2>1, <2>2, TransferInvariant, PTL DEF Spec, ClientSide!Spec
<1>2. ClientSide!Spec => []ClientSide!TargetsAtomic
  BY ClientAssumes, ClientSide!TargetsAreAtomic DEF ClientSide!ClientAssumption
<1>3. ClientSide!Spec => []ClientSide!ExitIsHonest
  BY ClientAssumes, ClientSide!ExitsAreHonest DEF ClientSide!ClientAssumption
<1>4. /\ ClientSide!TargetsAtomic <=> Client!TargetsAtomic
      /\ ClientSide!ExitIsHonest <=> Client!ExitIsHonest
  BY DEF ClientSide!TargetsAtomic, Client!TargetsAtomic, ClientSide!ExitIsHonest,
         Client!ExitIsHonest, ClientSide!Signed, Client!Signed, ClientSide!Files, Client!Files
<1> QED
  BY <1>1, <1>2, <1>3, <1>4, PTL

\* With any client and any connections, too, the daemon has one backend
\* operation at a time, bounds what is on disk, and says nothing of a signature
\* that is not so (withToken, server.go:502; handleSign, server.go:301).
THEOREM DaemonStaysSafe ==
  Spec => []Daemon!TokenOwned /\ []Daemon!UploadsBounded /\ []Daemon!StatusIsHonest
<1>1. DaemonSide!Spec => []DaemonSide!TokenOwned
  BY DaemonAssumes, DaemonSide!TokenIsExclusive
  DEF DaemonSide!SeatsAssumption, DaemonSide!ConfigAssumption
<1>2. DaemonSide!Spec => []DaemonSide!UploadsBounded
  BY DaemonAssumes, DaemonSide!UploadsAreBounded
  DEF DaemonSide!SeatsAssumption, DaemonSide!ConfigAssumption
<1>3. DaemonSide!Spec => []DaemonSide!StatusIsHonest
  BY DaemonAssumes, DaemonSide!StatusesAreHonest
  DEF DaemonSide!SeatsAssumption, DaemonSide!ConfigAssumption
<1>4. /\ DaemonSide!TokenOwned <=> Daemon!TokenOwned
      /\ DaemonSide!UploadsBounded <=> Daemon!UploadsBounded
      /\ DaemonSide!StatusIsHonest <=> Daemon!StatusIsHonest
  BY DEF DaemonSide!TokenOwned, Daemon!TokenOwned, DaemonSide!Seats, Daemon!Seats,
         DaemonSide!TokenPcs, Daemon!TokenPcs, DaemonSide!UploadsBounded,
         Daemon!UploadsBounded, DaemonSide!Cardinality, Daemon!Cardinality,
         DaemonSide!StatusIsHonest, Daemon!StatusIsHonest
<1> QED
  BY <1>1, <1>2, <1>3, <1>4, DaemonRuns, PTL
=============================================================================
