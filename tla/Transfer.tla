------------------------------- MODULE Transfer ------------------------------
(***************************************************************************)
(* codesign and signerd together: SignClient posts its files to Signerd    *)
(* over a connection, perhaps a proxy, that may lose a request, cut an     *)
(* answer short, answer for the daemon, or break at any point.             *)
(*                                                                         *)
(* Every attempt of the client is a request of its own to the daemon, a    *)
(* seat of Signerd that is used once.  A client that gives an attempt up   *)
(* does not wait for its handler: the request may not even have arrived,   *)
(* and the next attempt may meet it in the daemon.                         *)
(*                                                                         *)
(* net/http sends the few bytes of an error when the handler has returned, *)
(* its defers included; a signed file is sent while it is being copied, so *)
(* its last bytes may be there before the upload slot is free again.       *)
(***************************************************************************)
EXTENDS Integers, FiniteSets

CONSTANTS
  MaxFiles, Retries, MaxAttempts,  \* of SignClient
  MaxInFlight, NoOne               \* of Signerd

VARIABLES
  \* of SignClient
  job, file, pc, status, attempt, lastErr, data, requests, refused,
  interrupted, targets, temp,
  \* of Signerd; handler is its pc
  handler, request, gone, left, reply, signing, token, uploads, dirs, cache,
  verdict, daemon, leftover,
  \* of the connections
  sent,       \* requests that have not reached the daemon yet
  answers,    \* what the daemon has answered, by request
  answered,   \* ghost: attempts that ended with a complete answer of the daemon
  signatures  \* ghost: how often the token has signed each file

clientVars == <<job, file, pc, status, attempt, lastErr, data, refused,
                interrupted, targets, temp>>
daemonVars == <<handler, request, gone, left, reply, signing, token, uploads,
                dirs, cache, verdict, daemon, leftover>>
wireVars   == <<sent, answers>>
ghosts     == <<answered, signatures>>

vars == <<clientVars, requests, daemonVars, wireVars, ghosts>>

Client == INSTANCE SignClient

Files == Client!Files
Seats == Files \X Client!Attempts

Daemon == INSTANCE Signerd
  WITH SignReqs <- Seats, HealthReqs <- {}, pc <- handler,
       HealthCacheTTL <- -1, HealthTimeout <- 1,
       AllowLoopback <- FALSE, HasVerifier <- TRUE

ASSUME TransferAssumption ==
  /\ MaxFiles \in Nat \ {0} /\ MaxAttempts \in Nat \ {0}
  /\ Retries \subseteq Int /\ \A r \in Retries : r + 1 < MaxAttempts
  /\ MaxInFlight \in Nat \ {0}
  /\ NoOne \notin Seats

\* The attempt under way.
Current == <<file, attempt>>

\* -timeout and -output make no difference here.
Init ==
  /\ Client!Init
  /\ job.timeout
  /\ job.targets = [f \in Files |-> Client!InPlace]
  /\ Daemon!Init
  /\ sent = {}
  /\ answers = [s \in Seats |-> "none"]
  /\ answered = {}
  /\ signatures = [f \in Files |-> 0]

-----------------------------------------------------------------------------
(* The client's side                                                       *)

ClientAlone ==
  /\ \/ Client!ReadInput \/ Client!Loop \/ Client!Delay
     \/ Client!PostFails \/ Client!HandshakeFails \/ Client!AttemptEnds
     \/ Client!CreateTemp \/ Client!WriteTemp \/ Client!ChmodTemp \/ Client!RenameTemp
     \/ Client!Interrupt \/ Client!Die
  /\ UNCHANGED <<daemonVars, wireVars, ghosts>>

Post ==
  /\ Client!Post
  /\ sent' = sent \cup {Current}
  /\ UNCHANGED <<daemonVars, answers, ghosts>>

ReceiveFile ==
  /\ answers[Current] = "200"
  /\ Client!TakeFile
  /\ answered' = answered \cup {Current}
  /\ UNCHANGED <<daemonVars, wireVars, signatures>>

\* The daemon stopped in the middle, or the connection broke.
ReceivePart ==
  /\ answers[Current] \in {"200", "cut"}
  /\ Client!AnswerCutShort
  /\ UNCHANGED <<daemonVars, wireVars, ghosts>>

ReceiveBusy ==
  /\ answers[Current] = "503"
  /\ Client!GatewayFails
  /\ answered' = answered \cup {Current}
  /\ UNCHANGED <<daemonVars, wireVars, signatures>>

ReceiveRefusal ==
  /\ answers[Current] \in {"400", "401", "413", "415", "500"}
  /\ Client!AnswerRefused
  /\ answered' = answered \cup {Current}
  /\ UNCHANGED <<daemonVars, wireVars, signatures>>

\* The connection breaks, or the proxy reports that it has no answer.
NoAnswer ==
  /\ Client!GatewayFails
  /\ UNCHANGED <<daemonVars, wireVars, ghosts>>

\* The proxy answers a request by itself, and does not pass it on.
ProxyRefuses ==
  /\ Current \in sent
  /\ Client!AnswerRefused
  /\ sent' = sent \ {Current}
  /\ UNCHANGED <<daemonVars, answers, ghosts>>

-----------------------------------------------------------------------------
(* The connections and the daemon's side                                   *)

Lose(s) ==
  /\ s \in sent
  /\ sent' = sent \ {s}
  /\ requests' = [requests EXCEPT ![s[1]][s[2]] = "dead"]
  /\ UNCHANGED <<clientVars, daemonVars, answers, ghosts>>

\* The token of the command is fetched once and may have expired.
Arrive(s) ==
  /\ s \in sent
  /\ sent' = sent \ {s}
  /\ Daemon!SignArrive(s)
  /\ request'[s].peer = "remote"
  /\ UNCHANGED <<clientVars, requests, answers, ghosts>>

\* What the client can see of a reply, and when.
Visible(s) ==
  IF reply'[s] = "200" THEN "200"
  ELSE IF handler[s] = "leaving" THEN reply[s]
  ELSE answers[s]

Handle(s) ==
  /\ Daemon!SignHandler(s) \/ Daemon!SignFails(s) \/ Daemon!SignCancelled(s)
  /\ answers' = [answers EXCEPT ![s] = Visible(s)]
  /\ UNCHANGED <<clientVars, requests, sent, ghosts>>

Sign(s) ==
  /\ Daemon!SignSucceeds(s)
  /\ requests' = [requests EXCEPT ![s[1]][s[2]] = "signed"]
  /\ signatures' = [signatures EXCEPT ![s[1]] = @ + 1]
  /\ UNCHANGED <<clientVars, wireVars, answered>>

DaemonProcess ==
  /\ Daemon!ProcessStep
  /\ UNCHANGED <<clientVars, requests, wireVars, ghosts>>

-----------------------------------------------------------------------------
Receive ==
  ReceiveFile \/ ReceivePart \/ ReceiveBusy \/ ReceiveRefusal \/ NoAnswer \/ ProxyRefuses

Next ==
  \/ ClientAlone \/ Post \/ Receive
  \/ \E s \in Seats : Lose(s) \/ Arrive(s) \/ Handle(s) \/ Sign(s)
  \/ DaemonProcess

Spec == Init /\ [][Next]_vars

\* The fairness of the daemon's handlers (Signerd): they run, ReadTimeout ends
\* the context of a request, and that kills the tool.
FairSpec ==
  /\ Spec
  /\ \A s \in Seats :
       /\ WF_vars(Daemon!SignHandler(s) /\ Handle(s))
       /\ WF_vars(Daemon!SignCancelled(s) /\ Handle(s))
       /\ WF_vars(Daemon!Expired(s) /\ Daemon!SignFails(s) /\ Handle(s))

-----------------------------------------------------------------------------
(* Properties                                                              *)

\* The daemon and the connections do what SignClient takes for granted of the
\* service: only what was sent and not given up by the service is signed,
\* nothing is signed that was answered with a refusal, and a complete answer
\* comes after the signature.
ImplementsClient == Client!Spec

\* What the command calls signed the token has signed, and it signs a file at
\* most once more than -retries says, however late a request arrives, whatever
\* the network does to the answers and however often the daemon is started
\* again.
TokenUsesBounded ==
  \A f \in Files :
    /\ signatures[f] <= Client!MaxRetries + 1
    /\ targets[f].content = "signed" => signatures[f] > 0

\* The daemon's own answers never lead to a second signature: after a file was
\* signed for an attempt that got a complete answer, success, refusal or "too
\* many signing requests", the file is not posted again.  Only a broken
\* connection, a timeout or the proxy's word does that (replySignError,
\* server.go:328; signOnce, client.go:353).
AnsweredIsFinal ==
  \A f \in Files, a, b \in Client!Attempts :
    a < b /\ <<f, a>> \in answered /\ requests[f][a] = "signed" =>
      requests[f][b] = "unsent"

\* Whatever the client gave up or died in the middle of, the daemon gets its
\* slots and its token back.
DaemonRecovers == pc = "exit" ~> uploads = {} /\ token = NoOne
=============================================================================
