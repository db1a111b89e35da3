------------------------------- MODULE Signerd -------------------------------
(***************************************************************************)
(* The signerd HTTP daemon: server/server.go.                              *)
(*                                                                         *)
(* One hardware token is shared by POST /v1/sign requests and GET /health  *)
(* probes through a one-slot channel (Server.token).  A sign request also  *)
(* holds one of MaxInFlight upload slots (Server.uploads) and a temporary  *)
(* directory.  Health verdicts are cached (healthAt, healthErr).  Every    *)
(* request is a goroutine of net/http, so the handlers interleave at every *)
(* channel operation, file operation and backend call.                     *)
(*                                                                         *)
(* A member of SignReqs or HealthReqs is a client's seat: it sends one     *)
(* request after another.  Time is relative: the cache has an age, a       *)
(* health request a countdown, and Tick moves all of them.                 *)
(***************************************************************************)
EXTENDS Integers, FiniteSets

CONSTANTS
  SignReqs,        \* seats of clients that POST files to sign
  HealthReqs,      \* seats of clients that GET /health
  NoOne,           \* the token is free
  MaxInFlight,     \* capacity of the uploads channel, maxInFlightUploads
  HealthCacheTTL,  \* ticks a verdict is reused; negative disables the cache
  HealthTimeout,   \* ticks a health request may take
  AllowLoopback,   \* Config.AllowUnauthenticatedLoopback
  HasVerifier      \* Config.Verifier is not nil

ASSUME SeatsAssumption ==
  /\ SignReqs \cap HealthReqs = {}
  /\ NoOne \notin SignReqs \cup HealthReqs
  /\ IsFiniteSet(SignReqs)

ASSUME ConfigAssumption ==
  /\ MaxInFlight \in Nat \ {0}
  /\ HealthCacheTTL \in Int \ {0}       \* New replaces 0 by the default
  /\ HealthTimeout \in Nat \ {0}
  /\ AllowLoopback \in BOOLEAN
  /\ HasVerifier \in BOOLEAN

VARIABLES
  pc,         \* where each seat's handler is
  request,    \* what a sign request carries: its peer and its bearer token
  gone,       \* a sign request's context is done: peer left, ReadTimeout
  left,       \* ticks until a health request's context is done
  reply,      \* the answer sent for the request
  signing,    \* ghost: how far the backend got with this request
  token,      \* Server.token: who holds the slot
  uploads,    \* Server.uploads: who holds a slot
  dirs,       \* sign requests whose temporary directory exists
  cache,      \* healthAt as an age, and healthErr
  verdict,    \* ghost: the newest verdict that a probe reached in time, its
              \* age, and the ticks since a probe last ended in any way
  daemon,     \* the life of the process: Serve
  leftover    \* files of dead processes are in the work directory

vars == <<pc, request, gone, left, reply, signing, token, uploads, dirs,
          cache, verdict, daemon, leftover>>

requestVars == <<request, gone, left, reply, signing>>
healthVars  == <<cache, verdict>>
daemonVars  == <<daemon, leftover>>

Seats == SignReqs \cup HealthReqs

\* Ages saturate here: an age of CacheLimit is not fresh.
CacheLimit == IF HealthCacheTTL > 0 THEN HealthCacheTTL ELSE 0

Peers  == {"loopback", "remote"}
\* "bad": missing, malformed, forged, expired or for another repository.
Bearers == {"bad", "valid"}
NoRequest == [peer |-> "remote", bearer |-> "bad"]

\* "cut": a 200 whose body ends early; "aborted": the connection is dropped.
Replies == {"none", "200", "400", "401", "413", "415", "500", "503",
            "cut", "aborted"}

SignPcs == {"idle", "auth", "admit", "mkdir", "reading", "waiting", "granted",
            "signing", "sending", "cleanup", "leaving"}
HealthPcs == {"idle", "lookup", "waiting", "granted", "probing"}

TypeOK ==
  /\ pc \in [Seats -> SignPcs \cup HealthPcs]
  /\ \A r \in SignReqs : pc[r] \in SignPcs
  /\ \A h \in HealthReqs : pc[h] \in HealthPcs
  /\ request \in [SignReqs -> [peer : Peers, bearer : Bearers]]
  /\ gone \in [SignReqs -> BOOLEAN]
  /\ left \in [HealthReqs -> 0 .. HealthTimeout]
  /\ reply \in [Seats -> Replies]
  /\ signing \in [SignReqs -> {"no", "begun", "done"}]
  /\ token \in Seats \cup {NoOne}
  /\ uploads \in SUBSET SignReqs
  /\ dirs \in SUBSET SignReqs
  /\ cache \in [age : 0 .. CacheLimit, err : BOOLEAN]
  /\ verdict \in [age : 0 .. CacheLimit, err : BOOLEAN, ended : 0 .. CacheLimit]
  /\ daemon \in {"serving", "draining", "stopped", "failed"}
  /\ leftover \in BOOLEAN

Fresh == cache.age < CacheLimit

\* req.Context() for a sign, the WithTimeout context for a health request.
Expired(a) == IF a \in HealthReqs THEN left[a] = 0 ELSE gone[a]

\* A process starts with no handler running, its channels empty and nothing
\* cached.
NoVerdict == [age |-> CacheLimit, err |-> FALSE, ended |-> CacheLimit]
EmptyCache == [age |-> CacheLimit, err |-> FALSE]

Init ==
  /\ pc = [a \in Seats |-> "idle"]
  /\ request = [r \in SignReqs |-> NoRequest]
  /\ gone = [r \in SignReqs |-> FALSE]
  /\ left = [h \in HealthReqs |-> 0]
  /\ reply = [a \in Seats |-> "none"]
  /\ signing = [r \in SignReqs |-> "no"]
  /\ token = NoOne
  /\ uploads = {}
  /\ dirs = {}
  /\ cache = EmptyCache
  /\ verdict = NoVerdict
  /\ daemon = "serving"
  /\ leftover = FALSE

Goto(a, where) == pc' = [pc EXCEPT ![a] = where]

-----------------------------------------------------------------------------
(* withToken: acquire, check the context again, run, release.              *)

\* The send on the token channel goes through.  Which of the blocked senders
\* it serves is the runtime's choice.
Acquire(a) ==
  /\ pc[a] = "waiting"
  /\ token = NoOne
  /\ token' = a
  /\ Goto(a, "granted")
  /\ UNCHANGED <<requestVars, uploads, dirs, healthVars, daemonVars>>

Release(a) == token' = IF token = a THEN NoOne ELSE token

-----------------------------------------------------------------------------
(* handleSign                                                              *)

SignArrive(r) ==
  /\ daemon = "serving"
  /\ pc[r] = "idle"
  /\ \E peer \in Peers, bearer \in Bearers :
       request' = [request EXCEPT ![r] = [peer |-> peer, bearer |-> bearer]]
  /\ Goto(r, "auth")
  /\ UNCHANGED <<gone, left, reply, signing, token, uploads, dirs, healthVars,
                 daemonVars>>

SkipsOIDC(r) == AllowLoopback /\ request[r].peer = "loopback"

\* The handler has returned, or is about to with nothing left to undo.
Finish(r, status) ==
  /\ reply' = [reply EXCEPT ![r] = status]
  /\ Goto(r, "leaving")

\* signUpload returned: its deferred RemoveAll is next.
Fail(r, status) ==
  /\ reply' = [reply EXCEPT ![r] = status]
  /\ Goto(r, "cleanup")

\* Verify may also refuse a valid token: its keys may be out of reach.
Authenticate(r) ==
  /\ pc[r] = "auth"
  /\ \/ /\ \/ SkipsOIDC(r)
           \/ request[r].bearer = "valid" /\ HasVerifier
        /\ Goto(r, "admit")
        /\ UNCHANGED reply
     \/ /\ ~SkipsOIDC(r)
        /\ Finish(r, "401")
  /\ UNCHANGED <<request, gone, left, signing, token, uploads, dirs,
                 healthVars, daemonVars>>

\* Mutant: one upload too many.
HasRoom_OffByOne == Cardinality(uploads) <= MaxInFlight

HasRoom == Cardinality(uploads) < MaxInFlight

\* select with a default: a full channel answers 503 at once.
Admit(r) ==
  /\ pc[r] = "admit"
  /\ \/ /\ HasRoom
        /\ uploads' = uploads \cup {r}
        /\ Goto(r, "mkdir")
        /\ UNCHANGED reply
     \/ /\ ~HasRoom
        /\ Finish(r, "503")
        /\ UNCHANGED uploads
  /\ UNCHANGED <<request, gone, left, signing, token, dirs, healthVars,
                 daemonVars>>

\* The directory and the file in it; a directory without its file is removed.
MakeDir(r) ==
  /\ pc[r] = "mkdir"
  /\ \/ /\ dirs' = dirs \cup {r}
        /\ Goto(r, "reading")
        /\ UNCHANGED reply
     \/ /\ dirs' = dirs \cup {r}
        /\ Fail(r, "500")
     \/ /\ Fail(r, "500")
        /\ UNCHANGED dirs
  /\ UNCHANGED <<request, gone, left, signing, token, uploads, healthVars,
                 daemonVars>>

\* The body is copied, classified, renamed and its metadata checked.  Each
\* can refuse; a client that leaves now is a failed read.
ReadBody(r) ==
  /\ pc[r] = "reading"
  /\ \/ Goto(r, "waiting") /\ UNCHANGED reply
     \/ \E status \in {"413", "415", "400", "500"} : Fail(r, status)
  /\ UNCHANGED <<request, gone, left, signing, token, uploads, dirs,
                 healthVars, daemonVars>>

\* Mutant: the deferred release is registered before the token is taken.
CancelSignWait_Drains(r) ==
  /\ pc[r] = "waiting"
  /\ Expired(r)
  /\ token' = NoOne
  /\ Fail(r, "500")
  /\ UNCHANGED <<request, gone, left, signing, uploads, dirs, healthVars,
                 daemonVars>>

CancelSignWait(r) ==
  /\ pc[r] = "waiting"
  /\ Expired(r)
  /\ Fail(r, "500")
  /\ UNCHANGED <<request, gone, left, signing, token, uploads, dirs,
                 healthVars, daemonVars>>

\* ctx.Err() under the token, then Signer.Sign starts.
StartSign(r) ==
  /\ pc[r] = "granted"
  /\ \/ /\ Expired(r)
        /\ Release(r)
        /\ Fail(r, "500")
        /\ UNCHANGED signing
     \/ /\ ~Expired(r)
        /\ signing' = [signing EXCEPT ![r] = "begun"]
        /\ Goto(r, "signing")
        /\ UNCHANGED <<token, reply>>
  /\ UNCHANGED <<request, gone, left, uploads, dirs, healthVars, daemonVars>>

SignSucceeds(r) ==
  /\ pc[r] = "signing"
  /\ Release(r)
  /\ signing' = [signing EXCEPT ![r] = "done"]
  /\ Goto(r, "sending")
  /\ UNCHANGED <<request, gone, left, reply, uploads, dirs, healthVars,
                 daemonVars>>

\* Mutant: a backend failure is reported as "busy, try again".
SignFails_Busy(r) ==
  /\ pc[r] = "signing"
  /\ Release(r)
  /\ Fail(r, "503")
  /\ UNCHANGED <<request, gone, left, signing, uploads, dirs, healthVars,
                 daemonVars>>

\* Mutant: the backend's error is not looked at.
SignFails_Ignored(r) ==
  /\ pc[r] = "signing"
  /\ Release(r)
  /\ Goto(r, "sending")
  /\ UNCHANGED <<request, gone, left, reply, signing, uploads, dirs, healthVars,
                 daemonVars>>

\* The tool fails or is killed with its context, or the backend panics.
SignFails(r) ==
  /\ pc[r] = "signing"
  /\ Release(r)
  /\ \E status \in {"500", "aborted"} : Fail(r, status)
  /\ UNCHANGED <<request, gone, left, signing, uploads, dirs, healthVars,
                 daemonVars>>

\* Mutant: a signed file that cannot be read is answered like a full channel.
SendSigned_Busy(r) ==
  /\ pc[r] = "sending"
  /\ \E status \in {"200", "503", "cut"} : Fail(r, status)
  /\ UNCHANGED <<request, gone, left, signing, token, uploads, dirs,
                 healthVars, daemonVars>>

\* writeSigned: open and stat may fail before the header, the copy after it.
SendSigned(r) ==
  /\ pc[r] = "sending"
  /\ \E status \in {"200", "500", "cut"} : Fail(r, status)
  /\ UNCHANGED <<request, gone, left, signing, token, uploads, dirs,
                 healthVars, daemonVars>>

RemoveDir(r) ==
  /\ pc[r] = "cleanup"
  /\ dirs' = dirs \ {r}
  /\ Goto(r, "leaving")
  /\ UNCHANGED <<requestVars, token, uploads, healthVars, daemonVars>>

\* The deferred receive on uploads; the seat is ready for its next request.
Leave(r) ==
  /\ pc[r] = "leaving"
  /\ uploads' = uploads \ {r}
  /\ Goto(r, "idle")
  /\ request' = [request EXCEPT ![r] = NoRequest]
  /\ gone' = [gone EXCEPT ![r] = FALSE]
  /\ reply' = [reply EXCEPT ![r] = "none"]
  /\ signing' = [signing EXCEPT ![r] = "no"]
  /\ UNCHANGED <<left, token, dirs, healthVars, daemonVars>>

\* Mutant: the backend runs under a context that the request cannot cancel.
SignCancelled_NotTool(r) ==
  /\ pc[r] \in {"waiting", "granted"}
  /\ ~gone[r]
  /\ gone' = [gone EXCEPT ![r] = TRUE]
  /\ UNCHANGED <<pc, request, left, reply, signing, token, uploads, dirs,
                 healthVars, daemonVars>>

\* net/http watches the connection once the body is read: the peer closes
\* it, or ReadTimeout passes; either cancels the request's context.
SignCancelled(r) ==
  /\ pc[r] \in {"waiting", "granted", "signing"}
  /\ ~gone[r]
  /\ gone' = [gone EXCEPT ![r] = TRUE]
  /\ UNCHANGED <<pc, request, left, reply, signing, token, uploads, dirs,
                 healthVars, daemonVars>>

-----------------------------------------------------------------------------
(* handleHealth                                                            *)

HealthArrive(h) ==
  /\ daemon = "serving"
  /\ pc[h] = "idle"
  /\ Goto(h, "lookup")
  /\ reply' = [reply EXCEPT ![h] = "none"]
  /\ UNCHANGED <<request, gone, left, signing, token, uploads, dirs, healthVars,
                 daemonVars>>

\* The answer is written and the request's context with its timer ends.
Answer(h, status) ==
  /\ reply' = [reply EXCEPT ![h] = status]
  /\ left' = [left EXCEPT ![h] = 0]
  /\ Goto(h, "idle")

CachedReply == IF cache.err THEN "503" ELSE "200"

Lookup(h) ==
  /\ pc[h] = "lookup"
  /\ \/ /\ Fresh
        /\ Answer(h, CachedReply)
     \/ /\ ~Fresh
        /\ left' = [left EXCEPT ![h] = HealthTimeout]
        /\ Goto(h, "waiting")
        /\ UNCHANGED reply
  /\ UNCHANGED <<request, gone, signing, token, uploads, dirs, healthVars,
                 daemonVars>>

\* Mutant: the context is only looked at between two users of the token.
CancelHealthWait_Blocks(h) ==
  /\ pc[h] = "waiting"
  /\ token = NoOne
  /\ Expired(h)
  /\ Answer(h, "503")
  /\ UNCHANGED <<request, gone, signing, token, uploads, dirs, healthVars,
                 daemonVars>>

\* Mutant: a cancelled probe drains the slot of whoever holds the token.
CancelHealthWait_Drains(h) ==
  /\ pc[h] = "waiting"
  /\ Expired(h)
  /\ token' = NoOne
  /\ Answer(h, "503")
  /\ UNCHANGED <<request, gone, signing, uploads, dirs, healthVars, daemonVars>>

CancelHealthWait(h) ==
  /\ pc[h] = "waiting"
  /\ Expired(h)
  /\ Answer(h, "503")
  /\ UNCHANGED <<request, gone, signing, token, uploads, dirs,
                 healthVars, daemonVars>>

\* Mutant: no second look at the cache under the token.
StartProbe_NoRecheck(h) ==
  /\ pc[h] = "granted"
  /\ \/ /\ Expired(h)
        /\ Release(h)
        /\ Answer(h, "503")
     \/ /\ ~Expired(h)
        /\ Goto(h, "probing")
        /\ UNCHANGED <<token, reply, left>>
  /\ UNCHANGED <<request, gone, signing, uploads, dirs, healthVars, daemonVars>>

\* ctx.Err(), then the cache again under the token, then Signer.Health.
StartProbe(h) ==
  /\ pc[h] = "granted"
  /\ \/ /\ Expired(h)
        /\ Release(h)
        /\ Answer(h, "503")
     \/ /\ ~Expired(h)
        /\ Fresh
        /\ Release(h)
        /\ Answer(h, CachedReply)
     \/ /\ ~Expired(h)
        /\ ~Fresh
        /\ Goto(h, "probing")
        /\ UNCHANGED <<token, reply, left>>
  /\ UNCHANGED <<request, gone, signing, uploads, dirs, healthVars,
                 daemonVars>>

\* Mutant: a probe cut short by its context is cached like any other.
Store_CutShort(h, failed) ==
  cache' = IF HealthCacheTTL < 0 THEN cache ELSE [age |-> 0, err |-> failed]

\* storeHealth, called only while the context is alive.
Store(h, failed) ==
  cache' = IF Expired(h) \/ HealthCacheTTL < 0
             THEN cache
             ELSE [age |-> 0, err |-> failed]

NoteVerdict(h, failed) ==
  verdict' = IF Expired(h)
               THEN [verdict EXCEPT !.ended = 0]
               ELSE [age |-> 0, err |-> failed, ended |-> 0]

EndProbe(h) ==
  /\ pc[h] = "probing"
  /\ Release(h)
  /\ \/ \E failed \in BOOLEAN :
          /\ Store(h, failed)
          /\ NoteVerdict(h, failed)
          /\ Answer(h, IF failed THEN "503" ELSE "200")
     \/ Answer(h, "aborted") /\ UNCHANGED healthVars   \* the backend panics
  /\ UNCHANGED <<request, gone, signing, uploads, dirs, daemonVars>>

\* The client leaves, which ends the context before its time.
HealthCancelled(h) ==
  /\ pc[h] \in {"waiting", "granted", "probing"}
  /\ ~Expired(h)
  /\ left' = [left EXCEPT ![h] = 0]
  /\ UNCHANGED <<pc, request, gone, reply, signing, token, uploads, dirs,
                 healthVars, daemonVars>>

-----------------------------------------------------------------------------
(* Time and the process                                                    *)

Older(age) == IF age < CacheLimit THEN age + 1 ELSE age

Tick ==
  /\ cache' = [cache EXCEPT !.age = Older(@)]
  /\ verdict' = [verdict EXCEPT !.age = Older(@), !.ended = Older(@)]
  /\ left' = [h \in HealthReqs |-> IF left[h] > 0 THEN left[h] - 1 ELSE 0]
  /\ UNCHANGED <<pc, request, gone, reply, signing, token, uploads, dirs,
                 daemonVars>>

\* The context of Serve is cancelled: Shutdown stops accepting and waits.
Signal ==
  /\ daemon = "serving"
  /\ daemon' = "draining"
  /\ UNCHANGED <<pc, requestVars, token, uploads, dirs, healthVars, leftover>>

\* The process ends: nothing but the work directory survives it.
EndProcess(how) ==
  /\ daemon' = how
  /\ leftover' = (leftover \/ dirs # {})
  /\ pc' = [a \in Seats |-> "idle"]
  /\ request' = [r \in SignReqs |-> NoRequest]
  /\ gone' = [r \in SignReqs |-> FALSE]
  /\ left' = [h \in HealthReqs |-> 0]
  /\ reply' = [a \in Seats |-> "none"]
  /\ signing' = [r \in SignReqs |-> "no"]
  /\ token' = NoOne
  /\ uploads' = {}
  /\ dirs' = {}
  /\ cache' = EmptyCache
  /\ verdict' = NoVerdict

\* Mutant: Close instead of Shutdown, returning nil with handlers running.
Drained_AtOnce ==
  /\ daemon = "draining"
  /\ EndProcess("stopped")

\* Shutdown returns nil once no connection is in a handler.
Drained ==
  /\ daemon = "draining"
  /\ \A a \in Seats : pc[a] = "idle"
  /\ EndProcess("stopped")

\* Shutdown gives up after shutdownWait, the listener fails, or a kill.
Abort ==
  /\ daemon \in {"serving", "draining"}
  /\ EndProcess("failed")

\* The container's supervisor starts signerd again.
Restart ==
  /\ daemon \in {"stopped", "failed"}
  /\ daemon' = "serving"
  /\ UNCHANGED <<pc, requestVars, token, uploads, dirs, healthVars, leftover>>

-----------------------------------------------------------------------------
SignHandler(r) ==
  \/ Authenticate(r) \/ Admit(r) \/ MakeDir(r) \/ ReadBody(r)
  \/ Acquire(r) \/ CancelSignWait(r) \/ StartSign(r)
  \/ SendSigned(r) \/ RemoveDir(r) \/ Leave(r)

SignStep(r) ==
  \/ SignArrive(r) \/ SignHandler(r)
  \/ SignSucceeds(r) \/ SignFails(r) \/ SignCancelled(r)

HealthHandler(h) ==
  \/ Lookup(h) \/ Acquire(h) \/ CancelHealthWait(h) \/ StartProbe(h)

HealthStep(h) ==
  \/ HealthArrive(h) \/ HealthHandler(h) \/ EndProbe(h) \/ HealthCancelled(h)

ProcessStep == Signal \/ Drained \/ Abort \/ Restart

Next ==
  \/ \E r \in SignReqs : SignStep(r)
  \/ \E h \in HealthReqs : HealthStep(h)
  \/ Tick
  \/ ProcessStep

Spec == Init /\ [][Next]_vars

(***************************************************************************)
(* What the code's timers justify.  A handler that can move moves; body    *)
(* reads and writes are bounded by ReadTimeout and WriteTimeout.  The      *)
(* backend may run for ever while its context lives, but ReadTimeout ends  *)
(* the context of a sign, HealthTimeout that of a probe, and               *)
(* exec.CommandContext then kills the tool.  CombinedOutput returns when   *)
(* its pipe is closed too (there is no WaitDelay, backends.go:56): the     *)
(* tool is taken to leave no child behind that keeps it open.              *)
(***************************************************************************)
SignRuns(r) == SignHandler(r) \/ (Expired(r) /\ SignFails(r))
HealthRuns(h) == HealthHandler(h) \/ (Expired(h) /\ EndProbe(h))

Fairness ==
  /\ \A r \in SignReqs : WF_vars(SignRuns(r)) /\ WF_vars(SignCancelled(r))
  /\ \A h \in HealthReqs : WF_vars(HealthRuns(h))
  /\ WF_vars(Tick)

FairSpec == Spec /\ Fairness
-----------------------------------------------------------------------------
(* Safety                                                                  *)

TokenPcs == {"granted", "signing", "probing"}

\* The token's slot and the handlers agree: a seat holds it exactly while its
\* handler is between the send and the deferred receive.  So two backend
\* operations never overlap, and no error path, panic or cancelled wait
\* leaks the slot or frees someone else's (withToken, server.go:502).
TokenOwned == \A a \in Seats : token = a <=> pc[a] \in TokenPcs

\* At most MaxInFlight uploads lie on disk, and whatever the backend or the
\* reply reads has its slot and its directory until it is done (server.go:48,
\* the order of the deferred calls in signUpload and handleSign).
UploadsBounded ==
  /\ Cardinality(dirs) <= MaxInFlight
  /\ \A r \in SignReqs :
       pc[r] \in {"reading", "waiting", "granted", "signing", "sending"}
         => r \in dirs \cap uploads

\* Only a loopback peer that the configuration lets in, or a caller with a
\* valid token when there is a verifier, ever takes a slot, disk or the
\* hardware token (authenticate, server.go:354).
MaySign(r) ==
  \/ AllowLoopback /\ request[r].peer = "loopback"
  \/ HasVerifier /\ request[r].bearer = "valid"

OnlyAuthorized ==
  \A r \in SignReqs : r \in uploads \cup dirs \cup {token} => MaySign(r)

\* The status tells the client whether signing may have happened: a refusal
\* (4xx) and "too many signing requests" (503) mean the backend was never
\* asked, so the client's retry is not a second signature; a 200, complete or
\* cut, means the backend finished (replySignError, server.go:328).
StatusIsHonest ==
  \A r \in SignReqs :
    /\ reply[r] \in {"400", "401", "413", "415", "503"} => signing[r] = "no"
    /\ reply[r] \in {"200", "cut"} => signing[r] = "done"

\* An answer that is not the request's own probe or its own expired context
\* is the newest verdict that a probe reached in its time, and that verdict
\* is younger than the cache's TTL.  In particular a probe cut short by its
\* client's departure never decides what other clients are told
\* (handleHealth, server.go:237).
Backed(failed) == verdict.age < CacheLimit /\ verdict.err = failed

AnswersBacked ==
  [][\A h \in HealthReqs :
       pc[h] # "probing" /\ reply[h] = "none" =>
         /\ reply'[h] = "200" => Backed(FALSE)
         /\ reply'[h] = "503" =>
              \/ Backed(TRUE)
              \/ pc[h] \in {"waiting", "granted"} /\ Expired(h)]_vars

\* While a verdict reached in time is younger than the TTL no probe begins,
\* however many requests missed the cache and queued for the token meanwhile
\* (the second look at the cache, server.go:226).
ProbesSpacedInTime ==
  [][\A h \in HealthReqs :
       pc[h] # "probing" /\ pc'[h] = "probing" => verdict.age >= CacheLimit]_vars

\* "Results are cached briefly so a probe storm cannot occupy the token
\* mutex" (server.go:211): between the end of a probe, whatever became of it,
\* and the next one there is at least the TTL.
ProbesSpaced ==
  [][\A h \in HealthReqs :
       pc[h] # "probing" /\ pc'[h] = "probing" =>
         verdict.ended >= CacheLimit]_vars

\* A process leaves files behind only when it did not shut down gracefully:
\* when Shutdown returns nil every upload directory is gone (Serve,
\* server.go:199).
NilExitLeavesNothing ==
  [][leftover' /\ ~leftover => daemon' = "failed"]_vars

-----------------------------------------------------------------------------
(* Liveness, under FairSpec                                                *)

\* Every health request is answered, also when a backend operation hangs and
\* when newcomers keep taking the token.
HealthAnswered == \A h \in HealthReqs : pc[h] # "idle" ~> pc[h] = "idle"

\* Every sign request comes to an end and gives its upload slot back, also
\* when the tool hangs or it never gets the token.
SignsFinish == \A r \in SignReqs : pc[r] # "idle" ~> pc[r] = "idle"

-----------------------------------------------------------------------------
(* Refinement: the daemon is an access control to one token.               *)

Access == INSTANCE TokenAccess
  WITH Clients <- SignReqs,
       Probers <- HealthReqs,
       Limit <- MaxInFlight,
       using <- {a \in Seats : pc[a] \in {"signing", "probing"}},
       admitted <- uploads

\* Under every interleaving the daemon behaves like TokenAccess.
ImplementsAccess == Access!Spec
=============================================================================
