---------------------------- MODULE SignerdProofs ----------------------------
(***************************************************************************)
(* Theorems about Signerd for every set of seats and every configuration   *)
(* that the assumptions of Signerd allow.                                  *)
(***************************************************************************)
EXTENDS Signerd, FiniteSetTheorems, TLAPS

USE DEF Seats, SignPcs, HealthPcs, Replies, Peers, Bearers, Goto, Fail, Finish,
        Release, requestVars, healthVars, daemonVars

LEMMA CacheLimitType == CacheLimit \in Nat
BY ConfigAssumption DEF CacheLimit

LEMMA CachedReplyType == CachedReply \in Replies
BY DEF CachedReply

\* What Answer writes is well typed.
LEMMA AnswerType ==
  ASSUME TypeOK, NEW h \in HealthReqs, NEW status \in Replies, Answer(h, status)
  PROVE  /\ pc' \in [Seats -> SignPcs \cup HealthPcs]
         /\ \A r \in SignReqs : pc'[r] \in SignPcs
         /\ \A g \in HealthReqs : pc'[g] \in HealthPcs
         /\ left' \in [HealthReqs -> 0 .. HealthTimeout]
         /\ reply' \in [Seats -> Replies]
BY SeatsAssumption, ConfigAssumption DEF TypeOK, Answer

\* A sign handler that moves, with or without an answer, is well typed.
LEMMA SignMoveType ==
  ASSUME TypeOK, NEW r \in SignReqs, NEW p \in SignPcs, NEW status \in Replies,
         pc' = [pc EXCEPT ![r] = p],
         reply' = reply \/ reply' = [reply EXCEPT ![r] = status]
  PROVE  /\ pc' \in [Seats -> SignPcs \cup HealthPcs]
         /\ \A q \in SignReqs : pc'[q] \in SignPcs
         /\ \A h \in HealthReqs : pc'[h] \in HealthPcs
         /\ reply' \in [Seats -> Replies]
BY SeatsAssumption DEF TypeOK

\* Every variable keeps its type in every step.
LEMMA TypeStep == TypeOK /\ [Next]_vars => TypeOK'
<1> SUFFICES ASSUME TypeOK, [Next]_vars PROVE TypeOK'
  OBVIOUS
<1>1. ASSUME NEW r \in SignReqs, SignStep(r) PROVE TypeOK'
  <2> USE SeatsAssumption
  <2>1. CASE SignArrive(r)
    BY <2>1 DEF TypeOK, SignArrive
  <2>2. CASE Authenticate(r)
    <3>1. CASE pc' = [pc EXCEPT ![r] = "admit"] /\ UNCHANGED reply
      BY <2>2, <3>1 DEF TypeOK, Authenticate
    <3>2. CASE Finish(r, "401")
      BY <2>2, <3>2 DEF TypeOK, Authenticate
    <3> QED
      BY <2>2, <3>1, <3>2 DEF Authenticate
  <2>3. CASE Admit(r)
    <3>1. pc' = [pc EXCEPT ![r] = "mkdir"] \/ pc' = [pc EXCEPT ![r] = "leaving"]
      BY <2>3 DEF Admit
    <3>2. reply' = reply \/ reply' = [reply EXCEPT ![r] = "503"]
      BY <2>3 DEF Admit
    <3>3. /\ pc' \in [Seats -> SignPcs \cup HealthPcs]
          /\ \A q \in SignReqs : pc'[q] \in SignPcs
          /\ \A h \in HealthReqs : pc'[h] \in HealthPcs
          /\ reply' \in [Seats -> Replies]
      BY <3>1, <3>2, SignMoveType
    <3> QED
      BY <2>3, <3>3 DEF TypeOK, Admit
  <2>4. CASE MakeDir(r)
    <3>1. pc' = [pc EXCEPT ![r] = "reading"] \/ pc' = [pc EXCEPT ![r] = "cleanup"]
      BY <2>4 DEF MakeDir
    <3>2. reply' = reply \/ reply' = [reply EXCEPT ![r] = "500"]
      BY <2>4 DEF MakeDir
    <3>3. /\ pc' \in [Seats -> SignPcs \cup HealthPcs]
          /\ \A q \in SignReqs : pc'[q] \in SignPcs
          /\ \A h \in HealthReqs : pc'[h] \in HealthPcs
          /\ reply' \in [Seats -> Replies]
      BY <3>1, <3>2, SignMoveType
    <3> QED
      BY <2>4, <3>3 DEF TypeOK, MakeDir
  <2>5. CASE ReadBody(r)
    <3>1. PICK p \in {"waiting", "cleanup"} : pc' = [pc EXCEPT ![r] = p]
      BY <2>5 DEF ReadBody
    <3>2. PICK status \in {"413", "415", "400", "500"} :
            reply' = reply \/ reply' = [reply EXCEPT ![r] = status]
      BY <2>5 DEF ReadBody
    <3>3. /\ pc' \in [Seats -> SignPcs \cup HealthPcs]
          /\ \A q \in SignReqs : pc'[q] \in SignPcs
          /\ \A h \in HealthReqs : pc'[h] \in HealthPcs
          /\ reply' \in [Seats -> Replies]
      BY <3>1, <3>2, SignMoveType
    <3> QED
      BY <2>5, <3>3 DEF TypeOK, ReadBody
  <2>6. CASE Acquire(r)
    BY <2>6 DEF TypeOK, Acquire
  <2>7. CASE CancelSignWait(r)
    BY <2>7 DEF TypeOK, CancelSignWait
  <2>8. CASE StartSign(r)
    <3>1. CASE Fail(r, "500") /\ Release(r) /\ UNCHANGED signing
      BY <2>8, <3>1 DEF TypeOK, StartSign
    <3>2. CASE Goto(r, "signing") /\ UNCHANGED <<token, reply>>
      BY <2>8, <3>2 DEF TypeOK, StartSign
    <3> QED
      BY <2>8, <3>1, <3>2 DEF StartSign
  <2>9. CASE SendSigned(r)
    BY <2>9 DEF TypeOK, SendSigned
  <2>10. CASE RemoveDir(r)
    BY <2>10 DEF TypeOK, RemoveDir
  <2>11. CASE Leave(r)
    BY <2>11 DEF TypeOK, Leave, NoRequest
  <2>12. CASE SignSucceeds(r)
    BY <2>12 DEF TypeOK, SignSucceeds
  <2>13. CASE SignFails(r)
    BY <2>13 DEF TypeOK, SignFails
  <2>14. CASE SignCancelled(r)
    BY <2>14 DEF TypeOK, SignCancelled
  <2> QED
    BY <1>1, <2>1, <2>2, <2>3, <2>4, <2>5, <2>6, <2>7, <2>8, <2>9, <2>10,
       <2>11, <2>12, <2>13, <2>14 DEF SignStep, SignHandler
<1> USE CacheLimitType, ConfigAssumption, SeatsAssumption
<1>2. ASSUME NEW h \in HealthReqs, HealthStep(h) PROVE TypeOK'
  <2>1. CASE HealthArrive(h)
    BY <2>1 DEF TypeOK, HealthArrive
  <2>2. CASE Lookup(h)
    <3>1. CASE Fresh
      BY <2>2, <3>1, CachedReplyType, AnswerType DEF TypeOK, Lookup
    <3>2. CASE ~Fresh
      <4>1. HealthTimeout \in 0 .. HealthTimeout
        OBVIOUS
      <4>2. left' = [left EXCEPT ![h] = HealthTimeout]
            /\ pc' = [pc EXCEPT ![h] = "waiting"]
            /\ UNCHANGED reply
        BY <2>2, <3>2 DEF Lookup
      <4> QED
        BY <2>2, <4>1, <4>2 DEF TypeOK, Lookup
    <3> QED
      BY <3>1, <3>2
  <2>3. CASE Acquire(h)
    BY <2>3 DEF TypeOK, Acquire
  <2>4. CASE CancelHealthWait(h)
    BY <2>4, AnswerType DEF TypeOK, CancelHealthWait
  <2>5. CASE StartProbe(h)
    <3>1. CASE Expired(h)
      BY <2>5, <3>1, AnswerType DEF TypeOK, StartProbe
    <3>2. CASE ~Expired(h) /\ Fresh
      BY <2>5, <3>2, CachedReplyType, AnswerType DEF TypeOK, StartProbe
    <3>3. CASE ~Expired(h) /\ ~Fresh
      BY <2>5, <3>3 DEF TypeOK, StartProbe
    <3> QED
      BY <3>1, <3>2, <3>3
  <2>6. CASE EndProbe(h)
    <3>1. CASE UNCHANGED healthVars /\ Answer(h, "aborted")
      BY <2>6, <3>1, AnswerType DEF TypeOK, EndProbe
    <3>2. ASSUME NEW failed \in BOOLEAN, Store(h, failed),
                 NoteVerdict(h, failed),
                 Answer(h, IF failed THEN "503" ELSE "200")
          PROVE  TypeOK'
      <4>1. cache' \in [age : 0 .. CacheLimit, err : BOOLEAN]
        BY <3>2 DEF TypeOK, Store
      <4>2. verdict' \in
              [age : 0 .. CacheLimit, err : BOOLEAN, ended : 0 .. CacheLimit]
        BY <3>2 DEF TypeOK, NoteVerdict
      <4>3. (IF failed THEN "503" ELSE "200") \in Replies
        OBVIOUS
      <4> QED
        BY <2>6, <3>2, <4>1, <4>2, <4>3, AnswerType DEF TypeOK, EndProbe
    <3> QED
      BY <2>6, <3>1, <3>2 DEF EndProbe
  <2>7. CASE HealthCancelled(h)
    BY <2>7 DEF TypeOK, HealthCancelled
  <2> QED
    BY <1>2, <2>1, <2>2, <2>3, <2>4, <2>5, <2>6, <2>7
    DEF HealthStep, HealthHandler
<1>3. CASE Tick
  <2>1. \A age \in 0 .. CacheLimit : Older(age) \in 0 .. CacheLimit
    BY DEF Older
  <2>2. cache' \in [age : 0 .. CacheLimit, err : BOOLEAN]
    BY <1>3, <2>1 DEF TypeOK, Tick
  <2>3. verdict' \in
          [age : 0 .. CacheLimit, err : BOOLEAN, ended : 0 .. CacheLimit]
    BY <1>3, <2>1 DEF TypeOK, Tick
  <2>4. left' \in [HealthReqs -> 0 .. HealthTimeout]
    BY <1>3 DEF TypeOK, Tick
  <2> QED
    BY <1>3, <2>2, <2>3, <2>4 DEF TypeOK, Tick
<1>4. CASE ProcessStep
  <2>1. CASE Signal \/ Restart
    BY <2>1 DEF TypeOK, Signal, Restart
  <2>2. ASSUME NEW how \in {"stopped", "failed"}, EndProcess(how)
        PROVE  TypeOK'
    BY <2>2 DEF TypeOK, EndProcess, NoRequest, NoVerdict, EmptyCache
  <2> QED
    BY <1>4, <2>1, <2>2 DEF ProcessStep, Drained, Abort
<1>5. CASE UNCHANGED vars
  BY <1>5 DEF TypeOK, vars
<1> QED
  BY <1>1, <1>2, <1>3, <1>4, <1>5 DEF Next

\* The type invariant of the daemon.
THEOREM TypeCorrect == Spec => []TypeOK
<1>1. ASSUME Init PROVE TypeOK
  <2>1. CacheLimit \in 0 .. CacheLimit /\ 0 \in 0 .. HealthTimeout
    BY CacheLimitType, ConfigAssumption
  <2>2. NoRequest \in [peer : Peers, bearer : Bearers]
    BY DEF NoRequest
  <2>3. /\ cache \in [age : 0 .. CacheLimit, err : BOOLEAN]
        /\ verdict \in
             [age : 0 .. CacheLimit, err : BOOLEAN, ended : 0 .. CacheLimit]
    BY <1>1, <2>1 DEF Init, NoVerdict, EmptyCache
  <2> QED
    BY <1>1, <2>1, <2>2, <2>3 DEF Init, TypeOK
<1> QED
  BY <1>1, TypeStep, PTL DEF Spec

-----------------------------------------------------------------------------
(* The token: TokenOwned is inductive once the types are known.            *)

LEMMA TokenStep == TypeOK /\ TokenOwned /\ [Next]_vars => TokenOwned'
<1> SUFFICES ASSUME TypeOK, TokenOwned, [Next]_vars PROVE TokenOwned'
  OBVIOUS
<1> USE SeatsAssumption DEF TokenOwned, TokenPcs
<1>0. pc \in [Seats -> SignPcs \cup HealthPcs] /\ NoOne \notin Seats
  BY DEF TypeOK
\* The three ways a step can touch the token: not at all, by taking it while
\* it is free, and by its holder giving it back.
<1>1. ASSUME NEW a \in Seats, NEW where, Goto(a, where), UNCHANGED token,
             pc[a] \in TokenPcs <=> where \in TokenPcs
      PROVE  TokenOwned'
  <2>1. \A b \in Seats : pc'[b] \in TokenPcs <=> pc[b] \in TokenPcs
    BY <1>0, <1>1
  <2> QED
    BY <1>1, <2>1
<1>2. ASSUME NEW a \in Seats, Acquire(a)
      PROVE  TokenOwned'
  BY <1>0, <1>2 DEF Acquire
<1>3. ASSUME NEW a \in Seats, NEW where, Goto(a, where), Release(a),
             pc[a] \in TokenPcs, where \notin TokenPcs
      PROVE  TokenOwned'
  BY <1>0, <1>3
<1>4. ASSUME UNCHANGED <<pc, token>>
      PROVE  TokenOwned'
  BY <1>4
<1>5. ASSUME NEW r \in SignReqs, SignStep(r) PROVE TokenOwned'
  <2>1. CASE SignArrive(r)
    BY <1>1, <2>1 DEF SignArrive
  <2>2. CASE Authenticate(r)
    BY <1>1, <2>2 DEF Authenticate
  <2>3. CASE Admit(r)
    BY <1>1, <2>3 DEF Admit
  <2>4. CASE MakeDir(r)
    BY <1>1, <2>4 DEF MakeDir
  <2>5. CASE ReadBody(r)
    BY <1>1, <2>5 DEF ReadBody
  <2>6. CASE Acquire(r)
    BY <1>2, <2>6
  <2>7. CASE CancelSignWait(r)
    BY <1>1, <2>7 DEF CancelSignWait
  <2>8. CASE StartSign(r)
    BY <1>1, <1>3, <2>8 DEF StartSign
  <2>9. CASE SendSigned(r)
    BY <1>1, <2>9 DEF SendSigned
  <2>10. CASE RemoveDir(r)
    BY <1>1, <2>10 DEF RemoveDir
  <2>11. CASE Leave(r)
    BY <1>1, <2>11 DEF Leave
  <2>12. CASE SignSucceeds(r)
    BY <1>3, <2>12 DEF SignSucceeds
  <2>13. CASE SignFails(r)
    BY <1>3, <2>13 DEF SignFails
  <2>14. CASE SignCancelled(r)
    BY <1>4, <2>14 DEF SignCancelled
  <2> QED
    BY <1>5, <2>1, <2>2, <2>3, <2>4, <2>5, <2>6, <2>7, <2>8, <2>9, <2>10,
       <2>11, <2>12, <2>13, <2>14 DEF SignStep, SignHandler
<1>6. ASSUME NEW h \in HealthReqs, HealthStep(h) PROVE TokenOwned'
  <2>1. CASE HealthArrive(h)
    BY <1>1, <2>1 DEF HealthArrive
  <2>2. CASE Lookup(h)
    BY <1>1, <2>2 DEF Lookup, Answer
  <2>3. CASE Acquire(h)
    BY <1>2, <2>3
  <2>4. CASE CancelHealthWait(h)
    BY <1>1, <2>4 DEF CancelHealthWait, Answer
  <2>5. CASE StartProbe(h)
    BY <1>1, <1>3, <2>5 DEF StartProbe, Answer
  <2>6. CASE EndProbe(h)
    BY <1>3, <2>6 DEF EndProbe, Answer
  <2>7. CASE HealthCancelled(h)
    BY <1>4, <2>7 DEF HealthCancelled
  <2> QED
    BY <1>6, <2>1, <2>2, <2>3, <2>4, <2>5, <2>6, <2>7
    DEF HealthStep, HealthHandler
<1>7. CASE Tick
  BY <1>4, <1>7 DEF Tick
<1>8. CASE ProcessStep
  BY <1>0, <1>4, <1>8
  DEF ProcessStep, Signal, Drained, Abort, Restart, EndProcess
<1>9. CASE UNCHANGED vars
  BY <1>4, <1>9 DEF vars
<1> QED
  BY <1>5, <1>6, <1>7, <1>8, <1>9 DEF Next

\* The token's slot is held exactly by the handler between acquire and
\* release: backend operations exclude each other, and no slot is leaked.
THEOREM TokenIsExclusive == Spec => []TokenOwned
<1>1. Init => TokenOwned
  BY SeatsAssumption DEF Init, TokenOwned, TokenPcs
<1> QED
  BY <1>1, TokenStep, TypeCorrect, PTL DEF Spec

-----------------------------------------------------------------------------
(* The uploads: what UploadsBounded needs to be inductive.                 *)

WorkPcs == {"reading", "waiting", "granted", "signing", "sending"}

UploadInv ==
  /\ Cardinality(uploads) <= MaxInFlight
  /\ dirs \subseteq uploads
  /\ \A r \in SignReqs :
       /\ pc[r] \in WorkPcs => r \in dirs
       /\ pc[r] = "mkdir" => r \in uploads
       /\ r \in uploads => pc[r] \notin {"idle", "auth", "admit"}
       /\ r \in dirs => pc[r] \notin {"mkdir", "leaving"}

\* Taking a slot only while there is room keeps the bound.
LEMMA AdmitKeepsBound ==
  ASSUME NEW S \in SUBSET SignReqs, NEW r, Cardinality(S) < MaxInFlight
  PROVE  Cardinality(S \cup {r}) <= MaxInFlight
<1>1. IsFiniteSet(S)
  BY SeatsAssumption, FS_Subset
<1>2. Cardinality(S) \in Nat /\ Cardinality(S \cup {r}) \in Nat
  BY <1>1, FS_AddElement, FS_CardinalityType
<1>3. Cardinality(S \cup {r}) <= Cardinality(S) + 1
  BY <1>1, <1>2, FS_AddElement
<1> QED
  BY <1>2, <1>3, ConfigAssumption

\* Giving slots back keeps it too.
LEMMA LeaveKeepsBound ==
  ASSUME NEW S \in SUBSET SignReqs, NEW T \in SUBSET S,
         Cardinality(S) <= MaxInFlight
  PROVE  Cardinality(T) <= MaxInFlight
<1>1. IsFiniteSet(S)
  BY SeatsAssumption, FS_Subset
<1>2. /\ Cardinality(T) <= Cardinality(S)
      /\ Cardinality(T) \in Nat /\ Cardinality(S) \in Nat
  BY <1>1, FS_Subset, FS_CardinalityType
<1> QED
  BY <1>2, ConfigAssumption

LEMMA UploadStep == TypeOK /\ UploadInv /\ [Next]_vars => UploadInv'
<1> SUFFICES ASSUME TypeOK, UploadInv, [Next]_vars PROVE UploadInv'
  OBVIOUS
<1> USE SeatsAssumption DEF WorkPcs
<1>0. /\ pc \in [Seats -> SignPcs \cup HealthPcs]
      /\ uploads \in SUBSET SignReqs
      /\ dirs \in SUBSET SignReqs
  BY DEF TypeOK
\* A step of a health request, of time, or of nobody leaves the uploads alone.
<1>1. ASSUME UNCHANGED <<uploads, dirs>>,
             \A r \in SignReqs : pc'[r] = pc[r]
      PROVE  UploadInv'
  BY <1>1 DEF UploadInv
\* A sign request moves without touching slots or directories.
<1>2. ASSUME NEW r \in SignReqs, NEW where, Goto(r, where),
             UNCHANGED <<uploads, dirs>>,
             where \in WorkPcs => r \in dirs,
             where \notin {"idle", "mkdir"},
             where \in {"auth", "admit"} => r \notin uploads,
             where = "leaving" => r \notin dirs
      PROVE  UploadInv'
  BY <1>0, <1>2 DEF UploadInv
<1>3. ASSUME NEW r \in SignReqs, SignStep(r) PROVE UploadInv'
  <2>1. CASE SignArrive(r)
    BY <1>2, <2>1 DEF SignArrive, UploadInv
  <2>2. CASE Authenticate(r)
    BY <1>2, <2>2 DEF Authenticate, UploadInv
  <2>3. CASE Admit(r)
    <3>1. CASE HasRoom
      <4>1. Cardinality(uploads') <= MaxInFlight
        BY <1>0, <2>3, <3>1, AdmitKeepsBound DEF Admit, HasRoom
      <4> QED
        BY <1>0, <2>3, <3>1, <4>1 DEF Admit, UploadInv
    <3>2. CASE ~HasRoom
      BY <1>2, <2>3, <3>2 DEF Admit, UploadInv
    <3> QED
      BY <3>1, <3>2
  <2>4. CASE MakeDir(r)
    BY <1>0, <2>4 DEF MakeDir, UploadInv
  <2>5. CASE ReadBody(r)
    BY <1>2, <2>5 DEF ReadBody, UploadInv
  <2>6. CASE Acquire(r)
    BY <1>2, <2>6 DEF Acquire, UploadInv
  <2>7. CASE CancelSignWait(r)
    BY <1>2, <2>7 DEF CancelSignWait, UploadInv
  <2>8. CASE StartSign(r)
    BY <1>2, <2>8 DEF StartSign, UploadInv
  <2>9. CASE SendSigned(r)
    BY <1>2, <2>9 DEF SendSigned, UploadInv
  <2>10. CASE RemoveDir(r)
    BY <1>0, <2>10 DEF RemoveDir, UploadInv
  <2>11. CASE Leave(r)
    <3>1. Cardinality(uploads') <= MaxInFlight
      BY <1>0, <2>11, LeaveKeepsBound DEF Leave, UploadInv
    <3> QED
      BY <1>0, <2>11, <3>1 DEF Leave, UploadInv
  <2>12. CASE SignSucceeds(r)
    BY <1>2, <2>12 DEF SignSucceeds, UploadInv
  <2>13. CASE SignFails(r)
    BY <1>2, <2>13 DEF SignFails, UploadInv
  <2>14. CASE SignCancelled(r)
    BY <1>1, <2>14 DEF SignCancelled
  <2> QED
    BY <1>3, <2>1, <2>2, <2>3, <2>4, <2>5, <2>6, <2>7, <2>8, <2>9, <2>10,
       <2>11, <2>12, <2>13, <2>14 DEF SignStep, SignHandler
<1>4. ASSUME NEW h \in HealthReqs, HealthStep(h) PROVE UploadInv'
  BY <1>0, <1>1, <1>4
  DEF HealthStep, HealthHandler, HealthArrive, Lookup, Acquire,
      CancelHealthWait, StartProbe, EndProbe, HealthCancelled, Answer
<1>5. CASE Tick
  BY <1>1, <1>5 DEF Tick
<1>6. CASE ProcessStep
  <2>1. CASE Signal \/ Restart
    BY <1>1, <2>1 DEF Signal, Restart
  <2>2. ASSUME NEW how, EndProcess(how) PROVE UploadInv'
    BY <2>2, FS_EmptySet, ConfigAssumption DEF EndProcess, UploadInv
  <2> QED
    BY <1>6, <2>1, <2>2 DEF ProcessStep, Drained, Abort
<1>7. CASE UNCHANGED vars
  BY <1>1, <1>7 DEF vars
<1> QED
  BY <1>3, <1>4, <1>5, <1>6, <1>7 DEF Next

LEMMA UploadInvariant == Spec => []UploadInv
<1>1. Init => UploadInv
  BY FS_EmptySet, ConfigAssumption DEF Init, UploadInv, WorkPcs
<1> QED
  BY <1>1, UploadStep, TypeCorrect, PTL DEF Spec

\* No more than MaxInFlight uploads are ever on disk, and no backend call or
\* reply outlives the directory it works in.
THEOREM UploadsAreBounded == Spec => []UploadsBounded
<1>1. TypeOK /\ UploadInv => UploadsBounded
  BY LeaveKeepsBound DEF TypeOK, UploadInv, UploadsBounded, WorkPcs
<1> QED
  BY <1>1, TypeCorrect, UploadInvariant, PTL

-----------------------------------------------------------------------------
(* The callers: who is let in, and what they are told.                     *)

BeforeSigning ==
  {"idle", "auth", "admit", "mkdir", "reading", "waiting", "granted"}

CallerInv ==
  \A r \in SignReqs :
    /\ pc[r] = "admit" \/ r \in uploads => MaySign(r)
    /\ pc[r] \in BeforeSigning => signing[r] = "no"
    /\ pc[r] = "signing" => signing[r] = "begun"
    /\ pc[r] = "sending" => signing[r] = "done"
    /\ pc[r] \notin {"cleanup", "leaving"} => reply[r] = "none"
    /\ reply[r] \in {"400", "401", "413", "415", "503"} => signing[r] = "no"
    /\ reply[r] \in {"200", "cut"} => signing[r] = "done"

LEMMA CallerStep ==
  TypeOK /\ UploadInv /\ CallerInv /\ [Next]_vars => CallerInv'
<1> SUFFICES ASSUME TypeOK, UploadInv, CallerInv, [Next]_vars PROVE CallerInv'
  OBVIOUS
<1> USE SeatsAssumption DEF BeforeSigning, MaySign
<1>0. /\ pc \in [Seats -> SignPcs \cup HealthPcs]
      /\ reply \in [Seats -> Replies]
      /\ signing \in [SignReqs -> {"no", "begun", "done"}]
      /\ request \in [SignReqs -> [peer : Peers, bearer : Bearers]]
  BY DEF TypeOK
<1>1. ASSUME UNCHANGED <<uploads, request, signing>>,
             \A r \in SignReqs : pc'[r] = pc[r] /\ reply'[r] = reply[r]
      PROVE  CallerInv'
  BY <1>1 DEF CallerInv
<1>2. ASSUME NEW r \in SignReqs, SignStep(r) PROVE CallerInv'
  <2>0. r \in uploads => pc[r] \notin {"idle", "auth", "admit"}
    BY DEF UploadInv
  <2>1. CASE SignArrive(r)
    BY <1>0, <2>0, <2>1 DEF SignArrive, CallerInv
  <2>2. CASE Authenticate(r)
    BY <1>0, <2>2 DEF Authenticate, SkipsOIDC, CallerInv
  <2>3. CASE Admit(r)
    BY <1>0, <2>3 DEF Admit, CallerInv
  <2>4. CASE MakeDir(r)
    BY <1>0, <2>4 DEF MakeDir, CallerInv
  <2>5. CASE ReadBody(r)
    BY <1>0, <2>5 DEF ReadBody, CallerInv
  <2>6. CASE Acquire(r)
    BY <1>0, <2>6 DEF Acquire, CallerInv
  <2>7. CASE CancelSignWait(r)
    BY <1>0, <2>7 DEF CancelSignWait, CallerInv
  <2>8. CASE StartSign(r)
    BY <1>0, <2>8 DEF StartSign, CallerInv
  <2>9. CASE SendSigned(r)
    BY <1>0, <2>9 DEF SendSigned, CallerInv
  <2>10. CASE RemoveDir(r)
    BY <1>0, <2>10 DEF RemoveDir, CallerInv
  <2>11. CASE Leave(r)
    BY <1>0, <2>11 DEF Leave, CallerInv
  <2>12. CASE SignSucceeds(r)
    BY <1>0, <2>12 DEF SignSucceeds, CallerInv
  <2>13. CASE SignFails(r)
    BY <1>0, <2>13 DEF SignFails, CallerInv
  <2>14. CASE SignCancelled(r)
    BY <1>1, <2>14 DEF SignCancelled
  <2> QED
    BY <1>2, <2>1, <2>2, <2>3, <2>4, <2>5, <2>6, <2>7, <2>8, <2>9, <2>10,
       <2>11, <2>12, <2>13, <2>14 DEF SignStep, SignHandler
<1>3. ASSUME NEW h \in HealthReqs, HealthStep(h) PROVE CallerInv'
  BY <1>0, <1>1, <1>3
  DEF HealthStep, HealthHandler, HealthArrive, Lookup, Acquire,
      CancelHealthWait, StartProbe, EndProbe, HealthCancelled, Answer
<1>4. CASE Tick
  BY <1>1, <1>4 DEF Tick
<1>5. CASE ProcessStep
  <2>1. CASE Signal \/ Restart
    BY <1>1, <2>1 DEF Signal, Restart
  <2>2. ASSUME NEW how, EndProcess(how) PROVE CallerInv'
    BY <2>2 DEF EndProcess, CallerInv
  <2> QED
    BY <1>5, <2>1, <2>2 DEF ProcessStep, Drained, Abort
<1>6. CASE UNCHANGED vars
  BY <1>1, <1>6 DEF vars
<1> QED
  BY <1>2, <1>3, <1>4, <1>5, <1>6 DEF Next

LEMMA CallerInvariant == Spec => []CallerInv
<1>1. Init => CallerInv
  BY SeatsAssumption DEF Init, CallerInv, BeforeSigning
<1> QED
  BY <1>1, CallerStep, TypeCorrect, UploadInvariant, PTL DEF Spec

\* A request touches its own seat only.
LEMMA OtherSeats ==
  ASSUME TypeOK, NEW r \in SignReqs, SignStep(r), NEW q \in SignReqs \ {r}
  PROVE  UNCHANGED <<pc[q], signing[q], reply[q]>>
BY DEF TypeOK, SignStep, SignHandler, SignArrive, Authenticate, Admit, MakeDir,
       ReadBody, Acquire, CancelSignWait, StartSign, SendSigned, RemoveDir,
       Leave, SignSucceeds, SignFails, SignCancelled

\* Until it leaves, no step of a handler but the end of the backend's work
\* makes a difference to whether its file is signed, and a 200 says that it is.
LEMMA OwnSeat ==
  ASSUME TypeOK, CallerInv, NEW r \in SignReqs,
         SignHandler(r) \/ SignFails(r) \/ SignCancelled(r)
  PROVE  /\ pc[r] # "idle"
         /\ pc'[r] = "idle" <=> pc[r] = "leaving"
         /\ pc'[r] # "idle" => (signing'[r] = "done" <=> signing[r] = "done")
         /\ reply'[r] = "200" => signing[r] = "done"
<1> USE SeatsAssumption DEF BeforeSigning, TypeOK, CallerInv
<1>1. CASE Authenticate(r) \/ Admit(r) \/ MakeDir(r) \/ ReadBody(r)
  BY <1>1 DEF Authenticate, Admit, MakeDir, ReadBody
<1>2. CASE Acquire(r) \/ CancelSignWait(r) \/ StartSign(r) \/ SignCancelled(r)
  BY <1>2 DEF Acquire, CancelSignWait, StartSign, SignCancelled
<1>3. CASE SignFails(r) \/ SendSigned(r) \/ RemoveDir(r) \/ Leave(r)
  BY <1>3 DEF SignFails, SendSigned, RemoveDir, Leave
<1> QED
  BY <1>1, <1>2, <1>3 DEF SignHandler

\* Nobody without leave takes a slot, disk space or the token.
THEOREM OnlyAuthorizedCallers == Spec => []OnlyAuthorized
<1>1. TypeOK /\ TokenOwned /\ UploadInv /\ CallerInv => OnlyAuthorized
  BY SeatsAssumption
  DEF TypeOK, TokenOwned, TokenPcs, UploadInv, WorkPcs, CallerInv,
      OnlyAuthorized
<1> QED
  BY <1>1, TypeCorrect, TokenIsExclusive, UploadInvariant, CallerInvariant, PTL

\* A refusal means that nothing was signed, a 200 that something was.
THEOREM StatusesAreHonest == Spec => []StatusIsHonest
<1>1. CallerInv => StatusIsHonest
  BY DEF CallerInv, StatusIsHonest
<1> QED
  BY <1>1, CallerInvariant, PTL

-----------------------------------------------------------------------------
(* The end of the process.                                                 *)

\* A graceful shutdown that reports success leaves no upload behind.
THEOREM NilExitIsClean == Spec => NilExitLeavesNothing
<1>1. UploadInv /\ TypeOK /\ [Next]_vars
        => (leftover' /\ ~leftover => daemon' = "failed")
  <2> SUFFICES ASSUME UploadInv, TypeOK, [Next]_vars, leftover', ~leftover
               PROVE  daemon' = "failed"
    OBVIOUS
  <2>1. CASE Drained
    <3>1. \A r \in SignReqs : r \notin dirs
      BY <2>1, SeatsAssumption DEF Drained, UploadInv
    <3>2. dirs = {}
      BY <3>1 DEF TypeOK
    <3> QED
      BY <2>1, <3>2 DEF Drained, EndProcess
  <2>2. CASE Abort
    BY <2>2 DEF Abort, EndProcess
  <2>3. CASE UNCHANGED leftover
    BY <2>3
  <2>4. (\E r \in SignReqs : SignStep(r)) => UNCHANGED leftover
    BY DEF SignStep, SignHandler, SignArrive, Authenticate, Admit, MakeDir,
           ReadBody, Acquire, CancelSignWait, StartSign, SendSigned, RemoveDir,
           Leave, SignSucceeds, SignFails, SignCancelled
  <2>5. (\E h \in HealthReqs : HealthStep(h)) => UNCHANGED leftover
    BY DEF HealthStep, HealthHandler, HealthArrive, Lookup, Acquire,
           CancelHealthWait, StartProbe, EndProbe, HealthCancelled
  <2>6. Tick \/ Signal \/ Restart \/ UNCHANGED vars => UNCHANGED leftover
    BY DEF Tick, Signal, Restart, vars
  <2> QED
    BY <2>1, <2>2, <2>3, <2>4, <2>5, <2>6 DEF Next, ProcessStep
<1> QED
  BY <1>1, TypeCorrect, UploadInvariant, PTL DEF Spec, NilExitLeavesNothing

-----------------------------------------------------------------------------
(* The health cache: it holds the newest verdict reached in time.          *)

VerdictInv ==
  /\ cache.age = verdict.age
  /\ Fresh => cache.err = verdict.err

LEMMA VerdictStep == TypeOK /\ VerdictInv /\ [Next]_vars => VerdictInv'
<1> SUFFICES ASSUME TypeOK, VerdictInv, [Next]_vars PROVE VerdictInv'
  OBVIOUS
<1> USE CacheLimitType
<1>0. /\ cache \in [age : 0 .. CacheLimit, err : BOOLEAN]
      /\ verdict \in [age : 0 .. CacheLimit, err : BOOLEAN, ended : 0 .. CacheLimit]
  BY DEF TypeOK
<1>1. ASSUME UNCHANGED healthVars PROVE VerdictInv'
  BY <1>1 DEF VerdictInv, Fresh
<1>2. ASSUME NEW h \in HealthReqs, EndProbe(h) PROVE VerdictInv'
  <2>1. ASSUME NEW failed \in BOOLEAN, Store(h, failed), NoteVerdict(h, failed)
        PROVE  VerdictInv'
    <3>1. CASE Expired(h)
      BY <1>0, <2>1, <3>1 DEF Store, NoteVerdict, VerdictInv, Fresh
    <3>2. CASE ~Expired(h) /\ HealthCacheTTL < 0
      BY <1>0, <2>1, <3>2, ConfigAssumption
      DEF Store, NoteVerdict, VerdictInv, Fresh, CacheLimit
    <3>3. CASE ~Expired(h) /\ ~(HealthCacheTTL < 0)
      BY <1>0, <2>1, <3>3 DEF Store, NoteVerdict, VerdictInv, Fresh
    <3> QED
      BY <3>1, <3>2, <3>3
  <2> QED
    BY <1>1, <1>2, <2>1 DEF EndProbe
<1>3. CASE Tick
  BY <1>0, <1>3 DEF Tick, Older, VerdictInv, Fresh
<1>4. ASSUME NEW how, EndProcess(how) PROVE VerdictInv'
  BY <1>4 DEF EndProcess, EmptyCache, NoVerdict, VerdictInv, Fresh
<1>5. (\E r \in SignReqs : SignStep(r)) => UNCHANGED healthVars
  BY DEF SignStep, SignHandler, SignArrive, Authenticate, Admit, MakeDir,
         ReadBody, Acquire, CancelSignWait, StartSign, SendSigned, RemoveDir,
         Leave, SignSucceeds, SignFails, SignCancelled
<1>6. ASSUME NEW h \in HealthReqs, HealthStep(h)
      PROVE  EndProbe(h) \/ UNCHANGED healthVars
  BY <1>6 DEF HealthStep, HealthHandler, HealthArrive, Lookup, Acquire,
              CancelHealthWait, StartProbe, HealthCancelled
<1>7. Signal \/ Restart \/ UNCHANGED vars => UNCHANGED healthVars
  BY DEF Signal, Restart, vars
<1> QED
  BY <1>1, <1>2, <1>3, <1>4, <1>5, <1>6, <1>7
  DEF Next, ProcessStep, Drained, Abort

LEMMA VerdictInvariant == Spec => []VerdictInv
<1>1. Init => VerdictInv
  BY CacheLimitType DEF Init, EmptyCache, NoVerdict, VerdictInv, Fresh
<1> QED
  BY <1>1, VerdictStep, TypeCorrect, PTL DEF Spec

\* A step of the others, of time or of the process answers nobody.
LEMMA OthersAnswerNobody ==
  ASSUME TypeOK, NEW h \in HealthReqs, [Next]_vars,
         ~HealthStep(h), reply[h] = "none"
  PROVE  reply'[h] = "none"
<1> USE SeatsAssumption
<1>1. ASSUME NEW r \in SignReqs, SignStep(r) PROVE reply'[h] = reply[h]
  BY <1>1
  DEF TypeOK, SignStep, SignHandler, SignArrive, Authenticate, Admit, MakeDir,
      ReadBody, Acquire, CancelSignWait, StartSign, SendSigned, RemoveDir,
      Leave, SignSucceeds, SignFails, SignCancelled
<1>2. ASSUME NEW g \in HealthReqs, g # h, HealthStep(g)
      PROVE  reply'[h] = reply[h]
  BY <1>2
  DEF TypeOK, HealthStep, HealthHandler, HealthArrive, Lookup, Acquire,
      CancelHealthWait, StartProbe, EndProbe, HealthCancelled, Answer
<1>3. CASE Tick \/ Signal \/ Restart \/ UNCHANGED vars
  BY <1>3 DEF Tick, Signal, Restart, vars
<1>4. CASE Drained \/ Abort
  BY <1>4 DEF Drained, Abort, EndProcess
<1> QED
  BY <1>1, <1>2, <1>3, <1>4 DEF Next, ProcessStep

\* What a health request is told without probing is the newest verdict,
\* younger than the TTL, unless its own context had ended.
THEOREM AnswersAreBacked == Spec => AnswersBacked
<1>1. ASSUME TypeOK, VerdictInv, [Next]_vars, NEW h \in HealthReqs,
             pc[h] # "probing", reply[h] = "none"
      PROVE  /\ reply'[h] = "200" => Backed(FALSE)
             /\ reply'[h] = "503" =>
                  \/ Backed(TRUE)
                  \/ pc[h] \in {"waiting", "granted"} /\ Expired(h)
  <2>0. reply \in [Seats -> Replies] /\ CacheLimit \in Nat
    BY <1>1, CacheLimitType DEF TypeOK
  <2>1. ASSUME Fresh, reply'[h] = CachedReply
        PROVE  /\ reply'[h] = "200" => Backed(FALSE)
               /\ reply'[h] = "503" => Backed(TRUE)
    BY <1>1, <2>1 DEF CachedReply, VerdictInv, Fresh, Backed, TypeOK
  <2>2. CASE Lookup(h)
    BY <1>1, <2>0, <2>1, <2>2 DEF Lookup, Answer
  <2>3. CASE StartProbe(h)
    BY <1>1, <2>0, <2>1, <2>3 DEF StartProbe, Answer
  <2>4. CASE CancelHealthWait(h)
    BY <1>1, <2>0, <2>4 DEF CancelHealthWait, Answer
  <2>5. CASE HealthArrive(h) \/ Acquire(h) \/ HealthCancelled(h)
    BY <1>1, <2>0, <2>5 DEF HealthArrive, Acquire, HealthCancelled
  <2>6. CASE EndProbe(h)
    BY <1>1, <2>6 DEF EndProbe
  <2>7. CASE ~HealthStep(h)
    BY <1>1, <2>7, OthersAnswerNobody
  <2> QED
    BY <2>2, <2>3, <2>4, <2>5, <2>6, <2>7 DEF HealthStep, HealthHandler
<1>2. TypeOK /\ VerdictInv /\ [Next]_vars =>
        \A h \in HealthReqs :
          pc[h] # "probing" /\ reply[h] = "none" =>
            /\ reply'[h] = "200" => Backed(FALSE)
            /\ reply'[h] = "503" =>
                 \/ Backed(TRUE)
                 \/ pc[h] \in {"waiting", "granted"} /\ Expired(h)
  BY <1>1
<1> QED
  BY <1>2, TypeCorrect, VerdictInvariant, PTL DEF Spec, AnswersBacked

\* No probe begins while a verdict reached in time is younger than the TTL.
THEOREM ProbesAreSpaced == Spec => ProbesSpacedInTime
<1>1. ASSUME TypeOK, VerdictInv, [Next]_vars, NEW h \in HealthReqs,
             pc[h] # "probing", pc'[h] = "probing"
      PROVE  verdict.age >= CacheLimit
  <2> USE SeatsAssumption
  <2>0. pc \in [Seats -> SignPcs \cup HealthPcs]
    BY <1>1 DEF TypeOK
  <2>1. CASE StartProbe(h)
    <3>1. ~Fresh
      BY <1>1, <2>0, <2>1 DEF StartProbe, Answer
    <3> QED
      BY <1>1, <3>1, CacheLimitType DEF Fresh, VerdictInv, TypeOK
  <2>2. ASSUME NEW r \in SignReqs, SignStep(r) PROVE FALSE
    BY <1>1, <2>0, <2>2
    DEF SignStep, SignHandler, SignArrive, Authenticate, Admit, MakeDir,
        ReadBody, Acquire, CancelSignWait, StartSign, SendSigned, RemoveDir,
        Leave, SignSucceeds, SignFails, SignCancelled
  <2>3. ASSUME NEW g \in HealthReqs, HealthStep(g), ~StartProbe(h) PROVE FALSE
    BY <1>1, <2>0, <2>3
    DEF HealthStep, HealthHandler, HealthArrive, Lookup, Acquire,
        CancelHealthWait, StartProbe, EndProbe, HealthCancelled, Answer
  <2>4. ~(Tick \/ ProcessStep \/ UNCHANGED vars)
    BY <1>1 DEF Tick, ProcessStep, Signal, Drained, Abort, Restart,
                EndProcess, vars
  <2> QED
    BY <1>1, <2>1, <2>2, <2>3, <2>4 DEF Next
<1>2. TypeOK /\ VerdictInv /\ [Next]_vars =>
        \A h \in HealthReqs :
          pc[h] # "probing" /\ pc'[h] = "probing" =>
            verdict.age >= CacheLimit
  BY <1>1
<1> QED
  BY <1>2, TypeCorrect, VerdictInvariant, PTL DEF Spec, ProbesSpacedInTime

-----------------------------------------------------------------------------
(* Refinement: every step is a step of TokenAccess or changes nothing of   *)
(* what TokenAccess sees.                                                  *)

Using == {a \in Seats : pc[a] \in {"signing", "probing"}}

\* TokenAccess counts with its own copy of the library's Cardinality.
LEMMA SameCardinality ==
  ASSUME NEW S PROVE Access!Cardinality(S) = Cardinality(S)
BY DEF Cardinality, Access!Cardinality

LEMMA AccessStep ==
  TypeOK /\ TokenOwned /\ UploadInv /\ [Next]_vars => [Access!Next]_(Access!vars)
<1> SUFFICES ASSUME TypeOK, TokenOwned, UploadInv, [Next]_vars
             PROVE  [Access!Next]_(Access!vars)
  OBVIOUS
<1> USE SeatsAssumption DEF TokenPcs, WorkPcs
<1>0. /\ pc \in [Seats -> SignPcs \cup HealthPcs]
      /\ uploads \in SUBSET SignReqs
      /\ \A a \in Seats : token = a <=> pc[a] \in TokenPcs
  BY DEF TypeOK, TokenOwned
\* Only the token's holder can be using it.
<1>1. \A a \in Using : token = a
  BY <1>0 DEF Using
\* What a step does to Using is what it does to one seat's pc.
<1>2. ASSUME UNCHANGED uploads, Using' = Using
      PROVE  [Access!Next]_(Access!vars)
  BY <1>2 DEF Access!vars, Using
<1>3. ASSUME NEW a \in Seats, NEW where, Goto(a, where), UNCHANGED uploads,
             pc[a] \notin {"signing", "probing"},
             where \notin {"signing", "probing"}
      PROVE  [Access!Next]_(Access!vars)
  <2>1. Using' = Using
    BY <1>0, <1>3 DEF Using
  <2> QED
    BY <1>2, <1>3, <2>1
<1>4. ASSUME NEW a \in Seats, NEW where \in {"signing", "probing"},
             Goto(a, where), UNCHANGED uploads, pc[a] = "granted",
             a \in uploads \cup HealthReqs
      PROVE  [Access!Next]_(Access!vars)
  <2>1. Using = {}
    BY <1>0, <1>1, <1>4 DEF Using
  <2>2. Using' = {a}
    BY <1>0, <1>4, <2>1 DEF Using
  <2>3. Access!Begin(a)
    BY <1>4, <2>1, <2>2 DEF Access!Begin, Using
  <2> QED
    BY <2>3 DEF Access!Next
<1>5. ASSUME NEW a \in Seats, NEW where, Goto(a, where), UNCHANGED uploads,
             pc[a] \in {"signing", "probing"},
             where \notin {"signing", "probing"}
      PROVE  [Access!Next]_(Access!vars)
  <2>1. Using = {a}
    BY <1>0, <1>1, <1>5 DEF Using
  <2>2. Using' = {}
    BY <1>0, <1>5, <2>1 DEF Using
  <2> QED
    BY <1>5, <2>1, <2>2 DEF Access!Next, Access!End, Using
<1>6. ASSUME NEW r \in SignReqs, SignStep(r)
      PROVE  [Access!Next]_(Access!vars)
  <2>1. CASE SignArrive(r)
    <3>1. pc[r] = "idle" /\ Goto(r, "auth") /\ UNCHANGED uploads
      BY <2>1 DEF SignArrive
    <3> QED
      BY <1>3, <3>1
  <2>2. CASE Authenticate(r)
    BY <1>3, <2>2 DEF Authenticate
  <2>3. CASE Admit(r)
    <3>1. CASE HasRoom
      <4>1. r \notin uploads
        BY <2>3 DEF Admit, UploadInv
      <4>2. Using' = Using
        BY <1>0, <2>3, <3>1 DEF Admit, Using
      <4>3. Access!Enter(r)
        <5>1. uploads' = uploads \cup {r}
          BY <2>3, <3>1 DEF Admit
        <5> QED
          BY <3>1, <4>1, <4>2, <5>1, SameCardinality DEF HasRoom, Access!Enter, Using
      <4> QED
        BY <4>3 DEF Access!Next
    <3>2. CASE ~HasRoom
      BY <1>3, <2>3, <3>2 DEF Admit
    <3> QED
      BY <3>1, <3>2
  <2>4. CASE MakeDir(r)
    BY <1>3, <2>4 DEF MakeDir
  <2>5. CASE ReadBody(r)
    BY <1>3, <2>5 DEF ReadBody
  <2>6. CASE Acquire(r)
    BY <1>3, <2>6 DEF Acquire
  <2>7. CASE CancelSignWait(r)
    BY <1>3, <2>7 DEF CancelSignWait
  <2>8. CASE StartSign(r)
    <3>1. r \in uploads
      BY <2>8 DEF StartSign, UploadInv
    <3> QED
      BY <1>3, <1>4, <2>8, <3>1 DEF StartSign
  <2>9. CASE SendSigned(r)
    BY <1>3, <2>9 DEF SendSigned
  <2>10. CASE RemoveDir(r)
    BY <1>3, <2>10 DEF RemoveDir
  <2>11. CASE Leave(r)
    <3>1. Using' = Using /\ r \notin Using
      BY <1>0, <2>11 DEF Leave, Using
    <3>2. CASE r \in uploads
      BY <2>11, <3>1, <3>2 DEF Leave, Access!Next, Access!Depart, Using
    <3>3. CASE r \notin uploads
      BY <1>2, <2>11, <3>1, <3>3 DEF Leave
    <3> QED
      BY <3>2, <3>3
  <2>12. CASE SignSucceeds(r)
    BY <1>5, <2>12 DEF SignSucceeds
  <2>13. CASE SignFails(r)
    <3>1. pc[r] = "signing" /\ Goto(r, "cleanup") /\ UNCHANGED uploads
      BY <2>13 DEF SignFails
    <3> QED
      BY <1>5, <3>1
  <2>14. CASE SignCancelled(r)
    BY <1>2, <2>14 DEF SignCancelled, Using
  <2> QED
    BY <1>6, <2>1, <2>2, <2>3, <2>4, <2>5, <2>6, <2>7, <2>8, <2>9, <2>10,
       <2>11, <2>12, <2>13, <2>14 DEF SignStep, SignHandler
<1>7. ASSUME NEW h \in HealthReqs, HealthStep(h)
      PROVE  [Access!Next]_(Access!vars)
  <2>1. CASE HealthArrive(h)
    BY <1>3, <2>1 DEF HealthArrive
  <2>2. CASE Lookup(h)
    BY <1>3, <2>2 DEF Lookup, Answer
  <2>3. CASE Acquire(h)
    BY <1>3, <2>3 DEF Acquire
  <2>4. CASE CancelHealthWait(h)
    BY <1>3, <2>4 DEF CancelHealthWait, Answer
  <2>5. CASE StartProbe(h)
    <3>1. CASE pc' = [pc EXCEPT ![h] = "probing"]
      BY <1>4, <2>5, <3>1 DEF StartProbe
    <3>2. CASE pc' = [pc EXCEPT ![h] = "idle"]
      BY <1>3, <2>5, <3>2 DEF StartProbe
    <3> QED
      BY <2>5, <3>1, <3>2 DEF StartProbe, Answer
  <2>6. CASE EndProbe(h)
    BY <1>5, <2>6 DEF EndProbe, Answer
  <2>7. CASE HealthCancelled(h)
    BY <1>2, <2>7 DEF HealthCancelled, Using
  <2> QED
    BY <1>7, <2>1, <2>2, <2>3, <2>4, <2>5, <2>6, <2>7
    DEF HealthStep, HealthHandler
<1>8. CASE Tick \/ Signal \/ Restart \/ UNCHANGED vars
  BY <1>2, <1>8 DEF Tick, Signal, Restart, vars, Using
<1>9. CASE Drained \/ Abort
  <2>1. Using' = {} /\ uploads' = {}
    BY <1>9 DEF Drained, Abort, EndProcess, Using
  <2> QED
    BY <2>1 DEF Access!Next, Access!Stop, Using
<1> QED
  BY <1>6, <1>7, <1>8, <1>9 DEF Next, ProcessStep

\* The daemon implements the access control: one operation on the token at a
\* time, a client's only while it is one of at most MaxInFlight let in.
THEOREM DaemonImplementsAccess == Spec => ImplementsAccess
<1>1. Init => Access!Init
  BY DEF Init, Access!Init
<1> QED
  BY <1>1, AccessStep, TypeCorrect, TokenIsExclusive, UploadInvariant, PTL
  DEF Spec, ImplementsAccess, Access!Spec
=============================================================================
