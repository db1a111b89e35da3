--------------------------- MODULE KeyCacheProofs ----------------------------
(***************************************************************************)
(* Theorems about KeyCache for every set of calls and keys and every       *)
(* choice of the three times.                                              *)
(***************************************************************************)
EXTENDS KeyCache, TLAPS

USE TimesAssumption
    DEF Goto, Return, callVars, stayVars, cacheVars, fetchVars, issuerVars, Locked,
        AllPcs, Refusals

-----------------------------------------------------------------------------
(* Types                                                                   *)

LEMMA OlderType ==
  ASSUME NEW limit \in Nat, NEW age \in 0 .. limit
  PROVE  Older(age, limit) \in 0 .. limit
BY DEF Older

LEMMA TypeStep == TypeOK /\ [Next]_vars => TypeOK'
<1> SUFFICES ASSUME TypeOK, [Next]_vars PROVE TypeOK'
  OBVIOUS
<1> DEFINE Results == {"none", "accepted"} \cup Refusals
<1>r. ASSUME NEW c \in Calls, NEW what \in Results, Return(c, what)
      PROVE  /\ pc' \in [Calls -> AllPcs] /\ result' \in [Calls -> Results]
             /\ gone' \in [Calls -> BOOLEAN]
             /\ trusted' \in [Calls -> SUBSET KeyIDs]
  <2>1. pc' \in [Calls -> AllPcs] /\ result' \in [Calls -> Results]
    BY <1>r DEF TypeOK
  <2>2. gone' \in [Calls -> BOOLEAN]
    BY <1>r DEF TypeOK
  <2>3. trusted' \in [Calls -> SUBSET KeyIDs]
    BY <1>r DEF TypeOK
  <2> QED
    BY <2>1, <2>2, <2>3
<1>t. ASSUME NEW c \in Calls, Trust(c) PROVE trusted' \in [Calls -> SUBSET KeyIDs]
  BY <1>t DEF TypeOK, Trust, InTrust
<1>j. \A c \in Calls : Judge(c) \in Results
  BY DEF Judge
<1> HIDE DEF Return
<1>1. ASSUME NEW c \in Calls, Call(c) PROVE TypeOK'
  <2>1. kid' \in [Calls -> KeyIDs]
    BY <1>1 DEF TypeOK, Call
  <2> QED
    BY <1>1, <2>1 DEF TypeOK, Call
<1>2. ASSUME NEW c \in Calls, Lookup(c) PROVE TypeOK'
  <2>1. CASE CacheFresh
    BY <1>2, <1>r, <1>j, <2>1 DEF TypeOK, Lookup
  <2>2. CASE ~CacheFresh
    <3>1. /\ sawCached' = [sawCached EXCEPT ![c] = kid[c] \in keys]
          /\ pc' = [pc EXCEPT ![c] = "lock"]
          /\ UNCHANGED <<kid, result, stayVars, refreshMu, cacheVars, fetchVars,
                         issuerVars>>
      BY <1>2, <2>2 DEF Lookup
    <3>2. sawCached' \in [Calls -> BOOLEAN]
      <4> DEFINE found == kid[c] \in keys
      <4>1. found \in BOOLEAN
        OBVIOUS
      <4>2. sawCached' = [sawCached EXCEPT ![c] = found]
        BY <3>1
      <4>3. sawCached \in [Calls -> BOOLEAN]
        BY DEF TypeOK
      <4> HIDE DEF found
      <4> QED
        BY <4>1, <4>2, <4>3
    <3> QED
      BY <3>1, <3>2 DEF TypeOK
  <2> QED
    BY <2>1, <2>2
<1>3. ASSUME NEW c \in Calls, Reread(c) PROVE TypeOK'
  BY <1>3, <1>r, <1>j DEF TypeOK, Reread
<1>4. ASSUME NEW c \in Calls, Lock(c) PROVE TypeOK'
  BY <1>4 DEF TypeOK, Lock
<1>5. ASSUME NEW c \in Calls, FindFresh(c) PROVE TypeOK'
  BY <1>5, <1>t DEF TypeOK, FindFresh
<1>6. ASSUME NEW c \in Calls, FindCooling(c) PROVE TypeOK'
  <2>1. (IF sawCached[c] THEN "ErrStaleKeys" ELSE "ErrUnknownKeyID") \in Results
    OBVIOUS
  <2> QED
    BY <1>6, <1>r, <2>1 DEF TypeOK, FindCooling
<1>7. ASSUME NEW c \in Calls, StartFetch(c) PROVE TypeOK'
  <2>1. fetchLeft' \in 0 .. FetchTimeout
    BY <1>7 DEF StartFetch
  <2> QED
    BY <1>7, <2>1 DEF TypeOK, StartFetch
<1>8. ASSUME NEW c \in Calls, Respond(c) PROVE TypeOK'
  BY <1>8 DEF TypeOK, Respond
<1>9. ASSUME NEW c \in Calls, FetchSucceeds(c) PROVE TypeOK'
  <2>1. /\ fetched' \in 0 .. KeyCacheTTL
        /\ attempted' \in 0 .. RefreshCooldown
        /\ lastEnd' \in 0 .. RefreshCooldown
        /\ fetchLeft' \in 0 .. FetchTimeout
    BY <1>9 DEF FetchSucceeds, EndFetch
  <2> QED
    BY <1>9, <1>t, <2>1 DEF TypeOK, FetchSucceeds, EndFetch
<1>10. ASSUME NEW c \in Calls, FetchFails(c) PROVE TypeOK'
  <2>1. (IF sawCached[c] THEN "ErrStaleKeys" ELSE "fetch error") \in Results
    OBVIOUS
  <2>2. /\ attempted' \in 0 .. RefreshCooldown
        /\ lastEnd' \in 0 .. RefreshCooldown
        /\ fetchLeft' \in 0 .. FetchTimeout
    <3>1. attempted' = 0 /\ lastEnd' = 0 /\ fetchLeft' = 0
      BY <1>10 DEF FetchFails, EndFetch
    <3> QED
      BY <3>1
  <2> QED
    BY <1>10, <1>r, <2>1, <2>2 DEF TypeOK, FetchFails, EndFetch
<1>11. ASSUME NEW k \in KeyIDs, Publish(k) \/ Revoke(k) PROVE TypeOK'
  <2>1. 0 \in 0 .. TrustWindow
    BY DEF TrustWindow
  <2>2. sinceShown' \in [KeyIDs -> 0 .. TrustWindow]
    BY <1>11, <2>1 DEF TypeOK, Publish, Revoke
  <2>3. published' \in SUBSET KeyIDs
    BY <1>11 DEF TypeOK, Publish, Revoke
  <2>4. trusted' \in [Calls -> SUBSET KeyIDs]
    <3>1. CASE Publish(k)
      <4>1. \A c \in Calls :
              (IF pc[c] = "reread" THEN trusted[c] \cup {k} ELSE trusted[c])
                \in SUBSET KeyIDs
        BY DEF TypeOK
      <4> QED
        BY <3>1, <4>1 DEF Publish
    <3>2. CASE Revoke(k)
      BY <3>2 DEF TypeOK, Revoke
    <3> QED
      BY <1>11, <3>1, <3>2
  <2> QED
    <3>1. UNCHANGED <<pc, callVars, result, gone, refreshMu, cacheVars,
                      fetchVars, issuer>>
      BY <1>11 DEF Publish, Revoke
    <3> QED
      BY <2>2, <2>3, <2>4, <3>1 DEF TypeOK
<1>12. CASE Weather
  BY <1>12 DEF TypeOK, Weather
<1>13. CASE Tick
  <2>1. TrustWindow \in Nat
    BY DEF TrustWindow
  <2>2. sinceShown' \in [KeyIDs -> 0 .. TrustWindow]
    <3>1. \A k \in KeyIDs :
            (IF k \in published THEN 0 ELSE Older(sinceShown[k], TrustWindow))
              \in 0 .. TrustWindow
      <4> TAKE k \in KeyIDs
      <4>1. sinceShown[k] \in 0 .. TrustWindow
        BY DEF TypeOK
      <4>2. Older(sinceShown[k], TrustWindow) \in 0 .. TrustWindow
        BY <2>1, <4>1, OlderType
      <4> QED
        BY <2>1, <4>2
    <3> QED
      BY <1>13, <3>1 DEF Tick
  <2>3. /\ fetched' \in 0 .. KeyCacheTTL
        /\ attempted' \in 0 .. RefreshCooldown
        /\ lastEnd' \in 0 .. RefreshCooldown
    BY <1>13, OlderType DEF TypeOK, Tick
  <2>4. fetchLeft' \in 0 .. FetchTimeout
    <3>1. /\ fetchLeft \in 0 .. FetchTimeout
          /\ fetchLeft' = IF fetchLeft > 0 THEN fetchLeft - 1 ELSE 0
      BY <1>13 DEF TypeOK, Tick
    <3> QED
      BY <3>1
  <2> QED
    BY <1>13, <2>2, <2>3, <2>4 DEF TypeOK, Tick
<1>14. CASE UNCHANGED vars
  BY <1>14 DEF TypeOK, vars
<1>15. ASSUME NEW c \in Calls, Leave(c) PROVE TypeOK'
  BY <1>15 DEF TypeOK, Leave
<1> QED
  BY <1>1, <1>2, <1>3, <1>4, <1>5, <1>6, <1>7, <1>8, <1>9, <1>10, <1>11,
     <1>12, <1>13, <1>14, <1>15 DEF Next, CallRuns

\* The type invariant of the cache.
THEOREM TypeCorrect == Spec => []TypeOK
<1>1. ASSUME Init PROVE TypeOK
  <2>1. sinceShown \in [KeyIDs -> 0 .. TrustWindow]
    BY <1>1 DEF Init, TrustWindow
  <2> QED
    BY <1>1, <2>1 DEF Init, TypeOK
<1> QED
  BY <1>1, TypeStep, PTL DEF Spec

-----------------------------------------------------------------------------
(* The refresh lock                                                        *)

LEMMA LockStep == TypeOK /\ LockOwned /\ [Next]_vars => LockOwned'
<1> SUFFICES ASSUME TypeOK, LockOwned, [Next]_vars PROVE LockOwned'
  OBVIOUS
<1> USE CallsAssumption DEF LockOwned
<1>0. pc \in [Calls -> AllPcs]
  BY DEF TypeOK
<1>1. ASSUME NEW c \in Calls, NEW where, Goto(c, where), UNCHANGED refreshMu,
             pc[c] \in Locked <=> where \in Locked
      PROVE  LockOwned'
  <2>1. \A d \in Calls : pc'[d] \in Locked <=> pc[d] \in Locked
    BY <1>0, <1>1
  <2> QED
    BY <1>1, <2>1
<1>2. ASSUME NEW c \in Calls, NEW where, Goto(c, where), refreshMu' = NoOne,
             pc[c] \in Locked, where \notin Locked
      PROVE  LockOwned'
  BY <1>0, <1>2
<1>3. ASSUME UNCHANGED <<pc, refreshMu>> PROVE LockOwned'
  BY <1>3
<1>4. ASSUME NEW c \in Calls, Lock(c) PROVE LockOwned'
  BY <1>0, <1>4 DEF Lock
<1>5. ASSUME NEW c \in Calls, Call(c) PROVE LockOwned'
  BY <1>1, <1>5 DEF Call
<1>6. ASSUME NEW c \in Calls, CallRuns(c) PROVE LockOwned'
  <2>1. CASE Lookup(c)
    BY <1>1, <2>1 DEF Lookup
  <2>2. CASE Reread(c)
    BY <1>1, <2>2 DEF Reread
  <2>3. CASE FindFresh(c)
    BY <1>2, <2>3 DEF FindFresh
  <2>4. CASE FindCooling(c)
    BY <1>2, <2>4 DEF FindCooling
  <2>5. CASE StartFetch(c)
    BY <1>1, <2>5 DEF StartFetch
  <2>6. CASE Respond(c)
    BY <1>1, <2>6 DEF Respond
  <2>7. CASE FetchSucceeds(c)
    BY <1>2, <2>7 DEF FetchSucceeds, EndFetch
  <2> QED
    BY <1>6, <2>1, <2>2, <2>3, <2>4, <2>5, <2>6, <2>7 DEF CallRuns
<1>7. ASSUME NEW c \in Calls, FetchFails(c) PROVE LockOwned'
  BY <1>2, <1>7 DEF FetchFails, EndFetch
<1>8. CASE \/ \E k \in KeyIDs : Publish(k) \/ Revoke(k)
           \/ \E c \in Calls : Leave(c)
           \/ Weather \/ Tick \/ UNCHANGED vars
  BY <1>3, <1>8 DEF Leave, Publish, Revoke, Weather, Tick, vars
<1> QED
  BY <1>4, <1>5, <1>6, <1>7, <1>8 DEF Next

\* refreshMu is held exactly by the call between Lock and Unlock: fetches
\* exclude each other and no return path keeps the lock.
THEOREM OneFetchAtATime == Spec => []LockOwned
<1>1. Init => LockOwned
  BY CallsAssumption DEF Init, LockOwned
<1> QED
  BY <1>1, LockStep, TypeCorrect, PTL DEF Spec

-----------------------------------------------------------------------------
(* Freshness and trust                                                     *)

\* Keys that are fresh were published when they were read, and reading them
\* took less than FetchTimeout.
TrustInv ==
  /\ InFlight => ~CacheFresh
  /\ \A k \in published : sinceShown[k] = 0
  /\ (\E c \in Calls : pc[c] = "reading") =>
        \A k \in response : sinceShown[k] + fetchLeft <= FetchTimeout
  /\ CacheFresh => \A k \in keys : sinceShown[k] < fetched + FetchTimeout
  /\ lastEnd = attempted

LEMMA TrustStep ==
  TypeOK /\ LockOwned /\ LockOwned' /\ TrustInv /\ [Next]_vars => TrustInv'
<1> SUFFICES ASSUME TypeOK, LockOwned, LockOwned', TrustInv, [Next]_vars
             PROVE  TrustInv'
  OBVIOUS
<1> USE CallsAssumption DEF InFlight, CacheFresh
<1>0. /\ pc \in [Calls -> AllPcs]
      /\ keys \in SUBSET KeyIDs /\ response \in SUBSET KeyIDs
      /\ published \in SUBSET KeyIDs
      /\ fetched \in 0 .. KeyCacheTTL
      /\ fetchLeft \in 0 .. FetchTimeout
      /\ sinceShown \in [KeyIDs -> 0 .. TrustWindow]
      /\ TrustWindow = KeyCacheTTL + FetchTimeout
  BY DEF TypeOK, TrustWindow
\* A call moves, and neither starts nor ends a fetch nor reads again.
<1>1. ASSUME NEW c \in Calls, NEW where, Goto(c, where),
             UNCHANGED <<cacheVars, fetchVars, issuerVars>>,
             where \notin {"fetching", "reading"}
      PROVE  TrustInv'
  BY <1>0, <1>1 DEF TrustInv
\* While a call holds the lock no other call has a fetch in flight.
<1>2. ASSUME NEW c \in Calls, pc[c] \in Locked, NEW d \in Calls \ {c}
      PROVE  pc[d] \notin Locked
  BY <1>2 DEF LockOwned
<1>3. ASSUME NEW c \in Calls, Call(c) \/ Lock(c) PROVE TrustInv'
  BY <1>1, <1>3 DEF Call, Lock
<1>4. ASSUME NEW c \in Calls, CallRuns(c) PROVE TrustInv'
  <2>1. CASE Lookup(c)
    BY <1>1, <2>1 DEF Lookup
  <2>2. CASE Reread(c)
    <3>1. Goto(c, "idle") /\ UNCHANGED <<cacheVars, fetchVars, issuerVars>>
      BY <2>2 DEF Reread
    <3> QED
      BY <1>1, <3>1
  <2>3. CASE FindFresh(c)
    BY <1>1, <2>3 DEF FindFresh
  <2>4. CASE FindCooling(c)
    BY <1>1, <2>4 DEF FindCooling
  <2>5. CASE StartFetch(c)
    <3>1. \A d \in Calls : pc'[d] # "reading"
      BY <1>0, <1>2, <2>5 DEF StartFetch
    <3> QED
      BY <1>0, <2>5, <3>1 DEF StartFetch, TrustInv
  <2>6. CASE Respond(c)
    <3>1. InFlight
      BY <2>6 DEF Respond
    <3>2. \A k \in response' : sinceShown'[k] + fetchLeft' <= FetchTimeout
      BY <1>0, <2>6 DEF Respond, TrustInv
    <3> QED
      BY <1>0, <2>6, <3>1, <3>2 DEF Respond, TrustInv
  <2>7. CASE FetchSucceeds(c)
    <3>1. \A d \in Calls : pc'[d] \notin {"fetching", "reading"}
      BY <1>0, <1>2, <2>7 DEF FetchSucceeds
    <3>2. \A k \in keys' : sinceShown'[k] < fetched' + FetchTimeout
      BY <1>0, <2>7 DEF FetchSucceeds, TrustInv
    <3>3. fetched' < KeyCacheTTL
      BY <2>7 DEF FetchSucceeds
    <3> QED
      BY <1>0, <2>7, <3>1, <3>2, <3>3
      DEF FetchSucceeds, EndFetch, TrustInv
  <2> QED
    BY <1>4, <2>1, <2>2, <2>3, <2>4, <2>5, <2>6, <2>7 DEF CallRuns
<1>5. ASSUME NEW c \in Calls, FetchFails(c) PROVE TrustInv'
  <2>1. \A d \in Calls : pc'[d] \notin {"fetching", "reading"}
    BY <1>0, <1>2, <1>5 DEF FetchFails
  <2> QED
    BY <1>0, <1>5, <2>1 DEF FetchFails, EndFetch, TrustInv
<1>6. ASSUME NEW k \in KeyIDs, Publish(k) PROVE TrustInv'
  <2>1. \A j \in KeyIDs : sinceShown'[j] <= sinceShown[j]
    BY <1>0, <1>6 DEF Publish
  <2>2. \A j \in KeyIDs : sinceShown'[j] \in Nat /\ sinceShown[j] \in Nat
    BY <1>0, <1>6 DEF Publish
  <2>3. \A j \in published' : sinceShown'[j] = 0
    BY <1>0, <1>6 DEF Publish, TrustInv
  <2>4. \A j \in response' : sinceShown[j] + fetchLeft <= FetchTimeout =>
                             sinceShown'[j] + fetchLeft' <= FetchTimeout
    BY <1>0, <1>6, <2>1, <2>2 DEF Publish
  <2>5. \A j \in keys' : sinceShown[j] < fetched + FetchTimeout =>
                         sinceShown'[j] < fetched' + FetchTimeout
    BY <1>0, <1>6, <2>1, <2>2 DEF Publish
  <2> QED
    BY <1>6, <2>3, <2>4, <2>5 DEF Publish, TrustInv
<1>7. ASSUME NEW k \in KeyIDs, Revoke(k) PROVE TrustInv'
  BY <1>7 DEF Revoke, TrustInv
<1>8. CASE Weather
  BY <1>8 DEF Weather, TrustInv
<1>9. CASE Tick
  <2>1. \A k \in KeyIDs : /\ sinceShown'[k] \in Nat
                          /\ sinceShown'[k] <= sinceShown[k] + 1
                          /\ k \in published => sinceShown'[k] = 0
    BY <1>0, <1>9 DEF Tick, Older
  <2>2. fetched' < KeyCacheTTL => fetched' = fetched + 1
    BY <1>0, <1>9 DEF Tick, Older
  <2>3. ASSUME NEW c \in Calls, pc[c] = "reading"
        PROVE  fetchLeft' = fetchLeft - 1
    <3>1. fetchLeft > 0
      BY <1>0, <1>9, <2>3 DEF Tick
    <3> QED
      BY <1>0, <1>9, <3>1 DEF Tick
  <2>4. (\E c \in Calls : pc'[c] = "reading") =>
           \A k \in response' : sinceShown'[k] + fetchLeft' <= FetchTimeout
    <3> SUFFICES ASSUME NEW c \in Calls, pc[c] = "reading", NEW k \in response
                 PROVE  sinceShown'[k] + fetchLeft' <= FetchTimeout
      BY <1>9 DEF Tick
    <3>1. sinceShown[k] + fetchLeft <= FetchTimeout
      BY DEF TrustInv
    <3> QED
      BY <1>0, <2>1, <2>3, <3>1
  <2>5. CacheFresh' => \A k \in keys' : sinceShown'[k] < fetched' + FetchTimeout
    <3> SUFFICES ASSUME CacheFresh', NEW k \in keys
                 PROVE  sinceShown'[k] < fetched' + FetchTimeout
      BY <1>9 DEF Tick
    <3>1. CacheFresh
      BY <1>0, <2>2
    <3>2. sinceShown[k] < fetched + FetchTimeout
      BY <3>1 DEF TrustInv
    <3> QED
      BY <1>0, <2>1, <2>2, <3>2
  <2>6. InFlight' => ~CacheFresh'
    BY <1>0, <1>9, <2>2 DEF Tick, TrustInv
  <2>7. lastEnd' = attempted'
    BY <1>9 DEF Tick, TrustInv
  <2> QED
    BY <1>0, <1>9, <2>1, <2>4, <2>5, <2>6, <2>7 DEF Tick, TrustInv
<1>10. CASE UNCHANGED vars
  BY <1>10 DEF vars, TrustInv
<1>11. ASSUME NEW c \in Calls, Leave(c) PROVE TrustInv'
  BY <1>11 DEF Leave, TrustInv
<1> QED
  BY <1>3, <1>4, <1>5, <1>6, <1>7, <1>8, <1>9, <1>10, <1>11 DEF Next

LEMMA TrustInvariant == Spec => []TrustInv
<1>1. Init => TrustInv
  BY DEF Init, TrustInv, InFlight, CacheFresh
<1>2. Spec => []TypeOK /\ []LockOwned
  BY TypeCorrect, OneFetchAtATime
<1> QED
  BY <1>1, <1>2, TrustStep, PTL DEF Spec

\* What a late second read can find, in the cache as it is or as a fetch in
\* flight will leave it, is in trust since the call's own refresh.
ReadInv ==
  \A c \in Calls : pc[c] = "reread" =>
    /\ published \subseteq trusted[c]
    /\ keys \subseteq trusted[c]
    /\ (\E d \in Calls : pc[d] = "reading") => response \subseteq trusted[c]

LEMMA ReadStep ==
  TypeOK /\ LockOwned /\ TrustInv /\ ReadInv /\ [Next]_vars => ReadInv'
<1> SUFFICES ASSUME TypeOK, LockOwned, TrustInv, ReadInv, [Next]_vars
             PROVE  ReadInv'
  OBVIOUS
<1> USE CallsAssumption
<1>0. /\ pc \in [Calls -> AllPcs]
      /\ keys \in SUBSET KeyIDs /\ response \in SUBSET KeyIDs
      /\ published \in SUBSET KeyIDs
      /\ trusted \in [Calls -> SUBSET KeyIDs]
      /\ fetched \in 0 .. KeyCacheTTL
      /\ fetchLeft \in 0 .. FetchTimeout
      /\ sinceShown \in [KeyIDs -> 0 .. TrustWindow]
      /\ TrustWindow = KeyCacheTTL + FetchTimeout
  BY DEF TypeOK, TrustWindow
\* A call moves, and neither enters its second read nor fixes an answer.
<1>1. ASSUME NEW c \in Calls, NEW where, Goto(c, where),
             where \notin {"reread", "reading"},
             UNCHANGED <<keys, published>>,
             response' = response \/ response' = {},
             trusted' = trusted \/ trusted' = [trusted EXCEPT ![c] = {}]
      PROVE  ReadInv'
  <2>1. \A d \in Calls : /\ pc'[d] = "reread" => d # c /\ pc[d] = "reread"
                         /\ pc'[d] = "reading" => pc[d] = "reading"
    BY <1>0, <1>1
  <2>2. \A d \in Calls : d # c => trusted'[d] = trusted[d]
    BY <1>0, <1>1
  <2> QED
    BY <1>1, <2>1, <2>2 DEF ReadInv
\* A call enters its second read with what is in trust at that moment.
<1>2. ASSUME NEW c \in Calls, pc[c] \in Locked, Goto(c, "reread"), Trust(c),
             published' = published, keys' \subseteq InTrust,
             keys' = keys \/ (pc[c] = "reading" /\ keys' = response)
      PROVE  ReadInv'
  <2>1. published \subseteq InTrust
    BY <1>0 DEF InTrust, TrustInv
  <2>2. \A d \in Calls : pc'[d] # "reading"
    BY <1>0, <1>2 DEF LockOwned
  <2>3. trusted'[c] = InTrust
    BY <1>0, <1>2 DEF Trust
  <2>4. \A d \in Calls : d # c => /\ trusted'[d] = trusted[d]
                                  /\ pc'[d] = pc[d]
    BY <1>0, <1>2 DEF Trust
  <2>5. ASSUME NEW d \in Calls, d # c, pc[d] = "reread"
        PROVE  published \subseteq trusted[d] /\ keys' \subseteq trusted[d]
    BY <1>2, <2>5 DEF ReadInv
  <2> QED
    BY <1>2, <2>1, <2>2, <2>3, <2>4, <2>5 DEF ReadInv
<1>3. ASSUME UNCHANGED <<pc, trusted, keys, response, published>> PROVE ReadInv'
  BY <1>3 DEF ReadInv
<1>4. ASSUME NEW c \in Calls,
             \/ Call(c) \/ Lookup(c) \/ Reread(c) \/ Lock(c)
             \/ FindCooling(c) \/ StartFetch(c) \/ FetchFails(c)
      PROVE  ReadInv'
  <2>1. CASE Call(c)
    BY <1>1, <2>1 DEF Call
  <2>2. CASE Lookup(c)
    BY <1>1, <2>2 DEF Lookup
  <2>3. CASE Reread(c)
    BY <1>1, <2>3 DEF Reread
  <2>4. CASE Lock(c)
    BY <1>1, <2>4 DEF Lock
  <2>5. CASE FindCooling(c)
    BY <1>1, <2>5 DEF FindCooling
  <2>6. CASE StartFetch(c)
    BY <1>1, <2>6 DEF StartFetch
  <2>7. CASE FetchFails(c)
    <3>1. /\ Goto(c, "idle")
          /\ trusted' = [trusted EXCEPT ![c] = {}]
          /\ UNCHANGED <<keys, published>>
          /\ response' = {}
      BY <2>7 DEF FetchFails, EndFetch
    <3> QED
      BY <1>1, <3>1
  <2> QED
    BY <1>4, <2>1, <2>2, <2>3, <2>4, <2>5, <2>6, <2>7
<1>5. ASSUME NEW c \in Calls, FindFresh(c) PROVE ReadInv'
  <2>1. ASSUME NEW k \in keys PROVE sinceShown[k] < TrustWindow
    <3>1. fetched < KeyCacheTTL
      BY <1>5 DEF FindFresh, CacheFresh
    <3>2. sinceShown[k] < fetched + FetchTimeout
      BY <1>5, <2>1 DEF FindFresh, TrustInv
    <3> QED
      BY <1>0, <3>1, <3>2
  <2>2. keys \subseteq InTrust
    BY <1>0, <2>1 DEF InTrust
  <2> QED
    BY <1>2, <1>5, <2>2 DEF FindFresh
<1>6. ASSUME NEW c \in Calls, Respond(c) PROVE ReadInv'
  <2>1. \A d \in Calls : pc'[d] = "reread" => pc[d] = "reread"
    BY <1>0, <1>6 DEF Respond
  <2> QED
    BY <1>6, <2>1 DEF Respond, ReadInv
<1>7. ASSUME NEW c \in Calls, FetchSucceeds(c) PROVE ReadInv'
  <2>1. ASSUME NEW k \in response PROVE sinceShown[k] < TrustWindow
    <3>1. sinceShown[k] + fetchLeft <= FetchTimeout /\ fetchLeft > 0
      BY <1>7, <2>1 DEF FetchSucceeds, TrustInv
    <3> QED
      BY <1>0, <3>1
  <2>2. response \subseteq InTrust
    BY <1>0, <2>1 DEF InTrust
  <2> QED
    BY <1>2, <1>7, <2>2 DEF FetchSucceeds
<1>8. ASSUME NEW k \in KeyIDs, Publish(k) PROVE ReadInv'
  <2>1. \A c \in Calls : pc[c] = "reread" => trusted'[c] = trusted[c] \cup {k}
    BY <1>8 DEF Publish
  <2> QED
    BY <1>8, <2>1 DEF Publish, ReadInv
<1>9. ASSUME NEW k \in KeyIDs, Revoke(k) PROVE ReadInv'
  BY <1>9 DEF Revoke, ReadInv
<1>10. CASE (\E c \in Calls : Leave(c)) \/ Weather \/ Tick \/ UNCHANGED vars
  BY <1>3, <1>10 DEF Leave, Weather, Tick, vars
<1> QED
  BY <1>4, <1>5, <1>6, <1>7, <1>8, <1>9, <1>10 DEF Next, CallRuns

LEMMA ReadInvariant == Spec => []ReadInv
<1>1. Init => ReadInv
  BY DEF Init, ReadInv
<1>2. Spec => []TypeOK /\ []LockOwned /\ []TrustInv
  BY TypeCorrect, OneFetchAtATime, TrustInvariant
<1> QED
  BY <1>1, <1>2, ReadStep, PTL DEF Spec

\* A fetch is never in flight while the cache is fresh.
THEOREM FetchesOnlyWhenStale == Spec => []FetchingMeansStale
<1>1. TrustInv => FetchingMeansStale
  BY DEF TrustInv, FetchingMeansStale
<1> QED
  BY <1>1, TrustInvariant, PTL

\* A key the issuer has withdrawn is accepted for less than
\* KeyCacheTTL + FetchTimeout, up to the moment at which the call's refresh
\* called the cache fresh (oidc.go:177-213).
THEOREM WithdrawnKeysExpire == Spec => AcceptedWithinWindow
<1>1. ASSUME TypeOK, TrustInv, ReadInv, [Next]_vars, NEW c \in Calls,
             result[c] = "none", result'[c] = "accepted"
      PROVE  kid[c] \in InTrust \cup trusted[c]
  <2>0. /\ result \in [Calls -> {"none", "accepted"} \cup Refusals]
        /\ fetched \in 0 .. KeyCacheTTL
        /\ sinceShown \in [KeyIDs -> 0 .. TrustWindow]
        /\ kid[c] \in KeyIDs
    BY <1>1 DEF TypeOK
  <2>1. CASE Lookup(c)
    <3>1. CacheFresh /\ kid[c] \in keys
      BY <1>1, <2>0, <2>1 DEF Lookup, Judge
    <3>2. sinceShown[kid[c]] < fetched + FetchTimeout
      BY <1>1, <3>1 DEF TrustInv
    <3>3. sinceShown[kid[c]] \in 0 .. TrustWindow
      BY <2>0
    <3>4. sinceShown[kid[c]] \in Int
      BY <3>3
    <3>5. fetched \in 0 .. KeyCacheTTL
      BY <2>0
    <3>6. fetched \in Int
      BY <3>5
    <3>7. sinceShown[kid[c]] < TrustWindow
      BY <3>1, <3>2, <3>4, <3>6 DEF CacheFresh, TrustWindow
    <3> QED
      BY <2>0, <3>7 DEF InTrust
  <2>2. CASE Reread(c)
    <3>1. pc[c] = "reread" /\ kid[c] \in keys
      BY <1>1, <2>0, <2>2 DEF Reread, Judge
    <3> QED
      BY <1>1, <3>1 DEF ReadInv
  <2>3. ASSUME NEW d \in Calls, Lookup(d) \/ Reread(d), d # c PROVE FALSE
    BY <1>1, <2>0, <2>3 DEF Lookup, Reread
  <2>4. ASSUME NEW d \in Calls,
               \/ Call(d) \/ Lock(d) \/ FindFresh(d) \/ FindCooling(d)
               \/ StartFetch(d) \/ Respond(d) \/ FetchSucceeds(d) \/ FetchFails(d)
               \/ Leave(d)
        PROVE  FALSE
    BY <1>1, <2>0, <2>4
    DEF Call, Lock, FindFresh, FindCooling, StartFetch, Respond,
        FetchSucceeds, FetchFails, Leave
  <2>5. ~((\E k \in KeyIDs : Publish(k) \/ Revoke(k)) \/ Weather \/ Tick
          \/ UNCHANGED vars)
    BY <1>1 DEF Publish, Revoke, Weather, Tick, vars
  <2> QED
    BY <1>1, <2>1, <2>2, <2>3, <2>4, <2>5 DEF Next, CallRuns
<1>2. TypeOK /\ TrustInv /\ ReadInv /\ [Next]_vars =>
        \A c \in Calls :
          result[c] = "none" /\ result'[c] = "accepted" =>
            kid[c] \in InTrust \cup trusted[c]
  BY <1>1
<1> QED
  BY <1>2, TypeCorrect, TrustInvariant, ReadInvariant, PTL
     DEF Spec, AcceptedWithinWindow

\* Fetches are at least RefreshCooldown apart, successful or not.
THEOREM FetchesAreSpaced == Spec => FetchesSpaced
<1>1. ASSUME TypeOK, TrustInv, [Next]_vars, ~InFlight, InFlight'
      PROVE  lastEnd >= RefreshCooldown
  <2>0. pc \in [Calls -> AllPcs]
        /\ attempted \in 0 .. RefreshCooldown /\ lastEnd = attempted
    BY <1>1 DEF TypeOK, TrustInv
  <2>1. ASSUME NEW c \in Calls, StartFetch(c)
        PROVE  lastEnd >= RefreshCooldown
    BY <2>0, <2>1 DEF StartFetch, Cooling
  <2>2. ASSUME NEW c \in Calls,
               \/ Call(c) \/ Lock(c) \/ Lookup(c) \/ Reread(c) \/ FindFresh(c)
               \/ FindCooling(c) \/ Respond(c) \/ FetchSucceeds(c)
               \/ FetchFails(c) \/ Leave(c)
        PROVE  FALSE
    BY <1>1, <2>0, <2>2
    DEF InFlight, Call, Lock, Lookup, Reread, FindFresh, FindCooling, Respond,
        FetchSucceeds, FetchFails, Leave
  <2>3. ~((\E k \in KeyIDs : Publish(k) \/ Revoke(k)) \/ Weather \/ Tick
          \/ UNCHANGED vars)
    BY <1>1 DEF InFlight, Publish, Revoke, Weather, Tick, vars
  <2> QED
    BY <1>1, <2>1, <2>2, <2>3 DEF Next, CallRuns
<1>2. TypeOK /\ TrustInv /\ [Next]_vars =>
        (~InFlight /\ InFlight' => lastEnd >= RefreshCooldown)
  BY <1>1
<1> QED
  BY <1>2, TypeCorrect, TrustInvariant, PTL DEF Spec, FetchesSpaced

\* Fresh keys are authoritative: neither the cooldown, nor a failed fetch, nor
\* either read of the cache (oidc.go:177-237) refuses a call while the cache is
\* fresh, unless its key is not there, for any number of calls.
THEOREM RefusalsAreDue == Spec => RefusedOnlyWithoutFreshKey
<1>1. ASSUME TypeOK, FetchingMeansStale, [Next]_vars, NEW c \in Calls,
             result[c] = "none", result'[c] \in Refusals, CacheFresh
      PROVE  result'[c] = "ErrUnknownKeyID" /\ kid[c] \notin keys
  <2>0. result \in [Calls -> {"none", "accepted"} \cup Refusals]
    BY <1>1 DEF TypeOK
  <2>1. result'[c] # result[c]
    BY <1>1
  <2>2. CASE Lookup(c) \/ Reread(c)
    <3>1. result'[c] = Judge(c)
      BY <2>0, <2>1, <2>2 DEF Lookup, Reread
    <3> QED
      BY <1>1, <3>1 DEF Judge
  <2>3. CASE FindCooling(c)
    BY <1>1, <2>3 DEF FindCooling
  <2>4. CASE FetchFails(c)
    <3>1. InFlight
      BY <2>4 DEF FetchFails, InFlight
    <3> QED
      BY <1>1, <3>1 DEF FetchingMeansStale
  <2>5. ASSUME NEW d \in Calls, d # c,
               Lookup(d) \/ Reread(d) \/ FindCooling(d) \/ FetchFails(d)
        PROVE  FALSE
    BY <2>0, <2>1, <2>5 DEF Lookup, Reread, FindCooling, FetchFails
  <2>6. ASSUME NEW d \in Calls,
               \/ Lock(d) \/ FindFresh(d) \/ StartFetch(d) \/ Respond(d)
               \/ FetchSucceeds(d) \/ Leave(d)
        PROVE  FALSE
    BY <2>1, <2>6
    DEF Lock, FindFresh, StartFetch, Respond, FetchSucceeds, Leave
  <2>7. ASSUME NEW d \in Calls, Call(d) PROVE FALSE
    BY <1>1, <2>0, <2>7 DEF Call
  <2>8. ~((\E k \in KeyIDs : Publish(k) \/ Revoke(k)) \/ Weather \/ Tick
          \/ UNCHANGED vars)
    BY <2>1 DEF Publish, Revoke, Weather, Tick, vars
  <2> QED
    BY <1>1, <2>2, <2>3, <2>4, <2>5, <2>6, <2>7, <2>8 DEF Next, CallRuns
<1>2. TypeOK /\ FetchingMeansStale /\ [Next]_vars =>
        \A c \in Calls :
          /\ result[c] = "none"
          /\ result'[c] \in Refusals
          /\ CacheFresh
          => result'[c] = "ErrUnknownKeyID" /\ kid[c] \notin keys
  BY <1>1
<1> QED
  BY <1>2, TypeCorrect, FetchesOnlyWhenStale, PTL
     DEF Spec, RefusedOnlyWithoutFreshKey
=============================================================================
