------------------------------ MODULE KeyCache -------------------------------
(***************************************************************************)
(* The JWKS cache of the OIDC verifier: key and refresh in oidc/oidc.go.   *)
(*                                                                         *)
(* Every Verify call is a goroutine that needs the issuer key its token    *)
(* names.  Fresh keys are authoritative; stale ones are never used: the    *)
(* caller queues on refreshMu, and whoever gets it fetches the key set     *)
(* over HTTP unless somebody else just did, or just tried.  The issuer     *)
(* rotates its keys at any time and may be out of reach.  A client may     *)
(* leave while its call waits; a fetch runs under the context of the call  *)
(* that makes it, so it is that client's departure that ends it.           *)
(*                                                                         *)
(* Time is relative: ages that saturate where the code no longer tells     *)
(* them apart, and the countdown of fetchTimeout.  A tick stands for       *)
(* seconds; it may pass between any two steps of a call.                   *)
(***************************************************************************)
EXTENDS Integers, FiniteSets

CONSTANTS
  Calls,            \* seats for concurrent Verify calls
  KeyIDs,           \* the key ids tokens may name
  NoOne,            \* refreshMu is free
  KeyCacheTTL,      \* keyCacheTTL
  RefreshCooldown,  \* refreshCooldown
  FetchTimeout      \* fetchTimeout

ASSUME CallsAssumption == NoOne \notin Calls

ASSUME TimesAssumption ==
  /\ KeyCacheTTL \in Nat \ {0}
  /\ RefreshCooldown \in Nat \ {0}
  /\ FetchTimeout \in Nat \ {0}

VARIABLES
  pc,         \* where each call is
  kid,        \* the key id its token names
  sawCached,  \* key's first read found the id, in keys that were stale
  result,     \* what key returned
  gone,       \* the call's context is done: its client has left
  trusted,    \* ghost: the keys in trust since refresh found or made the
              \* cache fresh for the call, until its second read
  refreshMu,  \* who holds the refresh lock
  keys,       \* the key ids in the cached set
  fetched,    \* ticks since the last successful fetch
  attempted,  \* ticks since the last fetch, successful or not
  fetchLeft,  \* ticks until the fetch in flight is cancelled
  response,   \* the key set in the answer to the fetch in flight
  published,  \* the issuer's key set
  sinceShown, \* ghost: ticks since the issuer last published each key
  lastEnd,    \* ghost: ticks since the last fetch ended
  issuer      \* "good": it answers a fetch in time

vars == <<pc, kid, sawCached, result, gone, trusted, refreshMu, keys, fetched,
          attempted, fetchLeft, response, published, sinceShown, lastEnd, issuer>>

callVars   == <<kid, sawCached>>
stayVars   == <<gone, trusted>>
cacheVars  == <<keys, fetched, attempted, lastEnd>>
fetchVars  == <<fetchLeft, response>>
issuerVars == <<published, sinceShown, issuer>>

\* A key that has not been published for this long can no longer be trusted.
TrustWindow == KeyCacheTTL + FetchTimeout
InTrust == {k \in KeyIDs : sinceShown[k] < TrustWindow}

Locked   == {"decide", "fetching", "reading"}
AllPcs   == Locked \cup {"idle", "lookup", "lock", "reread"}
Refusals == {"ErrUnknownKeyID", "ErrStaleKeys", "fetch error"}

TypeOK ==
  /\ pc \in [Calls -> AllPcs]
  /\ kid \in [Calls -> KeyIDs]
  /\ sawCached \in [Calls -> BOOLEAN]
  /\ result \in [Calls -> {"none", "accepted"} \cup Refusals]
  /\ gone \in [Calls -> BOOLEAN]
  /\ trusted \in [Calls -> SUBSET KeyIDs]
  /\ refreshMu \in Calls \cup {NoOne}
  /\ keys \in SUBSET KeyIDs
  /\ fetched \in 0 .. KeyCacheTTL
  /\ attempted \in 0 .. RefreshCooldown
  /\ fetchLeft \in 0 .. FetchTimeout
  /\ response \in SUBSET KeyIDs
  /\ published \in SUBSET KeyIDs
  /\ sinceShown \in [KeyIDs -> 0 .. TrustWindow]
  /\ lastEnd \in 0 .. RefreshCooldown
  /\ issuer \in {"good", "bad"}

CacheFresh == fetched < KeyCacheTTL
Cooling == attempted < RefreshCooldown

\* The zero times of a new Verifier are as good as expired.
Init ==
  /\ pc = [c \in Calls |-> "idle"]
  /\ kid \in [Calls -> KeyIDs]
  /\ sawCached = [c \in Calls |-> FALSE]
  /\ result = [c \in Calls |-> "none"]
  /\ gone = [c \in Calls |-> FALSE]
  /\ trusted = [c \in Calls |-> {}]
  /\ refreshMu = NoOne
  /\ keys = {}
  /\ fetched = KeyCacheTTL
  /\ attempted = RefreshCooldown
  /\ fetchLeft = 0
  /\ response = {}
  /\ published \in SUBSET KeyIDs
  /\ sinceShown = [k \in KeyIDs |-> IF k \in published THEN 0 ELSE TrustWindow]
  /\ lastEnd = RefreshCooldown
  /\ issuer \in {"good", "bad"}

Goto(c, where) == pc' = [pc EXCEPT ![c] = where]

Return(c, what) ==
  /\ result' = [result EXCEPT ![c] = what]
  /\ gone' = [gone EXCEPT ![c] = FALSE]
  /\ trusted' = [trusted EXCEPT ![c] = {}]
  /\ Goto(c, "idle")

Judge(c) == IF kid[c] \in keys THEN "accepted" ELSE "ErrUnknownKeyID"

-----------------------------------------------------------------------------
(* key                                                                     *)

Call(c) ==
  /\ pc[c] = "idle"
  /\ kid' \in {[kid EXCEPT ![c] = k] : k \in KeyIDs}
  /\ sawCached' = [sawCached EXCEPT ![c] = FALSE]
  /\ result' = [result EXCEPT ![c] = "none"]
  /\ Goto(c, "lookup")
  /\ UNCHANGED <<stayVars, refreshMu, cacheVars, fetchVars, issuerVars>>

Lookup(c) ==
  /\ pc[c] = "lookup"
  /\ \/ /\ CacheFresh
        /\ Return(c, Judge(c))
        /\ UNCHANGED sawCached
     \/ /\ ~CacheFresh
        /\ sawCached' = [sawCached EXCEPT ![c] = kid[c] \in keys]
        /\ Goto(c, "lock")
        /\ UNCHANGED <<result, stayVars>>
  /\ UNCHANGED <<kid, refreshMu, cacheVars, fetchVars, issuerVars>>

\* refresh returned nil: the second read, which does not look at the age.
Reread(c) ==
  /\ pc[c] = "reread"
  /\ Return(c, Judge(c))
  /\ UNCHANGED <<callVars, refreshMu, cacheVars, fetchVars, issuerVars>>

-----------------------------------------------------------------------------
(* refresh                                                                 *)

Lock(c) ==
  /\ pc[c] = "lock"
  /\ refreshMu = NoOne
  /\ refreshMu' = c
  /\ Goto(c, "decide")
  /\ UNCHANGED <<callVars, result, stayVars, cacheVars, fetchVars, issuerVars>>

Trust(c) == trusted' = [trusted EXCEPT ![c] = InTrust]

\* Whoever waited behind a fetch finds its outcome here.
FindFresh(c) ==
  /\ pc[c] = "decide"
  /\ CacheFresh
  /\ refreshMu' = NoOne
  /\ Trust(c)
  /\ Goto(c, "reread")
  /\ UNCHANGED <<callVars, result, gone, cacheVars, fetchVars, issuerVars>>

\* Mutant: the cooldown is looked at first, although a success sets it too.
FindCooling_First(c) ==
  /\ pc[c] = "decide"
  /\ Cooling
  /\ refreshMu' = NoOne
  /\ Return(c, IF sawCached[c] THEN "ErrStaleKeys" ELSE "ErrUnknownKeyID")
  /\ UNCHANGED <<callVars, cacheVars, fetchVars, issuerVars>>


FindCooling(c) ==
  /\ pc[c] = "decide"
  /\ ~CacheFresh
  /\ Cooling
  /\ refreshMu' = NoOne
  /\ Return(c, IF sawCached[c] THEN "ErrStaleKeys" ELSE "ErrUnknownKeyID")
  /\ UNCHANGED <<callVars, cacheVars, fetchVars, issuerVars>>

\* Mutant: whoever gets the lock fetches, fresh keys or not.
StartFetch_NoRecheck(c) ==
  /\ pc[c] = "decide"
  /\ ~Cooling
  /\ fetchLeft' = FetchTimeout
  /\ Goto(c, "fetching")
  /\ UNCHANGED <<callVars, result, stayVars, refreshMu, cacheVars, response,
                 issuerVars>>

StartFetch(c) ==
  /\ pc[c] = "decide"
  /\ ~CacheFresh
  /\ ~Cooling
  /\ fetchLeft' = FetchTimeout
  /\ Goto(c, "fetching")
  /\ UNCHANGED <<callVars, result, stayVars, refreshMu, cacheVars, response,
                 issuerVars>>

\* loadKeys: discovery, then the JWKS as it is when the issuer answers.
Respond(c) ==
  /\ pc[c] = "fetching"
  /\ issuer = "good"
  /\ fetchLeft > 0
  /\ ~gone[c]
  /\ response' = published
  /\ Goto(c, "reading")
  /\ UNCHANGED <<callVars, result, stayVars, refreshMu, cacheVars, fetchLeft,
                 issuerVars>>

EndFetch ==
  /\ attempted' = 0
  /\ lastEnd' = 0
  /\ fetchLeft' = 0
  /\ response' = {}
  /\ refreshMu' = NoOne

FetchSucceeds(c) ==
  /\ pc[c] = "reading"
  /\ fetchLeft > 0
  /\ keys' = response
  /\ fetched' = 0
  /\ EndFetch
  /\ Trust(c)
  /\ Goto(c, "reread")
  /\ UNCHANGED <<callVars, result, gone, issuerVars>>

\* Mutant: a failed fetch renews the trust in the keys at hand.
FetchFails_Renews(c) ==
  /\ pc[c] \in {"fetching", "reading"}
  /\ issuer = "bad" \/ fetchLeft = 0 \/ gone[c]
  /\ EndFetch
  /\ fetched' = 0
  /\ Return(c, IF sawCached[c] THEN "ErrStaleKeys" ELSE "fetch error")
  /\ UNCHANGED <<callVars, keys, issuerVars>>

\* Mutant: only a success counts as an attempt.
FetchFails_NoAttempt(c) ==
  /\ pc[c] \in {"fetching", "reading"}
  /\ issuer = "bad" \/ fetchLeft = 0 \/ gone[c]
  /\ lastEnd' = 0
  /\ fetchLeft' = 0
  /\ response' = {}
  /\ refreshMu' = NoOne
  /\ Return(c, IF sawCached[c] THEN "ErrStaleKeys" ELSE "fetch error")
  /\ UNCHANGED <<callVars, keys, fetched, attempted, issuerVars>>

\* Mutant: the fetch has no deadline of its own.
FetchFails_NoDeadline(c) ==
  /\ pc[c] \in {"fetching", "reading"}
  /\ issuer = "bad" \/ gone[c]
  /\ EndFetch
  /\ Return(c, IF sawCached[c] THEN "ErrStaleKeys" ELSE "fetch error")
  /\ UNCHANGED <<callVars, keys, fetched, issuerVars>>

\* The issuer is down or answers nonsense, the deadline passes, or the client
\* of the call that fetches has left: whoever queues behind it pays for that.
FetchFails(c) ==
  /\ pc[c] \in {"fetching", "reading"}
  /\ issuer = "bad" \/ fetchLeft = 0 \/ gone[c]
  /\ EndFetch
  /\ Return(c, IF sawCached[c] THEN "ErrStaleKeys" ELSE "fetch error")
  /\ UNCHANGED <<callVars, keys, fetched, issuerVars>>

-----------------------------------------------------------------------------
(* The clients, the issuer and time                                        *)

\* A client leaves.  Only a fetch takes notice, at once or when it starts.
Leave(c) ==
  /\ pc[c] \in Locked \cup {"lock"}
  /\ ~gone[c]
  /\ gone' = [gone EXCEPT ![c] = TRUE]
  /\ UNCHANGED <<pc, callVars, result, trusted, refreshMu, cacheVars, fetchVars,
                 issuerVars>>

Publish(k) ==
  /\ k \notin published
  /\ published' = published \cup {k}
  /\ sinceShown' = [sinceShown EXCEPT ![k] = 0]
  /\ trusted' = [c \in Calls |->
                   IF pc[c] = "reread" THEN trusted[c] \cup {k} ELSE trusted[c]]
  /\ UNCHANGED <<pc, callVars, result, gone, refreshMu, cacheVars, fetchVars,
                 issuer>>

Revoke(k) ==
  /\ k \in published
  /\ published' = published \ {k}
  /\ UNCHANGED <<pc, callVars, result, stayVars, refreshMu, cacheVars, fetchVars,
                 sinceShown, issuer>>

Weather ==
  /\ issuer' = (IF issuer = "good" THEN "bad" ELSE "good")
  /\ UNCHANGED <<pc, callVars, result, stayVars, refreshMu, cacheVars, fetchVars,
                 published, sinceShown>>

Older(age, limit) == IF age < limit THEN age + 1 ELSE limit

InFlight == \E c \in Calls : pc[c] \in {"fetching", "reading"}

Tick ==
  /\ InFlight => fetchLeft > (IF issuer = "good" THEN 1 ELSE 0)
  /\ fetched' = Older(fetched, KeyCacheTTL)
  /\ attempted' = Older(attempted, RefreshCooldown)
  /\ lastEnd' = Older(lastEnd, RefreshCooldown)
  /\ fetchLeft' = IF fetchLeft > 0 THEN fetchLeft - 1 ELSE 0
  /\ sinceShown' = [k \in KeyIDs |-> IF k \in published THEN 0
                                     ELSE Older(sinceShown[k], TrustWindow)]
  /\ UNCHANGED <<pc, callVars, result, stayVars, refreshMu, keys, response,
                 published, issuer>>

-----------------------------------------------------------------------------
CallRuns(c) ==
  \/ Lookup(c) \/ Reread(c) \/ FindFresh(c) \/ FindCooling(c) \/ StartFetch(c)
  \/ Respond(c) \/ FetchSucceeds(c)

Next ==
  \/ \E c \in Calls : Call(c) \/ Lock(c) \/ CallRuns(c) \/ FetchFails(c) \/ Leave(c)
  \/ \E k \in KeyIDs : Publish(k) \/ Revoke(k)
  \/ Weather
  \/ Tick

Spec == Init /\ [][Next]_vars

\* A call that can move moves, a fetch ends when its context does but need not
\* fail before, and sync.Mutex hands itself to a goroutine that has waited
\* long: Lock is strongly fair.  Time passes, between whatever the calls do.
ContextEnds(c) == (fetchLeft = 0 \/ gone[c]) /\ FetchFails(c)

FairSpec ==
  /\ Spec
  /\ \A c \in Calls :
       WF_vars(CallRuns(c)) /\ WF_vars(ContextEnds(c)) /\ SF_vars(Lock(c))
  /\ SF_vars(Tick)

-----------------------------------------------------------------------------
(* Safety                                                                  *)

\* One call fetches at a time, and it is the one that holds refreshMu
\* (refresh, oidc.go:222).
LockOwned == \A c \in Calls : refreshMu = c <=> pc[c] \in Locked

\* A fetch is in flight only while the cached keys are stale: nothing but the
\* fetch itself makes them fresh.  So during a fetch no verification can be
\* served from the cache.
FetchingMeansStale == InFlight => ~CacheFresh

\* A key is accepted only if the issuer published it less than
\* keyCacheTTL + fetchTimeout ago, however calls, rotations, outages and slow
\* answers interleave (oidc.go:31, "stale keys are never reused past this
\* window, even during an issuer outage"; the window starts at the end of the
\* fetch, which adds the fetch's own duration).  After a refresh the age is not
\* looked at again (oidc.go:204), and the call may be late for its second read,
\* in a key set that was replaced meanwhile: then the key was in trust when
\* refresh called the cache fresh, or has been published since.
AcceptedWithinWindow ==
  [][\A c \in Calls :
       result[c] = "none" /\ result'[c] = "accepted" =>
         kid[c] \in InTrust \cup trusted[c]]_vars

\* However many calls meet stale keys, and whether fetches succeed or fail,
\* at least refreshCooldown passes between the end of a fetch and the start
\* of the next (oidc.go:35).
FetchesSpaced ==
  [][(~InFlight /\ InFlight') => lastEnd >= RefreshCooldown]_vars

\* Fresh keys are authoritative (key, oidc.go:173): at a moment at which the
\* cache is fresh no call is told that its keys are stale or that they could
\* not be fetched, and none is told that its key is unknown when it is there.
\* What a call has read before it waited for refreshMu does not count.
RefusedOnlyWithoutFreshKey ==
  [][\A c \in Calls :
       /\ result[c] = "none"
       /\ result'[c] \in Refusals
       /\ CacheFresh
       => result'[c] = "ErrUnknownKeyID" /\ kid[c] \notin keys]_vars

\* "HTTP runs without v.mu so cached verifications keep moving during a slow
\* issuer" (oidc.go:220): no call whose key is in the cache waits behind a
\* fetch in flight.
CachedVerificationsKeepMoving ==
  InFlight => \A c \in Calls : pc[c] = "lock" => kid[c] \notin keys

-----------------------------------------------------------------------------
(* Liveness, under FairSpec                                                *)

\* Every call returns, whatever the issuer does and however many calls queue.
CallsReturn == \A c \in Calls : pc[c] # "idle" ~> pc[c] = "idle"

\* A fetch whose client has left.
Abandoned == \E c \in Calls : pc[c] \in {"fetching", "reading"} /\ gone[c]

=============================================================================
