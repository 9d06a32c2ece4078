---------------------------- MODULE CallerAuthProofs ----------------------------
(***************************************************************************)
(* Proofs about CallerAuth for any number of callers, tokens and slots and *)
(* any sizes, times and timeouts: type correctness with the bounds of the  *)
(* cache and of the slots, the accounting of the flights, and what a       *)
(* caller is accepted with.                                                *)
(***************************************************************************)
EXTENDS CallerAuth, FiniteSetTheorems, TLAPS

--------------------------------------------------------------------------------
(* The cache *)

\* What get and put leave of the entries.
LEMMA WithoutEntries ==
  ASSUME NEW entries, NEW keys
  PROVE  /\ DOMAIN Without(entries, keys) = DOMAIN entries \ keys
         /\ \A k \in DOMAIN Without(entries, keys) : Without(entries, keys)[k] = entries[k]
BY DEF Without

LEMMA WithEntries ==
  ASSUME NEW entries, NEW key, NEW entry
  PROVE  /\ DOMAIN With(entries, key, entry) = DOMAIN entries \cup {key}
         /\ With(entries, key, entry)[key] = entry
         /\ \A k \in DOMAIN entries \ {key} : With(entries, key, entry)[k] = entries[k]
BY DEF With

\* Every entry of new is one of old.
Kept(new, old) == \A k \in DOMAIN new : k \in DOMAIN old /\ new[k] = old[k]

LEMMA GetKeeps ==
  ASSUME NEW key, Get(key)
  PROVE  Kept(cache', cache)
<1>1. CASE Hit(key)
  BY <1>1 DEF Get, Kept
<1>2. CASE ~Hit(key)
  <2>1. cache' = Without(cache, {key})
    BY <1>2 DEF Get
  <2>2. /\ DOMAIN Without(cache, {key}) = DOMAIN cache \ {key}
        /\ \A k \in DOMAIN Without(cache, {key}) : Without(cache, {key})[k] = cache[k]
    BY WithoutEntries
  <2> QED BY <2>1, <2>2 DEF Kept
<1> QED BY <1>1, <1>2

\* evictLocked removes entries only, and makes room in a full cache.
LEMMA EvictRoom ==
  ASSUME IsFiniteSet(DOMAIN cache), MaxEntries \in Nat \ {0}, EvictionSample \in Nat \ {0},
         Cardinality(DOMAIN cache) <= MaxEntries, Cardinality(DOMAIN cache) >= MaxEntries,
         NEW sample \in Samples, NEW kept \in Evict(sample)
  PROVE  Kept(kept, cache) /\ Cardinality(DOMAIN kept) < MaxEntries /\ IsFiniteSet(DOMAIN kept)
<1> DEFINE live  == {k \in sample : Live(k)}
           rest  == Without(cache, sample \ live)
           first == {k \in live : \A l \in live : cache[k].expires <= cache[l].expires}
<1>1. sample \subseteq DOMAIN cache /\ sample # {}
  <2>1. sample \subseteq DOMAIN cache /\ (sample = DOMAIN cache \/ Cardinality(sample) = EvictionSample)
    BY DEF Samples
  <2>2. Cardinality({}) = 0
    BY FS_EmptySet
  <2>3. Cardinality(DOMAIN cache) # 0
    BY FS_CardinalityType
  <2> QED BY <2>1, <2>2, <2>3
<1>2. DOMAIN rest = DOMAIN cache \ (sample \ live) /\ \A k \in DOMAIN rest : rest[k] = cache[k]
  BY WithoutEntries
<1>3. /\ IsFiniteSet(DOMAIN rest) /\ Cardinality(DOMAIN rest) \in Nat
      /\ Cardinality(DOMAIN rest) <= Cardinality(DOMAIN cache)
      /\ Cardinality(DOMAIN cache) = Cardinality(DOMAIN rest) => DOMAIN cache = DOMAIN rest
      /\ Cardinality(DOMAIN cache) \in Nat
  <2>1. DOMAIN rest \in SUBSET DOMAIN cache
    BY <1>2
  <2> QED BY <2>1, FS_Subset, FS_CardinalityType
<1>4. CASE Cardinality(DOMAIN rest) >= MaxEntries /\ live # {}
  <2>1. kept \in {Without(rest, {k}) : k \in first}
    BY <1>4 DEF Evict
  <2>2. PICK k \in first : kept = Without(rest, {k})
    BY <2>1
  <2>3. DOMAIN kept = DOMAIN rest \ {k} /\ \A l \in DOMAIN kept : kept[l] = rest[l]
    <3> HIDE DEF live, rest, first
    <3>1. /\ DOMAIN Without(rest, {k}) = DOMAIN rest \ {k}
          /\ \A l \in DOMAIN Without(rest, {k}) : Without(rest, {k})[l] = rest[l]
      BY WithoutEntries
    <3> QED BY <2>2, <3>1
  <2>4. k \in DOMAIN rest
    BY <1>1, <1>2
  <2>5. Cardinality(DOMAIN kept) = Cardinality(DOMAIN rest) - 1 /\ IsFiniteSet(DOMAIN kept)
    BY <1>3, <2>3, <2>4, FS_RemoveElement
  <2>6. Kept(kept, cache)
    BY <1>2, <2>3 DEF Kept
  <2> HIDE DEF live, rest, first
  <2> QED BY <1>3, <2>5, <2>6
<1>5. CASE ~(Cardinality(DOMAIN rest) >= MaxEntries /\ live # {})
  <2>1. kept = rest
    BY <1>5 DEF Evict
  <2>2. Kept(kept, cache)
    BY <1>2, <2>1 DEF Kept
  <2>3. CASE live = {}
    <3>1. DOMAIN cache # DOMAIN rest
      BY <1>1, <1>2, <2>3
    <3> HIDE DEF live, rest, first
    <3> QED BY <1>3, <2>1, <2>2, <3>1
  <2> HIDE DEF live, rest, first
  <2> QED BY <1>3, <1>5, <2>1, <2>2, <2>3
<1> QED BY <1>4, <1>5

\* put adds one entry, which expires with the claims and no later than the TTL, and
\* keeps the cache within its size.
LEMMA PutEntry ==
  ASSUME IsFiniteSet(DOMAIN cache), Cardinality(DOMAIN cache) <= MaxEntries, now \in Nat,
         NEW key, NEW claims, claims.exp \in Nat, Put(key, claims)
  PROVE  /\ \A k \in DOMAIN cache' :
              \/ k \in DOMAIN cache /\ cache'[k] = cache[k]
              \/ /\ k = key /\ cache'[k].claims = claims
                 /\ cache'[k].expires \in Nat /\ cache'[k].expires <= now + TTL
                 /\ cache'[k] = [claims |-> cache'[k].claims, expires |-> cache'[k].expires]
         /\ Cardinality(DOMAIN cache') <= MaxEntries
<1> DEFINE expires == IF claims.exp < now + TTL THEN claims.exp ELSE now + TTL
           entry   == [claims |-> claims, expires |-> expires]
<1>0. TTL \in Nat /\ MaxEntries \in Nat /\ EvictionSample \in Nat \ {0}
  BY AuthAssumption
<1>1. expires \in Nat /\ expires <= now + TTL
  BY <1>0
<1>2. entry.claims = claims /\ entry.expires = expires
      /\ entry = [claims |-> entry.claims, expires |-> entry.expires]
  OBVIOUS
<1>a. ASSUME NEW kept, Kept(kept, cache), cache' = With(kept, key, entry)
      PROVE  \A k \in DOMAIN cache' :
              \/ k \in DOMAIN cache /\ cache'[k] = cache[k]
              \/ /\ k = key /\ cache'[k].claims = claims
                 /\ cache'[k].expires \in Nat /\ cache'[k].expires <= now + TTL
                 /\ cache'[k] = [claims |-> cache'[k].claims, expires |-> cache'[k].expires]
  <2>1. /\ DOMAIN cache' = DOMAIN kept \cup {key} /\ cache'[key] = entry
        /\ \A k \in DOMAIN kept \ {key} : cache'[k] = kept[k]
    <3> HIDE DEF entry, expires
    <3>1. /\ DOMAIN With(kept, key, entry) = DOMAIN kept \cup {key}
          /\ With(kept, key, entry)[key] = entry
          /\ \A k \in DOMAIN kept \ {key} : With(kept, key, entry)[k] = kept[k]
      BY DEF With
    <3> QED BY <1>a, <3>1
  <2> HIDE DEF entry, expires
  <2>2. TAKE k \in DOMAIN cache'
  <2>3. CASE k = key
    BY <1>1, <1>2, <2>1, <2>3
  <2>4. CASE k # key
    BY <1>a, <2>1, <2>4 DEF Kept
  <2> QED BY <2>3, <2>4
<1>3. CASE ~HasCache \/ now >= expires
  BY <1>3 DEF Put
<1>4. CASE /\ HasCache /\ ~(now >= expires)
           /\ key \notin DOMAIN cache /\ Cardinality(DOMAIN cache) >= MaxEntries
  <2>1. PICK sample \in Samples : \E kept \in Evict(sample) : cache' = With(kept, key, entry)
    BY <1>4 DEF Put
  <2>2. PICK kept \in Evict(sample) : cache' = With(kept, key, entry)
    BY <2>1
  <2>3. MaxEntries \in Nat \ {0}
    BY <1>0, <1>4 DEF HasCache
  <2>4. Kept(kept, cache) /\ Cardinality(DOMAIN kept) < MaxEntries /\ IsFiniteSet(DOMAIN kept)
    BY <1>0, <1>4, <2>3, EvictRoom
  <2>5. DOMAIN cache' = DOMAIN kept \cup {key}
    BY <2>2, WithEntries
  <2>6. Cardinality(DOMAIN cache') <= Cardinality(DOMAIN kept) + 1 /\ Cardinality(DOMAIN kept) \in Nat
    <3> HIDE DEF entry, expires
    <3>1. Cardinality(DOMAIN kept) \in Nat
      BY <2>4, FS_CardinalityType
    <3>2. Cardinality(DOMAIN cache') =
            IF key \in DOMAIN kept THEN Cardinality(DOMAIN kept) ELSE Cardinality(DOMAIN kept) + 1
      BY <2>4, <2>5, FS_AddElement
    <3> QED BY <3>1, <3>2
  <2>7. Cardinality(DOMAIN cache') <= MaxEntries
    <3>1. Cardinality(DOMAIN cache') \in Nat
      BY <2>4, <2>5, FS_AddElement, FS_CardinalityType
    <3> QED BY <1>0, <2>4, <2>6, <3>1
  <2> HIDE DEF entry, expires
  <2> QED BY <1>a, <2>2, <2>4, <2>7
<1>5. CASE /\ HasCache /\ ~(now >= expires)
           /\ ~(key \notin DOMAIN cache /\ Cardinality(DOMAIN cache) >= MaxEntries)
  <2>1. cache' = With(cache, key, entry)
    BY <1>5 DEF Put
  <2>2. DOMAIN cache' = DOMAIN cache \cup {key}
    BY <2>1, WithEntries
  <2>3. /\ Cardinality(DOMAIN cache') = IF key \in DOMAIN cache THEN Cardinality(DOMAIN cache)
                                         ELSE Cardinality(DOMAIN cache) + 1
        /\ Cardinality(DOMAIN cache) \in Nat
    BY <2>2, FS_AddElement, FS_CardinalityType
  <2>4. Cardinality(DOMAIN cache') <= MaxEntries
    <3> HIDE DEF entry, expires
    <3>1. CASE key \in DOMAIN cache
      BY <2>3, <3>1
    <3>2. CASE ~(Cardinality(DOMAIN cache) >= MaxEntries)
      BY <1>0, <2>3, <3>2
    <3> QED BY <1>5, <3>1, <3>2
  <2>5. Kept(cache, cache)
    BY DEF Kept
  <2> HIDE DEF entry, expires
  <2> QED BY <1>a, <2>1, <2>4, <2>5
<1> QED BY <1>3, <1>4, <1>5

--------------------------------------------------------------------------------
(* The accounting of the flights *)

Holding == {f \in Callers : fpc[f] \in {"get", "fetch", "forget", "release"}}

\* A slot is held by exactly the flights between join and release.
SlotsHeld == slots = Cardinality(Holding)

\* A caller's own flight starts with its join.
NoEarlyFlight ==
  \A c \in Callers : cpc[c] \in {"idle", "lookup", "join"} => fpc[c] = "none" /\ c \notin canceled

\* A caller waits for a flight of its own token.
JoinedOwn ==
  \A c \in Callers : cpc[c] \in {"wait", "leave"} =>
    /\ joined[c] \in Callers /\ fpc[joined[c]] # "none" /\ token[joined[c]] = token[c]

\* The pending flights are exactly those that have not been forgotten or abandoned.
PendingExact ==
  /\ \A k \in DOMAIN pending : /\ token[pending[k]] = k /\ pending[k] \notin canceled
                               /\ fpc[pending[k]] \in {"get", "fetch", "forget"}
  /\ \A f \in Callers : fpc[f] \in {"get", "fetch", "forget"} /\ f \notin canceled =>
       token[f] \in DOMAIN pending /\ pending[token[f]] = f

\* Nobody waits for an abandoned flight, or for one that failed as abandoned.
AbandonedAlone ==
  \A f \in Callers :
    /\ f \in canceled /\ fpc[f] \notin {"close", "done"} => Waiting(f) = {}
    /\ result[f].kind = "abandoned" => /\ f \in canceled /\ Waiting(f) = {}
                                       /\ fpc[f] \notin {"none", "get", "fetch"}

Counted == \A f \in Callers : waiters[f] = Cardinality(Waiting(f))

NoneAbandoned == \A c \in Callers : reply[c].kind # "abandoned" /\ outcome[c] # "abandoned"

FlightInv ==
  /\ SlotsHeld /\ NoEarlyFlight /\ JoinedOwn /\ PendingExact /\ AbandonedAlone /\ Counted
  /\ NoneAbandoned

--------------------------------------------------------------------------------
(* Type correctness *)

\* The actions, with the ends of a request as one.
LEMMA Steps ==
  ASSUME [Next]_vars
  PROVE  \/ \E c \in Callers :
              \/ Arrive(c) \/ CallerGone(c) \/ Lookup(c) \/ GoneBeforeJoin(c) \/ JoinShared(c)
              \/ JoinRefused(c) \/ JoinStarts(c) \/ Receive(c) \/ StopWaiting(c) \/ Leave(c)
              \/ Authorize(c) \/ FlightLookup(c) \/ IssuerAnswers(c) \/ FetchReturns(c)
              \/ \E kind \in {"unavailable", "abandoned"} :
                   (kind = "abandoned" => c \in canceled) /\ FetchEnds(c, kind)
              \/ RunForgets(c) \/ RunReleases(c) \/ RunCloses(c)
         \/ \E t \in Tokens : Revoke(t)
         \/ Tick \/ UNCHANGED vars
<1>1. ASSUME NEW c \in Callers, FetchFails(c) \/ FetchTimesOut(c) \/ FetchAbandoned(c)
      PROVE  \E kind \in {"unavailable", "abandoned"} :
               (kind = "abandoned" => c \in canceled) /\ FetchEnds(c, kind)
  BY <1>1 DEF FetchFails, FetchTimesOut, FetchAbandoned
<1>2. ASSUME NEW t \in Revocable, Revoke(t) PROVE \E u \in Tokens : Revoke(u)
  BY <1>2, AuthAssumption
<1> QED BY <1>1, <1>2 DEF Next, CallerStep, FlightStep, Ended

ClockType ==
  /\ now \in 0..MaxTime /\ token \in [Callers -> Tokens] /\ life \in [Tokens -> Lifetimes]
  /\ revokedAt \in [Tokens -> 0..Never]
PlacesType ==
  /\ cpc \in [Callers -> {"idle", "lookup", "join", "wait", "leave", "authorize", "done"}]
  /\ gone \subseteq Callers /\ canceled \subseteq Callers
  /\ joined \in [Callers -> Callers \cup {Nobody}]
  /\ fpc \in [Callers -> {"none", "get", "fetch", "forget", "release", "close", "done"}]
  /\ started \in [Callers -> 0..MaxTime]
PendingType == DOMAIN pending \subseteq Tokens /\ \A k \in DOMAIN pending : pending[k] \in Callers
CacheType ==
  /\ DOMAIN cache \subseteq Tokens /\ \A k \in DOMAIN cache : cache[k] \in Entries
  /\ Cardinality(DOMAIN cache) <= MaxEntries
RepliesType ==
  /\ reply \in [Callers -> Replies] /\ answer \in [Callers -> Claims] /\ result \in [Callers -> Replies]
  /\ outcome \in [Callers -> {"none", "accepted", "rejected", "denied", "overload"} \cup Kinds]
CountsType ==
  waiters \in [Callers -> Nat] /\ maxConcurrent \in Nat \ {0} /\ slots \in 0..maxConcurrent

LEMMA TypeParts ==
  TypeOK <=> ClockType /\ PlacesType /\ PendingType /\ CacheType /\ RepliesType /\ CountsType
BY DEF TypeOK, ClockType, PlacesType, PendingType, CacheType, RepliesType, CountsType

LEMMA ResultsType == /\ NoClaims \in Claims /\ NoResult \in Replies
                     /\ \A kind \in Kinds : Failed(kind) \in Replies /\ Failed(kind).kind = kind
                     /\ \A claims \in Claims : Found(claims) \in Replies
                                               /\ Found(claims).kind = "claims"
                                               /\ Found(claims).claims = claims
<1>1. NoClaims \in Claims
  BY AuthAssumption DEF NoClaims, Claims
<1>2. "none" \in Kinds /\ "claims" \in Kinds
  BY DEF Kinds
<1>3. \A kind \in Kinds : Failed(kind) \in Replies /\ Failed(kind).kind = kind
  BY <1>1 DEF Failed, Replies
<1>4. \A claims \in Claims : Found(claims) \in Replies /\ Found(claims).kind = "claims"
                             /\ Found(claims).claims = claims
  BY <1>2 DEF Found, Replies
<1> QED BY <1>1, <1>2, <1>3, <1>4 DEF NoResult, Replies

LEMMA InitType == Init => TypeOK
<1> SUFFICES ASSUME Init PROVE TypeOK
  OBVIOUS
<1>1. ClockType
  BY AuthAssumption DEF Init, ClockType, Never
<1>2. PlacesType
  BY AuthAssumption DEF Init, PlacesType
<1>3. PendingType
  BY DEF Init, PendingType
<1>4. CacheType
  <2>1. DOMAIN cache = {}
    BY DEF Init
  <2> QED BY <2>1, FS_EmptySet, AuthAssumption DEF CacheType
<1>5. RepliesType
  BY ResultsType DEF Init, RepliesType
<1>6. CountsType
  BY AuthAssumption DEF Init, CountsType
<1> QED BY <1>1, <1>2, <1>3, <1>4, <1>5, <1>6, TypeParts

LEMMA NextClock == TypeOK /\ [Next]_vars => ClockType'
<1> SUFFICES ASSUME TypeOK, [Next]_vars PROVE ClockType'
  OBVIOUS
<1>0. ClockType
  BY TypeParts
<1>1. CASE UNCHANGED <<now, givenVars>>
  BY <1>0, <1>1 DEF ClockType, givenVars
<1>2. ASSUME NEW t \in Tokens, Revoke(t) PROVE ClockType'
  BY <1>0, <1>2, AuthAssumption DEF ClockType, Revoke, Never
<1>3. CASE Tick
  BY <1>0, <1>3, AuthAssumption DEF ClockType, Tick, givenVars
<1> QED
  BY <1>1, <1>2, <1>3, Steps
     DEF Arrive, CallerGone, Lookup, GoneBeforeJoin, JoinShared, JoinRefused, JoinStarts, Receive,
         StopWaiting, Leave, Authorize, FlightLookup, IssuerAnswers, FetchReturns, FetchEnds,
         RunForgets, RunReleases, RunCloses, vars

LEMMA NextPlaces == TypeOK /\ FlightInv /\ [Next]_vars => PlacesType'
<1> SUFFICES ASSUME TypeOK, FlightInv, [Next]_vars PROVE PlacesType'
  OBVIOUS
<1>0. PlacesType /\ now \in 0..MaxTime /\ PendingType
  BY TypeParts DEF ClockType
<1> USE DEF callerVars, flightVars, PlacesType
<1>1. ASSUME NEW c \in Callers,
             Arrive(c) \/ CallerGone(c) \/ GoneBeforeJoin(c) \/ JoinRefused(c) \/ Receive(c)
             \/ StopWaiting(c) \/ Authorize(c)
      PROVE  PlacesType'
  BY <1>0, <1>1 DEF Arrive, CallerGone, GoneBeforeJoin, JoinRefused, Receive, StopWaiting, Authorize
<1>2. ASSUME NEW c \in Callers, Lookup(c) PROVE PlacesType'
  BY <1>0, <1>2 DEF Lookup
<1>3. ASSUME NEW c \in Callers, JoinShared(c) \/ JoinStarts(c) PROVE PlacesType'
  BY <1>0, <1>3 DEF JoinShared, JoinStarts, PendingType
<1>4. ASSUME NEW c \in Callers, Leave(c) PROVE PlacesType'
  <2>1. UNCHANGED <<gone, fpc, started>> /\ (canceled' = canceled \cup {joined[c]} \/ UNCHANGED canceled)
        /\ joined[c] \in Callers /\ UNCHANGED joined
    BY <1>4 DEF Leave, FlightInv, JoinedOwn
  <2>2. cpc' = [cpc EXCEPT ![c] = IF reply[c].kind # "claims" THEN "done" ELSE "authorize"]
    BY <1>4 DEF Leave, AfterLeave
  <2> QED BY <1>0, <2>1, <2>2
<1>5. ASSUME NEW f \in Callers, FlightLookup(f) PROVE PlacesType'
  BY <1>0, <1>5 DEF FlightLookup
<1>6. ASSUME NEW f \in Callers, IssuerAnswers(f) \/ FetchReturns(f) \/ RunForgets(f) \/ RunReleases(f)
                                \/ RunCloses(f)
      PROVE  PlacesType'
  BY <1>0, <1>6 DEF IssuerAnswers, FetchReturns, RunForgets, RunReleases, RunCloses
<1>7. ASSUME NEW f \in Callers, NEW kind, FetchEnds(f, kind) PROVE PlacesType'
  BY <1>0, <1>7 DEF FetchEnds
<1>8. ASSUME NEW t, Revoke(t) PROVE PlacesType'
  BY <1>0, <1>8 DEF Revoke
<1>9. CASE Tick \/ UNCHANGED vars
  BY <1>0, <1>9 DEF Tick, vars
<1> HIDE DEF PlacesType
<1> QED BY <1>1, <1>2, <1>3, <1>4, <1>5, <1>6, <1>7, <1>8, <1>9, Steps

\* What forgetLocked and join make of the pending flights.
LEMMA ForgetPending ==
  ASSUME NEW f \in Callers, forgetLocked(f)
  PROVE  /\ Kept(pending', pending)
         /\ \A k \in DOMAIN pending : k \notin DOMAIN pending' <=> k = token[f] /\ pending[k] = f
<1>1. CASE token[f] \in DOMAIN pending /\ pending[token[f]] = f
  <2>1. pending' = Without(pending, {token[f]})
    BY <1>1 DEF forgetLocked
  <2>2. /\ DOMAIN Without(pending, {token[f]}) = DOMAIN pending \ {token[f]}
        /\ \A k \in DOMAIN Without(pending, {token[f]}) : Without(pending, {token[f]})[k] = pending[k]
    BY DEF Without
  <2> QED BY <1>1, <2>1, <2>2 DEF Kept
<1>2. CASE ~(token[f] \in DOMAIN pending /\ pending[token[f]] = f)
  BY <1>2 DEF forgetLocked, Kept
<1> QED BY <1>1, <1>2

LEMMA StartPending ==
  ASSUME NEW c \in Callers, JoinStarts(c)
  PROVE  /\ DOMAIN pending' = DOMAIN pending \cup {token[c]} /\ pending'[token[c]] = c
         /\ \A k \in DOMAIN pending \ {token[c]} : pending'[k] = pending[k]
<1>1. pending' = With(pending, token[c], c)
  BY DEF JoinStarts
<1>2. /\ DOMAIN With(pending, token[c], c) = DOMAIN pending \cup {token[c]}
      /\ With(pending, token[c], c)[token[c]] = c
      /\ \A k \in DOMAIN pending \ {token[c]} : With(pending, token[c], c)[k] = pending[k]
  BY DEF With
<1> QED BY <1>1, <1>2

LEMMA NextPending == TypeOK /\ FlightInv /\ [Next]_vars => PendingType'
<1> SUFFICES ASSUME TypeOK, FlightInv, [Next]_vars PROVE PendingType'
  OBVIOUS
<1>0. PendingType /\ token \in [Callers -> Tokens]
  BY TypeParts DEF ClockType
<1>1. CASE UNCHANGED pending
  BY <1>0, <1>1 DEF PendingType
<1>2. ASSUME NEW c \in Callers, JoinStarts(c) PROVE PendingType'
  <2>1. token[c] \in Tokens
    BY <1>0
  <2>2. /\ DOMAIN pending' = DOMAIN pending \cup {token[c]} /\ pending'[token[c]] = c
        /\ \A k \in DOMAIN pending \ {token[c]} : pending'[k] = pending[k]
    BY <1>2, StartPending
  <2> QED BY <1>0, <2>1, <2>2 DEF PendingType
<1>3. ASSUME NEW f \in Callers, forgetLocked(f) PROVE PendingType'
  BY <1>0, <1>3, ForgetPending DEF PendingType, Kept
<1>4. ASSUME NEW c \in Callers, Leave(c) PROVE PendingType'
  <2>1. joined[c] \in Callers
    BY <1>4 DEF Leave, FlightInv, JoinedOwn
  <2>2. UNCHANGED pending \/ forgetLocked(joined[c])
    BY <1>4 DEF Leave
  <2> QED BY <1>1, <1>3, <2>1, <2>2
<1>5. ASSUME NEW f \in Callers, RunForgets(f) PROVE PendingType'
  BY <1>3, <1>5 DEF RunForgets
<1> QED
  BY <1>1, <1>2, <1>4, <1>5, Steps
     DEF Arrive, CallerGone, Lookup, GoneBeforeJoin, JoinShared, JoinRefused, Receive, StopWaiting,
         Authorize, FlightLookup, IssuerAnswers, FetchReturns, FetchEnds, RunReleases, RunCloses,
         Revoke, Tick, vars

LEMMA CacheFinite == TypeOK => IsFiniteSet(DOMAIN cache) /\ now \in Nat
<1> SUFFICES ASSUME TypeOK PROVE IsFiniteSet(DOMAIN cache) /\ now \in Nat
  OBVIOUS
<1>1. DOMAIN cache \in SUBSET Tokens /\ IsFiniteSet(Tokens)
  BY AuthAssumption DEF TypeOK
<1>2. IsFiniteSet(DOMAIN cache)
  BY <1>1, FS_Subset
<1>3. now \in Nat
  BY AuthAssumption DEF TypeOK
<1> QED BY <1>2, <1>3

LEMMA NextCache == TypeOK /\ [Next]_vars => CacheType'
<1> SUFFICES ASSUME TypeOK, [Next]_vars PROVE CacheType'
  OBVIOUS
<1>0. CacheType /\ token \in [Callers -> Tokens] /\ answer \in [Callers -> Claims]
  BY TypeParts DEF ClockType, RepliesType
<1>1. CASE UNCHANGED cache
  BY <1>0, <1>1 DEF CacheType
<1>2. CASE Kept(cache', cache)
  <2>1. DOMAIN cache' \in SUBSET DOMAIN cache
    BY <1>2 DEF Kept
  <2>2. /\ Cardinality(DOMAIN cache') <= Cardinality(DOMAIN cache)
        /\ Cardinality(DOMAIN cache') \in Nat /\ Cardinality(DOMAIN cache) \in Nat
    BY <2>1, CacheFinite, FS_Subset, FS_CardinalityType
  <2>3. Cardinality(DOMAIN cache') <= MaxEntries
    BY <1>0, <2>2, AuthAssumption DEF CacheType
  <2> QED BY <1>0, <1>2, <2>1, <2>3 DEF CacheType, Kept
<1>3. ASSUME NEW c \in Callers, Lookup(c) \/ FlightLookup(c) PROVE CacheType'
  BY <1>2, <1>3, GetKeeps DEF Lookup, FlightLookup
<1>4. ASSUME NEW f \in Callers, FetchReturns(f) PROVE CacheType'
  <2>1. CASE UNCHANGED cache
    BY <1>1, <2>1
  <2>2. CASE Put(token[f], answer[f])
    <3>1. answer[f] \in Claims /\ answer[f].exp \in Nat /\ token[f] \in Tokens
      BY <1>0 DEF Claims
    <3>2. /\ \A k \in DOMAIN cache' :
                \/ k \in DOMAIN cache /\ cache'[k] = cache[k]
                \/ /\ k = token[f] /\ cache'[k].claims = answer[f] /\ cache'[k].expires \in Nat
                   /\ cache'[k] = [claims |-> cache'[k].claims, expires |-> cache'[k].expires]
          /\ Cardinality(DOMAIN cache') <= MaxEntries
      BY <1>0, <2>2, <3>1, CacheFinite, PutEntry DEF CacheType
    <3>3. ASSUME NEW k \in DOMAIN cache' PROVE k \in Tokens /\ cache'[k] \in Entries
      <4>1. CASE k \in DOMAIN cache /\ cache'[k] = cache[k]
        BY <1>0, <4>1 DEF CacheType
      <4>2. CASE k = token[f] /\ cache'[k] = [claims |-> answer[f], expires |-> cache'[k].expires]
                 /\ cache'[k].expires \in Nat
        BY <3>1, <4>2 DEF Entries
      <4> QED BY <3>2, <4>1, <4>2
    <3> QED BY <3>2, <3>3 DEF CacheType
  <2> QED BY <1>4, <2>1, <2>2 DEF FetchReturns
<1> QED
  BY <1>1, <1>3, <1>4, Steps
     DEF Arrive, CallerGone, GoneBeforeJoin, JoinShared, JoinRefused, JoinStarts, Receive,
         StopWaiting, Leave, Authorize, IssuerAnswers, FetchEnds, RunForgets, RunReleases, RunCloses,
         Revoke, Tick, vars

LEMMA NextReplies == TypeOK /\ FlightInv /\ [Next]_vars => RepliesType'
<1> SUFFICES ASSUME TypeOK, FlightInv, [Next]_vars PROVE RepliesType'
  OBVIOUS
<1>0. RepliesType
  BY TypeParts
<1>1. CASE UNCHANGED <<reply, answer, result, outcome>>
  BY <1>0, <1>1 DEF RepliesType
<1>k. \A key : Hit(key) => Found(cache[key].claims) \in Replies
  <2>1. \A key : Hit(key) => cache[key].claims \in Claims
    BY TypeParts DEF CacheType, Hit, Entries
  <2> QED BY <2>1, ResultsType
<1> USE DEF callerVars, flightVars, RepliesType
<1>2. ASSUME NEW c \in Callers, Lookup(c) PROVE RepliesType'
  <2>1. reply' = [reply EXCEPT ![c] = IF Hit(token[c]) THEN Found(cache[token[c]].claims) ELSE @]
        /\ UNCHANGED <<answer, result, outcome>>
    BY <1>2 DEF Lookup
  <2> QED BY <1>0, <1>k, <2>1
<1>3. ASSUME NEW c \in Callers, GoneBeforeJoin(c) \/ JoinRefused(c) PROVE RepliesType'
  <2>1. \E kind \in {"canceled", "overload"} : outcome' = [outcome EXCEPT ![c] = kind]
    BY <1>3 DEF GoneBeforeJoin, JoinRefused
  <2>2. UNCHANGED <<reply, answer, result>>
    BY <1>3 DEF GoneBeforeJoin, JoinRefused
  <2> QED BY <1>0, <2>1, <2>2 DEF Kinds
<1>4. ASSUME NEW c \in Callers, Receive(c) PROVE RepliesType'
  <2>1. result[joined[c]] \in Replies
    BY <1>0, <1>4 DEF Receive, FlightInv, JoinedOwn
  <2> QED BY <1>0, <1>4, <2>1 DEF Receive
<1>5. ASSUME NEW c \in Callers, StopWaiting(c) PROVE RepliesType'
  <2>1. Failed("canceled") \in Replies
    BY ResultsType DEF Kinds
  <2> QED BY <1>0, <1>5, <2>1 DEF StopWaiting
<1>6. ASSUME NEW c \in Callers, Leave(c) PROVE RepliesType'
  <2>1. /\ outcome' = [outcome EXCEPT ![c] = IF reply[c].kind # "claims" THEN reply[c].kind ELSE @]
        /\ UNCHANGED <<reply, answer, result>>
    BY <1>6 DEF Leave, AfterLeave
  <2>2. reply[c].kind \in Kinds
    BY <1>0 DEF Replies
  <2> QED BY <1>0, <2>1, <2>2
<1>7. ASSUME NEW c \in Callers, Authorize(c) PROVE RepliesType'
  <2>1. PICK scoped \in BOOLEAN : outcome' = [outcome EXCEPT ![c] = authorize(reply[c].claims, scoped)]
    BY <1>7 DEF Authorize
  <2>2. authorize(reply[c].claims, scoped) \in {"accepted", "rejected", "denied"}
    BY DEF authorize
  <2> QED BY <1>0, <1>7, <2>1, <2>2 DEF Authorize
<1>8. ASSUME NEW f \in Callers, FlightLookup(f) PROVE RepliesType'
  <2>1. result' = [result EXCEPT ![f] = IF Hit(token[f]) THEN Found(cache[token[f]].claims) ELSE @]
        /\ UNCHANGED <<reply, answer, outcome>>
    BY <1>8 DEF FlightLookup
  <2> QED BY <1>0, <1>k, <2>1
<1>9. ASSUME NEW f \in Callers, IssuerAnswers(f) PROVE RepliesType'
  <2> DEFINE claims == [token |-> token[f], seen |-> now, active |-> revokedAt[token[f]] = Never,
                        nbf |-> life[token[f]].nbf, exp |-> life[token[f]].exp]
  <2>1. token[f] \in Tokens /\ life[token[f]] \in [nbf : Nat, exp : Nat] /\ now \in 0..MaxTime
    BY TypeParts, AuthAssumption DEF ClockType
  <2>2. claims \in Claims
    BY <2>1 DEF Claims
  <2>3. answer' = [answer EXCEPT ![f] = claims] /\ UNCHANGED <<reply, result, outcome>>
    BY <1>9 DEF IssuerAnswers
  <2> HIDE DEF claims
  <2> QED BY <1>0, <2>2, <2>3
<1>10. ASSUME NEW f \in Callers, FetchReturns(f) PROVE RepliesType'
  <2>1. Found(answer[f]) \in Replies /\ NoClaims \in Claims
    BY <1>0, ResultsType
  <2> QED BY <1>0, <1>10, <2>1 DEF FetchReturns
<1>11. ASSUME NEW f \in Callers, NEW kind \in {"unavailable", "abandoned"}, FetchEnds(f, kind)
       PROVE  RepliesType'
  <2>1. Failed(kind) \in Replies /\ NoClaims \in Claims
    BY ResultsType DEF Kinds
  <2> QED BY <1>0, <1>11, <2>1 DEF FetchEnds
<1> HIDE DEF RepliesType
<1>12. ASSUME NEW c \in Callers, Arrive(c) \/ CallerGone(c) \/ JoinShared(c) \/ JoinStarts(c)
                                 \/ RunForgets(c) \/ RunReleases(c) \/ RunCloses(c)
       PROVE  RepliesType'
  BY <1>1, <1>12 DEF Arrive, CallerGone, JoinShared, JoinStarts, RunForgets, RunReleases, RunCloses
<1>13. ASSUME NEW t, Revoke(t) PROVE RepliesType'
  BY <1>1, <1>13 DEF Revoke
<1>14. CASE Tick \/ UNCHANGED vars
  BY <1>1, <1>14 DEF Tick, vars
<1> QED
  BY <1>2, <1>3, <1>4, <1>5, <1>6, <1>7, <1>8, <1>9, <1>10, <1>11, <1>12, <1>13, <1>14, Steps

--------------------------------------------------------------------------------
(* The callers that wait for a flight *)

LEMMA WaitingFinite == \A f : IsFiniteSet(Waiting(f)) /\ Cardinality(Waiting(f)) \in Nat
<1> TAKE f
<1>1. Waiting(f) \in SUBSET Callers /\ IsFiniteSet(Callers)
  BY AuthAssumption DEF Waiting
<1>2. IsFiniteSet(Waiting(f))
  BY <1>1, FS_Subset
<1> QED BY <1>2, FS_CardinalityType

\* A step lets one caller join or leave a flight, and counts it, or leaves those who
\* wait for the flight as they are.
LEMMA WaitingStep ==
  ASSUME TypeOK, FlightInv, [Next]_vars, NEW f \in Callers
  PROVE  \/ Waiting(f)' = Waiting(f) /\ waiters'[f] = waiters[f]
         \/ \E c \in Callers :
              /\ JoinShared(c) /\ f = pending[token[c]] /\ token[c] \in DOMAIN pending
              /\ c \notin Waiting(f) /\ Waiting(f)' = Waiting(f) \cup {c}
              /\ waiters'[f] = waiters[f] + 1
         \/ JoinStarts(f) /\ Waiting(f) = {} /\ Waiting(f)' = {f} /\ waiters'[f] = 1
         \/ \E c \in Callers :
              /\ Leave(c) /\ joined[c] = f /\ c \in Waiting(f)
              /\ Waiting(f)' = Waiting(f) \ {c} /\ waiters'[f] = waiters[f] - 1
<1> DEFINE Goal ==
         \/ Waiting(f)' = Waiting(f) /\ waiters'[f] = waiters[f]
         \/ \E c \in Callers :
              /\ JoinShared(c) /\ f = pending[token[c]] /\ token[c] \in DOMAIN pending
              /\ c \notin Waiting(f) /\ Waiting(f)' = Waiting(f) \cup {c}
              /\ waiters'[f] = waiters[f] + 1
         \/ JoinStarts(f) /\ Waiting(f) = {} /\ Waiting(f)' = {f} /\ waiters'[f] = 1
         \/ \E c \in Callers :
              /\ Leave(c) /\ joined[c] = f /\ c \in Waiting(f)
              /\ Waiting(f)' = Waiting(f) \ {c} /\ waiters'[f] = waiters[f] - 1
<1>t. PlacesType /\ PendingType /\ CountsType
  BY TypeParts
<1>1. ASSUME UNCHANGED <<joined, waiters>>,
             \A c \in Callers : cpc'[c] \in {"wait", "leave"} <=> cpc[c] \in {"wait", "leave"}
      PROVE  Goal
  <2>1. Waiting(f)' = Waiting(f)
    BY <1>1 DEF Waiting
  <2> QED BY <1>1, <2>1
<1> USE DEF callerVars, flightVars
<1>2. ASSUME NEW c \in Callers,
             Arrive(c) \/ Lookup(c) \/ GoneBeforeJoin(c) \/ JoinRefused(c) \/ Receive(c)
             \/ StopWaiting(c) \/ Authorize(c)
      PROVE  Goal
  <2>1. \A d \in Callers : cpc'[d] \in {"wait", "leave"} <=> cpc[d] \in {"wait", "leave"}
    BY <1>2, <1>t DEF Arrive, Lookup, GoneBeforeJoin, JoinRefused, Receive, StopWaiting, Authorize,
                      PlacesType
  <2>2. UNCHANGED <<joined, waiters>>
    BY <1>2 DEF Arrive, Lookup, GoneBeforeJoin, JoinRefused, Receive, StopWaiting, Authorize
  <2> QED BY <1>1, <2>1, <2>2
<1>3. ASSUME NEW c \in Callers, JoinShared(c) PROVE Goal
  <2> DEFINE p == pending[token[c]]
  <2>1. /\ cpc[c] = "join" /\ token[c] \in DOMAIN pending /\ p \in Callers
        /\ cpc' = [cpc EXCEPT ![c] = "wait"] /\ joined' = [joined EXCEPT ![c] = p]
        /\ waiters' = [waiters EXCEPT ![p] = @ + 1]
    BY <1>3, <1>t DEF JoinShared, PendingType
  <2>2. CASE f = p
    <3>1. c \notin Waiting(f) /\ Waiting(f)' = Waiting(f) \cup {c}
      BY <1>t, <2>1, <2>2 DEF Waiting, PlacesType
    <3>2. waiters'[f] = waiters[f] + 1
      BY <1>t, <2>1, <2>2 DEF CountsType
    <3> QED BY <1>3, <2>1, <2>2, <3>1, <3>2
  <2>3. CASE f # p
    <3>1. Waiting(f)' = Waiting(f)
      BY <1>t, <2>1, <2>3 DEF Waiting, PlacesType
    <3>2. waiters'[f] = waiters[f]
      BY <1>t, <2>1, <2>3 DEF CountsType
    <3> QED BY <3>1, <3>2
  <2> QED BY <2>2, <2>3
<1>4. ASSUME NEW c \in Callers, JoinStarts(c) PROVE Goal
  <2>1. /\ cpc[c] = "join" /\ cpc' = [cpc EXCEPT ![c] = "wait"] /\ joined' = [joined EXCEPT ![c] = c]
        /\ waiters' = [waiters EXCEPT ![c] = 1]
    BY <1>4 DEF JoinStarts
  <2>2. CASE f = c
    <3>1. Waiting(c) = {}
      <4>1. fpc[c] = "none"
        BY <2>1 DEF FlightInv, NoEarlyFlight
      <4> QED BY <4>1 DEF FlightInv, JoinedOwn, Waiting
    <3>2. Waiting(f)' = {f}
      <4>1. \A d \in Callers : d # c => ~(cpc[d] \in {"wait", "leave"} /\ joined[d] = c)
        BY <3>1 DEF Waiting
      <4> QED BY <1>t, <2>1, <2>2, <4>1 DEF Waiting, PlacesType
    <3>3. waiters'[f] = 1
      BY <1>t, <2>1, <2>2 DEF CountsType
    <3> QED BY <1>4, <2>2, <3>1, <3>2, <3>3
  <2>3. CASE f # c
    <3>1. Waiting(f)' = Waiting(f)
      BY <1>t, <2>1, <2>3 DEF Waiting, PlacesType
    <3>2. waiters'[f] = waiters[f]
      BY <1>t, <2>1, <2>3 DEF CountsType
    <3> QED BY <3>1, <3>2
  <2> QED BY <2>2, <2>3
<1>5. ASSUME NEW c \in Callers, Leave(c) PROVE Goal
  <2>1. /\ cpc[c] = "leave" /\ UNCHANGED joined /\ joined[c] \in Callers
        /\ waiters' = [waiters EXCEPT ![joined[c]] = @ - 1]
    BY <1>5 DEF Leave, FlightInv, JoinedOwn
  <2>2. cpc' = [cpc EXCEPT ![c] = IF reply[c].kind # "claims" THEN "done" ELSE "authorize"]
    BY <1>5 DEF Leave, AfterLeave
  <2>3. CASE f = joined[c]
    <3>1. c \in Waiting(f) /\ Waiting(f)' = Waiting(f) \ {c}
      BY <1>t, <2>1, <2>2, <2>3 DEF Waiting, PlacesType
    <3>2. waiters'[f] = waiters[f] - 1
      BY <1>t, <2>1, <2>3 DEF CountsType
    <3> QED BY <1>5, <2>3, <3>1, <3>2
  <2>4. CASE f # joined[c]
    <3>1. Waiting(f)' = Waiting(f)
      BY <1>t, <2>1, <2>2, <2>4 DEF Waiting, PlacesType
    <3>2. waiters'[f] = waiters[f]
      BY <1>t, <2>1, <2>4 DEF CountsType
    <3> QED BY <3>1, <3>2
  <2> QED BY <2>3, <2>4
<1>6. CASE UNCHANGED <<cpc, joined, waiters>>
  BY <1>1, <1>6
<1>7. ASSUME NEW c \in Callers, CallerGone(c) \/ FlightLookup(c) \/ IssuerAnswers(c) \/ FetchReturns(c)
                                \/ RunForgets(c) \/ RunReleases(c) \/ RunCloses(c)
      PROVE  UNCHANGED <<cpc, joined, waiters>>
  BY <1>7 DEF CallerGone, FlightLookup, IssuerAnswers, FetchReturns, RunForgets, RunReleases, RunCloses
<1>8. ASSUME NEW c, NEW kind, FetchEnds(c, kind) PROVE UNCHANGED <<cpc, joined, waiters>>
  BY <1>8 DEF FetchEnds
<1>9. ASSUME NEW t, Revoke(t) PROVE UNCHANGED <<cpc, joined, waiters>>
  BY <1>9 DEF Revoke
<1>10. Tick \/ UNCHANGED vars => UNCHANGED <<cpc, joined, waiters>>
  BY DEF Tick, vars
<1>11. \/ \E c \in Callers :
            \/ Arrive(c) \/ Lookup(c) \/ GoneBeforeJoin(c) \/ JoinRefused(c) \/ Receive(c)
            \/ StopWaiting(c) \/ Authorize(c)
       \/ \E c \in Callers : JoinShared(c)
       \/ \E c \in Callers : JoinStarts(c)
       \/ \E c \in Callers : Leave(c)
       \/ UNCHANGED <<cpc, joined, waiters>>
  BY <1>7, <1>8, <1>9, <1>10, Steps
<1> QED BY <1>2, <1>3, <1>4, <1>5, <1>6, <1>11

\* join and leave count the callers they let in and out.
LEMMA NextCounted ==
  TypeOK /\ FlightInv /\ [Next]_vars => Counted' /\ waiters' \in [Callers -> Nat]
<1> SUFFICES ASSUME TypeOK, FlightInv, [Next]_vars PROVE Counted' /\ waiters' \in [Callers -> Nat]
  OBVIOUS
<1>1. ASSUME NEW f \in Callers
      PROVE  waiters'[f] = Cardinality(Waiting(f)') /\ Cardinality(Waiting(f)') \in Nat
  <2>0. waiters[f] = Cardinality(Waiting(f)) /\ IsFiniteSet(Waiting(f)) /\ Cardinality(Waiting(f)) \in Nat
    BY WaitingFinite DEF FlightInv, Counted
  <2>1. CASE Waiting(f)' = Waiting(f) /\ waiters'[f] = waiters[f]
    BY <2>0, <2>1
  <2>2. ASSUME NEW c, c \notin Waiting(f), Waiting(f)' = Waiting(f) \cup {c},
               waiters'[f] = waiters[f] + 1
        PROVE  waiters'[f] = Cardinality(Waiting(f)') /\ Cardinality(Waiting(f)') \in Nat
    <3>1. Cardinality(Waiting(f) \cup {c}) = Cardinality(Waiting(f)) + 1
      BY <2>0, <2>2, FS_AddElement
    <3> QED BY <2>0, <2>2, <3>1
  <2>3. CASE Waiting(f)' = {f} /\ waiters'[f] = 1
    BY <2>3, FS_Singleton
  <2>4. ASSUME NEW c, c \in Waiting(f), Waiting(f)' = Waiting(f) \ {c},
               waiters'[f] = waiters[f] - 1
        PROVE  waiters'[f] = Cardinality(Waiting(f)') /\ Cardinality(Waiting(f)') \in Nat
    <3>1. /\ Cardinality(Waiting(f) \ {c}) = Cardinality(Waiting(f)) - 1
          /\ Cardinality(Waiting(f) \ {c}) \in Nat
      BY <2>0, <2>4, FS_RemoveElement, FS_CardinalityType
    <3> QED BY <2>0, <2>4, <3>1
  <2> QED BY <2>1, <2>2, <2>3, <2>4, WaitingStep
<1>2. \E S : waiters' \in [Callers -> S]
  <2>1. waiters \in [Callers -> Nat]
    BY DEF TypeOK
  <2> USE DEF flightVars
  <2>2. \/ UNCHANGED waiters
        \/ \E f, v : waiters' = [waiters EXCEPT ![f] = v]
    <3>1. ASSUME NEW c \in Callers, JoinShared(c) \/ JoinStarts(c) \/ Leave(c)
          PROVE  \E f, v : waiters' = [waiters EXCEPT ![f] = v]
      <4>1. CASE JoinShared(c)
        BY <4>1 DEF JoinShared
      <4>2. CASE JoinStarts(c)
        BY <4>2 DEF JoinStarts
      <4>3. CASE Leave(c)
        BY <4>3 DEF Leave
      <4> QED BY <3>1, <4>1, <4>2, <4>3
    <3> QED
      BY <3>1, Steps
         DEF Arrive, CallerGone, Lookup, GoneBeforeJoin, JoinRefused, Receive, StopWaiting,
             Authorize, FlightLookup, IssuerAnswers, FetchReturns, FetchEnds, RunForgets,
             RunReleases, RunCloses, Revoke, Tick, vars
  <2>3. ASSUME NEW f, NEW v, waiters' = [waiters EXCEPT ![f] = v]
        PROVE  waiters' \in [Callers -> Nat \cup {v}]
    BY <2>1, <2>3
  <2> QED BY <2>1, <2>2, <2>3
<1>3. waiters' \in [Callers -> Nat]
  BY <1>1, <1>2
<1> QED BY <1>1, <1>3 DEF Counted

\* introspection_max_concurrent is read once.
LEMMA LimitKept == [Next]_vars => UNCHANGED maxConcurrent
<1> SUFFICES ASSUME [Next]_vars PROVE UNCHANGED maxConcurrent
  OBVIOUS
<1> QED
  BY Steps
     DEF Arrive, CallerGone, Lookup, GoneBeforeJoin, JoinShared, JoinRefused, JoinStarts, Receive,
         StopWaiting, Leave, Authorize, FlightLookup, IssuerAnswers, FetchReturns, FetchEnds,
         RunForgets, RunReleases, RunCloses, Revoke, Tick, vars, givenVars

\* A slot is taken by join and given back by run.
LEMMA NextSlots ==
  TypeOK /\ FlightInv /\ [Next]_vars => SlotsHeld' /\ slots' \in 0..maxConcurrent
<1> SUFFICES ASSUME TypeOK, FlightInv, [Next]_vars PROVE SlotsHeld' /\ slots' \in 0..maxConcurrent
  OBVIOUS
<1>0. /\ slots = Cardinality(Holding) /\ slots \in 0..maxConcurrent /\ PlacesType
      /\ maxConcurrent \in Nat
  BY TypeParts DEF FlightInv, SlotsHeld, CountsType
<1>f. IsFiniteSet(Holding)
  <2>1. Holding \in SUBSET Callers /\ IsFiniteSet(Callers)
    BY AuthAssumption DEF Holding
  <2> QED BY <2>1, FS_Subset
<1>1. CASE UNCHANGED slots /\ Holding' = Holding
  BY <1>0, <1>1 DEF SlotsHeld
<1>2. ASSUME NEW c \in Callers, JoinStarts(c) PROVE SlotsHeld' /\ slots' \in 0..maxConcurrent
  <2>1. /\ cpc[c] = "join" /\ slots < maxConcurrent /\ slots' = slots + 1
        /\ fpc' = [fpc EXCEPT ![c] = "get"]
    BY <1>2 DEF JoinStarts
  <2>2. fpc[c] = "none"
    BY <2>1 DEF FlightInv, NoEarlyFlight
  <2>3. c \notin Holding /\ Holding' = Holding \cup {c}
    BY <1>0, <2>1, <2>2 DEF Holding, PlacesType
  <2>4. Cardinality(Holding \cup {c}) = Cardinality(Holding) + 1
    BY <1>f, <2>3, FS_AddElement
  <2> QED BY <1>0, <2>1, <2>3, <2>4 DEF SlotsHeld
<1>3. ASSUME NEW f \in Callers, RunReleases(f) PROVE SlotsHeld' /\ slots' \in 0..maxConcurrent
  <2>1. fpc[f] = "release" /\ slots' = slots - 1 /\ fpc' = [fpc EXCEPT ![f] = "close"]
    BY <1>3 DEF RunReleases
  <2>2. f \in Holding /\ Holding' = Holding \ {f}
    BY <1>0, <2>1 DEF Holding, PlacesType
  <2>3. Cardinality(Holding \ {f}) = Cardinality(Holding) - 1 /\ Cardinality(Holding \ {f}) \in Nat
    BY <1>f, <2>2, FS_RemoveElement, FS_CardinalityType
  <2> QED BY <1>0, <2>1, <2>2, <2>3 DEF SlotsHeld
<1>4. ASSUME NEW f \in Callers, FlightLookup(f) \/ FetchReturns(f) \/ RunForgets(f) \/ RunCloses(f)
                                \/ \E kind \in {"unavailable", "abandoned"} : FetchEnds(f, kind)
      PROVE  UNCHANGED slots /\ Holding' = Holding
  <2>1. UNCHANGED slots
    BY <1>4 DEF FlightLookup, FetchReturns, RunForgets, RunCloses, FetchEnds
  <2>2. \/ \E to \in {"get", "fetch", "forget", "release"} :
             /\ fpc[f] \in {"get", "fetch", "forget", "release"} /\ fpc' = [fpc EXCEPT ![f] = to]
        \/ fpc[f] = "close" /\ fpc' = [fpc EXCEPT ![f] = "done"]
    BY <1>4 DEF FlightLookup, FetchReturns, RunForgets, RunCloses, FetchEnds
  <2>3. Holding' = Holding
    BY <1>0, <2>2 DEF Holding, PlacesType
  <2> QED BY <2>1, <2>3
<1>5. \/ \E c \in Callers : JoinStarts(c)
      \/ \E f \in Callers : RunReleases(f)
      \/ \E f \in Callers : FlightLookup(f) \/ FetchReturns(f) \/ RunForgets(f) \/ RunCloses(f)
                            \/ \E kind \in {"unavailable", "abandoned"} : FetchEnds(f, kind)
      \/ UNCHANGED <<slots, fpc>>
  BY Steps
     DEF Arrive, CallerGone, Lookup, GoneBeforeJoin, JoinShared, JoinRefused, Receive, StopWaiting,
         Leave, Authorize, IssuerAnswers, Revoke, Tick, vars, flightVars
<1>6. UNCHANGED fpc => Holding' = Holding
  BY DEF Holding
<1> QED BY <1>1, <1>2, <1>3, <1>4, <1>5, <1>6

\* How a flight moves.
LEMMA FlightMoves ==
  ASSUME TypeOK, [Next]_vars, NEW f \in Callers
  PROVE  \/ fpc'[f] = fpc[f]
         \/ JoinStarts(f) /\ fpc'[f] = "get"
         \/ fpc[f] = "get" /\ fpc'[f] \in {"fetch", "forget"}
         \/ fpc[f] = "fetch" /\ fpc'[f] = "forget"
         \/ RunForgets(f) /\ fpc[f] = "forget" /\ fpc'[f] = "release"
         \/ RunReleases(f) /\ fpc[f] = "release" /\ fpc'[f] = "close"
         \/ fpc[f] = "close" /\ fpc'[f] = "done"
<1>0. fpc \in [Callers -> {"none", "get", "fetch", "forget", "release", "close", "done"}]
  BY DEF TypeOK
<1>1. \/ UNCHANGED fpc
      \/ \E c \in Callers : JoinStarts(c) /\ fpc' = [fpc EXCEPT ![c] = "get"]
      \/ \E c \in Callers, to \in {"fetch", "forget"} : fpc[c] = "get" /\ fpc' = [fpc EXCEPT ![c] = to]
      \/ \E c \in Callers : fpc[c] = "fetch" /\ fpc' = [fpc EXCEPT ![c] = "forget"]
      \/ \E c \in Callers : RunForgets(c) /\ fpc[c] = "forget" /\ fpc' = [fpc EXCEPT ![c] = "release"]
      \/ \E c \in Callers : RunReleases(c) /\ fpc[c] = "release" /\ fpc' = [fpc EXCEPT ![c] = "close"]
      \/ \E c \in Callers : fpc[c] = "close" /\ fpc' = [fpc EXCEPT ![c] = "done"]
  BY Steps
     DEF Arrive, CallerGone, Lookup, GoneBeforeJoin, JoinShared, JoinRefused, JoinStarts, Receive,
         StopWaiting, Leave, Authorize, FlightLookup, IssuerAnswers, FetchReturns, FetchEnds,
         RunForgets, RunReleases, RunCloses, Revoke, Tick, vars, flightVars
<1> QED BY <1>0, <1>1

\* A flight is canceled by run on its way out, or by the last caller to leave it,
\* which forgets it too.
LEMMA CancelSteps ==
  ASSUME TypeOK, FlightInv, [Next]_vars
  PROVE  \/ UNCHANGED canceled
         \/ \E f \in Callers : RunReleases(f) /\ fpc[f] = "release" /\ canceled' = canceled \cup {f}
         \/ \E c \in Callers : /\ Leave(c) /\ joined[c] \in Callers /\ waiters[joined[c]] = 1
                               /\ forgetLocked(joined[c]) /\ canceled' = canceled \cup {joined[c]}
<1>1. ASSUME NEW c \in Callers, Leave(c) PROVE joined[c] \in Callers
  BY <1>1 DEF Leave, FlightInv, JoinedOwn
<1> QED
  BY <1>1, Steps
     DEF Arrive, CallerGone, Lookup, GoneBeforeJoin, JoinShared, JoinRefused, JoinStarts, Receive,
         StopWaiting, Leave, Authorize, FlightLookup, IssuerAnswers, FetchReturns, FetchEnds,
         RunForgets, RunReleases, RunCloses, Revoke, Tick, vars, flightVars

LEMMA PendingSteps ==
  ASSUME TypeOK, FlightInv, [Next]_vars
  PROVE  \/ UNCHANGED pending
         \/ \E c \in Callers : JoinStarts(c)
         \/ \E f \in Callers : RunForgets(f) /\ forgetLocked(f) /\ fpc'[f] = "release"
         \/ \E f \in Callers : forgetLocked(f) /\ f \in canceled'
<1>1. ASSUME NEW c \in Callers, Leave(c)
      PROVE  UNCHANGED pending \/ \E f \in Callers : forgetLocked(f) /\ f \in canceled'
  <2>1. joined[c] \in Callers
    BY <1>1 DEF Leave, FlightInv, JoinedOwn
  <2> QED BY <1>1, <2>1 DEF Leave
<1>2. ASSUME NEW f \in Callers, RunForgets(f) PROVE forgetLocked(f) /\ fpc'[f] = "release"
  BY <1>2 DEF RunForgets, TypeOK
<1> QED
  BY <1>1, <1>2, Steps
     DEF Arrive, CallerGone, Lookup, GoneBeforeJoin, JoinShared, JoinRefused, Receive, StopWaiting,
         Authorize, FlightLookup, IssuerAnswers, FetchReturns, FetchEnds, RunReleases, RunCloses,
         Revoke, Tick, vars

\* How a caller comes to wait.
LEMMA CallerMoves ==
  ASSUME TypeOK, [Next]_vars, NEW c \in Callers
  PROVE  /\ cpc'[c] \in {"idle", "lookup", "join"} =>
              cpc[c] \in {"idle", "lookup", "join"} /\ ~JoinStarts(c)
         /\ cpc'[c] \in {"wait", "leave"} =>
              \/ cpc[c] \in {"wait", "leave"} /\ joined'[c] = joined[c]
              \/ /\ JoinShared(c) /\ token[c] \in DOMAIN pending /\ joined'[c] = pending[token[c]]
                 /\ UNCHANGED <<pending, canceled, fpc>>
              \/ JoinStarts(c) /\ joined'[c] = c /\ fpc'[c] = "get" /\ UNCHANGED canceled
<1>0. cpc \in [Callers -> {"idle", "lookup", "join", "wait", "leave", "authorize", "done"}]
      /\ joined \in [Callers -> Callers \cup {Nobody}] /\ fpc \in [Callers -> {"none", "get", "fetch",
           "forget", "release", "close", "done"}]
  BY DEF TypeOK
<1> USE DEF callerVars, flightVars
<1>1. ~JoinStarts(c) \/ cpc'[c] = "wait"
  BY <1>0 DEF JoinStarts
<1>2. \/ UNCHANGED <<cpc, joined>>
      \/ \E d \in Callers, to \in {"lookup", "join", "authorize", "done"} :
           /\ cpc[d] \in {"idle", "lookup", "join", "leave", "authorize"} /\ UNCHANGED joined
           /\ cpc' = [cpc EXCEPT ![d] = to] /\ (to \in {"lookup", "join"} => cpc[d] \in {"idle", "lookup"})
      \/ \E d \in Callers : cpc[d] = "wait" /\ UNCHANGED joined /\ cpc' = [cpc EXCEPT ![d] = "leave"]
      \/ \E d \in Callers : JoinShared(d)
      \/ \E d \in Callers : JoinStarts(d)
  BY Steps
     DEF Arrive, CallerGone, Lookup, GoneBeforeJoin, JoinRefused, Receive, StopWaiting, Leave,
         AfterLeave, Authorize, FlightLookup, IssuerAnswers, FetchReturns, FetchEnds, RunForgets,
         RunReleases, RunCloses, Revoke, Tick, vars
<1>3. ASSUME NEW d \in Callers, JoinShared(d)
      PROVE  /\ cpc' = [cpc EXCEPT ![d] = "wait"] /\ joined' = [joined EXCEPT ![d] = pending[token[d]]]
             /\ token[d] \in DOMAIN pending /\ UNCHANGED <<pending, canceled, fpc>>
  BY <1>3 DEF JoinShared
<1>4. ASSUME NEW d \in Callers, JoinStarts(d)
      PROVE  /\ cpc' = [cpc EXCEPT ![d] = "wait"] /\ joined' = [joined EXCEPT ![d] = d]
             /\ fpc' = [fpc EXCEPT ![d] = "get"] /\ UNCHANGED canceled
  BY <1>4 DEF JoinStarts
<1>5. CASE UNCHANGED <<cpc, joined>>
  BY <1>1, <1>5
<1>6. ASSUME NEW d \in Callers, NEW to \in {"lookup", "join", "authorize", "done"},
             cpc[d] \in {"idle", "lookup", "join", "leave", "authorize"}, UNCHANGED joined,
             cpc' = [cpc EXCEPT ![d] = to], to \in {"lookup", "join"} => cpc[d] \in {"idle", "lookup"}
      PROVE  /\ cpc'[c] \in {"idle", "lookup", "join"} => cpc[c] \in {"idle", "lookup", "join"}
             /\ cpc'[c] \in {"wait", "leave"} => cpc[c] \in {"wait", "leave"} /\ joined'[c] = joined[c]
  BY <1>0, <1>6
<1>7. ASSUME NEW d \in Callers, cpc[d] = "wait", UNCHANGED joined, cpc' = [cpc EXCEPT ![d] = "leave"]
      PROVE  /\ cpc'[c] \in {"idle", "lookup", "join"} => cpc[c] \in {"idle", "lookup", "join"}
             /\ cpc'[c] \in {"wait", "leave"} => cpc[c] \in {"wait", "leave"} /\ joined'[c] = joined[c]
  BY <1>0, <1>7
<1>8. ASSUME NEW d \in Callers, JoinShared(d)
      PROVE  /\ cpc'[c] \in {"idle", "lookup", "join"} => cpc[c] \in {"idle", "lookup", "join"}
             /\ cpc'[c] \in {"wait", "leave"} =>
                  \/ cpc[c] \in {"wait", "leave"} /\ joined'[c] = joined[c]
                  \/ /\ JoinShared(c) /\ token[c] \in DOMAIN pending /\ joined'[c] = pending[token[c]]
                     /\ UNCHANGED <<pending, canceled, fpc>>
  BY <1>0, <1>3, <1>8
<1>9. ASSUME NEW d \in Callers, JoinStarts(d)
      PROVE  /\ cpc'[c] \in {"idle", "lookup", "join"} => cpc[c] \in {"idle", "lookup", "join"}
             /\ cpc'[c] \in {"wait", "leave"} =>
                  \/ cpc[c] \in {"wait", "leave"} /\ joined'[c] = joined[c]
                  \/ JoinStarts(c) /\ joined'[c] = c /\ fpc'[c] = "get" /\ UNCHANGED canceled
  BY <1>0, <1>4, <1>9
<1> QED BY <1>1, <1>2, <1>5, <1>6, <1>7, <1>8, <1>9

LEMMA NextEarly == TypeOK /\ FlightInv /\ [Next]_vars => NoEarlyFlight'
<1> SUFFICES ASSUME TypeOK, FlightInv, [Next]_vars, NEW c \in Callers,
                    cpc'[c] \in {"idle", "lookup", "join"}
             PROVE  fpc'[c] = "none" /\ c \notin canceled'
  BY DEF NoEarlyFlight
<1>1. fpc[c] = "none" /\ c \notin canceled /\ ~JoinStarts(c)
  BY CallerMoves DEF FlightInv, NoEarlyFlight
<1>2. fpc'[c] = "none"
  BY <1>1, FlightMoves
<1>3. ASSUME NEW d \in Callers, Leave(d) PROVE joined[d] # c
  BY <1>1, <1>3 DEF Leave, FlightInv, JoinedOwn
<1> QED BY <1>1, <1>2, <1>3, CancelSteps

LEMMA TokensKept == [Next]_vars => UNCHANGED token
BY Steps
   DEF Arrive, CallerGone, Lookup, GoneBeforeJoin, JoinShared, JoinRefused, JoinStarts, Receive,
         StopWaiting, Leave, Authorize, FlightLookup, IssuerAnswers, FetchReturns, FetchEnds,
         RunForgets, RunReleases, RunCloses, Revoke, Tick, vars, givenVars

LEMMA NextJoined == TypeOK /\ FlightInv /\ [Next]_vars => JoinedOwn'
<1> SUFFICES ASSUME TypeOK, FlightInv, [Next]_vars, NEW c \in Callers, cpc'[c] \in {"wait", "leave"}
             PROVE  /\ joined'[c] \in Callers /\ fpc'[joined'[c]] # "none"
                    /\ token'[joined'[c]] = token'[c]
  BY DEF JoinedOwn
<1>1. CASE cpc[c] \in {"wait", "leave"} /\ joined'[c] = joined[c]
  <2>1. joined[c] \in Callers /\ fpc[joined[c]] # "none" /\ token[joined[c]] = token[c]
    BY <1>1 DEF FlightInv, JoinedOwn
  <2>2. fpc'[joined[c]] # "none"
    BY <2>1, FlightMoves
  <2> QED BY <1>1, <2>1, <2>2, TokensKept
<1>2. CASE token[c] \in DOMAIN pending /\ joined'[c] = pending[token[c]] /\ UNCHANGED fpc
  <2>1. /\ pending[token[c]] \in Callers /\ token[pending[token[c]]] = token[c]
        /\ fpc[pending[token[c]]] # "none"
    BY <1>2 DEF FlightInv, PendingExact, TypeOK
  <2> QED BY <1>2, <2>1, TokensKept
<1>3. CASE joined'[c] = c /\ fpc'[c] = "get"
  BY <1>3
<1> QED BY <1>1, <1>2, <1>3, CallerMoves

LEMMA NextPendingExact == TypeOK /\ FlightInv /\ [Next]_vars => PendingExact'
<1> SUFFICES ASSUME TypeOK, FlightInv, [Next]_vars PROVE PendingExact'
  OBVIOUS
<1>0. PendingExact /\ PendingType /\ PendingType' /\ UNCHANGED token
  BY TypeParts, NextPending, TokensKept DEF FlightInv
<1>s. ASSUME NEW c \in Callers, JoinStarts(c)
      PROVE  fpc'[c] = "get" /\ c \notin canceled' /\ UNCHANGED canceled /\ token[c] \notin DOMAIN pending
  <2>1. c \notin canceled
    BY <1>s DEF JoinStarts, FlightInv, NoEarlyFlight
  <2> QED BY <1>s, <2>1 DEF JoinStarts, TypeOK
<1>1. ASSUME NEW k \in DOMAIN pending'
      PROVE  /\ token[pending'[k]] = k /\ pending'[k] \notin canceled'
             /\ fpc'[pending'[k]] \in {"get", "fetch", "forget"}
  <2>1. CASE k \in DOMAIN pending /\ pending'[k] = pending[k]
    <3> DEFINE p == pending[k]
    <3>1. p \in Callers /\ token[p] = k /\ p \notin canceled /\ fpc[p] \in {"get", "fetch", "forget"}
      BY <1>0, <2>1 DEF PendingExact, PendingType
    <3>2. ~forgetLocked(p)
      BY <2>1, <3>1, ForgetPending
    <3>3. p \notin canceled'
      BY <3>1, <3>2, CancelSteps
    <3>4. fpc'[p] \in {"get", "fetch", "forget"}
      <4>1. ~RunForgets(p)
        BY <3>2 DEF RunForgets
      <4> QED BY <3>1, <4>1, FlightMoves
    <3> QED BY <2>1, <3>1, <3>3, <3>4
  <2>2. ASSUME NEW c \in Callers, JoinStarts(c), k = token[c]
        PROVE  /\ token[pending'[k]] = k /\ pending'[k] \notin canceled'
               /\ fpc'[pending'[k]] \in {"get", "fetch", "forget"}
    BY <1>s, <2>2, StartPending, ZenonT(40)
  <2>3. \/ k \in DOMAIN pending /\ pending'[k] = pending[k]
        \/ \E c \in Callers : JoinStarts(c) /\ k = token[c]
    <3>1. CASE UNCHANGED pending
      BY <3>1
    <3>2. ASSUME NEW c \in Callers, JoinStarts(c)
          PROVE  k = token[c] \/ (k \in DOMAIN pending /\ pending'[k] = pending[k])
      BY <3>2, StartPending, ZenonT(40)
    <3>3. ASSUME NEW f \in Callers, forgetLocked(f)
          PROVE  k \in DOMAIN pending /\ pending'[k] = pending[k]
      BY <3>3, ForgetPending DEF Kept
    <3> QED BY <3>1, <3>2, <3>3, PendingSteps
  <2> QED BY <2>1, <2>2, <2>3
<1>2. ASSUME NEW f \in Callers, fpc'[f] \in {"get", "fetch", "forget"}, f \notin canceled'
      PROVE  token[f] \in DOMAIN pending' /\ pending'[token[f]] = f
  <2>1. CASE JoinStarts(f)
    BY <2>1, StartPending
  <2>2. CASE ~JoinStarts(f)
    <3>1. f \notin canceled
      BY <1>2, CancelSteps
    <3>2. fpc[f] \in {"get", "fetch", "forget"}
      BY <1>2, <2>2, FlightMoves
    <3>3. token[f] \in DOMAIN pending /\ pending[token[f]] = f
      BY <1>0, <3>1, <3>2 DEF PendingExact
    <3>4. CASE UNCHANGED pending
      BY <3>3, <3>4
    <3>5. ASSUME NEW c \in Callers, JoinStarts(c)
          PROVE  token[f] \in DOMAIN pending' /\ pending'[token[f]] = f
      <4>1. token[c] # token[f]
        BY <1>s, <3>3, <3>5
      <4> QED BY <3>3, <3>5, <4>1, StartPending
    <3>6. ASSUME NEW g \in Callers, forgetLocked(g), g # f
          PROVE  token[f] \in DOMAIN pending' /\ pending'[token[f]] = f
      BY <3>3, <3>6, ForgetPending DEF Kept
    <3> QED BY <1>2, <3>4, <3>5, <3>6, PendingSteps
  <2> QED BY <2>1, <2>2
<1> QED BY <1>0, <1>1, <1>2 DEF PendingExact

\* A flight fails as abandoned only after it has been abandoned.
LEMMA ResultMoves ==
  ASSUME TypeOK, [Next]_vars, NEW f \in Callers, result'[f].kind = "abandoned"
  PROVE  \/ result[f].kind = "abandoned"
         \/ f \in canceled /\ fpc[f] = "fetch" /\ fpc'[f] = "forget"
<1>0. /\ result \in [Callers -> Replies] /\ answer \in [Callers -> Claims]
      /\ fpc \in [Callers -> {"none", "get", "fetch", "forget", "release", "close", "done"}]
  BY DEF TypeOK
<1> USE DEF flightVars
<1>1. ASSUME NEW g \in Callers, FlightLookup(g) PROVE result[f].kind = "abandoned"
  <2>1. result' = [result EXCEPT ![g] = IF Hit(token[g]) THEN Found(cache[token[g]].claims) ELSE @]
    BY <1>1 DEF FlightLookup
  <2>2. Found(cache[token[g]].claims).kind = "claims"
    BY DEF Found
  <2> QED BY <1>0, <2>1, <2>2
<1>2. ASSUME NEW g \in Callers, FetchReturns(g) PROVE result[f].kind = "abandoned"
  <2>1. result' = [result EXCEPT ![g] = Found(answer[g])]
    BY <1>2 DEF FetchReturns
  <2>2. Found(answer[g]).kind = "claims"
    BY DEF Found
  <2> QED BY <1>0, <2>1, <2>2
<1>3. ASSUME NEW g \in Callers, NEW kind \in {"unavailable", "abandoned"}, FetchEnds(g, kind),
             kind = "abandoned" => g \in canceled
      PROVE  \/ result[f].kind = "abandoned"
             \/ f \in canceled /\ fpc[f] = "fetch" /\ fpc'[f] = "forget"
  <2>1. /\ result' = [result EXCEPT ![g] = Failed(kind)] /\ fpc[g] = "fetch"
        /\ fpc' = [fpc EXCEPT ![g] = "forget"]
    BY <1>3 DEF FetchEnds
  <2>2. Failed(kind).kind = kind
    BY DEF Failed
  <2> QED BY <1>0, <1>3, <2>1, <2>2
<1>4. \/ UNCHANGED result
      \/ \E g \in Callers : FlightLookup(g) \/ FetchReturns(g)
      \/ \E g \in Callers, kind \in {"unavailable", "abandoned"} :
           FetchEnds(g, kind) /\ (kind = "abandoned" => g \in canceled)
  BY Steps
     DEF Arrive, CallerGone, Lookup, GoneBeforeJoin, JoinShared, JoinRefused, JoinStarts, Receive,
         StopWaiting, Leave, Authorize, IssuerAnswers, RunForgets, RunReleases, RunCloses, Revoke,
         Tick, vars
<1> QED BY <1>1, <1>2, <1>3, <1>4

LEMMA NextAbandoned == TypeOK /\ FlightInv /\ [Next]_vars => AbandonedAlone'
<1> SUFFICES ASSUME TypeOK, FlightInv, [Next]_vars, NEW f \in Callers
             PROVE  /\ f \in canceled' /\ fpc'[f] \notin {"close", "done"} => Waiting(f)' = {}
                    /\ result'[f].kind = "abandoned" => /\ f \in canceled' /\ Waiting(f)' = {}
                                                        /\ fpc'[f] \notin {"none", "get", "fetch"}
  BY DEF AbandonedAlone
<1>0. /\ f \in canceled /\ fpc[f] \notin {"close", "done"} => Waiting(f) = {}
      /\ result[f].kind = "abandoned" => /\ f \in canceled /\ Waiting(f) = {}
                                         /\ fpc[f] \notin {"none", "get", "fetch"}
  BY DEF FlightInv, AbandonedAlone
\* Nobody joins a canceled flight.
<1>1. f \in canceled /\ Waiting(f) = {} => f \in canceled' /\ Waiting(f)' = {}
  <2> SUFFICES ASSUME f \in canceled, Waiting(f) = {} PROVE f \in canceled' /\ Waiting(f)' = {}
    OBVIOUS
  <2>1. f \in canceled'
    BY CancelSteps
  <2>2. ~JoinStarts(f)
    BY DEF JoinStarts, FlightInv, NoEarlyFlight
  <2>3. \A c \in Callers : ~(token[c] \in DOMAIN pending /\ f = pending[token[c]])
    BY DEF FlightInv, PendingExact
  <2> QED BY <2>1, <2>2, <2>3, WaitingStep
\* The last caller to leave leaves nobody behind.
<1>2. f \in canceled' => f \in canceled \/ fpc'[f] = "close" \/ Waiting(f)' = {}
  <2>1. ASSUME NEW g \in Callers, RunReleases(g), g = f PROVE fpc'[f] = "close"
    BY <2>1 DEF RunReleases, TypeOK
  <2>2. ASSUME NEW c \in Callers, Leave(c), joined[c] = f, waiters[f] = 1 PROVE Waiting(f)' = {}
    <3>1. c \in Waiting(f) /\ Waiting(f)' \subseteq Waiting(f) \ {c}
      <4>1. cpc[c] = "leave" /\ cpc'[c] \notin {"wait", "leave"} /\ UNCHANGED joined
        BY <2>2 DEF Leave, AfterLeave, TypeOK
      <4>2. cpc' = [cpc EXCEPT ![c] = cpc'[c]]
        BY <2>2 DEF Leave, AfterLeave, TypeOK
      <4>3. cpc \in [Callers -> {"idle", "lookup", "join", "wait", "leave", "authorize", "done"}]
        BY DEF TypeOK
      <4>4. \A d \in Callers : d # c => cpc'[d] = cpc[d]
        BY <4>2, <4>3
      <4> QED BY <2>2, <4>1, <4>4 DEF Waiting
    <3>2. Cardinality(Waiting(f)) = 1 /\ IsFiniteSet(Waiting(f))
      BY <2>2, WaitingFinite DEF FlightInv, Counted
    <3>3. PICK x : Waiting(f) = {x}
      BY <3>2, FS_Singleton
    <3> QED BY <3>1, <3>3
  <2> QED BY <2>1, <2>2, CancelSteps
<1>3. fpc[f] \in {"close", "done"} => fpc'[f] \in {"close", "done"}
  BY FlightMoves DEF JoinStarts, FlightInv, NoEarlyFlight
<1>4. fpc[f] \notin {"none", "get", "fetch"} => fpc'[f] \notin {"none", "get", "fetch"}
  BY FlightMoves DEF JoinStarts, FlightInv, NoEarlyFlight
<1>5. f \in canceled' /\ fpc'[f] \notin {"close", "done"} => Waiting(f)' = {}
  BY <1>0, <1>1, <1>2, <1>3
<1>6. ASSUME result'[f].kind = "abandoned"
      PROVE  f \in canceled' /\ Waiting(f)' = {} /\ fpc'[f] \notin {"none", "get", "fetch"}
  <2>1. CASE result[f].kind = "abandoned"
    BY <1>0, <1>1, <1>4, <2>1
  <2>2. CASE f \in canceled /\ fpc[f] = "fetch" /\ fpc'[f] = "forget"
    BY <1>0, <1>1, <2>2
  <2> QED BY <1>6, <2>1, <2>2, ResultMoves
<1> QED BY <1>5, <1>6

LEMMA NextNoneAbandoned == TypeOK /\ FlightInv /\ [Next]_vars => NoneAbandoned'
<1> SUFFICES ASSUME TypeOK, FlightInv, [Next]_vars, NEW c \in Callers
             PROVE  reply'[c].kind # "abandoned" /\ outcome'[c] # "abandoned"
  BY DEF NoneAbandoned
<1>0. reply[c].kind # "abandoned" /\ outcome[c] # "abandoned"
  BY DEF FlightInv, NoneAbandoned
<1>t. /\ reply \in [Callers -> Replies]
      /\ outcome \in [Callers -> {"none", "accepted", "rejected", "denied", "overload"} \cup Kinds]
  BY DEF TypeOK
<1> USE DEF callerVars
<1>1. ASSUME NEW d \in Callers, Lookup(d)
      PROVE  reply'[c].kind # "abandoned" /\ outcome'[c] # "abandoned"
  <2>1. /\ reply' = [reply EXCEPT ![d] = IF Hit(token[d]) THEN Found(cache[token[d]].claims) ELSE @]
        /\ UNCHANGED outcome
    BY <1>1 DEF Lookup
  <2>2. Found(cache[token[d]].claims).kind = "claims"
    BY DEF Found
  <2> QED BY <1>0, <1>t, <2>1, <2>2
<1>2. ASSUME NEW d \in Callers, Receive(d)
      PROVE  reply'[c].kind # "abandoned" /\ outcome'[c] # "abandoned"
  <2>1. reply' = [reply EXCEPT ![d] = result[joined[d]]] /\ UNCHANGED outcome /\ cpc[d] = "wait"
    BY <1>2 DEF Receive
  <2>2. d \in Waiting(joined[d]) /\ joined[d] \in Callers
    BY <2>1 DEF Waiting, FlightInv, JoinedOwn
  <2>3. result[joined[d]].kind # "abandoned"
    BY <2>2 DEF FlightInv, AbandonedAlone
  <2> QED BY <1>0, <1>t, <2>1, <2>3
<1>3. ASSUME NEW d \in Callers, StopWaiting(d)
      PROVE  reply'[c].kind # "abandoned" /\ outcome'[c] # "abandoned"
  <2>1. reply' = [reply EXCEPT ![d] = Failed("canceled")] /\ UNCHANGED outcome
    BY <1>3 DEF StopWaiting
  <2>2. Failed("canceled").kind = "canceled"
    BY DEF Failed
  <2> QED BY <1>0, <1>t, <2>1, <2>2
<1>4. ASSUME NEW d \in Callers, Leave(d)
      PROVE  reply'[c].kind # "abandoned" /\ outcome'[c] # "abandoned"
  <2>1. /\ outcome' = [outcome EXCEPT ![d] = IF reply[d].kind # "claims" THEN reply[d].kind ELSE @]
        /\ UNCHANGED reply
    BY <1>4 DEF Leave, AfterLeave
  <2>2. reply[d].kind # "abandoned"
    BY DEF FlightInv, NoneAbandoned
  <2> QED BY <1>0, <1>t, <2>1, <2>2
<1>5. ASSUME NEW d \in Callers, GoneBeforeJoin(d) \/ JoinRefused(d) \/ Authorize(d)
      PROVE  reply'[c].kind # "abandoned" /\ outcome'[c] # "abandoned"
  <2>1. \A scoped \in BOOLEAN : authorize(reply[d].claims, scoped) # "abandoned"
    BY DEF authorize
  <2>2. UNCHANGED reply /\ \E v : v # "abandoned" /\ outcome' = [outcome EXCEPT ![d] = v]
    BY <1>5, <2>1 DEF GoneBeforeJoin, JoinRefused, Authorize
  <2> QED BY <1>0, <1>t, <2>2
<1>6. \/ UNCHANGED <<reply, outcome>>
      \/ \E d \in Callers : Lookup(d) \/ Receive(d) \/ StopWaiting(d) \/ Leave(d)
      \/ \E d \in Callers : GoneBeforeJoin(d) \/ JoinRefused(d) \/ Authorize(d)
  BY Steps
     DEF Arrive, CallerGone, JoinShared, JoinStarts, FlightLookup, IssuerAnswers, FetchReturns,
         FetchEnds, RunForgets, RunReleases, RunCloses, Revoke, Tick, vars
<1> QED BY <1>0, <1>1, <1>2, <1>3, <1>4, <1>5, <1>6

LEMMA InitFlight == Init => FlightInv
<1> SUFFICES ASSUME Init PROVE FlightInv
  OBVIOUS
<1>1. Holding = {} /\ \A f : Waiting(f) = {}
  BY DEF Init, Holding, Waiting
<1>2. SlotsHeld /\ Counted
  BY <1>1, FS_EmptySet DEF Init, SlotsHeld, Counted
<1>3. NoEarlyFlight /\ JoinedOwn
  BY DEF Init, NoEarlyFlight, JoinedOwn
<1>4. PendingExact
  BY DEF Init, PendingExact
<1>5. \A f \in Callers : result[f].kind = "none" /\ reply[f].kind = "none" /\ outcome[f] = "none"
  BY DEF Init, NoResult
<1>6. AbandonedAlone /\ NoneAbandoned
  BY <1>1, <1>5 DEF AbandonedAlone, NoneAbandoned
<1> QED BY <1>2, <1>3, <1>4, <1>6 DEF FlightInv

LEMMA NextFlight == TypeOK /\ FlightInv /\ [Next]_vars => TypeOK' /\ FlightInv'
<1> SUFFICES ASSUME TypeOK, FlightInv, [Next]_vars PROVE TypeOK' /\ FlightInv'
  OBVIOUS
<1>1. ClockType' /\ PlacesType' /\ PendingType' /\ CacheType' /\ RepliesType' /\ CountsType'
  <2>1. CountsType'
    BY NextCounted, NextSlots, LimitKept DEF CountsType, TypeOK
  <2> QED BY <2>1, NextClock, NextPlaces, NextPending, NextCache, NextReplies
<1>2. TypeOK'
  BY <1>1 DEF TypeOK, ClockType, PlacesType, PendingType, CacheType, RepliesType, CountsType
<1>3. FlightInv'
  BY NextSlots, NextEarly, NextJoined, NextPendingExact, NextAbandoned, NextCounted, NextNoneAbandoned
     DEF FlightInv
<1> QED BY <1>2, <1>3

\* Every variable keeps its type, the cache its size and the slots their number, for
\* any limits (evictLocked, join, run).
THEOREM TypeCorrect == Spec => []TypeOK
<1> QED BY InitType, InitFlight, NextFlight, PTL DEF Spec

\* At most introspection_max_concurrent requests are with the issuer, those of
\* abandoned flights included: the slot of a flight is given back by run alone.
THEOREM RequestsBoundedCorrect == Spec => []RequestsBounded
<1>1. TypeOK /\ FlightInv => RequestsBounded
  <2> SUFFICES ASSUME TypeOK, FlightInv PROVE RequestsBounded
    OBVIOUS
  <2> DEFINE fetching == {f \in Callers : fpc[f] = "fetch"}
  <2>1. fetching \in SUBSET Holding /\ Holding \in SUBSET Callers /\ IsFiniteSet(Callers)
    BY AuthAssumption DEF Holding
  <2>2. IsFiniteSet(Holding)
    BY <2>1, FS_Subset
  <2>3. /\ Cardinality(fetching) <= Cardinality(Holding) /\ Cardinality(fetching) \in Nat
        /\ Cardinality(Holding) \in Nat
    BY <2>1, <2>2, FS_Subset, FS_CardinalityType
  <2>4. Cardinality(Holding) <= maxConcurrent /\ maxConcurrent \in Nat
    BY AuthAssumption DEF FlightInv, SlotsHeld, TypeOK
  <2>5. Cardinality(fetching) <= maxConcurrent
    <3> HIDE DEF fetching
    <3> QED BY <2>3, <2>4
  <2> QED BY <2>5 DEF RequestsBounded
<1> QED BY <1>1, InitType, InitFlight, NextFlight, PTL DEF Spec

\* Callers with one token share one request unless all its callers have left it
\* (join, leave and forgetLocked).
THEOREM OneRequestPerTokenCorrect == Spec => []OneRequestPerToken
<1>1. FlightInv => OneRequestPerToken
  BY DEF FlightInv, PendingExact, OneRequestPerToken
<1> QED BY <1>1, InitType, InitFlight, NextFlight, PTL DEF Spec

\* A flight counts exactly the callers between join and leave, and one that somebody
\* waits for is canceled only once its request is over.
THEOREM WaitersCountedCorrect == Spec => []WaitersCounted
<1>1. FlightInv => WaitersCounted
  <2> SUFFICES ASSUME FlightInv, NEW f \in Callers
               PROVE  /\ waiters[f] = Cardinality(Waiting(f))
                      /\ waiters[f] > 0 /\ f \in canceled => fpc[f] \in {"close", "done"}
    BY DEF WaitersCounted
  <2>1. waiters[f] = Cardinality(Waiting(f))
    BY DEF FlightInv, Counted
  <2>2. f \in canceled /\ fpc[f] \notin {"close", "done"} => Waiting(f) = {}
    BY DEF FlightInv, AbandonedAlone
  <2>3. Waiting(f) = {} => waiters[f] = 0
    BY <2>1, FS_EmptySet
  <2> QED BY <2>1, <2>2, <2>3
<1> QED BY <1>1, InitType, InitFlight, NextFlight, PTL DEF Spec

\* No caller is told that a flight was abandoned (introspectionTransportError).
THEOREM AbandonedUnseenCorrect == Spec => []AbandonedUnseen
<1>1. FlightInv => AbandonedUnseen
  BY DEF FlightInv, NoneAbandoned, AbandonedUnseen
<1> QED BY <1>1, InitType, InitFlight, NextFlight, PTL DEF Spec

--------------------------------------------------------------------------------
(* What a caller is accepted with *)

\* The issuer's word on token t, said before now and, if positive, no later than its
\* revocation.
SaysAt(claims, t, time, lives, revoked) ==
  /\ claims.token = t /\ claims.nbf = lives[t].nbf /\ claims.exp = lives[t].exp
  /\ claims.seen <= time /\ (claims.active => claims.seen <= revoked[t])

Says(claims, t) == SaysAt(claims, t, now, life, revokedAt)

AnswersTrue ==
  \A f \in Callers :
    /\ fpc[f] \in {"none", "get"} => answer[f] = NoClaims
    /\ started[f] <= now
    /\ answer[f] # NoClaims => Says(answer[f], token[f]) /\ started[f] <= answer[f].seen
ResultsTrue == \A f \in Callers : result[f].kind = "claims" => Says(result[f].claims, token[f])
CacheTrue   == \A k \in DOMAIN cache : Says(cache[k].claims, k)
RepliesTrue ==
  \A c \in Callers : /\ reply[c].kind = "claims" => Says(reply[c].claims, token[c])
                     /\ cpc[c] = "authorize" => reply[c].kind = "claims"

\* Whatever a caller, a flight or the cache holds is what the issuer said of the token.
ClaimsTrue == AnswersTrue /\ ResultsTrue /\ CacheTrue /\ RepliesTrue

\* What the issuer has said stays said.
LEMMA SaysLasts ==
  ASSUME TypeOK, [Next]_vars
  PROVE  \A claims \in Claims, t \in Tokens :
           Says(claims, t) => SaysAt(claims, t, now', life', revokedAt')
<1> SUFFICES ASSUME NEW claims \in Claims, NEW t \in Tokens, Says(claims, t)
             PROVE  SaysAt(claims, t, now', life', revokedAt')
  OBVIOUS
<1>0. /\ claims.seen \in Nat /\ now \in Nat /\ MaxTime \in Nat /\ claims.seen <= now
      /\ revokedAt \in [Tokens -> 0..Never]
  BY AuthAssumption DEF TypeOK, Claims, Says, SaysAt
<1>1. CASE UNCHANGED <<now, life, revokedAt>>
  BY <1>1 DEF Says
<1>2. CASE Tick
  BY <1>0, <1>2 DEF Tick, givenVars, Says, SaysAt
<1>3. ASSUME NEW u \in Tokens, Revoke(u) PROVE SaysAt(claims, t, now', life', revokedAt')
  <2>1. revokedAt' = [revokedAt EXCEPT ![u] = now] /\ UNCHANGED <<now, life>>
    BY <1>3 DEF Revoke
  <2>2. revokedAt'[t] = revokedAt[t] \/ revokedAt'[t] = now
    BY <1>0, <2>1
  <2> QED BY <1>0, <2>1, <2>2 DEF Says, SaysAt
<1> QED
  BY <1>1, <1>2, <1>3, Steps
     DEF Arrive, CallerGone, Lookup, GoneBeforeJoin, JoinShared, JoinRefused, JoinStarts, Receive,
         StopWaiting, Leave, Authorize, FlightLookup, IssuerAnswers, FetchReturns, FetchEnds,
         RunForgets, RunReleases, RunCloses, vars, givenVars

\* Where the result of a flight comes from.
LEMMA ResultSteps ==
  ASSUME TypeOK, [Next]_vars, NEW f \in Callers
  PROVE  \/ /\ result'[f] = result[f]
            /\ fpc'[f] \in {"forget", "release", "close"} => fpc[f] \in {"forget", "release", "close"}
            /\ fpc'[f] = "done" => fpc[f] \in {"close", "done"}
         \/ /\ Hit(token[f]) /\ result'[f] = Found(cache[token[f]].claims) /\ fpc'[f] = "forget"
            /\ UNCHANGED now
         \/ /\ answer[f] # NoClaims /\ result'[f] = Found(answer[f]) /\ fpc[f] = "fetch"
            /\ fpc'[f] = "forget" /\ now <= started[f] + Timeout /\ UNCHANGED now
         \/ result'[f].kind # "claims"
<1>0. /\ result \in [Callers -> Replies]
      /\ fpc \in [Callers -> {"none", "get", "fetch", "forget", "release", "close", "done"}]
  BY DEF TypeOK
<1> USE DEF flightVars
<1>1. ASSUME NEW g \in Callers, FlightLookup(g)
      PROVE  \/ /\ result'[f] = result[f]
                /\ fpc'[f] \in {"forget", "release", "close", "done"} => fpc'[f] = fpc[f]
             \/ /\ Hit(token[f]) /\ result'[f] = Found(cache[token[f]].claims) /\ fpc'[f] = "forget"
                /\ UNCHANGED now
  <2>1. /\ result' = [result EXCEPT ![g] = IF Hit(token[g]) THEN Found(cache[token[g]].claims) ELSE @]
        /\ fpc' = [fpc EXCEPT ![g] = IF Hit(token[g]) THEN "forget" ELSE "fetch"] /\ UNCHANGED now
    BY <1>1 DEF FlightLookup
  <2>2. CASE Hit(token[g])
    BY <1>0, <2>1, <2>2
  <2>3. CASE ~Hit(token[g])
    BY <1>0, <2>1, <2>3
  <2> QED BY <2>2, <2>3
<1>2. ASSUME NEW g \in Callers, FetchReturns(g)
      PROVE  \/ result'[f] = result[f] /\ fpc'[f] = fpc[f]
             \/ /\ answer[f] # NoClaims /\ result'[f] = Found(answer[f]) /\ fpc[f] = "fetch"
                /\ fpc'[f] = "forget" /\ now <= started[f] + Timeout /\ UNCHANGED now
  <2>1. /\ result' = [result EXCEPT ![g] = Found(answer[g])] /\ fpc' = [fpc EXCEPT ![g] = "forget"]
        /\ answer[g] # NoClaims /\ fpc[g] = "fetch" /\ now <= started[g] + Timeout /\ UNCHANGED now
    BY <1>2 DEF FetchReturns
  <2> QED BY <1>0, <2>1
<1>3. ASSUME NEW g \in Callers, NEW kind \in {"unavailable", "abandoned"}, FetchEnds(g, kind)
      PROVE  \/ result'[f] = result[f] /\ fpc'[f] = fpc[f]
             \/ result'[f].kind # "claims"
  <2>1. result' = [result EXCEPT ![g] = Failed(kind)] /\ fpc' = [fpc EXCEPT ![g] = "forget"]
    BY <1>3 DEF FetchEnds
  <2>2. Failed(kind).kind # "claims"
    BY DEF Failed
  <2> QED BY <1>0, <2>1, <2>2
<1>4. ASSUME NEW g \in Callers, JoinStarts(g) \/ RunForgets(g) \/ RunReleases(g) \/ RunCloses(g)
      PROVE  /\ result'[f] = result[f]
             /\ fpc'[f] \in {"forget", "release", "close"} => fpc[f] \in {"forget", "release", "close"}
             /\ fpc'[f] = "done" => fpc[f] \in {"close", "done"}
  <2>1. UNCHANGED result /\ \E from, to : fpc[g] = from /\ fpc' = [fpc EXCEPT ![g] = to]
          /\ \/ to = "get" \/ (from = "forget" /\ to = "release") \/ (from = "release" /\ to = "close")
             \/ (from = "close" /\ to = "done")
    BY <1>4 DEF JoinStarts, RunForgets, RunReleases, RunCloses
  <2> QED BY <1>0, <2>1
<1>5. \/ UNCHANGED <<result, fpc>>
      \/ \E g \in Callers : FlightLookup(g)
      \/ \E g \in Callers : FetchReturns(g)
      \/ \E g \in Callers, kind \in {"unavailable", "abandoned"} : FetchEnds(g, kind)
      \/ \E g \in Callers : JoinStarts(g) \/ RunForgets(g) \/ RunReleases(g) \/ RunCloses(g)
  BY Steps
     DEF Arrive, CallerGone, Lookup, GoneBeforeJoin, JoinShared, JoinRefused, Receive, StopWaiting,
         Leave, Authorize, IssuerAnswers, Revoke, Tick, vars
<1> QED BY <1>1, <1>2, <1>3, <1>4, <1>5

\* Where the reply of a caller comes from.
LEMMA ReplySteps ==
  ASSUME TypeOK, [Next]_vars, NEW c \in Callers
  PROVE  \/ /\ reply'[c] = reply[c]
            /\ cpc'[c] = "leave" => cpc[c] = "leave"
            /\ cpc'[c] = "authorize" => \/ cpc[c] = "authorize"
                                        \/ cpc[c] = "leave" /\ reply[c].kind = "claims"
         \/ Hit(token[c]) /\ reply'[c] = Found(cache[token[c]].claims) /\ UNCHANGED now
         \/ /\ cpc[c] = "wait" /\ fpc[joined[c]] = "done" /\ reply'[c] = result[joined[c]]
            /\ cpc'[c] = "leave" /\ UNCHANGED now
         \/ reply'[c].kind = "canceled" /\ cpc'[c] = "leave"
<1>0. /\ reply \in [Callers -> Replies]
      /\ cpc \in [Callers -> {"idle", "lookup", "join", "wait", "leave", "authorize", "done"}]
  BY DEF TypeOK
<1> USE DEF callerVars
<1> DEFINE Same == /\ reply'[c] = reply[c]
                   /\ cpc'[c] = "leave" => cpc[c] = "leave"
                   /\ cpc'[c] = "authorize" => \/ cpc[c] = "authorize"
                                               \/ cpc[c] = "leave" /\ reply[c].kind = "claims"
<1>1. ASSUME NEW d \in Callers, Lookup(d)
      PROVE  Same \/ (Hit(token[c]) /\ reply'[c] = Found(cache[token[c]].claims) /\ UNCHANGED now)
  <2>1. /\ reply' = [reply EXCEPT ![d] = IF Hit(token[d]) THEN Found(cache[token[d]].claims) ELSE @]
        /\ cpc' = [cpc EXCEPT ![d] = IF Hit(token[d]) THEN "authorize" ELSE "join"] /\ UNCHANGED now
    BY <1>1 DEF Lookup
  <2>2. CASE Hit(token[d])
    BY <1>0, <2>1, <2>2
  <2>3. CASE ~Hit(token[d])
    BY <1>0, <2>1, <2>3
  <2> QED BY <2>2, <2>3
<1>2. ASSUME NEW d \in Callers, Receive(d)
      PROVE  \/ Same
             \/ /\ cpc[c] = "wait" /\ fpc[joined[c]] = "done" /\ reply'[c] = result[joined[c]]
                /\ cpc'[c] = "leave" /\ UNCHANGED now
  <2>1. /\ reply' = [reply EXCEPT ![d] = result[joined[d]]] /\ cpc[d] = "wait"
        /\ fpc[joined[d]] = "done" /\ cpc' = [cpc EXCEPT ![d] = "leave"] /\ UNCHANGED now
    BY <1>2 DEF Receive
  <2> QED BY <1>0, <2>1
<1>3. ASSUME NEW d \in Callers, StopWaiting(d)
      PROVE  Same \/ (reply'[c].kind = "canceled" /\ cpc'[c] = "leave")
  <2>1. reply' = [reply EXCEPT ![d] = Failed("canceled")] /\ cpc' = [cpc EXCEPT ![d] = "leave"]
    BY <1>3 DEF StopWaiting
  <2>2. Failed("canceled").kind = "canceled"
    BY DEF Failed
  <2> QED BY <1>0, <2>1, <2>2
<1>4. ASSUME NEW d \in Callers, Leave(d) PROVE Same
  <2>1. /\ UNCHANGED reply /\ cpc[d] = "leave"
        /\ cpc' = [cpc EXCEPT ![d] = IF reply[d].kind # "claims" THEN "done" ELSE "authorize"]
    BY <1>4 DEF Leave, AfterLeave
  <2> QED BY <1>0, <2>1
<1>5. ASSUME NEW d \in Callers, Arrive(d) \/ GoneBeforeJoin(d) \/ JoinShared(d) \/ JoinRefused(d)
                                \/ JoinStarts(d) \/ Authorize(d)
      PROVE  Same
  <2>1. UNCHANGED reply /\ \E to \in {"lookup", "done", "wait"} : cpc' = [cpc EXCEPT ![d] = to]
    BY <1>5 DEF Arrive, GoneBeforeJoin, JoinShared, JoinRefused, JoinStarts, Authorize
  <2> QED BY <1>0, <2>1
<1>6. \/ UNCHANGED <<reply, cpc>>
      \/ \E d \in Callers : Lookup(d)
      \/ \E d \in Callers : Receive(d)
      \/ \E d \in Callers : StopWaiting(d)
      \/ \E d \in Callers : Leave(d)
      \/ \E d \in Callers : Arrive(d) \/ GoneBeforeJoin(d) \/ JoinShared(d) \/ JoinRefused(d)
                            \/ JoinStarts(d) \/ Authorize(d)
  BY Steps
     DEF CallerGone, FlightLookup, IssuerAnswers, FetchReturns, FetchEnds, RunForgets, RunReleases,
         RunCloses, Revoke, Tick, vars
<1>7. CASE UNCHANGED <<reply, cpc>>
  BY <1>7
<1> QED BY <1>1, <1>2, <1>3, <1>4, <1>5, <1>6, <1>7

\* Where an entry of the cache comes from.
LEMMA CacheSteps ==
  ASSUME TypeOK, [Next]_vars, NEW k \in DOMAIN cache'
  PROVE  \/ k \in DOMAIN cache /\ cache'[k] = cache[k]
         \/ \E f \in Callers :
              /\ k = token[f] /\ answer[f] # NoClaims /\ cache'[k].claims = answer[f]
              /\ cache'[k].expires \in Nat /\ cache'[k].expires <= now + TTL
              /\ now <= started[f] + Timeout
<1>1. ASSUME NEW key, Get(key) PROVE k \in DOMAIN cache /\ cache'[k] = cache[k]
  BY <1>1, GetKeeps DEF Kept
<1>2. ASSUME NEW f \in Callers, FetchReturns(f), ~UNCHANGED cache
      PROVE  \/ k \in DOMAIN cache /\ cache'[k] = cache[k]
             \/ /\ k = token[f] /\ answer[f] # NoClaims /\ cache'[k].claims = answer[f]
                /\ cache'[k].expires \in Nat /\ cache'[k].expires <= now + TTL
                /\ now <= started[f] + Timeout
  <2>1. Put(token[f], answer[f]) /\ answer[f] # NoClaims /\ now <= started[f] + Timeout
    BY <1>2 DEF FetchReturns
  <2>2. answer[f].exp \in Nat /\ Cardinality(DOMAIN cache) <= MaxEntries
    BY DEF TypeOK, Claims
  <2>3. \/ k \in DOMAIN cache /\ cache'[k] = cache[k]
        \/ /\ k = token[f] /\ cache'[k].claims = answer[f]
           /\ cache'[k].expires \in Nat /\ cache'[k].expires <= now + TTL
    BY <2>1, <2>2, CacheFinite, PutEntry
  <2> QED BY <2>1, <2>3
<1>3. \/ UNCHANGED cache
      \/ \E key : Get(key)
      \/ \E f \in Callers : FetchReturns(f)
  BY Steps
     DEF Arrive, CallerGone, Lookup, GoneBeforeJoin, JoinShared, JoinRefused, JoinStarts, Receive,
         StopWaiting, Leave, Authorize, FlightLookup, IssuerAnswers, FetchEnds, RunForgets,
         RunReleases, RunCloses, Revoke, Tick, vars
<1> QED BY <1>1, <1>2, <1>3

\* How the answer of a flight changes, and the start of its request.
LEMMA AnswerSteps ==
  ASSUME TypeOK, [Next]_vars, NEW f \in Callers
  PROVE  \/ (answer'[f] = answer[f] \/ answer'[f] = NoClaims) /\ started'[f] = started[f]
         \/ fpc[f] = "get" /\ answer'[f] = answer[f] /\ started'[f] = now
         \/ /\ fpc[f] = "fetch" /\ started'[f] = started[f] /\ UNCHANGED <<now, life, revokedAt, fpc>>
            /\ answer'[f] = [token |-> token[f], seen |-> now, active |-> revokedAt[token[f]] = Never,
                             nbf |-> life[token[f]].nbf, exp |-> life[token[f]].exp]
<1>0. answer \in [Callers -> Claims] /\ started \in [Callers -> 0..MaxTime]
  BY DEF TypeOK
<1> USE DEF flightVars, givenVars
<1>1. ASSUME NEW g \in Callers, FlightLookup(g)
      PROVE  \/ answer'[f] = answer[f] /\ started'[f] = started[f]
             \/ fpc[f] = "get" /\ answer'[f] = answer[f] /\ started'[f] = now
  <2>1. UNCHANGED answer /\ started' = [started EXCEPT ![g] = now] /\ fpc[g] = "get"
    BY <1>1 DEF FlightLookup
  <2> QED BY <1>0, <2>1
<1>2. ASSUME NEW g \in Callers, IssuerAnswers(g)
      PROVE  \/ answer'[f] = answer[f] /\ started'[f] = started[f]
             \/ /\ fpc[f] = "fetch" /\ started'[f] = started[f] /\ UNCHANGED <<now, life, revokedAt, fpc>>
                /\ answer'[f] = [token |-> token[f], seen |-> now,
                                 active |-> revokedAt[token[f]] = Never,
                                 nbf |-> life[token[f]].nbf, exp |-> life[token[f]].exp]
  <2>1. /\ fpc[g] = "fetch" /\ UNCHANGED <<now, life, revokedAt, fpc, started>>
        /\ answer' = [answer EXCEPT ![g] =
             [token |-> token[g], seen |-> now, active |-> revokedAt[token[g]] = Never,
              nbf |-> life[token[g]].nbf, exp |-> life[token[g]].exp]]
    BY <1>2 DEF IssuerAnswers
  <2>2. CASE g = f
    BY <1>0, <2>1, <2>2
  <2>3. CASE g # f
    BY <1>0, <2>1, <2>3
  <2> QED BY <2>2, <2>3
<1>3. ASSUME NEW g \in Callers,
             FetchReturns(g) \/ \E kind \in {"unavailable", "abandoned"} : FetchEnds(g, kind)
      PROVE  (answer'[f] = answer[f] \/ answer'[f] = NoClaims) /\ started'[f] = started[f]
  <2>1. answer' = [answer EXCEPT ![g] = NoClaims] /\ UNCHANGED started
    BY <1>3 DEF FetchReturns, FetchEnds
  <2> QED BY <1>0, <2>1
<1>4. \/ UNCHANGED <<answer, started>>
      \/ \E g \in Callers : FlightLookup(g) \/ IssuerAnswers(g) \/ FetchReturns(g)
                            \/ \E kind \in {"unavailable", "abandoned"} : FetchEnds(g, kind)
  BY Steps
     DEF Arrive, CallerGone, Lookup, GoneBeforeJoin, JoinShared, JoinRefused, JoinStarts, Receive,
         StopWaiting, Leave, Authorize, RunForgets, RunReleases, RunCloses, Revoke, Tick, vars
<1>5. CASE UNCHANGED <<answer, started>>
  BY <1>5
<1> QED BY <1>1, <1>2, <1>3, <1>4, <1>5

LEMMA ClockForward == TypeOK /\ [Next]_vars => now <= now' /\ now \in Nat /\ now' \in Nat
<1> SUFFICES ASSUME TypeOK, [Next]_vars PROVE now <= now' /\ now \in Nat /\ now' \in Nat
  OBVIOUS
<1>1. now \in Nat
  BY AuthAssumption DEF TypeOK
<1>2. UNCHANGED now \/ Tick
  BY Steps
     DEF Arrive, CallerGone, Lookup, GoneBeforeJoin, JoinShared, JoinRefused, JoinStarts, Receive,
         StopWaiting, Leave, Authorize, FlightLookup, IssuerAnswers, FetchReturns, FetchEnds,
         RunForgets, RunReleases, RunCloses, Revoke, vars
<1> QED BY <1>1, <1>2 DEF Tick

LEMMA NextAnswers ==
  ASSUME TypeOK, FlightInv, AnswersTrue, [Next]_vars
  PROVE  AnswersTrue'
<1> SUFFICES ASSUME NEW f \in Callers
             PROVE  /\ fpc'[f] \in {"none", "get"} => answer'[f] = NoClaims
                    /\ started'[f] <= now'
                    /\ answer'[f] # NoClaims =>
                         /\ SaysAt(answer'[f], token'[f], now', life', revokedAt')
                         /\ started'[f] <= answer'[f].seen
  BY DEF AnswersTrue, Says
<1>0. /\ fpc[f] \in {"none", "get"} => answer[f] = NoClaims
      /\ started[f] <= now
      /\ answer[f] # NoClaims => Says(answer[f], token[f]) /\ started[f] <= answer[f].seen
  BY DEF AnswersTrue
<1>1. /\ started[f] \in Nat /\ answer[f] \in Claims /\ token[f] \in Tokens /\ UNCHANGED token
      /\ now \in 0..MaxTime
  BY AuthAssumption, TokensKept DEF TypeOK
<1>2. fpc'[f] \in {"none", "get"} => fpc[f] \in {"none", "get"}
  <2>1. JoinStarts(f) => fpc[f] = "none"
    BY DEF FlightInv, NoEarlyFlight, JoinStarts
  <2> QED BY <2>1, FlightMoves
<1>3. Says(answer[f], token[f]) => SaysAt(answer[f], token[f], now', life', revokedAt')
  BY <1>1, SaysLasts
<1>4. CASE (answer'[f] = answer[f] \/ answer'[f] = NoClaims) /\ started'[f] = started[f]
  BY <1>0, <1>1, <1>2, <1>3, <1>4, ClockForward
<1>5. CASE fpc[f] = "get" /\ answer'[f] = answer[f] /\ started'[f] = now
  BY <1>0, <1>1, <1>2, <1>5, ClockForward
<1>6. CASE /\ fpc[f] = "fetch" /\ started'[f] = started[f] /\ UNCHANGED <<now, life, revokedAt, fpc>>
           /\ answer'[f] = [token |-> token[f], seen |-> now, active |-> revokedAt[token[f]] = Never,
                            nbf |-> life[token[f]].nbf, exp |-> life[token[f]].exp]
  <2>1. fpc'[f] \notin {"none", "get"} /\ started'[f] <= now'
    BY <1>0, <1>6
  <2>2. /\ answer'[f].token = token'[f] /\ answer'[f].nbf = life'[token'[f]].nbf
        /\ answer'[f].exp = life'[token'[f]].exp /\ answer'[f].seen = now'
    BY <1>1, <1>6
  <2>5. answer'[f].active => revokedAt'[token'[f]] = Never
    <3> DEFINE positive == revokedAt[token[f]] = Never
    <3>1. answer'[f] = [token |-> token[f], seen |-> now, active |-> positive,
                        nbf |-> life[token[f]].nbf, exp |-> life[token[f]].exp]
      BY <1>6
    <3>2. answer'[f].active = positive
      <4> HIDE DEF positive
      <4> QED BY <3>1
    <3> QED BY <1>1, <1>6, <3>2
  <2>3. now <= Never
    BY <1>1, AuthAssumption DEF Never
  <2>4. /\ answer'[f].seen <= now' /\ started'[f] <= answer'[f].seen
        /\ answer'[f].active => answer'[f].seen <= revokedAt'[token'[f]]
    BY <1>0, <1>1, <1>6, <2>2, <2>3, <2>5
  <2> QED BY <2>1, <2>2, <2>4 DEF SaysAt
<1> QED BY <1>4, <1>5, <1>6, AnswerSteps

LEMMA FoundClaims == \A claims : Found(claims).kind = "claims" /\ Found(claims).claims = claims
BY DEF Found

LEMMA NextResultsTrue ==
  ASSUME TypeOK, ClaimsTrue, [Next]_vars
  PROVE  ResultsTrue'
<1> SUFFICES ASSUME NEW f \in Callers, result'[f].kind = "claims"
             PROVE  SaysAt(result'[f].claims, token'[f], now', life', revokedAt')
  BY DEF ResultsTrue, Says
<1>1. /\ token[f] \in Tokens /\ UNCHANGED token /\ answer[f] \in Claims /\ result[f].claims \in Claims
      /\ \A k \in DOMAIN cache : cache[k].claims \in Claims
  BY TokensKept DEF TypeOK, Entries, Replies
<1>2. CASE result'[f] = result[f]
  <2>1. Says(result[f].claims, token[f])
    BY <1>2 DEF ClaimsTrue, ResultsTrue
  <2> QED BY <1>1, <1>2, <2>1, SaysLasts
<1>3. CASE Hit(token[f]) /\ result'[f] = Found(cache[token[f]].claims)
  <2>1. token[f] \in DOMAIN cache /\ Says(cache[token[f]].claims, token[f])
    BY <1>3 DEF ClaimsTrue, CacheTrue, Hit
  <2> QED BY <1>1, <1>3, <2>1, SaysLasts, FoundClaims
<1>4. CASE answer[f] # NoClaims /\ result'[f] = Found(answer[f])
  <2>1. Says(answer[f], token[f])
    BY <1>4 DEF ClaimsTrue, AnswersTrue
  <2> QED BY <1>1, <1>4, <2>1, SaysLasts, FoundClaims
<1> QED BY <1>2, <1>3, <1>4, ResultSteps

LEMMA NextCacheTrue ==
  ASSUME TypeOK, ClaimsTrue, [Next]_vars
  PROVE  CacheTrue'
<1> SUFFICES ASSUME NEW k \in DOMAIN cache'
             PROVE  SaysAt(cache'[k].claims, k, now', life', revokedAt')
  BY DEF CacheTrue, Says
<1>1. CASE k \in DOMAIN cache /\ cache'[k] = cache[k]
  <2>1. k \in Tokens /\ cache[k].claims \in Claims
    BY <1>1 DEF TypeOK, Entries
  <2>2. Says(cache[k].claims, k)
    BY <1>1 DEF ClaimsTrue, CacheTrue
  <2> QED BY <1>1, <2>1, <2>2, SaysLasts
<1>2. ASSUME NEW f \in Callers, k = token[f], answer[f] # NoClaims, cache'[k].claims = answer[f]
      PROVE  SaysAt(cache'[k].claims, k, now', life', revokedAt')
  <2>1. token[f] \in Tokens /\ answer[f] \in Claims
    BY DEF TypeOK
  <2>2. Says(answer[f], token[f])
    BY <1>2 DEF ClaimsTrue, AnswersTrue
  <2>3. SaysAt(answer[f], token[f], now', life', revokedAt')
    BY <2>1, <2>2, SaysLasts
  <2> QED BY <1>2, <2>3
<1> QED BY <1>1, <1>2, CacheSteps

LEMMA NextRepliesTrue ==
  ASSUME TypeOK, FlightInv, ClaimsTrue, [Next]_vars
  PROVE  RepliesTrue'
<1> SUFFICES ASSUME NEW c \in Callers
             PROVE  /\ reply'[c].kind = "claims" =>
                         SaysAt(reply'[c].claims, token'[c], now', life', revokedAt')
                    /\ cpc'[c] = "authorize" => reply'[c].kind = "claims"
  BY DEF RepliesTrue, Says
<1>1. /\ token[c] \in Tokens /\ UNCHANGED token /\ reply[c].claims \in Claims
      /\ \A k \in DOMAIN cache : cache[k].claims \in Claims
      /\ \A f \in Callers : result[f].claims \in Claims
  BY TokensKept DEF TypeOK, Entries, Replies
<1>2. CASE /\ reply'[c] = reply[c]
           /\ cpc'[c] = "authorize" => \/ cpc[c] = "authorize"
                                       \/ cpc[c] = "leave" /\ reply[c].kind = "claims"
  <2>1. /\ reply[c].kind = "claims" => Says(reply[c].claims, token[c])
        /\ cpc[c] = "authorize" => reply[c].kind = "claims"
    BY DEF ClaimsTrue, RepliesTrue
  <2> QED BY <1>1, <1>2, <2>1, SaysLasts
<1>3. CASE Hit(token[c]) /\ reply'[c] = Found(cache[token[c]].claims)
  <2>1. token[c] \in DOMAIN cache /\ Says(cache[token[c]].claims, token[c])
    BY <1>3 DEF ClaimsTrue, CacheTrue, Hit
  <2> QED BY <1>1, <1>3, <2>1, SaysLasts, FoundClaims
<1>4. CASE cpc[c] = "wait" /\ reply'[c] = result[joined[c]] /\ cpc'[c] = "leave"
  <2>1. joined[c] \in Callers /\ token[joined[c]] = token[c]
    BY <1>4 DEF FlightInv, JoinedOwn
  <2>2. result[joined[c]].kind = "claims" => Says(result[joined[c]].claims, token[joined[c]])
    BY <2>1 DEF ClaimsTrue, ResultsTrue
  <2> QED BY <1>1, <1>4, <2>1, <2>2, SaysLasts
<1>5. CASE reply'[c].kind = "canceled" /\ cpc'[c] = "leave"
  BY <1>5
<1> QED BY <1>2, <1>3, <1>4, <1>5, ReplySteps

LEMMA InitClaims == Init => ClaimsTrue
<1> SUFFICES ASSUME Init PROVE ClaimsTrue
  OBVIOUS
<1>1. AnswersTrue
  BY DEF Init, AnswersTrue
<1>2. \A f \in Callers : result[f].kind = "none" /\ reply[f].kind = "none" /\ cpc[f] = "idle"
  BY DEF Init, NoResult
<1>3. ResultsTrue /\ RepliesTrue
  BY <1>2 DEF ResultsTrue, RepliesTrue
<1>4. CacheTrue
  BY DEF Init, CacheTrue
<1> QED BY <1>1, <1>3, <1>4 DEF ClaimsTrue

LEMMA NextClaims == TypeOK /\ FlightInv /\ ClaimsTrue /\ [Next]_vars => ClaimsTrue'
<1> SUFFICES ASSUME TypeOK, FlightInv, ClaimsTrue, [Next]_vars PROVE ClaimsTrue'
  OBVIOUS
<1>1. AnswersTrue
  BY DEF ClaimsTrue
<1> QED BY <1>1, NextAnswers, NextResultsTrue, NextCacheTrue, NextRepliesTrue DEF ClaimsTrue

\* A caller becomes accepted in authorize only, with claims that are valid there.
LEMMA AcceptSteps ==
  ASSUME TypeOK, FlightInv, [Next]_vars, NEW c \in Callers, outcome[c] = "none", outcome'[c] = "accepted"
  PROVE  cpc[c] = "authorize" /\ Valid(reply[c].claims) /\ UNCHANGED <<now, revokedAt>>
<1>0. outcome \in [Callers -> {"none", "accepted", "rejected", "denied", "overload"} \cup Kinds]
  BY DEF TypeOK
<1>1. ASSUME NEW d \in Callers, Authorize(d)
      PROVE  cpc[c] = "authorize" /\ Valid(reply[c].claims) /\ UNCHANGED <<now, revokedAt>>
  <2>1. PICK scoped \in BOOLEAN :
          outcome' = [outcome EXCEPT ![d] = authorize(reply[d].claims, scoped)]
    BY <1>1 DEF Authorize
  <2>2. d = c
    BY <1>0, <2>1
  <2>3. authorize(reply[c].claims, scoped) = "accepted"
    BY <1>0, <2>1, <2>2
  <2>4. Valid(reply[c].claims)
    BY <2>3 DEF authorize
  <2> QED BY <1>1, <2>2, <2>4 DEF Authorize, givenVars
<1>2. ASSUME NEW d \in Callers, Leave(d) PROVE FALSE
  <2>1. \/ outcome' = [outcome EXCEPT ![d] = reply[d].kind]
        \/ outcome' = [outcome EXCEPT ![d] = outcome[d]]
    BY <1>2 DEF Leave, AfterLeave
  <2>2. reply[d].kind # "accepted"
    BY DEF TypeOK, Replies, Kinds
  <2> QED BY <1>0, <2>1, <2>2
<1>3. ASSUME NEW d \in Callers, JoinRefused(d) \/ GoneBeforeJoin(d) PROVE FALSE
  <2>1. \E kind \in {"overload", "canceled"} : outcome' = [outcome EXCEPT ![d] = kind]
    BY <1>3 DEF JoinRefused, GoneBeforeJoin
  <2> QED BY <1>0, <2>1
<1>4. \/ UNCHANGED outcome
      \/ \E d \in Callers : Authorize(d) \/ Leave(d) \/ JoinRefused(d) \/ GoneBeforeJoin(d)
  BY Steps
     DEF Arrive, CallerGone, Lookup, JoinShared, JoinStarts, Receive,
         StopWaiting, FlightLookup, IssuerAnswers, FetchReturns, FetchEnds,
         RunForgets, RunReleases, RunCloses, Revoke, Tick, vars, callerVars
<1> QED BY <1>1, <1>2, <1>3, <1>4

\* A caller is accepted only with what the issuer said of its own token, and only
\* while that token is within nbf and exp (validate in authorize), for every token,
\* lifetime, cache and interleaving of the flights.
THEOREM AcceptSoundCorrect == Spec => AcceptSound
<1> DEFINE Sound == \A c \in Callers :
       outcome[c] = "none" /\ outcome'[c] = "accepted" =>
         /\ reply[c].claims.token = token[c] /\ reply[c].claims.active
         /\ life[token[c]].nbf <= now /\ now < life[token[c]].exp
<1>1. TypeOK /\ FlightInv /\ ClaimsTrue /\ [Next]_vars => [Sound]_vars
  <2> SUFFICES ASSUME TypeOK, FlightInv, ClaimsTrue, [Next]_vars, NEW c \in Callers,
                      outcome[c] = "none", outcome'[c] = "accepted"
               PROVE  /\ reply[c].claims.token = token[c] /\ reply[c].claims.active
                      /\ life[token[c]].nbf <= now /\ now < life[token[c]].exp
    OBVIOUS
  <2>1. cpc[c] = "authorize" /\ Valid(reply[c].claims)
    BY AcceptSteps
  <2>2. Says(reply[c].claims, token[c])
    BY <2>1 DEF ClaimsTrue, RepliesTrue
  <2>3. /\ reply[c].claims.active /\ reply[c].claims.exp > now /\ reply[c].claims.nbf <= now
    BY <2>1 DEF Valid
  <2>4. /\ reply[c].claims.token = token[c] /\ reply[c].claims.nbf = life[token[c]].nbf
        /\ reply[c].claims.exp = life[token[c]].exp
    BY <2>2 DEF Says, SaysAt
  <2>5. now \in Nat /\ reply[c].claims.exp \in Nat
    BY AuthAssumption DEF TypeOK, Replies, Claims
  <2> QED BY <2>3, <2>4, <2>5
<1>2. ClaimsTrue /\ FlightInv /\ TypeOK /\ [Next]_vars => ClaimsTrue' /\ FlightInv' /\ TypeOK'
  BY NextClaims, NextFlight
<1>3. Init => TypeOK /\ FlightInv /\ ClaimsTrue
  BY InitType, InitFlight, InitClaims
<1> QED BY <1>1, <1>2, <1>3, PTL DEF Spec, AcceptSound

--------------------------------------------------------------------------------
(* How long a revoked token is accepted *)

\* Claims young enough to be used: as old as a request may take, or as an entry may live.
FreshAt(claims, time) == time <= claims.seen + Timeout \/ time < claims.seen + Timeout + TTL
Fresh(claims) == FreshAt(claims, now)

CacheFresh == \A k \in DOMAIN cache : cache[k].expires <= cache[k].claims.seen + Timeout + TTL

ResultsFresh ==
  \A f \in Callers : fpc[f] \in {"forget", "release", "close"} /\ result[f].kind = "claims" =>
    Fresh(result[f].claims)
JoinedFresh ==
  \A c \in Callers :
    cpc[c] \in {"wait", "leave"} /\ fpc[joined[c]] = "done" /\ result[joined[c]].kind = "claims" =>
      Fresh(result[joined[c]].claims)
RepliesFresh ==
  \A c \in Callers : cpc[c] \in {"leave", "authorize"} /\ reply[c].kind = "claims" =>
    Fresh(reply[c].claims)

\* What is on its way to a caller is fresh, when local steps take no time.
FreshInv == CacheFresh /\ ResultsFresh /\ JoinedFresh /\ RepliesFresh

LEMMA InitFresh == Init => FreshInv
<1> SUFFICES ASSUME Init PROVE FreshInv
  OBVIOUS
<1>1. \A f \in Callers : fpc[f] = "none" /\ cpc[f] = "idle"
  BY DEF Init
<1>2. CacheFresh
  BY DEF Init, CacheFresh
<1> QED BY <1>1, <1>2 DEF FreshInv, ResultsFresh, JoinedFresh, RepliesFresh

\* The answer a flight takes within its timeout, and a live entry, are fresh.
LEMMA FreshSources ==
  ASSUME TypeOK, ClaimsTrue, CacheFresh
  PROVE  /\ \A f \in Callers : answer[f] # NoClaims /\ now <= started[f] + Timeout =>
              now <= answer[f].seen + Timeout
         /\ \A k : Hit(k) => Fresh(cache[k].claims)
<1>1. now \in Nat /\ Timeout \in Nat /\ TTL \in Nat
  BY AuthAssumption DEF TypeOK
<1>2. ASSUME NEW f \in Callers, answer[f] # NoClaims, now <= started[f] + Timeout
      PROVE  now <= answer[f].seen + Timeout
  <2>1. started[f] <= answer[f].seen
    BY <1>2 DEF ClaimsTrue, AnswersTrue
  <2>2. started[f] \in Nat /\ answer[f].seen \in Nat
    BY AuthAssumption DEF TypeOK, Claims
  <2> QED BY <1>1, <1>2, <2>1, <2>2
<1>3. ASSUME NEW k, Hit(k) PROVE Fresh(cache[k].claims)
  <2>1. k \in DOMAIN cache /\ now < cache[k].expires
    BY <1>3 DEF Hit, Live
  <2>2. cache[k].expires \in Nat /\ cache[k].claims.seen \in Nat
    BY <2>1, AuthAssumption DEF TypeOK, Entries, Claims
  <2>3. cache[k].expires <= cache[k].claims.seen + Timeout + TTL
    BY <2>1 DEF CacheFresh
  <2>4. now < cache[k].claims.seen + Timeout + TTL
    BY <1>1, <2>1, <2>2, <2>3
  <2> QED BY <2>4 DEF Fresh, FreshAt
<1> QED BY <1>2, <1>3

LEMMA NextCacheFresh ==
  ASSUME TypeOK, ClaimsTrue, CacheFresh, [Next]_vars
  PROVE  CacheFresh'
<1> SUFFICES ASSUME NEW k \in DOMAIN cache'
             PROVE  cache'[k].expires <= cache'[k].claims.seen + Timeout + TTL
  BY DEF CacheFresh
<1>1. CASE k \in DOMAIN cache /\ cache'[k] = cache[k]
  BY <1>1 DEF CacheFresh
<1>2. ASSUME NEW f \in Callers, answer[f] # NoClaims, cache'[k].claims = answer[f],
             cache'[k].expires \in Nat, cache'[k].expires <= now + TTL, now <= started[f] + Timeout
      PROVE  cache'[k].expires <= cache'[k].claims.seen + Timeout + TTL
  <2>1. now <= answer[f].seen + Timeout
    BY <1>2, FreshSources
  <2>2. now \in Nat /\ answer[f].seen \in Nat /\ Timeout \in Nat /\ TTL \in Nat
    BY AuthAssumption DEF TypeOK, Claims
  <2> QED BY <1>2, <2>1, <2>2
<1> QED BY <1>1, <1>2, CacheSteps

LEMMA NextResultsFresh ==
  ASSUME TypeOK, ClaimsTrue, FreshInv, [Next]_vars, UNCHANGED now
  PROVE  ResultsFresh'
<1> SUFFICES ASSUME NEW f \in Callers, fpc'[f] \in {"forget", "release", "close"},
                    result'[f].kind = "claims"
             PROVE  FreshAt(result'[f].claims, now)
  BY DEF ResultsFresh, Fresh
<1>1. CASE result'[f] = result[f] /\ fpc[f] \in {"forget", "release", "close"}
  BY <1>1 DEF FreshInv, ResultsFresh, Fresh
<1>2. CASE Hit(token[f]) /\ result'[f] = Found(cache[token[f]].claims)
  BY <1>2, FreshSources, FoundClaims DEF FreshInv, Fresh
<1>3. CASE answer[f] # NoClaims /\ result'[f] = Found(answer[f]) /\ now <= started[f] + Timeout
  <2>1. now <= answer[f].seen + Timeout
    BY <1>3, FreshSources DEF FreshInv
  <2>2. FreshAt(answer[f], now)
    BY <2>1 DEF FreshAt
  <2> QED BY <1>3, <2>2, FoundClaims
<1> QED BY <1>1, <1>2, <1>3, ResultSteps

LEMMA NextJoinedFresh ==
  ASSUME TypeOK, FlightInv, ClaimsTrue, FreshInv, [Next]_vars, UNCHANGED now
  PROVE  JoinedFresh'
<1> SUFFICES ASSUME NEW c \in Callers, cpc'[c] \in {"wait", "leave"}, fpc'[joined'[c]] = "done",
                    result'[joined'[c]].kind = "claims"
             PROVE  FreshAt(result'[joined'[c]].claims, now)
  BY DEF JoinedFresh, Fresh
<1>1. CASE cpc[c] \in {"wait", "leave"} /\ joined'[c] = joined[c]
  <2>1. joined[c] \in Callers
    BY <1>1 DEF FlightInv, JoinedOwn
  <2>2. result'[joined[c]] = result[joined[c]] /\ fpc[joined[c]] \in {"close", "done"}
    BY <1>1, <2>1, ResultSteps
  <2>3. FreshAt(result[joined[c]].claims, now)
    BY <1>1, <2>1, <2>2 DEF FreshInv, ResultsFresh, JoinedFresh, Fresh
  <2> QED BY <1>1, <2>2, <2>3
<1>2. CASE token[c] \in DOMAIN pending /\ joined'[c] = pending[token[c]] /\ UNCHANGED fpc
  BY <1>2 DEF FlightInv, PendingExact
<1>3. CASE joined'[c] = c /\ fpc'[c] = "get"
  BY <1>3
<1> QED BY <1>1, <1>2, <1>3, CallerMoves

LEMMA NextRepliesFresh ==
  ASSUME TypeOK, FlightInv, ClaimsTrue, FreshInv, [Next]_vars, UNCHANGED now
  PROVE  RepliesFresh'
<1> SUFFICES ASSUME NEW c \in Callers, cpc'[c] \in {"leave", "authorize"}, reply'[c].kind = "claims"
             PROVE  FreshAt(reply'[c].claims, now)
  BY DEF RepliesFresh, Fresh
<1>1. CASE reply'[c] = reply[c] /\ cpc[c] \in {"leave", "authorize"}
  BY <1>1 DEF FreshInv, RepliesFresh, Fresh
<1>2. CASE Hit(token[c]) /\ reply'[c] = Found(cache[token[c]].claims)
  BY <1>2, FreshSources, FoundClaims DEF FreshInv, Fresh
<1>3. CASE cpc[c] = "wait" /\ fpc[joined[c]] = "done" /\ reply'[c] = result[joined[c]]
  BY <1>3 DEF FreshInv, JoinedFresh, Fresh
<1> QED BY <1>1, <1>2, <1>3, ReplySteps

\* Time passes only while nothing fresh is on its way.
LEMMA TickFresh ==
  ASSUME Prompt, TypeOK, FlightInv, Tick
  PROVE  ResultsFresh' /\ JoinedFresh' /\ RepliesFresh'
<1>1. Settled /\ UNCHANGED <<callerVars, flightVars>>
  BY DEF Tick
<1>2. /\ \A c \in Callers : cpc[c] \notin {"leave", "authorize"}
      /\ \A f \in Callers : fpc[f] \notin {"forget", "release", "close"}
      /\ \A c \in Callers : cpc[c] = "wait" => fpc[joined[c]] # "done"
  BY <1>1 DEF Settled
<1>3. UNCHANGED <<cpc, fpc, joined>>
  BY <1>1 DEF callerVars, flightVars
<1> QED BY <1>2, <1>3 DEF ResultsFresh, JoinedFresh, RepliesFresh

LEMMA NextFresh ==
  ASSUME Prompt, TypeOK, FlightInv, ClaimsTrue, FreshInv, [Next]_vars
  PROVE  FreshInv'
<1>1. CacheFresh'
  BY NextCacheFresh DEF FreshInv
<1>2. CASE Tick
  BY <1>1, <1>2, TickFresh DEF FreshInv
<1>3. CASE UNCHANGED now
  BY <1>1, <1>3, NextResultsFresh, NextJoinedFresh, NextRepliesFresh DEF FreshInv
<1>4. UNCHANGED now \/ Tick
  BY Steps
     DEF Arrive, CallerGone, Lookup, GoneBeforeJoin, JoinShared, JoinRefused, JoinStarts, Receive,
         StopWaiting, Leave, Authorize, FlightLookup, IssuerAnswers, FetchReturns, FetchEnds,
         RunForgets, RunReleases, RunCloses, Revoke, vars
<1> QED BY <1>2, <1>3, <1>4

\* A revoked token is accepted for no longer than a request may take plus
\* introspection_cache_ttl (put, get and the request's timeout), when the steps of the
\* program itself take no time: every sharing, caching and eviction included.
THEOREM RevocationBoundedCorrect ==
  ASSUME Prompt
  PROVE  Spec => RevocationBounded
<1> DEFINE Bounded == \A c \in Callers :
       outcome[c] = "none" /\ outcome'[c] = "accepted" =>
         \/ now <= revokedAt[token[c]] + Timeout
         \/ now < revokedAt[token[c]] + Timeout + TTL
<1> DEFINE Inv == TypeOK /\ FlightInv /\ ClaimsTrue /\ FreshInv
<1>1. Inv /\ [Next]_vars => [Bounded]_vars
  <2> SUFFICES ASSUME Inv, [Next]_vars, NEW c \in Callers,
                      outcome[c] = "none", outcome'[c] = "accepted"
               PROVE  \/ now <= revokedAt[token[c]] + Timeout
                      \/ now < revokedAt[token[c]] + Timeout + TTL
    OBVIOUS
  <2>1. cpc[c] = "authorize" /\ Valid(reply[c].claims)
    BY AcceptSteps
  <2>2. reply[c].kind = "claims" /\ Says(reply[c].claims, token[c])
    BY <2>1 DEF ClaimsTrue, RepliesTrue
  <2>3. reply[c].claims.seen <= revokedAt[token[c]]
    BY <2>1, <2>2 DEF Valid, Says, SaysAt
  <2>4. Fresh(reply[c].claims)
    BY <2>1, <2>2 DEF FreshInv, RepliesFresh
  <2>5. reply[c].claims.seen \in Nat /\ revokedAt[token[c]] \in Nat
    BY AuthAssumption DEF TypeOK, Replies, Claims, Never
  <2>6. now \in Nat /\ Timeout \in Nat /\ TTL \in Nat
    BY AuthAssumption DEF TypeOK
  <2> QED BY <2>3, <2>4, <2>5, <2>6 DEF Fresh, FreshAt
<1>2. Inv /\ [Next]_vars => Inv'
  BY NextClaims, NextFlight, NextFresh
<1>3. Init => Inv
  BY InitType, InitFlight, InitClaims, InitFresh
<1> QED BY <1>1, <1>2, <1>3, PTL DEF Spec, RevocationBounded

================================================================================
