------------------------------- MODULE CallerAuth -------------------------------
(***************************************************************************)
(* Bearer authentication of gRPC callers: introspectCaller of every RPC,   *)
(* the positive introspectionCache, and the introspectionFlights that      *)
(* collapse lookups of one token and bound the requests to the issuer.     *)
(*                                                                         *)
(* A token stands for its digest.  The issuer's verdict on it is whether   *)
(* it is active and its nbf and exp; an exp of 0 stands for claims that    *)
(* never validate (another issuer or audience too).  Time is a counter.    *)
(* A flight is named after the caller whose join started it.               *)
(***************************************************************************)
EXTENDS Naturals, FiniteSets

CONSTANTS
  Callers,        \* RPCs that authenticate with a bearer token
  Tokens,         \* tokens they present
  Settings,       \* which caller presents which token, and introspection_max_concurrent
  Revocable,      \* tokens the issuer may revoke
  Lifetimes,      \* [nbf, exp] the issuer may have given a token
  MaxEntries,     \* introspection_cache_max_entries (0: no cache)
  EvictionSample, \* introspectionEvictionSample
  TTL,            \* introspection_cache_ttl (0: no cache)
  Timeout,        \* timeout of one introspection request
  MaxTime,        \* bound: the clock stops here
  Prompt          \* TRUE: local steps take no time, only requests and callers do

ASSUME AuthAssumption ==
  /\ MaxEntries \in Nat /\ TTL \in Nat /\ MaxTime \in Nat /\ Prompt \in BOOLEAN
  /\ EvictionSample \in Nat \ {0} /\ Timeout \in Nat \ {0}
  /\ Settings \subseteq [tokens : [Callers -> Tokens], maxConcurrent : Nat \ {0}]
  /\ Lifetimes \subseteq [nbf : Nat, exp : Nat] /\ Revocable \subseteq Tokens
  /\ IsFiniteSet(Callers) /\ IsFiniteSet(Tokens)

VARIABLES
  now,        \* the clock
  token,      \* the token of each caller
  maxConcurrent, \* introspection_max_concurrent
  life,       \* nbf and exp of each token
  revokedAt,  \* when the issuer revoked each token
  cpc,        \* where each caller's introspectCaller or authorize is
  gone,       \* callers whose context has ended
  joined,     \* the flight each caller has joined
  reply,      \* what each caller has been given: a flight's result
  outcome,    \* how authenticateCaller ended
  cache,      \* introspectionCache.entries
  pending,    \* introspectionFlights.pending
  slots,      \* tokens in introspectionFlights.slots
  fpc,        \* where each flight's run is
  waiters,    \* introspectionFlight.waiters
  canceled,   \* flights whose context is canceled
  started,    \* when the flight's request was sent
  answer,     \* the issuer's response on its way to the flight
  result      \* introspectionFlight.result

givenVars  == <<token, maxConcurrent, life, revokedAt>>
callerVars == <<cpc, gone, joined, reply, outcome>>
flightVars == <<fpc, waiters, canceled, started, answer, result>>
vars == <<now, givenVars, callerVars, cache, pending, slots, flightVars>>

Never  == MaxTime + 1
Nobody == "nobody"
NoClaims == [token |-> Nobody, seen |-> 0, active |-> FALSE, nbf |-> 0, exp |-> 0]
NoResult == [kind |-> "none", claims |-> NoClaims]
Failed(kind) == [kind |-> kind, claims |-> NoClaims]
Found(claims) == [kind |-> "claims", claims |-> claims]

--------------------------------------------------------------------------------
(* introspectionCache *)

HasCache == TTL > 0 /\ MaxEntries > 0

Without(entries, keys) == [k \in DOMAIN entries \ keys |-> entries[k]]
With(entries, key, entry) ==
  [k \in DOMAIN entries \cup {key} |-> IF k = key THEN entry ELSE entries[k]]

Live(key) == now < cache[key].expires
Hit(key)  == HasCache /\ key \in DOMAIN cache /\ Live(key)

\* get: an expired entry is deleted on the way.
Get(key) == cache' = IF Hit(key) THEN cache ELSE Without(cache, {key})

\* Mutant: a full cache gives up expired entries only.
EvictExpiredOnly(sample) == {Without(cache, {k \in sample : ~Live(k)})}

\* evictLocked for the entries a map iteration happens to sample: the caches it may leave.
Evict(sample) ==
  LET live  == {k \in sample : Live(k)}
      kept  == Without(cache, sample \ live)
      first == {k \in live : \A l \in live : cache[k].expires <= cache[l].expires}
  IN IF Cardinality(DOMAIN kept) >= MaxEntries /\ live # {}
     THEN {Without(kept, {k}) : k \in first}
     ELSE {kept}

Samples == {s \in SUBSET DOMAIN cache :
              \/ s = DOMAIN cache /\ Cardinality(s) <= EvictionSample
              \/ Cardinality(s) = EvictionSample}

\* Mutant: an entry lives as long as its token.
PutUntilExp(key, claims) ==
  cache' = IF HasCache THEN With(cache, key, [claims |-> claims, expires |-> claims.exp]) ELSE cache

\* put, with now the instant of the call.
Put(key, claims) ==
  LET expires == IF claims.exp < now + TTL THEN claims.exp ELSE now + TTL
      entry   == [claims |-> claims, expires |-> expires]
  IN IF ~HasCache \/ now >= expires THEN UNCHANGED cache
     ELSE IF key \notin DOMAIN cache /\ Cardinality(DOMAIN cache) >= MaxEntries
          THEN \E sample \in Samples : \E kept \in Evict(sample) : cache' = With(kept, key, entry)
          ELSE cache' = With(cache, key, entry)

\* introspectionClaims.validate
Valid(claims) == claims.active /\ claims.exp > now /\ claims.nbf <= now

--------------------------------------------------------------------------------
(* introspectionFlights *)

\* Mutant: whatever flight the token has is forgotten.
ForgetAny(f) == pending' = Without(pending, {token[f]})

\* forgetLocked: only the flight itself is forgotten, not a successor.
forgetLocked(f) ==
  pending' = IF token[f] \in DOMAIN pending /\ pending[token[f]] = f
             THEN Without(pending, {token[f]}) ELSE pending

\* Mutant: a caller that shares a flight is not counted.
JoinUncounted(c) ==
  /\ cpc[c] = "join" /\ c \notin gone /\ token[c] \in DOMAIN pending
  /\ joined' = [joined EXCEPT ![c] = pending[token[c]]]
  /\ cpc' = [cpc EXCEPT ![c] = "wait"]
  /\ UNCHANGED <<now, givenVars, gone, reply, outcome, cache, pending, slots, flightVars>>

\* join under g.mu: share the pending flight, be refused, or start a flight.
JoinShared(c) ==
  /\ cpc[c] = "join" /\ c \notin gone /\ token[c] \in DOMAIN pending
  /\ joined' = [joined EXCEPT ![c] = pending[token[c]]]
  /\ waiters' = [waiters EXCEPT ![pending[token[c]]] = @ + 1]
  /\ cpc' = [cpc EXCEPT ![c] = "wait"]
  /\ UNCHANGED <<now, givenVars, gone, reply, outcome, cache, pending, slots, fpc, canceled,
                 started, answer, result>>

JoinRefused(c) ==
  /\ cpc[c] = "join" /\ c \notin gone /\ token[c] \notin DOMAIN pending /\ slots >= maxConcurrent
  /\ cpc' = [cpc EXCEPT ![c] = "done"]
  /\ outcome' = [outcome EXCEPT ![c] = "overload"]
  /\ UNCHANGED <<now, givenVars, gone, joined, reply, cache, pending, slots, flightVars>>

JoinStarts(c) ==
  /\ cpc[c] = "join" /\ c \notin gone /\ token[c] \notin DOMAIN pending /\ slots < maxConcurrent
  /\ slots' = slots + 1
  /\ pending' = With(pending, token[c], c)
  /\ waiters' = [waiters EXCEPT ![c] = 1] /\ fpc' = [fpc EXCEPT ![c] = "get"]
  /\ joined' = [joined EXCEPT ![c] = c] /\ cpc' = [cpc EXCEPT ![c] = "wait"]
  /\ UNCHANGED <<now, givenVars, gone, reply, outcome, cache, canceled, started, answer, result>>

\* What introspectCaller does once leave has returned.
AfterLeave(c) ==
  LET failed == reply[c].kind # "claims"
  IN /\ cpc' = [cpc EXCEPT ![c] = IF failed THEN "done" ELSE "authorize"]
     /\ outcome' = [outcome EXCEPT ![c] = IF failed THEN reply[c].kind ELSE @]

\* Mutant: the last waiter cancels the flight without forgetting it.
LeaveUnforgotten(c) ==
  LET f == joined[c]
      last == waiters[f] = 1 /\ fpc[f] # "done"
  IN /\ cpc[c] = "leave"
     /\ waiters' = [waiters EXCEPT ![f] = @ - 1]
     /\ canceled' = IF last THEN canceled \cup {f} ELSE canceled
     /\ AfterLeave(c)
     /\ UNCHANGED <<now, givenVars, gone, joined, reply, cache, pending, slots, fpc, started,
                    answer, result>>

\* Mutant: the slot of an abandoned flight is given back at once, and by run again.
LeaveReleases(c) ==
  LET f == joined[c]
      last == waiters[f] = 1 /\ fpc[f] # "done"
  IN /\ cpc[c] = "leave"
     /\ waiters' = [waiters EXCEPT ![f] = @ - 1]
     /\ IF last THEN forgetLocked(f) /\ canceled' = canceled \cup {f} /\ slots' = slots - 1
        ELSE UNCHANGED <<pending, canceled, slots>>
     /\ AfterLeave(c)
     /\ UNCHANGED <<now, givenVars, gone, joined, reply, cache, fpc, started, answer, result>>

\* leave, deferred in introspectCaller: the last waiter abandons an unfinished flight.
Leave(c) ==
  LET f == joined[c]
      last == waiters[f] = 1 /\ fpc[f] # "done"
  IN /\ cpc[c] = "leave"
     /\ waiters' = [waiters EXCEPT ![f] = @ - 1]
     /\ IF last THEN forgetLocked(f) /\ canceled' = canceled \cup {f}
        ELSE UNCHANGED <<pending, canceled>>
     /\ AfterLeave(c)
     /\ UNCHANGED <<now, givenVars, gone, joined, reply, cache, slots, fpc, started, answer,
                    result>>

--------------------------------------------------------------------------------
(* A caller: authenticateCaller and introspectCaller *)

\* The RPC's context ends: the client cancels or its deadline passes.
CallerGone(c) ==
  /\ c \notin gone /\ cpc[c] \in {"join", "wait"}
  /\ gone' = gone \cup {c}
  /\ UNCHANGED <<now, givenVars, cpc, joined, reply, outcome, cache, pending, slots, flightVars>>

\* The first cache lookup.
Lookup(c) ==
  /\ cpc[c] = "lookup"
  /\ Get(token[c])
  /\ cpc' = [cpc EXCEPT ![c] = IF Hit(token[c]) THEN "authorize" ELSE "join"]
  /\ reply' = [reply EXCEPT ![c] = IF Hit(token[c]) THEN Found(cache[token[c]].claims) ELSE @]
  /\ UNCHANGED <<now, givenVars, gone, joined, outcome, pending, slots, flightVars>>

GoneBeforeJoin(c) ==
  /\ cpc[c] = "join" /\ c \in gone
  /\ cpc' = [cpc EXCEPT ![c] = "done"] /\ outcome' = [outcome EXCEPT ![c] = "canceled"]
  /\ UNCHANGED <<now, givenVars, gone, joined, reply, cache, pending, slots, flightVars>>

\* The select on flight.done and ctx.Done; both may be ready.
Receive(c) ==
  /\ cpc[c] = "wait" /\ fpc[joined[c]] = "done"
  /\ reply' = [reply EXCEPT ![c] = result[joined[c]]]
  /\ cpc' = [cpc EXCEPT ![c] = "leave"]
  /\ UNCHANGED <<now, givenVars, gone, joined, outcome, cache, pending, slots, flightVars>>

StopWaiting(c) ==
  /\ cpc[c] = "wait" /\ c \in gone
  /\ reply' = [reply EXCEPT ![c] = Failed("canceled")]
  /\ cpc' = [cpc EXCEPT ![c] = "leave"]
  /\ UNCHANGED <<now, givenVars, gone, joined, outcome, cache, pending, slots, flightVars>>

\* Mutant: claims that were valid when they were fetched are not validated again.
AuthorizeScopes(claims, scoped) == IF scoped THEN "accepted" ELSE "denied"

\* authorize; scoped tells whether the claims hold the scopes the method asks for.
authorize(claims, scoped) ==
  IF ~Valid(claims) THEN "rejected" ELSE IF ~scoped THEN "denied" ELSE "accepted"

Authorize(c) ==
  /\ cpc[c] = "authorize" /\ cpc' = [cpc EXCEPT ![c] = "done"]
  /\ \E scoped \in BOOLEAN : outcome' = [outcome EXCEPT ![c] = authorize(reply[c].claims, scoped)]
  /\ UNCHANGED <<now, givenVars, gone, joined, reply, cache, pending, slots, flightVars>>

--------------------------------------------------------------------------------
(* A flight: run and runIntrospectionFlight *)

FlightLookup(f) ==
  /\ fpc[f] = "get"
  /\ Get(token[f])
  /\ fpc' = [fpc EXCEPT ![f] = IF Hit(token[f]) THEN "forget" ELSE "fetch"]
  /\ result' = [result EXCEPT ![f] = IF Hit(token[f]) THEN Found(cache[token[f]].claims) ELSE @]
  /\ started' = [started EXCEPT ![f] = now]
  /\ UNCHANGED <<now, givenVars, callerVars, pending, slots, waiters, canceled, answer>>

\* External: the issuer looks at the token and answers.
IssuerAnswers(f) ==
  /\ fpc[f] = "fetch" /\ answer[f] = NoClaims
  /\ answer' = [answer EXCEPT ![f] =
       [token |-> token[f], seen |-> now, active |-> revokedAt[token[f]] = Never,
        nbf |-> life[token[f]].nbf, exp |-> life[token[f]].exp]]
  /\ UNCHANGED <<now, givenVars, callerVars, cache, pending, slots, fpc, waiters, canceled,
                 started, result>>

\* fetchIntrospection decodes the response; positive, valid claims are cached.
FetchReturns(f) ==
  /\ fpc[f] = "fetch" /\ answer[f] # NoClaims /\ now <= started[f] + Timeout
  /\ result' = [result EXCEPT ![f] = Found(answer[f])]
  /\ IF Valid(answer[f]) THEN Put(token[f], answer[f]) ELSE UNCHANGED cache
  /\ answer' = [answer EXCEPT ![f] = NoClaims] /\ fpc' = [fpc EXCEPT ![f] = "forget"]
  /\ UNCHANGED <<now, givenVars, callerVars, pending, slots, waiters, canceled, started>>

FetchEnds(f, kind) ==
  /\ fpc[f] = "fetch"
  /\ result' = [result EXCEPT ![f] = Failed(kind)]
  /\ answer' = [answer EXCEPT ![f] = NoClaims] /\ fpc' = [fpc EXCEPT ![f] = "forget"]
  /\ UNCHANGED <<now, givenVars, callerVars, cache, pending, slots, waiters, canceled, started>>

\* No secret, a transport error, an HTTP status but 200, or an unreadable body.
FetchFails(f) == f \notin canceled /\ FetchEnds(f, "unavailable")

\* Mutant: the request has no deadline of its own.
FetchNeverTimesOut(f) == f \in canceled /\ now >= started[f] + Timeout /\ FetchEnds(f, "unavailable")

FetchTimesOut(f) == f \notin canceled /\ now >= started[f] + Timeout /\ FetchEnds(f, "unavailable")

\* introspectionTransportError for an abandoned flight.
FetchAbandoned(f) == f \in canceled /\ FetchEnds(f, "abandoned")

\* The deferred steps of run.
RunForgets(f) ==
  /\ fpc[f] = "forget" /\ fpc' = [fpc EXCEPT ![f] = "release"]
  /\ forgetLocked(f)
  /\ UNCHANGED <<now, givenVars, callerVars, cache, slots, waiters, canceled, started, answer,
                 result>>

\* Mutant: only a flight that was not abandoned gives its slot back.
ReleaseUnlessCanceled(f) ==
  /\ fpc[f] = "release" /\ fpc' = [fpc EXCEPT ![f] = "close"]
  /\ canceled' = canceled \cup {f} /\ slots' = IF f \in canceled THEN slots ELSE slots - 1
  /\ UNCHANGED <<now, givenVars, callerVars, cache, pending, waiters, started, answer, result>>

RunReleases(f) ==
  /\ fpc[f] = "release" /\ fpc' = [fpc EXCEPT ![f] = "close"]
  /\ canceled' = canceled \cup {f} /\ slots' = slots - 1
  /\ UNCHANGED <<now, givenVars, callerVars, cache, pending, waiters, started, answer, result>>

RunCloses(f) ==
  /\ fpc[f] = "close" /\ fpc' = [fpc EXCEPT ![f] = "done"]
  /\ UNCHANGED <<now, givenVars, callerVars, cache, pending, slots, waiters, canceled, started,
                 answer, result>>

--------------------------------------------------------------------------------
(* External: the issuer and the clock *)

Revoke(t) ==
  /\ revokedAt[t] = Never /\ revokedAt' = [revokedAt EXCEPT ![t] = now]
  /\ UNCHANGED <<now, token, maxConcurrent, life, callerVars, cache, pending, slots, flightVars>>

\* An RPC arrives, early enough for a request of its own to time out before MaxTime.
Arrive(c) ==
  /\ cpc[c] = "idle" /\ now + Timeout <= MaxTime
  /\ cpc' = [cpc EXCEPT ![c] = "lookup"]
  /\ UNCHANGED <<now, givenVars, gone, joined, reply, outcome, cache, pending, slots, flightVars>>

\* Nobody has a local step left to take, and no request is past its deadline.
Settled ==
  /\ \A c \in Callers : \/ cpc[c] \in {"idle", "done"}
                        \/ cpc[c] = "wait" /\ c \notin gone /\ fpc[joined[c]] # "done"
  /\ \A f \in Callers : \/ fpc[f] \in {"none", "done"}
                        \/ fpc[f] = "fetch" /\ f \notin canceled /\ now < started[f] + Timeout

Tick ==
  /\ now < MaxTime /\ (Prompt => Settled)
  /\ now' = now + 1
  /\ UNCHANGED <<givenVars, callerVars, cache, pending, slots, flightVars>>

--------------------------------------------------------------------------------
Init ==
  /\ now = 0 /\ life \in [Tokens -> Lifetimes]
  /\ \E s \in Settings : token = s.tokens /\ maxConcurrent = s.maxConcurrent
  /\ revokedAt = [t \in Tokens |-> Never]
  /\ cpc = [c \in Callers |-> "idle"] /\ gone = {}
  /\ joined = [c \in Callers |-> Nobody] /\ reply = [c \in Callers |-> NoResult]
  /\ outcome = [c \in Callers |-> "none"]
  /\ cache = [k \in {} |-> NoClaims] /\ pending = [k \in {} |-> Nobody] /\ slots = 0
  /\ fpc = [f \in Callers |-> "none"] /\ waiters = [f \in Callers |-> 0] /\ canceled = {}
  /\ started = [f \in Callers |-> 0] /\ answer = [f \in Callers |-> NoClaims]
  /\ result = [f \in Callers |-> NoResult]

CallerStep(c) ==
  \/ Lookup(c) \/ GoneBeforeJoin(c) \/ JoinShared(c) \/ JoinRefused(c) \/ JoinStarts(c)
  \/ Receive(c) \/ StopWaiting(c) \/ Leave(c) \/ Authorize(c)

FlightStep(f) ==
  \/ FlightLookup(f) \/ FetchAbandoned(f) \/ RunForgets(f) \/ RunReleases(f) \/ RunCloses(f)

\* Quiescence: every caller that came has its outcome and every flight has ended.
Ended ==
  /\ \A c \in Callers : cpc[c] \in {"idle", "done"} /\ fpc[c] \in {"none", "done"}
  /\ UNCHANGED vars

Next ==
  \/ \E c \in Callers :
       \/ Arrive(c) \/ CallerGone(c) \/ CallerStep(c)
       \/ FlightStep(c) \/ IssuerAnswers(c) \/ FetchReturns(c) \/ FetchFails(c) \/ FetchTimesOut(c)
  \/ \E t \in Revocable : Revoke(t)
  \/ Tick \/ Ended

Spec == Init /\ [][Next]_vars

\* Goroutines run, the clock advances and a request's deadline fires; nothing is
\* assumed of the issuer, of the callers' arrival or of their patience.
FairSpec ==
  /\ Spec /\ WF_vars(Tick)
  /\ \A c \in Callers : WF_vars(CallerStep(c)) /\ WF_vars(FlightStep(c) \/ FetchTimesOut(c))

--------------------------------------------------------------------------------
(* Properties *)

Claims  == [token : Tokens \cup {Nobody}, seen : 0..MaxTime, active : BOOLEAN, nbf : Nat, exp : Nat]
Kinds   == {"none", "claims", "unavailable", "abandoned", "canceled"}
Replies == [kind : Kinds, claims : Claims]
Entries == [claims : Claims, expires : Nat]

\* Every variable has its type; the cache and the slots keep within their limits.
TypeOK ==
  /\ now \in 0..MaxTime /\ token \in [Callers -> Tokens] /\ life \in [Tokens -> Lifetimes]
  /\ revokedAt \in [Tokens -> 0..Never]
  /\ cpc \in [Callers -> {"idle", "lookup", "join", "wait", "leave", "authorize", "done"}]
  /\ gone \subseteq Callers /\ joined \in [Callers -> Callers \cup {Nobody}]
  /\ reply \in [Callers -> Replies]
  /\ outcome \in [Callers -> {"none", "accepted", "rejected", "denied", "overload"} \cup Kinds]
  /\ DOMAIN cache \subseteq Tokens /\ \A k \in DOMAIN cache : cache[k] \in Entries
  /\ Cardinality(DOMAIN cache) <= MaxEntries
  /\ DOMAIN pending \subseteq Tokens /\ \A k \in DOMAIN pending : pending[k] \in Callers
  /\ maxConcurrent \in Nat \ {0} /\ slots \in 0..maxConcurrent
  /\ fpc \in [Callers -> {"none", "get", "fetch", "forget", "release", "close", "done"}]
  /\ waiters \in [Callers -> Nat] /\ canceled \subseteq Callers
  /\ started \in [Callers -> 0..MaxTime] /\ answer \in [Callers -> Claims]
  /\ result \in [Callers -> Replies]

\* At most introspection_max_concurrent requests are with the issuer, those of
\* abandoned flights included (slots in join, run and leave).
RequestsBounded == Cardinality({f \in Callers : fpc[f] = "fetch"}) <= maxConcurrent

\* "Only an abandoned flight is canceled; no caller receives this error"
\* (introspectionTransportError).
AbandonedUnseen == \A c \in Callers : outcome[c] # "abandoned"

\* Concurrent callers with one token share one request: a request that its callers
\* have not all left is the one that the next caller joins, so that only abandoned
\* requests overlap with another one for the same token.
OneRequestPerToken ==
  \A f \in Callers :
    fpc[f] = "fetch" /\ f \notin canceled => token[f] \in DOMAIN pending /\ pending[token[f]] = f

Waiting(f) == {c \in Callers : cpc[c] \in {"wait", "leave"} /\ joined[c] = f}

\* A flight's waiters are exactly the callers between join and leave, and a flight
\* with a waiter is canceled only once its request is over.
WaitersCounted ==
  \A f \in Callers :
    /\ waiters[f] = Cardinality(Waiting(f))
    /\ waiters[f] > 0 /\ f \in canceled => fpc[f] \in {"close", "done"}

\* A caller is accepted only with what the issuer said of its own token, and only
\* while that token is within nbf and exp, however old the cached claims are.
AcceptSound ==
  [][\A c \in Callers :
       outcome[c] = "none" /\ outcome'[c] = "accepted" =>
         /\ reply[c].claims.token = token[c] /\ reply[c].claims.active
         /\ life[token[c]].nbf <= now /\ now < life[token[c]].exp]_vars

\* A revoked token is accepted only by a caller whose request the issuer answered
\* before the revocation, or while an entry made from such an answer lives: for the
\* timeout of a request, and introspection_cache_ttl on top of it.
RevocationBounded ==
  [][\A c \in Callers :
       outcome[c] = "none" /\ outcome'[c] = "accepted" =>
         \/ now <= revokedAt[token[c]] + Timeout
         \/ now < revokedAt[token[c]] + Timeout + TTL]_vars

\* "Revocation takes effect up to this long after the issuer revokes a token", of
\* introspection_cache_ttl (docs/operator/grpc.md:185): the cache serves a token for
\* no longer than that after its revocation.
RevocationWithinTTL ==
  [][\A c \in Callers :
       /\ outcome[c] = "none" /\ outcome'[c] = "accepted" /\ joined[c] = Nobody
       => now <= revokedAt[token[c]] + TTL]_vars

\* Every caller that has arrived gets an outcome, though the issuer may be silent.
CallersAnswered == \A c \in Callers : cpc[c] = "lookup" ~> cpc[c] = "done"

\* Every slot comes back, also those of abandoned and failed flights.
SlotsReturn == []<>(slots = 0)
================================================================================
