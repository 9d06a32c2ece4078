------------------------------- MODULE GrpcHandle -------------------------------
(***************************************************************************)
(* What Handler.Handle does with an RPC before its streams run: the rule   *)
(* that decides, the target, the bearer token for the primary backend, the *)
(* shadow policy and the metadata either backend receives.  RPCs run       *)
(* concurrently and share the token source, with one mutex that is held    *)
(* across discovery and token request, and the counters of the two pools.  *)
(* The source is one whose CA bundle was read: with an initError, which is *)
(* a bundle that has gone after Load had read it, every RPC would end as   *)
(* in FetchFails.                                                          *)
(*                                                                         *)
(* Caller authentication is modelled by CallerAuth, the streams by         *)
(* GrpcStream; here an RPC is rejected or not, and ends in "stream".       *)
(***************************************************************************)
EXTENDS Naturals, Sequences, FiniteSets, Functions

CONSTANTS
  Rpcs,            \* RPCs
  Calls,           \* what the client of each RPC may send: method, peer, metadata
  Rules,           \* grpc_rules, as the configuration gives them
  PrimaryTargets, ShadowTargets,  \* sequences of targets
  HashMode,        \* pools whose selection mode is source_ip_hash
  Hash,            \* FNV-1a of a peer's address
  NextWrap,        \* the pools' counters wrap here (2^64 in the code)
  Bearer,          \* grpc_backend_oidc_auth.enabled
  TokenEndpoint,   \* token_endpoint is configured: no discovery
  SamplePercent,   \* shadow_sample_percent
  Limited,         \* a shadow rate limiter is configured
  Timeout, RefreshSkew, DefaultLife,  \* durations, in ticks
  Lifetimes,       \* expires_in values of the issuer
  MaxTime          \* bound on the clock

Pools == {"primary", "shadow"}
NoIP == "noip"

ASSUME HandleAssumption ==
  /\ NextWrap \in Nat \ {0} /\ Timeout \in Nat \ {0} /\ RefreshSkew \in Nat \ {0}
  /\ DefaultLife \in Nat \ {0} /\ SamplePercent \in 0..100 /\ HashMode \subseteq Pools
  /\ {Bearer, TokenEndpoint, Limited} \subseteq BOOLEAN
  /\ Len(PrimaryTargets) > 0
  /\ Bearer => \A i \in DOMAIN Rules : "authorization" \notin DOMAIN Rules[i].primaryMetadata

\* An authorization that does not come from the token source.
Foreign(metadata) == "authorization" \in DOMAIN metadata => metadata["authorization"][1] # "token"

\* Lists are lists.  Metadata values are named after where they come from, and only the
\* token source's are <<"token", n>>.  The hash of an address is a number, and so is
\* expires_in: one that is missing or not positive is 0.
ASSUME InputAssumption ==
  /\ Len(Rules) \in Nat /\ DOMAIN Rules = 1..Len(Rules) /\ Len(ShadowTargets) \in Nat
  /\ Len(PrimaryTargets) \in Nat
  /\ \A i \in DOMAIN Rules : Foreign(Rules[i].shadowMetadata)
  /\ \A r \in Rpcs : \A c \in Calls[r] :
       Foreign(c.metadata) /\ (c.peer # NoIP => Hash[c.peer] \in Nat)
  /\ Lifetimes \subseteq Nat

VARIABLES
  now,        \* the clock
  pc,         \* where each RPC is
  call,       \* what the client sent
  canceled,   \* the client has canceled
  decision,   \* Decision of the resolver
  target,     \* targets picked, per backend
  outgoing,   \* metadata sent, per backend
  shadow,     \* grpcShadowPolicyDecision
  code,       \* status with which Handle itself ended the RPC
  next,       \* TargetPool.next
  mu,         \* holder of the token source's mutex
  cache,      \* token, expiresAt
  tokenURL,   \* the discovered endpoint is known
  fetch,      \* the request under way: deadline, and the answer of the issuer
  tokens      \* tokens the issuer has issued: when, and for how long

sourceVars == <<mu, cache, tokenURL, fetch, tokens>>
rpcVars    == <<call, decision, target, outgoing, shadow, code>>
vars == <<now, pc, canceled, rpcVars, next, sourceVars>>

NoToken == 0
NoTarget == 0
NoCode == "none"
NoCall == [method |-> <<>>, peer |-> NoIP, metadata |-> <<>>, authentic |-> FALSE]
NoDecision == [shadow |-> "inherit", compare |-> "inherit", primary |-> <<>>, shadowMetadata |-> <<>>,
               skip |-> "none"]
NoPolicy == [doShadow |-> FALSE, forced |-> FALSE, skip |-> "none"]
NoFetch == [deadline |-> 0, answer |-> NoToken]

--------------------------------------------------------------------------------
(* The resolver *)

\* compiledRule.matches: no methods means every method.
matches(rule, method) ==
  /\ rule.service \in {"*", method[1]}
  /\ rule.methods # {} => method[2] \in rule.methods

\* Mutant: the last matching rule decides.
LastMatch(method) ==
  LET hits == {i \in DOMAIN Rules : matches(Rules[i], method)}
  IN IF hits = {} THEN 0 ELSE CHOOSE i \in hits : \A j \in hits : j <= i

\* The first matching rule, or 0.
FirstMatch(method) ==
  LET hits == {i \in DOMAIN Rules : matches(Rules[i], method)}
  IN IF hits = {} THEN 0 ELSE CHOOSE i \in hits : \A j \in hits : i <= j

\* compiledRule.decision
ruleDecision(rule) ==
  [shadow |-> rule.shadow, compare |-> rule.compare, primary |-> rule.primaryMetadata,
   shadowMetadata |-> rule.shadowMetadata,
   skip |-> IF rule.shadow = "never" THEN "grpc_rule" ELSE "none"]

\* Resolver.Resolve: no rules inherit everything, rules that do not match shadow nothing.
Resolve(method) ==
  CASE Rules = <<>> -> NoDecision
    [] Rules # <<>> /\ FirstMatch(method) = 0 ->
         [NoDecision EXCEPT !.shadow = "never", !.compare = "off", !.skip = "grpc_rule_unmatched"]
    [] OTHER -> ruleDecision(Rules[FirstMatch(method)])

--------------------------------------------------------------------------------
(* Targets *)

Targets(p) == IF p = "primary" THEN PrimaryTargets ELSE ShadowTargets

UsesHash(p, ip) == p \in HashMode /\ ip # NoIP
TakesTurn(p, ip) == Len(Targets(p)) > 1 /\ ~UsesHash(p, ip)

\* TargetPool.Pick
Pick(p, ip) ==
  LET n == Len(Targets(p))
  IN CASE n = 0 -> NoTarget
       [] n = 1 -> 1
       [] OTHER -> 1 + ((IF UsesHash(p, ip) THEN Hash[ip] ELSE next[p]) % n)

Advance(p, ip) == next' = IF TakesTurn(p, ip) THEN [next EXCEPT ![p] = (@ + 1) % NextWrap] ELSE next

--------------------------------------------------------------------------------
(* Metadata *)

Reserved == {"content-type", "grpc-timeout"}

\* Mutant: the overlay is appended to what the client sent, which comes first.
AppendedMetadata(incoming, overlay) ==
  [k \in DOMAIN incoming \cup (DOMAIN overlay \ Reserved) |->
     IF k \in DOMAIN incoming THEN incoming[k] ELSE overlay[k]]

\* outgoingMetadata: the client's, and over it the overlay but for reserved keys.
outgoingMetadata(incoming, overlay) ==
  [k \in DOMAIN incoming \cup (DOMAIN overlay \ Reserved) |->
     IF k \in DOMAIN overlay \ Reserved THEN overlay[k] ELSE incoming[k]]

\* primaryMetadata: the rule's overlay, and the token if there is a source.
primaryMetadata(d, token) ==
  IF Bearer
  THEN [k \in DOMAIN d.primary \cup {"authorization"} |->
          IF k = "authorization" THEN token ELSE d.primary[k]]
  ELSE d.primary

--------------------------------------------------------------------------------
(* The shadow policy *)

Forced(c) == "force" \in DOMAIN c.metadata

Policy(do, forced, skip) == [doShadow |-> do, forced |-> forced, skip |-> skip]

\* sampleShadow, with whatever the generator draws.
Samples == {draw < SamplePercent : draw \in 0..99}

\* shouldShadow: the outcomes it may have.
shouldShadow(d, forced) ==
  IF Len(ShadowTargets) = 0 THEN {Policy(FALSE, forced, "no_targets")}
  ELSE IF d.shadow = "never" THEN {Policy(FALSE, forced, d.skip)}
  ELSE UNION { IF do /\ ~forced /\ Limited
               THEN {Policy(TRUE, forced, "none"), Policy(FALSE, forced, "rate_limited")}
               ELSE {Policy(do, forced, "none")} :
               do \in IF d.shadow = "always" \/ forced THEN {TRUE} ELSE Samples }

--------------------------------------------------------------------------------
(* Handle, up to the token *)

At(r, where) == pc[r] = where
Goto(r, where) == pc' = [pc EXCEPT ![r] = where]

Fail(r, status) == Goto(r, "done") /\ code' = [code EXCEPT ![r] = status]

Arrive(r, c) ==
  /\ At(r, "idle") /\ Goto(r, "auth")
  /\ call' = [call EXCEPT ![r] = c]
  /\ UNCHANGED <<now, canceled, decision, target, outgoing, shadow, code, next, sourceVars>>

\* authenticateCaller, rejectCaller
rejectCaller(r) ==
  /\ At(r, "auth") /\ ~call[r].authentic
  /\ Fail(r, "Unauthenticated")
  /\ UNCHANGED <<now, canceled, call, decision, target, outgoing, shadow, next, sourceVars>>

\* SplitFullMethod fails: resolveDecision.
rejectMethod(r) ==
  /\ At(r, "auth") /\ call[r].authentic /\ call[r].method = <<>>
  /\ Fail(r, "Unimplemented")
  /\ UNCHANGED <<now, canceled, call, decision, target, outgoing, shadow, next, sourceVars>>

\* resolveDecision and pickPrimaryTarget; without a token source there is nothing to wait for.
route(r) ==
  /\ At(r, "auth") /\ call[r].authentic /\ call[r].method # <<>>
  /\ Goto(r, IF Bearer THEN "lock" ELSE "shadow")
  /\ decision' = [decision EXCEPT ![r] = Resolve(call[r].method)]
  /\ target' = [target EXCEPT ![r].primary = Pick("primary", call[r].peer)]
  /\ Advance("primary", call[r].peer)
  /\ UNCHANGED <<now, canceled, call, outgoing, shadow, code, sourceVars>>

--------------------------------------------------------------------------------
(* The token source *)

\* Mutant: the skew is not counted.
ValidUntilExpiry == cache.token # NoToken /\ now < cache.expiresAt

cachedTokenValid == cache.token # NoToken /\ now + RefreshSkew < cache.expiresAt

tokenExpiresAt(life) == now + (IF life = 0 THEN DefaultLife ELSE life)

\* accessToken returns a token: the deferred unlock, and Handle goes on with it.
Authorized(r, token) ==
  /\ mu' = {} /\ Goto(r, "shadow")
  /\ outgoing' = [outgoing EXCEPT ![r].primary =
                    outgoingMetadata(call[r].metadata, primaryMetadata(decision[r], <<"token", token>>))]

\* accessToken: the mutex, and a token that is still good.
LockCached(r) ==
  /\ At(r, "lock") /\ mu = {} /\ cachedTokenValid
  /\ Authorized(r, cache.token)
  /\ UNCHANGED <<now, canceled, call, decision, target, shadow, code, next, cache, tokenURL, fetch, tokens>>

\* accessToken: no good token.  fetchToken derives its deadline from the RPC's context.
LockFetch(r) ==
  /\ At(r, "lock") /\ mu = {} /\ ~cachedTokenValid
  /\ mu' = {r} /\ Goto(r, IF TokenEndpoint \/ tokenURL THEN "request" ELSE "discover")
  /\ fetch' = [deadline |-> now + Timeout, answer |-> NoToken]
  /\ UNCHANGED <<now, canceled, rpcVars, next, cache, tokenURL, tokens>>

\* discoverTokenURL: the document has an endpoint, which is kept.
Discovered(r) ==
  /\ At(r, "discover") /\ ~canceled[r]
  /\ tokenURL' = TRUE /\ Goto(r, "request")
  /\ UNCHANGED <<now, canceled, rpcVars, next, mu, cache, fetch, tokens>>

\* The issuer issues a token; its response is on the way.
Issue(life) ==
  /\ fetch.answer = NoToken /\ \E r \in mu : At(r, "request") /\ ~canceled[r]
  /\ tokens' = Append(tokens, [at |-> now, life |-> life])
  /\ fetch' = [fetch EXCEPT !.answer = Len(tokens) + 1]
  /\ UNCHANGED <<now, pc, canceled, rpcVars, next, mu, cache, tokenURL>>

\* The response is read: decodeTokenResponse, then the cache.
Fetched(r) ==
  /\ At(r, "request") /\ ~canceled[r] /\ fetch.answer # NoToken
  /\ cache' = [token |-> fetch.answer, expiresAt |-> tokenExpiresAt(tokens[fetch.answer].life)]
  /\ Authorized(r, fetch.answer)
  /\ fetch' = NoFetch
  /\ UNCHANGED <<now, canceled, call, decision, target, shadow, code, next, tokenURL, tokens>>

\* Mutant: the error path returns with the mutex locked.
FailLocked(r) ==
  /\ At(r, "discover") \/ At(r, "request")
  /\ fetch' = NoFetch /\ Fail(r, "Unavailable")
  /\ UNCHANGED <<now, canceled, call, decision, target, outgoing, shadow, next, mu, cache, tokenURL, tokens>>

\* The deadline, a canceled RPC, or an answer that is not usable: primaryMetadataError.
FetchFails(r) ==
  /\ At(r, "discover") \/ At(r, "request")
  /\ mu' = {} /\ fetch' = NoFetch /\ Fail(r, "Unavailable")
  /\ UNCHANGED <<now, canceled, call, decision, target, outgoing, shadow, next, cache, tokenURL, tokens>>

--------------------------------------------------------------------------------
(* Handle, the shadow and the streams *)

\* prepareShadow and the metadata of both streams.
prepareShadow(r) ==
  /\ At(r, "shadow") /\ Goto(r, "stream")
  /\ \E policy \in shouldShadow(decision[r], Forced(call[r])) :
       LET ip == call[r].peer IN
       /\ shadow' = [shadow EXCEPT ![r] = policy]
       /\ target' = [target EXCEPT ![r].shadow = IF policy.doShadow THEN Pick("shadow", ip) ELSE NoTarget]
       /\ IF policy.doShadow THEN Advance("shadow", ip) ELSE UNCHANGED next
       /\ outgoing' = [outgoing EXCEPT
            ![r].primary = IF Bearer THEN @ ELSE outgoingMetadata(call[r].metadata, decision[r].primary),
            ![r].shadow = IF policy.doShadow
                          THEN outgoingMetadata(call[r].metadata, decision[r].shadowMetadata) ELSE @]
  /\ UNCHANGED <<now, canceled, call, decision, code, sourceVars>>

\* The RPC's client gives up; nothing that waits for the mutex notices.
Cancel(r) ==
  /\ pc[r] \in {"lock", "discover", "request"} /\ ~canceled[r]
  /\ canceled' = [canceled EXCEPT ![r] = TRUE]
  /\ UNCHANGED <<now, pc, rpcVars, next, sourceVars>>

\* Time does not pass the deadline of a request that is under way: its timer fires.
Tick ==
  /\ now < MaxTime /\ (mu # {} => now < fetch.deadline)
  /\ now' = now + 1
  /\ UNCHANGED <<pc, canceled, rpcVars, next, sourceVars>>

--------------------------------------------------------------------------------
Init ==
  /\ now = 0 /\ pc = [r \in Rpcs |-> "idle"] /\ call = [r \in Rpcs |-> NoCall]
  /\ canceled = [r \in Rpcs |-> FALSE] /\ decision = [r \in Rpcs |-> NoDecision]
  /\ target = [r \in Rpcs |-> [p \in Pools |-> NoTarget]]
  /\ outgoing = [r \in Rpcs |-> [p \in Pools |-> <<>>]]
  /\ shadow = [r \in Rpcs |-> NoPolicy] /\ code = [r \in Rpcs |-> NoCode]
  /\ next = [p \in Pools |-> 0] /\ mu = {} /\ cache = [token |-> NoToken, expiresAt |-> 0]
  /\ tokenURL = FALSE /\ fetch = NoFetch /\ tokens = <<>>

Lock(r) == LockCached(r) \/ LockFetch(r)

Handle(r) == rejectCaller(r) \/ rejectMethod(r) \/ route(r) \/ prepareShadow(r)

Answered(r) == Discovered(r) \/ Fetched(r)

Next ==
  \/ Tick
  \/ \E life \in Lifetimes : Issue(life)
  \/ \E r \in Rpcs :
       \/ Handle(r) \/ Lock(r) \/ Answered(r) \/ FetchFails(r) \/ Cancel(r)
       \/ \E c \in Calls[r] : Arrive(r, c)

Spec == Init /\ [][Next]_vars

\* Goroutines run, the mutex goes to one of those that wait, and the deadline of a
\* request fires.  The issuer and the clients need not do anything.
FairSpec ==
  /\ Spec
  /\ \A r \in Rpcs : WF_vars(Handle(r)) /\ WF_vars(Lock(r)) /\ WF_vars(FetchFails(r))

--------------------------------------------------------------------------------
(* Properties *)

\* Every variable has its type.
TypeOK ==
  /\ now \in 0..MaxTime
  /\ pc \in [Rpcs -> {"idle", "auth", "lock", "discover", "request", "shadow", "stream", "done"}]
  /\ (\A r \in Rpcs : call[r] \in Calls[r] \cup {NoCall}) /\ canceled \in [Rpcs -> BOOLEAN]
  /\ code \in [Rpcs -> {NoCode, "Unauthenticated", "Unimplemented", "Unavailable"}]
  /\ next \in [Pools -> 0..NextWrap - 1] /\ mu \subseteq Rpcs /\ Cardinality(mu) <= 1
  /\ tokenURL \in BOOLEAN /\ cache.token \in 0..Len(tokens) /\ fetch.answer \in 0..Len(tokens)

\* A cached token that accessToken hands to an RPC is one the issuer still honours,
\* although its life is counted from when the response was handled: the skew covers
\* the time a response may take.  (Of a token without expires_in nothing is known.)
CachedTokenAlive ==
  [][\A r \in Rpcs :
       At(r, "lock") /\ pc'[r] = "shadow" /\ Timeout <= RefreshSkew =>
         LET t == tokens[cache.token] IN t.life > 0 => now < t.at + t.life]_vars

\* The backend token goes to the primary only, and always: with a token source no RPC
\* reaches its streams without it, and neither what the client sent nor a rule takes
\* its place; the shadow is given the client's authorization or a rule's.
TokenForPrimaryOnly ==
  \A r \in Rpcs : At(r, "stream") =>
    /\ Bearer => "authorization" \in DOMAIN outgoing[r].primary
                 /\ outgoing[r].primary["authorization"][1] = "token"
    /\ Foreign(outgoing[r].shadow)

\* A shadow is started only where no rules are configured or where the rule that comes
\* first among those that cover the method does not forbid it, whatever the client
\* forces; and a shadow that is wanted has a target.
ShadowObeysRules ==
  \A r \in Rpcs : At(r, "stream") /\ shadow[r].doShadow =>
    /\ target[r].shadow # NoTarget
    /\ \/ Rules = <<>>
       \/ \E i \in DOMAIN Rules :
            /\ matches(Rules[i], call[r].method) /\ Rules[i].shadow # "never"
            /\ \A j \in 1..i - 1 : ~matches(Rules[j], call[r].method)

\* Every RPC reaches its streams or is answered, with an issuer that stays silent and
\* RPCs that queue for the mutex behind one whose client has gone.
RpcAnswered == \A r \in Rpcs : At(r, "auth") ~> (At(r, "stream") \/ At(r, "done"))
================================================================================
