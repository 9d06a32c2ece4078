---------------------------- MODULE GrpcHandleProofs ----------------------------
(***************************************************************************)
(* The backend token goes to the primary and to nobody else, and no shadow *)
(* is started against the rule that decides, for any number of RPCs, any   *)
(* rules, targets and calls, and whatever the issuer and the clock do.     *)
(***************************************************************************)
EXTENDS GrpcHandle, WellFoundedInduction, TLAPS

\* The places of Handle after the rule has been resolved.
Resolved == {"lock", "discover", "request", "shadow", "stream"}

Places == Resolved \cup {"idle", "auth", "done"}

\* The authorization is the token source's.
HasToken(metadata) == "authorization" \in DOMAIN metadata /\ metadata["authorization"][1] = "token"

\* What is true of an RPC, by the place it has reached.
Stage(r) ==
  /\ pc[r] # "idle" => call[r] \in Calls[r]
  /\ pc[r] \in Resolved => decision[r] = Resolve(call[r].method)
  /\ pc[r] \in {"shadow", "stream"} /\ Bearer => HasToken(outgoing[r].primary)
  /\ pc[r] # "stream" => outgoing[r].shadow = <<>>
  /\ pc[r] = "stream" => Foreign(outgoing[r].shadow)
  /\ pc[r] = "stream" /\ shadow[r].doShadow => target[r].shadow # NoTarget /\ decision[r].shadow # "never"

\* What the lemmas need to know of the variables' types.
Shape ==
  /\ pc \in [Rpcs -> Places] /\ next \in [Pools -> Nat]
  /\ DOMAIN call = Rpcs /\ DOMAIN decision = Rpcs /\ DOMAIN shadow = Rpcs
  /\ DOMAIN outgoing = Rpcs /\ DOMAIN target = Rpcs
  /\ \A r \in Rpcs : DOMAIN outgoing[r] = Pools /\ DOMAIN target[r] = Pools

HandleInv == Shape /\ \A r \in Rpcs : Stage(r)

--------------------------------------------------------------------------------
(* Resolver, targets, policy, metadata *)

\* A set of natural numbers that is not empty has a least element.
LEMMA LeastElement ==
  ASSUME NEW H \in SUBSET Nat, H # {}
  PROVE  \E i \in H : \A j \in H : i <= j
<1>1. \E i \in H : \A j \in H : ~(<<j, i>> \in OpToRel(<, Nat))
  BY NatLessThanWellFounded, WFMin, Zenon
<1>2. PICK i \in H : \A j \in H : ~(<<j, i>> \in OpToRel(<, Nat))
  BY <1>1
<1>3. ASSUME NEW j \in H PROVE i <= j
  <2>1. i \in Nat /\ j \in Nat
    OBVIOUS
  <2>2. ~(j < i)
    BY <1>2, <2>1 DEF OpToRel
  <2> QED BY <2>1, <2>2
<1> QED BY <1>3

\* FirstMatch is a rule that matches, and none before it does (Resolver.Resolve).
LEMMA FirstMatchSound ==
  ASSUME NEW method
  PROVE  FirstMatch(method) # 0 =>
           /\ FirstMatch(method) \in DOMAIN Rules /\ matches(Rules[FirstMatch(method)], method)
           /\ \A j \in 1..FirstMatch(method) - 1 : ~matches(Rules[j], method)
<1> DEFINE hits == {i \in DOMAIN Rules : matches(Rules[i], method)}
           least == CHOOSE i \in hits : \A j \in hits : i <= j
<1>1. SUFFICES ASSUME hits # {}
      PROVE  /\ least \in DOMAIN Rules /\ matches(Rules[least], method)
             /\ \A j \in 1..least - 1 : ~matches(Rules[j], method)
  BY DEF FirstMatch
<1>2. hits \in SUBSET Nat
  BY InputAssumption
<1>3. least \in hits /\ \A j \in hits : least <= j
  <2> HIDE DEF hits
  <2> QED BY <1>1, <1>2, LeastElement
<1>4. least \in 1..Len(Rules) /\ Len(Rules) \in Nat
  BY <1>3, InputAssumption
<1>5. ASSUME NEW j \in 1..least - 1 PROVE ~matches(Rules[j], method)
  <2> HIDE DEF least
  <2>1. j \in DOMAIN Rules /\ ~(least <= j)
    BY <1>4, InputAssumption
  <2> QED BY <2>1, <1>3
<1> QED BY <1>3, <1>5

\* No rules, or the first that matches does not say never.
Permits(method) ==
  \/ Rules = <<>>
  \/ \E i \in DOMAIN Rules :
       /\ matches(Rules[i], method) /\ Rules[i].shadow # "never"
       /\ \A j \in 1..i - 1 : ~matches(Rules[j], method)

\* What a decision brings for the shadow comes from a rule; it wants a shadow only where
\* there are no rules or where the first that matches allows one.
LEMMA ResolveSound ==
  ASSUME NEW method
  PROVE  /\ Foreign(Resolve(method).shadowMetadata)
         /\ Resolve(method).shadow # "never" => Permits(method)
<1>1. CASE Rules = <<>>
  BY <1>1 DEF Resolve, NoDecision, Foreign, Permits
<1>2. CASE Rules # <<>> /\ FirstMatch(method) = 0
  <2>1. Resolve(method) = [NoDecision EXCEPT !.shadow = "never", !.compare = "off", !.skip = "grpc_rule_unmatched"]
    BY <1>2 DEF Resolve
  <2> QED BY <2>1 DEF NoDecision, Foreign
<1>3. CASE Rules # <<>> /\ FirstMatch(method) # 0
  <2>1. Resolve(method) = ruleDecision(Rules[FirstMatch(method)])
    BY <1>3 DEF Resolve
  <2>2. /\ Resolve(method).shadowMetadata = Rules[FirstMatch(method)].shadowMetadata
        /\ Resolve(method).shadow = Rules[FirstMatch(method)].shadow
    BY <2>1 DEF ruleDecision
  <2>3. /\ FirstMatch(method) \in DOMAIN Rules /\ matches(Rules[FirstMatch(method)], method)
        /\ \A j \in 1..FirstMatch(method) - 1 : ~matches(Rules[j], method)
    BY <1>3, FirstMatchSound
  <2> QED BY <2>2, <2>3, InputAssumption DEF Permits
<1> QED BY <1>1, <1>2, <1>3

\* A pool that is not empty has a target for every peer (TargetPool.Pick).
LEMMA PickSound ==
  ASSUME next \in [Pools -> Nat], NEW ip, ip # NoIP => Hash[ip] \in Nat, Len(ShadowTargets) # 0
  PROVE  Pick("shadow", ip) # NoTarget
<1>1. Targets("shadow") = ShadowTargets
  BY DEF Targets
<1>2. next["shadow"] \in Nat
  BY DEF Pools
<1>3. CASE Len(ShadowTargets) = 1
  BY <1>1, <1>3 DEF Pick, NoTarget
<1>4. CASE Len(ShadowTargets) # 1
  <2> DEFINE k == IF UsesHash("shadow", ip) THEN Hash[ip] ELSE next["shadow"]
             n == Len(ShadowTargets)
  <2>1. k \in Nat /\ n \in Nat \ {0, 1}
    BY <1>2, <1>4, InputAssumption DEF UsesHash
  <2>2. Pick("shadow", ip) = 1 + (k % n)
    BY <1>1, <1>4, <2>1 DEF Pick
  <2> HIDE DEF k, n
  <2>3. k % n \in Nat
    BY <2>1
  <2> QED BY <2>2, <2>3 DEF NoTarget
<1> QED BY <1>3, <1>4

\* A shadow is wanted only with targets, and never against the rule (shouldShadow).
LEMMA PolicySound ==
  ASSUME NEW d, NEW forced, NEW policy \in shouldShadow(d, forced), policy.doShadow
  PROVE  Len(ShadowTargets) # 0 /\ d.shadow # "never"
<1>1. Len(ShadowTargets) # 0
  <2>1. SUFFICES ASSUME Len(ShadowTargets) = 0 PROVE FALSE
    OBVIOUS
  <2>2. shouldShadow(d, forced) = {Policy(FALSE, forced, "no_targets")}
    BY <2>1 DEF shouldShadow
  <2> QED BY <2>2 DEF Policy
<1>2. d.shadow # "never"
  <2>1. SUFFICES ASSUME d.shadow = "never" PROVE FALSE
    OBVIOUS
  <2>2. shouldShadow(d, forced) = {Policy(FALSE, forced, d.skip)}
    BY <1>1, <2>1 DEF shouldShadow
  <2> QED BY <2>2 DEF Policy
<1> QED BY <1>1, <1>2

\* The counters stay numbers (pickRoundRobin).
LEMMA AdvanceSound ==
  ASSUME next \in [Pools -> Nat], NEW p \in Pools, NEW ip, Advance(p, ip)
  PROVE  next' \in [Pools -> Nat]
<1>1. (next[p] + 1) % NextWrap \in Nat
  BY HandleAssumption
<1> QED BY <1>1 DEF Advance

\* With a token source, what the primary is sent carries the token (primaryMetadata).
LEMMA TokenSent ==
  ASSUME Bearer, NEW incoming, NEW d, NEW token
  PROVE  HasToken(outgoingMetadata(incoming, primaryMetadata(d, <<"token", token>>)))
<1> DEFINE overlay == primaryMetadata(d, <<"token", token>>)
<1>1. "authorization" \in DOMAIN overlay \ Reserved /\ overlay["authorization"] = <<"token", token>>
  BY DEF primaryMetadata, Reserved
<1> HIDE DEF overlay
<1>2. HasToken(outgoingMetadata(incoming, overlay))
  BY <1>1 DEF HasToken, outgoingMetadata
<1> QED BY <1>2 DEF overlay

\* What the shadow is sent is the client's or the rule's (startShadow).
LEMMA ForeignSent ==
  ASSUME NEW incoming, NEW overlay, Foreign(incoming), Foreign(overlay)
  PROVE  Foreign(outgoingMetadata(incoming, overlay))
BY DEF Foreign, outgoingMetadata

--------------------------------------------------------------------------------
(* The invariant *)

\* It holds when the server starts: no RPC has arrived.
LEMMA InitHandle == Init => HandleInv
BY DEF Init, HandleInv, Shape, Stage, Places, Resolved, Pools, NoPolicy

\* What one RPC does leaves the stage of the others as it is.
LEMMA OthersKeep ==
  ASSUME HandleInv, NEW r \in Rpcs,
         \A q \in Rpcs \ {r} :
           /\ pc'[q] = pc[q] /\ call'[q] = call[q] /\ decision'[q] = decision[q]
           /\ target'[q] = target[q] /\ outgoing'[q] = outgoing[q] /\ shadow'[q] = shadow[q],
         Shape', Stage(r)'
  PROVE  HandleInv'
<1>1. ASSUME NEW q \in Rpcs, q # r PROVE Stage(q)'
  BY <1>1 DEF HandleInv, Stage
<1> QED BY <1>1 DEF HandleInv

\* Every step of Handle, of the token source and of the environment preserves it.
LEMMA HandleStep ==
  ASSUME HandleInv, [Next]_vars
  PROVE  HandleInv'
<1> USE DEF rpcVars, sourceVars
<1>0. CASE UNCHANGED <<pc, rpcVars, next>>
  BY <1>0 DEF HandleInv, Shape, Stage
<1>1. ASSUME NEW r \in Rpcs, NEW c \in Calls[r], Arrive(r, c)
      PROVE  HandleInv'
  <2>1. Shape'
    BY <1>1 DEF Arrive, At, Goto, HandleInv, Shape, Places
  <2>2. Stage(r)'
    BY <1>1 DEF Arrive, At, Goto, HandleInv, Shape, Stage, Resolved
  <2> QED BY <1>1, <2>1, <2>2, OthersKeep DEF Arrive, Goto, HandleInv, Shape
<1>2. ASSUME NEW r \in Rpcs, rejectCaller(r) \/ rejectMethod(r) \/ FetchFails(r)
      PROVE  HandleInv'
  <2>1. /\ pc' = [pc EXCEPT ![r] = "done"] /\ pc[r] \notin {"idle", "stream"}
        /\ UNCHANGED <<call, decision, target, outgoing, shadow, next>>
    BY <1>2 DEF rejectCaller, rejectMethod, FetchFails, At, Fail, Goto
  <2>2. Shape'
    BY <2>1 DEF HandleInv, Shape, Places
  <2>3. Stage(r)'
    BY <2>1 DEF HandleInv, Shape, Stage, Resolved
  <2> QED BY <2>1, <2>2, <2>3, OthersKeep DEF HandleInv, Shape
<1>3. ASSUME NEW r \in Rpcs, route(r)
      PROVE  HandleInv'
  <2>1. next' \in [Pools -> Nat]
    BY <1>3, AdvanceSound DEF route, HandleInv, Shape, Pools
  <2>2. Shape'
    BY <1>3, <2>1 DEF route, At, Goto, HandleInv, Shape, Places, Resolved, Pools
  <2>3. Stage(r)'
    BY <1>3 DEF route, At, Goto, HandleInv, Shape, Stage, Resolved
  <2> QED BY <1>3, <2>2, <2>3, OthersKeep DEF route, Goto, HandleInv, Shape
<1>4. ASSUME NEW r \in Rpcs, NEW token, pc[r] \in {"lock", "request"}, Authorized(r, token),
             UNCHANGED <<call, decision, target, shadow, next>>
      PROVE  HandleInv'
  <2>1. Shape'
    BY <1>4 DEF Authorized, Goto, HandleInv, Shape, Places, Resolved, Pools
  <2>2. /\ outgoing'[r].primary =
             outgoingMetadata(call[r].metadata, primaryMetadata(decision[r], <<"token", token>>))
        /\ outgoing'[r].shadow = outgoing[r].shadow /\ pc'[r] = "shadow"
    BY <1>4 DEF Authorized, Goto, HandleInv, Shape, Pools
  <2>3. Bearer => HasToken(outgoing'[r].primary)
    BY <2>2, TokenSent
  <2>4. Stage(r)'
    BY <1>4, <2>2, <2>3 DEF HandleInv, Stage, Resolved, HasToken
  <2> QED BY <1>4, <2>1, <2>4, OthersKeep DEF Authorized, Goto, HandleInv, Shape
<1>5. ASSUME NEW r \in Rpcs, LockCached(r) \/ Fetched(r)
      PROVE  HandleInv'
  BY <1>4, <1>5 DEF LockCached, Fetched, At
<1>6. ASSUME NEW r \in Rpcs, LockFetch(r) \/ Discovered(r)
      PROVE  HandleInv'
  <2>1. PICK where \in {"discover", "request"} :
          /\ pc' = [pc EXCEPT ![r] = where] /\ pc[r] \in {"lock", "discover"}
          /\ UNCHANGED <<call, decision, target, outgoing, shadow, next>>
    BY <1>6 DEF LockFetch, Discovered, At, Goto
  <2>2. Shape'
    BY <2>1 DEF HandleInv, Shape, Places, Resolved
  <2>3. Stage(r)'
    BY <2>1 DEF HandleInv, Shape, Stage, Resolved
  <2> QED BY <2>1, <2>2, <2>3, OthersKeep DEF HandleInv, Shape
<1>7. ASSUME NEW r \in Rpcs, prepareShadow(r)
      PROVE  HandleInv'
  <2> DEFINE ip == call[r].peer
             overlaid == outgoingMetadata(call[r].metadata, decision[r].shadowMetadata)
  <2>1. PICK policy \in shouldShadow(decision[r], Forced(call[r])) :
          /\ shadow' = [shadow EXCEPT ![r] = policy]
          /\ target' = [target EXCEPT ![r].shadow = IF policy.doShadow THEN Pick("shadow", ip) ELSE NoTarget]
          /\ IF policy.doShadow THEN Advance("shadow", ip) ELSE UNCHANGED next
          /\ outgoing' = [outgoing EXCEPT
               ![r].primary = IF Bearer THEN @ ELSE outgoingMetadata(call[r].metadata, decision[r].primary),
               ![r].shadow = IF policy.doShadow THEN overlaid ELSE @]
    BY <1>7 DEF prepareShadow
  <2>2. /\ pc[r] = "shadow" /\ pc' = [pc EXCEPT ![r] = "stream"] /\ UNCHANGED <<call, decision>>
        /\ call[r] \in Calls[r] /\ decision[r] = Resolve(call[r].method) /\ outgoing[r].shadow = <<>>
        /\ Bearer => HasToken(outgoing[r].primary)
    BY <1>7 DEF prepareShadow, At, Goto, HandleInv, Stage, Resolved
  <2>3. next \in [Pools -> Nat] /\ DOMAIN outgoing[r] = Pools /\ DOMAIN target[r] = Pools
    BY DEF HandleInv, Shape
  <2>4. next' \in [Pools -> Nat]
    BY <2>1, <2>3, AdvanceSound DEF Pools
  <2>5. Shape'
    BY <2>1, <2>2, <2>4 DEF HandleInv, Shape, Places, Resolved, Pools
  <2>6. /\ outgoing'[r].shadow = IF policy.doShadow THEN overlaid ELSE outgoing[r].shadow
        /\ Bearer => outgoing'[r].primary = outgoing[r].primary
    <3> HIDE DEF overlaid
    <3> QED BY <2>1 DEF HandleInv, Shape, Pools
  <2>7. Foreign(overlaid)
    BY <2>2, ResolveSound, ForeignSent, InputAssumption
  <2>8. Foreign(outgoing'[r].shadow)
    BY <2>2, <2>6, <2>7 DEF Foreign
  <2>9. ASSUME policy.doShadow
        PROVE  target'[r].shadow # NoTarget /\ decision[r].shadow # "never"
    <3>1. Len(ShadowTargets) # 0 /\ decision[r].shadow # "never"
      BY <2>9, PolicySound
    <3>2. Pick("shadow", ip) # NoTarget
      BY <2>2, <2>3, <3>1, PickSound, InputAssumption
    <3>3. target'[r].shadow = Pick("shadow", ip)
      BY <2>1, <2>3, <2>9 DEF HandleInv, Shape, Pools
    <3> QED BY <3>1, <3>2, <3>3
  <2>10. pc'[r] = "stream" /\ shadow'[r] = policy
    BY <2>1, <2>2 DEF HandleInv, Shape
  <2>11. Stage(r)'
    BY <2>2, <2>6, <2>8, <2>9, <2>10 DEF Stage, HasToken, Foreign
  <2> QED BY <2>1, <2>2, <2>5, <2>11, OthersKeep DEF HandleInv, Shape
<1> QED
  BY <1>0, <1>1, <1>2, <1>3, <1>5, <1>6, <1>7
  DEF Next, vars, Handle, Lock, Answered, Tick, Issue, Cancel

\* Every RPC is, wherever Handle has got to, what the stages before have made of it.
THEOREM HandleInvariant == Spec => []HandleInv
<1>1. HandleInv /\ [Next]_vars => HandleInv'
  BY HandleStep
<1> QED BY InitHandle, <1>1, PTL DEF Spec

\* With a token source every RPC that reaches its streams carries the token to the
\* primary, and none ever carries it to the shadow (Handler.Handle, outgoingMetadata).
THEOREM TokenCorrect == Spec => []TokenForPrimaryOnly
<1>1. HandleInv => TokenForPrimaryOnly
  BY DEF HandleInv, Stage, HasToken, TokenForPrimaryOnly, At
<1> QED BY HandleInvariant, <1>1, PTL

\* No shadow runs without a target or against the first rule that covers the method,
\* whatever the client forces and the sampler draws (Resolve, shouldShadow, Pick).
THEOREM RulesCorrect == Spec => []ShadowObeysRules
<1>1. HandleInv => ShadowObeysRules
  <2>1. SUFFICES ASSUME HandleInv, NEW r \in Rpcs, pc[r] = "stream", shadow[r].doShadow
                 PROVE  target[r].shadow # NoTarget /\ Permits(call[r].method)
    BY DEF ShadowObeysRules, At, Permits
  <2>2. target[r].shadow # NoTarget /\ Resolve(call[r].method).shadow # "never"
    BY <2>1 DEF HandleInv, Stage, Resolved
  <2> QED BY <2>2, ResolveSound
<1> QED BY HandleInvariant, <1>1, PTL

--------------------------------------------------------------------------------
(* The token source *)

SourceTypes ==
  /\ now \in Nat /\ tokens \in Seq([at : Nat, life : Nat])
  /\ cache \in [token : 0..Len(tokens), expiresAt : Nat]
  /\ fetch \in [deadline : Nat, answer : 0..Len(tokens)]

\* Who talks to the issuer holds the mutex.
MutexInv == \A r \in Rpcs : pc[r] \in {"discover", "request"} => mu = {r}

\* A request that is under way began at most its timeout ago and before its answer was
\* issued, and its deadline has not passed.
FetchInv ==
  mu # {} =>
    /\ now <= fetch.deadline /\ fetch.deadline <= now + Timeout
    /\ fetch.answer # NoToken => fetch.deadline <= tokens[fetch.answer].at + Timeout

\* The cache believes in a token at most the timeout longer than the issuer does.
CacheInv ==
  cache.token # NoToken /\ tokens[cache.token].life > 0 =>
    cache.expiresAt <= tokens[cache.token].at + Timeout + tokens[cache.token].life

SourceInv == SourceTypes /\ MutexInv /\ FetchInv /\ CacheInv

LEMMA InitSource == Init => SourceInv
<1> SUFFICES ASSUME Init PROVE SourceInv
  OBVIOUS
<1>1. tokens = <<>> /\ Len(tokens) = 0 /\ now = 0 /\ mu = {}
  BY DEF Init
<1>2. cache = [token |-> 0, expiresAt |-> 0] /\ fetch = [deadline |-> 0, answer |-> 0]
  BY DEF Init, NoFetch, NoToken
<1>3. SourceTypes
  BY <1>1, <1>2 DEF SourceTypes
<1>4. MutexInv
  BY DEF Init, MutexInv
<1>5. FetchInv /\ CacheInv
  BY <1>1, <1>2 DEF FetchInv, CacheInv, NoToken
<1> QED BY <1>3, <1>4, <1>5 DEF SourceInv

LEMMA TokenType ==
  ASSUME SourceTypes, NEW i \in 1..Len(tokens)
  PROVE  tokens[i] \in [at : Nat, life : Nat]
<1> DEFINE Token == [at : Nat, life : Nat]
<1>1. tokens \in Seq(Token)
  BY DEF SourceTypes
<1> HIDE DEF Token
<1>2. tokens[i] \in Token
  BY <1>1
<1> QED BY <1>2 DEF Token

\* A step that leaves the clock and the issuer alone and moves no RPC to or within the
\* conversation with the issuer.
LEMMA SourceIdle ==
  ASSUME SourceInv, UNCHANGED <<now, cache, fetch, tokens, mu>>,
         \A r \in Rpcs : pc'[r] \in {"discover", "request"} => pc[r] \in {"discover", "request"}
  PROVE  SourceInv'
BY DEF SourceInv, SourceTypes, MutexInv, FetchInv, CacheInv

LEMMA SourceStep ==
  ASSUME HandleInv, SourceInv, [Next]_vars
  PROVE  SourceInv'
<1>0. /\ SourceTypes /\ MutexInv /\ FetchInv /\ CacheInv /\ pc \in [Rpcs -> Places]
      /\ Timeout \in Nat \ {0} /\ DefaultLife \in Nat
  BY HandleAssumption DEF SourceInv, HandleInv, Shape
<1>1. CASE UNCHANGED vars \/ \E r \in Rpcs : Cancel(r)
  <2>1. UNCHANGED <<now, cache, fetch, tokens, mu, pc>>
    BY <1>1 DEF vars, sourceVars, Cancel
  <2> QED BY <2>1, SourceIdle
<1>2. ASSUME NEW r \in Rpcs, Handle(r) \/ \E c \in Calls[r] : Arrive(r, c)
      PROVE  SourceInv'
  <2>1. /\ UNCHANGED <<now, cache, fetch, tokens, mu>>
        /\ \E where \in {"auth", "done", "lock", "shadow", "stream"} : pc' = [pc EXCEPT ![r] = where]
    <3>1. CASE rejectCaller(r) \/ rejectMethod(r)
      BY <3>1 DEF rejectCaller, rejectMethod, Fail, Goto, sourceVars
    <3>2. CASE route(r)
      BY <3>2 DEF route, Goto, sourceVars
    <3>3. CASE prepareShadow(r)
      BY <3>3 DEF prepareShadow, Goto, sourceVars
    <3>4. CASE \E c \in Calls[r] : Arrive(r, c)
      BY <3>4 DEF Arrive, Goto, sourceVars
    <3> QED BY <1>2, <3>1, <3>2, <3>3, <3>4 DEF Handle
  <2>2. \A q \in Rpcs : pc'[q] \in {"discover", "request"} => pc[q] \in {"discover", "request"}
    BY <2>1, <1>0
  <2> QED BY <2>1, <2>2, SourceIdle
<1>3. CASE Tick
  <2>1. /\ now' = now + 1 /\ (mu # {} => now < fetch.deadline)
        /\ UNCHANGED <<pc, cache, fetch, tokens, mu>>
    BY <1>3 DEF Tick, sourceVars
  <2>2. SourceTypes' /\ MutexInv' /\ CacheInv'
    BY <2>1, <1>0 DEF SourceTypes, MutexInv, CacheInv
  <2>3. FetchInv'
    <3>1. fetch.deadline \in Nat /\ now \in Nat
      BY <1>0 DEF SourceTypes
    <3> QED BY <2>1, <1>0, <3>1 DEF FetchInv
  <2> QED BY <2>2, <2>3 DEF SourceInv
<1>4. ASSUME NEW life \in Lifetimes, Issue(life) PROVE SourceInv'
  <2> DEFINE k == Len(tokens) + 1
             t == [at |-> now, life |-> life]
  <2>1. /\ tokens' = Append(tokens, t) /\ fetch' = [fetch EXCEPT !.answer = k]
        /\ UNCHANGED <<now, pc, mu, cache>>
    BY <1>4 DEF Issue
  <2>2. t \in [at : Nat, life : Nat] /\ t.at = now
    BY <1>0, InputAssumption DEF SourceTypes
  <2> HIDE DEF t
  <2>3. /\ tokens' \in Seq([at : Nat, life : Nat]) /\ Len(tokens') = k /\ tokens'[k] = t
        /\ \A i \in 1..Len(tokens) : tokens'[i] = tokens[i]
    BY <2>1, <2>2, <1>0 DEF SourceTypes
  <2>4. Len(tokens) \in Nat /\ cache.token \in 0..Len(tokens) /\ fetch.deadline \in Nat
    BY <1>0 DEF SourceTypes
  <2>5. fetch' \in [deadline : Nat, answer : 0..k] /\ fetch'.deadline = fetch.deadline /\ fetch'.answer = k
    <3>1. fetch \in [deadline : Nat, answer : 0..Len(tokens)] /\ k \in 0..k
      BY <2>4, <1>0 DEF SourceTypes
    <3> HIDE DEF k
    <3>2. fetch' = [deadline |-> fetch.deadline, answer |-> k]
      BY <2>1, <3>1
    <3> QED BY <3>1, <3>2
  <2>6. SourceTypes'
    BY <2>1, <2>3, <2>4, <2>5, <1>0 DEF SourceTypes
  <2>7. MutexInv'
    BY <2>1, <1>0 DEF MutexInv
  <2>8. FetchInv'
    <3>1. tokens'[fetch'.answer].at = now
      BY <2>2, <2>3, <2>5
    <3> QED BY <3>1, <2>1, <2>5, <1>0 DEF FetchInv
  <2>9. CacheInv'
    <3>1. cache.token # NoToken => tokens'[cache.token] = tokens[cache.token]
      BY <2>3, <2>4 DEF NoToken
    <3> QED BY <3>1, <2>1, <1>0 DEF CacheInv
  <2> QED BY <2>6, <2>7, <2>8, <2>9 DEF SourceInv
<1>5. ASSUME NEW r \in Rpcs, LockCached(r) PROVE SourceInv'
  <2>1. /\ UNCHANGED <<now, cache, fetch, tokens>> /\ mu = {} /\ mu' = {}
        /\ pc' = [pc EXCEPT ![r] = "shadow"]
    BY <1>5 DEF LockCached, Authorized, Goto
  <2>2. \A q \in Rpcs : pc'[q] \in {"discover", "request"} => pc[q] \in {"discover", "request"}
    BY <2>1, <1>0
  <2> QED BY <2>1, <2>2, SourceIdle
<1>6. ASSUME NEW r \in Rpcs, LockFetch(r) PROVE SourceInv'
  <2>1. /\ UNCHANGED <<now, cache, tokens>> /\ mu = {} /\ mu' = {r}
        /\ fetch' = [deadline |-> now + Timeout, answer |-> 0]
        /\ \E where \in {"request", "discover"} : pc' = [pc EXCEPT ![r] = where]
    BY <1>6 DEF LockFetch, Goto, NoToken
  <2>2. fetch'.deadline = now + Timeout /\ fetch'.answer = 0 /\ now \in Nat /\ Len(tokens) \in Nat
    BY <2>1, <1>0 DEF SourceTypes
  <2>3. SourceTypes'
    BY <2>1, <2>2, <1>0 DEF SourceTypes
  <2>4. \A q \in Rpcs \ {r} : pc[q] \notin {"discover", "request"} /\ pc'[q] = pc[q]
    BY <2>1, <1>0 DEF MutexInv
  <2>5. MutexInv'
    BY <2>1, <2>4 DEF MutexInv
  <2>6. FetchInv'
    BY <2>1, <2>2, <1>0 DEF FetchInv, NoToken
  <2>7. CacheInv'
    BY <2>1, <1>0 DEF CacheInv
  <2> QED BY <2>3, <2>5, <2>6, <2>7 DEF SourceInv
<1>7. ASSUME NEW r \in Rpcs, Discovered(r) PROVE SourceInv'
  <2>1. /\ UNCHANGED <<now, cache, fetch, tokens, mu>> /\ pc[r] = "discover"
        /\ pc' = [pc EXCEPT ![r] = "request"]
    BY <1>7 DEF Discovered, At, Goto
  <2>2. \A q \in Rpcs : pc'[q] \in {"discover", "request"} => pc[q] \in {"discover", "request"}
    BY <2>1, <1>0
  <2> QED BY <2>1, <2>2, SourceIdle
<1>8. ASSUME NEW r \in Rpcs, Fetched(r) \/ FetchFails(r) PROVE SourceInv'
  <2>1. /\ UNCHANGED <<now, tokens>> /\ mu' = {} /\ fetch' = NoFetch
        /\ pc[r] \in {"discover", "request"}
        /\ \E where \in {"shadow", "done"} : pc' = [pc EXCEPT ![r] = where]
    BY <1>8 DEF Fetched, FetchFails, Authorized, Fail, At, Goto
  <2>2. mu = {r}
    BY <2>1, <1>0 DEF MutexInv
  <2>3. \A q \in Rpcs : pc'[q] \notin {"discover", "request"}
    BY <2>1, <2>2, <1>0 DEF MutexInv
  <2>4. MutexInv' /\ FetchInv'
    BY <2>1, <2>3 DEF MutexInv, FetchInv
  <2>5. /\ Len(tokens) \in Nat /\ now \in Nat
        /\ NoFetch \in [deadline : Nat, answer : 0..Len(tokens)]
    BY <1>0 DEF SourceTypes, NoFetch, NoToken
  <2>6. CASE cache' = cache
    BY <2>1, <2>4, <2>5, <2>6, <1>0 DEF SourceInv, SourceTypes, CacheInv
  <2>7. CASE /\ fetch.answer # NoToken
             /\ cache' = [token |-> fetch.answer, expiresAt |-> tokenExpiresAt(tokens[fetch.answer].life)]
    <3> DEFINE k == fetch.answer
               t == tokens[k]
               e == tokenExpiresAt(t.life)
    <3>1. k \in 1..Len(tokens) /\ fetch.deadline \in Nat
      BY <2>7, <2>5, <1>0 DEF SourceTypes, NoToken
    <3>2. t \in [at : Nat, life : Nat]
      BY <3>1, <1>0, TokenType
    <3>3. now <= t.at + Timeout
      <4>1. now <= fetch.deadline /\ fetch.deadline <= t.at + Timeout
        BY <2>2, <2>7, <1>0 DEF FetchInv
      <4>2. t.at \in Nat
        BY <3>2
      <4> HIDE DEF t
      <4> QED BY <4>1, <4>2, <3>1, <2>5, <1>0
    <3>4. t.at \in Nat /\ t.life \in Nat
      BY <3>2
    <3>5. e \in Nat /\ (t.life > 0 => e <= t.at + Timeout + t.life)
      <4> HIDE DEF t
      <4> QED BY <3>3, <3>4, <2>5, <1>0 DEF tokenExpiresAt
    <3>6. cache' = [token |-> k, expiresAt |-> e]
      BY <2>7
    <3> HIDE DEF e
    <3>7. cache'.token = k /\ cache'.expiresAt = e /\ cache' \in [token : 0..Len(tokens), expiresAt : Nat]
      BY <3>1, <3>5, <3>6, <2>5
    <3>8. SourceTypes'
      BY <2>1, <2>5, <3>7, <1>0 DEF SourceTypes
    <3>9. CacheInv'
      BY <2>1, <3>5, <3>7 DEF CacheInv
    <3> QED BY <2>4, <3>8, <3>9 DEF SourceInv
  <2> QED BY <1>8, <2>6, <2>7 DEF Fetched, FetchFails
<1> QED BY <1>1, <1>2, <1>3, <1>4, <1>5, <1>6, <1>7, <1>8 DEF Next, Lock, Answered

\* A cached token that is handed to an RPC is one that the issuer still honours, if the
\* skew is not shorter than the timeout of a request: for any lifetimes, any number of
\* RPCs and whenever the answers come (accessToken, cachedTokenValid, tokenExpiresAt).
THEOREM CachedTokenCorrect == Spec => CachedTokenAlive
<1> DEFINE A == \A r \in Rpcs :
                  At(r, "lock") /\ pc'[r] = "shadow" /\ Timeout <= RefreshSkew =>
                    LET t == tokens[cache.token] IN t.life > 0 => now < t.at + t.life
<1>1. ASSUME HandleInv, SourceInv, [Next]_vars PROVE A
  <2> SUFFICES ASSUME NEW r \in Rpcs, At(r, "lock"), pc'[r] = "shadow", Timeout <= RefreshSkew,
                      tokens[cache.token].life > 0
               PROVE  now < tokens[cache.token].at + tokens[cache.token].life
    OBVIOUS
  <2>0. SourceTypes /\ CacheInv /\ pc \in [Rpcs -> Places] /\ pc[r] = "lock"
    BY <1>1 DEF SourceInv, HandleInv, Shape, At
  <2>1. cachedTokenValid
    <3>1. \E q \in Rpcs : LockCached(q)
      <4>1. CASE UNCHANGED pc
        BY <4>1, <2>0
      <4>2. CASE pc' # pc
        <5>1. \/ Tick \/ (\E life \in Lifetimes : Issue(life))
              \/ \E q \in Rpcs : \/ Handle(q) \/ Lock(q) \/ Answered(q) \/ FetchFails(q) \/ Cancel(q)
                                 \/ \E c \in Calls[q] : Arrive(q, c)
          BY <1>1, <4>2 DEF Next, vars
        <5>2. PICK q \in Rpcs : \/ Handle(q) \/ Lock(q) \/ Answered(q) \/ FetchFails(q)
                                \/ \E c \in Calls[q] : Arrive(q, c)
          BY <5>1, <4>2 DEF Tick, Issue, Cancel
        <5>3. CASE LockCached(q)
          BY <5>3
        <5>4. CASE ~LockCached(q)
          <6>1. \E where : pc' = [pc EXCEPT ![q] = where]
            BY <5>2 DEF Handle, Lock, Answered, FetchFails, Arrive, rejectCaller, rejectMethod, route,
                 prepareShadow, LockCached, LockFetch, Discovered, Fetched, Authorized, Fail, Goto
          <6>2. q = r
            BY <6>1, <2>0
          <6>3. LockFetch(q)
            BY <5>2, <5>4, <6>2, <2>0 DEF Handle, Lock, Answered, FetchFails, Arrive, rejectCaller,
                 rejectMethod, route, prepareShadow, Discovered, Fetched, At
          <6>4. pc'[r] \in {"request", "discover"}
            BY <6>2, <6>3, <2>0 DEF LockFetch, Goto
          <6> QED BY <6>4
        <5> QED BY <5>3, <5>4
      <4> QED BY <4>1, <4>2
    <3> QED BY <3>1 DEF LockCached
  <2> DEFINE t == tokens[cache.token]
  <2>2. cache.token # NoToken /\ now + RefreshSkew < cache.expiresAt
    BY <2>1 DEF cachedTokenValid
  <2>3. cache.token \in 1..Len(tokens) /\ cache.expiresAt \in Nat /\ now \in Nat
    BY <2>0, <2>2 DEF SourceTypes, NoToken
  <2>4. t \in [at : Nat, life : Nat]
    BY <2>0, <2>3, TokenType
  <2>5. t.at \in Nat /\ t.life \in Nat
    BY <2>4
  <2>6. cache.expiresAt <= t.at + Timeout + t.life
    BY <2>0, <2>2 DEF CacheInv
  <2> HIDE DEF t
  <2>7. now < t.at + t.life
    BY <2>2, <2>3, <2>5, <2>6, HandleAssumption
  <2> QED BY <2>7 DEF t
<1>2. HandleInv /\ SourceInv /\ [Next]_vars => [A]_vars
  BY <1>1
<1>3. HandleInv /\ SourceInv /\ [Next]_vars => SourceInv'
  BY SourceStep
<1> QED BY <1>2, <1>3, HandleInvariant, InitSource, PTL DEF Spec, CachedTokenAlive
================================================================================
