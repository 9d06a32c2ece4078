---------------------------- MODULE HttpProxyProofs ----------------------------
(***************************************************************************)
(* The rate limiter keeps its bound, alone and as the HTTP handler uses    *)
(* it, and every request the primary served is reported exactly once.      *)
(***************************************************************************)
EXTENDS HttpProxy, SequenceTheorems, WellFoundedInduction, TLAPS

\* What is still in the bucket and what was given out since any admission is covered
\* by the burst and the refill up to the last call.
Covered ==
  \A i \in DOMAIN admitted :
    (Len(admitted) - i + 1) * Scale + tokens <= Burst * Scale + (last - admitted[i]) * Rate

BucketInv == BucketType /\ Covered /\ RateBound

\* Refilling credits at most the time passed, and never beyond the burst (Allow).
LEMMA RefillBounds ==
  ASSUME BucketType
  PROVE  /\ Refill \in Nat /\ Refill <= Burst * Scale
         /\ Refill <= tokens + (clock - last) * Rate
<1>1. Burst * Scale \in Nat /\ (clock - last) * Rate \in Nat
  BY BucketAssumption DEF BucketType
<1>2. tokens \in Nat
  BY <1>1 DEF BucketType
<1> QED BY <1>1, <1>2 DEF Refill

\* A call of Allow moves the credit of the past on to now.
LEMMA CoveredNow ==
  ASSUME BucketType, Covered, NEW i \in DOMAIN admitted
  PROVE  (Len(admitted) - i + 1) * Scale + Refill <= Burst * Scale + (clock - admitted[i]) * Rate
<1>1. /\ admitted[i] \in Nat /\ last \in Nat /\ clock \in Nat /\ Rate \in Nat
      /\ tokens \in Int /\ Refill \in Nat /\ Refill <= tokens + (clock - last) * Rate
  BY RefillBounds, BucketAssumption DEF BucketType
<1>2. (last - admitted[i]) * Rate + (clock - last) * Rate = (clock - admitted[i]) * Rate
  BY <1>1
<1>3. /\ (last - admitted[i]) * Rate \in Int /\ (clock - last) * Rate \in Int
      /\ (clock - admitted[i]) * Rate \in Int
  BY <1>1
<1>4. (Len(admitted) - i + 1) * Scale \in Int /\ Burst * Scale \in Int
  BY BucketAssumption DEF BucketType
<1>5. (Len(admitted) - i + 1) * Scale + tokens <= Burst * Scale + (last - admitted[i]) * Rate
  BY DEF Covered
<1> DEFINE a == (Len(admitted) - i + 1) * Scale
           b == Burst * Scale
           p == (last - admitted[i]) * Rate
           q == (clock - last) * Rate
           t == (clock - admitted[i]) * Rate
<1>6. /\ a \in Int /\ b \in Int /\ p \in Int /\ q \in Int /\ t \in Int /\ p + q = t
      /\ a + tokens <= b + p /\ Refill <= tokens + q
  BY <1>1, <1>2, <1>3, <1>4, <1>5
<1> HIDE DEF a, b, p, q, t
<1>7. a + Refill <= b + t
  BY <1>6, <1>1
<1> QED BY <1>7 DEF a, b, t

LEMMA BucketInit_Inv == BucketInit => BucketInv
<1> SUFFICES ASSUME BucketInit PROVE BucketInv
  OBVIOUS
<1>1. Burst * Scale \in Nat
  BY BucketAssumption
<1> QED BY <1>1, BucketAssumption DEF BucketInit, BucketInv, BucketType, Covered, RateBound

LEMMA BucketNext_Inv == BucketInv /\ [BucketNext]_bucketVars => BucketInv'
<1> SUFFICES ASSUME BucketInv, [BucketNext]_bucketVars PROVE BucketInv'
  OBVIOUS
<1>0. BucketType /\ Covered /\ RateBound /\ admitted \in Seq(Nat)
  BY BucketAssumption DEF BucketInv, BucketType
<1>1. CASE UNCHANGED bucketVars
  BY <1>1, <1>0 DEF bucketVars, BucketInv, BucketType, Covered, RateBound
<1>2. CASE ClockTick
  <2>1. clock' \in 0..MaxTime /\ last' \in 0..clock' /\ admitted \in Seq(0..clock')
    BY <1>2, <1>0, BucketAssumption DEF ClockTick, BucketType
  <2> QED BY <1>2, <1>0, <2>1 DEF ClockTick, BucketInv, BucketType, Covered, RateBound
<1>3. ASSUME NEW answer \in BOOLEAN, Allow(answer) PROVE BucketInv'
  <2>1. CASE Rate = 0 /\ UNCHANGED bucketVars
    BY <1>1, <2>1
  <2>2. CASE /\ Rate > 0 /\ Refill < Scale /\ tokens' = Refill /\ last' = clock
             /\ UNCHANGED <<clock, admitted>>
    <3>1. BucketType'
      BY <2>2, <1>0, RefillBounds, BucketAssumption DEF BucketType
    <3>2. Covered'
      BY <2>2, <1>0, CoveredNow DEF Covered
    <3> QED BY <2>2, <1>0, <3>1, <3>2 DEF BucketInv, RateBound
  <2>3. CASE /\ Rate > 0 /\ Refill >= Scale
             /\ tokens' = Refill - Scale /\ last' = clock
             /\ admitted' = Append(admitted, clock) /\ UNCHANGED clock
    <3> DEFINE n == Len(admitted)
    <3>0. /\ n \in Nat /\ DOMAIN admitted = 1..n /\ clock \in Nat
          /\ Scale \in Nat \ {0} /\ Rate \in Nat /\ Burst * Scale \in Nat
      BY <1>0, BucketAssumption DEF BucketType
    <3>1. /\ Len(admitted') = n + 1 /\ DOMAIN admitted' = 1..(n + 1)
          /\ admitted'[n + 1] = clock
          /\ \A i \in 1..n : admitted'[i] = admitted[i] /\ admitted[i] \in Nat
      BY <2>3, <1>0, <3>0
    <3>2. BucketType'
      BY <2>3, <1>0, <3>0, RefillBounds, BucketAssumption DEF BucketType
    <3>3. ASSUME NEW i \in 1..(n + 1)
          PROVE  (n - i + 1) * Scale + Refill <= Burst * Scale + (clock - admitted'[i]) * Rate
      <4>1. CASE i = n + 1
        <5>1. (n - i + 1) * Scale = 0 /\ (clock - admitted'[i]) * Rate = 0
          BY <4>1, <3>0, <3>1
        <5> QED BY <5>1, <1>0, <3>0, RefillBounds
      <4>2. CASE i \in 1..n
        BY <4>2, <1>0, <3>0, <3>1, CoveredNow
      <4> QED BY <4>1, <4>2, <3>0
    <3>4. ASSUME NEW i \in 1..(n + 1)
          PROVE  /\ ((n + 1) - i + 1) * Scale = (n - i + 1) * Scale + Scale
                 /\ (n - i + 1) * Scale \in Int /\ (clock - admitted'[i]) * Rate \in Int
      BY <3>0, <3>1
    <3>5. ASSUME NEW i \in 1..(n + 1)
          PROVE  /\ ((n + 1) - i + 1) * Scale + tokens' <= Burst * Scale + (clock - admitted'[i]) * Rate
                 /\ ((n + 1) - i + 1) * Scale <= Burst * Scale + (clock - admitted'[i]) * Rate
      <4> DEFINE a == (n - i + 1) * Scale
                 b == Burst * Scale
                 t == (clock - admitted'[i]) * Rate
                 c == ((n + 1) - i + 1) * Scale
      <4>1. /\ a \in Int /\ b \in Int /\ t \in Int /\ c = a + Scale /\ Scale \in Nat
            /\ a + Refill <= b + t /\ Refill \in Nat /\ Refill >= Scale /\ tokens' = Refill - Scale
        BY <3>0, <3>3, <3>4, <2>3, <1>0, RefillBounds
      <4> HIDE DEF a, b, t, c
      <4>2. c + tokens' <= b + t /\ c <= b + t
        BY <4>1
      <4> QED BY <4>2 DEF b, t, c
    <3>6. Covered'
      BY <3>1, <3>5, <2>3 DEF Covered
    <3>7. RateBound'
      <4> SUFFICES ASSUME NEW i \in 1..(n + 1), NEW j \in 1..(n + 1), i <= j
                   PROVE  (j - i + 1) * Scale <= Burst * Scale + (admitted'[j] - admitted'[i]) * Rate
        BY <3>1 DEF RateBound
      <4>1. CASE j = n + 1
        BY <4>1, <3>1, <3>5
      <4>2. CASE j \in 1..n
        <5>1. i \in 1..n
          BY <4>2, <3>0
        <5> QED BY <4>2, <5>1, <3>0, <3>1, <1>0 DEF RateBound
      <4> QED BY <4>1, <4>2, <3>0
    <3> QED BY <3>2, <3>6, <3>7 DEF BucketInv
  <2> QED BY <1>3, <2>1, <2>2, <2>3 DEF Allow
<1> QED BY <1>1, <1>2, <1>3 DEF BucketNext

\* Whatever calls are made and whenever, the limiter keeps its bound: for every rate,
\* burst and scale (TokenBucket.Allow).
THEOREM BucketCorrect == BucketSpec => []RateBound
<1>1. BucketInv => RateBound
  BY DEF BucketInv
<1> QED BY <1>1, BucketInit_Inv, BucketNext_Inv, PTL DEF BucketSpec

--------------------------------------------------------------------------------
(* The limiter inside the handler *)

LEMMA Next_Bucket == [Next]_vars => [BucketNext]_bucketVars
<1> SUFFICES ASSUME [Next]_vars PROVE [BucketNext]_bucketVars
  OBVIOUS
<1>1. CASE UNCHANGED vars \/ Ended
  BY <1>1 DEF vars, Ended, bucketVars
<1>2. CASE Tick
  BY <1>2 DEF Tick, BucketNext
<1>3. ASSUME NEW r \in Requests, Decide(r) PROVE [BucketNext]_bucketVars
  BY <1>3 DEF Decide, shouldShadow, BucketNext
<1>4. ASSUME NEW r \in Requests, Arrive(r) \/ ClientGone(r) \/ BodyStep(r) \/ ShadowStep(r)
      PROVE  UNCHANGED bucketVars
  BY <1>4 DEF Arrive, ClientGone, BodyStep, ShadowStep, Abort, BodyError, BodyTooLarge, BodyRead,
       writePrimaryResponse, PrimaryRead, PrimaryBreaks, ReadPrimary, ShadowFails, ShadowResponds, ShadowRead,
       ShadowBreaks, ReadShadow, ShadowLogs
<1>5. ASSUME NEW r \in Requests, HandleStep(r), ~Decide(r) PROVE UNCHANGED bucketVars
  BY <1>5 DEF HandleStep, Abort, PrimaryFails, PrimaryResponds,
       FinishPrimaryOnly, StartShadow
<1> QED BY <1>1, <1>2, <1>3, <1>4, <1>5 DEF Next

\* Shadowed requests that were not forced keep to the limiter's bound, for any number
\* of concurrent requests and any configuration.
THEOREM RateCorrect == Spec => []RateBound
<1>1. Init => BucketInv
  BY BucketInit_Inv DEF Init
<1>2. BucketInv /\ [Next]_vars => BucketInv'
  BY BucketNext_Inv, Next_Bucket
<1>3. BucketInv => RateBound
  BY DEF BucketInv
<1> QED BY <1>1, <1>2, <1>3, PTL DEF Spec

--------------------------------------------------------------------------------
(* One observation per request *)

\* How the places of Handle and of the goroutine, the answer and the reports of one
\* request go together.
Stage(h, s, g, o) ==
  \/ h \in {"idle", "body", "decide", "call", "read", "write"} /\ s = "none" /\ g.status # 200 /\ o = <<>>
  \/ h = "finish" /\ s = "none" /\ g.status = 200 /\ o = <<>>
  \/ h = "done" /\ s = "none" /\ g.status # 200 /\ o = <<>>
  \/ h = "done" /\ s \in {"call", "read", "log"} /\ g.status = 200 /\ o = <<>>
  \/ h = "done" /\ s \in {"none", "done"} /\ g.status = 200 /\ Len(o) = 1

Domains ==
  /\ DOMAIN hpc = Requests /\ DOMAIN spc = Requests
  /\ DOMAIN given = Requests /\ DOMAIN observed = Requests

ObsInv == Domains /\ \A r \in Requests : Stage(hpc[r], spc[r], given[r], observed[r])

LEMMA AppendOne == ASSUME NEW x PROVE Len(Append(<<>>, x)) = 1
<1>1. <<>> \in Seq({x}) /\ x \in {x}
  OBVIOUS
<1> QED BY <1>1

\* Nothing but r changes.
OthersKeep(r) ==
  \A q \in Requests \ {r} :
    /\ hpc'[q] = hpc[q] /\ spc'[q] = spc[q]
    /\ given'[q] = given[q] /\ observed'[q] = observed[q]

\* It is enough to look at the request that took the step.
LEMMA StageStep ==
  ASSUME ObsInv, Domains', NEW r \in Requests, OthersKeep(r),
         Stage(hpc'[r], spc'[r], given'[r], observed'[r])
  PROVE  ObsInv'
<1>1. ASSUME NEW q \in Requests
      PROVE  Stage(hpc'[q], spc'[q], given'[q], observed'[q])
  BY DEF ObsInv, OthersKeep
<1> QED BY <1>1 DEF ObsInv, Stage

\* logHTTPResult adds the one report.
LEMMA LogOnce ==
  ASSUME Domains, NEW r \in Requests, logHTTPResult(r), observed[r] = <<>>
  PROVE  /\ DOMAIN observed' = Requests /\ Len(observed'[r]) = 1
         /\ \A q \in Requests \ {r} : observed'[q] = observed[q]
<1>1. PICK x : observed' = [observed EXCEPT ![r] = Append(@, x)]
  BY DEF logHTTPResult
<1>2. observed'[r] = Append(<<>>, x)
  BY <1>1 DEF Domains
<1>3. Len(observed'[r]) = 1
  BY <1>2, AppendOne
<1> QED BY <1>1, <1>3 DEF Domains

LEMMA Init_Obs == Init => ObsInv
<1> SUFFICES ASSUME Init PROVE ObsInv
  OBVIOUS
<1>1. Domains
  BY DEF Init, Domains
<1>2. ASSUME NEW r \in Requests PROVE Stage(hpc[r], spc[r], given[r], observed[r])
  <2>1. hpc[r] = "idle" /\ spc[r] = "none" /\ given[r] = NoAnswer /\ observed[r] = <<>>
    BY DEF Init
  <2>2. NoAnswer.status # 200
    BY DEF NoAnswer
  <2> QED BY <2>1, <2>2 DEF Stage
<1> QED BY <1>1, <1>2 DEF ObsInv

LEMMA Next_Obs == ObsInv /\ [Next]_vars => ObsInv'
<1> SUFFICES ASSUME ObsInv, [Next]_vars PROVE ObsInv'
  OBVIOUS
<1>0. Domains /\ \A r \in Requests : Stage(hpc[r], spc[r], given[r], observed[r])
  BY DEF ObsInv
<1>1. CASE UNCHANGED <<hpc, spc, given, observed>>
  BY <1>1, <1>0 DEF ObsInv, Domains, Stage
<1>2. ASSUME NEW r \in Requests, Arrive(r) \/ BodyRead(r) \/ Decide(r) \/ PrimaryResponds(r)
                                  \/ PrimaryRead(r) \/ PrimaryBreaks(r)
      PROVE  ObsInv'
  <2>1. /\ UNCHANGED <<spc, given, observed>>
        /\ hpc[r] \in {"idle", "body", "decide", "call", "read"}
        /\ \E h \in {"body", "decide", "call", "read", "write"} : hpc' = [hpc EXCEPT ![r] = h]
    BY <1>2 DEF Arrive, BodyRead, Decide, PrimaryResponds, PrimaryRead, PrimaryBreaks, ReadPrimary,
         clientVars, shadowVars
  <2>2. Domains' /\ OthersKeep(r)
    BY <2>1, <1>0 DEF Domains, OthersKeep
  <2>3. Stage(hpc'[r], spc'[r], given'[r], observed'[r])
    BY <2>1, <1>0 DEF Domains, Stage
  <2> QED BY <2>2, <2>3, StageStep
<1>3. ASSUME NEW r \in Requests, BodyError(r) \/ BodyTooLarge(r) \/ PrimaryFails(r)
      PROVE  ObsInv'
  <2>1. PICK status \in {400, 413, 502} : Abort(r, status) /\ hpc[r] \in {"body", "call"}
    BY <1>3 DEF BodyError, BodyTooLarge, PrimaryFails
  <2>2. Domains' /\ OthersKeep(r)
    BY <2>1, <1>0 DEF Abort, shadowVars, Domains, OthersKeep
  <2>3. Stage(hpc'[r], spc'[r], given'[r], observed'[r])
    BY <2>1, <1>0 DEF Abort, shadowVars, Domains, Stage
  <2> QED BY <2>2, <2>3, StageStep
<1>4. ASSUME NEW r \in Requests, writePrimaryResponse(r) PROVE ObsInv'
  <2>1. Domains' /\ OthersKeep(r)
    BY <1>4, <1>0 DEF writePrimaryResponse, shadowVars, Domains, OthersKeep
  <2>2. Stage(hpc'[r], spc'[r], given'[r], observed'[r])
    BY <1>4, <1>0 DEF writePrimaryResponse, shadowVars, Domains, Stage
  <2> QED BY <2>1, <2>2, StageStep
<1>5. ASSUME NEW r \in Requests, FinishPrimaryOnly(r) PROVE ObsInv'
  <2>1. observed[r] = <<>>
    BY <1>5, <1>0 DEF FinishPrimaryOnly, Stage
  <2>2. Domains' /\ OthersKeep(r)
    BY <1>5, <1>0, <2>1, LogOnce DEF FinishPrimaryOnly, clientVars, Domains, OthersKeep
  <2>3. Stage(hpc'[r], spc'[r], given'[r], observed'[r])
    BY <1>5, <1>0, <2>1, LogOnce DEF FinishPrimaryOnly, clientVars, Domains, Stage
  <2> QED BY <2>2, <2>3, StageStep
<1>6. ASSUME NEW r \in Requests, StartShadow(r) PROVE ObsInv'
  <2>1. Domains' /\ OthersKeep(r)
    BY <1>6, <1>0 DEF StartShadow, clientVars, Domains, OthersKeep
  <2>2. Stage(hpc'[r], spc'[r], given'[r], observed'[r])
    BY <1>6, <1>0 DEF StartShadow, clientVars, Domains, Stage
  <2> QED BY <2>1, <2>2, StageStep
<1>7. ASSUME NEW r \in Requests, ShadowFails(r) \/ ShadowResponds(r) \/ ShadowRead(r) \/ ShadowBreaks(r)
      PROVE  ObsInv'
  <2>1. /\ UNCHANGED <<hpc, given, observed>> /\ spc[r] \in {"call", "read"}
        /\ \E s \in {"read", "log"} : spc' = [spc EXCEPT ![r] = s]
    BY <1>7 DEF ShadowFails, ShadowResponds, ShadowRead, ShadowBreaks, ReadShadow, clientVars, primaryVars
  <2>2. Domains' /\ OthersKeep(r)
    BY <2>1, <1>0 DEF Domains, OthersKeep
  <2>3. Stage(hpc'[r], spc'[r], given'[r], observed'[r])
    BY <2>1, <1>0 DEF Domains, Stage
  <2> QED BY <2>2, <2>3, StageStep
<1>8. ASSUME NEW r \in Requests, ShadowLogs(r) PROVE ObsInv'
  <2>1. observed[r] = <<>>
    BY <1>8, <1>0 DEF ShadowLogs, Stage
  <2>2. Domains' /\ OthersKeep(r)
    BY <1>8, <1>0, <2>1, LogOnce DEF ShadowLogs, clientVars, Domains, OthersKeep
  <2>3. Stage(hpc'[r], spc'[r], given'[r], observed'[r])
    BY <1>8, <1>0, <2>1, LogOnce DEF ShadowLogs, clientVars, Domains, Stage
  <2> QED BY <2>2, <2>3, StageStep
<1>9. CASE UNCHANGED vars \/ Ended \/ Tick \/ \E r \in Requests : ClientGone(r)
  BY <1>9, <1>1 DEF vars, Ended, Tick, ClientGone, clientVars, primaryVars, shadowVars
<1> QED BY <1>2, <1>3, <1>4, <1>5, <1>6, <1>7, <1>8, <1>9
        DEF Next, BodyStep, HandleStep, ShadowStep

\* Every request that the primary served is reported exactly once and no other is,
\* for any number of concurrent requests and any configuration (Handle,
\* runShadowAndLog, logHTTPResult).
THEOREM ObservationCorrect == Spec => []OneObservation
<1>1. ASSUME ObsInv, NEW r \in Requests
      PROVE  /\ Len(observed[r]) <= 1
             /\ hpc[r] = "done" /\ spc[r] \in {"none", "done"} =>
                  (Len(observed[r]) = 1 <=> given[r].status = 200)
  <2>1. Stage(hpc[r], spc[r], given[r], observed[r])
    BY <1>1 DEF ObsInv
  <2>2. \/ /\ Len(observed[r]) = 0
           /\ ~(hpc[r] = "done" /\ spc[r] \in {"none", "done"} /\ given[r].status = 200)
        \/ Len(observed[r]) = 1 /\ given[r].status = 200
    <3>1. Len(<<>>) = 0
      OBVIOUS
    <3>2. CASE observed[r] = <<>>
      BY <2>1, <3>1, <3>2 DEF Stage
    <3>3. CASE observed[r] # <<>>
      BY <2>1, <3>3 DEF Stage
    <3> QED BY <3>2, <3>3
  <2>3. \A n \in {0, 1} : n <= 1
    BY SMT
  <2>4. Len(observed[r]) \in {0, 1} /\ Len(observed[r]) <= 1
    BY <2>2, <2>3, Zenon
  <2>5. 0 # 1
    OBVIOUS
  <2> QED BY <2>2, <2>4, <2>5, Zenon
<1>2. ObsInv => OneObservation
  BY <1>1 DEF OneObservation
<1> QED BY <1>2, Init_Obs, Next_Obs, PTL DEF Spec

--------------------------------------------------------------------------------
(* What was decided about a request, from Decide to its report *)

\* The decision stands: the reason to skip the comparison and the wish for a shadow are
\* those of the rule for this request, from Decide on.
PolicyAt(c, i, h, g, d, k) ==
  h \in {"call", "read", "write", "finish"} \/ g.status = 200 =>
    /\ k = resolveComparison(Resolve(c.rules, i.key), d)
    /\ d => c.targets > 0 /\ Resolve(c.rules, i.key).shadow # "never"

\* A goroutine runs only for a shadowed request, Handle reports only a request without
\* one, a report is what the metric says of the request as it still stands, and a
\* request that Handle has not answered has no answer.
ReportAt(h, s, g, d, k, e, o) ==
  /\ s # "none" => d
  /\ h = "done" /\ s = "none" /\ g.status = 200 => ~d
  /\ o # <<>> => \E c : o[1] = comparisonMetricResult(k, d, e, c)
  /\ h \in {"idle", "body", "decide", "call", "read", "write"} => g = NoAnswer

PolicyTypes ==
  /\ cfg \in Configs /\ DOMAIN input = Requests /\ DOMAIN skip = Requests
  /\ DOMAIN pres = Requests
  /\ doShadow \in [Requests -> BOOLEAN] /\ serr \in [Requests -> BOOLEAN]

PolicyInv ==
  /\ PolicyTypes
  /\ \A r \in Requests :
       /\ PolicyAt(cfg, input[r], hpc[r], given[r], doShadow[r], skip[r])
       /\ ReportAt(hpc[r], spc[r], given[r], doShadow[r], skip[r], serr[r], observed[r])

\* No other request's decision, place, answer or report is touched.
OthersStand(r) ==
  /\ OthersKeep(r) /\ cfg' = cfg
  /\ \A q \in Requests \ {r} :
       input'[q] = input[q] /\ doShadow'[q] = doShadow[q] /\ skip'[q] = skip[q] /\ serr'[q] = serr[q]

\* It is enough to look at the request that took the step.
LEMMA PolicyStep ==
  ASSUME PolicyInv, PolicyTypes', NEW r \in Requests, OthersStand(r),
         PolicyAt(cfg', input'[r], hpc'[r], given'[r], doShadow'[r], skip'[r]),
         ReportAt(hpc'[r], spc'[r], given'[r], doShadow'[r], skip'[r], serr'[r], observed'[r])
  PROVE  PolicyInv'
<1>1. ASSUME NEW q \in Requests
      PROVE  /\ PolicyAt(cfg', input'[q], hpc'[q], given'[q], doShadow'[q], skip'[q])
             /\ ReportAt(hpc'[q], spc'[q], given'[q], doShadow'[q], skip'[q], serr'[q], observed'[q])
  <2>1. CASE q = r
    BY <2>1
  <2>2. CASE q # r
    <3>1. /\ cfg' = cfg /\ input'[q] = input[q] /\ doShadow'[q] = doShadow[q] /\ skip'[q] = skip[q]
          /\ serr'[q] = serr[q] /\ hpc'[q] = hpc[q] /\ spc'[q] = spc[q] /\ given'[q] = given[q]
          /\ observed'[q] = observed[q]
      BY <2>2 DEF OthersStand, OthersKeep
    <3>2. /\ PolicyAt(cfg, input[q], hpc[q], given[q], doShadow[q], skip[q])
          /\ ReportAt(hpc[q], spc[q], given[q], doShadow[q], skip[q], serr[q], observed[q])
      BY DEF PolicyInv
    <3> QED BY <3>1, <3>2
  <2> QED BY <2>1, <2>2
<1>2. (\A q \in Requests :
         /\ PolicyAt(cfg, input[q], hpc[q], given[q], doShadow[q], skip[q])
         /\ ReportAt(hpc[q], spc[q], given[q], doShadow[q], skip[q], serr[q], observed[q]))'
  BY <1>1
<1> QED BY <1>2 DEF PolicyInv

LEMMA Init_Policy == Init => PolicyInv
<1> SUFFICES ASSUME Init PROVE PolicyInv
  OBVIOUS
<1>1. PolicyTypes
  BY DEF Init, PolicyTypes
<1>2. NoAnswer.status # 200
  BY DEF NoAnswer
<1>3. ASSUME NEW r \in Requests
      PROVE  /\ PolicyAt(cfg, input[r], hpc[r], given[r], doShadow[r], skip[r])
             /\ ReportAt(hpc[r], spc[r], given[r], doShadow[r], skip[r], serr[r], observed[r])
  <2>1. /\ hpc[r] = "idle" /\ given[r] = NoAnswer /\ spc[r] = "none" /\ observed[r] = <<>>
    BY DEF Init
  <2> QED BY <2>1, <1>2 DEF PolicyAt, ReportAt
<1> QED BY <1>1, <1>3 DEF PolicyInv

\* A request is shadowed only where its rule and the targets allow it (shouldShadow).
LEMMA ShadowWanted ==
  ASSUME NEW r \in Requests, NEW rand, shouldShadow(r, rand, TRUE)
  PROVE  cfg.targets > 0 /\ Decision(r).shadow # "never"
<1> DEFINE wants == WantsShadow(cfg.targets, cfg.percent, Decision(r), input[r].forced, rand)
<1>1. wants
  BY DEF shouldShadow
<1> QED BY <1>1 DEF WantsShadow

\* logHTTPResult reports what the metric says.
LEMMA LogResult ==
  ASSUME Domains, NEW r \in Requests, logHTTPResult(r), observed[r] = <<>>
  PROVE  \E c : observed'[r][1] = comparisonMetricResult(skip[r], doShadow[r], serr[r], c)
<1> DEFINE c == Compare(resolvedCompareMode(Decision(r), cfg.mode), pres[r], sres[r], Documents, Threshold)
           x == comparisonMetricResult(skip[r], doShadow[r], serr[r], c)
<1> HIDE DEF c
<1>1. observed' = [observed EXCEPT ![r] = Append(@, x)]
  BY DEF logHTTPResult, c
<1>2. \E y : y = x
  OBVIOUS
<1> HIDE DEF x
<1>3. observed'[r] = Append(<<>>, x)
  BY <1>1 DEF Domains
<1>4. <<>> \in Seq({x}) /\ x \in {x} /\ Len(<<>>) = 0
  OBVIOUS
<1>5. observed'[r][1] = x
  BY <1>3, <1>4
<1> QED BY <1>5 DEF x

LEMMA Next_Policy == ObsInv /\ PolicyInv /\ [Next]_vars => PolicyInv'
<1> SUFFICES ASSUME ObsInv, PolicyInv, [Next]_vars PROVE PolicyInv'
  OBVIOUS
<1>0. /\ Domains /\ PolicyTypes
      /\ \A r \in Requests :
           /\ Stage(hpc[r], spc[r], given[r], observed[r])
           /\ PolicyAt(cfg, input[r], hpc[r], given[r], doShadow[r], skip[r])
           /\ ReportAt(hpc[r], spc[r], given[r], doShadow[r], skip[r], serr[r], observed[r])
  BY DEF ObsInv, PolicyInv
<1>1. CASE UNCHANGED <<cfg, input, hpc, pres, spc, given, doShadow, skip, serr, observed>>
  BY <1>1, <1>0 DEF PolicyInv, PolicyTypes
<1>2. ASSUME NEW r \in Requests, Arrive(r) \/ BodyRead(r) PROVE PolicyInv'
  <2>1. /\ UNCHANGED <<cfg, pres, spc, given, doShadow, skip, serr, observed>>
        /\ hpc[r] \in {"idle", "body"}
        /\ \E h \in {"body", "decide"} : hpc' = [hpc EXCEPT ![r] = h]
        /\ DOMAIN input' = Requests /\ \A q \in Requests \ {r} : input'[q] = input[q]
    <3>1. CASE Arrive(r)
      BY <3>1, <1>0 DEF Arrive, policyVars, shadowVars, PolicyTypes
    <3>2. CASE BodyRead(r)
      BY <3>2, <1>0 DEF BodyRead, clientVars, policyVars, shadowVars, PolicyTypes
    <3> QED BY <1>2, <3>1, <3>2
  <2>2. PolicyTypes' /\ OthersStand(r)
    BY <2>1, <1>0 DEF PolicyTypes, Domains, OthersStand, OthersKeep
  <2>3. hpc'[r] \in {"body", "decide"} /\ given[r].status # 200 /\ given[r] = NoAnswer
    <3>1. hpc'[r] \in {"body", "decide"}
      BY <2>1, <1>0 DEF Domains
    <3>2. given[r].status # 200
      BY <2>1, <1>0 DEF Stage
    <3>3. given[r] = NoAnswer
      BY <2>1, <1>0 DEF ReportAt
    <3> QED BY <3>1, <3>2, <3>3
  <2>4. PolicyAt(cfg', input'[r], hpc'[r], given'[r], doShadow'[r], skip'[r])
    BY <2>1, <2>3 DEF PolicyAt
  <2>5. ReportAt(hpc'[r], spc'[r], given'[r], doShadow'[r], skip'[r], serr'[r], observed'[r])
    BY <2>1, <2>3, <1>0 DEF ReportAt
  <2> QED BY <2>2, <2>4, <2>5, PolicyStep
<1>3. ASSUME NEW r \in Requests, Decide(r) PROVE PolicyInv'
  <2>1. PICK rand \in {0, 50, 99}, allowed \in BOOLEAN :
          /\ shouldShadow(r, rand, allowed)
          /\ doShadow' = [doShadow EXCEPT ![r] = allowed]
          /\ skip' = [skip EXCEPT ![r] = resolveComparison(Decision(r), allowed)]
    BY <1>3 DEF Decide
  <2>2. /\ UNCHANGED <<cfg, input, pres, spc, given, serr, observed>>
        /\ hpc[r] = "decide" /\ hpc' = [hpc EXCEPT ![r] = "call"]
    BY <1>3 DEF Decide, clientVars, shadowVars
  <2>3. PolicyTypes'
    BY <2>1, <2>2, <1>0 DEF PolicyTypes
  <2>4. OthersStand(r)
    BY <2>1, <2>2, <1>0 DEF PolicyTypes, Domains, OthersStand, OthersKeep
  <2>5. /\ hpc'[r] = "call" /\ doShadow'[r] = allowed
        /\ skip'[r] = resolveComparison(Decision(r), allowed)
    BY <2>1, <2>2, <1>0 DEF PolicyTypes, Domains
  <2>6. ASSUME allowed PROVE cfg.targets > 0 /\ Decision(r).shadow # "never"
    <3>1. allowed = TRUE
      BY <2>6
    <3>2. shouldShadow(r, rand, TRUE)
      BY <2>1, <3>1
    <3> QED BY <3>2, ShadowWanted
  <2>7. PolicyAt(cfg', input'[r], hpc'[r], given'[r], doShadow'[r], skip'[r])
    BY <2>2, <2>5, <2>6 DEF PolicyAt, Decision
  <2>8. given[r] = NoAnswer /\ spc[r] = "none" /\ observed[r] = <<>>
    BY <2>2, <1>0 DEF Stage, ReportAt
  <2>9. ReportAt(hpc'[r], spc'[r], given'[r], doShadow'[r], skip'[r], serr'[r], observed'[r])
    BY <2>2, <2>5, <2>8 DEF ReportAt
  <2> QED BY <2>3, <2>4, <2>7, <2>9, PolicyStep
<1>4. ASSUME NEW r \in Requests, PrimaryResponds(r) \/ PrimaryRead(r) \/ PrimaryBreaks(r)
      PROVE  PolicyInv'
  <2>1. /\ UNCHANGED <<cfg, input, spc, given, doShadow, skip, serr, observed>>
        /\ hpc[r] \in {"call", "read"}
        /\ \E h \in {"read", "write"} : hpc' = [hpc EXCEPT ![r] = h]
    BY <1>4 DEF PrimaryResponds, PrimaryRead, PrimaryBreaks, ReadPrimary, clientVars, policyVars, shadowVars
  <2>2. DOMAIN pres' = Requests
    BY <1>4, <1>0 DEF PrimaryResponds, PrimaryRead, PrimaryBreaks, ReadPrimary, PolicyTypes
  <2>3. PolicyTypes' /\ OthersStand(r)
    BY <2>1, <2>2, <1>0 DEF PolicyTypes, Domains, OthersStand, OthersKeep
  <2>4. hpc'[r] \in {"read", "write"}
    BY <2>1, <1>0 DEF Domains
  <2>5. PolicyAt(cfg', input'[r], hpc'[r], given'[r], doShadow'[r], skip'[r])
    BY <2>1, <2>4, <1>0 DEF PolicyAt
  <2>6. ReportAt(hpc'[r], spc'[r], given'[r], doShadow'[r], skip'[r], serr'[r], observed'[r])
    BY <2>1, <2>4, <1>0 DEF ReportAt
  <2> QED BY <2>3, <2>5, <2>6, PolicyStep
<1>5. ASSUME NEW r \in Requests, BodyError(r) \/ BodyTooLarge(r) \/ PrimaryFails(r) PROVE PolicyInv'
  <2>1. PICK status \in {400, 413, 502} : Abort(r, status) /\ hpc[r] \in {"body", "call"}
    BY <1>5 DEF BodyError, BodyTooLarge, PrimaryFails
  <2>2. /\ UNCHANGED <<cfg, input, pres, spc, doShadow, skip, serr, observed>>
        /\ hpc' = [hpc EXCEPT ![r] = "done"]
        /\ given' = [given EXCEPT ![r] = [status |-> status, body |-> <<>>]]
    BY <2>1 DEF Abort, policyVars, shadowVars
  <2>3. PolicyTypes' /\ OthersStand(r)
    BY <2>2, <1>0 DEF PolicyTypes, Domains, OthersStand, OthersKeep
  <2>4. hpc'[r] = "done" /\ given'[r].status # 200
    BY <2>2, <1>0 DEF Domains
  <2>5. PolicyAt(cfg', input'[r], hpc'[r], given'[r], doShadow'[r], skip'[r])
    BY <2>4 DEF PolicyAt
  <2>6. ReportAt(hpc'[r], spc'[r], given'[r], doShadow'[r], skip'[r], serr'[r], observed'[r])
    BY <2>2, <2>4, <1>0 DEF ReportAt
  <2> QED BY <2>3, <2>5, <2>6, PolicyStep
<1>6. ASSUME NEW r \in Requests, writePrimaryResponse(r) PROVE PolicyInv'
  <2>1. /\ UNCHANGED <<cfg, input, pres, spc, doShadow, skip, serr, observed>>
        /\ hpc[r] = "write" /\ hpc' = [hpc EXCEPT ![r] = "finish"]
        /\ \E g : given' = [given EXCEPT ![r] = g]
    BY <1>6 DEF writePrimaryResponse, policyVars, shadowVars
  <2>2. PolicyTypes' /\ OthersStand(r)
    BY <2>1, <1>0 DEF PolicyTypes, Domains, OthersStand, OthersKeep
  <2>3. hpc'[r] = "finish"
    BY <2>1, <1>0 DEF Domains
  <2>4. PolicyAt(cfg', input'[r], hpc'[r], given'[r], doShadow'[r], skip'[r])
    BY <2>1, <2>3, <1>0 DEF PolicyAt
  <2>5. ReportAt(hpc'[r], spc'[r], given'[r], doShadow'[r], skip'[r], serr'[r], observed'[r])
    BY <2>1, <2>3, <1>0 DEF ReportAt
  <2> QED BY <2>2, <2>4, <2>5, PolicyStep
<1>7. ASSUME NEW r \in Requests, FinishPrimaryOnly(r) PROVE PolicyInv'
  <2>1. /\ UNCHANGED <<cfg, input, spc, given, doShadow, skip, serr>>
        /\ hpc[r] = "finish" /\ hpc' = [hpc EXCEPT ![r] = "done"] /\ ~doShadow[r] /\ logHTTPResult(r)
    BY <1>7 DEF FinishPrimaryOnly, clientVars, policyVars
  <2>2. spc[r] = "none" /\ observed[r] = <<>> /\ hpc'[r] = "done"
    BY <2>1, <1>0 DEF Stage, Domains
  <2>3. DOMAIN pres' = Requests
    BY <2>1, <1>0 DEF logHTTPResult, PolicyTypes
  <2>4. PolicyTypes' /\ OthersStand(r)
    BY <2>1, <2>2, <2>3, <1>0, LogOnce DEF PolicyTypes, Domains, OthersStand, OthersKeep
  <2>5. PolicyAt(cfg', input'[r], hpc'[r], given'[r], doShadow'[r], skip'[r])
    BY <2>1, <2>2, <1>0 DEF PolicyAt
  <2>6. \E c : observed'[r][1] = comparisonMetricResult(skip'[r], doShadow'[r], serr'[r], c)
    BY <2>1, <2>2, <1>0, LogResult
  <2>7. ReportAt(hpc'[r], spc'[r], given'[r], doShadow'[r], skip'[r], serr'[r], observed'[r])
    BY <2>1, <2>2, <2>6, <1>0 DEF ReportAt
  <2> QED BY <2>4, <2>5, <2>7, PolicyStep
<1>8. ASSUME NEW r \in Requests, StartShadow(r) PROVE PolicyInv'
  <2>1. /\ UNCHANGED <<cfg, input, pres, given, doShadow, skip, serr, observed>>
        /\ hpc[r] = "finish" /\ hpc' = [hpc EXCEPT ![r] = "done"] /\ doShadow[r]
        /\ spc' = [spc EXCEPT ![r] = "call"]
    BY <1>8 DEF StartShadow, clientVars, policyVars
  <2>2. PolicyTypes' /\ OthersStand(r)
    BY <2>1, <1>0 DEF PolicyTypes, Domains, OthersStand, OthersKeep
  <2>3. hpc'[r] = "done" /\ spc'[r] = "call"
    BY <2>1, <1>0 DEF Domains
  <2>4. PolicyAt(cfg', input'[r], hpc'[r], given'[r], doShadow'[r], skip'[r])
    BY <2>1, <2>3, <1>0 DEF PolicyAt
  <2>5. ReportAt(hpc'[r], spc'[r], given'[r], doShadow'[r], skip'[r], serr'[r], observed'[r])
    BY <2>1, <2>3, <1>0 DEF ReportAt
  <2> QED BY <2>2, <2>4, <2>5, PolicyStep
<1>9. ASSUME NEW r \in Requests, ShadowFails(r) \/ ShadowResponds(r) \/ ShadowRead(r) \/ ShadowBreaks(r)
      PROVE  PolicyInv'
  <2>1. /\ UNCHANGED <<cfg, input, hpc, pres, given, doShadow, skip, observed>>
        /\ spc[r] \in {"call", "read"}
        /\ \E s \in {"read", "log"} : spc' = [spc EXCEPT ![r] = s]
    BY <1>9 DEF ShadowFails, ShadowResponds, ShadowRead, ShadowBreaks, ReadShadow, clientVars,
         primaryVars, policyVars
  <2>2. serr' = serr \/ serr' = [serr EXCEPT ![r] = TRUE]
    BY <1>9 DEF ShadowFails, ShadowResponds, ShadowRead, ShadowBreaks, ReadShadow
  <2>3. serr' \in [Requests -> BOOLEAN] /\ \A q \in Requests \ {r} : serr'[q] = serr[q]
    BY <2>2, <1>0 DEF PolicyTypes
  <2>4. PolicyTypes' /\ OthersStand(r)
    BY <2>1, <2>3, <1>0 DEF PolicyTypes, Domains, OthersStand, OthersKeep
  <2>5. spc'[r] # "none" /\ spc[r] # "none" /\ observed[r] = <<>>
    BY <2>1, <1>0 DEF Domains, Stage
  <2>6. PolicyAt(cfg', input'[r], hpc'[r], given'[r], doShadow'[r], skip'[r])
    BY <2>1, <1>0 DEF PolicyAt
  <2>7. ReportAt(hpc'[r], spc'[r], given'[r], doShadow'[r], skip'[r], serr'[r], observed'[r])
    BY <2>1, <2>5, <1>0 DEF ReportAt
  <2> QED BY <2>4, <2>6, <2>7, PolicyStep
<1>10. ASSUME NEW r \in Requests, ShadowLogs(r) PROVE PolicyInv'
  <2>1. /\ UNCHANGED <<cfg, input, hpc, given, doShadow, skip, serr>>
        /\ spc[r] = "log" /\ spc' = [spc EXCEPT ![r] = "done"] /\ logHTTPResult(r)
    BY <1>10 DEF ShadowLogs, clientVars, policyVars
  <2>2. observed[r] = <<>> /\ spc'[r] = "done"
    BY <2>1, <1>0 DEF Stage, Domains
  <2>3. DOMAIN pres' = Requests
    BY <2>1, <1>0 DEF logHTTPResult, PolicyTypes
  <2>4. PolicyTypes' /\ OthersStand(r)
    BY <2>1, <2>2, <2>3, <1>0, LogOnce DEF PolicyTypes, Domains, OthersStand, OthersKeep
  <2>5. PolicyAt(cfg', input'[r], hpc'[r], given'[r], doShadow'[r], skip'[r])
    BY <2>1, <1>0 DEF PolicyAt
  <2>6. \E c : observed'[r][1] = comparisonMetricResult(skip'[r], doShadow'[r], serr'[r], c)
    BY <2>1, <2>2, <1>0, LogResult
  <2>7. ReportAt(hpc'[r], spc'[r], given'[r], doShadow'[r], skip'[r], serr'[r], observed'[r])
    BY <2>1, <2>2, <2>6, <1>0 DEF ReportAt
  <2> QED BY <2>4, <2>5, <2>7, PolicyStep
<1>11. CASE UNCHANGED vars \/ Ended \/ Tick \/ \E r \in Requests : ClientGone(r)
  BY <1>11, <1>1 DEF vars, Ended, Tick, ClientGone, clientVars, primaryVars, policyVars, shadowVars
<1> QED BY <1>2, <1>3, <1>4, <1>5, <1>6, <1>7, <1>8, <1>9, <1>10, <1>11
        DEF Next, BodyStep, HandleStep, ShadowStep

\* The first rule that matches, as Resolve takes it, is one that no earlier rule precedes.
LEMMA FirstRule ==
  ASSUME cfg \in Configs, NEW key, Matching(cfg.rules, key) # {}
  PROVE  Decides(Min(Matching(cfg.rules, key)), key)
<1> DEFINE hits == Matching(cfg.rules, key)
           least == Min(hits)
<1>1. hits \in SUBSET Nat /\ hits # {} /\ hits \subseteq 1..Len(cfg.rules) /\ Len(cfg.rules) \in Nat
  BY RulesAssumption DEF Matching
<1>2. \E i \in hits : \A j \in hits : ~(<<j, i>> \in OpToRel(<, Nat))
  <2> HIDE DEF hits
  <2> QED BY <1>1, NatLessThanWellFounded, WFMin, Zenon
<1>3. PICK i \in hits : \A j \in hits : ~(<<j, i>> \in OpToRel(<, Nat))
  BY <1>2
<1>4. \A j \in hits : i <= j
  <2> HIDE DEF hits
  <2> SUFFICES ASSUME NEW j \in hits PROVE i <= j
    OBVIOUS
  <2>1. i \in Nat /\ j \in Nat
    BY <1>1
  <2>2. ~(j < i)
    BY <1>3, <2>1 DEF OpToRel
  <2> QED BY <2>1, <2>2
<1>5. least \in hits /\ \A j \in hits : least <= j
  <2> HIDE DEF hits
  <2> QED BY <1>4 DEF Min
<1> HIDE DEF least
<1>6. ASSUME NEW j \in 1..(least - 1) PROVE key \notin cfg.rules[j].matches
  <2>1. least \in 1..Len(cfg.rules)
    BY <1>1, <1>5
  <2>2. j \in DOMAIN cfg.rules /\ ~(least <= j)
    BY <2>1, <1>1, RulesAssumption
  <2> QED BY <2>2, <1>5 DEF Matching
<1>7. least \in DOMAIN cfg.rules /\ key \in cfg.rules[least].matches
  BY <1>5 DEF Matching
<1> QED BY <1>6, <1>7 DEF Decides, least

\* A request that reaches the shadow was answered by the primary, has a target, and is
\* not excluded by the first rule that matches, for any number of requests and any
\* rules, forced or not (shouldShadow, Resolve).
THEOREM ShadowAllowedCorrect == Spec => []ShadowAllowed
<1>1. ASSUME ObsInv, PolicyInv, NEW r \in Requests, spc[r] # "none"
      PROVE  /\ given[r].status = 200 /\ cfg.targets > 0
             /\ \/ cfg.rules = <<>>
                \/ \E i \in DOMAIN cfg.rules : Decides(i, input[r].key) /\ cfg.rules[i].shadow # "never"
  <2> DEFINE key == input[r].key
  <2>1. /\ Stage(hpc[r], spc[r], given[r], observed[r]) /\ cfg \in Configs
        /\ PolicyAt(cfg, input[r], hpc[r], given[r], doShadow[r], skip[r])
        /\ ReportAt(hpc[r], spc[r], given[r], doShadow[r], skip[r], serr[r], observed[r])
    BY <1>1 DEF ObsInv, PolicyInv, PolicyTypes
  <2>2. given[r].status = 200
    BY <1>1, <2>1 DEF Stage
  <2>3. doShadow[r]
    BY <1>1, <2>1 DEF ReportAt
  <2>4. cfg.targets > 0 /\ Resolve(cfg.rules, key).shadow # "never"
    BY <2>1, <2>2, <2>3 DEF PolicyAt
  <2>5. CASE cfg.rules = <<>>
    BY <2>2, <2>4, <2>5
  <2>6. CASE cfg.rules # <<>> /\ Matching(cfg.rules, key) = {}
    <3>1. Resolve(cfg.rules, key) = Unmatched
      BY <2>6 DEF Resolve
    <3>2. Unmatched.shadow = "never"
      BY DEF Unmatched
    <3>3. FALSE
      BY <3>1, <3>2, <2>4
    <3> QED BY <3>3
  <2>7. CASE cfg.rules # <<>> /\ Matching(cfg.rules, key) # {}
    <3> DEFINE i == Min(Matching(cfg.rules, key))
    <3>1. Resolve(cfg.rules, key) = RuleDecision(cfg.rules[i])
      BY <2>7 DEF Resolve
    <3>2. Decides(i, key) /\ i \in DOMAIN cfg.rules
      BY <2>1, <2>7, FirstRule DEF Decides
    <3> HIDE DEF i
    <3>3. RuleDecision(cfg.rules[i]).shadow = cfg.rules[i].shadow
      BY DEF RuleDecision
    <3>4. cfg.rules[i].shadow # "never"
      BY <3>1, <3>3, <2>4
    <3> QED BY <2>2, <2>4, <3>2, <3>4
  <2> QED BY <2>5, <2>6, <2>7
<1>2. ObsInv /\ PolicyInv => ShadowAllowed
  BY <1>1 DEF ShadowAllowed
<1> QED BY <1>2, Init_Obs, Next_Obs, Init_Policy, Next_Policy, PTL DEF Spec

\* The reason to skip is empty only for a shadowed request whose rule compares; a rule
\* without comparison has a reason of its own, which outranks a shadow error.
LEMMA SkipReason ==
  ASSUME NEW rules, NEW key, NEW d \in BOOLEAN
  PROVE  LET decision == Resolve(rules, key)
             k == resolveComparison(decision, d)
         IN  /\ d /\ decision.compare # "off" => k = ""
             /\ decision.compare = "off" => k \in {"path_rule", "path_unmatched"}
             /\ ~d => k # ""
<1> DEFINE decision == Resolve(rules, key)
<1>1. decision.compare = "off" => decision.compareSkip \in {"path_rule", "path_unmatched"}
  <2>1. CASE rules = <<>>
    BY <2>1 DEF Resolve, Inherit
  <2>2. CASE rules # <<>> /\ Matching(rules, key) # {}
    <3> DEFINE rule == rules[Min(Matching(rules, key))]
    <3>1. decision = RuleDecision(rule)
      BY <2>2 DEF Resolve
    <3> HIDE DEF rule, decision
    <3> QED BY <3>1 DEF RuleDecision
  <2>3. CASE rules # <<>> /\ Matching(rules, key) = {}
    BY <2>3 DEF Resolve, Unmatched
  <2> QED BY <2>1, <2>2, <2>3
<1> HIDE DEF decision
<1>2. /\ d /\ decision.compare # "off" => resolveComparison(decision, d) = ""
      /\ decision.compare = "off" => resolveComparison(decision, d) \in {"path_rule", "path_unmatched"}
      /\ ~d => resolveComparison(decision, d) # ""
  BY <1>1 DEF resolveComparison
<1> QED BY <1>2 DEF decision

\* What the metric says: "skipped" exactly where nothing is compared, an error for a
\* shadow that failed (comparisonMetricResult).
LEMMA MetricSound ==
  ASSUME NEW rules, NEW key, NEW d \in BOOLEAN, NEW e \in BOOLEAN, NEW c
  PROVE  LET compared == d /\ Resolve(rules, key).compare # "off"
             x == comparisonMetricResult(resolveComparison(Resolve(rules, key), d), d, e, c)
         IN  /\ x \in {"same", "diff"} => compared /\ ~e
             /\ x = "skipped" <=> ~compared
             /\ compared /\ e => x = "error"
<1> DEFINE k == resolveComparison(Resolve(rules, key), d)
           off == Resolve(rules, key).compare = "off"
           x == comparisonMetricResult(k, d, e, c)
<1>1. /\ d /\ ~off => k = ""
      /\ off => k \in {"path_rule", "path_unmatched"}
      /\ ~d => k # ""
  BY SkipReason
<1> HIDE DEF k, off
<1>2. CASE off
  <2>1. x = "skipped"
    BY <1>1, <1>2 DEF comparisonMetricResult
  <2> QED BY <2>1, <1>2 DEF k, off
<1>3. CASE ~off /\ ~d
  <2>1. x = "skipped"
    BY <1>1, <1>3 DEF comparisonMetricResult
  <2> QED BY <2>1, <1>3 DEF k, off
<1>4. CASE ~off /\ d /\ e
  <2>1. x = "error"
    BY <1>1, <1>4 DEF comparisonMetricResult
  <2> QED BY <2>1, <1>4 DEF k, off
<1>5. CASE ~off /\ d /\ ~e
  <2>1. x # "skipped"
    BY <1>1, <1>5 DEF comparisonMetricResult
  <2> QED BY <2>1, <1>5 DEF k, off
<1> QED BY <1>2, <1>3, <1>4, <1>5

\* A comparison is reported only for a shadow that answered under a rule that compares,
\* and every other report says why there is none: for any rules, responses and
\* interleaving of requests (resolveComparison, logHTTPResult, comparisonMetricResult).
THEOREM ObservationSoundCorrect == Spec => []ObservationSound
<1>1. ASSUME ObsInv, PolicyInv, NEW r \in Requests, observed[r] # <<>>
      PROVE  LET compared == doShadow[r] /\ Decision(r).compare # "off"
             IN  /\ observed[r][1] \in {"same", "diff"} => compared /\ ~serr[r] /\ spc[r] = "done"
                 /\ observed[r][1] = "skipped" <=> ~compared
                 /\ compared /\ serr[r] => observed[r][1] = "error"
  <2>1. /\ Stage(hpc[r], spc[r], given[r], observed[r])
        /\ PolicyAt(cfg, input[r], hpc[r], given[r], doShadow[r], skip[r])
        /\ ReportAt(hpc[r], spc[r], given[r], doShadow[r], skip[r], serr[r], observed[r])
        /\ doShadow[r] \in BOOLEAN /\ serr[r] \in BOOLEAN
    BY <1>1 DEF ObsInv, PolicyInv, PolicyTypes
  <2>2. hpc[r] = "done" /\ spc[r] \in {"none", "done"} /\ given[r].status = 200
    BY <1>1, <2>1 DEF Stage
  <2>3. doShadow[r] => spc[r] = "done"
    BY <2>1, <2>2 DEF ReportAt
  <2>4. skip[r] = resolveComparison(Decision(r), doShadow[r])
    BY <2>1, <2>2 DEF PolicyAt, Decision
  <2>5. PICK c : observed[r][1] = comparisonMetricResult(skip[r], doShadow[r], serr[r], c)
    BY <1>1, <2>1 DEF ReportAt
  <2> DEFINE compared == doShadow[r] /\ Decision(r).compare # "off"
  <2>6. LET x == comparisonMetricResult(resolveComparison(Decision(r), doShadow[r]), doShadow[r], serr[r], c)
        IN  /\ x \in {"same", "diff"} => compared /\ ~serr[r]
            /\ x = "skipped" <=> ~compared
            /\ compared /\ serr[r] => x = "error"
    BY <2>1, MetricSound DEF Decision
  <2>7. /\ observed[r][1] \in {"same", "diff"} => compared /\ ~serr[r]
        /\ observed[r][1] = "skipped" <=> ~compared
        /\ compared /\ serr[r] => observed[r][1] = "error"
    BY <2>4, <2>5, <2>6, Zenon
  <2> QED BY <2>3, <2>7
<1>2. ObsInv /\ PolicyInv => ObservationSound
  BY <1>1 DEF ObservationSound
<1> QED BY <1>2, Init_Obs, Next_Obs, Init_Policy, Next_Policy, PTL DEF Spec

--------------------------------------------------------------------------------
(* The proxy without a shadow *)

\* What the client may see changes only for the request that takes the step.
LEMMA ServedStep ==
  ASSUME NEW r \in Requests, NEW x,
         \A q \in Requests \ {r} : hpc'[q] = hpc[q] /\ pres'[q] = pres[q] /\ given'[q] = given[q],
         Served(r)' = x
  PROVE  [q \in Requests |-> Served(q)]' = [[q \in Requests |-> Served(q)] EXCEPT ![r] = x]
<1>1. ASSUME NEW q \in Requests \ {r} PROVE Served(q)' = Served(q)
  BY <1>1 DEF Served
<1>2. [q \in Requests |-> Served(q)]' = [q \in Requests |-> Served(q)']
  OBVIOUS
<1> QED BY <1>1, <1>2

LEMMA Init_Plain == Init => Plain!Init
<1> SUFFICES ASSUME Init PROVE Plain!Init
  OBVIOUS
<1>1. ASSUME NEW r \in Requests PROVE Served(r) = <<>>
  <2>1. hpc[r] = "idle" /\ given[r] = NoAnswer
    BY DEF Init
  <2>2. NoAnswer.status # 200
    BY DEF NoAnswer
  <2> QED BY <2>1, <2>2 DEF Served
<1> QED BY <1>1 DEF Init, Plain!Init

\* A step that leaves the answers alone and neither reads the primary's body nor
\* leaves "write" shows nothing to the client.
LEMMA Unseen ==
  ASSUME given' = given, NEW r \in Requests,
         \A q \in Requests \ {r} : hpc'[q] = hpc[q] /\ pres'[q] = pres[q],
         \/ hpc[r] # "write" /\ hpc'[r] # "write"
         \/ hpc'[r] = hpc[r] /\ pres'[r] = pres[r]
  PROVE  UNCHANGED Plain!vars
<1>1. ASSUME NEW q \in Requests PROVE Served(q)' = Served(q)
  <2>1. CASE q # r
    BY <2>1 DEF Served
  <2>2. CASE q = r
    BY <2>2 DEF Served
  <2> QED BY <2>1, <2>2
<1> QED BY <1>1 DEF Plain!vars

\* A step of the proxy is one of the plain proxy or shows nothing.
LEMMA StepPlain == ObsInv /\ PolicyInv /\ [Next]_vars => [Plain!Next]_Plain!vars
<1> SUFFICES ASSUME ObsInv, PolicyInv, [Next]_vars PROVE [Plain!Next]_Plain!vars
  OBVIOUS
<1>0. /\ Domains /\ DOMAIN pres = Requests
      /\ \A r \in Requests :
           /\ Stage(hpc[r], spc[r], given[r], observed[r])
           /\ hpc[r] \in {"idle", "body", "decide", "call", "read", "write"} => given[r] = NoAnswer
  BY DEF ObsInv, PolicyInv, PolicyTypes, ReportAt
<1> DEFINE served == [q \in Requests |-> Served(q)]
<1>1. CASE UNCHANGED <<hpc, pres, given>>
  BY <1>1 DEF Plain!vars, Served
<1>2. ASSUME NEW r \in Requests, Arrive(r) \/ BodyRead(r) \/ Decide(r) \/ PrimaryResponds(r)
      PROVE  UNCHANGED Plain!vars
  <2>1. /\ given' = given /\ pres' = pres /\ hpc[r] # "write"
        /\ \E h \in {"body", "decide", "call", "read"} : hpc' = [hpc EXCEPT ![r] = h]
    BY <1>2 DEF Arrive, BodyRead, Decide, PrimaryResponds, clientVars
  <2>2. hpc'[r] # "write" /\ \A q \in Requests \ {r} : hpc'[q] = hpc[q] /\ pres'[q] = pres[q]
    BY <2>1, <1>0 DEF Domains
  <2> QED BY <2>1, <2>2, Unseen
<1>3. ASSUME NEW r \in Requests, PrimaryRead(r) \/ PrimaryBreaks(r) PROVE Plain!Next
  <2>1. PICK resp \in ReadWhole \cup ReadParts : ReadPrimary(r, resp)
    BY <1>3 DEF PrimaryRead, PrimaryBreaks
  <2>2. /\ given' = given /\ hpc[r] = "read" /\ hpc' = [hpc EXCEPT ![r] = "write"]
        /\ pres' = [pres EXCEPT ![r] = resp]
    BY <2>1 DEF ReadPrimary, clientVars
  <2>3. resp.body \in Bodies
    BY DEF Bodies, Read
  <2>4. given[r].status # 200 /\ given[r] = NoAnswer
    BY <2>2, <1>0 DEF Stage
  <2>5. Served(r) = <<>>
    BY <2>2, <2>4 DEF Served
  <2>6. Served(r)' = <<resp.body>>
    BY <2>2, <1>0 DEF Served, Domains
  <2>7. \A q \in Requests \ {r} : hpc'[q] = hpc[q] /\ pres'[q] = pres[q] /\ given'[q] = given[q]
    BY <2>2, <1>0 DEF Domains
  <2>8. served' = [served EXCEPT ![r] = <<resp.body>>]
    BY <2>6, <2>7, ServedStep
  <2>9. Plain!Serve(r)
    BY <2>2, <2>3, <2>4, <2>5, <2>8 DEF Plain!Serve
  <2> QED BY <2>9 DEF Plain!Next
<1>4. ASSUME NEW r \in Requests, BodyError(r) \/ BodyTooLarge(r) \/ PrimaryFails(r) PROVE Plain!Next
  <2>1. PICK status \in {400, 413, 502} : Abort(r, status) /\ hpc[r] \in {"body", "call"}
    BY <1>4 DEF BodyError, BodyTooLarge, PrimaryFails
  <2>2. /\ pres' = pres /\ hpc' = [hpc EXCEPT ![r] = "done"]
        /\ given' = [given EXCEPT ![r] = [status |-> status, body |-> <<>>]]
    BY <2>1 DEF Abort
  <2>3. given[r].status # 200 /\ given[r] = NoAnswer
    BY <2>1, <1>0 DEF Stage
  <2>4. hpc'[r] = "done" /\ given'[r].status # 200
    BY <2>2, <1>0 DEF Domains
  <2>5. Served(r) = <<>> /\ Served(r)' = <<>>
    BY <2>1, <2>3, <2>4 DEF Served
  <2>6. ASSUME NEW q \in Requests PROVE Served(q)' = Served(q)
    BY <2>2, <2>5, <1>0 DEF Domains, Served
  <2>7. served' = served
    BY <2>6
  <2>8. Plain!Fail(r)
    <3>1. served[r] = <<>>
      BY <2>5
    <3>2. \E e \in {400, 413, 502} : given' = [given EXCEPT ![r] = [status |-> e, body |-> <<>>]]
      <4> DEFINE Gives(e) == given' = [given EXCEPT ![r] = [status |-> e, body |-> <<>>]]
      <4>1. Gives(status)
        BY <2>2
      <4> HIDE DEF Gives
      <4>2. \E e \in {400, 413, 502} : Gives(e)
        BY <4>1
      <4> QED BY <4>2 DEF Gives
    <3>3. UNCHANGED [q \in Requests |-> Served(q)]
      BY <2>7
    <3>4. given[r] = NoAnswer
      BY <2>3
    <3> QED BY ONLY <3>1, <3>2, <3>3, <3>4, ZenonT(30) DEF Plain!Fail
  <2> QED BY <2>8 DEF Plain!Next
<1>5. ASSUME NEW r \in Requests, writePrimaryResponse(r) PROVE Plain!Next
  <2> DEFINE b == pres[r].body
  <2>1. /\ pres' = pres /\ hpc[r] = "write" /\ hpc' = [hpc EXCEPT ![r] = "finish"]
        /\ given' = [given EXCEPT ![r] = [status |-> 200, body |-> b]]
    BY <1>5 DEF writePrimaryResponse
  <2>2. given[r] = NoAnswer /\ Served(r) = <<b>>
    BY <2>1, <1>0 DEF Served
  <2>3. hpc'[r] = "finish" /\ given'[r] = [status |-> 200, body |-> b]
    BY <2>1, <1>0 DEF Domains
  <2> HIDE DEF b
  <2>4. Served(r)' = <<b>>
    BY <2>3 DEF Served
  <2>5. ASSUME NEW q \in Requests PROVE Served(q)' = Served(q)
    BY <2>1, <2>2, <2>4, <1>0 DEF Domains, Served
  <2>6. served' = served
    BY <2>5
  <2>7. served[r] = <<b>> /\ served[r][1] = b /\ served[r] # <<>>
    BY <2>2
  <2>8. Plain!Relay(r)
    BY <2>1, <2>2, <2>6, <2>7 DEF Plain!Relay
  <2> QED BY <2>8 DEF Plain!Next
<1>6. ASSUME NEW r \in Requests, FinishPrimaryOnly(r) \/ StartShadow(r) \/ ShadowLogs(r)
      PROVE  UNCHANGED Plain!vars
  <2>1. given' = given /\ hpc[r] \in {"finish", "done"}
    BY <1>6, <1>0 DEF FinishPrimaryOnly, StartShadow, ShadowLogs, clientVars, Stage
  <2>2. \A q \in Requests \ {r} : pres'[q] = pres[q]
    BY <1>6, <1>0 DEF FinishPrimaryOnly, StartShadow, ShadowLogs, logHTTPResult
  <2>3. hpc'[r] # "write" /\ \A q \in Requests \ {r} : hpc'[q] = hpc[q]
    BY <1>6, <2>1, <1>0 DEF FinishPrimaryOnly, StartShadow, ShadowLogs, Domains
  <2> QED BY <2>1, <2>2, <2>3, Unseen
<1>7. CASE \/ UNCHANGED vars \/ Ended \/ Tick
           \/ \E r \in Requests : \/ ClientGone(r) \/ ShadowFails(r) \/ ShadowResponds(r)
                                  \/ ShadowRead(r) \/ ShadowBreaks(r)
  BY <1>7, <1>1 DEF vars, Ended, Tick, ClientGone, ShadowFails, ShadowResponds, ShadowRead,
       ShadowBreaks, ReadShadow, clientVars, primaryVars
<1> QED BY <1>2, <1>3, <1>4, <1>5, <1>6, <1>7 DEF Next, BodyStep, HandleStep, ShadowStep

\* To its clients the proxy is one without a shadow, whatever the shadow, the limiter
\* and the rules do, for any number of requests and any responses (Handle).
THEOREM PlainCorrect == Spec => ImplementsPlain
<1> QED
  BY Init_Obs, Next_Obs, Init_Policy, Next_Policy, Init_Plain, StepPlain, PTL
     DEF Spec, ImplementsPlain, Plain!Spec
================================================================================
