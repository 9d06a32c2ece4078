------------------------------- MODULE HttpProxy -------------------------------
(***************************************************************************)
(* HTTP requests through proxy.Handler: Handle reads the body, decides on  *)
(* the shadow, calls the primary and answers the client; runShadowAndLog   *)
(* then calls the shadow in a goroutine whose context is detached from the *)
(* client's.  All requests share the rate limiter.                         *)
(*                                                                         *)
(* With HTTPAdapter neither NewSession nor Send fails and no path mapper   *)
(* returns an error, so their error branches (503, 500, "shadow not        *)
(* started") are not reachable and have no action.                         *)
(***************************************************************************)
EXTENDS TokenBucket, HttpPolicy

CONSTANTS
  Requests,    \* client requests
  Sizes,       \* request body sizes
  Responses,   \* what a backend may answer: [header, body]
  Documents,   \* response bodies that are JSON documents
  Threshold,   \* compare_html_threshold, in percent
  MaxBody,     \* max_backend_body_bytes (0: no limit)
  Configs      \* [rules, targets, percent, mode, traffic]: path_rules, number of
               \* shadow targets, shadow_sample_percent, compare_mode, and the
               \* methods and paths that clients ask for

\* path_rules is a list.
ASSUME RulesAssumption ==
  \A c \in Configs : Len(c.rules) \in Nat /\ DOMAIN c.rules = 1..Len(c.rules)

VARIABLES
  cfg,         \* the configuration the process runs with
  input,       \* per request: [key, forced]
  gone,        \* requests whose client has disconnected
  hpc,         \* where Handle is
  pres,        \* what Handle has read of the primary's response
  given,       \* what the client was given: [status, body]
  doShadow,    \* shadowDecision.doShadow
  skip,        \* comparisonDecision.skipReason ("": enabled)
  spc,         \* where runShadowAndLog is
  sres,        \* what runShadowAndLog has read of the shadow's response
  serr,        \* payload.shadowErr is set
  observed     \* per request: the comparison results reported

clientVars  == <<input, gone, given>>
primaryVars == <<hpc, pres>>
policyVars  == <<doShadow, skip>>
shadowVars  == <<spc, sres, serr>>
vars == <<bucketVars, cfg, clientVars, primaryVars, policyVars, shadowVars, observed>>

NoInput    == [key |-> "", forced |-> FALSE]
NoAnswer   == [status |-> 0, body |-> <<>>]
NoResponse == [header |-> "", body |-> <<>>]
Decision(r) == Resolve(cfg.rules, input[r].key)

--------------------------------------------------------------------------------
(* Handle *)

Arrive(r) ==
  /\ hpc[r] = "idle" /\ hpc' = [hpc EXCEPT ![r] = "body"]
  /\ \E key \in cfg.traffic, forced \in BOOLEAN : input' = [input EXCEPT ![r] = [key |-> key, forced |-> forced]]
  /\ UNCHANGED <<bucketVars, cfg, gone, given, pres, policyVars, shadowVars, observed>>

\* The client disconnects while Handle waits for it or for the primary, and the
\* request's context ends; elsewhere nobody looks at it.
ClientGone(r) ==
  /\ hpc[r] \in {"body", "call", "read", "write"} /\ r \notin gone
  /\ gone' = gone \cup {r}
  /\ UNCHANGED <<bucketVars, cfg, input, given, primaryVars, policyVars, shadowVars, observed>>

\* AbortWithStatus and return.
Abort(r, status) ==
  /\ given' = [given EXCEPT ![r] = [status |-> status, body |-> <<>>]]
  /\ hpc' = [hpc EXCEPT ![r] = "done"]
  /\ UNCHANGED <<bucketVars, cfg, input, gone, pres, policyVars, shadowVars, observed>>

\* Mutant: the request goes on after the error status was set.
BodyErrorGoesOn(r) ==
  /\ hpc[r] = "body"
  /\ given' = [given EXCEPT ![r] = [status |-> 400, body |-> <<>>]]
  /\ hpc' = [hpc EXCEPT ![r] = "decide"]
  /\ UNCHANGED <<bucketVars, cfg, input, gone, pres, policyVars, shadowVars, observed>>

\* readRequestBody
TooLarge(size) == MaxBody > 0 /\ size > MaxBody
BodyError(r) == hpc[r] = "body" /\ Abort(r, 400)
BodyTooLarge(r) == hpc[r] = "body" /\ (\E size \in Sizes : TooLarge(size)) /\ Abort(r, 413)
BodyRead(r) ==
  /\ hpc[r] = "body" /\ (\E size \in Sizes : ~TooLarge(size)) /\ hpc' = [hpc EXCEPT ![r] = "decide"]
  /\ UNCHANGED <<bucketVars, cfg, clientVars, pres, policyVars, shadowVars, observed>>

\* Mutant: the force header is looked at first.
ForceFirst(r, rand, allowed) ==
  \/ input[r].forced /\ allowed /\ UNCHANGED bucketVars
  \/ ~input[r].forced /\ WantsShadow(cfg.targets, cfg.percent, Decision(r), FALSE, rand) /\ Allow(allowed)
  \/ /\ ~input[r].forced /\ ~WantsShadow(cfg.targets, cfg.percent, Decision(r), FALSE, rand)
     /\ ~allowed /\ UNCHANGED bucketVars

\* shouldShadow: forced requests are not charged to the limiter.
shouldShadow(r, rand, allowed) ==
  LET wants == WantsShadow(cfg.targets, cfg.percent, Decision(r), input[r].forced, rand)
  IN  \/ ~wants /\ ~allowed /\ UNCHANGED bucketVars
      \/ wants /\ input[r].forced /\ allowed /\ UNCHANGED bucketVars
      \/ wants /\ ~input[r].forced /\ Allow(allowed)

\* shouldShadow and resolveComparison; the primary is called next.
Decide(r) ==
  /\ hpc[r] = "decide" /\ hpc' = [hpc EXCEPT ![r] = "call"]
  /\ \E rand \in {0, 50, 99}, allowed \in BOOLEAN :
       /\ shouldShadow(r, rand, allowed)
       /\ doShadow' = [doShadow EXCEPT ![r] = allowed]
       /\ skip' = [skip EXCEPT ![r] = resolveComparison(Decision(r), allowed)]
  /\ UNCHANGED <<cfg, clientVars, pres, shadowVars, observed>>

\* callPrimary: Requester.Do ends with an error, or with a response whose body is
\* still to be read.
PrimaryFails(r) == hpc[r] = "call" /\ Abort(r, 502)
PrimaryResponds(r) ==
  /\ hpc[r] = "call" /\ hpc' = [hpc EXCEPT ![r] = "read"]
  /\ UNCHANGED <<bucketVars, cfg, clientVars, pres, policyVars, shadowVars, observed>>

\* readResponseBody: at most MaxBody bytes are read.
Cut(body) == IF MaxBody > 0 /\ Len(body) > MaxBody THEN SubSeq(body, 1, MaxBody) ELSE body
ReadWhole == {[resp EXCEPT !.body = Cut(@)] : resp \in Responses}

\* The error of a body that breaks off is dropped: what was read is the body.
ReadParts ==
  UNION {{[resp EXCEPT !.body = SubSeq(@, 1, n)] : n \in 0..(Len(Cut(resp.body)) - 1)} : resp \in Responses}

ReadPrimary(r, resp) ==
  /\ hpc[r] = "read" /\ hpc' = [hpc EXCEPT ![r] = "write"]
  /\ pres' = [pres EXCEPT ![r] = resp]
  /\ UNCHANGED <<bucketVars, cfg, clientVars, policyVars, shadowVars, observed>>

PrimaryRead(r) == \E resp \in ReadWhole : ReadPrimary(r, resp)
PrimaryBreaks(r) == \E resp \in ReadParts : ReadPrimary(r, resp)

\* The error of a client that has gone is not looked at.
writePrimaryResponse(r) ==
  /\ hpc[r] = "write" /\ hpc' = [hpc EXCEPT ![r] = "finish"]
  /\ given' = [given EXCEPT ![r] = [status |-> 200, body |-> pres[r].body]]
  /\ UNCHANGED <<bucketVars, cfg, input, gone, pres, policyVars, shadowVars, observed>>

\* logHTTPResult, as far as ObserveComparison; the payload is dropped with it.
logHTTPResult(r) ==
  /\ observed' = [observed EXCEPT ![r] = Append(@,
       comparisonMetricResult(skip[r], doShadow[r], serr[r],
         Compare(resolvedCompareMode(Decision(r), cfg.mode), pres[r], sres[r], Documents, Threshold)))]
  /\ pres' = [pres EXCEPT ![r] = NoResponse] /\ sres' = [sres EXCEPT ![r] = NoResponse]

FinishPrimaryOnly(r) ==
  /\ hpc[r] = "finish" /\ ~doShadow[r] /\ hpc' = [hpc EXCEPT ![r] = "done"]
  /\ logHTTPResult(r)
  /\ UNCHANGED <<bucketVars, cfg, clientVars, policyVars, spc, serr>>

\* Mutant: Handle waits for the shadow.
StartShadowWaits(r) ==
  /\ hpc[r] = "finish" /\ doShadow[r]
  /\ IF spc[r] = "done" THEN hpc' = [hpc EXCEPT ![r] = "done"] /\ UNCHANGED spc
     ELSE spc[r] = "none" /\ spc' = [spc EXCEPT ![r] = "call"] /\ UNCHANGED hpc
  /\ UNCHANGED <<bucketVars, cfg, clientVars, pres, policyVars, sres, serr, observed>>

\* startShadow: the goroutine is started and Handle returns.
StartShadow(r) ==
  /\ hpc[r] = "finish" /\ doShadow[r] /\ hpc' = [hpc EXCEPT ![r] = "done"]
  /\ spc' = [spc EXCEPT ![r] = "call"]
  /\ UNCHANGED <<bucketVars, cfg, clientVars, pres, policyVars, sres, serr, observed>>

--------------------------------------------------------------------------------
(* runShadowAndLog *)

\* Mutant: a failed shadow call returns without logging.
ShadowFailsSilently(r) ==
  /\ spc[r] = "call" /\ spc' = [spc EXCEPT ![r] = "done"]
  /\ serr' = [serr EXCEPT ![r] = TRUE]
  /\ UNCHANGED <<bucketVars, cfg, clientVars, primaryVars, policyVars, sres, observed>>

\* Requester.Do ends with an error: the dial, the headers or shadow_timeout.
ShadowFails(r) ==
  /\ spc[r] = "call" /\ spc' = [spc EXCEPT ![r] = "log"]
  /\ serr' = [serr EXCEPT ![r] = TRUE]
  /\ UNCHANGED <<bucketVars, cfg, clientVars, primaryVars, policyVars, sres, observed>>

ShadowResponds(r) ==
  /\ spc[r] = "call" /\ spc' = [spc EXCEPT ![r] = "read"]
  /\ UNCHANGED <<bucketVars, cfg, clientVars, primaryVars, policyVars, sres, serr, observed>>

ReadShadow(r, resp) ==
  /\ spc[r] = "read" /\ spc' = [spc EXCEPT ![r] = "log"]
  /\ sres' = [sres EXCEPT ![r] = resp]
  /\ UNCHANGED <<bucketVars, cfg, clientVars, primaryVars, policyVars, serr, observed>>

\* The connection may break, or shadow_timeout expire, while the body is read.
ShadowRead(r) == \E resp \in ReadWhole : ReadShadow(r, resp)
ShadowBreaks(r) == \E resp \in ReadParts : ReadShadow(r, resp)

\* Mutant: the branch without a comparison logs and does not return.
LogsTwice(r) ==
  /\ spc[r] = "log" /\ spc' = [spc EXCEPT ![r] = IF skip[r] # "" /\ observed[r] = <<>> THEN "log" ELSE "done"]
  /\ logHTTPResult(r)
  /\ UNCHANGED <<bucketVars, cfg, clientVars, hpc, policyVars, serr>>

ShadowLogs(r) ==
  /\ spc[r] = "log" /\ spc' = [spc EXCEPT ![r] = "done"]
  /\ logHTTPResult(r)
  /\ UNCHANGED <<bucketVars, cfg, clientVars, hpc, policyVars, serr>>

--------------------------------------------------------------------------------
Init ==
  /\ BucketInit /\ cfg \in Configs
  /\ input = [r \in Requests |-> NoInput] /\ gone = {} /\ given = [r \in Requests |-> NoAnswer]
  /\ hpc = [r \in Requests |-> "idle"]
  /\ pres = [r \in Requests |-> NoResponse]
  /\ doShadow = [r \in Requests |-> FALSE] /\ skip = [r \in Requests |-> ""]
  /\ spc = [r \in Requests |-> "none"]
  /\ sres = [r \in Requests |-> NoResponse] /\ serr = [r \in Requests |-> FALSE]
  /\ observed = [r \in Requests |-> <<>>]

Tick == ClockTick /\ UNCHANGED <<cfg, clientVars, primaryVars, policyVars, shadowVars, observed>>

\* Quiescence: every request that came has been handled, its shadow included.
Ended ==
  /\ \A r \in Requests : hpc[r] \in {"idle", "done"} /\ spc[r] \in {"none", "done"}
  /\ UNCHANGED vars

HandleStep(r) ==
  \/ Decide(r) \/ PrimaryFails(r) \/ PrimaryResponds(r)
  \/ FinishPrimaryOnly(r) \/ StartShadow(r)
\* Bodies are read and written without a deadline.
BodyStep(r) ==
  \/ BodyError(r) \/ BodyTooLarge(r) \/ BodyRead(r) \/ PrimaryRead(r) \/ PrimaryBreaks(r)
  \/ writePrimaryResponse(r)
ShadowStep(r) ==
  ShadowFails(r) \/ ShadowResponds(r) \/ ShadowRead(r) \/ ShadowBreaks(r) \/ ShadowLogs(r)

Next ==
  \/ \E r \in Requests :
       Arrive(r) \/ ClientGone(r) \/ BodyStep(r) \/ HandleStep(r) \/ ShadowStep(r)
  \/ Tick \/ Ended

\* Handle runs, a call of the primary ends within the dial and header timeouts of the
\* transport, and a read or a write ends once the client has gone.  A client that stays
\* may be slow to send or to read, and so may the primary's body be; nothing is
\* assumed of the shadow.
HandleFairness ==
  \A r \in Requests : WF_vars(HandleStep(r) \/ (r \in gone /\ BodyStep(r)))

Spec == Init /\ [][Next]_vars /\ HandleFairness

\* The goroutines of the shadow run and shadow_timeout, if positive, fires.
ShadowFairness == \A r \in Requests : WF_vars(ShadowStep(r))

--------------------------------------------------------------------------------
(* Properties *)

Inputs == [key : cfg.traffic, forced : BOOLEAN]
Read   == ReadWhole \cup ReadParts \cup {NoResponse}
Bodies == {resp.body : resp \in Read}

\* Every variable has its type; the bucket holds between no and Burst tokens.
TypeOK ==
  /\ BucketType /\ cfg \in Configs
  /\ input \in [Requests -> Inputs \cup {NoInput}] /\ gone \subseteq Requests
  /\ given \in [Requests -> [status : {200, 400, 413, 502}, body : Bodies] \cup {NoAnswer}]
  /\ hpc \in [Requests -> {"idle", "body", "decide", "call", "read", "write", "finish", "done"}]
  /\ pres \in [Requests -> Read]
  /\ doShadow \in [Requests -> BOOLEAN]
  /\ skip \in [Requests -> {"", "path_rule", "path_unmatched", "no_shadow"}]
  /\ spc \in [Requests -> {"none", "call", "read", "log", "done"}]
  /\ sres \in [Requests -> Read]
  /\ serr \in [Requests -> BOOLEAN]
  /\ observed \in [Requests -> Seq({"skipped", "error", "diff", "same"})]

\* The primary's body, once Handle has read it.
Served(r) == IF hpc[r] = "write" THEN <<pres[r].body>>
             ELSE IF given[r].status = 200 THEN <<given[r].body>>
             ELSE <<>>

Plain == INSTANCE PlainProxy WITH
           Bodies <- Bodies, Errors <- {400, 413, 502}, OK <- 200,
           served <- [r \in Requests |-> Served(r)]

\* To the client the proxy is one without a shadow: it gets one answer, the
\* primary's or an error of its own request, whatever the shadow does ("A Shadow
\* failure changes neither a successful Primary status nor body", docs/operator/http.md).
ImplementsPlain == Plain!Spec

\* A rule that decides the request, stated without Resolve: it matches and no
\* earlier one does.
Decides(i, key) ==
  /\ i \in DOMAIN cfg.rules /\ key \in cfg.rules[i].matches
  /\ \A j \in 1..(i - 1) : key \notin cfg.rules[j].matches

\* A request reaches the shadow only after its own client has been answered by the
\* primary, and only if the first rule that matches allows it: forcing overrides
\* neither "never" nor an unmatched path nor a missing target (shouldShadow, Resolve).
ShadowAllowed ==
  \A r \in Requests : spc[r] # "none" =>
    /\ given[r].status = 200 /\ cfg.targets > 0
    /\ \/ cfg.rules = <<>>
       \/ \E i \in DOMAIN cfg.rules : Decides(i, input[r].key) /\ cfg.rules[i].shadow # "never"

\* Every request the primary served is reported exactly once, by Handle or by the
\* goroutine, and no other request is.
OneObservation ==
  \A r \in Requests :
    /\ Len(observed[r]) <= 1
    /\ hpc[r] = "done" /\ spc[r] \in {"none", "done"} =>
         (Len(observed[r]) = 1 <=> given[r].status = 200)

\* A comparison is reported only for a shadow that answered and a rule that asks for
\* it, a failed shadow is an error unless no comparison was wanted, and "skipped"
\* means that there was nothing to compare (comparisonMetricResult).
ObservationSound ==
  \A r \in Requests : observed[r] # <<>> =>
    LET compared == doShadow[r] /\ Decision(r).compare # "off"
    IN  /\ observed[r][1] \in {"same", "diff"} => compared /\ ~serr[r] /\ spc[r] = "done"
        /\ observed[r][1] = "skipped" <=> ~compared
        /\ compared /\ serr[r] => observed[r][1] = "error"

\* Once the answer is written Handle returns without any step of the shadow ("The HTTP
\* client does not wait for detached Shadow work", docs/developer/architecture.md), and
\* wherever Handle is, a client that has gone does not keep it.
HandleReturns ==
  \A r \in Requests : (hpc[r] = "finish" \/ r \in gone) ~> hpc[r] = "done"

\* A detached shadow call ends and is reported, also when its client has gone.
ShadowEnds == ShadowFairness => \A r \in Requests : (spc[r] = "call" ~> observed[r] # <<>>)

\* "A Primary request or response error produces 502" (docs/operator/http.md): a
\* client that has stayed is not given part of a response under the primary's status.
ResponseErrorIs502 ==
  \A r \in Requests \ gone : given[r].status = 200 => given[r].body \in {resp.body : resp \in ReadWhole}
================================================================================
