# A TLA+ model of doppelgaenger

doppelgaenger is a mirroring proxy: every request goes to a *primary* backend,
whose answer the client gets, and a sample of the requests is replayed to a
*shadow* backend, whose answer is only compared. It speaks HTTP, gRPC and
Milter. Two promises carry the design: the shadow never changes or holds up
what the client sees, and what is reported as a comparison is one.

This directory holds TLA+ modules of the parts where those promises depend on
concurrency, timeouts and failures, the TLC configurations that check them, and
TLAPS proofs. `PROJECT.json` maps every definition to the source lines it
stands for and lists runs, mutants, findings, hazards and theorems.

## 1. The system and its parts

| Part | State | Operations | Hard behaviour |
|---|---|---|---|
| Milter connection (`internal/milterproxy/handler.go`, `shadow_worker.go`) | current frame, shadow queue (64), worker session, "shadow unavailable" latch | `HandleConn`, `handleFrame`, `Submit`, `Close`, `run` | three goroutines per connection; a timed-out shadow event leaves its goroutine on the session; the queue is drained before the connection is closed |
| Milter adapter, event runner (`internal/protocol`) | one TCP session per backend | `Send`, `Receive`, `RunPrimaryEvent`, `RunShadowEvent`, comparison | replies in several frames; commands without a reply |
| gRPC stream (`internal/grpcproxy/handler.go`, `stream.go`, `shadow.go`, `compare.go`) | per RPC: two streams, shadow queue, merged shadow result | `Handle`, `forwardPrimaryStream`, `Offer`, `Close`, `Wait`, `run`, comparison | five goroutines and the handler; three of them write one result; the proxy's own cancellation looks like a final status |
| gRPC caller authentication (`caller_auth*.go`) | positive cache, pending flights, slots | `get`, `put`, `join`, `leave`, `run`, `authorize` | flights shared by callers and detached from their contexts; abandoned flights overlap their successors; expiry and revocation |
| gRPC backend token (`bearer.go`) | token, expiry, discovered URL under a mutex | `Authorization` | the mutex is held across two HTTP requests |
| gRPC rules, targets, selection (`resolver.go`, `target.go`, `selector.go`) | round-robin counter | `Resolve`, `shouldShadow` | first match, sampling, wrap-around |
| HTTP proxy (`internal/proxy`, `internal/backend`, `protocol/http_*`) | per request: buffered body, detached shadow call | `Handle`, `callPrimary`, `startShadow`, `runShadowAndLog` | the shadow outlives the request; body limits; comparison needs both answers |
| Rate limiter (`internal/ratelimit`) | tokens, last refill | `Allow` | fractions, clock |
| JSON comparison, path rules, path mapping, headers | none | pure functions | order-insensitive arrays, first match |
| Health, servers, isolation, reload, socket activation (`main.go`, `internal/health`, `internal/server`, `internal/app`, `grpcproxy/server.go`, `milterproxy/server.go`) | two atomics, listeners, descriptors and a marker that survive a reload | hooks, readiness, graceful stop, re-exec | a serve goroutine, signals and a reload race start and stop; isolation may fail half way |
| Configuration (`internal/config`) | the file; the configuration of the image | `Load` with defaults, normalisation, validation; constructors | validated by one image and loaded by the next; edges that other parts divide by or wait for |
| Logging, exporters, TLS helpers, codecs, fake server, `cmd/` | none that matters here | formatting | - |

How they interact: a server accepts a connection and hands it to a handler; the
gRPC handler authenticates the caller (`CallerAuth`), resolves a rule, takes a
token of the rate limiter, obtains a backend token and then forwards the stream
(`GrpcStream`). The HTTP handler buffers the body, resolves a path rule, asks the
limiter, calls the primary, answers, and leaves the shadow to a goroutine
(`HttpProxy`). The Milter handler takes one shadow decision per connection and
runs every frame through the event runner. Handler and shadow share nothing but
a bounded queue, a closed flag and one result record, each under a mutex; in
HTTP not even that, the goroutine has its own copy.

What makes each part correct:

- *Milter*: the shadow sees an in-order, gap-free prefix of the primary's
  frames; a reply belongs to its request, on both sides; one sound verdict per
  frame; the shadow delays neither a reply nor, for ever, the end of the
  connection.
- *gRPC stream*: the same replay property; a comparison is made only with a
  whole answer that the shadow itself ended; `Handle` returns without the
  shadow's help; no goroutine is left behind.
- *Caller authentication*: bounded, shared, correctly counted requests; nobody
  receives the cancellation of a flight; no expired or foreign claims are
  accepted; every caller is answered with a silent issuer.
- *HTTP proxy*: to its client it is a proxy without a shadow; the shadow is
  called only as rules, targets, sampling and limiter allow; every served request
  is reported once, and a comparison only with a shadow that answered.
- *Rate limiter*: in any stretch of time at most the burst and the refill.
- *gRPC routing and backend token*: the token goes to the primary, always, and to
  nobody else, and is one the issuer still honours; rules decide over what a
  client forces; nobody waits for ever behind a silent issuer.
- *Process*: 200 on `/healthz` means a process that is isolated in full, as it was
  asked to be, and takes connections; a stop in order drains; a process that was told to stop, or has lost its
  listener, ends.
- *Configuration*: what serves satisfies what the other parts take for granted;
  the new image of a reload loads what the old one has validated.

## 2. Modules

| Module | Models | Extended by / uses |
|---|---|---|
| `ShadowReplay` | abstract: served items are replayed in order, without a gap, until replaying stops for good | refined by `MilterConn`, `GrpcStream` |
| `MilterSemantics` | which commands open a turn, which replies close it, decision and comparison | `MilterConn` |
| `MilterConn` | one Milter connection | `MCMilterConn`, `MilterConnProofs` |
| `MilterConnProofs` | TLAPS proofs about `MilterConn`: types, order, refinement | `MilterVerdictProofs` |
| `MilterVerdictProofs` | the same, continued: replies and reports | |
| `GrpcStream` | one proxied RPC | run directly, `GrpcStreamProofs` |
| `GrpcStreamProofs` | TLAPS proofs about `GrpcStream` | |
| `CallerAuth` | bearer authentication of callers | `MCCallerAuth`, `CallerAuthProofs` |
| `CallerAuthProofs` | TLAPS proofs about `CallerAuth` | |
| `GrpcHandle` | `Handle` before the streams: rules, targets, backend token, shadow policy, metadata | `MCGrpcHandle`, `GrpcHandleProofs` |
| `GrpcHandleProofs` | TLAPS proofs about `GrpcHandle` | |
| `Lifecycle` | one process: Fx hooks, isolation, listeners, health, stop, reload | `MCLifecycle`, `LifecycleProofs` |
| `LifecycleProofs` | TLAPS proofs about `Lifecycle` | |
| `Config` | `config.Load` as operators on a file, and what constructors demand beyond it | `ConfigReload` |
| `ConfigReload` | the file, its edits, and the process that loads it | `MCConfigReload`, `ConfigReloadProofs` |
| `ConfigReloadProofs` | TLAPS proofs about `Config` and `ConfigReload` | |
| `TokenBucket` | the shadow rate limiter | `HttpProxy` |
| `HttpPolicy` | path rules, shadow and comparison decisions, comparators, reported result | `HttpProxy` |
| `PlainProxy` | abstract: a proxy without a shadow, as its client sees it | refined by `HttpProxy` |
| `HttpProxy` | concurrent HTTP requests with their shadow goroutines and the shared limiter | `MCHttpProxy`, `HttpProxyProofs` |
| `HttpProxyProofs` | TLAPS proofs about `TokenBucket` and `HttpProxy` | |

### MilterConn

`hpc` is the program counter of `HandleConn` (`dial`, `read`, `send`,
`receive`, `write`, `submit`, `close`, `await`, `closed`), `wpc` that of
`milterShadowWorker.run`, `gpc` that of the goroutine `Runner.runShadow` starts
for an event. `queue`, `closed`, `session` and `unavailable` are the worker's
fields and locals. A backend is its log of received frames, the requests it has
yet to answer and the reply frames on their way; a reply frame carries the id of
its request, which no guard reads: only properties do. `verdicts` are the calls
of `logFrameResult`. Sampling and the rate limiter are one decision taken after
the primary session is open; the limiter is an arbitrary answer.

A dial, read or write can fail at any point. `WorkerTimesOut` (the context of
the event expires) and `WorkerAborts` (session closed, latch set) are separate
steps, so that the abandoned goroutine runs between them. Frame payloads are
left out: a frame is its number and command, a response the sequence of its
reply codes. The check `primary returned empty milter frame` cannot fire: when
`Receive` returns without an error for a command that expects an answer, it has
read at least one frame. Backends are taken to follow the fixed no-reply
profile (`RepliesAssumption`): one terminal frame, at the end.

### GrpcStream

`hpc` is `Handle` from `prepareShadow` on, `cpc` and `ppc` the two directions of
the primary stream, `rpc` `shadowForwarder.run`, `spc` `sendRequests`, `vpc`
`receiveShadowResponses`. Everything the code does under the forwarder's mutex
is one step; `SendMsg` and the `Offer` after it are two. `ctx` is the shadow's
context, which is detached from the client's; the contexts of the primary end
with the client (`StreamEnded`) or with the `cancel` of `Handle`. A response
message is a value; the hash over length-prefixed messages is their sequence.
`SendPrimaryEOF` needs no finished `ppc`: grpc-go reports the end of a stream
to `SendMsg` before `RecvMsg` has been called. `dropped` is a history variable:
`Offer` has found the queue full. The `status_metadata` comparison mode is left
out. `DeadlineExceeded` on the shadow's stream is a timeout whoever made it, the
backend included: `receiveShadowResponses` looks at the status.

### CallerAuth

One RPC per element of `Callers`; a flight is named after the caller that
started it. `cpc` follows `introspectCaller` and `authorize`, `fpc` follows
`introspectionFlights.run` and `runIntrospectionFlight`. The mutexes of cache
and flights make `Get`, `Put`, `join` and `leave` atomic; between them anything
may happen. The three deferred steps of `run` (forget, release the slot, close
`done`) are three actions, because callers can observe the states in between.
Map iteration in `evictLocked` is a choice of the sample (`Samples`).
The clock is a counter; `Tick` may come between any two steps, or
(`Prompt = TRUE`) only when every goroutine waits, which says that local steps
take no measurable time. Claims that never validate (wrong issuer or audience)
are an `exp` of 0; the scopes of a method are an arbitrary answer. Which caller
presents which token, and `introspection_max_concurrent`, are chosen in `Init`
among `Settings`; `Revocable` are the tokens the issuer may revoke.

### HttpProxy, HttpPolicy, TokenBucket

Every element of `Requests` is one call of `Handle`; `hpc` follows it (`body`,
`decide`, `call`, `read`, `write`, `finish`, `done`), `spc` follows
`runShadowAndLog`. Between any two steps other requests, the clock and the
client may move; `ClientGone` ends the context of the request, not that of the
shadow. The backend call has two steps, the end of `client.Do` and the reading
of the body, because the second drops its error: `PrimaryBreaks` and
`ShadowBreaks` stop anywhere in the body and go on as if it were whole.
`observed` are the calls of `ObserveComparison` in `logHTTPResult`.

A request is its key (method and path), which a rule accepts or not, and
whether it carries the force header; a response is the value of the compared
headers and a sequence of tokens; the status of an answered request is 200,
because neither the handler nor a comparator looks at it (redirect headers
aside). The configuration is chosen in `Init` and includes the traffic, the keys
clients ask for. `shadow_force_header` is configured. With `HTTPAdapter`
neither `NewSession` nor `Send` fails and the path mapper returns no error, so
the 503, 500 and "shadow not started" branches are unreachable. Left out:
rewriting of paths and headers, request ids, and the per-rule `compare_headers`
and request headers. JSON documents are equal or not.

The bucket counts in parts of 1/`Scale` token; float64 rounding is not modelled.
`admitted` is a history variable.

### GrpcHandle

One RPC per element of `Rpcs`; `pc` follows `Handle` from `authenticateCaller`
to the opening of the streams. `CallerAuth` and `GrpcStream` model what comes
before and after; here a call is authentic or not. `mu`, `cache` and `tokenURL`
are the fields of `clientCredentialsTokenSource`; `fetch` is the request under
way, whose deadline covers discovery and token request and is derived from the
RPC that holds the mutex. RPCs that wait for the mutex do not look at their
context: `Cancel` leaves them in the queue. `tokens` is what the issuer knows
(when and for how long it issued a token); only properties read it. `next` are
the two round-robin counters, which wrap at `NextWrap` (2^64 in the code);
reading and advancing one is a single atomic addition. The rate limiter's answer
is arbitrary. Metadata is a function from keys to who the value comes from.
A token source whose CA bundle has gone since `Load` read it (`initError`) is left
out: every RPC that needs the token would end as in `FetchFails`.
`expires_in` values so large that the duration overflows int64 (292 years) are
left out. That a primary target exists and that no rule sets the primary's
`authorization` beside a token source are assumptions here (`HandleAssumption`)
and results of `ConfigReload`.

### Lifecycle

`pc` is the main goroutine (`fx.New`, `App.Start`, waiting, `App.Stop`), `hook`
the number of hooks started and not yet stopped, in the order of `fx.Invoke`;
`serve` is the serve goroutine of the selected protocol, `rpc` the goroutine of
the reload hook. A configuration asks for any combination of chroot, user and
group; `Operations` are the privileged operations that `resolveIdentities` makes
of it. `Isolate` is `ApplyRuntimeSecurity` in full, with the marker at its end;
`IsolationFails` stops after any of them, the check of the files in the chroot
included. `asked` is a history variable: the configuration that was applied.
`Exec` starts the next image: memory is fresh, while the
environment (`activated`, `applied`), the passed descriptors and what the kernel
knows (`isolation`) stay. Fx is external and modelled by its contract: hooks in
order, OnStop in reverse for those that started, one deadline for all of them, a
remembered shutdown signal. Before `signal.Notify` and after `signal.Stop` a
SIGHUP takes its default action, which ends the process (`SignalKills`). Which of
several activated listeners is picked is left out.

### Config and ConfigReload

A file is a record of sections (`Sections` gives the types of their values, as the
structs of `config.go` do); strings are the spellings the code tells apart,
durations and limits are numbers. `validate` mixes normalising and checking and
stops at the first error; since a refused file leaves nothing behind, the module
normalises (`Normalized`) and checks (`Loads`) separately. `Constructs` is what
the constructors in `fx.Provide` may still refuse on what the file says: path
mapping, CA bundles, key pairs, gRPC rules. A start has two stages: `Load` or
`LoadFails`, which the file decides, and `Start` or `StartFails`. `StartFails` is
always possible after `Load`: exporters, isolation, the certificates of a
listener, a port that is taken and descriptors of socket activation are not
decided by the file. `ConfigReload` lets an
operator replace a section at any point, between the validation of a reload and
its exec too. The helpers `PolicySound` and `GRPCSound` of `ServesSound` are the
assumptions of the other modules (a positive queue, timeouts and burst, a primary
target, no conflicting `authorization`).

## 3. Runs

| Run | Shows | States |
|---|---|---|
| `milter` | all safety properties of a connection and `ImplementsReplay`, 3 frames, queue of 1, commands `O` (option negotiation), `M` (no reply) and `E` (reply of one or two frames); `TurnEnds` with no shadow step assumed; `ConnectionEnds` with the worker scheduled and `milter_timeout` set | 3.0e5 |
| `grpc_safety` | `CompareSound`, `ComparedWhole`, `ImplementsReplay`; 2 requests, 1 response, queue of 1 | 4.6e6 |
| `grpc_live` | `HandleReturns` and `RequestContinues` with no shadow step assumed; `NoGoroutineLeak` with silent clients and backends | 7.5e5 |
| `grpc_broken_shadow` | finding: a broken shadow connection is compared | |
| `caller_auth` | all properties of `CallerAuth`; 2 callers that share a token with a slot each, or have different tokens, one slot and a cache for one; revocation, silent issuer | 3.8e5 |
| `caller_revocation` | finding: a revoked token is accepted after more than the TTL | |
| `grpc_handle` | all properties of `GrpcHandle`; 3 RPCs, one of which brings its own authorization and forces a shadow that the first rule forbids, is malformed, or is rejected; 2 targets each, silent issuer | 2.6e5 |
| `lifecycle` | all properties of `Lifecycle`; every protocol, with and without metrics and socket activation, several demands for isolation; one reload, 2 clients | 2.8e5 |
| `health_unbound` | finding: `/healthz` answers 200 before the HTTP port is bound | |
| `config_reload` | `ServesSound` and `ReloadLoadsAgree`; an HTTP, a gRPC and a Milter file, two edits among 78 section values at the limits of what `Load` tells apart | 2.5e5 |
| `http_proxy` | all properties of `HttpProxy`; 2 requests; overlapping rules, a rule without comparison beside an unmatched path, no rules, no targets | 3.0e5 |
| `http_truncated` | finding: a broken primary body is answered as a whole one | |

Bounds and why they are enough. A queue of one is full after one item, so an
overflow takes two requests; the third Milter frame is the one that would follow
a gap, and the one whose reply could be confused with a late reply to the
first. `EOMReplies` has a two-frame reply so that a turn can be cut in the
middle. One gRPC response distinguishes a whole from a truncated answer and two
answers from each other (one value and none). Two callers of one token with a
slot each are what "the last waiter leaves, a successor starts, the old flight
ends" takes; two tokens with a cache for one evict each other, and with one slot
one caller is refused. Several waiters on an abandoned flight's successor need a
third caller, and are left to the theorems. `MaxTime` leaves room for a request
timeout and the life of an entry (`RevocationBounded`), and callers arrive only
while a request can still time out before the clock stops. Two HTTP requests and
one tick that refills one and a half tokens of a bucket for one are what an
uncapped refill needs to give out two at once; a body of two tokens and a limit
of one is cut in reading and can break off before that, and the empty response
under another header tells a header difference from a body difference. Three
RPCs are one that fetches, one that waits and is canceled, and one that finds
what the first has cached; three ticks let a token come back late, be cached, and
reach the end of its life. Two images are one reload, which is all that carries
state over; two edits are one that is validated and one that comes too late, or
two sections that are wrong only together. No run uses symmetry. `caller_auth`
sets `Prompt`, as `RevocationBounded` needs it: answers may still be as late as a
request may take, but the clock does not move between the look into the cache and
the decision; `AcceptSoundCorrect` is proved for both values.

Deadlock is checked wherever goroutines could wait for each other: those modules
have an explicit quiescent step (`Done`, `Ended`) enabled only when all
goroutines have ended. `grpc_handle` and `config_reload` may stop: all RPCs have
reached their streams or were answered, or the process has exited;
`RpcAnswered` says that no RPC is stuck.

## 4. Fairness

- `PrimaryFairness` (Milter, gRPC): the handler's own steps, and operations on
  a connection once its deadline has passed or its context has ended. Nothing is
  assumed of the shadow and the backends, and of the client only that a Milter
  reply can be written to it: that write has no deadline, but the frame is small
  and the MTA waits for it. It is what the Go scheduler
  and the `net` and gRPC packages give. For gRPC it includes that opening a
  stream ends (grpc-go fails a non-wait-for-ready stream when the connection
  attempt fails) and that the timer of `Wait` fires. For Milter, a read from the
  primary must end only if `milter_timeout` is positive.
- `ShadowFairness` is assumed, inside a property, where the code waits for the
  shadow (`Close`, the goroutines left after `Handle`): worker and goroutines
  run, deadlines fire, operations on a closed session fail. The shadow backend
  may still be silent. `WorkerStep` contains the end of the shadow's dial, which
  the operating system bounds even without a timeout.
- `HttpProxy!HandleFairness`: `Handle` runs, `client.Do` ends (dial and response
  header timeouts of the transport are always positive), and reading a body from
  the client or the primary, and writing the answer, end once the client has
  gone. The server sets no `WriteTimeout`: a client that stays and does not read,
  or a primary that sends its body slowly, may hold `Handle` for ever. `ShadowFairness`, inside
  `ShadowEnds`, adds that goroutines run and `shadow_timeout`, if positive,
  fires.
- `GrpcHandle!FairSpec`: goroutines run, a mutex that is free is given to one of
  those that wait, and the deadline of a token request fires (`FetchFails` stays
  enabled for as long as a request is under way; the issuer and the client need do
  nothing).
- `Lifecycle!FairSpec`: the main and the serve goroutine run and the deadline of a
  stop fires. Nothing is assumed of clients, signals or a reload.
- `CallerAuth!FairSpec`: callers and flights run, the clock advances, a
  request's deadline fires; the issuer may be silent and callers impatient.

## 5. Proofs

Every invariant, action property and refinement that a passing run checks is also
a theorem: the run shows it for a small instance, TLAPS for every value of the
constants that satisfies the module's assumptions. All theorems are of the
specification without fairness, as safety needs none.

### Milter

`MilterConnProofs` and `MilterVerdictProofs`, for any number of frames, any queue
capacity, any commands and reply sequences (`ConnAssumption`,
`RepliesAssumption`):

- `TypeCorrect`: `Spec => []TypeOK`, the bound of the queue included. `TypeOK`
  is not inductive: that `SkipVerdict` writes a real frame id depends on the
  handler having a frame whenever it is past `read`, and the worker having work
  whenever it is past `idle`. `TypeInv` adds that.
- `PrefixCorrect`: `Spec => []ShadowPrefix`. The prefix is not inductive
  either: it depends on what is in the queue and on who may still write to the
  shadow. `OrderInv` says where the frames are: while the shadow is usable, the
  shadow's log, the frame the worker has in hand but not sent, and the queue are
  consecutive segments of the primary's log, the handler's current frame being
  the next one until it has been submitted; once a frame was rejected or an
  event failed, the queue is closed or the session unusable, and nothing can
  follow. Serving, submitting and taking each have a lemma about segments
  (`FollowsServe`, `FollowsSubmit`, `FollowsTake`).
- `ReplayImplemented`: `Spec => ImplementsReplay`, from the same invariant: a
  send of the abandoned goroutine can only be the next frame, and the latch is
  never taken back.
- `ReplyBeforeShadowCorrect`. `ReplyInv` says of the queue and of the worker's
  hands what the property says of the shadow's log: everything handed over has
  been answered.
- `ReplyMatchesRequestCorrect`. A late reply would be confused with the next one
  if a turn could begin while an older one was still due. `PrimaryTurn` says that
  between turns nothing is due, and in a turn only what is left of the reply to
  its own frame, whose last frame and no other completes it (`Final`);
  `ShadowTurn` says the same of the shadow until the first failure, after which
  the session is not read again.
- `VerdictSoundCorrect` and `OneVerdictPerFrameCorrect`, from `FullInv`. Both need
  to know of every frame where it is: `SentInv` numbers the frames sent, in hand,
  queued and not yet handed over consecutively, `ReportInv` says that a frame is
  reported after it left the queue and the worker's hands, and `AccountInv` that
  every frame of the primary is reported, queued, in hand or was never answered.

### gRPC streams

`GrpcStreamProofs`, for any number of messages, any queue size, values and statuses
(`StreamAssumption`; `OwnStatusAssumption` keeps the name `Canceled` for the
status that the proxy's own contexts produce):

- `TypeCorrect`. `TypeInv` adds to `TypeOK` that a message is in hand where one is
  sent or offered.
- `CompareSoundCorrect` and `ComparedWholeCorrect`, from `CompareInv`: the result is
  complete only once `run` has merged the receiver's, which it does after the
  receiver has ended (`MergeLast`, `MergedSound`); the proxy cancels the shadow
  only with a reason recorded or when `run` is past merging (`CancelMarked`), so
  that a stream it ended itself is skipped, never merged or incomplete
  (`OwnEndSkipped`); a queue found full has left a reason that no later merge
  removes (`DropMarked`).
- `ReplayCorrect`: `Spec => ImplementsReplay`. `ReplayInv` says that messages are
  numbered as the client sent them, that the queue continues where the sender
  stands, and that while the queue is open it reaches up to what the primary was
  sent (`QueueFollows`).

### Caller authentication

`CallerAuthProofs`, for any finite sets of callers and tokens, any settings,
limits, lifetimes and times (`AuthAssumption`):

- `TypeCorrect`, with the limits of cache and slots, `RequestsBoundedCorrect`,
  `OneRequestPerTokenCorrect`, `WaitersCountedCorrect`, `AbandonedUnseenCorrect`,
  from `TypeOK /\ FlightInv`. They hold together or not at all: the slots are
  the flights between `join` and the release (`SlotsHeld`), the pending flights
  exactly those neither forgotten nor abandoned (`PendingExact`), a waiter is
  counted from `join` to `leave` (`Counted`), and nobody waits for an abandoned
  flight (`AbandonedAlone`). `OneRequestPerToken` says of every request that
  somebody waits for that it is the pending one of its token, so that later callers
  find it. The cache's limit rests on lemmas about
  `evictLocked`, whatever sample it draws.
- `AcceptSoundCorrect`. `ClaimsTrue`: whatever the cache, a flight or a caller holds
  is what the issuer said of that token, at a time not after now.
- `RevocationBoundedCorrect`, under the hypothesis `Prompt` (local steps take no
  measurable time). Without it the property is false, as a goroutine may be
  descheduled with a reply in hand for any time. `FreshInv`: what is on its way to
  a caller is younger than a request may take plus the life of an entry.

### gRPC handling

`GrpcHandleProofs`, for any RPCs, rules, targets and calls (`HandleAssumption`, and
`InputAssumption`: lists are finite, the hash of an address and `expires_in` are
natural numbers, one that is missing or not positive being 0, and no client or
rule holds a token of the source):

- `TokenCorrect`: `Spec => []TokenForPrimaryOnly`, and `RulesCorrect`:
  `Spec => []ShadowObeysRules`. Both speak of RPCs that have reached their
  streams only. `HandleInv` says what an RPC has at every place before: the call
  is one a client may send, the decision is the resolver's for its method, the
  token is in the primary's metadata from the moment the mutex is released, and
  the shadow has been sent nothing. The rest are lemmas about the operators:
  the first match exists because a set of numbers has a least element
  (`LeastElement`, `FirstMatchSound`, `ResolveSound`), the policy wants no shadow
  without targets or against the rule (`PolicySound`), a pool with targets picks
  one (`PickSound`), an overlay replaces what the client sent and brings nothing
  else (`TokenSent`, `ForeignSent`).
- `CachedTokenCorrect`: `Spec => CachedTokenAlive`. A token's life is counted from
  the handling of the answer, so the cache believes in it too long, but by no
  more than a request may take (`CacheInv`): who talks to the issuer holds the
  mutex (`MutexInv`), and a request under way has neither passed its deadline nor
  begun before its answer by more than the timeout (`FetchInv`). The property is
  about configurations with `refresh_skew` not below `timeout`, which the
  defaults satisfy and nothing enforces.

### HTTP

`HttpProxyProofs`, for any rate, burst and scale (`BucketAssumption`), any number
of requests and any rules (`RulesAssumption`: `path_rules` is a list):

- `BucketCorrect`: `BucketSpec => []RateBound`, and `RateCorrect`: the same of
  `HttpProxy!Spec`, since every step of it is a step of the bucket or leaves it
  alone (`Next_Bucket`). `RateBound` speaks of past admissions only; `Covered`
  adds what is in the bucket now: tokens given out since an admission, plus the
  tokens left, are at most the burst plus the refill up to the last call.
- `ObservationCorrect`: `Spec => []OneObservation`. `ObsInv` says, per request,
  which places of `Handle` and of the goroutine go with which answer and with
  how many reports; it holds step by step because a step changes one request
  only (`StageStep`).
- `ShadowAllowedCorrect` and `ObservationSoundCorrect`, from `ObsInv /\ PolicyInv`.
  Decision and report are many steps apart; `PolicyInv` says that the decision
  stands in between: wish and reason to skip are those of the first matching rule
  from `Decide` on (`PolicyAt`), and a report is what the metric says of the
  request as it still is (`ReportAt`). That the first match has the least number
  is proved as for gRPC.
- `PlainCorrect`: `Spec => ImplementsPlain`. Under the mapping `Served` every step
  of the shadow, the limiter and the clock is a stutter, and an answer is either
  what was read from the primary or an error of the proxy's own.

### Process

`LifecycleProofs`, for any set of configurations and any number of images
(`LifecycleAssumption`): `HealthCorrect` (`HealthSound`) and `DrainedCorrect`
(`Drained`), from `LifeInv`. Whether the listener may be up or requests open
depends on how far the hooks have got: `BindInv` says that before its own hook has
started a protocol has no listener, no goroutine and no client, `StepInv` how far a
stop is, `SecureInv` that no hook runs before the isolation, and that the marker in
the environment stands for a configuration that was applied (`asked`), `AskedInv`
that every part of what that asked for is in effect, which the next image inherits,
and `DrainInv` that once the hook was stopped nobody can connect and what
was open has ended unless the time was over.

### Configuration

`ConfigReloadProofs`, for any files and edits whose values have the types of their
sections (`ReloadAssumption`): `ServesCorrect` (`ServesSound`) and
`ReloadLoadsCorrect` (`ReloadLoadsAgree`). `ReloadInv` is small: what is served
and what a reload has validated had loaded. The work is in lemmas about the
normalisers, one for each (`RateSound`, `TransportSound`, `CompareModeSound`,
`PathRuleSound`, `RuntimeSound`, `GRPCRuleSound`, `TokenDefaults`): a file that
loads is normalised into values the other parts may rely on.

### What the proofs have changed

Several operators were written as `CASE` with overlapping guards, which leaves open
which arm is taken; they are now `IF` chains in the order of the code's early
returns (`authorize`, `compareRPCResult`, `resolveComparison`,
`comparisonMetricResult`, `milterComparisonMetricResult`). The refinement of
`PlainProxy` used a marker for "nothing read", which would have had to be assumed
different from every body; it is now an empty sequence. The types of a
configuration file were implicit in the run's values. The assumption about
statuses showed that a `DeadlineExceeded` that the shadow backend itself returns had
been left out of `GrpcStream`.

### Only model-checked

Liveness (`TurnEnds`, `ConnectionEnds`, `HandleReturns`, `RequestContinues`,
`NoGoroutineLeak`, `CallersAnswered`, `SlotsReturn`, `RpcAnswered`, `StopEnds`,
`ShadowEnds`): TLAPS has no support for fairness and `ENABLED`. The four findings
(section 6) are counterexamples, which a run shows and a proof cannot.

## 6. Findings

Four runs show a disagreement between a document and the code; `PROJECT.json`
quotes the lines.

1. A shadow connection that breaks after its stream was opened gives a status
   made up locally (`Unavailable`), which `isFinalStatusError` accepts; the
   comparison is `diff` or `same` instead of `error`.
2. A primary HTTP response whose body breaks off after the headers is answered
   with the primary's status and the part that was read, not with 502:
   `readResponseBody` drops the error.
3. A revoked token is accepted for longer than `introspection_cache_ttl`: the TTL
   starts when the response is handled, up to `timeout` after the issuer looked at
   the token. `RevocationBounded`, with `timeout` plus TTL, is the bound that holds.
4. `/healthz` answers 200 before the HTTP port is bound, and while it turns out to
   be taken: `startServer` marks the process ready before its goroutine listens.
   `HealthSound` is stated with that window.

## 7. Observations

Behaviour met while modelling for which there is no run of its own:

- The dropped read error (finding 2) also concerns the shadow: a body cut by
  `shadow_timeout` is compared, and reported as `diff` or `same`.
- The HTTP comparators do not look at the status of the responses.
- `docs/operator/milter.md:61` says that a primary failure closes the client
  connection. With `milter_timeout: 0` and a silent shadow it stays open, because
  `shadowWorker.Close` is deferred after, and so runs before, `conn.Close`;
  `ConnectionEnds` is therefore checked with a positive timeout.
- `docs/operator/grpc.md:321` says that at the limit cached tokens keep working.
  Between `forgetLocked` and the release of the slot in `run`, a caller that had
  missed the cache before the flight filled it is refused with `overload`,
  although its token is cached by now.
- The health endpoint is stopped before the protocol drains.
- `docs/concepts.md:65` says that the configuration is validated before a
  re-exec. `Load` does not look at `path_mapping`, at the CA bundles and key pairs
  of upstreams and gRPC targets, at the listener's certificates or, in another
  protocol, at gRPC rules; and a start may still fail on exporters, isolation or a
  port. A SIGHUP then passes validation and ends the process in the new image, as
  does an edit between validation and exec (`StartFails`, `LoadFails`).
- A process started by socket activation cannot be reloaded: `ActivatedListeners`
  closes the passed descriptors while `LISTEN_FDS` and `LISTEN_PID` still match in
  the new image, which then fails to start.
- A SIGHUP before the reload hook has started, so also during the start of a new
  image, ends the process; one being handled when a SIGTERM arrives replaces the
  image and the stop is forgotten.
- A listener that fails ends the process with exit code 0.
- A reload that changes the isolation keeps the old one; the marker in the
  environment only says that some was applied.
- The discovered token endpoint is kept for the life of the process.
- Unlike the timeouts of gRPC and of the HTTP transport, `shadow_timeout`,
  `milter_timeout` and `max_backend_body_bytes` are taken as they are.
- A gRPC shadow that has answered stops draining its queue; if the client keeps
  streaming, the queue overflows and a complete answer becomes `queue_full`.
- A client that cancels mid-stream makes `forwardClientToPrimary` close the
  shadow's queue, so the shadow sees an orderly half-close where the primary
  sees a cancellation.
- In a bidirectional RPC which the primary ends before the client half-closes,
  the shadow waits for more requests until `Wait` gives up.
- When the request direction fails, the result returned by `Handle` has a
  message count of 0, although messages may have been relayed.
- The comment on `milterShadowWorker.Close` says that it is "used only after the
  client connection closes"; after a primary failure it runs before.

## 8. Not modelled, and the plan

Left out: byte formats, logging (macro, JSON and protobuf log fields), tracing and
metrics exporters, TLS construction, command-line parsing, the fake server and
the command-line tools: they hold no state that a property depends on. Path
rewriting, header copying and the recursive comparison of JSON values are pure
string and tree functions with unit tests over their cases; a model would repeat
them character by character. The HTTP backend selectors are the twins of the gRPC
ones. mTLS caller authentication reads the peer's certificate and keeps nothing.

What is left to prove: type correctness of `HttpProxy`, `GrpcHandle` and
`Lifecycle` in full (the invariants of section 5 type only what their arguments
need), and, across modules, that the configuration `ServesSound` guarantees
satisfies the assumptions the other modules make of their constants, which so far
is only said (section 2, Config).

## 9. Running

```
tlc -config MilterConn.cfg MCMilterConn
tlc -config GrpcStream.cfg GrpcStream
tlc -config CallerAuth.cfg MCCallerAuth
tlc -config HttpProxy.cfg MCHttpProxy
tlc -config GrpcHandle.cfg MCGrpcHandle
tlc -config Lifecycle.cfg MCLifecycle
tlc -config ConfigReload.cfg MCConfigReload
tlapm MilterConnProofs.tla
tlapm MilterVerdictProofs.tla
tlapm GrpcStreamProofs.tla
tlapm CallerAuthProofs.tla
tlapm GrpcHandleProofs.tla
tlapm HttpProxyProofs.tla
tlapm LifecycleProofs.tla
tlapm ConfigReloadProofs.tla
```

Operators marked "Mutant" are deliberate mistakes; `PROJECT.json` says which
definition each replaces and which property must then fail. Nothing else uses
them.
