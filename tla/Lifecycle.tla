-------------------------------- MODULE Lifecycle --------------------------------
(***************************************************************************)
(* One process of doppelgaenger from exec to exit: the Fx application with *)
(* its five hooks, runtime isolation, the listener of the selected         *)
(* protocol and its serve goroutine, the health state, the metrics         *)
(* endpoint, and the reload goroutine that replaces the process image.     *)
(*                                                                         *)
(* A SIGHUP reload keeps the process, with its environment and what the    *)
(* kernel knows of it, and starts a new image: `image' counts them.        *)
(***************************************************************************)
EXTENDS Naturals, Sequences

CONSTANTS
  Conns,     \* requests (HTTP), RPCs (gRPC) or connections (Milter) of clients
  Configs,   \* configurations the file may hold
  MaxImages  \* bound: images of one process

Hooks == <<"http", "milter", "grpc", "metrics", "reload">>
Protocols == {"http", "milter", "grpc"}

\* run_as_user and run_as_group: not set, a name nobody knows, a user with
\* supplementary groups, or one without (a number that no account has).
Users  == {"", "unknown", "grouped", "plain"}
Groups == {"", "unknown", "known"}

ASSUME LifecycleAssumption ==
  /\ MaxImages \in Nat \ {0}
  /\ Configs \subseteq [protocol : Protocols, metrics : BOOLEAN,
                       chroot : BOOLEAN, user : Users, group : Groups]

VARIABLES
  cfg,          \* the effective configuration of this image
  image,        \* the number of this image
  activated,    \* LISTEN_PID and LISTEN_FDS are set, for this process
  passed,       \* the descriptors systemd passed are still open
  applied,      \* DOPPELGAENGER_RUNTIME_SECURITY_APPLIED
  isolation,    \* privileged operations that have taken effect on the process
  asked,        \* history: the configuration that isolated the process, if one has
  pc,           \* the main goroutine: fx.New, App.Start, the wait, App.Stop
  hook,         \* Lifecycle.numStarted: hooks started and not yet stopped
  step,         \* what the OnStop hook being run does next
  expired,      \* the context of that hook has ended
  ready,        \* health.State.ready
  shuttingDown, \* health.State.shuttingDown
  listener,     \* the listener of the selected protocol
  serve,        \* its serve goroutine
  metrics,      \* the Prometheus endpoint is up
  stopping,     \* Fx has a shutdown signal, from outside or from Shutdowner
  hup,          \* a SIGHUP is in the channel of the reload hook
  rpc,          \* the reload goroutine
  open,         \* requests in progress
  seen          \* requests that have been made

hookVars   == <<hook, step, expired>>
healthVars == <<ready, shuttingDown>>
serveVars  == <<listener, serve, open, seen>>
securityVars == <<applied, isolation, asked>>
osVars     == <<activated, passed, securityVars>>
reloadVars == <<hup, rpc>>
vars == <<cfg, image, osVars, pc, hookVars, healthVars, serveVars, metrics, stopping, reloadVars>>

--------------------------------------------------------------------------------
(* health.State *)

MarkReady        == ready' = TRUE /\ shuttingDown' = FALSE
MarkNotReady     == ready' = FALSE /\ UNCHANGED shuttingDown
MarkShuttingDown == ready' = FALSE /\ shuttingDown' = TRUE

\* What /healthz answers.  Snapshot loads the two atomics one after the other; as
\* shuttingDown is never taken back within an image, that is one look at both.
Healthy == metrics /\ ready /\ ~shuttingDown

--------------------------------------------------------------------------------
(* fx.New: config.Load and ApplyRuntimeSecurity, before any hook runs *)

Exit == pc' = "exited"

runtimeSecurityRequested(c) == c.user # "" \/ c.group # "" \/ c.chroot

\* resolveIdentities: run_as_group is not looked at beside run_as_user.
Resolves(c) == IF c.user # "" THEN c.user # "unknown" ELSE c.group # "unknown"

\* The privileged operations in their order, and those a configuration leads to.
Privileged == <<"chroot", "groups", "gid", "uid">>

Operations(c) ==
  (IF c.chroot THEN {"chroot"} ELSE {})
    \cup (IF c.user = "grouped" THEN {"groups", "uid"}
          ELSE IF c.user # "" THEN {"uid"}
          ELSE IF c.group # "" THEN {"gid"} ELSE {})

FirstOperations(c, n) == Operations(c) \cap {Privileged[i] : i \in 1..n}

Isolates == pc = "invoke" /\ runtimeSecurityRequested(cfg) /\ ~applied /\ Resolves(cfg)

\* Mutant: an operation that fails is passed over.
IsolateBestEffort ==
  /\ Isolates /\ pc' = "start"
  /\ \E done \in 0..Len(Privileged) : isolation' = isolation \cup FirstOperations(cfg, done)
  /\ applied' = TRUE /\ asked' = {cfg}

\* ApplyRuntimeSecurity: every operation takes effect, then the marker is set.
Isolate ==
  /\ Isolates /\ pc' = "start"
  /\ isolation' = isolation \cup Operations(cfg)
  /\ applied' = TRUE /\ asked' = {cfg}

\* Nothing is asked for, or an earlier image has set the marker.
SkipIsolation ==
  /\ pc = "invoke" /\ (runtimeSecurityRequested(cfg) => applied)
  /\ pc' = "start" /\ UNCHANGED securityVars

Invoke ==
  /\ Isolate \/ SkipIsolation
  /\ UNCHANGED <<cfg, image, activated, passed, hookVars, healthVars, serveVars, metrics,
                 stopping, reloadVars>>

\* An operation fails after some have taken effect; after all of them, it is a file
\* missing in the chroot or the marker.
IsolationFails ==
  /\ Isolates /\ Exit
  /\ \E done \in 0..Len(Privileged) : isolation' = isolation \cup FirstOperations(cfg, done)
  /\ UNCHANGED <<cfg, image, activated, passed, applied, asked, hookVars, healthVars, serveVars,
                 metrics, stopping, reloadVars>>

\* config.Load, a constructor or resolveIdentities fails.
InvokeFails ==
  /\ pc = "invoke" /\ Exit
  /\ UNCHANGED <<cfg, image, osVars, hookVars, healthVars, serveVars, metrics, stopping, reloadVars>>

--------------------------------------------------------------------------------
(* App.Start: the OnStart hooks *)

Starts(h) == pc = "start" /\ hook < Len(Hooks) /\ Hooks[hook + 1] = h

Started ==
  /\ hook' = hook + 1
  /\ pc' = IF hook' = Len(Hooks) THEN "run" ELSE pc
  /\ UNCHANGED <<step, expired>>

\* A hook failed: Fx runs the OnStop hooks of those that had started.
StartFails(h) ==
  /\ Starts(h) /\ h # "reload"
  /\ h \in Protocols => h = cfg.protocol
  /\ h = "metrics" => cfg.metrics
  /\ pc' = "stop" /\ UNCHANGED hookVars
  /\ passed' = (passed /\ ~(activated /\ h \in Protocols))
  /\ UNCHANGED <<cfg, image, activated, securityVars, healthVars, serveVars, metrics,
                 stopping, reloadVars>>

StartInactive(h) ==
  /\ Starts(h) /\ h \in Protocols /\ h # cfg.protocol
  /\ Started
  /\ UNCHANGED <<cfg, image, osVars, healthVars, serveVars, metrics, stopping, reloadVars>>

\* ActivatedListeners and PickActivatedListener: the descriptors are duplicated and
\* closed, so only the first image can use them.
StartActivated(h) ==
  /\ Starts(h) /\ h = cfg.protocol /\ activated /\ passed
  /\ passed' = FALSE /\ listener' = "bound" /\ serve' = "accept"
  /\ MarkReady /\ Started
  /\ UNCHANGED <<cfg, image, activated, securityVars, metrics, stopping, reloadVars, open, seen>>

\* startMilterListener, startListener: bound before MarkReady.
StartBound(h) ==
  /\ Starts(h) /\ h = cfg.protocol /\ h # "http" /\ ~activated
  /\ listener' = "bound" /\ serve' = "accept"
  /\ MarkReady /\ Started
  /\ UNCHANGED <<cfg, image, osVars, metrics, stopping, reloadVars, open, seen>>

\* startServer of HTTP: ready, and the goroutine is left to bind the port.
StartUnbound(h) ==
  /\ Starts(h) /\ h = cfg.protocol /\ h = "http" /\ ~activated
  /\ serve' = "bind"
  /\ MarkReady /\ Started
  /\ UNCHANGED <<cfg, image, osVars, metrics, stopping, reloadVars, listener, open, seen>>

StartMetrics ==
  /\ Starts("metrics")
  /\ metrics' = cfg.metrics
  /\ Started
  /\ UNCHANGED <<cfg, image, osVars, healthVars, serveVars, stopping, reloadVars>>

StartReload ==
  /\ Starts("reload")
  /\ rpc' = "wait"
  /\ Started
  /\ UNCHANGED <<cfg, image, osVars, healthVars, serveVars, metrics, stopping, hup>>

--------------------------------------------------------------------------------
(* The serve goroutine *)

\* srv.ListenAndServe; after srv.Shutdown it returns ErrServerClosed at once.
ServeBinds ==
  /\ serve = "bind"
  /\ IF listener = "closed" THEN serve' = "returned" /\ UNCHANGED listener
                            ELSE serve' = "accept" /\ listener' = "bound"
  /\ UNCHANGED <<cfg, image, osVars, pc, hookVars, healthVars, open, seen, metrics, stopping, reloadVars>>

\* The port is taken, the certificate cannot be read, or Accept fails for good: the
\* Serve of HTTP and of gRPC closes the listener, that of Milter leaves it open.
ServeFails ==
  /\ \/ serve = "bind" /\ listener = "none" /\ UNCHANGED listener
     \/ /\ serve = "accept" /\ listener = "bound"
        /\ listener' = IF cfg.protocol = "milter" THEN "bound" ELSE "closed"
  /\ serve' = "failed"
  /\ UNCHANGED <<cfg, image, osVars, pc, hookVars, healthVars, open, seen, metrics, stopping, reloadVars>>

\* The goroutine of StartPrometheusServer only logs that its endpoint has failed.
MetricsFail ==
  /\ metrics /\ metrics' = FALSE
  /\ UNCHANGED <<cfg, image, osVars, pc, hookVars, healthVars, serveVars, stopping, reloadVars>>

\* ErrServerClosed, ErrServerStopped, net.ErrClosed: a stop, not a failure.
ServeReturns ==
  /\ serve = "accept" /\ listener = "closed"
  /\ serve' = "returned"
  /\ UNCHANGED <<cfg, image, osVars, pc, hookVars, healthVars, listener, open, seen, metrics,
                 stopping, reloadVars>>

\* serveHTTP, serveMilterAsync, serveGRPCAsync: MarkNotReady, then Shutdown.
ServeMarks ==
  /\ serve = "failed" /\ serve' = "shutdown"
  /\ MarkNotReady
  /\ UNCHANGED <<cfg, image, osVars, pc, hookVars, listener, open, seen, metrics, stopping, reloadVars>>

\* Mutant: a shutdown that is asked for before Fx waits for it is lost.
ShutdownLost ==
  /\ serve = "shutdown" /\ serve' = "returned"
  /\ stopping' = (stopping \/ pc = "run")
  /\ UNCHANGED <<cfg, image, osVars, pc, hookVars, healthVars, listener, open, seen, metrics, reloadVars>>

ServeShutsDown ==
  /\ serve = "shutdown" /\ serve' = "returned"
  /\ stopping' = TRUE
  /\ UNCHANGED <<cfg, image, osVars, pc, hookVars, healthVars, listener, open, seen, metrics, reloadVars>>

--------------------------------------------------------------------------------
(* Clients *)

Connect(c) ==
  /\ c \notin seen /\ serve = "accept" /\ listener = "bound"
  /\ open' = open \cup {c} /\ seen' = seen \cup {c}
  /\ UNCHANGED <<cfg, image, osVars, pc, hookVars, healthVars, listener, serve, metrics, stopping,
                 reloadVars>>

Finish(c) ==
  /\ c \in open /\ pc # "exited"
  /\ open' = open \ {c}
  /\ UNCHANGED <<cfg, image, osVars, pc, hookVars, healthVars, listener, serve, seen, metrics, stopping,
                 reloadVars>>

--------------------------------------------------------------------------------
(* App.Stop: the OnStop hooks, in reverse *)

Stops(h) == pc = "stop" /\ hook > 0 /\ Hooks[hook] = h

\* Fx takes the signal; it remembers one that came while the hooks were starting.
BeginStop ==
  /\ pc = "run" /\ stopping
  /\ pc' = "stop"
  /\ UNCHANGED <<cfg, image, osVars, hookVars, healthVars, serveVars, metrics, stopping, reloadVars>>

\* close(done) and signal.Stop.
StopReload ==
  /\ Stops("reload")
  /\ hook' = hook - 1 /\ UNCHANGED <<step, expired>>
  /\ UNCHANGED <<cfg, image, osVars, pc, healthVars, serveVars, metrics, stopping, reloadVars>>

\* Every other OnStop hook begins with MarkShuttingDown, the inactive ones too.
StopMarks ==
  /\ \E h \in Protocols \cup {"metrics"} : Stops(h)
  /\ step = "mark" /\ step' = "close" /\ UNCHANGED <<hook, expired>>
  /\ MarkShuttingDown
  /\ UNCHANGED <<cfg, image, osVars, pc, serveVars, metrics, stopping, reloadVars>>

\* srv.Shutdown, GracefulStop and listener.Close: no new requests from here on.
StopCloses(h) ==
  /\ Stops(h) /\ h \in Protocols
  /\ step = "close" /\ step' = "drain" /\ expired' = FALSE /\ UNCHANGED hook
  /\ listener' = IF h = cfg.protocol THEN "closed" ELSE listener
  /\ UNCHANGED <<cfg, image, osVars, pc, healthVars, serve, open, seen, metrics, stopping, reloadVars>>

\* Observability.Shutdown, bounded by five seconds.
StopMetrics ==
  /\ Stops("metrics")
  /\ step = "close" /\ step' = "mark" /\ hook' = hook - 1 /\ UNCHANGED expired
  /\ metrics' = FALSE
  /\ UNCHANGED <<cfg, image, osVars, pc, healthVars, serveVars, stopping, reloadVars>>

\* The five seconds of HTTP, or the stop timeout of Fx for gRPC, are over.
DrainExpires(h) ==
  /\ Stops(h) /\ h \in {"http", "grpc"} /\ h = cfg.protocol /\ step = "drain" /\ ~expired
  /\ expired' = TRUE
  /\ UNCHANGED <<cfg, image, osVars, pc, hook, step, healthVars, serveVars, metrics, stopping, reloadVars>>

\* Mutant: the gRPC and HTTP hooks do not wait, as the one of Milter does not.
Undrained(h) == FALSE

Draining(h) == h \in {"http", "grpc"} /\ h = cfg.protocol /\ open # {} /\ ~expired

\* The hook returns: nothing to wait for, everything has ended, or its time is over.
\* When gRPC's time is over so is that of Fx, and the remaining hooks are skipped.
StopDrained(h) ==
  /\ Stops(h) /\ h \in Protocols
  /\ step = "drain" /\ ~Draining(h)
  /\ step' = "mark" /\ UNCHANGED expired
  /\ hook' = IF h = "grpc" /\ h = cfg.protocol /\ expired THEN 0 ELSE hook - 1
  /\ UNCHANGED <<cfg, image, osVars, pc, healthVars, serveVars, metrics, stopping, reloadVars>>

Stopped ==
  /\ pc = "stop" /\ hook = 0 /\ Exit
  /\ UNCHANGED <<cfg, image, osVars, hookVars, healthVars, serveVars, metrics, stopping, reloadVars>>

--------------------------------------------------------------------------------
(* Signals and reload *)

\* SIGTERM and SIGINT, once Fx waits for them.
Term ==
  /\ pc = "run" /\ stopping' = TRUE
  /\ UNCHANGED <<cfg, image, osVars, pc, hookVars, healthVars, serveVars, metrics, reloadVars>>

\* signal.Notify: the channel holds one SIGHUP.
Hup ==
  /\ hook = Len(Hooks) /\ hup' = TRUE
  /\ UNCHANGED <<cfg, image, osVars, pc, hookVars, healthVars, serveVars, metrics, stopping, rpc>>

\* Before signal.Notify and after signal.Stop the default action ends the process.
SignalKills ==
  /\ pc \in {"invoke", "start", "stop"} /\ hook < Len(Hooks)
  /\ pc' = "killed"
  /\ UNCHANGED <<cfg, image, osVars, hookVars, healthVars, serveVars, metrics, stopping, reloadVars>>

\* select on done and ch: with both ready, either.
ReloadTakes ==
  /\ rpc = "wait" /\ hup /\ pc \in {"start", "run", "stop"}
  /\ hup' = FALSE /\ rpc' = "load"
  /\ UNCHANGED <<cfg, image, osVars, pc, hookVars, healthVars, serveVars, metrics, stopping>>

ReloadDone ==
  /\ rpc = "wait" /\ pc = "stop" /\ hook < Len(Hooks)
  /\ rpc' = "off"
  /\ UNCHANGED <<cfg, image, osVars, pc, hookVars, healthVars, serveVars, metrics, stopping, hup>>

\* handleSIGHUP: config.Load.
ReloadLoads ==
  /\ rpc = "load" /\ pc \in {"run", "stop"}
  /\ rpc' \in {"wait", "exec"}
  /\ UNCHANGED <<cfg, image, osVars, pc, hookVars, healthVars, serveVars, metrics, stopping, hup>>

\* Neither the executable's path nor /proc/self/exe can be executed.
ExecFails ==
  /\ rpc = "exec" /\ pc \in {"run", "stop"}
  /\ rpc' = "wait"
  /\ UNCHANGED <<cfg, image, osVars, pc, hookVars, healthVars, serveVars, metrics, stopping, hup>>

Fresh ==
  /\ pc' = "invoke" /\ hook' = 0 /\ step' = "mark" /\ expired' = FALSE
  /\ ready' = FALSE /\ shuttingDown' = FALSE
  /\ listener' = "none" /\ serve' = "none" /\ open' = {}
  /\ metrics' = FALSE /\ stopping' = FALSE /\ hup' = FALSE /\ rpc' = "off"

\* execProcess: descriptors but the passed ones are close-on-exec; a shutdown in
\* progress is forgotten.
Exec ==
  /\ rpc = "exec" /\ pc \in {"run", "stop"} /\ image < MaxImages
  /\ image' = image + 1 /\ cfg' \in Configs
  /\ Fresh
  /\ UNCHANGED <<osVars, seen>>

--------------------------------------------------------------------------------
Init ==
  /\ cfg \in Configs /\ image = 1
  /\ activated \in BOOLEAN /\ passed = activated /\ applied = FALSE /\ isolation = {} /\ asked = {}
  /\ pc = "invoke" /\ hook = 0 /\ step = "mark" /\ expired = FALSE
  /\ ready = FALSE /\ shuttingDown = FALSE
  /\ listener = "none" /\ serve = "none" /\ open = {} /\ seen = {}
  /\ metrics = FALSE /\ stopping = FALSE /\ hup = FALSE /\ rpc = "off"

StartStep ==
  \/ Invoke \/ StartMetrics \/ StartReload
  \/ \E h \in Protocols : StartInactive(h) \/ StartActivated(h) \/ StartBound(h) \/ StartUnbound(h)

StopStep ==
  \/ BeginStop \/ StopReload \/ StopMarks \/ StopMetrics \/ Stopped
  \/ \E h \in Protocols : StopCloses(h) \/ StopDrained(h)

MainStep == StartStep \/ StopStep

ServeStep == ServeBinds \/ ServeReturns \/ ServeMarks \/ ServeShutsDown

ReloadStep == ReloadTakes \/ ReloadDone \/ ReloadLoads \/ ExecFails \/ Exec

Ended == pc \in {"exited", "killed"} /\ UNCHANGED vars

Running == pc \notin {"exited", "killed"}

ProcessStep ==
  \/ StartStep \/ StopStep \/ InvokeFails \/ IsolationFails
  \/ \E h \in Protocols : DrainExpires(h)
  \/ \E h \in Protocols \cup {"metrics"} : StartFails(h)
  \/ ServeStep \/ ServeFails \/ MetricsFail
  \/ ReloadStep
  \/ \E c \in Conns : Connect(c) \/ Finish(c)
  \/ Term \/ Hup \/ SignalKills

Next ==
  \/ Running /\ ProcessStep
  \/ Ended

Spec == Init /\ [][Next]_vars

\* The goroutines of the process run and its timers fire; nothing is assumed of
\* clients, of signals or of a reload.
FairSpec ==
  /\ Spec
  /\ WF_vars(Running /\ (MainStep \/ InvokeFails \/ IsolationFails \/ \E h \in Protocols \cup {"metrics"} : StartFails(h)))
  /\ WF_vars(Running /\ ServeStep)
  /\ WF_vars(Running /\ \E h \in Protocols : DrainExpires(h))

--------------------------------------------------------------------------------
(* Properties *)

\* Every variable has its type.
TypeOK ==
  /\ cfg \in Configs /\ image \in 1..MaxImages
  /\ {activated, passed, applied, expired, ready, shuttingDown, metrics, stopping, hup} \subseteq BOOLEAN
  /\ isolation \subseteq {"chroot", "groups", "gid", "uid"} /\ asked \subseteq Configs
  /\ pc \in {"invoke", "start", "run", "stop", "exited", "killed"}
  /\ hook \in 0..Len(Hooks) /\ step \in {"mark", "close", "drain"}
  /\ listener \in {"none", "bound", "closed"}
  /\ serve \in {"none", "bind", "accept", "failed", "shutdown", "returned"}
  /\ rpc \in {"off", "wait", "load", "exec"}
  /\ open \subseteq seen /\ seen \subseteq Conns

IsolatedAs(c) ==
  /\ c.chroot => "chroot" \in isolation
  /\ c.user # "" => "uid" \in isolation
  /\ c.user = "grouped" => "groups" \in isolation
  /\ c.user = "" /\ c.group # "" => "gid" \in isolation

\* While /healthz answers 200, a process whose configuration asks for isolation has
\* every part of the isolation that the first of its images to ask had asked for, and
\* its listener takes connections, or its goroutine is about to bind it (HTTP without
\* socket activation) or has just failed.
HealthSound ==
  Healthy =>
    /\ runtimeSecurityRequested(cfg) => asked # {}
    /\ \A c \in asked : IsolatedAs(c)
    /\ \/ listener = "bound"
       \/ serve = "bind" /\ cfg.protocol = "http" /\ ~activated
       \/ serve = "failed"

\* "GET /healthz and HEAD /healthz return 200 only after the selected protocol
\* listener is ready" (docs/operator/observability.md:35): by then it has been bound.
HealthyOnceBound == Healthy => listener # "none"

\* A process that stops in order leaves no HTTP request and no RPC behind, unless the
\* time for them was over; requests do not come after their listener was closed.
Drained ==
  pc = "exited" /\ cfg.protocol # "milter" /\ open # {} => expired

\* A process that was asked to stop, or whose listener failed, or whose start failed,
\* ends, unless a reload that was under way replaces its image; so it does however
\* long clients stay, and also when the listener fails while hooks are starting.
StopEnds ==
  \A i \in 1..MaxImages :
    (image = i /\ (stopping \/ serve = "failed" \/ pc = "stop")) ~> (~Running \/ image # i)
================================================================================
