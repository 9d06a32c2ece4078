---------------------------- MODULE LifecycleProofs ----------------------------
(***************************************************************************)
(* While /healthz answers 200 the process is isolated and its listener is  *)
(* up, and a process that stops in order leaves no HTTP request and no RPC *)
(* behind: for every sequence of starts, failures, signals and reloads.    *)
(***************************************************************************)
EXTENDS Lifecycle, TLAPS

\* Where a hook stands in Hooks.
Place(h) == IF h = "http" THEN 1
            ELSE IF h = "milter" THEN 2
            ELSE IF h = "grpc" THEN 3
            ELSE IF h = "metrics" THEN 4
            ELSE 5

Own == Place(cfg.protocol)

Types ==
  /\ cfg \in Configs /\ hook \in 0..5
  /\ pc \in {"invoke", "start", "run", "stop", "exited", "killed"}
  /\ step \in {"mark", "close", "drain"}
  /\ activated \in BOOLEAN /\ applied \in BOOLEAN /\ expired \in BOOLEAN
  /\ ready \in BOOLEAN /\ shuttingDown \in BOOLEAN
  /\ listener \in {"none", "bound", "closed"}
  /\ serve \in {"none", "bind", "accept", "failed", "shutdown", "returned"}

\* No hook runs in a process that is not isolated as it was asked to be.
SecureInv ==
  /\ applied => asked # {}
  /\ (pc \in {"start", "run", "stop"} \/ ready) /\ runtimeSecurityRequested(cfg) => applied

\* What an image asked for is never taken back.
AskedInv == \A c \in asked : IsolatedAs(c)

\* Where the main goroutine is, which hooks have started and how far an OnStop hook is.
StepInv ==
  /\ pc = "invoke" => hook = 0
  /\ pc \in {"invoke", "start", "run"} => step = "mark"
  /\ pc = "run" => hook = 5
  /\ step # "mark" => shuttingDown

\* The listener and its goroutine, before their hook has started and while ready.
BindInv ==
  /\ serve = "bind" => cfg.protocol = "http" /\ ~activated
  /\ serve = "accept" => listener # "none"
  /\ ready /\ ~shuttingDown => listener = "bound" \/ serve \in {"bind", "failed"}
  /\ listener = "closed" /\ ready /\ ~shuttingDown => serve = "failed"
  /\ pc \in {"invoke", "start"} /\ hook < Own =>
       listener = "none" /\ serve = "none" /\ ~ready /\ open = {}

\* Once the hook of the listener has been stopped, or if it never started, nobody can
\* connect, and what was open has ended unless the last of the hooks ran out of time.
DrainInv ==
  /\ pc = "stop" /\ hook < Own =>
       /\ (listener = "none" /\ serve = "none") \/ listener = "closed"
       /\ cfg.protocol # "milter" => open = {} \/ (expired /\ hook = 0)
  /\ pc = "stop" /\ hook = Own /\ step = "drain" => listener = "closed"
  /\ Drained

LifeInv == Types /\ SecureInv /\ AskedInv /\ StepInv /\ BindInv /\ DrainInv

--------------------------------------------------------------------------------
\* The hooks run in the order of Hooks.
LEMMA HookOrder ==
  ASSUME Types
  PROVE  /\ Len(Hooks) = 5
         /\ \A h \in Protocols \cup {"metrics", "reload"} :
              /\ Starts(h) => pc = "start" /\ hook + 1 = Place(h)
              /\ Stops(h) => pc = "stop" /\ hook = Place(h)
<1>1. Len(Hooks) = 5 /\ Hooks[1] = "http" /\ Hooks[2] = "milter" /\ Hooks[3] = "grpc"
      /\ Hooks[4] = "metrics" /\ Hooks[5] = "reload"
  BY DEF Hooks
<1>2. ASSUME NEW i \in 1..5, NEW h \in Protocols \cup {"metrics", "reload"}, Hooks[i] = h
      PROVE  i = Place(h)
  <2>1. i = 1 \/ i = 2 \/ i = 3 \/ i = 4 \/ i = 5
    OBVIOUS
  <2> QED BY <1>1, <1>2, <2>1 DEF Place, Protocols
<1>3. ASSUME NEW h \in Protocols \cup {"metrics", "reload"}, Starts(h)
      PROVE  pc = "start" /\ hook + 1 = Place(h)
  <2>1. pc = "start" /\ hook + 1 \in 1..5 /\ Hooks[hook + 1] = h
    BY <1>1, <1>3 DEF Starts, Types
  <2> QED BY <2>1, <1>2
<1>4. ASSUME NEW h \in Protocols \cup {"metrics", "reload"}, Stops(h)
      PROVE  pc = "stop" /\ hook = Place(h)
  <2>1. pc = "stop" /\ hook \in 1..5 /\ Hooks[hook] = h
    BY <1>4 DEF Stops, Types
  <2> QED BY <2>1, <1>2
<1> QED BY <1>1, <1>3, <1>4

LEMMA OwnPlace ==
  ASSUME cfg \in Configs
  PROVE  /\ cfg.protocol \in Protocols /\ Own \in 1..3
         /\ cfg.protocol = "http" => Own = 1
         /\ cfg.protocol = "milter" => Own = 2
         /\ cfg.protocol = "grpc" => Own = 3
<1>1. cfg.protocol \in Protocols
  BY LifecycleAssumption
<1> QED BY <1>1 DEF Protocols, Own, Place

LEMMA InitLife == Init => LifeInv
<1> SUFFICES ASSUME Init PROVE LifeInv
  OBVIOUS
<1>1. Types
  <2>1. hook \in 0..5
    BY DEF Init
  <2>2. /\ activated \in BOOLEAN /\ applied \in BOOLEAN /\ expired \in BOOLEAN
        /\ ready \in BOOLEAN /\ shuttingDown \in BOOLEAN
    BY Zenon DEF Init
  <2>3. /\ cfg \in Configs /\ pc = "invoke" /\ step = "mark" /\ listener = "none" /\ serve = "none"
    BY DEF Init
  <2> QED BY <2>1, <2>2, <2>3 DEF Types
<1>2. 0 < Own
  BY <1>1, OwnPlace DEF Types
<1>3. SecureInv /\ AskedInv /\ StepInv
  BY DEF Init, SecureInv, AskedInv, StepInv
<1>4. BindInv
  BY <1>2 DEF Init, BindInv
<1>5. DrainInv
  BY DEF Init, DrainInv, Drained
<1> QED BY <1>1, <1>3, <1>4, <1>5 DEF LifeInv

LEMMA ImageKept == cfg' = cfg => Own' = Own
  BY DEF Own, Place

LEMMA AskedKept == AskedInv /\ UNCHANGED <<isolation, asked>> => AskedInv'
  BY DEF AskedInv, IsolatedAs

LEMMA QuietLife ==
  ASSUME LifeInv,
         UNCHANGED <<cfg, activated, applied, isolation, asked, pc, hookVars, healthVars, listener, serve, open>>
  PROVE  LifeInv'
<1>1. Own' = Own
  BY ImageKept
<1>2. AskedInv'
  BY AskedKept DEF LifeInv
<1>3. SecureInv'
  BY DEF LifeInv, SecureInv, healthVars, runtimeSecurityRequested
<1> QED BY <1>1, <1>2, <1>3 DEF LifeInv, Types, StepInv, BindInv, DrainInv, Drained, hookVars, healthVars

\* Isolate leaves the process with all that its configuration asks for.
LEMMA IsolateAsked ==
  ASSUME Types, AskedInv, Isolate
  PROVE  AskedInv'
<1>1. /\ asked' = {cfg} /\ isolation' = isolation \cup Operations(cfg)
  BY DEF Isolate
<1>2. cfg.user \in Users /\ cfg.group \in Groups /\ cfg.chroot \in BOOLEAN
  BY LifecycleAssumption DEF Types
<1>3. Operations(cfg) \subseteq isolation'
  BY <1>1
<1>4. cfg.chroot => "chroot" \in isolation'
  BY <1>3 DEF Operations
<1>5. cfg.user # "" => "uid" \in isolation'
  BY <1>2, <1>3 DEF Operations, Users
<1>6. cfg.user = "grouped" => "groups" \in isolation'
  BY <1>3 DEF Operations
<1>7. cfg.user = "" /\ cfg.group # "" => "gid" \in isolation'
  BY <1>3 DEF Operations
<1> QED BY <1>1, <1>4, <1>5, <1>6, <1>7 DEF AskedInv, IsolatedAs

LEMMA InvokeLife ==
  ASSUME LifeInv, Invoke \/ InvokeFails \/ IsolationFails
  PROVE  LifeInv'
<1>0. Types /\ SecureInv /\ AskedInv /\ StepInv /\ BindInv /\ DrainInv /\ Own \in 1..3
  BY OwnPlace DEF LifeInv, Types
<1>1. /\ UNCHANGED <<cfg, activated, hook, step, expired, ready, shuttingDown, listener, serve, open>>
      /\ pc = "invoke" /\ pc' \in {"start", "exited"}
  BY DEF Invoke, Isolate, Isolates, SkipIsolation, InvokeFails, IsolationFails, Exit, osVars,
         hookVars, healthVars, serveVars
<1>2. Own' = Own /\ hook = 0 /\ hook < Own
  BY <1>0, <1>1, ImageKept DEF StepInv
<1>3. listener = "none" /\ serve = "none" /\ ~ready /\ open = {}
  BY <1>0, <1>1, <1>2 DEF BindInv
<1>4. /\ applied' \in BOOLEAN /\ (applied' => asked' # {}) /\ AskedInv'
      /\ pc' = "start" /\ runtimeSecurityRequested(cfg) => applied'
  <2>1. CASE Isolate
    <3>1. applied' = TRUE /\ asked' # {}
      BY <2>1 DEF Isolate
    <3>2. AskedInv'
      BY <2>1, <1>0, IsolateAsked
    <3> QED BY <3>1, <3>2, Zenon
  <2>2. CASE SkipIsolation
    <3>1. UNCHANGED <<applied, isolation, asked>> /\ (runtimeSecurityRequested(cfg) => applied)
      BY <2>2 DEF SkipIsolation, securityVars
    <3>2. AskedInv'
      BY <3>1, <1>0, AskedKept
    <3> QED BY <3>1, <3>2, <1>0 DEF Types, SecureInv
  <2>3. CASE InvokeFails
    <3>1. UNCHANGED <<applied, isolation, asked>> /\ pc' = "exited"
      BY <2>3 DEF InvokeFails, Exit, osVars, securityVars
    <3>2. AskedInv'
      BY <3>1, <1>0, AskedKept
    <3> QED BY <3>1, <3>2, <1>0 DEF Types, SecureInv
  <2>4. CASE IsolationFails
    <3>1. UNCHANGED <<applied, asked>> /\ pc' = "exited" /\ isolation \subseteq isolation'
      BY <2>4 DEF IsolationFails, Exit
    <3>2. AskedInv'
      BY <3>1, <1>0 DEF AskedInv, IsolatedAs
    <3> QED BY <3>1, <3>2, <1>0 DEF Types, SecureInv
  <2> QED BY <2>1, <2>2, <2>3, <2>4 DEF Invoke
<1>5. Types'
  BY <1>0, <1>1, <1>4 DEF Types
<1>6. SecureInv' /\ StepInv'
  BY <1>0, <1>1, <1>3, <1>4 DEF SecureInv, StepInv, runtimeSecurityRequested
<1>7. BindInv' /\ DrainInv'
  BY <1>0, <1>1, <1>2, <1>3 DEF BindInv, DrainInv, Drained
<1> QED BY <1>4, <1>5, <1>6, <1>7 DEF LifeInv

\* A hook that fails leaves App.Start for App.Stop.
LEMMA StartFailsLife ==
  ASSUME LifeInv, NEW h \in Protocols \cup {"metrics"}, StartFails(h)
  PROVE  LifeInv'
<1>0. Types /\ SecureInv /\ AskedInv /\ StepInv /\ BindInv /\ DrainInv /\ Own \in 1..3
  BY OwnPlace DEF LifeInv, Types
<1>1. /\ UNCHANGED <<cfg, activated, applied, isolation, asked, hook, step, expired, ready, shuttingDown,
                     listener, serve, open>>
      /\ pc = "start" /\ pc' = "stop"
  BY DEF StartFails, Starts, hookVars, healthVars, serveVars, securityVars
<1>2. Own' = Own
  BY <1>1, ImageKept
<1>3. Types' /\ SecureInv' /\ AskedInv' /\ StepInv'
  BY <1>0, <1>1, AskedKept DEF Types, SecureInv, StepInv, runtimeSecurityRequested
<1>4. BindInv'
  BY <1>0, <1>1, <1>2 DEF BindInv
<1>5. DrainInv'
  BY <1>0, <1>1, <1>2 DEF BindInv, StepInv, DrainInv, Drained
<1> QED BY <1>3, <1>4, <1>5 DEF LifeInv

\* A hook that has nothing to bind.
LEMMA StartIdleLife ==
  ASSUME LifeInv, StartMetrics \/ StartReload \/ \E h \in Protocols : StartInactive(h)
  PROVE  LifeInv'
<1>0. Types /\ SecureInv /\ AskedInv /\ StepInv /\ BindInv /\ DrainInv /\ Own \in 1..3
  BY OwnPlace DEF LifeInv, Types
<1>1. PICK h \in Protocols \cup {"metrics", "reload"} : Starts(h) /\ h # cfg.protocol /\ Started
  BY <1>0, OwnPlace DEF StartMetrics, StartReload, StartInactive, Protocols, Types
<1>2. /\ UNCHANGED <<cfg, activated, applied, isolation, asked, step, expired, ready, shuttingDown,
                     listener, serve, open>>
      /\ pc = "start" /\ hook' = hook + 1 /\ hook + 1 = Place(h) /\ hook < 5
      /\ pc' = IF hook' = 5 THEN "run" ELSE pc
  BY <1>0, <1>1, HookOrder DEF StartMetrics, StartReload, StartInactive, Started, Starts,
       osVars, securityVars, healthVars, serveVars
<1>3. Own' = Own
  BY <1>2, ImageKept
<1>4. hook + 1 # Own
  BY <1>0, <1>1, <1>2, OwnPlace DEF Place, Protocols, Types
<1>5. Types' /\ SecureInv' /\ AskedInv' /\ StepInv'
  <2>1. AskedInv'
    BY <1>0, <1>2, AskedKept
  <2>2. SecureInv'
    BY <1>0, <1>2 DEF SecureInv, runtimeSecurityRequested
  <2> QED BY <2>1, <2>2, <1>0, <1>2 DEF Types, StepInv
<1>6. BindInv'
  BY <1>0, <1>2, <1>3, <1>4 DEF BindInv, Types
<1>7. DrainInv'
  BY <1>0, <1>2, <1>3 DEF DrainInv, Drained
<1> QED BY <1>5, <1>6, <1>7 DEF LifeInv

\* The hook of the selected protocol: ready, and bound or about to bind.
LEMMA StartOwnLife ==
  ASSUME LifeInv, NEW h \in Protocols, StartActivated(h) \/ StartBound(h) \/ StartUnbound(h)
  PROVE  LifeInv'
<1>0. Types /\ SecureInv /\ AskedInv /\ StepInv /\ BindInv /\ DrainInv /\ Own \in 1..3
  BY OwnPlace DEF LifeInv, Types
<1>1. /\ UNCHANGED <<cfg, activated, applied, isolation, asked, step, expired, open>>
      /\ pc = "start" /\ hook' = hook + 1 /\ hook < 5 /\ h = cfg.protocol
      /\ pc' = IF hook' = 5 THEN "run" ELSE pc
      /\ ready' = TRUE /\ shuttingDown' = FALSE
  BY <1>0, HookOrder DEF StartActivated, StartBound, StartUnbound, Started, Starts, MarkReady, osVars, securityVars
<1>2. \/ listener' = "bound" /\ serve' = "accept"
      \/ listener' = listener /\ serve' = "bind" /\ cfg.protocol = "http" /\ ~activated
  BY DEF StartActivated, StartBound, StartUnbound
<1>3. Own' = Own /\ hook < Own /\ ~(hook + 1 < Own)
  <2>1. Own' = Own
    BY <1>1, ImageKept
  <2>2. hook + 1 = Place(h)
    BY <1>0, HookOrder DEF StartActivated, StartBound, StartUnbound
  <2>3. hook + 1 = Own
    BY <2>2, <1>1 DEF Own
  <2> QED BY <2>1, <2>3, <1>0 DEF Types
<1>4. listener = "none"
  BY <1>0, <1>1, <1>3 DEF BindInv
<1>5. Types'
  <2>1. ready' \in BOOLEAN /\ shuttingDown' \in BOOLEAN
    BY <1>1, Zenon
  <2> QED BY <2>1, <1>0, <1>1, <1>2, <1>4 DEF Types
<1>6. SecureInv' /\ AskedInv' /\ StepInv'
  BY <1>0, <1>1, AskedKept DEF Types, SecureInv, StepInv, runtimeSecurityRequested
<1>7. BindInv'
  BY <1>0, <1>1, <1>2, <1>3, <1>4 DEF BindInv, Types
<1>8. DrainInv'
  BY <1>0, <1>1, <1>3 DEF DrainInv, Drained
<1> QED BY <1>5, <1>6, <1>7, <1>8 DEF LifeInv

\* The serve goroutine and the clients: the hooks stay where they are.
LEMMA ServeLife ==
  ASSUME LifeInv, Running,
         \/ ServeStep \/ ServeFails
         \/ \E c \in Conns : Connect(c) \/ Finish(c)
  PROVE  LifeInv'
<1>0. Types /\ SecureInv /\ AskedInv /\ StepInv /\ BindInv /\ DrainInv /\ Own \in 1..3
  BY OwnPlace DEF LifeInv, Types
<1>1. /\ UNCHANGED <<cfg, activated, applied, isolation, asked, pc, hook, step, expired, shuttingDown>>
      /\ pc # "exited"
  BY DEF ServeStep, ServeBinds, ServeReturns, ServeMarks, ServeShutsDown, ServeFails, Connect, Finish,
         MarkNotReady, osVars, securityVars, hookVars, healthVars, Running
<1>2. Own' = Own
  BY <1>1, ImageKept
<1>3. \/ /\ serve = "bind" /\ listener = "closed" /\ serve' = "returned"
         /\ UNCHANGED <<listener, ready, open>>
      \/ /\ serve = "bind" /\ listener # "closed" /\ serve' = "accept" /\ listener' = "bound"
         /\ UNCHANGED <<ready, open>>
      \/ /\ serve \in {"bind", "accept"} /\ listener # "closed" /\ serve' = "failed"
         /\ listener' \in {listener, "closed"} /\ UNCHANGED <<ready, open>>
         /\ serve = "bind" => listener' = listener
      \/ /\ serve = "accept" /\ listener = "closed" /\ serve' = "returned"
         /\ UNCHANGED <<listener, ready, open>>
      \/ /\ serve = "failed" /\ serve' = "shutdown" /\ ready' = FALSE /\ UNCHANGED <<listener, open>>
      \/ /\ serve = "shutdown" /\ serve' = "returned" /\ UNCHANGED <<listener, ready, open>>
      \/ /\ serve = "accept" /\ listener = "bound" /\ UNCHANGED <<listener, serve, ready>>
      \/ open' \subseteq open /\ UNCHANGED <<listener, serve, ready>>
  <2>1. CASE ServeBinds \/ ServeReturns \/ ServeMarks \/ ServeShutsDown
    BY <2>1 DEF ServeBinds, ServeReturns, ServeMarks, ServeShutsDown, MarkNotReady, healthVars
  <2>2. CASE ServeFails
    BY <2>2 DEF ServeFails, healthVars
  <2>3. ASSUME NEW c \in Conns, Connect(c) \/ Finish(c)
        PROVE  \/ serve = "accept" /\ listener = "bound" /\ UNCHANGED <<listener, serve, ready>>
               \/ open' \subseteq open /\ UNCHANGED <<listener, serve, ready>>
    BY <2>3 DEF Connect, Finish, healthVars
  <2> QED BY <2>1, <2>2, <2>3 DEF ServeStep
<1>4. Types'
  <2>1. ready' \in BOOLEAN
    BY <1>0, <1>3, Zenon DEF Types
  <2>2. listener' \in {"none", "bound", "closed"}
    BY <1>0, <1>3 DEF Types
  <2>3. serve' \in {"none", "bind", "accept", "failed", "shutdown", "returned"}
    BY <1>0, <1>3 DEF Types
  <2> QED BY <2>1, <2>2, <2>3, <1>0, <1>1 DEF Types
<1>5. ready' => ready
  BY <1>3, Zenon
<1>6. SecureInv' /\ AskedInv' /\ StepInv'
  BY <1>0, <1>1, <1>5, AskedKept DEF SecureInv, StepInv, runtimeSecurityRequested
<1>7. BindInv'
  BY <1>0, <1>1, <1>2, <1>3, <1>5 DEF BindInv, Types
<1>8. DrainInv'
  BY <1>0, <1>1, <1>2, <1>3 DEF BindInv, DrainInv, Drained, Types
<1> QED BY <1>4, <1>6, <1>7, <1>8 DEF LifeInv

\* The main goroutine enters App.Stop, leaves it, or is killed.
LEMMA LeaveLife ==
  ASSUME LifeInv, BeginStop \/ Stopped \/ SignalKills
  PROVE  LifeInv'
<1>0. Types /\ SecureInv /\ AskedInv /\ StepInv /\ BindInv /\ DrainInv /\ Own \in 1..3
  BY OwnPlace DEF LifeInv, Types
<1>1. /\ UNCHANGED <<cfg, activated, applied, isolation, asked, hook, step, expired, ready, shuttingDown,
                     listener, serve, open>>
      /\ \/ pc = "run" /\ pc' = "stop"
         \/ pc = "stop" /\ hook = 0 /\ pc' = "exited"
         \/ pc \in {"invoke", "start", "stop"} /\ pc' = "killed"
  BY DEF BeginStop, Stopped, SignalKills, Exit, osVars, securityVars, hookVars, healthVars, serveVars
<1>2. Own' = Own
  BY <1>1, ImageKept
<1>3. Types' /\ SecureInv' /\ AskedInv' /\ StepInv'
  <2>1. AskedInv'
    BY <1>0, <1>1, AskedKept
  <2>2. SecureInv'
    BY <1>0, <1>1 DEF SecureInv, runtimeSecurityRequested
  <2> QED BY <2>1, <2>2, <1>0, <1>1 DEF Types, StepInv
<1>4. BindInv'
  BY <1>0, <1>1, <1>2 DEF BindInv
<1>5. DrainInv'
  BY <1>0, <1>1, <1>2 DEF StepInv, DrainInv, Drained
<1> QED BY <1>3, <1>4, <1>5 DEF LifeInv

\* The OnStop hooks but the draining.
LEMMA StopLife ==
  ASSUME LifeInv, StopReload \/ StopMarks \/ StopMetrics
  PROVE  LifeInv'
<1>0. Types /\ SecureInv /\ AskedInv /\ StepInv /\ BindInv /\ DrainInv /\ Own \in 1..3
  BY OwnPlace DEF LifeInv, Types
<1>1. /\ UNCHANGED <<cfg, activated, applied, isolation, asked, expired, listener, serve, open>>
      /\ pc = "stop" /\ pc' = "stop"
  BY <1>0, HookOrder DEF StopReload, StopMarks, StopMetrics, Stops, osVars, securityVars, serveVars
<1>2. Own' = Own
  BY <1>1, ImageKept
<1>3. \/ hook = 5 /\ hook' = 4 /\ UNCHANGED <<step, ready, shuttingDown>>
      \/ hook' = hook /\ step' = "close" /\ ready' = FALSE /\ shuttingDown' = TRUE
      \/ hook = 4 /\ hook' = 3 /\ step' = "mark" /\ UNCHANGED <<ready, shuttingDown>>
  <2>1. CASE StopReload
    <3>1. hook = 5
      BY <2>1, <1>0, HookOrder DEF StopReload, Place, Protocols
    <3> QED BY <2>1, <3>1 DEF StopReload, healthVars
  <2>2. CASE StopMarks
    BY <2>2 DEF StopMarks, MarkShuttingDown
  <2>3. CASE StopMetrics
    <3>1. hook = 4
      BY <2>3, <1>0, HookOrder DEF StopMetrics, Place, Protocols
    <3> QED BY <2>3, <3>1 DEF StopMetrics, healthVars
  <2> QED BY <2>1, <2>2, <2>3
<1>4. Types'
  <2>1. ready' \in BOOLEAN /\ shuttingDown' \in BOOLEAN
    BY <1>0, <1>3, Zenon DEF Types
  <2>2. hook' \in 0..5 /\ step' \in {"mark", "close", "drain"}
    BY <1>0, <1>3 DEF Types
  <2> QED BY <2>1, <2>2, <1>0, <1>1 DEF Types
<1>5. SecureInv' /\ AskedInv' /\ StepInv'
  BY <1>0, <1>1, <1>3, AskedKept DEF SecureInv, StepInv, runtimeSecurityRequested, Types
<1>6. BindInv'
  BY <1>0, <1>1, <1>2, <1>3 DEF BindInv, Types
<1>7. DrainInv'
  BY <1>0, <1>1, <1>2, <1>3 DEF DrainInv, Drained, Types
<1> QED BY <1>4, <1>5, <1>6, <1>7 DEF LifeInv

\* Close, drain and time-out of a protocol's hook.
LEMMA DrainLife ==
  ASSUME LifeInv, NEW h \in Protocols, StopCloses(h) \/ DrainExpires(h) \/ StopDrained(h)
  PROVE  LifeInv'
<1>0. Types /\ SecureInv /\ AskedInv /\ StepInv /\ BindInv /\ DrainInv /\ Own \in 1..3
  BY OwnPlace DEF LifeInv, Types
<1>1. /\ UNCHANGED <<cfg, activated, applied, isolation, asked, ready, shuttingDown, serve, open>>
      /\ pc = "stop" /\ pc' = "stop" /\ hook = Place(h) /\ hook \in 1..3
  BY <1>0, HookOrder DEF StopCloses, DrainExpires, StopDrained, Stops, osVars, securityVars, healthVars, serveVars,
       Place, Protocols
<1>2. Own' = Own /\ (h = cfg.protocol <=> hook = Own)
  BY <1>0, <1>1, ImageKept, OwnPlace DEF Place, Protocols, Types
<1>3. \/ /\ step = "close" /\ step' = "drain" /\ expired' = FALSE /\ hook' = hook
         /\ listener' = IF h = cfg.protocol THEN "closed" ELSE listener
      \/ /\ step = "drain" /\ step' = step /\ hook' = hook /\ expired' = TRUE /\ listener' = listener
         /\ h = cfg.protocol
      \/ /\ step = "drain" /\ step' = "mark" /\ expired' = expired /\ listener' = listener
         /\ hook' = IF h = "grpc" /\ h = cfg.protocol /\ expired THEN 0 ELSE hook - 1
         /\ h \in {"http", "grpc"} /\ h = cfg.protocol => open = {} \/ expired
  BY <1>0 DEF StopCloses, DrainExpires, StopDrained, Draining, serveVars, hookVars
<1>4. Types'
  <2>1. expired' \in BOOLEAN
    BY <1>0, <1>3, Zenon DEF Types
  <2>2. hook' \in 0..5 /\ step' \in {"mark", "close", "drain"} /\ listener' \in {"none", "bound", "closed"}
    BY <1>0, <1>1, <1>3 DEF Types
  <2> QED BY <2>1, <2>2, <1>0, <1>1 DEF Types
<1>5. SecureInv' /\ AskedInv' /\ StepInv'
  BY <1>0, <1>1, <1>3, AskedKept DEF SecureInv, StepInv, runtimeSecurityRequested, Types
<1>6. shuttingDown
  BY <1>0, <1>3 DEF StepInv
<1>7. BindInv'
  <2>1. serve = "accept" => listener' # "none"
    BY <1>0, <1>3 DEF BindInv
  <2> QED BY <2>1, <1>0, <1>1, <1>2, <1>6 DEF BindInv
<1>8. DrainInv'
  <2>1. hook < Own => ~(h = cfg.protocol) /\ hook # 0
    BY <1>0, <1>1, <1>2 DEF Types
  <2>2. CASE hook < Own
    BY <2>1, <2>2, <1>0, <1>1, <1>2, <1>3 DEF DrainInv, Drained, Types
  <2>3. CASE hook = Own
    <3>1. cfg.protocol \in {"http", "milter", "grpc"} /\ h = cfg.protocol
      BY <2>3, <1>2 DEF Protocols
    <3>2. cfg.protocol = "http" => hook = 1
      BY <2>3, <1>0, OwnPlace DEF Types
    <3>3. step = "drain" => listener = "closed"
      BY <2>3, <1>0, <1>1 DEF DrainInv
    <3>4. pc' = "stop" /\ hook' < Own' =>
            /\ listener' = "closed"
            /\ cfg'.protocol # "milter" => open' = {} \/ (expired' /\ hook' = 0)
      <4> SUFFICES ASSUME hook' < Own'
                   PROVE  /\ listener' = "closed"
                          /\ cfg'.protocol # "milter" => open' = {} \/ (expired' /\ hook' = 0)
        OBVIOUS
      <4>1. hook' # hook
        <5>1. Own' = Own /\ hook = Own /\ Own \in Nat
          BY <2>3, <1>0, <1>2
        <5>2. hook' < Own
          BY <5>1
        <5> HIDE DEF Own
        <5> QED BY <5>1, <5>2
      <4>2. /\ step = "drain" /\ expired' = expired /\ listener' = listener
            /\ hook' = IF h = "grpc" /\ h = cfg.protocol /\ expired THEN 0 ELSE hook - 1
            /\ h \in {"http", "grpc"} /\ h = cfg.protocol => open = {} \/ expired
        BY <4>1, <1>3
      <4>3. listener' = "closed"
        BY <4>2, <3>3
      <4>4. ASSUME cfg.protocol # "milter", open # {} PROVE expired /\ hook' = 0
        <5>1. expired
          BY <4>2, <4>4, <3>1
        <5>2. CASE cfg.protocol = "grpc"
          BY <5>1, <5>2, <4>2, <3>1
        <5>3. CASE cfg.protocol = "http"
          BY <5>1, <5>3, <4>2, <3>1, <3>2
        <5> QED BY <5>1, <5>2, <5>3, <4>4, <3>1
      <4> QED BY <4>2, <4>3, <4>4, <1>1
    <3>5. pc' = "stop" /\ hook' = Own' /\ step' = "drain" => listener' = "closed"
      BY <2>3, <3>1, <3>3, <1>1, <1>2, <1>3
    <3> QED BY <3>4, <3>5, <1>1 DEF DrainInv, Drained
  <2>4. CASE hook > Own
    <3>1. h # cfg.protocol
      BY <2>4, <1>0, <1>1, <1>2 DEF Types
    <3>2. ~(hook' < Own')
      BY <2>4, <3>1, <1>0, <1>1, <1>2, <1>3 DEF Types
    <3>3. hook' = Own' => step' # "drain"
      BY <2>4, <3>1, <1>0, <1>1, <1>2, <1>3 DEF Types
    <3> QED BY <3>2, <3>3, <1>1 DEF DrainInv, Drained
  <2> QED BY <2>2, <2>3, <2>4, <1>0, <1>1
<1> QED BY <1>4, <1>5, <1>7, <1>8 DEF LifeInv

\* A new image starts with nothing but the isolation of the process.
LEMMA ExecLife ==
  ASSUME LifeInv, Exec
  PROVE  LifeInv'
<1>0. Types /\ SecureInv /\ AskedInv
  BY DEF LifeInv
<1>1. /\ cfg' \in Configs /\ applied' = applied /\ isolation' = isolation /\ asked' = asked /\ activated' = activated
      /\ pc' = "invoke" /\ hook' = 0 /\ step' = "mark" /\ listener' = "none" /\ serve' = "none"
      /\ open' = {}
  BY DEF Exec, Fresh, osVars, securityVars
<1>2. ready' = FALSE /\ shuttingDown' = FALSE /\ expired' = FALSE
  BY DEF Exec, Fresh
<1>3. Types'
  <2>1. ready' \in BOOLEAN /\ shuttingDown' \in BOOLEAN /\ expired' \in BOOLEAN
    BY <1>2, Zenon
  <2> QED BY <2>1, <1>0, <1>1 DEF Types
<1>4. SecureInv' /\ AskedInv' /\ StepInv'
  BY <1>0, <1>1, <1>2, AskedKept DEF SecureInv, StepInv, runtimeSecurityRequested
<1>5. BindInv'
  BY <1>1, <1>2 DEF BindInv
<1>6. DrainInv'
  BY <1>1 DEF DrainInv, Drained
<1> QED BY <1>3, <1>4, <1>5, <1>6 DEF LifeInv

LEMMA NextLife == LifeInv /\ [Next]_vars => LifeInv'
<1> SUFFICES ASSUME LifeInv, [Next]_vars PROVE LifeInv'
  OBVIOUS
<1>1. CASE UNCHANGED vars \/ Ended \/ MetricsFail \/ Term \/ Hup \/ ReloadTakes \/ ReloadDone
           \/ ReloadLoads \/ ExecFails
  BY <1>1, QuietLife DEF vars, Ended, MetricsFail, Term, Hup, ReloadTakes, ReloadDone, ReloadLoads,
       ExecFails, osVars, securityVars, serveVars
<1>2. CASE Running /\ ProcessStep
  BY <1>1, <1>2, InvokeLife, StartFailsLife, StartIdleLife, StartOwnLife, ServeLife, LeaveLife, StopLife,
     DrainLife, ExecLife DEF ProcessStep, StartStep, StopStep, ReloadStep
<1> QED BY <1>1, <1>2 DEF Next

\* While /healthz answers 200 the process has every part of the isolation that the first
\* of its images to ask had asked for, and takes connections, or is about to bind or to
\* report the failure: for any combination of chroot, run_as_user and run_as_group and
\* any number of reloads (MarkReady, MarkShuttingDown, ApplyRuntimeSecurity).
THEOREM HealthCorrect == Spec => []HealthSound
<1>1. LifeInv => HealthSound
  <2> SUFFICES ASSUME LifeInv, Healthy
               PROVE  /\ runtimeSecurityRequested(cfg) => asked # {}
                      /\ \A c \in asked : IsolatedAs(c)
                      /\ \/ listener = "bound"
                         \/ serve = "bind" /\ cfg.protocol = "http" /\ ~activated
                         \/ serve = "failed"
    BY DEF HealthSound
  <2>1. ready /\ ~shuttingDown
    BY DEF Healthy
  <2> QED BY <2>1 DEF LifeInv, SecureInv, AskedInv, BindInv
<1> QED BY <1>1, InitLife, NextLife, PTL DEF Spec

\* A process that stops in order leaves no HTTP request and no RPC behind unless their
\* time was over, whichever hooks had started and whatever failed (the OnStop hooks).
THEOREM DrainedCorrect == Spec => []Drained
<1>1. LifeInv => Drained
  BY DEF LifeInv, DrainInv
<1> QED BY <1>1, InitLife, NextLife, PTL DEF Spec
================================================================================
