------------------------------ MODULE ConfigReload ------------------------------
(***************************************************************************)
(* The configuration file and the process that loads it: an operator edits *)
(* one section after the other, the process loads the file when it starts, *)
(* and on SIGHUP loads it once to validate it, replaces its image, and     *)
(* loads it again in the new image.  That a file which Load reads besides  *)
(* (a CA bundle) has gone is a value of the file, too.                     *)
(***************************************************************************)
EXTENDS Config

CONSTANTS
  Base,      \* files the process may be started with
  Variants,  \* for each section of a file, values an operator may give it
  MaxEdits   \* bound on the edits

ASSUME ReloadAssumption ==
  /\ MaxEdits \in Nat /\ Base # {} /\ \A f \in Base : IsFile(f)
  /\ DOMAIN Variants \subseteq DOMAIN Sections
  /\ \A section \in DOMAIN Variants : \A value \in Variants[section] : value \in Sections[section]

VARIABLES
  file,      \* the file
  edits,     \* edits made
  pc,        \* the process: starting, loaded, serving, validated a reload, exited
  running,   \* what the image has loaded: cfg is normalised from it
  checked    \* the file a reload has validated, before its exec

vars == <<file, edits, pc, running, checked>>

NoFile == [none |-> TRUE]

\* Load of the running image.
cfg == Normalized(running)

Edit(section, value) ==
  /\ edits < MaxEdits /\ pc # "exited"
  /\ value # file[section]
  /\ file' = [file EXCEPT ![section] = value] /\ edits' = edits + 1
  /\ UNCHANGED <<pc, running, checked>>

\* fx.New begins with config.Load, which everything else depends on.
Load ==
  /\ pc = "starting" /\ Loads(file)
  /\ pc' = "loaded" /\ running' = file
  /\ UNCHANGED <<file, edits, checked>>

LoadFails ==
  /\ pc = "starting" /\ ~Loads(file)
  /\ pc' = "exited"
  /\ UNCHANGED <<file, edits, running, checked>>

\* The other constructors, ApplyRuntimeSecurity and the OnStart hooks.
Start ==
  /\ pc = "loaded" /\ Constructs(cfg) /\ resolveInboundMode(cfg)
  /\ pc' = "serving"
  /\ UNCHANGED <<file, edits, running, checked>>

\* One of them fails: on the configuration, or on what it does not decide (exporters,
\* isolation, certificates of the listener, a port that is taken, descriptors of
\* socket activation that an earlier image has closed).
StartFails ==
  /\ pc = "loaded"
  /\ pc' = "exited"
  /\ UNCHANGED <<file, edits, running, checked>>

\* Mutant: SIGHUP replaces the image and leaves the checks to the new one.
ExecFirst ==
  /\ pc = "serving" /\ pc' = "validated" /\ checked' = file
  /\ UNCHANGED <<file, edits, running>>

\* handleSIGHUP: a file that does not load aborts the reload.
handleSIGHUP ==
  /\ pc = "serving" /\ Loads(file) /\ pc' = "validated" /\ checked' = file
  /\ UNCHANGED <<file, edits, running>>

reloadAborted ==
  /\ pc = "serving" /\ ~Loads(file)
  /\ UNCHANGED vars

\* reexecSelf
reexecSelf ==
  /\ pc = "validated" /\ pc' = "starting" /\ running' = NoFile
  /\ UNCHANGED <<file, edits, checked>>

execFails ==
  /\ pc = "validated" /\ pc' = "serving" /\ checked' = NoFile
  /\ UNCHANGED <<file, edits, running>>

Init == file \in Base /\ edits = 0 /\ pc = "starting" /\ running = NoFile /\ checked = NoFile

Next ==
  \/ \E section \in DOMAIN Variants : \E value \in Variants[section] : Edit(section, value)
  \/ Load \/ LoadFails \/ Start \/ StartFails \/ handleSIGHUP \/ reloadAborted \/ reexecSelf \/ execFails

Spec == Init /\ [][Next]_vars

--------------------------------------------------------------------------------
(* Properties *)

\* What the shadow limiter and the selectors of every protocol rely on.
PolicySound(c) ==
  /\ c.rate.sample \in 0..100 /\ (c.rate.rps > 0 => c.rate.burst > 0)
  /\ c.http.selection \in Selections /\ c.compare.mode \in HTTPCompare
  /\ c.http.timeout > 0 /\ c.http.perHost >= 0
  /\ \A i \in DOMAIN c.paths : c.paths[i].shadow \in ShadowModes /\ c.paths[i].compare \in CompareModes

\* What GrpcStream, GrpcHandle and CallerAuth assume of their constants.
GRPCSound(c) ==
  /\ Len(c.primary) > 0 /\ c.grpc.queue > 0 /\ c.grpc.shadowTimeout > 0
  /\ c.grpc.selection \in Selections /\ c.grpc.compareMode \in GRPCCompare
  /\ EffectiveIntrospectionMaxConcurrent(c.caller) > 0
  /\ \A i \in DOMAIN c.rules :
       /\ c.rules[i].shadow \in ShadowModes /\ c.rules[i].service # ""
       /\ (c.rules[i].primaryMetadata \cup c.rules[i].shadowMetadata) \cap (ReservedKeys \cup BadKeys) = {}
       /\ c.oidc.enabled => "authorization" \notin c.rules[i].primaryMetadata
  /\ c.oidc.enabled => c.oidc.timeout > 0 /\ c.oidc.skew > 0

\* The proxy lends its backend credentials only to callers it was told how to check:
\* mutual TLS with required certificates, a complete introspection setup, or the
\* explicit switch alone.
LendsTokenKnowingly(c) ==
  c.oidc.enabled =>
    \/ c.caller.allow /\ c.caller.mode = ""
    \/ ~c.caller.allow /\ c.caller.mode = "mtls" /\ c.tls.enabled /\ c.tls.require /\ c.tls.clientCA
    \/ ~c.caller.allow /\ c.caller.mode = "introspection" /\ c.caller.endpoint = "https" /\ c.caller.client

\* A process that serves does so with a configuration on which the assumptions of the
\* other modules hold, however many reloads it took and whatever it was edited from.
ServesSound ==
  pc \in {"serving", "validated"} =>
    /\ PolicySound(cfg)
    /\ cfg.base.protocol = "http" => cfg.base.urls > 0
    /\ cfg.base.protocol = "grpc" => GRPCSound(cfg) /\ LendsTokenKnowingly(cfg)

\* The new image of a reload loads the file that the old one has validated: its Load
\* fails only if the file was edited in between (handleSIGHUP, reexecSelf).
ReloadLoadsAgree ==
  [][pc = "starting" /\ checked # NoFile /\ pc' = "exited" => file # checked]_vars
================================================================================
