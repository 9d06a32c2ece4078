--------------------------------- MODULE Config ---------------------------------
(***************************************************************************)
(* config.Load: what it makes of the values of a configuration file and    *)
(* which files it refuses, and what the constructors demand beyond it.     *)
(* Strings are what the code tells apart: spellings of keywords, names     *)
(* with their case, empty and unusable values.                             *)
(*                                                                         *)
(* validate mixes normalisation and checks and gives up at the first       *)
(* error; as a rejected file leaves nothing behind, it is the same to      *)
(* normalise all of it and then check all of it.                           *)
(***************************************************************************)
EXTENDS Integers, Sequences, FiniteSets, Functions, TLC

\* Spellings that ToLower and TrimSpace change.  (Where the code only trims, the values
\* in use have no other spelling in lower case.)
Spellings == "  " :> "" @@ "GRPC" :> "grpc" @@ "Never" :> "never"
             @@ "Authorization" :> "authorization" @@ "X-Tag" :> "x-tag" @@ "JSON" :> "json"
             @@ "TLS1.3" :> "tls1.3"
Canon(s) == IF s \in DOMAIN Spellings THEN Spellings[s] ELSE s

Invalid == "invalid"

\* A keyword: its default if empty, refused if unknown.
Keyword(raw, default, allowed) ==
  LET s == Canon(raw) IN IF s = "" THEN default ELSE IF s \in allowed THEN s ELSE Invalid

Positive(x, default) == IF x <= 0 THEN default ELSE x
Clamp(x, low, high) == IF x < low THEN low ELSE IF x > high THEN high ELSE x

ShadowModes  == {"inherit", "auto", "never", "always"}
CompareModes == {"inherit", "on", "off"}
HTTPCompare  == {"header", "json", "html"}
GRPCCompare  == {"status", "status_metadata", "message_count", "message_hash"}
Selections   == {"round_robin", "source_ip_hash"}

--------------------------------------------------------------------------------
(* The sections of a file and the types of their values (Config and its structs) *)

PathRules == [match : STRING, methods : SUBSET STRING, shadow : STRING, compare : STRING,
              compareMode : STRING, compareHeaders : SUBSET STRING, primaryHeaders : SUBSET STRING,
              shadowHeaders : SUBSET STRING]
GRPCRules == [service : STRING, methods : SUBSET STRING, shadow : STRING, compare : STRING,
              compareMode : STRING, compareMetadata : Seq(STRING), primaryMetadata : SUBSET STRING,
              shadowMetadata : SUBSET STRING]
GRPCTargets == [address : STRING, tls : BOOLEAN, cert : STRING, key : STRING, ca : STRING]
CallerMethods == [method : STRING, scopes : SUBSET STRING]

Sections ==
  [base |-> [protocol : STRING, urls : Nat, level : STRING, logFields : Seq(STRING)],
   rate |-> [sample : Int, rps : Int, burst : Int],
   http |-> [timeout : Int, idle : Int, perHost : Int, protocol : STRING, selection : STRING, ca : STRING,
             cert : STRING, key : STRING],
   compare |-> [mode : STRING, threshold : Int],
   paths |-> Seq(PathRules), mapping |-> [mode : STRING, rules : Seq(STRING)],
   obs |-> [prometheus : BOOLEAN, address : STRING, port : Int, path : STRING, basicAuth : STRING,
            tls : BOOLEAN, pair : BOOLEAN, minTLS : STRING, ratio : Int, otel : BOOLEAN, traces : BOOLEAN,
            metrics : BOOLEAN, endpoint : STRING, header : STRING],
   grpc |-> [listen : STRING, selection : STRING, shadowTimeout : Int, queue : Int, maxBytes : Int,
             force : STRING, compareMode : STRING, compareKeys : Seq(STRING)],
   tls |-> [enabled : BOOLEAN, pair : BOOLEAN, clientCA : BOOLEAN, require : BOOLEAN, minTLS : STRING],
   primary |-> Seq(GRPCTargets), shadows |-> Seq(GRPCTargets), rules |-> Seq(GRPCRules),
   oidc |-> [enabled : BOOLEAN, discovery : STRING, endpoint : STRING, clientID : STRING, secret : BOOLEAN,
             secretEnv : BOOLEAN, method : STRING, timeout : Int, skew : Int, insecure : BOOLEAN, ca : STRING,
             serverName : STRING, minTLS : STRING],
   caller |-> [mode : STRING, allow : BOOLEAN, endpoint : STRING, client : BOOLEAN, timeout : Int,
               ca : STRING, minTLS : STRING, ttl : Int, entries : Int, concurrent : Int,
               scopes : SUBSET STRING, methods : Seq(CallerMethods)]]

IsFile(f) == DOMAIN f = DOMAIN Sections /\ \A s \in DOMAIN Sections : f[s] \in Sections[s]

--------------------------------------------------------------------------------
(* Names *)

\* Keys with characters that neither metadata keys nor header names may have.
BadKeys == {"", "bad key"}
ReservedKeys == {"content-type", "te", "grpc-x", "trace-bin"}

validKeys(names) == \A n \in names : Canon(n) \notin BadKeys
distinctKeys(names) == \A m, n \in names : Canon(m) = Canon(n) => m = n

\* normalizeGRPCMetadataKeys: each key once, however it is spelled.
validMetadataKeys(keys) ==
  /\ validKeys(Range(keys))
  /\ \A i, j \in DOMAIN keys : Canon(keys[i]) = Canon(keys[j]) => i = j

\* normalizeHTTPHeaderMap
validHeaderMap(names) == validKeys(names) /\ distinctKeys(names)

\* The keys of the metadata maps of a rule: spelled alike.
normalizeKeys(names) == {Canon(n) : n \in names}

\* normalizeGRPCOverlayMetadataMap
validOverlay(names) ==
  validKeys(names) /\ distinctKeys(names) /\ normalizeKeys(names) \cap ReservedKeys = {}

--------------------------------------------------------------------------------
(* Every protocol *)

normalizeProtocol(raw) == Keyword(raw, "http", {"http", "milter", "grpc"})

\* normalizeSelectionMode: an unknown mode of HTTP is not an error.
normalizeSelectionMode(raw) == IF Canon(raw) \in Selections THEN Canon(raw) ELSE "round_robin"

normalizeShadowConfig(s) ==
  [s EXCEPT !.sample = Clamp(@, 0, 100), !.burst = IF @ < 1 /\ s.rps > 0 THEN 1 ELSE @]

normalizeHTTPTransportConfig(h) ==
  [h EXCEPT !.timeout = Positive(@, 5), !.idle = Positive(@, 1024), !.perHost = IF @ < 0 THEN 0 ELSE @,
            !.protocol = Keyword(@, "auto", {"auto", "http1", "http2"}),
            !.selection = normalizeSelectionMode(@)]

\* normalizeCompareConfig: an unknown mode becomes header.  The threshold is in percent.
normalizeCompareConfig(c) ==
  [c EXCEPT !.mode = IF Canon(@) \in HTTPCompare THEN Canon(@) ELSE "header",
            !.threshold = Clamp(@, 0, 100)]

\* validatePathRule and its normalisers
normalizePathRule(r) ==
  [r EXCEPT !.match = Canon(@), !.shadow = Keyword(@, "inherit", ShadowModes),
            !.compare = Keyword(@, "inherit", CompareModes),
            !.compareMode = Keyword(@, "", HTTPCompare)]
validPathRule(r) ==
  /\ r.match \notin {"", "("}
  /\ validKeys(r.methods) /\ Invalid \notin {r.shadow, r.compare, r.compareMode}
  /\ validKeys(r.compareHeaders) /\ validHeaderMap(r.primaryHeaders) /\ validHeaderMap(r.shadowHeaders)

\* validateLogFields: FieldKey turns every separator into an underscore.
FieldKey(n) == IF Canon(n) = "x-tag" THEN "x_tag" ELSE Canon(n)
validateLogFields(fields) ==
  /\ validKeys(Range(fields))
  /\ \A i, j \in DOMAIN fields : FieldKey(fields[i]) = FieldKey(fields[j]) => i = j

ResolveTLSMinVersion(v) == Canon(v) \in {"", "1.2", "tls1.2", "1.3", "tls1.3"}

\* AuthClientTLSConfig reads the CA bundle.
AuthClientTLSConfig(ca, minTLS) == ca # "missing" /\ ResolveTLSMinVersion(minTLS)

ParseLevel(level) == Keyword(level, "info", {"debug", "info", "notice", "warn", "error", "none"})

\* validateObservabilityConfig
validateObservability(o) ==
  /\ o.prometheus => /\ Canon(o.address) # "" /\ o.port \in 1..65535 /\ o.path = "/metrics"
                     /\ o.basicAuth \in {"", "user:password"}
                     /\ o.tls => o.pair /\ ResolveTLSMinVersion(o.minTLS)
  /\ o.ratio \in 0..100
  /\ o.otel => (o.traces \/ o.metrics) /\ Canon(o.endpoint) # ""
  /\ Canon(o.header) # "bad key"

--------------------------------------------------------------------------------
(* gRPC *)

normalizeGRPCRuntimeConfig(g) ==
  [g EXCEPT !.shadowTimeout = Positive(@, 500), !.queue = Positive(@, 128),
            !.maxBytes = IF @ = 0 THEN 4 ELSE @,
            !.selection = Keyword(@, "round_robin", Selections), !.listen = Canon(@),
            !.force = Canon(@), !.compareMode = Keyword(@, "status", GRPCCompare)]
validGRPC(g) ==
  /\ g.listen # "" /\ g.maxBytes >= 0 /\ g.force # "bad key"
  /\ Invalid \notin {g.selection, g.compareMode}
  /\ validMetadataKeys(g.compareKeys)

\* normalizeGRPCTLS
validGRPCTLS(t) ==
  /\ ResolveTLSMinVersion(t.minTLS)
  /\ t.require => t.clientCA /\ t.enabled
  /\ t.enabled => t.pair

\* normalizeGRPCTargets, normalizeGRPCTargetTLS
validTarget(t) ==
  /\ Canon(t.address) # ""
  /\ t.cert # "" \/ t.key # "" => t.tls /\ "" \notin {t.cert, t.key}

normalizeGRPCRule(r) ==
  [r EXCEPT !.service = Canon(@), !.shadow = Keyword(@, "inherit", ShadowModes),
            !.compare = Keyword(@, "inherit", CompareModes),
            !.compareMode = Keyword(@, "", GRPCCompare),
            !.primaryMetadata = normalizeKeys(@), !.shadowMetadata = normalizeKeys(@)]
\* normalizeGRPCRule, on the rule as it is written.
validGRPCRule(r) ==
  LET n == normalizeGRPCRule(r) IN
  /\ n.service # "" /\ r.methods \cap {"", "a/b"} = {}
  /\ Invalid \notin {n.shadow, n.compare, n.compareMode} /\ validMetadataKeys(r.compareMetadata)
  /\ validOverlay(r.primaryMetadata) /\ validOverlay(r.shadowMetadata)

normalizeGRPCBackendOIDCAuthDefaults(a) ==
  [a EXCEPT !.timeout = Positive(@, 5), !.skew = Positive(@, 30), !.clientID = Canon(@),
            !.method = Keyword(@, "auto", {"auto", "client_secret_post", "client_secret_basic"})]

URLs == {"https", "http"}

\* Mutant: the conflict is looked for in the first rule only.
ConflictInFirst(rules) == Len(rules) > 0 /\ "authorization" \in rules[1].primaryMetadata

\* validateGRPCBackendOIDCAuthMetadataConflict, on the normalised rules.
metadataConflict(rules) == \E i \in DOMAIN rules : "authorization" \in rules[i].primaryMetadata

\* normalizeGRPCBackendOIDCAuthConfig
validOIDC(a, rules) ==
  a.enabled =>
    /\ AuthClientTLSConfig(a.ca, a.minTLS)
    /\ a.insecure => a.ca = "" /\ a.serverName = ""
    /\ a.discovery # "" \/ a.endpoint # ""
    /\ {a.discovery, a.endpoint} \subseteq URLs \cup {""}
    /\ a.clientID # "" /\ a.secret # a.secretEnv /\ a.method # Invalid
    /\ ~metadataConflict(rules)

validateIntrospectionCache(c) ==
  /\ c.ttl >= 0 /\ c.entries \in 0..1000000 /\ c.concurrent >= 0
  /\ c.ttl > 0 => c.entries > 0

validateCallerScopes(scopes) == scopes \cap {"", "two scopes"} = {}

\* Exact names of methods, each at most once and with scopes.
validateCallerMethods(methods) ==
  /\ \A i, j \in DOMAIN methods : methods[i].method = methods[j].method => i = j
  /\ \A m \in Range(methods) : m.method = "/s/m" /\ m.scopes # {} /\ validateCallerScopes(m.scopes)

\* validateGRPCIntrospection, and the CA bundle that normalizeGRPCConfig reads.
validIntrospection(c) ==
  /\ c.endpoint = "https" /\ c.client /\ c.timeout >= 0 /\ AuthClientTLSConfig(c.ca, c.minTLS)
  /\ validateIntrospectionCache(c) /\ validateCallerMethods(c.methods)
  /\ validateCallerScopes(c.scopes)

ValidateGRPCCallerAuth(c, oidc, tls) ==
  IF c.allow THEN c.mode = ""
  ELSE CASE c.mode = "" -> ~oidc.enabled
         [] c.mode = "mtls" -> tls.enabled /\ tls.require /\ tls.clientCA
         [] c.mode = "introspection" -> validIntrospection(c)
         [] OTHER -> FALSE

EffectiveIntrospectionMaxConcurrent(c) == Positive(c.concurrent, 64)

--------------------------------------------------------------------------------
(* Load *)

\* What a file has where it says nothing.  Durations are in seconds, those of gRPC
\* shadows in milliseconds, message sizes in MiB.
setDefaults ==
  [base |-> [protocol |-> "http", urls |-> 1, level |-> "info", logFields |-> <<>>],
   rate |-> [sample |-> 5, rps |-> 200, burst |-> 400],
   http |-> [timeout |-> 5, idle |-> 1024, perHost |-> 0, protocol |-> "auto",
             selection |-> "round_robin", ca |-> "", cert |-> "", key |-> ""],
   compare |-> [mode |-> "header", threshold |-> 99],
   paths |-> <<>>, mapping |-> [mode |-> "direct", rules |-> <<>>],
   obs |-> [prometheus |-> FALSE, address |-> "127.0.0.1", port |-> 9464, path |-> "/metrics",
            basicAuth |-> "", tls |-> FALSE, pair |-> FALSE, minTLS |-> "1.2", ratio |-> 100, otel |-> FALSE,
            traces |-> FALSE, metrics |-> FALSE, endpoint |-> "", header |-> "X-Trace-ID"],
   grpc |-> [listen |-> ":9444", selection |-> "round_robin", shadowTimeout |-> 500, queue |-> 128,
             maxBytes |-> 4, force |-> "", compareMode |-> "status",
             compareKeys |-> <<"grpc-status", "grpc-message">>],
   tls |-> [enabled |-> FALSE, pair |-> FALSE, clientCA |-> FALSE, require |-> FALSE, minTLS |-> "1.2"],
   primary |-> <<>>, shadows |-> <<>>, rules |-> <<>>,
   oidc |-> [enabled |-> FALSE, discovery |-> "", endpoint |-> "", clientID |-> "", secret |-> FALSE,
             secretEnv |-> FALSE, method |-> "auto", timeout |-> 5, skew |-> 30, insecure |-> FALSE, ca |-> "",
             serverName |-> "", minTLS |-> "1.2"],
   caller |-> [mode |-> "", allow |-> FALSE, endpoint |-> "", client |-> FALSE, timeout |-> 2, ca |-> "",
               minTLS |-> "1.2", ttl |-> 30, entries |-> 10000, concurrent |-> 64, scopes |-> {}, methods |-> <<>>]]

normalizeGRPCConfig(f) ==
  [f EXCEPT !.grpc = normalizeGRPCRuntimeConfig(@),
            !.rules = [i \in DOMAIN @ |-> normalizeGRPCRule(@[i])],
            !.oidc = normalizeGRPCBackendOIDCAuthDefaults(@)]

validGRPCConfig(f) ==
  LET n == normalizeGRPCConfig(f) IN
  /\ validGRPC(n.grpc) /\ validGRPCTLS(f.tls)
  /\ Len(f.primary) > 0 /\ \A t \in Range(f.primary) \cup Range(f.shadows) : validTarget(t)
  /\ \A i \in DOMAIN f.rules : validGRPCRule(f.rules[i])
  /\ validOIDC(n.oidc, n.rules)
  /\ ValidateGRPCCallerAuth(f.caller, n.oidc, f.tls)

\* What the running process works with.
Normalized(f) ==
  LET p == normalizeProtocol(f.base.protocol)
      g == IF p = "grpc" THEN normalizeGRPCConfig(f) ELSE f
  IN [g EXCEPT !.base.protocol = p, !.base.level = ParseLevel(@), !.rate = normalizeShadowConfig(@),
               !.http = normalizeHTTPTransportConfig(@), !.compare = normalizeCompareConfig(@),
               !.paths = [i \in DOMAIN @ |-> normalizePathRule(@[i])]]

\* Load returns no error.  path_mapping is not looked at, nor are, unless the protocol
\* is gRPC, the rules and targets of gRPC.
Loads(f) ==
  LET n == Normalized(f) IN
  /\ validateLogFields(f.base.logFields) /\ n.base.level # Invalid
  /\ n.base.protocol # Invalid /\ (n.base.protocol = "http" => f.base.urls > 0)
  /\ n.base.protocol = "grpc" => validGRPCConfig(f)
  /\ n.http.protocol # Invalid
  /\ \A i \in DOMAIN n.paths : validPathRule(n.paths[i])
  /\ validateObservability(f.obs)

--------------------------------------------------------------------------------
(* The constructors *)

\* mapping.NewPathMapper
NewPathMapper(m) ==
  \/ Canon(m.mode) \in {"", "direct"}
  \/ Canon(m.mode) = "rewrite" /\ \A i \in DOMAIN m.rules : Canon(m.rules[i]) \notin {"", "("}

\* grpcproxy.NewResolver, which runs whatever the protocol is.
NewResolver(rules) == \A i \in DOMAIN rules : Canon(rules[i].service) # ""

\* NewUpstreamTLS
NewUpstreamTLS(h) == h.ca # "missing"

\* NewTargetPools: addresses the client library takes, and with TLS the CA bundle and
\* the key pair of every target can be read.
NewTargetPools(c) ==
  c.base.protocol = "grpc" =>
    \A t \in Range(c.primary) \cup Range(c.shadows) :
      t.address # "bad address" /\ (t.tls => "missing" \notin {t.ca, t.cert, t.key})

\* No constructor of fx.Provide refuses configuration c.  The exporters of
\* OpenTelemetry can fail on more than the configuration; see ConfigReload.StartFails.
Constructs(c) ==
  NewPathMapper(c.mapping) /\ NewResolver(c.rules) /\ NewUpstreamTLS(c.http) /\ NewTargetPools(c)

\* resolveInboundMode, when the hook of HTTP starts: a certificate and a key or neither.
resolveInboundMode(c) == c.base.protocol = "http" => (c.http.cert = "") = (c.http.key = "")
================================================================================
