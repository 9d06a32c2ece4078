--------------------------- MODULE ConfigReloadProofs ---------------------------
(***************************************************************************)
(* A process serves only with a configuration on which the other parts may *)
(* rely, and a reload loads what it has validated: for every file whose    *)
(* values have the types of their sections, and any edits.                 *)
(***************************************************************************)
EXTENDS ConfigReload, TLAPS

\* A keyword is its default, one of the allowed words or refused.
LEMMA KeywordValues ==
  ASSUME NEW raw, NEW default, NEW allowed
  PROVE  Keyword(raw, default, allowed) \in allowed \cup {default, Invalid}
BY DEF Keyword

LEMMA SectionTypes ==
  ASSUME NEW f, IsFile(f)
  PROVE  /\ DOMAIN f = DOMAIN Sections
         /\ f.base \in Sections.base /\ f.rate \in Sections.rate /\ f.http \in Sections.http
         /\ f.compare \in Sections.compare /\ f.paths \in Sections.paths
         /\ f.grpc \in Sections.grpc /\ f.rules \in Sections.rules /\ f.oidc \in Sections.oidc
         /\ f.caller \in Sections.caller
<1>1. {"base", "rate", "http", "compare", "paths", "grpc", "rules", "oidc", "caller"} \subseteq DOMAIN Sections
  BY DEF Sections
<1> QED BY <1>1 DEF IsFile

SectionNames == {"base", "rate", "http", "compare", "paths", "mapping", "obs", "grpc", "tls", "primary",
                 "shadows", "rules", "oidc", "caller"}

LEMMA SectionDomain == DOMAIN Sections = SectionNames
BY DEF Sections, SectionNames

\* What normalizeGRPCConfig makes of a file.
LEMMA GRPCFields ==
  ASSUME NEW f, IsFile(f)
  PROVE  LET n == normalizeGRPCConfig(f)
         IN  /\ DOMAIN n = SectionNames
             /\ n.grpc = normalizeGRPCRuntimeConfig(f.grpc)
             /\ n.rules = [i \in DOMAIN f.rules |-> normalizeGRPCRule(f.rules[i])]
             /\ n.oidc = normalizeGRPCBackendOIDCAuthDefaults(f.oidc)
             /\ n.base = f.base /\ n.rate = f.rate /\ n.http = f.http /\ n.compare = f.compare
             /\ n.paths = f.paths /\ n.tls = f.tls /\ n.primary = f.primary /\ n.caller = f.caller
<1>1. DOMAIN f = SectionNames
  BY SectionDomain DEF IsFile
<1> DEFINE a == normalizeGRPCRuntimeConfig(f.grpc)
           b == [i \in DOMAIN f.rules |-> normalizeGRPCRule(f.rules[i])]
           c == normalizeGRPCBackendOIDCAuthDefaults(f.oidc)
<1>2. normalizeGRPCConfig(f) = [f EXCEPT !.grpc = a, !.rules = b, !.oidc = c]
  BY DEF normalizeGRPCConfig
<1> HIDE DEF a, b, c
<1>3. LET n == [f EXCEPT !.grpc = a, !.rules = b, !.oidc = c]
      IN  /\ DOMAIN n = SectionNames /\ n.grpc = a /\ n.rules = b /\ n.oidc = c
          /\ n.base = f.base /\ n.rate = f.rate /\ n.http = f.http /\ n.compare = f.compare
          /\ n.paths = f.paths /\ n.tls = f.tls /\ n.primary = f.primary /\ n.caller = f.caller
  BY <1>1 DEF SectionNames
<1> QED BY <1>2, <1>3 DEF a, b, c

\* What Normalized makes of the sections of every protocol.
LEMMA CommonFields ==
  ASSUME NEW f, IsFile(f)
  PROVE  LET n == Normalized(f)
         IN  /\ n.base.protocol = normalizeProtocol(f.base.protocol) /\ n.base.urls = f.base.urls
             /\ n.rate = normalizeShadowConfig(f.rate) /\ n.http = normalizeHTTPTransportConfig(f.http)
             /\ n.compare = normalizeCompareConfig(f.compare)
             /\ n.paths = [i \in DOMAIN f.paths |-> normalizePathRule(f.paths[i])]
             /\ n.tls = f.tls /\ n.primary = f.primary /\ n.caller = f.caller
             /\ n.base.protocol = "grpc" =>
                  /\ n.grpc = normalizeGRPCRuntimeConfig(f.grpc)
                  /\ n.rules = [i \in DOMAIN f.rules |-> normalizeGRPCRule(f.rules[i])]
                  /\ n.oidc = normalizeGRPCBackendOIDCAuthDefaults(f.oidc)
<1> DEFINE p == normalizeProtocol(f.base.protocol)
           g == IF p = "grpc" THEN normalizeGRPCConfig(f) ELSE f
<1>1. /\ DOMAIN f = SectionNames /\ f.base \in Sections.base
  BY SectionDomain, SectionTypes
<1>2. DOMAIN f.base = {"protocol", "urls", "level", "logFields"}
  BY <1>1 DEF Sections
<1>3. /\ DOMAIN g = SectionNames
      /\ g.base = f.base /\ g.rate = f.rate /\ g.http = f.http /\ g.compare = f.compare
      /\ g.paths = f.paths /\ g.tls = f.tls /\ g.primary = f.primary /\ g.caller = f.caller
      /\ p = "grpc" =>
           /\ g.grpc = normalizeGRPCRuntimeConfig(f.grpc)
           /\ g.rules = [i \in DOMAIN f.rules |-> normalizeGRPCRule(f.rules[i])]
           /\ g.oidc = normalizeGRPCBackendOIDCAuthDefaults(f.oidc)
  <2>1. CASE p = "grpc"
    <3>1. g = normalizeGRPCConfig(f)
      BY <2>1
    <3> HIDE DEF g, p
    <3> QED BY <3>1, GRPCFields
  <2>2. CASE p # "grpc"
    <3>1. g = f
      BY <2>2
    <3> HIDE DEF g, p
    <3> QED BY <2>2, <3>1, <1>1
  <2> QED BY <2>1, <2>2
<1> DEFINE l == ParseLevel(f.base.level)
           r == normalizeShadowConfig(f.rate)
           h == normalizeHTTPTransportConfig(f.http)
           c == normalizeCompareConfig(f.compare)
           q == [i \in DOMAIN f.paths |-> normalizePathRule(f.paths[i])]
<1>4. Normalized(f) = [g EXCEPT !.base.protocol = p, !.base.level = ParseLevel(@),
                                !.rate = normalizeShadowConfig(@), !.http = normalizeHTTPTransportConfig(@),
                                !.compare = normalizeCompareConfig(@),
                                !.paths = [i \in DOMAIN @ |-> normalizePathRule(@[i])]]
  BY DEF Normalized
<1>5. Normalized(f) = [g EXCEPT !.base.protocol = p, !.base.level = l, !.rate = r, !.http = h,
                                !.compare = c, !.paths = q]
  <2> HIDE DEF g, p
  <2> QED BY <1>4, <1>3, <1>2, <1>1 DEF SectionNames
<1>6. LET n == [g EXCEPT !.base.protocol = p, !.base.level = l, !.rate = r, !.http = h,
                         !.compare = c, !.paths = q]
      IN  /\ n.base.protocol = p /\ n.base.urls = g.base.urls
          /\ n.rate = r /\ n.http = h /\ n.compare = c /\ n.paths = q
          /\ n.tls = g.tls /\ n.primary = g.primary /\ n.caller = g.caller
          /\ n.grpc = g.grpc /\ n.rules = g.rules /\ n.oidc = g.oidc
  <2> HIDE DEF g, p, l, r, h, c, q
  <2> QED BY <1>3, <1>2 DEF SectionNames
<1> HIDE DEF g, l
<1> QED BY <1>3, <1>5, <1>6

--------------------------------------------------------------------------------
(* What a file that loads gives to the other parts *)

\* The limiter gets a percentage and a burst.
LEMMA RateSound ==
  ASSUME NEW s \in Sections.rate
  PROVE  LET n == normalizeShadowConfig(s)
         IN  n.sample \in 0..100 /\ (n.rps > 0 => n.burst > 0)
<1>1. s \in [sample : Int, rps : Int, burst : Int]
  BY DEF Sections
<1> DEFINE a == Clamp(s.sample, 0, 100)
           b == IF s.burst < 1 /\ s.rps > 0 THEN 1 ELSE s.burst
<1>2. a \in 0..100 /\ (s.rps > 0 => b > 0)
  BY <1>1 DEF Clamp
<1>3. normalizeShadowConfig(s) = [s EXCEPT !.sample = a, !.burst = b]
  BY DEF normalizeShadowConfig
<1> HIDE DEF a, b
<1>4. LET n == [s EXCEPT !.sample = a, !.burst = b]
      IN  n.sample = a /\ n.rps = s.rps /\ n.burst = b
  BY <1>1
<1> QED BY <1>2, <1>3, <1>4

\* The transport and the selectors of HTTP.
LEMMA TransportSound ==
  ASSUME NEW h \in Sections.http
  PROVE  LET n == normalizeHTTPTransportConfig(h)
         IN  n.selection \in Selections /\ n.timeout > 0 /\ n.perHost >= 0
<1>1. h \in [timeout : Int, idle : Int, perHost : Int, protocol : STRING, selection : STRING, ca : STRING,
             cert : STRING, key : STRING]
  BY DEF Sections
<1> DEFINE a == Positive(h.timeout, 5)
           b == Positive(h.idle, 1024)
           c == IF h.perHost < 0 THEN 0 ELSE h.perHost
           d == Keyword(h.protocol, "auto", {"auto", "http1", "http2"})
           e == normalizeSelectionMode(h.selection)
<1>2. a > 0 /\ c >= 0
  BY <1>1 DEF Positive
<1>3. e \in Selections
  BY DEF normalizeSelectionMode, Selections
<1>4. normalizeHTTPTransportConfig(h)
        = [h EXCEPT !.timeout = a, !.idle = b, !.perHost = c, !.protocol = d, !.selection = e]
  BY DEF normalizeHTTPTransportConfig
<1> HIDE DEF a, b, c, d, e
<1>5. LET n == [h EXCEPT !.timeout = a, !.idle = b, !.perHost = c, !.protocol = d, !.selection = e]
      IN  n.timeout = a /\ n.perHost = c /\ n.selection = e
  BY <1>1
<1> QED BY <1>2, <1>3, <1>4, <1>5

LEMMA CompareModeSound ==
  ASSUME NEW c \in Sections.compare
  PROVE  normalizeCompareConfig(c).mode \in HTTPCompare
<1>1. c \in [mode : STRING, threshold : Int]
  BY DEF Sections
<1> DEFINE a == IF Canon(c.mode) \in HTTPCompare THEN Canon(c.mode) ELSE "header"
           b == Clamp(c.threshold, 0, 100)
<1>2. a \in HTTPCompare
  BY DEF HTTPCompare
<1>3. normalizeCompareConfig(c) = [c EXCEPT !.mode = a, !.threshold = b]
  BY DEF normalizeCompareConfig
<1> HIDE DEF a, b
<1>4. [c EXCEPT !.mode = a, !.threshold = b].mode = a
  BY <1>1
<1> QED BY <1>2, <1>3, <1>4

LEMMA PathRuleSound ==
  ASSUME NEW r \in PathRules, validPathRule(normalizePathRule(r))
  PROVE  LET n == normalizePathRule(r)
         IN  n.shadow \in ShadowModes /\ n.compare \in CompareModes
<1> DEFINE m == Canon(r.match)
           a == Keyword(r.shadow, "inherit", ShadowModes)
           b == Keyword(r.compare, "inherit", CompareModes)
           c == Keyword(r.compareMode, "", HTTPCompare)
<1>1. a \in ShadowModes \cup {Invalid} /\ b \in CompareModes \cup {Invalid}
  <2>1. "inherit" \in ShadowModes /\ "inherit" \in CompareModes
    BY DEF ShadowModes, CompareModes
  <2> QED BY <2>1, KeywordValues
<1>2. normalizePathRule(r) = [r EXCEPT !.match = m, !.shadow = a, !.compare = b, !.compareMode = c]
  BY DEF normalizePathRule
<1> HIDE DEF m, a, b, c
<1>3. LET n == [r EXCEPT !.match = m, !.shadow = a, !.compare = b, !.compareMode = c]
      IN  n.shadow = a /\ n.compare = b
  BY DEF PathRules
<1>4. a # Invalid /\ b # Invalid
  BY <1>2, <1>3 DEF validPathRule
<1> QED BY <1>1, <1>2, <1>3, <1>4

LEMMA LoadsPolicySound ==
  ASSUME NEW f, IsFile(f), Loads(f)
  PROVE  PolicySound(Normalized(f))
<1> DEFINE n == Normalized(f)
<1>1. /\ n.rate = normalizeShadowConfig(f.rate) /\ n.http = normalizeHTTPTransportConfig(f.http)
      /\ n.compare = normalizeCompareConfig(f.compare)
      /\ n.paths = [i \in DOMAIN f.paths |-> normalizePathRule(f.paths[i])]
  BY CommonFields
<1>2. /\ f.rate \in Sections.rate /\ f.http \in Sections.http /\ f.compare \in Sections.compare
      /\ f.paths \in Seq(PathRules)
  <2>1. Sections.paths = Seq(PathRules)
    BY DEF Sections
  <2> QED BY <2>1, SectionTypes
<1>3. \A i \in DOMAIN n.paths : validPathRule(n.paths[i])
  BY DEF Loads
<1> HIDE DEF n
<1>4. n.rate.sample \in 0..100 /\ (n.rate.rps > 0 => n.rate.burst > 0)
  BY <1>1, <1>2, RateSound
<1>5. n.http.selection \in Selections /\ n.http.timeout > 0 /\ n.http.perHost >= 0
  BY <1>1, <1>2, TransportSound
<1>6. n.compare.mode \in HTTPCompare
  BY <1>1, <1>2, CompareModeSound
<1>7. ASSUME NEW i \in DOMAIN n.paths
      PROVE  n.paths[i].shadow \in ShadowModes /\ n.paths[i].compare \in CompareModes
  <2>1. i \in DOMAIN f.paths /\ n.paths[i] = normalizePathRule(f.paths[i]) /\ f.paths[i] \in PathRules
    BY <1>1, <1>2
  <2>2. validPathRule(normalizePathRule(f.paths[i]))
    BY <1>3, <2>1
  <2> QED BY <2>1, <2>2, PathRuleSound
<1> QED BY <1>4, <1>5, <1>6, <1>7 DEF PolicySound, n

\* The queue, the timeout and the keywords of gRPC.
LEMMA RuntimeSound ==
  ASSUME NEW g \in Sections.grpc, validGRPC(normalizeGRPCRuntimeConfig(g))
  PROVE  LET n == normalizeGRPCRuntimeConfig(g)
         IN  /\ n.queue > 0 /\ n.shadowTimeout > 0
             /\ n.selection \in Selections /\ n.compareMode \in GRPCCompare
<1>1. g \in [listen : STRING, selection : STRING, shadowTimeout : Int, queue : Int, maxBytes : Int,
             force : STRING, compareMode : STRING, compareKeys : Seq(STRING)]
  BY DEF Sections
<1> DEFINE a == Positive(g.shadowTimeout, 500)
           b == Positive(g.queue, 128)
           c == IF g.maxBytes = 0 THEN 4 ELSE g.maxBytes
           d == Keyword(g.selection, "round_robin", Selections)
           e == Canon(g.listen)
           h == Canon(g.force)
           k == Keyword(g.compareMode, "status", GRPCCompare)
<1>2. a > 0 /\ b > 0
  BY <1>1 DEF Positive
<1>3. d \in Selections \cup {Invalid} /\ k \in GRPCCompare \cup {Invalid}
  <2>1. "round_robin" \in Selections /\ "status" \in GRPCCompare
    BY DEF Selections, GRPCCompare
  <2> QED BY <2>1, KeywordValues
<1>4. normalizeGRPCRuntimeConfig(g)
        = [g EXCEPT !.shadowTimeout = a, !.queue = b, !.maxBytes = c, !.selection = d, !.listen = e,
                    !.force = h, !.compareMode = k]
  BY DEF normalizeGRPCRuntimeConfig
<1> HIDE DEF a, b, c, d, e, h, k
<1>5. LET n == [g EXCEPT !.shadowTimeout = a, !.queue = b, !.maxBytes = c, !.selection = d, !.listen = e,
                         !.force = h, !.compareMode = k]
      IN  n.shadowTimeout = a /\ n.queue = b /\ n.selection = d /\ n.compareMode = k
  BY <1>1
<1>6. d # Invalid /\ k # Invalid
  BY <1>4, <1>5 DEF validGRPC
<1> QED BY <1>2, <1>3, <1>4, <1>5, <1>6

\* A rule has a service, a known shadow mode, and overlays without reserved or unusable
\* keys, however they were spelled.
LEMMA GRPCRuleSound ==
  ASSUME NEW r \in GRPCRules, validGRPCRule(r)
  PROVE  LET n == normalizeGRPCRule(r)
         IN  /\ n.shadow \in ShadowModes /\ n.service # ""
             /\ (n.primaryMetadata \cup n.shadowMetadata) \cap (ReservedKeys \cup BadKeys) = {}
<1> DEFINE s == Canon(r.service)
           a == Keyword(r.shadow, "inherit", ShadowModes)
           b == Keyword(r.compare, "inherit", CompareModes)
           c == Keyword(r.compareMode, "", GRPCCompare)
           p == normalizeKeys(r.primaryMetadata)
           q == normalizeKeys(r.shadowMetadata)
<1>1. a \in ShadowModes \cup {Invalid}
  <2>1. "inherit" \in ShadowModes
    BY DEF ShadowModes
  <2> QED BY <2>1, KeywordValues
<1>2. ASSUME NEW names, validOverlay(names)
      PROVE  normalizeKeys(names) \cap (ReservedKeys \cup BadKeys) = {}
  BY <1>2 DEF validOverlay, validKeys, normalizeKeys
<1>3. p \cap (ReservedKeys \cup BadKeys) = {} /\ q \cap (ReservedKeys \cup BadKeys) = {}
  BY <1>2 DEF validGRPCRule
<1>4. normalizeGRPCRule(r)
        = [r EXCEPT !.service = s, !.shadow = a, !.compare = b, !.compareMode = c,
                    !.primaryMetadata = p, !.shadowMetadata = q]
  BY DEF normalizeGRPCRule
<1> HIDE DEF s, a, b, c, p, q
<1>5. LET n == [r EXCEPT !.service = s, !.shadow = a, !.compare = b, !.compareMode = c,
                         !.primaryMetadata = p, !.shadowMetadata = q]
      IN  n.service = s /\ n.shadow = a /\ n.primaryMetadata = p /\ n.shadowMetadata = q
  BY DEF GRPCRules
<1>6. s # "" /\ a # Invalid
  BY <1>4, <1>5 DEF validGRPCRule
<1>7. (p \cup q) \cap (ReservedKeys \cup BadKeys) = {}
  BY <1>3
<1> QED BY <1>1, <1>4, <1>5, <1>6, <1>7

\* The backend token is asked for with positive times and only if enabled in the file.
LEMMA TokenDefaults ==
  ASSUME NEW a \in Sections.oidc
  PROVE  LET n == normalizeGRPCBackendOIDCAuthDefaults(a)
         IN  n.enabled = a.enabled /\ n.timeout > 0 /\ n.skew > 0
<1>1. a \in [enabled : BOOLEAN, discovery : STRING, endpoint : STRING, clientID : STRING, secret : BOOLEAN,
             secretEnv : BOOLEAN, method : STRING, timeout : Int, skew : Int, insecure : BOOLEAN, ca : STRING,
             serverName : STRING, minTLS : STRING]
  BY DEF Sections
<1> DEFINE t == Positive(a.timeout, 5)
           s == Positive(a.skew, 30)
           c == Canon(a.clientID)
           m == Keyword(a.method, "auto", {"auto", "client_secret_post", "client_secret_basic"})
<1>2. t > 0 /\ s > 0
  BY <1>1 DEF Positive
<1>3. normalizeGRPCBackendOIDCAuthDefaults(a)
        = [a EXCEPT !.timeout = t, !.skew = s, !.clientID = c, !.method = m]
  BY DEF normalizeGRPCBackendOIDCAuthDefaults
<1> HIDE DEF t, s, c, m
<1>4. LET n == [a EXCEPT !.timeout = t, !.skew = s, !.clientID = c, !.method = m]
      IN  n.enabled = a.enabled /\ n.timeout = t /\ n.skew = s
  BY <1>1
<1> QED BY <1>2, <1>3, <1>4

LEMMA LoadsGRPCSound ==
  ASSUME NEW f, IsFile(f), Loads(f), Normalized(f).base.protocol = "grpc"
  PROVE  GRPCSound(Normalized(f)) /\ LendsTokenKnowingly(Normalized(f))
<1> DEFINE n == Normalized(f)
           g == normalizeGRPCConfig(f)
<1>1. /\ n.tls = f.tls /\ n.primary = f.primary /\ n.caller = f.caller
      /\ n.grpc = normalizeGRPCRuntimeConfig(f.grpc)
      /\ n.rules = [i \in DOMAIN f.rules |-> normalizeGRPCRule(f.rules[i])]
      /\ n.oidc = normalizeGRPCBackendOIDCAuthDefaults(f.oidc)
  BY CommonFields
<1>2. g.grpc = n.grpc /\ g.rules = n.rules /\ g.oidc = n.oidc
  BY <1>1, GRPCFields
<1>3. validGRPCConfig(f)
  BY DEF Loads
<1>4. /\ f.grpc \in Sections.grpc /\ f.rules \in Seq(GRPCRules) /\ f.oidc \in Sections.oidc
      /\ f.caller \in Sections.caller
  <2>1. Sections.rules = Seq(GRPCRules)
    BY DEF Sections
  <2> QED BY <2>1, SectionTypes
<1>5. /\ validGRPC(g.grpc) /\ Len(f.primary) > 0 /\ \A i \in DOMAIN f.rules : validGRPCRule(f.rules[i])
      /\ validOIDC(g.oidc, g.rules) /\ ValidateGRPCCallerAuth(f.caller, g.oidc, f.tls)
  BY <1>3 DEF validGRPCConfig
<1> HIDE DEF n, g
<1>6. /\ n.grpc.queue > 0 /\ n.grpc.shadowTimeout > 0
      /\ n.grpc.selection \in Selections /\ n.grpc.compareMode \in GRPCCompare
  BY <1>1, <1>2, <1>4, <1>5, RuntimeSound
<1>7. n.oidc.timeout > 0 /\ n.oidc.skew > 0
  BY <1>1, <1>4, TokenDefaults
<1>8. n.oidc.enabled => ~metadataConflict(n.rules)
  BY <1>2, <1>5 DEF validOIDC
<1>9. ASSUME NEW i \in DOMAIN n.rules
      PROVE  /\ n.rules[i].shadow \in ShadowModes /\ n.rules[i].service # ""
             /\ (n.rules[i].primaryMetadata \cup n.rules[i].shadowMetadata) \cap (ReservedKeys \cup BadKeys) = {}
             /\ n.oidc.enabled => "authorization" \notin n.rules[i].primaryMetadata
  <2>1. i \in DOMAIN f.rules /\ n.rules[i] = normalizeGRPCRule(f.rules[i]) /\ f.rules[i] \in GRPCRules
    BY <1>1, <1>4
  <2>2. validGRPCRule(f.rules[i])
    BY <1>5, <2>1
  <2>3. /\ n.rules[i].shadow \in ShadowModes /\ n.rules[i].service # ""
        /\ (n.rules[i].primaryMetadata \cup n.rules[i].shadowMetadata) \cap (ReservedKeys \cup BadKeys) = {}
    BY <2>1, <2>2, GRPCRuleSound
  <2>4. n.oidc.enabled => "authorization" \notin n.rules[i].primaryMetadata
    BY <1>8 DEF metadataConflict
  <2> QED BY <2>3, <2>4
<1>10. EffectiveIntrospectionMaxConcurrent(n.caller) > 0
  <2>1. f.caller.concurrent \in Int
    BY <1>4 DEF Sections
  <2> QED BY <1>1, <2>1 DEF EffectiveIntrospectionMaxConcurrent, Positive
<1>11. GRPCSound(n)
  BY <1>1, <1>5, <1>6, <1>7, <1>9, <1>10 DEF GRPCSound
<1>12. LendsTokenKnowingly(n)
  <2> DEFINE c == f.caller
             t == f.tls
             o == n.oidc
  <2>1. ValidateGRPCCallerAuth(c, o, t) /\ n.caller = c /\ n.tls = t
    BY <1>1, <1>2, <1>5
  <2> HIDE DEF c, t, o
  <2>2. o.enabled =>
          \/ c.allow /\ c.mode = ""
          \/ ~c.allow /\ c.mode = "mtls" /\ t.enabled /\ t.require /\ t.clientCA
          \/ ~c.allow /\ c.mode = "introspection" /\ c.endpoint = "https" /\ c.client
    BY <2>1 DEF ValidateGRPCCallerAuth, validIntrospection
  <2> QED BY <2>1, <2>2 DEF LendsTokenKnowingly, o
<1> QED BY <1>11, <1>12 DEF n

--------------------------------------------------------------------------------
(* The process *)

\* The file is one, what is served had been loaded, and what a reload has validated
\* had loaded then.
ReloadInv ==
  /\ IsFile(file)
  /\ pc \in {"loaded", "serving", "validated"} => IsFile(running) /\ Loads(running)
  /\ checked # NoFile => Loads(checked)

LEMMA InitReload == Init => ReloadInv
BY ReloadAssumption DEF Init, ReloadInv

LEMMA NextReload == ReloadInv /\ [Next]_vars => ReloadInv'
<1> SUFFICES ASSUME ReloadInv, [Next]_vars PROVE ReloadInv'
  OBVIOUS
<1>1. ASSUME NEW section \in DOMAIN Variants, NEW value \in Variants[section], Edit(section, value)
      PROVE  ReloadInv'
  <2>1. /\ file' = [file EXCEPT ![section] = value] /\ UNCHANGED <<pc, running, checked>>
    BY <1>1 DEF Edit
  <2>2. section \in DOMAIN Sections /\ value \in Sections[section]
    BY ReloadAssumption
  <2>3. IsFile(file')
    BY <2>1, <2>2 DEF ReloadInv, IsFile
  <2> QED BY <2>1, <2>3 DEF ReloadInv
<1>2. CASE Load
  BY <1>2 DEF Load, ReloadInv
<1>3. CASE Start \/ LoadFails \/ StartFails
  BY <1>3 DEF Start, LoadFails, StartFails, ReloadInv
<1>4. CASE handleSIGHUP
  BY <1>4 DEF handleSIGHUP, ReloadInv
<1>5. CASE reloadAborted \/ UNCHANGED vars
  BY <1>5 DEF reloadAborted, vars, ReloadInv
<1>6. CASE reexecSelf
  BY <1>6 DEF reexecSelf, ReloadInv
<1>7. CASE execFails
  BY <1>7 DEF execFails, ReloadInv
<1> QED BY <1>1, <1>2, <1>3, <1>4, <1>5, <1>6, <1>7 DEF Next

\* A process that serves does so with a configuration on which the limiter, the
\* selectors, the queue, the metadata and the lending of the backend token may rely,
\* for every file and any number of edits and reloads (Load, validate, handleSIGHUP).
THEOREM ServesCorrect == Spec => []ServesSound
<1>1. ASSUME ReloadInv, pc \in {"serving", "validated"}
      PROVE  /\ PolicySound(cfg)
             /\ cfg.base.protocol = "http" => cfg.base.urls > 0
             /\ cfg.base.protocol = "grpc" => GRPCSound(cfg) /\ LendsTokenKnowingly(cfg)
  <2>1. IsFile(running) /\ Loads(running)
    BY <1>1 DEF ReloadInv
  <2>2. PolicySound(cfg)
    BY <2>1, LoadsPolicySound DEF cfg
  <2>3. cfg.base.protocol = "http" => cfg.base.urls > 0
    <3>1. cfg.base.urls = running.base.urls
      BY <2>1, CommonFields DEF cfg
    <3>2. cfg.base.protocol = "http" => running.base.urls > 0
      BY <2>1 DEF Loads, cfg
    <3> QED BY <3>1, <3>2
  <2>4. cfg.base.protocol = "grpc" => GRPCSound(cfg) /\ LendsTokenKnowingly(cfg)
    BY <2>1, LoadsGRPCSound DEF cfg
  <2> QED BY <2>2, <2>3, <2>4
<1>2. ReloadInv => ServesSound
  BY <1>1 DEF ServesSound
<1> QED BY <1>2, InitReload, NextReload, PTL DEF Spec

\* The new image of a reload refuses a file only if it was edited after the old image had
\* validated it, for every file and any edits (handleSIGHUP, reexecSelf, Load).
THEOREM ReloadLoadsCorrect == Spec => ReloadLoadsAgree
<1> DEFINE A == pc = "starting" /\ checked # NoFile /\ pc' = "exited" => file # checked
<1>1. ASSUME ReloadInv, [Next]_vars PROVE A
  <2> SUFFICES ASSUME pc = "starting", checked # NoFile, pc' = "exited", file = checked
               PROVE  FALSE
    OBVIOUS
  <2>1. Loads(file)
    BY <1>1 DEF ReloadInv
  <2>2. LoadFails
    BY <1>1 DEF Next, vars, Edit, Load, Start, StartFails, handleSIGHUP, reloadAborted, reexecSelf, execFails
  <2> QED BY <2>1, <2>2 DEF LoadFails
<1>2. ReloadInv /\ [Next]_vars => [A]_vars
  BY <1>1
<1> QED BY <1>2, InitReload, NextReload, PTL DEF Spec, ReloadLoadsAgree
================================================================================
