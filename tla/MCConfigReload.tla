----------------------------- MODULE MCConfigReload -----------------------------
(* A finite instance of ConfigReload: three files that load, and for every section *)
(* values at the limits of what Load tells apart.                                   *)
EXTENDS ConfigReload

GRPCRule(service, shadowMode, primaryKeys) ==
  [service |-> service, methods |-> {"m"}, shadow |-> shadowMode, compare |-> "", compareMode |-> "",
   compareMetadata |-> <<"X-Tag">>, primaryMetadata |-> primaryKeys, shadowMetadata |-> {"X-Tag"}]

PathRuleOf(match, shadowMode, headers) ==
  [match |-> match, methods |-> {"GET"}, shadow |-> shadowMode, compare |-> "on", compareMode |-> "JSON",
   compareHeaders |-> {"X-Tag", "x-tag"}, primaryHeaders |-> headers, shadowHeaders |-> {}]

Target(address, tls, cert, ca) ==
  [address |-> address, tls |-> tls, cert |-> cert, key |-> cert, ca |-> ca]

MethodOf(scopes) == [method |-> "/s/m", scopes |-> scopes]

\* Empty values and zeroes, which normalisation replaces.
HTTPFile ==
  [setDefaults EXCEPT
     !.base = [@ EXCEPT !.protocol = "", !.level = "", !.logFields = <<"X-Tag">>],
     !.http = [@ EXCEPT !.timeout = 0, !.idle = 0, !.protocol = "", !.selection = ""],
     !.compare.mode = "JSON", !.paths = <<PathRuleOf("^/a", "Never", {"X-Tag"})>>,
     !.obs = [@ EXCEPT !.prometheus = TRUE, !.minTLS = "", !.header = "X-Tag"],
     !.grpc = [@ EXCEPT !.selection = "", !.shadowTimeout = 0, !.queue = 0, !.maxBytes = 0,
                        !.compareMode = "", !.compareKeys = <<"grpc-x">>],
     !.oidc = [@ EXCEPT !.endpoint = "https", !.clientID = "id", !.secret = TRUE, !.method = "",
                        !.timeout = 0, !.skew = 0],
     !.caller = [@ EXCEPT !.endpoint = "https", !.client = TRUE, !.timeout = 0, !.concurrent = 0,
                          !.methods = <<MethodOf({"read"})>>]]

GRPCFile ==
  [HTTPFile EXCEPT
     !.base.protocol = "GRPC", !.base.urls = 0, !.primary = <<Target("a", FALSE, "", "")>>,
     !.rules = <<GRPCRule("s", "", {"X-Tag"})>>, !.oidc.enabled = TRUE, !.caller.mode = "introspection"]

MilterFile == [HTTPFile EXCEPT !.base.protocol = "milter"]

MCBase == {HTTPFile, GRPCFile, MilterFile}

With(section, changes) == {[HTTPFile[section] EXCEPT ![c[1]] = c[2]] : c \in changes}

Changes ==
  [base |-> {GRPCFile.base, HTTPFile.base} \cup
            With("base", {<<"protocol", "ftp">>, <<"urls", 0>>, <<"level", "loud">>,
                          <<"logFields", <<"x-tag", "x_tag">> >>}),
   rate |-> With("rate", {<<"sample", -1>>, <<"sample", 101>>, <<"burst", 0>>}),
   http |-> With("http", {<<"timeout", -1>>, <<"perHost", -1>>, <<"protocol", "http3">>,
                          <<"selection", "random">>, <<"ca", "missing">>, <<"cert", "file">>}),
   compare |-> With("compare", {<<"mode", "xml">>, <<"threshold", 101>>}),
   paths |-> {<<>>, <<PathRuleOf("(", "auto", {})>>, <<PathRuleOf("^/a", "often", {})>>,
              <<PathRuleOf("^/a", "auto", {"X-Tag", "x-tag"})>>,
              <<[PathRuleOf("^/a", "auto", {}) EXCEPT !.methods = {"bad key"}]>>},
   mapping |-> {[mode |-> "mirror", rules |-> <<>>], [mode |-> "rewrite", rules |-> <<"^/a", "(">>]},
   obs |-> With("obs", {<<"port", 0>>, <<"tls", TRUE>>, <<"ratio", 101>>, <<"otel", TRUE>>,
                        <<"header", "bad key">>}),
   grpc |-> With("grpc", {<<"listen", "  ">>, <<"queue", -1>>, <<"maxBytes", -1>>, <<"compareMode", "all">>,
                          <<"selection", "random">>, <<"compareKeys", <<"X-Tag", "x-tag">> >>}),
   tls |-> { [enabled |-> TRUE, pair |-> TRUE, clientCA |-> TRUE, require |-> TRUE, minTLS |-> "TLS1.3"],
             [enabled |-> TRUE, pair |-> FALSE, clientCA |-> FALSE, require |-> FALSE, minTLS |-> ""],
             [enabled |-> TRUE, pair |-> TRUE, clientCA |-> TRUE, require |-> FALSE, minTLS |-> ""] },
   primary |-> {<<>>, <<Target("a", TRUE, "", "missing")>>, <<Target("a", TRUE, "missing", "")>>,
               <<Target("a", FALSE, "file", "")>>, <<Target("bad address", FALSE, "", "missing")>>},
   shadows |-> {<<Target("b", FALSE, "", "")>>, <<Target("", FALSE, "", "")>>},
   rules |-> {<<>>, <<GRPCRule("  ", "", {})>>,
              <<[GRPCRule("s", "", {}) EXCEPT !.compareMetadata = <<"X-Tag", "x-tag">>]>>, <<GRPCRule("s", "Never", {"grpc-x"})>>,
              <<GRPCRule("s", "", {}), GRPCRule("*", "always", {"Authorization"})>>},
   oidc |-> {HTTPFile.oidc, [GRPCFile.oidc EXCEPT !.endpoint = ""], [GRPCFile.oidc EXCEPT !.secretEnv = TRUE],
             [GRPCFile.oidc EXCEPT !.insecure = TRUE, !.ca = "ca"],
             [GRPCFile.oidc EXCEPT !.insecure = TRUE, !.serverName = "host"],
             [GRPCFile.oidc EXCEPT !.minTLS = "ssl3"], [GRPCFile.oidc EXCEPT !.method = "jwt"]},
   caller |-> With("caller", {<<"mode", "mtls">>, <<"allow", TRUE>>}) \cup
              {[GRPCFile.caller EXCEPT !.allow = TRUE], [GRPCFile.caller EXCEPT !.entries = 0],
               [GRPCFile.caller EXCEPT !.concurrent = -1], [GRPCFile.caller EXCEPT !.endpoint = "http"],
               [GRPCFile.caller EXCEPT !.methods = <<MethodOf({"read"}), MethodOf({"write"})>>],
               [GRPCFile.caller EXCEPT !.methods = <<MethodOf({})>>], [GRPCFile.caller EXCEPT !.minTLS = "ssl3"],
               HTTPFile.caller}]

\* An operator may also take a section out of the file.
MCVariants == [section \in DOMAIN Changes |-> Changes[section] \cup {setDefaults[section]}]
================================================================================
