------------------------------ MODULE MCGrpcHandle ------------------------------
(* A finite instance of GrpcHandle. *)
EXTENDS GrpcHandle

Call(method, peer, metadata, authentic) ==
  [method |-> method, peer |-> peer, metadata |-> metadata, authentic |-> authentic]

CONSTANT r2

Plain     == Call(<<"s", "m">>, "ip1", <<>>, TRUE)
Forbidden == Call(<<"s", "n">>, NoIP, [k \in {"authorization", "force"} |-> <<"client">>], TRUE)
Malformed == Call(<<>>, "ip1", <<>>, TRUE)
Rejected  == Call(<<"s", "m">>, "ip1", <<>>, FALSE)

\* A plain call, one that brings an authorization and forces the shadow although the
\* first rule forbids it, one with a malformed method, one without credentials.
MCCalls == [r \in Rpcs |-> IF r = r2 THEN {Forbidden, Malformed, Rejected} ELSE {Plain}]

Rule(service, methods, shadowMode, compare, primaryOverlay, shadowOverlay) ==
  [service |-> service, methods |-> methods, shadow |-> shadowMode, compare |-> compare,
   primaryMetadata |-> primaryOverlay, shadowMetadata |-> shadowOverlay]

MCRules ==
  << Rule("s", {"n"}, "never", "off", <<>>, <<>>),
     Rule("*", {}, "auto", "on", [k \in {"x-tag", "grpc-timeout"} |-> <<"rule">>],
          [k \in {"authorization"} |-> <<"rule">>]) >>

MCPrimaryTargets == <<"p1", "p2">>
MCShadowTargets == <<"v1", "v2">>
MCHash == [ip \in {"ip1"} |-> 3]
================================================================================
