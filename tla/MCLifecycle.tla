------------------------------ MODULE MCLifecycle ------------------------------
(* Finite instances of Lifecycle. *)
EXTENDS Lifecycle

Config(protocol, metricsOn, chroot, user, group) ==
  [protocol |-> protocol, metrics |-> metricsOn, chroot |-> chroot, user |-> user, group |-> group]

\* Every protocol, with and without isolation that a reload may ask for; a group that
\* is not looked at, and a user that a first image cannot resolve and a later one
\* does not look at.
MCConfigs ==
  { Config("http", TRUE, FALSE, "", ""), Config("http", TRUE, FALSE, "plain", "unknown"),
    Config("grpc", TRUE, TRUE, "grouped", ""), Config("milter", TRUE, TRUE, "", "known"),
    Config("grpc", FALSE, FALSE, "unknown", "") }
================================================================================
