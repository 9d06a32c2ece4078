------------------------------ MODULE MCHttpProxy ------------------------------
(* Finite instances of HttpProxy. *)
EXTENDS HttpProxy

\* A document that is longer than the limit, so that only the first half of it is read,
\* and an empty body under another header.
MCResponses == {[header |-> "h", body |-> <<"a", "b">>], [header |-> "g", body |-> <<>>]}
\* The first of them alone: nothing the primary answers is empty.
MCLongResponse == {[header |-> "h", body |-> <<"a", "b">>]}
MCDocuments == {<<"a", "b">>}

Rule(matches, shadow, compare, mode) ==
  [matches |-> matches, shadow |-> shadow, compare |-> compare, mode |-> mode]

\* Overlapping rules; a rule without comparison and an unmatched key; no rules;
\* shadowing paused.
MCConfigs ==
  { [rules |-> <<Rule({"login"}, "never", "inherit", ""), Rule({"login", "api"}, "always", "on", "json")>>,
     targets |-> 1, percent |-> 0, mode |-> "header", traffic |-> {"login", "api"}],
    [rules |-> <<Rule({"login"}, "auto", "off", "")>>,
     targets |-> 1, percent |-> 50, mode |-> "header", traffic |-> {"login", "api"}],
    [rules |-> <<>>, targets |-> 1, percent |-> 50, mode |-> "html", traffic |-> {"api"}],
    [rules |-> <<>>, targets |-> 0, percent |-> 100, mode |-> "json", traffic |-> {"api"}] }
================================================================================
