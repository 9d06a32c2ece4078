------------------------------- MODULE HttpPolicy -------------------------------
(***************************************************************************)
(* The pure decisions of the HTTP handler: which path rule applies, whether *)
(* a request is shadowed and compared, how two responses are compared and  *)
(* which result is reported.                                               *)
(*                                                                         *)
(* A request key stands for its method and path; a rule's matches are the  *)
(* keys its methods and regular expression accept.  A response is the      *)
(* value of the compared headers and a body, a sequence of tokens.         *)
(***************************************************************************)
EXTENDS Integers, Sequences, FiniteSets, FiniteSetsExt, Functions

--------------------------------------------------------------------------------
(* pathrules.Resolver *)

Inherit   == [shadow |-> "inherit", compare |-> "inherit", mode |-> "", compareSkip |-> ""]
Unmatched == [shadow |-> "never", compare |-> "off", mode |-> "", compareSkip |-> "path_unmatched"]

\* compiledRule.decision
RuleDecision(rule) ==
  [shadow |-> rule.shadow, compare |-> rule.compare, mode |-> rule.mode,
   compareSkip |-> IF rule.shadow = "never" \/ rule.compare = "off" THEN "path_rule" ELSE ""]

Matching(rules, key) == {i \in DOMAIN rules : key \in rules[i].matches}

Resolve(rules, key) ==
  IF rules = <<>> THEN Inherit
  ELSE IF Matching(rules, key) # {} THEN RuleDecision(rules[Min(Matching(rules, key))])
  ELSE Unmatched

--------------------------------------------------------------------------------
(* shouldShadow and resolveComparison *)

sampleShadow(percent, rand) == percent >= 100 \/ (percent > 0 /\ rand < percent)

\* The request is to be shadowed, before the limiter is asked.
WantsShadow(targets, percent, decision, forced, rand) ==
  /\ targets > 0 /\ decision.shadow # "never"
  /\ decision.shadow = "always" \/ forced \/ sampleShadow(percent, rand)

\* Why the comparison is skipped ("" when it is not).
resolveComparison(decision, doShadow) ==
  IF decision.compare # "off" /\ doShadow THEN ""
  ELSE IF decision.compareSkip # "" THEN decision.compareSkip
  ELSE IF decision.compare = "off" THEN "path_rule"
  ELSE "no_shadow"

resolvedCompareMode(decision, mode) == IF decision.mode # "" THEN decision.mode ELSE mode

--------------------------------------------------------------------------------
(* compare.Registry: the three comparators.  None of them looks at the status. *)

Similar(p, s, threshold) ==
  LET common == Cardinality(Range(p) \cap Range(s))
      all    == Cardinality(Range(p) \cup Range(s))
  IN  all = 0 \/ common * 100 >= threshold * all

BodyDiff(mode, p, s, threshold) ==
  CASE mode = "json" -> p # s
    [] mode = "html" -> ~Similar(p, s, threshold)
    [] OTHER         -> FALSE

\* A JSON body that is not empty has to be a document; documents are given.
Compare(mode, p, s, documents, threshold) ==
  [err  |-> mode = "json" /\ p.body # <<>> /\ s.body # <<>> /\ ~({p.body, s.body} \subseteq documents),
   diff |-> p.header # s.header \/ BodyDiff(mode, p.body, s.body, threshold)]

\* Mutant: a shadow that failed is reported by its empty response.
MetricIgnoresShadowError(skip, doShadow, shadowErr, compare) ==
  IF skip # "" \/ ~doShadow THEN "skipped"
  ELSE IF compare.err THEN "error"
  ELSE IF compare.diff THEN "diff"
  ELSE "same"

comparisonMetricResult(skip, doShadow, shadowErr, compare) ==
  IF skip \in {"path_rule", "path_unmatched"} THEN "skipped"
  ELSE IF doShadow /\ shadowErr THEN "error"
  ELSE IF skip # "" \/ ~doShadow THEN "skipped"
  ELSE IF compare.err THEN "error"
  ELSE IF compare.diff THEN "diff"
  ELSE "same"
================================================================================
