------------------------------ MODULE MCCallerAuth ------------------------------
(* Finite instances of CallerAuth. *)
EXTENDS CallerAuth

\* Claims that are not valid yet at first and have expired at the end.
MCWindow == {[nbf |-> 1, exp |-> 3]}

\* Claims that are valid all the time.
MCValid == {[nbf |-> 0, exp |-> 9]}

first == CHOOSE t \in Tokens : TRUE
MCRevocable == {first}

\* All callers with one token, and a slot for each of them, so that an abandoned
\* flight and its successor overlap.
MCShared == {[tokens |-> [c \in Callers |-> first], maxConcurrent |-> Cardinality(Callers)]}

\* All callers with different tokens, and one slot.
MCApart ==
  {[tokens |-> f, maxConcurrent |-> 1] :
     f \in {g \in [Callers -> Tokens] : \A c, d \in Callers : g[c] = g[d] => c = d}}

\* Tokens being interchangeable, one assignment of different ones is enough.
MCSettings == MCShared \cup {CHOOSE s \in MCApart : TRUE}
================================================================================
