------------------------------ MODULE ShadowReplay ------------------------------
(***************************************************************************)
(* What every protocol mode promises of a stateful shadow: items served to *)
(* the primary are replayed to the shadow in the same order and without a  *)
(* gap, each one only after the primary had it, until replaying stops; it  *)
(* is never resumed.                                                       *)
(***************************************************************************)
EXTENDS Naturals, Sequences

CONSTANT Items

VARIABLES served, replayed, stopped

vars == <<served, replayed, stopped>>

Init == served = <<>> /\ replayed = <<>> /\ stopped = FALSE

Serve ==
  /\ \E item \in Items : served' = Append(served, item)
  /\ UNCHANGED <<replayed, stopped>>

ReplayNext ==
  /\ ~stopped /\ Len(replayed) < Len(served)
  /\ replayed' = Append(replayed, served[Len(replayed) + 1])
  /\ UNCHANGED <<served, stopped>>

Stop ==
  /\ ~stopped /\ stopped' = TRUE
  /\ UNCHANGED <<served, replayed>>

Next == Serve \/ ReplayNext \/ Stop

Spec == Init /\ [][Next]_vars
================================================================================
