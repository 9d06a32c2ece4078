------------------------------- MODULE PlainProxy -------------------------------
(***************************************************************************)
(* What an HTTP client may see: a proxy without any shadow.  A request is  *)
(* answered once, with what was read from the primary or, when the primary *)
(* gave nothing, with an error of the proxy's own.                         *)
(***************************************************************************)
CONSTANTS Requests, Bodies, Errors, OK, NoAnswer

VARIABLES
  served,  \* per request: the body read from the primary, if any
  given    \* per request: [status, body] given to the client

vars == <<served, given>>

Init == served = [r \in Requests |-> <<>>] /\ given = [r \in Requests |-> NoAnswer]

Serve(r) ==
  /\ served[r] = <<>> /\ given[r] = NoAnswer
  /\ \E b \in Bodies : served' = [served EXCEPT ![r] = <<b>>]
  /\ UNCHANGED given

Relay(r) ==
  /\ served[r] # <<>> /\ given[r] = NoAnswer
  /\ given' = [given EXCEPT ![r] = [status |-> OK, body |-> served[r][1]]]
  /\ UNCHANGED served

Fail(r) ==
  /\ served[r] = <<>> /\ given[r] = NoAnswer
  /\ \E e \in Errors : given' = [given EXCEPT ![r] = [status |-> e, body |-> <<>>]]
  /\ UNCHANGED served

Next == \E r \in Requests : Serve(r) \/ Relay(r) \/ Fail(r)

Spec == Init /\ [][Next]_vars
================================================================================
