------------------------------ MODULE MCMilterConn ------------------------------
(* Finite instances of MilterConn. *)
EXTENDS MilterConn

\* EOM is answered with a disposition alone or after an action frame.
MCEOMReplies == {<<"a">>, <<"h", "a">>}
================================================================================
