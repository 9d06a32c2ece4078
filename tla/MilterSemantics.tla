---------------------------- MODULE MilterSemantics ----------------------------
(***************************************************************************)
(* Turn semantics of the fixed no-reply Milter profile: which MTA command  *)
(* opens a request/reply turn, which reply frame closes it, and how the    *)
(* replies of two backends are compared.  Commands and replies are the     *)
(* one-byte codes of the wire protocol.                                    *)
(***************************************************************************)
EXTENDS Sequences, SequencesExt

\* Commands that only update per-message state and are never answered.
NoReplyCommands ==
  {"A", "B", "C", "D", "H", "K", "L", "M", "N", "Q", "R", "T", "U"}

MilterCommandExpectsResponse(command) == command \notin NoReplyCommands

TerminalReplies == {"a", "c", "d", "f", "r", "s", "t", "y", "4"}

\* Mutant: the first reply frame closes the turn.
FirstReplyCompletes(request, reply) == TRUE

milterReplyCompletesRequest(request, reply) ==
  IF request = "O" THEN reply = "O" ELSE reply \in TerminalReplies

milterDecision(reply) ==
  CASE reply = "a" -> "accept"
    [] reply = "r" -> "reject"
    [] reply = "t" -> "tempfail"
    [] reply = "d" -> "discard"
    [] reply = "c" -> "continue"
    [] OTHER       -> "unknown"

\* The decision of a response: of the terminal frame of its reply sequence, or
\* the empty string for a turn without a reply.
Decision(raw) == IF raw = <<>> THEN "" ELSE milterDecision(Last(raw))

\* MilterComparator.Compare on two raw reply sequences.
MilterCompare(primary, shadow) ==
  LET decisionDiff == Decision(primary) # Decision(shadow)
  IN  [decisionDiff |-> decisionDiff,
       diff         |-> primary # shadow \/ decisionDiff]
================================================================================
