------------------------------- MODULE MilterConn -------------------------------
(***************************************************************************)
(* One Milter client connection: Handler.HandleConn (the goroutine that    *)
(* reads MTA frames, runs each against the primary session and relays the  *)
(* reply), the milterShadowWorker that replays the same frames to the      *)
(* shadow session, and the goroutine Runner.runShadow starts for every     *)
(* shadow event and abandons when the event times out.                     *)
(*                                                                         *)
(* A backend is its log of received frames, the requests it still has to   *)
(* answer and the reply frames on their way to the proxy.  Every reply     *)
(* frame carries the id of the request it answers, which the code cannot   *)
(* see: a property reads it to tell whose reply was relayed.               *)
(***************************************************************************)
EXTENDS Naturals, FiniteSets, MilterSemantics

CONSTANTS
  Commands,             \* commands the MTA sends
  ReplyCodes,           \* reply frame codes backends use
  EOMReplies,           \* reply sequences a backend gives to any command but "O"
  MaxFrames,            \* bound: frames the MTA sends on this connection
  QueueCapacity,        \* milterShadowQueueCapacity (64 in the code)
  ShadowSamplePercent,  \* shadow_sample_percent
  TimeoutSet            \* milter_timeout > 0

ASSUME ConnAssumption ==
  /\ MaxFrames \in Nat /\ QueueCapacity \in Nat \ {0}
  /\ ShadowSamplePercent \in Nat /\ TimeoutSet \in BOOLEAN

\* A backend of the supported profile ends its reply with the first terminal frame.
ASSUME RepliesAssumption ==
  /\ "O" \in ReplyCodes
  /\ EOMReplies \subseteq Seq(ReplyCodes)
  /\ \A r \in EOMReplies : r # <<>>
  /\ \A r \in EOMReplies : \A i \in DOMAIN r : r[i] \in TerminalReplies <=> i = Len(r)

VARIABLES
  hpc,         \* where HandleConn is
  nread,       \* client frames read so far
  frame,       \* the frame being handled
  raw,         \* primary reply frames of the current turn
  clientOpen,  \* the MTA has not closed its end
  clientGot,   \* turns written back to the MTA: [id, raw]
  primary,     \* primary backend and its session
  enabled,     \* shadowEnabled: there is a worker
  queue,       \* milterShadowWorker.queue
  closed,      \* milterShadowWorker.closed (the channel is closed)
  wpc,         \* where milterShadowWorker.run is
  work,        \* the work item taken from the queue
  session,     \* the worker's shadow session
  unavailable, \* shadowUnavailable
  gpc,         \* where the runShadow goroutine is
  graw,        \* shadow reply frames it has read
  gerr,        \* it ended with an error
  shadow,      \* shadow backend and its session
  verdicts     \* logFrameResult calls: [id, result]

clientVars  == <<clientOpen, clientGot>>
handlerVars == <<hpc, nread, frame, raw>>
queueVars   == <<enabled, queue, closed>>
workerVars  == <<wpc, work, session, unavailable>>
goVars      == <<gpc, graw, gerr>>
vars == <<clientVars, handlerVars, primary, queueVars, workerVars, goVars, shadow, verdicts>>

Frames  == [id : 1..MaxFrames, cmd : Commands]
NoFrame == [id |-> 0, cmd |-> "none"]
NoWork  == [frame |-> NoFrame, raw |-> <<>>]
Codes(replies) == [i \in DOMAIN replies |-> replies[i].cmd]
Expects(f) == MilterCommandExpectsResponse(f.cmd)

--------------------------------------------------------------------------------
(* Backends and their sessions. *)

NewBackend == [log |-> <<>>, due |-> {}, out |-> <<>>]

\* milterSession.Send: the frame is written whole to the backend.
Send(b, f) == [b EXCEPT !.log = Append(@, f),
                        !.due = IF Expects(f) THEN @ \cup {f} ELSE @]

\* One round of milterSession.Receive's loop: a reply frame is read.
ReadReply(b) == [b EXCEPT !.out = Tail(@)]

ReplyComplete(f, reply) == milterReplyCompletesRequest(f.cmd, reply.cmd)

\* The backend answers a request with a complete reply sequence.
BackendReplies(cmd) == IF cmd = "O" THEN {<<"O">>} ELSE EOMReplies
Answer(b, f, reply) ==
  [b EXCEPT !.due = @ \ {f},
            !.out = @ \o [i \in DOMAIN reply |-> [id |-> f.id, cmd |-> reply[i]]]]

PrimaryAnswers ==
  /\ \E f \in primary.due : \E reply \in BackendReplies(f.cmd) :
       primary' = Answer(primary, f, reply)
  /\ UNCHANGED <<clientVars, handlerVars, queueVars, workerVars, goVars, shadow, verdicts>>

ShadowAnswers ==
  /\ \E f \in shadow.due : \E reply \in BackendReplies(f.cmd) :
       shadow' = Answer(shadow, f, reply)
  /\ UNCHANGED <<clientVars, handlerVars, primary, queueVars, workerVars, goVars, verdicts>>

\* The MTA may close its end at any time; frames it sent before stay readable.
ClientClose ==
  /\ clientOpen
  /\ clientOpen' = FALSE
  /\ UNCHANGED <<clientGot, handlerVars, primary, queueVars, workerVars, goVars, shadow, verdicts>>

--------------------------------------------------------------------------------
(* Handler.HandleConn *)

\* Mutant: a failed shadow event is compared like any other.
ComparedDespiteError(shadowEnabled, started, shadowErr, compare) ==
  IF ~shadowEnabled \/ ~started THEN "skipped"
  ELSE IF compare.diff \/ compare.decisionDiff THEN "diff"
  ELSE "same"

\* milterComparisonMetricResult, with what logFrameResult is given for a frame.
milterComparisonMetricResult(shadowEnabled, started, shadowErr, compare) ==
  IF ~shadowEnabled \/ ~started THEN "skipped"
  ELSE IF shadowErr THEN "error"
  ELSE IF compare.diff \/ compare.decisionDiff THEN "diff"
  ELSE "same"

NoCompare == [diff |-> FALSE, decisionDiff |-> FALSE]
Verdict(id, result) == verdicts' = Append(verdicts, [id |-> id, result |-> result])
SkipVerdict(id) == Verdict(id, milterComparisonMetricResult(enabled, FALSE, FALSE, NoCompare))

\* The per-connection decision: sampling first, then the limiter (nil or not).
ShadowEnabled(rand, allowed) == rand < ShadowSamplePercent /\ allowed

\* The primary session is dialled, then the shadow decision is taken.
DialPrimary ==
  /\ hpc = "dial"
  /\ hpc' = "read"
  /\ \E rand \in {0, 50, 99}, allowed \in BOOLEAN : enabled' = ShadowEnabled(rand, allowed)
  /\ wpc' = IF enabled' THEN "idle" ELSE "none"
  /\ UNCHANGED <<clientVars, nread, frame, raw, primary, queue, closed, work, session,
                 unavailable, goVars, shadow, verdicts>>

DialPrimaryFailed ==
  /\ hpc = "dial"
  /\ hpc' = "closed"
  /\ UNCHANGED <<clientVars, nread, frame, raw, primary, queueVars, workerVars, goVars,
                 shadow, verdicts>>

ReadFrame ==
  /\ hpc = "read" /\ nread < MaxFrames
  /\ hpc' = "send"
  /\ nread' = nread + 1
  /\ \E cmd \in Commands : frame' = [id |-> nread + 1, cmd |-> cmd]
  /\ raw' = <<>>
  /\ UNCHANGED <<clientVars, primary, queueVars, workerVars, goVars, shadow, verdicts>>

\* Every return of the loop runs the deferred calls, shadowWorker.Close first.
Leave(step) ==
  /\ hpc = step
  /\ hpc' = "close"
  /\ UNCHANGED <<clientVars, nread, frame, raw, primary, queueVars, workerVars, goVars,
                 shadow, verdicts>>

\* shouldStopMilterLoop: end of stream after the MTA closed, or a broken frame.
ReadClosed == ~clientOpen /\ Leave("read")
ReadBroken == clientOpen /\ nread < MaxFrames /\ Leave("read")

\* RunPrimaryEvent, first half: Send to the primary session.
PrimarySend ==
  /\ hpc = "send"
  /\ primary' = Send(primary, frame)
  /\ hpc' = IF Expects(frame) THEN "receive" ELSE "submit"
  /\ UNCHANGED <<clientVars, nread, frame, raw, queueVars, workerVars, goVars, shadow, verdicts>>

PrimarySendFailed == Leave("send")

\* RunPrimaryEvent, second half: Receive loops until the reply completes the turn.
PrimaryReceive ==
  /\ hpc = "receive" /\ primary.out # <<>>
  /\ raw' = Append(raw, Head(primary.out))
  /\ primary' = ReadReply(primary)
  /\ hpc' = IF ReplyComplete(frame, Head(primary.out)) THEN "write" ELSE "receive"
  /\ UNCHANGED <<clientVars, nread, frame, queueVars, workerVars, goVars, shadow, verdicts>>

\* A read fails at once when the primary drops the connection, or at the deadline.
PrimaryReceiveFailed == Leave("receive")

\* Mutant: the error of conn.Write is ignored.
WriteErrorIgnored ==
  /\ hpc = "write"
  /\ clientGot' = IF clientOpen THEN Append(clientGot, [id |-> frame.id, raw |-> raw]) ELSE clientGot
  /\ hpc' = "submit"
  /\ UNCHANGED <<clientOpen, nread, frame, raw, primary, queueVars, workerVars, goVars,
                 shadow, verdicts>>

writePrimaryFrame ==
  /\ hpc = "write"
  /\ clientGot' = Append(clientGot, [id |-> frame.id, raw |-> raw])
  /\ hpc' = "submit"
  /\ UNCHANGED <<clientOpen, nread, frame, raw, primary, queueVars, workerVars, goVars,
                 shadow, verdicts>>

WriteFailed == ~clientOpen /\ Leave("write")

\* milterShadowWorker.Submit, under the worker's mutex.
\* Mutants: one item too many fits; a full queue drops the item and stays open.
AcceptsOneMore == ~closed /\ Len(queue) <= QueueCapacity
Accepts == ~closed /\ Len(queue) < QueueCapacity
EnqueueDrops(w) ==
  /\ queue'  = IF Accepts THEN Append(queue, w) ELSE queue
  /\ closed' = closed
Enqueue(w) ==
  /\ queue'  = IF Accepts THEN Append(queue, w) ELSE queue
  /\ closed' = (closed \/ ~Accepts)

\* Mutant: the submission waits for room in the queue.
SubmitBlocks ==
  /\ hpc = "submit" /\ enabled /\ (closed \/ Len(queue) < QueueCapacity)
  /\ Enqueue([frame |-> frame, raw |-> Codes(raw)])
  /\ IF Accepts THEN UNCHANGED verdicts ELSE SkipVerdict(frame.id)
  /\ hpc' = "read"
  /\ UNCHANGED <<clientVars, nread, frame, raw, primary, enabled, workerVars, goVars, shadow>>

\* The end of handleFrame: hand the frame to the worker, or log it here.
Submit ==
  /\ hpc = "submit" /\ enabled
  /\ Enqueue([frame |-> frame, raw |-> Codes(raw)])
  /\ IF Accepts THEN UNCHANGED verdicts ELSE SkipVerdict(frame.id)
  /\ hpc' = "read"
  /\ UNCHANGED <<clientVars, nread, frame, raw, primary, enabled, workerVars, goVars, shadow>>

FinishPrimaryOnly ==
  /\ hpc = "submit" /\ ~enabled
  /\ SkipVerdict(frame.id)
  /\ hpc' = "read"
  /\ UNCHANGED <<clientVars, nread, frame, raw, primary, queueVars, workerVars, goVars, shadow>>

\* milterShadowWorker.Close: close the queue, then wait for done.  The deferred
\* primarySession.Close and conn.Close run only after it returns.
CloseWorker ==
  /\ hpc = "close" /\ enabled
  /\ closed' = TRUE
  /\ hpc' = "await"
  /\ UNCHANGED <<clientVars, nread, frame, raw, primary, enabled, queue, workerVars, goVars,
                 shadow, verdicts>>

\* Mutant: conn.Close is reached only after the MTA has closed its end.
CloseConnAfterClient ==
  /\ ~clientOpen
  /\ \/ hpc = "close" /\ ~enabled
     \/ hpc = "await" /\ wpc = "done"
  /\ hpc' = "closed"
  /\ UNCHANGED <<clientVars, nread, frame, raw, primary, queueVars, workerVars, goVars,
                 shadow, verdicts>>

CloseConn ==
  /\ \/ hpc = "close" /\ ~enabled
     \/ hpc = "await" /\ wpc = "done"
  /\ hpc' = "closed"
  /\ UNCHANGED <<clientVars, nread, frame, raw, primary, queueVars, workerVars, goVars,
                 shadow, verdicts>>

--------------------------------------------------------------------------------
(* milterShadowWorker.run *)

Take == wpc = "idle" /\ queue # <<>> /\ queue' = Tail(queue) /\ work' = Head(queue)

\* runShadow starts its goroutine and waits for it.
StartEvent == wpc' = "wait" /\ gpc' = "send" /\ graw' = <<>> /\ gerr' = FALSE

\* Mutant: work that is skipped is not reported.
WorkerSkipsSilently ==
  /\ Take /\ unavailable
  /\ UNCHANGED <<clientVars, handlerVars, primary, enabled, closed, wpc, session, unavailable,
                 goVars, shadow, verdicts>>

WorkerSkips ==
  /\ Take /\ unavailable
  /\ SkipVerdict(Head(queue).frame.id)
  /\ UNCHANGED <<clientVars, handlerVars, primary, enabled, closed, wpc, session, unavailable,
                 goVars, shadow>>

WorkerOpens ==
  /\ Take /\ ~unavailable /\ session = "nil"
  /\ wpc' = "dial"
  /\ UNCHANGED <<clientVars, handlerVars, primary, enabled, closed, session, unavailable,
                 goVars, shadow, verdicts>>

WorkerRuns ==
  /\ Take /\ ~unavailable /\ session = "open"
  /\ StartEvent
  /\ UNCHANGED <<clientVars, handlerVars, primary, enabled, closed, session, unavailable,
                 shadow, verdicts>>

ShadowDialled ==
  /\ wpc = "dial"
  /\ session' = "open"
  /\ StartEvent
  /\ UNCHANGED <<clientVars, handlerVars, primary, queueVars, work, unavailable, shadow, verdicts>>

\* Mutant: the next frame dials again.
ShadowDialRetried ==
  /\ wpc = "dial"
  /\ SkipVerdict(work.frame.id)
  /\ wpc' = "idle"
  /\ UNCHANGED <<clientVars, handlerVars, primary, queueVars, work, session, unavailable,
                 goVars, shadow>>

ShadowDialFailed ==
  /\ wpc = "dial"
  /\ unavailable' = TRUE
  /\ SkipVerdict(work.frame.id)
  /\ wpc' = "idle"
  /\ UNCHANGED <<clientVars, handlerVars, primary, queueVars, work, session, goVars, shadow>>

\* runShadow, compareResponses and onComplete.  A failed event closes the session
\* for good.
Complete(shadowErr) ==
  /\ Verdict(work.frame.id,
             milterComparisonMetricResult(enabled, TRUE, shadowErr,
                                          MilterCompare(work.raw, Codes(graw))))
  /\ session' = IF shadowErr THEN "closed" ELSE session
  /\ unavailable' = (unavailable \/ shadowErr)
  /\ wpc' = "idle"
  /\ UNCHANGED <<clientVars, handlerVars, primary, queueVars, work, goVars, shadow>>

WorkerCompletes == wpc = "wait" /\ gpc = "done" /\ Complete(gerr)

\* The event's context expires first; the goroutine keeps running on the session.
WorkerTimesOut ==
  /\ wpc = "wait" /\ TimeoutSet
  /\ wpc' = "abort"
  /\ UNCHANGED <<clientVars, handlerVars, primary, queueVars, work, session, unavailable,
                 goVars, shadow, verdicts>>

WorkerAborts == wpc = "abort" /\ Complete(TRUE)

WorkerExits ==
  /\ wpc = "idle" /\ queue = <<>> /\ closed
  /\ wpc' = "done"
  /\ session' = IF session = "open" THEN "closed" ELSE session
  /\ UNCHANGED <<clientVars, handlerVars, primary, queueVars, work, unavailable, goVars,
                 shadow, verdicts>>

--------------------------------------------------------------------------------
(* The goroutine of Runner.runShadow *)

ShadowSend ==
  /\ gpc = "send" /\ session = "open"
  /\ shadow' = Send(shadow, work.frame)
  /\ gpc' = IF Expects(work.frame) THEN "receive" ELSE "done"
  /\ UNCHANGED <<clientVars, handlerVars, primary, queueVars, workerVars, graw, gerr, verdicts>>

ShadowReceive ==
  /\ gpc = "receive" /\ session = "open" /\ shadow.out # <<>>
  /\ graw' = Append(graw, Head(shadow.out))
  /\ shadow' = ReadReply(shadow)
  /\ gpc' = IF ReplyComplete(work.frame, Head(shadow.out)) THEN "done" ELSE "receive"
  /\ UNCHANGED <<clientVars, handlerVars, primary, queueVars, workerVars, gerr, verdicts>>

\* A write or read error; the only outcome once the session is closed.
ShadowOpFailed ==
  /\ gpc \in {"send", "receive"}
  /\ gpc' = "done"
  /\ gerr' = TRUE
  /\ UNCHANGED <<clientVars, handlerVars, primary, queueVars, workerVars, graw, shadow, verdicts>>

--------------------------------------------------------------------------------
Init ==
  /\ hpc = "dial" /\ nread = 0 /\ frame = NoFrame /\ raw = <<>>
  /\ clientOpen = TRUE /\ clientGot = <<>>
  /\ primary = NewBackend /\ shadow = NewBackend
  /\ enabled = FALSE /\ queue = <<>> /\ closed = FALSE
  /\ wpc = "none" /\ work = NoWork
  /\ session = "nil" /\ unavailable = FALSE
  /\ gpc = "none" /\ graw = <<>> /\ gerr = FALSE
  /\ verdicts = <<>>

\* Quiescence: the connection is closed and its goroutines have ended.
Done ==
  /\ hpc = "closed" /\ wpc \in {"none", "done"} /\ gpc \in {"none", "done"}
  /\ UNCHANGED vars

HandlerStep ==
  \/ DialPrimary \/ DialPrimaryFailed \/ ReadClosed \/ PrimarySend \/ PrimarySendFailed
  \/ PrimaryReceive \/ writePrimaryFrame \/ WriteFailed
  \/ Submit \/ FinishPrimaryOnly \/ CloseWorker \/ CloseConn

WorkerStep ==
  \/ WorkerSkips \/ WorkerOpens \/ WorkerRuns \/ ShadowDialled \/ ShadowDialFailed
  \/ WorkerCompletes \/ WorkerTimesOut \/ WorkerAborts \/ WorkerExits

GoroutineStep == ShadowSend \/ ShadowReceive \/ ShadowOpFailed

Next ==
  \/ ClientClose \/ PrimaryAnswers \/ ShadowAnswers
  \/ ReadFrame \/ ReadBroken \/ PrimaryReceiveFailed
  \/ HandlerStep \/ WorkerStep \/ GoroutineStep \/ Done

Spec == Init /\ [][Next]_vars

\* HandleConn alone is scheduled: nothing is assumed of the worker or of the shadow
\* backend, and of the MTA only that it reads the reply it waits for, as the write to
\* it has no deadline.
PrimaryFairness == WF_vars(HandlerStep) /\ WF_vars(TimeoutSet /\ PrimaryReceiveFailed)
PrimarySpec == Spec /\ PrimaryFairness

\* The worker and its goroutine are scheduled as well and every deadline fires.
ShadowFairness ==
  /\ WF_vars(WorkerStep)
  /\ WF_vars(ShadowSend \/ ShadowReceive)
  /\ WF_vars(TimeoutSet /\ ShadowOpFailed)
  /\ WF_vars(session = "closed" /\ ShadowOpFailed)

--------------------------------------------------------------------------------
(* Properties *)

Replies == [id : 1..MaxFrames, cmd : ReplyCodes]
Backends == [log : Seq(Frames), due : SUBSET Frames, out : Seq(Replies)]
Turns    == [id : 1..MaxFrames, raw : Seq(Replies)]
Works    == [frame : Frames, raw : Seq(ReplyCodes)]
Results  == {"skipped", "error", "diff", "same"}
Verdicts == [id : 0..MaxFrames, result : Results]

\* Every variable has its type and the queue never exceeds its capacity.
TypeOK ==
  /\ hpc \in {"dial", "read", "send", "receive", "write", "submit", "close", "await", "closed"}
  /\ nread \in 0..MaxFrames /\ frame \in Frames \cup {NoFrame} /\ raw \in Seq(Replies)
  /\ clientOpen \in BOOLEAN /\ clientGot \in Seq(Turns)
  /\ primary \in Backends /\ shadow \in Backends
  /\ enabled \in BOOLEAN /\ closed \in BOOLEAN
  /\ queue \in Seq(Works) /\ Len(queue) <= QueueCapacity
  /\ wpc \in {"none", "idle", "dial", "wait", "abort", "done"}
  /\ work \in Works \cup {NoWork}
  /\ session \in {"nil", "open", "closed"} /\ unavailable \in BOOLEAN
  /\ gpc \in {"none", "send", "receive", "done"} /\ graw \in Seq(Replies) /\ gerr \in BOOLEAN
  /\ verdicts \in Seq(Verdicts)

\* The frames the shadow Milter has received are a gap-free prefix, in order, of
\* the frames the primary received: a dropped, failed or timed-out frame is never
\* followed by a later one (comment of milterShadowWorker).
ShadowPrefix ==
  /\ Len(shadow.log) <= Len(primary.log)
  /\ \A i \in 1..Len(shadow.log) : shadow.log[i] = primary.log[i]

Answered(f) == \E t \in DOMAIN clientGot : clientGot[t].id = f.id

\* A frame reaches the shadow only after the MTA has been given the primary's
\* reply to it (handleFrame writes before it submits).
ReplyBeforeShadow ==
  \A i \in DOMAIN shadow.log : Expects(shadow.log[i]) => Answered(shadow.log[i])

OwnReply(id, replies) == \A i \in DOMAIN replies : replies[i].id = id

\* A turn is closed with the reply to its own request, whole: no frame left over
\* from an earlier turn, answered late or in several frames, is relayed to the MTA
\* or compared on the shadow side (Receive and the latch of the worker).
ReplyMatchesRequest ==
  /\ \A t \in DOMAIN clientGot : OwnReply(clientGot[t].id, clientGot[t].raw)
  /\ wpc = "wait" /\ gpc = "done" /\ ~gerr => OwnReply(work.frame.id, graw)

\* A comparison is reported only for a frame the shadow received in sequence, and
\* a frame reported as skipped never reached the shadow.
VerdictSound ==
  \A v \in DOMAIN verdicts :
    /\ verdicts[v].result \in {"same", "diff"} => verdicts[v].id <= Len(shadow.log)
    /\ verdicts[v].result = "skipped" => verdicts[v].id > Len(shadow.log)

\* No frame is reported twice, and once the connection is closed every frame the
\* primary handled has been reported: accepted work is drained, by onComplete in
\* the worker, and rejected work is reported by the handler.
OneVerdictPerFrame ==
  /\ \A v, w \in DOMAIN verdicts : verdicts[v].id = verdicts[w].id => v = w
  /\ hpc = "closed" =>
       \A i \in DOMAIN primary.log :
         (Expects(primary.log[i]) => Answered(primary.log[i])) =>
            \E v \in DOMAIN verdicts : verdicts[v].id = primary.log[i].id

\* The shadow as the connection promises it: replay in order, then stop for good.
Replay == INSTANCE ShadowReplay WITH
            Items <- Frames, served <- primary.log, replayed <- shadow.log,
            stopped <- unavailable

\* MilterConn implements ShadowReplay.
ImplementsReplay == Replay!Spec

\* Without any help from the worker or the shadow backend a frame's turn ends:
\* "A slow Shadow therefore cannot delay a Primary reply" (docs/operator/milter.md).
TurnEnds == (hpc \in {"send", "receive", "write", "submit"})
              ~> (hpc \in {"read", "close", "await", "closed"})

\* A primary write or read failed while the MTA was still connected.
PrimaryFailed ==
  /\ hpc = "close" /\ clientOpen /\ nread > 0
  /\ Len(primary.log) < nread \/ (Expects(frame) /\ ~Answered(frame))

\* Once the MTA has closed its end or the primary has failed, the connection is torn
\* down: the worker drains, whatever the shadow does.  "If [...] a Primary read/write
\* fails, Doppelgaenger closes the client connection" (docs/operator/milter.md).
ConnectionEnds == ShadowFairness => ((~clientOpen \/ PrimaryFailed) ~> hpc = "closed")
================================================================================
