------------------------------- MODULE GrpcStream -------------------------------
(***************************************************************************)
(* One proxied RPC from the shadow decision to its return: Handler.Handle, *)
(* the two goroutines of forwardPrimaryStream, and the shadowForwarder     *)
(* with its run, sendRequests and receiveShadowResponses goroutines.       *)
(*                                                                         *)
(* Request messages are numbered in the order the client sends them.  A    *)
(* response message is a value; the SHA-256 over the length-prefixed       *)
(* messages is the sequence itself.  An error text is only present or not. *)
(***************************************************************************)
EXTENDS Naturals, Sequences, FiniteSets

CONSTANTS
  MaxMessages,   \* bound: request messages of the client
  MaxResponses,  \* bound: response messages of a backend
  Values,        \* payloads of response messages
  AppStatuses,   \* final statuses a backend itself returns besides OK
  QueueSize,     \* shadowQueueSize
  CompareMode    \* grpc_compare_mode

ASSUME StreamAssumption ==
  /\ MaxMessages \in Nat /\ MaxResponses \in Nat /\ QueueSize \in Nat \ {0}
  /\ CompareMode \in {"status", "message_count", "message_hash"}

\* "Canceled" stands for the status the proxy's own contexts produce; one that a backend
\* returns is a member of AppStatuses with a name of its own, since no line of the code
\* looks for it.  DeadlineExceeded is what receiveShadowResponses looks for.
ASSUME OwnStatusAssumption == AppStatuses \cap {"Canceled", "DeadlineExceeded"} = {}

VARIABLES
  hpc,         \* where Handle is
  returned,    \* the primary result that Handle returns
  upstream,    \* upstreamCtx of the primary stream: "live" or "canceled"
  clientEnd,   \* the client's side: "open", "halfclosed" or "canceled"
  cpc,         \* where forwardClientToPrimary is
  cmsg,        \* the message it has read last
  cerr,        \* it returned an error
  primaryLog,  \* messages sent on the primary stream
  ppc,         \* where forwardPrimaryToClient is
  pres,        \* its result
  doShadow,    \* shadowDecision.doShadow
  compareOff,  \* the rule switched comparison off
  queue,       \* shadowForwarder.queue
  queueClosed, \* shadowForwarder.queueClosed
  result,      \* shadowForwarder.result
  done,        \* shadowForwarder.done is closed
  ctx,         \* shadowCtx: "live", "expired" or "canceled"
  rpc,         \* where shadowForwarder.run is
  open,        \* sendOpen and recvOpen of waitForShadowForwarding
  spc,         \* where sendRequests is
  smsg,        \* the message it has taken from the queue
  serr,        \* it returned an error
  shadowLog,   \* messages sent on the shadow stream
  vpc,         \* where receiveShadowResponses is
  vres,        \* its result
  snapshot,    \* what Wait returned
  outcome,     \* compareRPCResult
  dropped      \* an offered message found the queue full

handlerVars == <<hpc, returned, upstream, snapshot, outcome>>
clientVars  == <<clientEnd, cpc, cmsg, cerr, primaryLog>>
primaryVars == <<ppc, pres>>
policyVars  == <<doShadow, compareOff>>
queueVars   == <<queue, queueClosed, dropped>>
runVars     == <<done, ctx, rpc, open>>
sendVars    == <<spc, smsg, serr, shadowLog>>
recvVars    == <<vpc, vres>>
vars == <<handlerVars, clientVars, primaryVars, policyVars, queueVars, result, runVars,
          sendVars, recvVars>>

SkipReasons == {"", "no_shadow", "target_unavailable", "shadow_not_started", "queue_full", "timeout"}
Statuses == AppStatuses \cup {"OK", "Unavailable", "DeadlineExceeded", "Canceled", "Internal"}
NoResult == [started |-> FALSE, complete |-> FALSE, skip |-> "", err |-> FALSE,
             status |-> "OK", msgs |-> <<>>]
Started == [NoResult EXCEPT !.started = TRUE]

--------------------------------------------------------------------------------
(* The client *)

ClientHalfClose ==
  /\ clientEnd = "open" /\ clientEnd' = "halfclosed"
  /\ UNCHANGED <<handlerVars, cpc, cmsg, cerr, primaryLog, primaryVars, policyVars, queueVars,
                 result, runVars, sendVars, recvVars>>

ClientCancel ==
  /\ clientEnd # "canceled" /\ hpc # "done" /\ clientEnd' = "canceled"
  /\ UNCHANGED <<handlerVars, cpc, cmsg, cerr, primaryLog, primaryVars, policyVars, queueVars,
                 result, runVars, sendVars, recvVars>>

\* The contexts below end with the server stream's: the client cancels, or Handle returns.
StreamEnded == clientEnd = "canceled" \/ hpc = "done"
UpstreamEnded == StreamEnded \/ upstream = "canceled"

--------------------------------------------------------------------------------
(* shadowForwarder: the parts under its mutex *)

\* markResultLocked: the first reason and the first error are kept.
Mark(r, reason, err) ==
  [r EXCEPT !.skip = IF @ = "" THEN reason ELSE @, !.err = @ \/ err]

\* Mutant: the receiver's result replaces the reason already recorded.
MergeReplaces(r, v) ==
  [r EXCEPT !.status = v.status, !.msgs = v.msgs, !.complete = v.complete,
            !.err = @ \/ v.err, !.skip = v.skip]

\* mergeReceiveResult
Merge(r, v) ==
  [r EXCEPT !.status = v.status, !.msgs = v.msgs, !.complete = v.complete,
            !.err = @ \/ v.err, !.skip = IF @ = "" THEN v.skip ELSE @]

HasQueue == rpc # "none"

\* Mutant: the offer waits for room in the queue.
OfferBlocks(m) ==
  IF ~HasQueue \/ queueClosed
  THEN UNCHANGED <<queue, queueClosed, result, dropped>>
  ELSE Len(queue) < QueueSize /\ queue' = Append(queue, m)
       /\ UNCHANGED <<queueClosed, result, dropped>>

\* Offer of message m.
Offer(m) ==
  IF ~HasQueue \/ queueClosed
  THEN UNCHANGED <<queue, queueClosed, result, dropped>>
  ELSE IF Len(queue) < QueueSize
       THEN queue' = Append(queue, m) /\ UNCHANGED <<queueClosed, result, dropped>>
       ELSE /\ result' = Mark(result, "queue_full", TRUE)
            /\ queueClosed' = TRUE /\ dropped' = TRUE
            /\ UNCHANGED queue

\* Close
CloseQueue == queueClosed' = (HasQueue \/ queueClosed) /\ UNCHANGED <<queue, dropped>>

Cancel(c) == IF c = "live" THEN "canceled" ELSE c

--------------------------------------------------------------------------------
(* Handler.Handle *)

\* prepareShadow: no shadow, no usable target, or a running forwarder.
PrepareShadow ==
  /\ hpc = "prepare" /\ hpc' = "open"
  /\ compareOff' \in BOOLEAN
  /\ \/ doShadow' = FALSE /\ done' = TRUE /\ UNCHANGED rpc
        /\ \E reason \in {"", "no_shadow"} : result' = [NoResult EXCEPT !.skip = reason]
     \/ doShadow' = TRUE /\ result' = Mark(NoResult, "target_unavailable", TRUE)
        /\ done' = TRUE /\ UNCHANGED rpc
     \/ doShadow' = TRUE /\ rpc' = "dial" /\ UNCHANGED <<result, done>>
  /\ UNCHANGED <<returned, upstream, snapshot, outcome, clientVars, primaryVars, queueVars,
                 ctx, open, sendVars, recvVars>>

PrimaryOpened ==
  /\ hpc = "open" /\ ~UpstreamEnded
  /\ hpc' = "forward" /\ cpc' = "recv" /\ ppc' = "recv" /\ pres' = Started
  /\ UNCHANGED <<returned, upstream, snapshot, outcome, clientEnd, cmsg, cerr, primaryLog,
                 policyVars, queueVars, result, runVars, sendVars, recvVars>>

OpenStatus == IF StreamEnded THEN "Canceled" ELSE "Unavailable"

\* Mutant: the error path leaves the queue open.
OpenFailedQueueOpen ==
  /\ hpc = "open" /\ hpc' = "await"
  /\ returned' = [NoResult EXCEPT !.err = TRUE, !.status = OpenStatus]
  /\ UNCHANGED <<upstream, snapshot, outcome, clientVars, primaryVars, policyVars, queueVars,
                 result, runVars, sendVars, recvVars>>

\* handlePrimaryStreamCreateError, up to the call of Wait.
PrimaryOpenFailed ==
  /\ hpc = "open" /\ hpc' = "await"
  /\ CloseQueue
  /\ returned' = [NoResult EXCEPT !.err = TRUE, !.status = OpenStatus]
  /\ UNCHANGED <<upstream, snapshot, outcome, clientVars, primaryVars, policyVars, result,
                 runVars, sendVars, recvVars>>

\* waitForPrimaryForwarding: a failed request direction ends the RPC ...
PrimarySendEnded ==
  /\ hpc = "forward" /\ cpc = "done" /\ cerr
  /\ hpc' = "await" /\ upstream' = "canceled"
  /\ \E s \in {"Internal"} \cup (IF StreamEnded THEN {"Canceled"} ELSE {}) :
       returned' = [NoResult EXCEPT !.err = TRUE, !.status = s]
  /\ UNCHANGED <<snapshot, outcome, clientVars, primaryVars, policyVars, queueVars, result,
                 runVars, sendVars, recvVars>>

\* ... and so does the end of the response direction.
PrimaryRecvEnded ==
  /\ hpc = "forward" /\ ppc = "done"
  /\ hpc' = "await" /\ upstream' = "canceled" /\ returned' = pres
  /\ UNCHANGED <<snapshot, outcome, clientVars, primaryVars, policyVars, queueVars, result,
                 runVars, sendVars, recvVars>>

\* incompleteShadowCompareError
Incomplete(r) == r.skip # "" \/ ~r.started \/ ~r.complete

\* compareGRPCResults
Differs(p, s) ==
  \/ p.status # s.status
  \/ CompareMode = "message_count" /\ Len(p.msgs) # Len(s.msgs)
  \/ CompareMode = "message_hash" /\ p.msgs # s.msgs

compareRPCResult(p, s) ==
  IF compareOff \/ ~doShadow THEN "skipped"
  ELSE IF Incomplete(s) THEN "error"
  ELSE IF Differs(p, s) THEN "diff"
  ELSE "same"

\* finishRPCResult with the snapshot Wait returns.
Finish ==
  /\ snapshot' = result
  /\ outcome' = compareRPCResult(returned, result)
  /\ hpc' = "done"
  /\ UNCHANGED <<returned, upstream, clientVars, primaryVars, policyVars, queueVars, result,
                 runVars, sendVars, recvVars>>

\* Wait sees done closed, or its timer fires; both may be ready.
WaitDone == hpc = "await" /\ done /\ Finish

\* Mutant: the timer cancels the shadow and leaves its result unmarked.
WaitOnlyCancels ==
  /\ hpc = "await" /\ hpc' = "expired"
  /\ ctx' = IF HasQueue THEN Cancel(ctx) ELSE ctx
  /\ UNCHANGED <<returned, upstream, snapshot, outcome, clientVars, primaryVars, policyVars,
                 queueVars, result, done, rpc, open, sendVars, recvVars>>

\* Mutant: Wait has no timer of its own and relies on the shadow's deadline.
WaitForDeadline ==
  /\ hpc = "await" /\ ctx = "expired" /\ done /\ hpc' = "expired"
  /\ result' = Mark(result, "timeout", TRUE)
  /\ UNCHANGED <<returned, upstream, snapshot, outcome, clientVars, primaryVars, policyVars,
                 queueVars, runVars, sendVars, recvVars>>

WaitTimesOut ==
  /\ hpc = "await" /\ hpc' = "expired"
  /\ result' = Mark(result, "timeout", TRUE)
  /\ ctx' = IF HasQueue THEN Cancel(ctx) ELSE ctx
  /\ UNCHANGED <<returned, upstream, snapshot, outcome, clientVars, primaryVars, policyVars,
                 queueVars, done, rpc, open, sendVars, recvVars>>

WaitReturns == hpc = "expired" /\ Finish

--------------------------------------------------------------------------------
(* forwardClientToPrimary *)

ClientMessage ==
  /\ cpc = "recv" /\ clientEnd = "open" /\ hpc # "done" /\ cmsg < MaxMessages
  /\ cmsg' = cmsg + 1 /\ cpc' = "send"
  /\ UNCHANGED <<handlerVars, clientEnd, cerr, primaryLog, primaryVars, policyVars, queueVars,
                 result, runVars, sendVars, recvVars>>

\* The goroutine returns and its deferred shadow.Close runs.
Return(err) ==
  /\ cpc' = "done" /\ cerr' = err
  /\ CloseQueue
  /\ UNCHANGED <<handlerVars, clientEnd, cmsg, primaryLog, primaryVars, policyVars, result,
                 runVars, sendVars, recvVars>>

\* RecvMsg ends with the client's half-close (CloseSend on the primary may fail)
\* or with the end of the stream.
ClientEOF == cpc = "recv" /\ clientEnd = "halfclosed" /\ \E err \in BOOLEAN : Return(err)
ClientGone == cpc = "recv" /\ StreamEnded /\ Return(TRUE)

\* Mutant: the error of SendMsg is ignored and the message offered all the same.
SendUnchecked ==
  /\ cpc = "send" /\ ppc # "done"
  /\ primaryLog' \in {primaryLog, Append(primaryLog, cmsg)}
  /\ cpc' = "offer"
  /\ UNCHANGED <<handlerVars, clientEnd, cmsg, cerr, primaryVars, policyVars, queueVars, result,
                 runVars, sendVars, recvVars>>

\* SendMsg to the primary, then Offer to the shadow.
SendPrimary ==
  /\ cpc = "send" /\ ppc # "done"
  /\ primaryLog' = Append(primaryLog, cmsg)
  /\ cpc' = "offer"
  /\ UNCHANGED <<handlerVars, clientEnd, cmsg, cerr, primaryVars, policyVars, queueVars, result,
                 runVars, sendVars, recvVars>>

OfferShadow ==
  /\ cpc = "offer" /\ cpc' = "recv"
  /\ Offer(cmsg)
  /\ UNCHANGED <<handlerVars, clientEnd, cmsg, cerr, primaryLog, primaryVars, policyVars,
                 runVars, sendVars, recvVars>>

\* SendMsg gives io.EOF when the primary has ended the stream, perhaps before
\* forwardPrimaryToClient has read its status, and another error otherwise.
SendPrimaryEOF == cpc = "send" /\ Return(FALSE)
SendPrimaryFailed == cpc = "send" /\ Return(TRUE)

--------------------------------------------------------------------------------
(* forwardPrimaryToClient *)

PrimaryMessage ==
  /\ ppc = "recv" /\ clientEnd # "canceled" /\ Len(pres.msgs) < MaxResponses
  /\ \E v \in Values : pres' = [pres EXCEPT !.msgs = Append(@, v)]
  /\ UNCHANGED <<handlerVars, clientVars, ppc, policyVars, queueVars, result, runVars, sendVars,
                 recvVars>>

PrimaryEnds(complete, err, status) ==
  /\ ppc = "recv" /\ ppc' = "done"
  /\ pres' = [pres EXCEPT !.complete = complete, !.err = err, !.status = status]
  /\ UNCHANGED <<handlerVars, clientVars, policyVars, queueVars, result, runVars, sendVars, recvVars>>

PrimaryOK == PrimaryEnds(TRUE, FALSE, "OK")
PrimaryStatus == \E s \in AppStatuses \cup {"Unavailable"} : PrimaryEnds(TRUE, TRUE, s)
PrimaryCanceled == UpstreamEnded /\ PrimaryEnds(TRUE, TRUE, "Canceled")

\* The client is gone: relaying the headers fails with a status, relaying a
\* message without a final one.
PrimaryRelayFailed ==
  clientEnd = "canceled" /\ \E complete \in BOOLEAN : PrimaryEnds(complete, TRUE, "Internal")

--------------------------------------------------------------------------------
(* shadowForwarder.run *)

\* The shadow context's deadline.
ShadowExpires ==
  /\ HasQueue /\ ctx = "live" /\ ctx' = "expired"
  /\ UNCHANGED <<handlerVars, clientVars, primaryVars, policyVars, queueVars, result, rpc, open,
                 done, sendVars, recvVars>>

ShadowOpened ==
  /\ rpc = "dial" /\ ctx = "live"
  /\ rpc' = "wait" /\ spc' = "recv" /\ vpc' = "recv" /\ vres' = Started
  /\ result' = [result EXCEPT !.started = TRUE]
  /\ UNCHANGED <<handlerVars, clientVars, primaryVars, policyVars, queueVars, done, ctx, open,
                 smsg, serr, shadowLog>>

\* failStart
ShadowOpenFailed ==
  /\ rpc = "dial" /\ rpc' = "finish"
  /\ \E reason \in {"target_unavailable", "shadow_not_started"} : result' = Mark(result, reason, TRUE)
  /\ CloseQueue
  /\ UNCHANGED <<handlerVars, clientVars, primaryVars, policyVars, done, ctx, open, sendVars,
                 recvVars>>

\* waitForShadowForwarding
RunTakesSend ==
  /\ rpc = "wait" /\ "send" \in open /\ spc = "done"
  /\ open' = open \ {"send"}
  /\ IF serr THEN /\ result' = Mark(result, "", TRUE) /\ ctx' = Cancel(ctx) /\ rpc' = "finish"
             ELSE rpc' = (IF open' = {} THEN "merge" ELSE "wait") /\ UNCHANGED <<result, ctx>>
  /\ UNCHANGED <<handlerVars, clientVars, primaryVars, policyVars, queueVars, done, sendVars,
                 recvVars>>

RunTakesRecv ==
  /\ rpc = "wait" /\ "recv" \in open /\ vpc = "done"
  /\ open' = open \ {"recv"}
  /\ IF vres.err THEN /\ result' = Merge(result, vres) /\ ctx' = Cancel(ctx) /\ rpc' = "finish"
                 ELSE rpc' = (IF open' = {} THEN "merge" ELSE "wait") /\ UNCHANGED <<result, ctx>>
  /\ UNCHANGED <<handlerVars, clientVars, primaryVars, policyVars, queueVars, done, sendVars,
                 recvVars>>

RunExpires ==
  /\ rpc = "wait" /\ ctx # "live"
  /\ result' = Mark(result, "timeout", TRUE)
  /\ rpc' = "finish"
  /\ UNCHANGED <<handlerVars, clientVars, primaryVars, policyVars, queueVars, done, ctx, open,
                 sendVars, recvVars>>

RunMerges ==
  /\ rpc = "merge" /\ rpc' = "finish"
  /\ result' = Merge(result, vres)
  /\ UNCHANGED <<handlerVars, clientVars, primaryVars, policyVars, queueVars, done, ctx, open,
                 sendVars, recvVars>>

\* complete, deferred in run.
RunCompletes ==
  /\ rpc = "finish" /\ rpc' = "done"
  /\ done' = TRUE /\ ctx' = Cancel(ctx)
  /\ UNCHANGED <<handlerVars, clientVars, primaryVars, policyVars, queueVars, result, open,
                 sendVars, recvVars>>

--------------------------------------------------------------------------------
(* sendRequests *)

SenderTakes ==
  /\ spc = "recv" /\ queue # <<>>
  /\ smsg' = Head(queue) /\ queue' = Tail(queue) /\ spc' = "send"
  /\ UNCHANGED <<handlerVars, clientVars, primaryVars, policyVars, queueClosed, dropped, result,
                 runVars, serr, shadowLog, recvVars>>

ShadowSend ==
  /\ spc = "send" /\ vpc # "done"
  /\ shadowLog' = Append(shadowLog, smsg) /\ spc' = "recv"
  /\ UNCHANGED <<handlerVars, clientVars, primaryVars, policyVars, queueVars, result, runVars,
                 smsg, serr, recvVars>>

SenderEnds(err) ==
  /\ spc' = "done" /\ serr' = err
  /\ UNCHANGED <<handlerVars, clientVars, primaryVars, policyVars, queueVars, result, runVars,
                 smsg, shadowLog, recvVars>>

\* io.EOF when the shadow has ended the stream, and another error otherwise.
ShadowSendEOF == spc = "send" /\ SenderEnds(FALSE)
ShadowSendFailed == spc = "send" /\ SenderEnds(TRUE)

\* The queue is closed and drained: CloseSend.
ShadowCloseSend ==
  /\ spc = "recv" /\ queue = <<>> /\ queueClosed /\ \E err \in BOOLEAN : SenderEnds(err)

--------------------------------------------------------------------------------
(* receiveShadowResponses *)

ShadowMessage ==
  /\ vpc = "recv" /\ Len(vres.msgs) < MaxResponses
  /\ \E v \in Values : vres' = [vres EXCEPT !.msgs = Append(@, v)]
  /\ UNCHANGED <<handlerVars, clientVars, primaryVars, policyVars, queueVars, result, runVars,
                 sendVars, vpc>>

ReceiverEnds(complete, skip, err, status) ==
  /\ vpc = "recv" /\ vpc' = "done"
  /\ vres' = [vres EXCEPT !.complete = complete, !.skip = skip, !.err = err, !.status = status]
  /\ UNCHANGED <<handlerVars, clientVars, primaryVars, policyVars, queueVars, result, runVars,
                 sendVars>>

ShadowOK == ReceiverEnds(TRUE, "", FALSE, "OK")

\* A status of the backend, or Unavailable made up locally for a broken transport:
\* isFinalStatusError holds for both.  The backend's own DeadlineExceeded is taken for
\* the timeout of the shadow.
ShadowStatus ==
  \/ \E s \in AppStatuses : ReceiverEnds(TRUE, "", TRUE, s)
  \/ ReceiverEnds(FALSE, "timeout", TRUE, "DeadlineExceeded")
ShadowBroken == ReceiverEnds(TRUE, "", TRUE, "Unavailable")

ShadowDeadline == ctx = "expired" /\ ReceiverEnds(FALSE, "timeout", TRUE, "DeadlineExceeded")
ShadowCanceled == ctx = "canceled" /\ ReceiverEnds(TRUE, "", TRUE, "Canceled")

--------------------------------------------------------------------------------
Init ==
  /\ hpc = "prepare" /\ returned = NoResult /\ upstream = "live"
  /\ clientEnd = "open" /\ cpc = "none" /\ cmsg = 0 /\ cerr = FALSE /\ primaryLog = <<>>
  /\ ppc = "none" /\ pres = NoResult
  /\ doShadow = FALSE /\ compareOff = FALSE
  /\ queue = <<>> /\ queueClosed = FALSE /\ dropped = FALSE
  /\ result = NoResult /\ done = FALSE /\ ctx = "live" /\ rpc = "none"
  /\ open = {"send", "recv"}
  /\ spc = "none" /\ smsg = 0 /\ serr = FALSE /\ shadowLog = <<>>
  /\ vpc = "none" /\ vres = NoResult
  /\ snapshot = NoResult /\ outcome = "none"

HandleStep ==
  \/ PrepareShadow \/ PrimaryOpened \/ PrimaryOpenFailed \/ PrimarySendEnded \/ PrimaryRecvEnded
  \/ WaitDone \/ WaitTimesOut \/ WaitReturns
RequestStep ==
  \/ ClientEOF \/ ClientGone \/ SendPrimary \/ OfferShadow \/ SendPrimaryEOF \/ SendPrimaryFailed
PrimaryStep == PrimaryMessage \/ PrimaryOK \/ PrimaryStatus \/ PrimaryCanceled \/ PrimaryRelayFailed
RunStep ==
  \/ ShadowOpened \/ ShadowOpenFailed \/ RunTakesSend \/ RunTakesRecv \/ RunExpires \/ RunMerges
  \/ RunCompletes
SenderStep ==
  SenderTakes \/ ShadowSend \/ ShadowSendEOF \/ ShadowSendFailed \/ ShadowCloseSend
ReceiverStep == ShadowMessage \/ ShadowOK \/ ShadowStatus \/ ShadowBroken \/ ShadowDeadline \/ ShadowCanceled

GoroutinesEnded ==
  /\ cpc \in {"none", "done"} /\ ppc \in {"none", "done"} /\ rpc \in {"none", "done"}
  /\ spc \in {"none", "done"} /\ vpc \in {"none", "done"}

\* Quiescence: Handle has returned and nothing it started is still running.
Ended == hpc = "done" /\ GoroutinesEnded /\ UNCHANGED vars

Next ==
  \/ ClientHalfClose \/ ClientCancel \/ ClientMessage \/ ShadowExpires
  \/ HandleStep \/ RequestStep \/ PrimaryStep \/ RunStep \/ SenderStep \/ ReceiverStep
  \/ Ended

Spec == Init /\ [][Next]_vars

\* Handle, the goroutines of the primary stream and the timer of Wait run; opening a
\* stream ends; operations on a stream end once its context has ended.  Nothing is
\* assumed of the client, of the backends, or of the shadow's goroutines.
PrimaryFairness ==
  /\ WF_vars(HandleStep)
  /\ WF_vars(ClientEOF \/ ClientGone)
  /\ WF_vars(OfferShadow)
  /\ WF_vars(UpstreamEnded /\ (SendPrimary \/ SendPrimaryEOF \/ SendPrimaryFailed))
  /\ WF_vars(PrimaryCanceled)
PrimarySpec == Spec /\ PrimaryFairness

\* The shadow's goroutines run too and its deadline fires; its backend may be silent.
ShadowFairness ==
  /\ WF_vars(ShadowExpires)
  /\ WF_vars(ctx # "live" /\ ShadowOpenFailed)
  /\ WF_vars(RunTakesSend \/ RunTakesRecv \/ RunExpires \/ RunMerges \/ RunCompletes)
  /\ WF_vars(SenderTakes \/ ShadowCloseSend)
  /\ WF_vars(ctx # "live" /\ (ShadowSend \/ ShadowSendEOF \/ ShadowSendFailed))
  /\ WF_vars(ShadowDeadline \/ ShadowCanceled)

--------------------------------------------------------------------------------
(* Properties *)

ResultType == [started : BOOLEAN, complete : BOOLEAN, skip : SkipReasons, err : BOOLEAN,
               status : Statuses, msgs : Seq(Values)]

\* Every variable has its type and the shadow's queue never exceeds its size.
TypeOK ==
  /\ hpc \in {"prepare", "open", "forward", "await", "expired", "done"}
  /\ upstream \in {"live", "canceled"} /\ clientEnd \in {"open", "halfclosed", "canceled"}
  /\ cpc \in {"none", "recv", "send", "offer", "done"} /\ ppc \in {"none", "recv", "done"}
  /\ cmsg \in 0..MaxMessages /\ smsg \in 0..MaxMessages
  /\ cerr \in BOOLEAN /\ serr \in BOOLEAN /\ doShadow \in BOOLEAN /\ compareOff \in BOOLEAN
  /\ queueClosed \in BOOLEAN /\ dropped \in BOOLEAN /\ done \in BOOLEAN
  /\ returned \in ResultType /\ pres \in ResultType /\ result \in ResultType
  /\ vres \in ResultType /\ snapshot \in ResultType
  /\ primaryLog \in Seq(1..MaxMessages) /\ shadowLog \in Seq(1..MaxMessages)
  /\ queue \in Seq(1..MaxMessages) /\ Len(queue) <= QueueSize
  /\ ctx \in {"live", "expired", "canceled"} /\ open \subseteq {"send", "recv"}
  /\ rpc \in {"none", "dial", "wait", "merge", "finish", "done"}
  /\ spc \in {"none", "recv", "send", "done"} /\ vpc \in {"none", "recv", "done"}
  /\ outcome \in {"none", "skipped", "error", "diff", "same"}

Compared == {"same", "diff"}

\* A comparison is made with exactly what the shadow answered, and only with an
\* answer the shadow's stream ended with itself: never with the Canceled or
\* DeadlineExceeded that the proxy's own timer or cancellation produced
\* (incompleteShadowCompareError, Wait, waitForShadowForwarding).
CompareSound ==
  outcome \in Compared =>
    /\ vpc = "done" /\ snapshot.msgs = vres.msgs /\ snapshot.status = vres.status
    /\ vres.status \notin {"Canceled", "DeadlineExceeded"}

\* A shadow that missed a message is not compared: once Offer has found the queue
\* full, no later event of the shadow's stream turns its result into a complete one.
ComparedWhole == [][outcome = "none" /\ outcome' \in Compared => ~dropped]_vars

\* sendRequests is over, or was never started.
ReplayStopped == spc = "done" \/ (spc = "none" /\ rpc \in {"finish", "done"})

Replay == INSTANCE ShadowReplay WITH
            Items <- 1..MaxMessages, served <- primaryLog, replayed <- shadowLog,
            stopped <- ReplayStopped

\* The shadow is sent the primary's request messages in order and without a gap, each
\* one after the primary, until its forwarding stops: GrpcStream implements ShadowReplay.
ImplementsReplay == Replay!Spec

\* The shadow never holds up the RPC: once the primary has answered or the client
\* has gone, Handle returns, even if no shadow goroutine ever takes a step ("the
\* handler waits for Shadow for at most this timeout", docs/operator/grpc.md).
HandleReturns == (ppc = "done" \/ clientEnd = "canceled") ~> hpc = "done"

\* A full shadow queue does not hold up the request direction ("Primary request and
\* response streaming continues", docs/operator/grpc.md).
RequestContinues == cpc = "offer" ~> cpc \in {"recv", "done"}

\* Handle leaves no goroutine behind: whatever the client and both backends do, the
\* five goroutines of an RPC end after Handle has returned.  sendRequests in
\* particular ends only when somebody closes the queue.
NoGoroutineLeak == ShadowFairness => (hpc = "done" ~> GoroutinesEnded)

\* "Shadow target errors, timeouts, and non-final streams are comparison errors"
\* (docs/operator/grpc.md): a shadow whose connection broke is not compared.
BrokenNotCompared == outcome \in Compared => vres.status # "Unavailable"
================================================================================
