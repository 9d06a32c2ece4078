---------------------------- MODULE GrpcStreamProofs ----------------------------
(***************************************************************************)
(* Proofs about GrpcStream for any number of messages, any queue size and  *)
(* any values and statuses: type correctness, what a comparison is made    *)
(* with, and that the RPC implements ShadowReplay.                         *)
(***************************************************************************)
EXTENDS GrpcStream, SequenceTheorems, TLAPS

--------------------------------------------------------------------------------
(* Results *)

\* The results of a stream keep their type, whatever is recorded in them.
LEMMA NoResultType == NoResult \in ResultType /\ Started \in ResultType
<1>1. "OK" \in Statuses /\ "" \in SkipReasons
  BY DEF Statuses, SkipReasons
<1>2. <<>> \in Seq(Values)
  OBVIOUS
<1>3. NoResult \in ResultType
  BY <1>1, <1>2 DEF NoResult, ResultType
<1> QED BY <1>3 DEF Started, ResultType

\* markResultLocked keeps what was received, and a reason once there is one.
LEMMA MarkResult ==
  ASSUME NEW r \in ResultType, NEW reason \in SkipReasons, NEW err \in BOOLEAN
  PROVE  /\ Mark(r, reason, err) \in ResultType
         /\ Mark(r, reason, err).skip = IF r.skip = "" THEN reason ELSE r.skip
         /\ Mark(r, reason, err).started = r.started /\ Mark(r, reason, err).complete = r.complete
         /\ Mark(r, reason, err).msgs = r.msgs /\ Mark(r, reason, err).status = r.status
BY DEF Mark, ResultType

\* mergeReceiveResult takes over what was received, and keeps a reason.
LEMMA MergeResult ==
  ASSUME NEW r \in ResultType, NEW v \in ResultType
  PROVE  /\ Merge(r, v) \in ResultType
         /\ Merge(r, v).skip = IF r.skip = "" THEN v.skip ELSE r.skip
         /\ Merge(r, v).started = r.started /\ Merge(r, v).complete = v.complete
         /\ Merge(r, v).msgs = v.msgs /\ Merge(r, v).status = v.status
BY DEF Merge, ResultType

\* What ends a stream's result keeps its type.
LEMMA EndType ==
  ASSUME NEW r \in ResultType, NEW complete \in BOOLEAN, NEW skip \in SkipReasons,
         NEW err \in BOOLEAN, NEW status \in Statuses
  PROVE  /\ [r EXCEPT !.complete = complete, !.err = err, !.status = status] \in ResultType
         /\ [r EXCEPT !.complete = complete, !.skip = skip, !.err = err, !.status = status] \in ResultType
BY DEF ResultType

LEMMA MessageType ==
  ASSUME NEW r \in ResultType, NEW v \in Values
  PROVE  [r EXCEPT !.msgs = Append(@, v)] \in ResultType
<1>1. Append(r.msgs, v) \in Seq(Values)
  BY DEF ResultType
<1> QED BY <1>1 DEF ResultType

--------------------------------------------------------------------------------
(* Type correctness *)

\* A message is in hand where one is sent or offered.
InHand ==
  /\ cpc \in {"send", "offer"} => cmsg \in 1..MaxMessages
  /\ spc = "send" => smsg \in 1..MaxMessages

TypeInv == TypeOK /\ InHand

LEMMA InitType == Init => TypeInv
<1> SUFFICES ASSUME Init PROVE TypeInv
  OBVIOUS
<1>1. /\ cerr \in BOOLEAN /\ serr \in BOOLEAN /\ doShadow \in BOOLEAN /\ compareOff \in BOOLEAN
      /\ queueClosed \in BOOLEAN /\ dropped \in BOOLEAN /\ done \in BOOLEAN
  BY Zenon DEF Init
<1> QED BY <1>1, NoResultType, StreamAssumption DEF Init, TypeInv, TypeOK, InHand

\* Close, and the offer of a message, leave a queue of messages within its size.
LEMMA CloseType ==
  ASSUME TypeInv, CloseQueue
  PROVE  queueClosed' \in BOOLEAN /\ UNCHANGED <<queue, dropped>>
BY DEF CloseQueue

LEMMA OfferType ==
  ASSUME TypeInv, NEW m \in 1..MaxMessages, Offer(m)
  PROVE  /\ queue' \in Seq(1..MaxMessages) /\ Len(queue') <= QueueSize
         /\ queueClosed' \in BOOLEAN /\ dropped' \in BOOLEAN /\ result' \in ResultType
<1>0. /\ queue \in Seq(1..MaxMessages) /\ Len(queue) <= QueueSize /\ result \in ResultType
      /\ queueClosed \in BOOLEAN /\ dropped \in BOOLEAN
  BY DEF TypeInv, TypeOK
<1>1. CASE ~HasQueue \/ queueClosed
  BY <1>0, <1>1 DEF Offer
<1>2. CASE HasQueue /\ ~queueClosed /\ Len(queue) < QueueSize
  <2>1. queue' = Append(queue, m) /\ UNCHANGED <<queueClosed, result, dropped>>
    BY <1>2 DEF Offer
  <2>2. Append(queue, m) \in Seq(1..MaxMessages) /\ Len(Append(queue, m)) = Len(queue) + 1
    BY <1>0
  <2> QED BY <1>0, <1>2, <2>1, <2>2, StreamAssumption
<1>3. CASE HasQueue /\ ~queueClosed /\ ~(Len(queue) < QueueSize)
  <2>1. result' = Mark(result, "queue_full", TRUE) /\ queueClosed' = TRUE /\ dropped' = TRUE
        /\ UNCHANGED queue
    BY <1>3 DEF Offer
  <2>2. Mark(result, "queue_full", TRUE) \in ResultType
    BY <1>0, MarkResult DEF SkipReasons
  <2> QED BY <1>0, <2>1, <2>2
<1> QED BY <1>1, <1>2, <1>3

\* The parts of TypeInv, by the kind of variable.
FlagsType ==
  /\ cerr \in BOOLEAN /\ serr \in BOOLEAN /\ doShadow \in BOOLEAN /\ compareOff \in BOOLEAN
  /\ queueClosed \in BOOLEAN /\ dropped \in BOOLEAN /\ done \in BOOLEAN
PlacesType ==
  /\ hpc \in {"prepare", "open", "forward", "await", "expired", "done"}
  /\ upstream \in {"live", "canceled"} /\ clientEnd \in {"open", "halfclosed", "canceled"}
  /\ cpc \in {"none", "recv", "send", "offer", "done"} /\ ppc \in {"none", "recv", "done"}
  /\ ctx \in {"live", "expired", "canceled"} /\ open \subseteq {"send", "recv"}
  /\ rpc \in {"none", "dial", "wait", "merge", "finish", "done"}
  /\ spc \in {"none", "recv", "send", "done"} /\ vpc \in {"none", "recv", "done"}
  /\ outcome \in {"none", "skipped", "error", "diff", "same"}
ResultsType ==
  /\ returned \in ResultType /\ pres \in ResultType /\ result \in ResultType
  /\ vres \in ResultType /\ snapshot \in ResultType
MessagesType ==
  /\ cmsg \in 0..MaxMessages /\ smsg \in 0..MaxMessages
  /\ primaryLog \in Seq(1..MaxMessages) /\ shadowLog \in Seq(1..MaxMessages)
  /\ queue \in Seq(1..MaxMessages) /\ Len(queue) <= QueueSize
  /\ InHand

LEMMA TypeParts == TypeInv <=> FlagsType /\ PlacesType /\ ResultsType /\ MessagesType
BY DEF TypeInv, TypeOK, FlagsType, PlacesType, ResultsType, MessagesType

\* The actions, with the goroutines' common steps as one.
LEMMA Steps ==
  ASSUME [Next]_vars
  PROVE  \/ ClientHalfClose \/ ClientCancel \/ ClientMessage \/ ShadowExpires
         \/ PrepareShadow \/ PrimaryOpened \/ PrimaryOpenFailed \/ PrimarySendEnded
         \/ PrimaryRecvEnded \/ Finish \/ WaitTimesOut
         \/ \E err \in BOOLEAN : cpc \in {"recv", "send"} /\ Return(err)
         \/ SendPrimary \/ OfferShadow \/ PrimaryMessage
         \/ \E complete \in BOOLEAN, err \in BOOLEAN, status \in Statuses :
              PrimaryEnds(complete, err, status)
         \/ ShadowOpened \/ ShadowOpenFailed \/ RunTakesSend \/ RunTakesRecv \/ RunExpires
         \/ RunMerges \/ RunCompletes \/ SenderTakes \/ ShadowSend
         \/ \E err \in BOOLEAN : spc \in {"recv", "send"} /\ SenderEnds(err)
         \/ ShadowMessage
         \/ \E complete \in BOOLEAN, skip \in SkipReasons, err \in BOOLEAN, status \in Statuses :
              /\ ReceiverEnds(complete, skip, err, status)
              /\ status = "Canceled" => ctx = "canceled"
              /\ status = "DeadlineExceeded" => ~complete
         \/ UNCHANGED vars
<1>1. CASE ClientEOF \/ ClientGone \/ SendPrimaryEOF \/ SendPrimaryFailed
  BY <1>1 DEF ClientEOF, ClientGone, SendPrimaryEOF, SendPrimaryFailed
<1>2. CASE PrimaryOK \/ PrimaryStatus \/ PrimaryCanceled \/ PrimaryRelayFailed
  <2>1. \E complete \in BOOLEAN, err \in BOOLEAN, status \in Statuses :
          PrimaryEnds(complete, err, status)
    BY <1>2 DEF PrimaryOK, PrimaryStatus, PrimaryCanceled, PrimaryRelayFailed, Statuses
  <2> QED BY <2>1
<1>3. CASE ShadowSendEOF \/ ShadowSendFailed \/ ShadowCloseSend
  BY <1>3 DEF ShadowSendEOF, ShadowSendFailed, ShadowCloseSend
<1>4. CASE ShadowOK \/ ShadowStatus \/ ShadowBroken \/ ShadowDeadline \/ ShadowCanceled
  <2>1. \E complete \in BOOLEAN, skip \in SkipReasons, err \in BOOLEAN, status \in Statuses :
          /\ ReceiverEnds(complete, skip, err, status)
          /\ status = "Canceled" => ctx = "canceled"
          /\ status = "DeadlineExceeded" => ~complete
    <3>1. "" \in SkipReasons /\ "timeout" \in SkipReasons
      BY DEF SkipReasons
    <3>2. /\ "OK" \in Statuses /\ "Unavailable" \in Statuses /\ "Canceled" \in Statuses
          /\ "DeadlineExceeded" \in Statuses
          /\ \A s \in AppStatuses : s \in Statuses /\ s # "Canceled" /\ s # "DeadlineExceeded"
      BY OwnStatusAssumption DEF Statuses
    <3>3. CASE ShadowStatus
      <4>1. CASE \E s \in AppStatuses : ReceiverEnds(TRUE, "", TRUE, s)
        BY <3>1, <3>2, <4>1
      <4>2. CASE ReceiverEnds(FALSE, "timeout", TRUE, "DeadlineExceeded")
        BY <3>1, <3>2, <4>2
      <4> QED BY <3>3, <4>1, <4>2 DEF ShadowStatus
    <3> QED BY <1>4, <3>1, <3>2, <3>3 DEF ShadowOK, ShadowBroken, ShadowDeadline, ShadowCanceled
  <2> QED BY <2>1
<1>5. CASE WaitDone \/ WaitReturns
  BY <1>5 DEF WaitDone, WaitReturns
<1>6. CASE Ended
  BY <1>6 DEF Ended
<1> QED
  BY <1>1, <1>2, <1>3, <1>4, <1>5, <1>6
     DEF Next, HandleStep, RequestStep, PrimaryStep, RunStep, SenderStep, ReceiverStep

LEMMA NextFlags == TypeInv /\ [Next]_vars => FlagsType'
<1> SUFFICES ASSUME TypeInv, [Next]_vars PROVE FlagsType'
  OBVIOUS
<1>0. FlagsType
  BY TypeParts
<1> USE DEF handlerVars, clientVars, primaryVars, policyVars, queueVars, runVars, sendVars, recvVars
<1>1. CASE PrepareShadow
  <2>1. compareOff' \in BOOLEAN /\ doShadow' \in BOOLEAN /\ done' \in BOOLEAN
    BY <1>0, <1>1, Zenon DEF PrepareShadow, FlagsType
  <2>2. UNCHANGED <<cerr, serr, queueClosed, dropped>>
    BY <1>1 DEF PrepareShadow
  <2> QED BY <1>0, <2>1, <2>2, Zenon DEF FlagsType
<1>2. CASE PrimaryOpenFailed \/ ShadowOpenFailed
  <2>1. queueClosed' \in BOOLEAN /\ UNCHANGED <<cerr, serr, doShadow, compareOff, dropped, done>>
    BY <1>2, CloseType DEF PrimaryOpenFailed, ShadowOpenFailed
  <2> QED BY <1>0, <2>1, Zenon DEF FlagsType
<1>3. ASSUME NEW err \in BOOLEAN, Return(err) PROVE FlagsType'
  <2>1. queueClosed' \in BOOLEAN /\ cerr' = err /\ UNCHANGED <<serr, doShadow, compareOff, dropped, done>>
    BY <1>3, CloseType DEF Return
  <2> QED BY <1>0, <2>1, Zenon DEF FlagsType
<1>4. CASE OfferShadow
  <2>1. cmsg \in 1..MaxMessages
    BY <1>4 DEF TypeInv, InHand, OfferShadow
  <2>2. queueClosed' \in BOOLEAN /\ dropped' \in BOOLEAN /\ UNCHANGED <<cerr, serr, doShadow, compareOff, done>>
    BY <1>4, <2>1, OfferType DEF OfferShadow
  <2> QED BY <1>0, <2>2, Zenon DEF FlagsType
<1>5. CASE RunCompletes
  <2>1. done' = TRUE /\ UNCHANGED <<cerr, serr, doShadow, compareOff, queueClosed, dropped>>
    BY <1>5 DEF RunCompletes
  <2> QED BY <1>0, <2>1, Zenon DEF FlagsType
<1>6. ASSUME NEW err \in BOOLEAN, SenderEnds(err) PROVE FlagsType'
  <2>1. serr' = err /\ UNCHANGED <<cerr, doShadow, compareOff, queueClosed, dropped, done>>
    BY <1>6 DEF SenderEnds
  <2> QED BY <1>0, <2>1, Zenon DEF FlagsType
<1>7. CASE UNCHANGED <<cerr, serr, doShadow, compareOff, queueClosed, dropped, done>>
  BY <1>0, <1>7, Zenon DEF FlagsType
<1> QED
  BY <1>1, <1>2, <1>3, <1>4, <1>5, <1>6, <1>7, Steps
     DEF ClientHalfClose, ClientCancel, ClientMessage, ShadowExpires, PrimaryOpened, PrimarySendEnded,
         PrimaryRecvEnded, Finish, WaitTimesOut, SendPrimary, PrimaryMessage, PrimaryEnds,
         ShadowOpened, RunTakesSend, RunTakesRecv, RunExpires, RunMerges, SenderTakes, ShadowSend,
         ShadowMessage, ReceiverEnds, vars

LEMMA NextPlaces == TypeInv /\ [Next]_vars => PlacesType'
<1> SUFFICES ASSUME TypeInv, [Next]_vars PROVE PlacesType'
  OBVIOUS
<1>0. PlacesType
  BY TypeParts
<1> USE DEF PlacesType, handlerVars, clientVars, primaryVars, policyVars, queueVars, runVars,
            sendVars, recvVars
<1>1. CASE ClientHalfClose \/ ClientCancel \/ ClientMessage \/ ShadowExpires
  BY <1>0, <1>1, ZenonT(40) DEF ClientHalfClose, ClientCancel, ClientMessage, ShadowExpires
<1>9. CASE PrepareShadow
  <2>1. hpc' = "open" /\ (UNCHANGED rpc \/ rpc' = "dial")
    BY <1>9 DEF PrepareShadow
  <2>2. UNCHANGED <<upstream, clientEnd, cpc, ppc, ctx, open, spc, vpc, outcome>>
    BY <1>9 DEF PrepareShadow
  <2> QED BY <1>0, <2>1, <2>2
<1>10. CASE PrimaryOpened \/ PrimaryOpenFailed \/ PrimarySendEnded \/ PrimaryRecvEnded
  BY <1>0, <1>10 DEF PrimaryOpened, PrimaryOpenFailed, PrimarySendEnded, PrimaryRecvEnded
<1>2. CASE Finish
  <2>1. outcome' \in {"skipped", "error", "diff", "same"}
    BY <1>2 DEF Finish, compareRPCResult
  <2>2. hpc' = "done" /\ UNCHANGED <<upstream, clientEnd, cpc, ppc, ctx, open, rpc, spc, vpc>>
    BY <1>2 DEF Finish
  <2> QED BY <1>0, <2>1, <2>2
<1>3. CASE WaitTimesOut \/ RunExpires \/ RunMerges \/ RunCompletes
  <2>1. ctx' \in {ctx, "canceled"} /\ hpc' \in {hpc, "expired"} /\ rpc' \in {rpc, "finish", "done"}
    BY <1>3 DEF WaitTimesOut, RunExpires, RunMerges, RunCompletes, Cancel
  <2>2. UNCHANGED <<upstream, clientEnd, cpc, ppc, open, spc, vpc, outcome>>
    BY <1>3 DEF WaitTimesOut, RunExpires, RunMerges, RunCompletes
  <2> QED BY <1>0, <2>1, <2>2
<1>11. CASE RunTakesSend \/ RunTakesRecv
  <2>1. ctx' \in {ctx, "canceled"} /\ rpc' \in {"wait", "merge", "finish"} /\ open' \subseteq open
    BY <1>11 DEF RunTakesSend, RunTakesRecv, Cancel
  <2>2. UNCHANGED <<hpc, upstream, clientEnd, cpc, ppc, spc, vpc, outcome>>
    BY <1>11 DEF RunTakesSend, RunTakesRecv
  <2> QED BY <1>0, <2>1, <2>2
<1>4. ASSUME NEW err \in BOOLEAN, Return(err) PROVE PlacesType'
  BY <1>0, <1>4 DEF Return
<1>5. CASE SendPrimary \/ OfferShadow \/ PrimaryMessage \/ UNCHANGED vars
  BY <1>0, <1>5 DEF SendPrimary, OfferShadow, PrimaryMessage, vars
<1>12. CASE ShadowOpened \/ ShadowOpenFailed \/ SenderTakes \/ ShadowSend \/ ShadowMessage
  <2>1. CASE ShadowOpened \/ ShadowOpenFailed
    <3>1. /\ rpc' \in {"wait", "finish"} /\ spc' \in {spc, "recv"} /\ vpc' \in {vpc, "recv"}
      BY <2>1 DEF ShadowOpened, ShadowOpenFailed
    <3>2. UNCHANGED <<hpc, upstream, clientEnd, cpc, ppc, ctx, open, outcome>>
      BY <2>1 DEF ShadowOpened, ShadowOpenFailed
    <3> QED BY <1>0, <3>1, <3>2
  <2>2. CASE SenderTakes \/ ShadowSend \/ ShadowMessage
    <3>1. spc' \in {spc, "send", "recv"}
      BY <2>2 DEF SenderTakes, ShadowSend, ShadowMessage
    <3>2. UNCHANGED <<hpc, upstream, clientEnd, cpc, ppc, ctx, open, rpc, vpc, outcome>>
      BY <2>2 DEF SenderTakes, ShadowSend, ShadowMessage
    <3> QED BY <1>0, <3>1, <3>2
  <2> QED BY <1>12, <2>1, <2>2
<1>6. ASSUME NEW complete, NEW err, NEW status, PrimaryEnds(complete, err, status) PROVE PlacesType'
  BY <1>0, <1>6 DEF PrimaryEnds
<1>7. ASSUME NEW err, SenderEnds(err) PROVE PlacesType'
  BY <1>0, <1>7 DEF SenderEnds
<1>8. ASSUME NEW complete, NEW skip, NEW err, NEW status, ReceiverEnds(complete, skip, err, status)
      PROVE  PlacesType'
  BY <1>0, <1>8 DEF ReceiverEnds
<1> HIDE DEF PlacesType
<1> QED BY <1>1, <1>2, <1>3, <1>4, <1>5, <1>6, <1>7, <1>8, <1>9, <1>10,
           <1>11, <1>12, Steps

LEMMA NextResults == TypeInv /\ [Next]_vars => ResultsType'
<1> SUFFICES ASSUME TypeInv, [Next]_vars PROVE ResultsType'
  OBVIOUS
<1>0. ResultsType
  BY TypeParts
<1>m. ASSUME NEW reason \in SkipReasons, NEW err \in BOOLEAN, result' = Mark(result, reason, err),
             UNCHANGED <<returned, pres, vres, snapshot>>
      PROVE  ResultsType'
  BY <1>0, <1>m, MarkResult DEF ResultsType
<1>r. ASSUME NEW s \in Statuses, NEW e \in BOOLEAN
      PROVE  [NoResult EXCEPT !.err = e, !.status = s] \in ResultType
  BY NoResultType DEF ResultType
<1>s. {"", "no_shadow", "target_unavailable", "shadow_not_started", "timeout"} \subseteq SkipReasons
  BY DEF SkipReasons
<1> USE DEF handlerVars, clientVars, primaryVars, policyVars, queueVars, runVars, sendVars, recvVars
<1>1. CASE PrepareShadow
  <2>1. \A reason \in {"", "no_shadow"} : [NoResult EXCEPT !.skip = reason] \in ResultType
    BY NoResultType, <1>s DEF ResultType
  <2>2. Mark(NoResult, "target_unavailable", TRUE) \in ResultType
    BY NoResultType, MarkResult, <1>s
  <2>3. UNCHANGED <<returned, pres, vres, snapshot>>
    BY <1>1 DEF PrepareShadow
  <2>4. result' \in ResultType
    <3>1. CASE \E reason \in {"", "no_shadow"} : result' = [NoResult EXCEPT !.skip = reason]
      BY <2>1, <3>1
    <3>2. CASE result' = Mark(NoResult, "target_unavailable", TRUE)
      BY <2>2, <3>2
    <3>3. CASE UNCHANGED result
      BY <1>0, <3>3 DEF ResultsType
    <3> QED BY <1>1, <3>1, <3>2, <3>3 DEF PrepareShadow
  <2> QED BY <1>0, <2>3, <2>4 DEF ResultsType
<1>2. CASE PrimaryOpened
  BY <1>0, <1>2, NoResultType DEF PrimaryOpened, ResultsType
<1>3. CASE PrimaryOpenFailed \/ PrimarySendEnded
  <2>1. PICK s \in Statuses : returned' = [NoResult EXCEPT !.err = TRUE, !.status = s]
    BY <1>3 DEF PrimaryOpenFailed, PrimarySendEnded, OpenStatus, Statuses
  <2>2. UNCHANGED <<pres, result, vres, snapshot>>
    BY <1>3 DEF PrimaryOpenFailed, PrimarySendEnded
  <2> QED BY <1>0, <1>r, <2>1, <2>2 DEF ResultsType
<1>4. CASE PrimaryRecvEnded
  BY <1>0, <1>4 DEF PrimaryRecvEnded, ResultsType
<1>5. CASE Finish
  BY <1>0, <1>5 DEF Finish, ResultsType
<1>6. CASE WaitTimesOut \/ RunExpires
  <2>1. result' = Mark(result, "timeout", TRUE) /\ UNCHANGED <<returned, pres, vres, snapshot>>
    BY <1>6 DEF WaitTimesOut, RunExpires
  <2> QED BY <1>m, <1>s, <2>1
<1>7. CASE OfferShadow
  <2>1. cmsg \in 1..MaxMessages
    BY <1>7 DEF TypeInv, InHand, OfferShadow
  <2>2. result' \in ResultType /\ UNCHANGED <<returned, pres, vres, snapshot>>
    BY <1>7, <2>1, OfferType DEF OfferShadow
  <2> QED BY <1>0, <2>2 DEF ResultsType
<1>8. CASE PrimaryMessage
  <2>1. pres' \in ResultType /\ UNCHANGED <<returned, result, vres, snapshot>>
    BY <1>0, <1>8, MessageType DEF PrimaryMessage, ResultsType
  <2> QED BY <1>0, <2>1 DEF ResultsType
<1>9. ASSUME NEW complete \in BOOLEAN, NEW err \in BOOLEAN, NEW status \in Statuses,
             PrimaryEnds(complete, err, status)
      PROVE  ResultsType'
  <2>1. /\ pres' = [pres EXCEPT !.complete = complete, !.err = err, !.status = status]
        /\ UNCHANGED <<returned, result, vres, snapshot>>
    BY <1>9 DEF PrimaryEnds
  <2>2. pres' \in ResultType
    BY <1>0, <1>s, <2>1, EndType DEF ResultsType
  <2> QED BY <1>0, <2>1, <2>2 DEF ResultsType
<1>10. CASE ShadowOpened
  <2>1. [result EXCEPT !.started = TRUE] \in ResultType
    BY <1>0 DEF ResultsType, ResultType
  <2> QED BY <1>0, <1>10, <2>1, NoResultType DEF ShadowOpened, ResultsType
<1>11. CASE ShadowOpenFailed
  <2>1. PICK reason \in {"target_unavailable", "shadow_not_started"} : result' = Mark(result, reason, TRUE)
    BY <1>11 DEF ShadowOpenFailed
  <2>2. UNCHANGED <<returned, pres, vres, snapshot>>
    BY <1>11 DEF ShadowOpenFailed
  <2> QED BY <1>m, <1>s, <2>1, <2>2
<1>12. CASE RunTakesSend
  <2>1. result' = Mark(result, "", TRUE) \/ UNCHANGED result
    BY <1>12 DEF RunTakesSend
  <2>2. UNCHANGED <<returned, pres, vres, snapshot>>
    BY <1>12 DEF RunTakesSend
  <2>3. CASE UNCHANGED result
    BY <1>0, <2>2, <2>3 DEF ResultsType
  <2> QED BY <1>m, <1>s, <2>1, <2>2, <2>3
<1>13. CASE RunTakesRecv \/ RunMerges
  <2>1. result' = Merge(result, vres) \/ UNCHANGED result
    BY <1>13 DEF RunTakesRecv, RunMerges
  <2>2. UNCHANGED <<returned, pres, vres, snapshot>>
    BY <1>13 DEF RunTakesRecv, RunMerges
  <2>3. result' \in ResultType
    BY <1>0, <2>1, MergeResult, ZenonT(40) DEF ResultsType
  <2> QED BY <1>0, <2>2, <2>3 DEF ResultsType
<1>14. CASE ShadowMessage
  <2>1. vres' \in ResultType /\ UNCHANGED <<returned, pres, result, snapshot>>
    BY <1>0, <1>14, MessageType DEF ShadowMessage, ResultsType
  <2> QED BY <1>0, <2>1 DEF ResultsType
<1>15. ASSUME NEW complete \in BOOLEAN, NEW skip \in SkipReasons, NEW err \in BOOLEAN,
              NEW status \in Statuses, ReceiverEnds(complete, skip, err, status)
       PROVE  ResultsType'
  <2>1. /\ vres' = [vres EXCEPT !.complete = complete, !.skip = skip, !.err = err, !.status = status]
        /\ UNCHANGED <<returned, pres, result, snapshot>>
    BY <1>15 DEF ReceiverEnds
  <2>2. vres' \in ResultType
    BY <1>0, <2>1, EndType DEF ResultsType
  <2> QED BY <1>0, <2>1, <2>2 DEF ResultsType
<1>16. CASE UNCHANGED <<returned, pres, result, vres, snapshot>>
  BY <1>0, <1>16 DEF ResultsType
<1> QED
  BY <1>1, <1>2, <1>3, <1>4, <1>5, <1>6, <1>7, <1>8, <1>9, <1>10, <1>11, <1>12, <1>13, <1>14,
     <1>15, <1>16, Steps
     DEF ClientHalfClose, ClientCancel, ClientMessage, ShadowExpires, Return, SendPrimary,
         RunCompletes, SenderTakes, ShadowSend, SenderEnds, vars

LEMMA NextMessages == TypeInv /\ [Next]_vars => MessagesType'
<1> SUFFICES ASSUME TypeInv, [Next]_vars PROVE MessagesType'
  OBVIOUS
<1>0. MessagesType
  BY TypeParts
<1> USE DEF MessagesType, InHand, handlerVars, clientVars, primaryVars, policyVars, queueVars,
            runVars, sendVars, recvVars
<1>1. CASE ClientMessage
  BY <1>0, <1>1, StreamAssumption DEF ClientMessage
<1>2. CASE PrimaryOpened
  BY <1>0, <1>2 DEF PrimaryOpened
<1>3. ASSUME NEW err, Return(err) PROVE MessagesType'
  BY <1>0, <1>3 DEF Return, CloseQueue
<1>4. CASE SendPrimary
  BY <1>0, <1>4 DEF SendPrimary
<1>5. CASE OfferShadow
  <2>1. cmsg \in 1..MaxMessages
    BY <1>0, <1>5 DEF OfferShadow
  <2>2. queue' \in Seq(1..MaxMessages) /\ Len(queue') <= QueueSize
    BY <1>5, <2>1, OfferType DEF OfferShadow
  <2> QED BY <1>0, <1>5, <2>2 DEF OfferShadow
<1>6. CASE ShadowOpened
  BY <1>0, <1>6 DEF ShadowOpened
<1>7. CASE SenderTakes
  <2>1. /\ Head(queue) \in 1..MaxMessages /\ Tail(queue) \in Seq(1..MaxMessages)
        /\ Len(Tail(queue)) <= QueueSize
    BY <1>0, <1>7, StreamAssumption DEF SenderTakes
  <2> QED BY <1>0, <1>7, <2>1 DEF SenderTakes
<1>8. CASE ShadowSend
  BY <1>0, <1>8 DEF ShadowSend
<1>9. ASSUME NEW err, SenderEnds(err) PROVE MessagesType'
  BY <1>0, <1>9 DEF SenderEnds
<1>10. CASE UNCHANGED <<cmsg, smsg, primaryLog, shadowLog, queue, cpc, spc>>
  BY <1>0, <1>10
<1> HIDE DEF MessagesType
<1> QED
  BY <1>1, <1>2, <1>3, <1>4, <1>5, <1>6, <1>7, <1>8, <1>9, <1>10, Steps
     DEF ClientHalfClose, ClientCancel, ShadowExpires, PrepareShadow, PrimaryOpenFailed,
         PrimarySendEnded, PrimaryRecvEnded, Finish, WaitTimesOut, PrimaryMessage, PrimaryEnds,
         ShadowOpenFailed, CloseQueue, RunTakesSend, RunTakesRecv, RunExpires, RunMerges, RunCompletes,
         ShadowMessage, ReceiverEnds, vars

LEMMA NextType == TypeInv /\ [Next]_vars => TypeInv'
<1> SUFFICES ASSUME TypeInv, [Next]_vars PROVE TypeInv'
  OBVIOUS
<1>1. FlagsType' /\ PlacesType' /\ ResultsType' /\ MessagesType'
  BY NextFlags, NextPlaces, NextResults, NextMessages
<1> QED
  BY <1>1 DEF TypeInv, TypeOK, FlagsType, PlacesType, ResultsType, MessagesType

\* Every variable of an RPC keeps its type and the shadow's queue its size, for any
\* number of messages (shadowForwarder.Offer).
THEOREM TypeCorrect == Spec => []TypeOK
<1>1. TypeInv => TypeOK
  BY DEF TypeInv
<1> QED BY <1>1, InitType, NextType, PTL DEF Spec

--------------------------------------------------------------------------------
(* What a comparison is made with *)

OwnStatuses == {"Canceled", "DeadlineExceeded"}

\* A complete result is the receiver's, and one without a reason to skip it is not
\* of the proxy's own making.
MergedSound ==
  result.complete =>
    /\ vpc = "done" /\ result.msgs = vres.msgs /\ result.status = vres.status
    /\ result.skip = "" => vres.status \notin OwnStatuses

\* run cancels the shadow only on its way out, Wait only with a reason recorded.
CancelMarked == ctx = "canceled" => result.skip # "" \/ rpc \in {"finish", "done"}

\* Nothing is complete before run has merged the receiver's result, and run merges
\* it after the receiver has ended.
MergeLast ==
  /\ rpc \in {"none", "dial", "wait", "merge"} => ~result.complete
  /\ rpc \in {"none", "dial"} => vpc = "none"
  /\ "recv" \notin open => vpc = "done"
  /\ rpc = "merge" => "recv" \notin open

\* A receiver that the proxy itself ended is skipped, never merged, or not complete.
OwnEndSkipped ==
  vpc = "done" =>
    /\ vres.status = "Canceled" =>
         result.skip # "" \/ (rpc \in {"finish", "done"} /\ ~result.complete)
    /\ vres.status = "DeadlineExceeded" => ~vres.complete

\* Before prepareShadow nothing runs.
NotStarted ==
  /\ hpc = "prepare" => rpc = "none" /\ ctx = "live" /\ ~dropped
  /\ hpc \in {"prepare", "open"} => cpc = "none"

\* Once Offer has found the queue full there is a reason to skip the result.
DropMarked == dropped => result.skip # ""

CompareInv ==
  /\ MergedSound /\ CancelMarked /\ MergeLast /\ OwnEndSkipped /\ NotStarted /\ DropMarked
  /\ CompareSound

\* A comparison is made only with a complete result and without a reason to skip it.
LEMMA ComparedComplete ==
  ASSUME NEW p, NEW s, compareRPCResult(p, s) \in Compared
  PROVE  s.complete /\ s.skip = ""
<1> SUFFICES ASSUME Incomplete(s) PROVE FALSE
  BY DEF Incomplete
<1>1. compareRPCResult(p, s) \in {"skipped", "error"}
  BY DEF compareRPCResult
<1> QED BY <1>1 DEF Compared

LEMMA NextNotStarted == NotStarted /\ [Next]_vars => NotStarted'
<1> SUFFICES ASSUME NotStarted, [Next]_vars PROVE NotStarted'
  OBVIOUS
<1> USE DEF handlerVars, clientVars, primaryVars, policyVars, queueVars, runVars, sendVars, recvVars
<1>1. CASE UNCHANGED <<hpc, cpc, rpc, ctx, dropped>>
  BY <1>1 DEF NotStarted
<1>2. CASE hpc' \notin {"prepare", "open"}
  BY <1>2 DEF NotStarted
<1>3. CASE hpc' = "open" /\ UNCHANGED cpc /\ hpc \in {"prepare", "open"}
  BY <1>3 DEF NotStarted
<1>4. CASE UNCHANGED hpc /\ (cpc # "none" \/ rpc # "none") /\ (cpc = "none" => cpc' = "none")
  BY <1>4 DEF NotStarted
<1>5. CASE ClientMessage \/ SendPrimary \/ OfferShadow
           \/ \E err \in BOOLEAN : cpc \in {"recv", "send"} /\ Return(err)
  BY <1>4, <1>5 DEF ClientMessage, SendPrimary, OfferShadow, Return
<1>6. CASE ShadowExpires \/ ShadowOpened \/ ShadowOpenFailed \/ RunTakesSend \/ RunTakesRecv
           \/ RunExpires \/ RunMerges \/ RunCompletes
  <2>1. UNCHANGED <<hpc, cpc>> /\ rpc # "none"
    BY <1>6 DEF ShadowExpires, HasQueue, ShadowOpened, ShadowOpenFailed, RunTakesSend, RunTakesRecv,
                RunExpires, RunMerges, RunCompletes
  <2> QED BY <1>4, <2>1
<1> QED
  BY <1>1, <1>2, <1>3, <1>5, <1>6, Steps
     DEF ClientHalfClose, ClientCancel, PrepareShadow, PrimaryOpened, PrimaryOpenFailed,
         PrimarySendEnded, PrimaryRecvEnded, Finish, WaitTimesOut, PrimaryMessage, PrimaryEnds,
         SenderTakes, ShadowSend, SenderEnds, ShadowMessage, ReceiverEnds, vars

LEMMA InitCompare == Init => CompareInv
<1> SUFFICES ASSUME Init PROVE CompareInv
  OBVIOUS
<1>1. /\ ~result.complete /\ ctx = "live" /\ vpc = "none" /\ open = {"send", "recv"} /\ rpc = "none"
      /\ cpc = "none" /\ dropped = FALSE /\ outcome = "none"
  BY DEF Init, NoResult
<1> QED
  BY <1>1 DEF CompareInv, MergedSound, CancelMarked, MergeLast, OwnEndSkipped, NotStarted, DropMarked,
              CompareSound, Compared

LEMMA NextCompare == TypeInv /\ CompareInv /\ [Next]_vars => CompareInv'
<1> SUFFICES ASSUME TypeInv, CompareInv, [Next]_vars PROVE CompareInv'
  OBVIOUS
<1>0. result \in ResultType /\ vres \in ResultType
  BY DEF TypeInv, TypeOK
<1>s. {"", "no_shadow", "target_unavailable", "shadow_not_started", "queue_full", "timeout"} \subseteq SkipReasons
  BY DEF SkipReasons
<1> USE DEF handlerVars, clientVars, primaryVars, policyVars, queueVars, runVars, sendVars, recvVars
<1> DEFINE Parts == /\ MergedSound /\ CancelMarked /\ MergeLast /\ OwnEndSkipped /\ NotStarted
                    /\ DropMarked /\ CompareSound
<1>p. Parts
  BY DEF CompareInv
<1>n. NotStarted'
  BY <1>p, NextNotStarted
<1> USE DEF MergedSound, CancelMarked, MergeLast, OwnEndSkipped, DropMarked, CompareSound
<1>1. CASE UNCHANGED <<result, vpc, vres, ctx, rpc, open, dropped, outcome, snapshot>>
  BY <1>1, <1>p, <1>n DEF CompareInv
<1>3. CASE ShadowExpires
  <2>1. /\ ctx' = "expired" /\ rpc # "none"
        /\ UNCHANGED <<result, vpc, vres, rpc, open, dropped, outcome, snapshot, hpc, cpc>>
    BY <1>3 DEF ShadowExpires, HasQueue
  <2> QED BY <1>n, <1>p, <2>1 DEF CompareInv
<1>4. CASE PrepareShadow
  <2>1. /\ hpc' = "open" /\ rpc = "none" /\ rpc' \in {"none", "dial"} /\ ctx = "live" /\ ~dropped
        /\ UNCHANGED <<vpc, vres, ctx, open, dropped, outcome, snapshot, cpc>>
    BY <1>4, <1>p DEF PrepareShadow, NotStarted
  <2>2. ~result'.complete
    <3>1. \A reason : ~[NoResult EXCEPT !.skip = reason].complete
      BY DEF NoResult
    <3>2. ~Mark(NoResult, "target_unavailable", TRUE).complete
      BY NoResultType, MarkResult, <1>s DEF NoResult
    <3>3. ~result.complete
      BY <1>p, <2>1
    <3> QED BY <1>4, <3>1, <3>2, <3>3 DEF PrepareShadow
  <2> QED BY <1>n, <1>p, <2>1, <2>2 DEF CompareInv
<1>5. CASE Finish
  <2>1. /\ snapshot' = result /\ hpc' = "done" /\ outcome' = compareRPCResult(returned, result)
        /\ UNCHANGED <<result, vpc, vres, ctx, rpc, open, dropped, cpc>>
    BY <1>5 DEF Finish
  <2>2. outcome' \in Compared => result.complete /\ result.skip = ""
    BY <2>1, ComparedComplete
  <2> QED BY <1>n, <1>p, <2>1, <2>2 DEF CompareInv, OwnStatuses
<1>6. ASSUME NEW reason \in SkipReasons, NEW err \in BOOLEAN, result' = Mark(result, reason, err),
             UNCHANGED <<vpc, vres, outcome, snapshot>>,
             open' \subseteq open, "recv" \in open \ open' => vpc = "done",
             ctx' \in {ctx, "canceled"}, rpc' \in {rpc, "finish"}, rpc = "none" => rpc' = "none",
             ctx' = "canceled" => ctx = "canceled" \/ reason # "" \/ rpc' = "finish",
             dropped' => dropped \/ reason # ""
      PROVE  CompareInv'
  <2>1. /\ result'.skip = (IF result.skip = "" THEN reason ELSE result.skip)
        /\ result'.complete = result.complete /\ result'.msgs = result.msgs
        /\ result'.status = result.status
    BY <1>0, <1>6, MarkResult
  <2>2. MergedSound'
    BY <1>p, <1>6, <2>1
  <2>3. CancelMarked' /\ DropMarked' /\ CompareSound'
    BY <1>p, <1>6, <2>1
  <2>4. MergeLast'
    BY <1>p, <1>6, <2>1
  <2>5. OwnEndSkipped'
    BY <1>p, <1>6, <2>1
  <2> QED BY <1>n, <2>2, <2>3, <2>4, <2>5 DEF CompareInv
<1>7. CASE WaitTimesOut
  <2>1. /\ result' = Mark(result, "timeout", TRUE) /\ hpc' = "expired"
        /\ ctx' \in {ctx, "canceled"}
        /\ UNCHANGED <<vpc, vres, rpc, open, dropped, outcome, snapshot, cpc>>
    BY <1>7 DEF WaitTimesOut, Cancel
  <2> QED BY <1>6, <1>s, <2>1
<1>8. CASE RunExpires
  <2>1. /\ result' = Mark(result, "timeout", TRUE) /\ rpc' = "finish" /\ rpc = "wait"
        /\ UNCHANGED <<vpc, vres, ctx, open, dropped, outcome, snapshot, cpc, hpc>>
    BY <1>8 DEF RunExpires
  <2> QED BY <1>6, <1>s, <1>p, <2>1
<1>9. CASE ShadowOpenFailed
  <2>1. PICK reason \in {"target_unavailable", "shadow_not_started"} : result' = Mark(result, reason, TRUE)
    BY <1>9 DEF ShadowOpenFailed
  <2>2. /\ rpc = "dial" /\ rpc' = "finish"
        /\ UNCHANGED <<vpc, vres, ctx, open, dropped, outcome, snapshot, cpc, hpc>>
    BY <1>9 DEF ShadowOpenFailed, CloseQueue
  <2> QED BY <1>6, <1>s, <1>p, <2>1, <2>2
<1>10. CASE OfferShadow
  <2>1. /\ cpc = "offer"
        /\ UNCHANGED <<vpc, vres, ctx, open, outcome, snapshot, rpc, hpc>>
    BY <1>10 DEF OfferShadow
  <2>2. \/ UNCHANGED <<result, dropped>>
        \/ result' = Mark(result, "queue_full", TRUE)
    BY <1>10 DEF OfferShadow, Offer
  <2> QED BY <1>1, <1>6, <1>s, <2>1, <2>2
<1>11. CASE RunTakesSend
  <2>1. /\ rpc = "wait" /\ open' = open \ {"send"}
        /\ UNCHANGED <<vpc, vres, dropped, outcome, snapshot, cpc, hpc>>
    BY <1>11 DEF RunTakesSend
  <2>2. CASE serr
    <3>1. result' = Mark(result, "", TRUE) /\ ctx' \in {ctx, "canceled"} /\ rpc' = "finish"
      BY <1>11, <2>2 DEF RunTakesSend, Cancel
    <3> QED BY <1>6, <1>s, <1>p, <2>1, <3>1
  <2>3. CASE ~serr
    <3>1. rpc' \in {"wait", "merge"} /\ (rpc' = "merge" => open' = {}) /\ UNCHANGED <<result, ctx>>
      BY <1>11, <2>3 DEF RunTakesSend
    <3>2. "recv" \notin open' => "recv" \notin open
      BY <2>1
    <3>3. MergeLast'
      BY <1>n, <1>p, <2>1, <3>1, <3>2
    <3>4. MergedSound' /\ CancelMarked' /\ OwnEndSkipped' /\ DropMarked' /\ CompareSound'
      BY <1>n, <1>p, <2>1, <3>1
    <3> QED BY <1>n, <3>3, <3>4 DEF CompareInv
  <2> QED BY <2>2, <2>3
<1>12. ASSUME result' = Merge(result, vres), vpc = "done", rpc \in {"wait", "merge"}, rpc' = "finish",
              open' \in {open, open \ {"recv"}},
              UNCHANGED <<vpc, vres, dropped, outcome, snapshot, cpc, hpc>>
       PROVE  CompareInv'
  <2>1. /\ result'.skip = (IF result.skip = "" THEN vres.skip ELSE result.skip)
        /\ result'.complete = vres.complete /\ result'.msgs = vres.msgs
        /\ result'.status = vres.status
    BY <1>0, <1>12, MergeResult
  <2>2. MergedSound'
    BY <1>p, <1>12, <2>1 DEF OwnStatuses
  <2>3. CancelMarked' /\ DropMarked' /\ CompareSound'
    BY <1>p, <1>12, <2>1
  <2>4. MergeLast' /\ OwnEndSkipped'
    BY <1>p, <1>12, <2>1
  <2> QED BY <1>n, <2>2, <2>3, <2>4 DEF CompareInv
<1>13. CASE RunTakesRecv
  <2>1. /\ rpc = "wait" /\ open' = open \ {"recv"} /\ vpc = "done"
        /\ UNCHANGED <<vpc, vres, dropped, outcome, snapshot, cpc, hpc>>
    BY <1>13 DEF RunTakesRecv
  <2>2. CASE vres.err
    <3>1. result' = Merge(result, vres) /\ rpc' = "finish"
      BY <1>13, <2>2 DEF RunTakesRecv, Cancel
    <3> QED BY <1>12, <2>1, <3>1
  <2>3. CASE ~vres.err
    <3>1. rpc' \in {"wait", "merge"} /\ UNCHANGED <<result, ctx>>
      BY <1>13, <2>3 DEF RunTakesRecv
    <3> QED BY <1>n, <1>p, <2>1, <3>1 DEF CompareInv
  <2> QED BY <2>2, <2>3
<1>14. CASE RunMerges
  <2>1. /\ rpc = "merge" /\ rpc' = "finish" /\ result' = Merge(result, vres)
        /\ UNCHANGED <<vpc, vres, dropped, outcome, snapshot, cpc, hpc, open>>
    BY <1>14 DEF RunMerges
  <2> QED BY <1>p, <1>12, <2>1
<1>15. CASE RunCompletes
  <2>1. /\ rpc = "finish" /\ rpc' = "done"
        /\ UNCHANGED <<result, vpc, vres, dropped, outcome, snapshot, cpc, hpc, open>>
    BY <1>15 DEF RunCompletes
  <2> QED BY <1>n, <1>p, <2>1 DEF CompareInv
<1>16. CASE ShadowOpened
  <2>1. /\ rpc = "dial" /\ rpc' = "wait" /\ vpc' = "recv" /\ ctx = "live"
        /\ result' = [result EXCEPT !.started = TRUE]
        /\ UNCHANGED <<ctx, dropped, outcome, snapshot, cpc, hpc, open>>
    BY <1>16 DEF ShadowOpened
  <2>2. result'.complete = result.complete /\ result'.skip = result.skip
    BY <1>0, <2>1 DEF ResultType
  <2> QED BY <1>n, <1>p, <2>1, <2>2 DEF CompareInv
<1>17. CASE ShadowMessage
  <2>1. /\ vpc = "recv"
        /\ UNCHANGED <<result, vpc, dropped, outcome, snapshot, cpc, hpc, rpc, ctx, open>>
    BY <1>17 DEF ShadowMessage
  <2> QED BY <1>n, <1>p, <2>1 DEF CompareInv
<1>18. ASSUME NEW complete \in BOOLEAN, NEW skip \in SkipReasons, NEW err \in BOOLEAN,
              NEW status \in Statuses, ReceiverEnds(complete, skip, err, status),
              status = "Canceled" => ctx = "canceled", status = "DeadlineExceeded" => ~complete
       PROVE  CompareInv'
  <2>1. /\ vpc = "recv" /\ vpc' = "done"
        /\ vres' = [vres EXCEPT !.complete = complete, !.skip = skip, !.err = err, !.status = status]
        /\ UNCHANGED <<result, dropped, outcome, snapshot, cpc, hpc, rpc, ctx, open>>
    BY <1>18 DEF ReceiverEnds
  <2>2. vres'.complete = complete /\ vres'.status = status
    BY <1>0, <2>1 DEF ResultType
  <2> QED BY <1>n, <1>p, <1>18, <2>1, <2>2 DEF CompareInv
<1>19. CASE PrimaryOpened \/ PrimaryOpenFailed \/ PrimarySendEnded \/ PrimaryRecvEnded
  BY <1>1, <1>19 DEF PrimaryOpened, PrimaryOpenFailed, PrimarySendEnded, PrimaryRecvEnded, CloseQueue
<1>20. CASE ClientMessage \/ SendPrimary \/ \E err \in BOOLEAN : cpc \in {"recv", "send"} /\ Return(err)
  BY <1>1, <1>p, <1>20 DEF ClientMessage, SendPrimary, Return, CloseQueue
<1> HIDE DEF Parts, MergedSound, CancelMarked, MergeLast, OwnEndSkipped, DropMarked, CompareSound
<1>21. CASE ClientHalfClose \/ ClientCancel \/ PrimaryMessage \/ SenderTakes \/ ShadowSend \/ UNCHANGED vars
  BY <1>1, <1>21 DEF ClientHalfClose, ClientCancel, PrimaryMessage, SenderTakes, ShadowSend, vars
<1>22. ASSUME NEW err, SenderEnds(err) PROVE CompareInv'
  BY <1>1, <1>22 DEF SenderEnds
<1>23. ASSUME NEW complete, NEW err, NEW status, PrimaryEnds(complete, err, status) PROVE CompareInv'
  BY <1>1, <1>23 DEF PrimaryEnds
<1> QED
  BY <1>3, <1>4, <1>5, <1>7, <1>8, <1>9, <1>10, <1>11, <1>13, <1>14, <1>15, <1>16, <1>17, <1>18,
     <1>19, <1>20, <1>21, <1>22, <1>23, Steps

\* A comparison is made with exactly what the shadow answered and never with a status
\* of the proxy's own making, whatever the interleaving of the five goroutines, the
\* timer of Wait and the client (incompleteShadowCompareError, Wait,
\* waitForShadowForwarding), for any number of messages and any queue size.
THEOREM CompareSoundCorrect == Spec => []CompareSound
<1>1. CompareInv => CompareSound
  BY DEF CompareInv
<1> QED BY <1>1, InitType, NextType, InitCompare, NextCompare, PTL DEF Spec

\* A shadow that missed a message is never compared: Offer records the reason under
\* the mutex and nothing removes it.
THEOREM ComparedWholeCorrect == Spec => ComparedWhole
<1>1. TypeInv /\ CompareInv /\ [Next]_vars
        => [outcome = "none" /\ outcome' \in Compared => ~dropped]_vars
  <2> SUFFICES ASSUME TypeInv, CompareInv, [Next]_vars, outcome = "none", outcome' \in Compared
               PROVE  ~dropped
    OBVIOUS
  <2> USE DEF handlerVars, clientVars, primaryVars, policyVars, queueVars, runVars, sendVars, recvVars
  <2>1. outcome' # outcome
    BY DEF Compared
  <2>2. Finish
    BY <2>1, Steps
       DEF ClientHalfClose, ClientCancel, ClientMessage, ShadowExpires, PrepareShadow, PrimaryOpened,
           PrimaryOpenFailed, PrimarySendEnded, PrimaryRecvEnded, WaitTimesOut, Return, SendPrimary,
           OfferShadow, PrimaryMessage, PrimaryEnds, ShadowOpened, ShadowOpenFailed, RunTakesSend,
           RunTakesRecv, RunExpires, RunMerges, RunCompletes, SenderTakes, ShadowSend, SenderEnds,
           ShadowMessage, ReceiverEnds, vars
  <2>3. outcome' = compareRPCResult(returned, result)
    BY <2>2 DEF Finish
  <2>4. result.skip = ""
    BY <2>3, ComparedComplete
  <2> QED BY <2>4 DEF CompareInv, DropMarked
<1> QED BY <1>1, InitType, NextType, InitCompare, NextCompare, PTL DEF Spec, ComparedWhole

--------------------------------------------------------------------------------
(* The order of the replay *)

Nth(s) == \A i \in 1..Len(s) : s[i] = i

\* Messages the sender has taken from the queue so far.
Taken == Len(shadowLog) + (IF spc = "send" THEN 1 ELSE 0)

\* The request direction has read one message more than it has sent, or as many.
ClientCount ==
  /\ cpc = "none" => cmsg = 0 /\ primaryLog = <<>>
  /\ cpc \in {"recv", "offer"} => cmsg = Len(primaryLog)
  /\ cpc = "send" => cmsg = Len(primaryLog) + 1

\* The queue holds the messages that follow the ones taken, and while it is open
\* these are all the messages sent to the primary and offered.
QueueFollows ==
  /\ spc = "send" => smsg = Len(shadowLog) + 1
  /\ spc # "done" => /\ \A j \in 1..Len(queue) : queue[j] = Taken + j
                     /\ Taken + Len(queue) <= Len(primaryLog)
  /\ spc # "done" /\ HasQueue /\ ~queueClosed =>
       Len(primaryLog) = Taken + Len(queue) + (IF cpc = "offer" THEN 1 ELSE 0)

\* sendRequests runs from the opening of the shadow's stream on.
SenderStarted ==
  /\ rpc \in {"none", "dial"} => spc = "none"
  /\ rpc \in {"wait", "merge"} => spc # "none"

ReplayInv ==
  /\ Nth(primaryLog) /\ Nth(shadowLog) /\ ClientCount /\ QueueFollows /\ SenderStarted
  /\ NotStarted

LEMMA InitReplay == Init => ReplayInv
BY DEF Init, ReplayInv, Nth, ClientCount, QueueFollows, SenderStarted, NotStarted, HasQueue, Taken

\* Appending the next number to the numbers so far.
LEMMA NthAppend ==
  ASSUME NEW S, NEW s \in Seq(S), NEW m \in S, Nth(s), m = Len(s) + 1
  PROVE  Nth(Append(s, m)) /\ Len(Append(s, m)) = Len(s) + 1
BY DEF Nth

\* The request direction: what it has read and sent.
LEMMA NextClient ==
  TypeInv /\ ReplayInv /\ [Next]_vars => ClientCount' /\ Nth(primaryLog')
<1> SUFFICES ASSUME TypeInv, ReplayInv, [Next]_vars PROVE ClientCount' /\ Nth(primaryLog')
  OBVIOUS
<1>0. ClientCount /\ Nth(primaryLog) /\ primaryLog \in Seq(1..MaxMessages) /\ cmsg \in 0..MaxMessages
      /\ InHand /\ NotStarted
  BY DEF TypeInv, TypeOK, ReplayInv
<1> USE DEF handlerVars, clientVars, primaryVars, policyVars, queueVars, runVars, sendVars, recvVars
<1>1. CASE UNCHANGED <<cpc, cmsg, primaryLog>>
  BY <1>0, <1>1 DEF ClientCount
<1>2. CASE ClientMessage
  BY <1>0, <1>2, StreamAssumption DEF ClientMessage, ClientCount
<1>3. CASE SendPrimary
  <2>1. cpc = "send" /\ cpc' = "offer" /\ primaryLog' = Append(primaryLog, cmsg) /\ cmsg' = cmsg
    BY <1>3 DEF SendPrimary
  <2>2. Nth(Append(primaryLog, cmsg)) /\ Len(Append(primaryLog, cmsg)) = Len(primaryLog) + 1
    BY <1>0, <2>1, NthAppend DEF ClientCount, InHand
  <2> QED BY <1>0, <2>1, <2>2 DEF ClientCount
<1>4. CASE OfferShadow
  BY <1>0, <1>4 DEF OfferShadow, ClientCount
<1>5. ASSUME NEW err, Return(err) PROVE ClientCount' /\ Nth(primaryLog')
  BY <1>0, <1>5 DEF Return, ClientCount
<1>6. CASE PrimaryOpened
  <2>1. cpc' = "recv" /\ UNCHANGED <<cmsg, primaryLog>> /\ hpc = "open"
    BY <1>6 DEF PrimaryOpened
  <2> QED BY <1>0, <2>1 DEF ClientCount, NotStarted
<1> QED
  BY <1>1, <1>2, <1>3, <1>4, <1>5, <1>6, Steps
     DEF ClientHalfClose, ClientCancel, ShadowExpires, PrepareShadow, PrimaryOpenFailed,
         PrimarySendEnded, PrimaryRecvEnded, Finish, WaitTimesOut, PrimaryMessage, PrimaryEnds,
         ShadowOpened, ShadowOpenFailed, RunTakesSend, RunTakesRecv, RunExpires, RunMerges,
         RunCompletes, SenderTakes, ShadowSend, SenderEnds, ShadowMessage, ReceiverEnds, vars

\* The shadow is opened once, and the sender is started with it.
LEMMA NextSender == TypeInv /\ ReplayInv /\ [Next]_vars => SenderStarted'
<1> SUFFICES ASSUME TypeInv, ReplayInv, [Next]_vars PROVE SenderStarted'
  OBVIOUS
<1>0. SenderStarted /\ NotStarted
  BY DEF ReplayInv
<1> USE DEF handlerVars, clientVars, primaryVars, policyVars, queueVars, runVars, sendVars, recvVars
<1>1. CASE UNCHANGED <<rpc, spc>>
  BY <1>0, <1>1 DEF SenderStarted
<1>2. CASE PrepareShadow
  <2>1. rpc = "none" /\ rpc' \in {"none", "dial"} /\ spc' = spc
    BY <1>0, <1>2 DEF PrepareShadow, NotStarted
  <2> QED BY <1>0, <2>1 DEF SenderStarted
<1>3. CASE ShadowOpened \/ ShadowOpenFailed \/ RunExpires \/ RunMerges \/ RunCompletes
  BY <1>0, <1>3 DEF ShadowOpened, ShadowOpenFailed, RunExpires, RunMerges, RunCompletes, SenderStarted
<1>4. CASE RunTakesSend \/ RunTakesRecv
  <2>1. rpc = "wait" /\ rpc' \in {"wait", "merge", "finish"} /\ spc' = spc
    BY <1>4 DEF RunTakesSend, RunTakesRecv
  <2> QED BY <1>0, <2>1 DEF SenderStarted
<1>5. CASE SenderTakes \/ ShadowSend
  BY <1>0, <1>5 DEF SenderTakes, ShadowSend, SenderStarted
<1>6. ASSUME NEW err, spc \in {"recv", "send"}, SenderEnds(err) PROVE SenderStarted'
  BY <1>0, <1>6 DEF SenderEnds, SenderStarted
<1>7. CASE ClientHalfClose \/ ClientCancel \/ ClientMessage \/ ShadowExpires
           \/ PrimaryOpened \/ PrimaryOpenFailed \/ PrimarySendEnded
           \/ PrimaryRecvEnded \/ Finish \/ WaitTimesOut
  BY <1>1, <1>7 DEF ClientHalfClose, ClientCancel, ClientMessage, ShadowExpires, PrimaryOpened, PrimaryOpenFailed, PrimarySendEnded, PrimaryRecvEnded, Finish, WaitTimesOut
<1>8. CASE SendPrimary \/ OfferShadow \/ PrimaryMessage \/ ShadowMessage
           \/ UNCHANGED vars
  BY <1>1, <1>8 DEF SendPrimary, OfferShadow, PrimaryMessage, ShadowMessage, vars
<1>9. ASSUME NEW err, Return(err) PROVE SenderStarted'
  BY <1>1, <1>9 DEF Return
<1>10. ASSUME NEW complete, NEW err, NEW status, PrimaryEnds(complete, err, status)
       PROVE  SenderStarted'
  BY <1>1, <1>10 DEF PrimaryEnds
<1>11. ASSUME NEW complete, NEW skip, NEW err, NEW status, ReceiverEnds(complete, skip, err, status)
       PROVE  SenderStarted'
  BY <1>1, <1>11 DEF ReceiverEnds
<1> QED BY <1>2, <1>3, <1>4, <1>5, <1>6, <1>7, <1>8, <1>9, <1>10, <1>11, Steps

\* Every message that sendRequests takes follows the ones it has sent.
LEMMA NextQueue == TypeInv /\ ReplayInv /\ [Next]_vars => QueueFollows' /\ Nth(shadowLog')
<1> SUFFICES ASSUME TypeInv, ReplayInv, [Next]_vars PROVE QueueFollows' /\ Nth(shadowLog')
  OBVIOUS
<1>0. QueueFollows /\ Nth(shadowLog)
  BY DEF ReplayInv
<1>t. /\ primaryLog \in Seq(1..MaxMessages) /\ shadowLog \in Seq(1..MaxMessages)
      /\ queue \in Seq(1..MaxMessages) /\ InHand
  BY DEF TypeInv, TypeOK
<1> USE DEF handlerVars, clientVars, primaryVars, policyVars, queueVars, runVars, sendVars, recvVars
<1> USE DEF Taken
<1>2. CASE PrepareShadow
  <2>1. rpc = "none" /\ cpc = "none" /\ UNCHANGED <<spc, smsg, shadowLog, queue, primaryLog, cpc>>
    BY <1>2 DEF PrepareShadow, ReplayInv, NotStarted
  <2>2. spc = "none" /\ Len(primaryLog) = 0
    BY <2>1 DEF ReplayInv, ClientCount, SenderStarted
  <2>3. Len(shadowLog) = 0 /\ Len(queue) = 0
    BY <1>0, <1>t, <2>2 DEF QueueFollows
  <2> QED BY <1>0, <2>1, <2>2, <2>3 DEF QueueFollows
<1>3. CASE PrimaryOpenFailed \/ ShadowOpenFailed
  <2>1. /\ UNCHANGED <<spc, smsg, shadowLog, queue, primaryLog, cpc>>
        /\ HasQueue' => HasQueue /\ queueClosed' = TRUE
    BY <1>3 DEF PrimaryOpenFailed, ShadowOpenFailed, CloseQueue, HasQueue
  <2> QED BY <1>0, <2>1 DEF QueueFollows
<1>4. ASSUME NEW err, cpc \in {"recv", "send"}, Return(err) PROVE QueueFollows' /\ Nth(shadowLog')
  <2>1. /\ UNCHANGED <<spc, smsg, shadowLog, queue, primaryLog>>
        /\ HasQueue' => queueClosed' = TRUE
    BY <1>4 DEF Return, CloseQueue, HasQueue
  <2> QED BY <1>0, <2>1 DEF QueueFollows
<1>5. CASE SendPrimary
  <2>1. /\ cpc = "send" /\ cpc' = "offer" /\ primaryLog' = Append(primaryLog, cmsg)
        /\ UNCHANGED <<spc, smsg, shadowLog, queue, HasQueue, queueClosed>>
    BY <1>5 DEF SendPrimary, HasQueue
  <2>2. Len(primaryLog') = Len(primaryLog) + 1
    BY <1>t, <2>1 DEF InHand
  <2>3. Taken' = Taken
    BY <2>1
  <2>4. Taken \in Nat /\ Len(queue) \in Nat /\ Len(primaryLog) \in Nat
    BY <1>t
  <2> HIDE DEF Taken
  <2> QED BY <1>0, <2>1, <2>2, <2>3, <2>4, SMTT(30) DEF QueueFollows
<1>6. CASE OfferShadow
  <2>1. /\ cpc = "offer" /\ cpc' = "recv" /\ UNCHANGED <<spc, smsg, shadowLog, primaryLog, HasQueue>>
        /\ Offer(cmsg)
    BY <1>6 DEF OfferShadow, HasQueue
  <2>2. cmsg = Len(primaryLog) /\ cmsg \in 1..MaxMessages
    BY <1>t, <2>1 DEF ReplayInv, ClientCount, InHand
  <2>3. CASE ~HasQueue \/ queueClosed
    <3>1. UNCHANGED <<queue, queueClosed>>
      BY <2>1, <2>3 DEF Offer
    <3> QED BY <1>0, <2>1, <2>3, <3>1 DEF QueueFollows
  <2>4. CASE HasQueue /\ ~queueClosed /\ Len(queue) < QueueSize
    <3>1. queue' = Append(queue, cmsg) /\ UNCHANGED queueClosed
      BY <2>1, <2>4 DEF Offer
    <3>2. /\ Len(queue') = Len(queue) + 1
          /\ \A j \in 1..Len(queue) : queue'[j] = queue[j]
          /\ queue'[Len(queue) + 1] = cmsg
      BY <1>t, <2>2, <3>1
    <3>3. spc # "done" => cmsg = Taken + Len(queue) + 1
      BY <1>0, <1>t, <2>1, <2>2, <2>4 DEF QueueFollows
    <3>4. spc # "done" => \A j \in 1..Len(queue') : queue'[j] = Taken + j
      <4>1. Taken \in Nat /\ Len(queue) \in Nat
        BY <1>t
      <4>2. spc # "done" => \A j \in 1..Len(queue) : queue[j] = Taken + j
        BY <1>0 DEF QueueFollows
      <4> HIDE DEF Taken
      <4> QED BY <3>2, <3>3, <4>1, <4>2
    <3>5. Taken' = Taken /\ Taken \in Nat /\ Len(queue) \in Nat
      BY <1>t, <2>1
    <3> HIDE DEF Taken
    <3> QED BY <1>0, <2>1, <2>2, <3>1, <3>2, <3>3, <3>4, <3>5 DEF QueueFollows
  <2>5. CASE HasQueue /\ ~queueClosed /\ ~(Len(queue) < QueueSize)
    <3>1. queueClosed' = TRUE /\ UNCHANGED queue
      BY <2>1, <2>5 DEF Offer
    <3> QED BY <1>0, <2>1, <3>1 DEF QueueFollows
  <2> QED BY <2>3, <2>4, <2>5
<1>7. CASE ShadowOpened
  <2>1. /\ rpc = "dial" /\ spc' = "recv" /\ HasQueue
        /\ UNCHANGED <<smsg, shadowLog, queue, queueClosed, primaryLog, cpc>>
    BY <1>7 DEF ShadowOpened, HasQueue
  <2>2. spc = "none"
    BY <2>1 DEF ReplayInv, SenderStarted
  <2> QED BY <1>0, <2>1, <2>2 DEF QueueFollows
<1>8. CASE SenderTakes
  <2>1. /\ spc = "recv" /\ spc' = "send" /\ queue # <<>> /\ smsg' = Head(queue) /\ queue' = Tail(queue)
        /\ UNCHANGED <<shadowLog, primaryLog, cpc, HasQueue, queueClosed>>
    BY <1>8 DEF SenderTakes, HasQueue
  <2>2. /\ Len(queue) >= 1 /\ Len(queue') = Len(queue) - 1 /\ smsg' = queue[1]
        /\ \A j \in 1..Len(queue') : queue'[j] = queue[j + 1]
    BY <1>t, <2>1
  <2>3. /\ \A j \in 1..Len(queue) : queue[j] = Len(shadowLog) + j
        /\ Len(shadowLog) + Len(queue) <= Len(primaryLog)
        /\ HasQueue /\ ~queueClosed =>
             Len(primaryLog) = Len(shadowLog) + Len(queue) + (IF cpc = "offer" THEN 1 ELSE 0)
    BY <1>0, <1>t, <2>1 DEF QueueFollows
  <2>4. smsg' = Len(shadowLog) + 1
    BY <2>2, <2>3
  <2>5. \A j \in 1..Len(queue') : queue'[j] = Len(shadowLog) + 1 + j
    BY <1>t, <2>2, <2>3
  <2>6. Taken' = Len(shadowLog) + 1
    BY <2>1
  <2>7. /\ Taken' + Len(queue') <= Len(primaryLog)
        /\ HasQueue /\ ~queueClosed =>
             Len(primaryLog) = Taken' + Len(queue') + (IF cpc = "offer" THEN 1 ELSE 0)
    <3>1. Len(shadowLog) \in Nat /\ Len(queue) \in Nat /\ Len(primaryLog) \in Nat
      BY <1>t
    <3>2. Len(queue') = Len(queue) - 1 /\ Len(queue) >= 1
      BY <2>2
    <3>3. Taken' + Len(queue') = Len(shadowLog) + Len(queue)
      BY <2>6, <3>1, <3>2
    <3> HIDE DEF Taken
    <3> QED BY <2>3, <3>3
  <2> HIDE DEF Taken
  <2>8. Nth(shadowLog')
    BY <1>0, <2>1
  <2> QED BY <2>1, <2>4, <2>5, <2>6, <2>7, <2>8 DEF QueueFollows
<1>9. CASE ShadowSend
  <2>1. /\ spc = "send" /\ spc' = "recv" /\ shadowLog' = Append(shadowLog, smsg)
        /\ UNCHANGED <<smsg, queue, queueClosed, primaryLog, cpc, HasQueue>>
    BY <1>9 DEF ShadowSend, HasQueue
  <2>2. smsg = Len(shadowLog) + 1 /\ smsg \in 1..MaxMessages
    BY <1>0, <1>t, <2>1 DEF QueueFollows, InHand
  <2>3. Nth(shadowLog') /\ Len(shadowLog') = Len(shadowLog) + 1
    BY <1>0, <1>t, <2>1, <2>2, NthAppend
  <2>4. Taken' = Taken
    BY <1>t, <2>1, <2>3
  <2> HIDE DEF Taken
  <2> QED BY <1>0, <2>1, <2>3, <2>4 DEF QueueFollows
<1>10. ASSUME NEW err, SenderEnds(err) PROVE QueueFollows' /\ Nth(shadowLog')
  <2>1. spc' = "done" /\ UNCHANGED shadowLog
    BY <1>10 DEF SenderEnds
  <2> QED BY <1>0, <2>1 DEF QueueFollows
<1>11. CASE RunTakesSend \/ RunTakesRecv \/ RunExpires \/ RunMerges \/ RunCompletes
  <2>1. /\ HasQueue /\ UNCHANGED <<spc, smsg, shadowLog, queue, queueClosed, primaryLog, cpc>>
    BY <1>11 DEF RunTakesSend, RunTakesRecv, RunExpires, RunMerges, RunCompletes, HasQueue
  <2> QED BY <1>0, <2>1 DEF QueueFollows
<1>12. CASE PrimaryOpened \/ ClientMessage
  <2>1. /\ UNCHANGED <<spc, smsg, shadowLog, queue, queueClosed, primaryLog, rpc>>
        /\ cpc' # "offer" /\ cpc # "offer"
    BY <1>12 DEF PrimaryOpened, ClientMessage, ReplayInv, NotStarted
  <2> QED BY <1>0, <2>1 DEF QueueFollows, HasQueue
<1>13. CASE UNCHANGED <<spc, smsg, shadowLog, queue, queueClosed, primaryLog, cpc, rpc>>
  BY <1>0, <1>13 DEF QueueFollows, HasQueue
<1>14. CASE ClientHalfClose \/ ClientCancel \/ ShadowExpires \/ PrimarySendEnded
           \/ PrimaryRecvEnded \/ Finish \/ WaitTimesOut
  BY <1>13, <1>14 DEF ClientHalfClose, ClientCancel, ShadowExpires, PrimarySendEnded, PrimaryRecvEnded, Finish, WaitTimesOut
<1>15. CASE PrimaryMessage \/ ShadowMessage \/ UNCHANGED vars
  BY <1>13, <1>15 DEF PrimaryMessage, ShadowMessage, vars
<1>16. ASSUME NEW complete, NEW err, NEW status, PrimaryEnds(complete, err, status)
       PROVE  QueueFollows' /\ Nth(shadowLog')
  BY <1>13, <1>16 DEF PrimaryEnds
<1>17. ASSUME NEW complete, NEW skip, NEW err, NEW status, ReceiverEnds(complete, skip, err, status)
       PROVE  QueueFollows' /\ Nth(shadowLog')
  BY <1>13, <1>17 DEF ReceiverEnds
<1> QED
  BY <1>2, <1>3, <1>4, <1>5, <1>6, <1>7, <1>8, <1>9, <1>10, <1>11, <1>12, <1>14, <1>15, <1>16, <1>17,
     Steps

LEMMA NextReplay == TypeInv /\ ReplayInv /\ [Next]_vars => ReplayInv'
BY NextClient, NextSender, NextQueue, NextNotStarted DEF ReplayInv

\* Every step of an RPC is a step of ShadowReplay or leaves its variables alone.
LEMMA StepReplays == TypeInv /\ ReplayInv /\ [Next]_vars => [Replay!Next]_(Replay!vars)
<1> SUFFICES ASSUME TypeInv, ReplayInv, [Next]_vars PROVE [Replay!Next]_(Replay!vars)
  OBVIOUS
<1>t. /\ primaryLog \in Seq(1..MaxMessages) /\ shadowLog \in Seq(1..MaxMessages)
      /\ queue \in Seq(1..MaxMessages) /\ InHand
  BY DEF TypeInv, TypeOK
<1> USE DEF handlerVars, clientVars, primaryVars, policyVars, queueVars, runVars, sendVars, recvVars
<1>1. CASE UNCHANGED <<primaryLog, shadowLog, ReplayStopped>>
  BY <1>1 DEF Replay!vars
<1>2. CASE SendPrimary
  <2>1. /\ cmsg \in 1..MaxMessages /\ primaryLog' = Append(primaryLog, cmsg)
        /\ UNCHANGED <<shadowLog, ReplayStopped>>
    BY <1>2, <1>t DEF SendPrimary, InHand, ReplayStopped
  <2> QED BY <2>1 DEF Replay!Next, Replay!Serve
<1>3. CASE ShadowSend
  <2>1. /\ spc = "send" /\ spc' = "recv" /\ shadowLog' = Append(shadowLog, smsg)
        /\ UNCHANGED <<primaryLog, rpc>>
    BY <1>3 DEF ShadowSend
  <2>2. /\ smsg = Len(shadowLog) + 1 /\ Len(shadowLog) < Len(primaryLog)
    BY <1>t, <2>1 DEF ReplayInv, QueueFollows, Taken
  <2>3. smsg = primaryLog[Len(shadowLog) + 1]
    BY <1>t, <2>2 DEF ReplayInv, Nth
  <2>4. ~ReplayStopped /\ UNCHANGED ReplayStopped
    BY <2>1 DEF ReplayStopped
  <2> QED BY <2>1, <2>2, <2>3, <2>4 DEF Replay!Next, Replay!ReplayNext
<1>4. ASSUME NEW err, spc \in {"recv", "send"}, SenderEnds(err) PROVE Replay!Next
  <2>1. ~ReplayStopped /\ ReplayStopped' = TRUE /\ UNCHANGED <<primaryLog, shadowLog>>
    BY <1>4 DEF SenderEnds, ReplayStopped
  <2> QED BY <2>1 DEF Replay!Next, Replay!Stop
<1>5. CASE ShadowOpenFailed
  <2>1. /\ rpc = "dial" /\ rpc' = "finish" /\ UNCHANGED <<primaryLog, shadowLog, spc>>
    BY <1>5 DEF ShadowOpenFailed
  <2>2. spc = "none"
    BY <2>1 DEF ReplayInv, SenderStarted
  <2>3. ~ReplayStopped /\ ReplayStopped' = TRUE
    BY <2>1, <2>2 DEF ReplayStopped
  <2> QED BY <2>1, <2>3 DEF Replay!Next, Replay!Stop
<1>6. CASE PrepareShadow
  <2>1. rpc = "none" /\ rpc' \in {"none", "dial"} /\ UNCHANGED <<primaryLog, shadowLog, spc>>
    BY <1>6 DEF PrepareShadow, ReplayInv, NotStarted
  <2> QED BY <1>1, <2>1 DEF ReplayStopped
<1>7. CASE ShadowOpened
  <2>1. /\ rpc = "dial" /\ rpc' = "wait" /\ spc' = "recv" /\ UNCHANGED <<primaryLog, shadowLog>>
    BY <1>7 DEF ShadowOpened
  <2>2. spc = "none"
    BY <2>1 DEF ReplayInv, SenderStarted
  <2> QED BY <1>1, <2>1, <2>2 DEF ReplayStopped
<1>8. CASE RunTakesSend \/ RunTakesRecv \/ RunExpires \/ RunMerges
  <2>1. rpc \in {"wait", "merge"} /\ UNCHANGED <<primaryLog, shadowLog, spc>>
    BY <1>8 DEF RunTakesSend, RunTakesRecv, RunExpires, RunMerges
  <2>2. spc # "none"
    BY <2>1 DEF ReplayInv, SenderStarted
  <2> QED BY <1>1, <2>1, <2>2 DEF ReplayStopped
<1>9. CASE RunCompletes
  BY <1>1, <1>9 DEF RunCompletes, ReplayStopped
<1>10. CASE SenderTakes
  BY <1>1, <1>10 DEF SenderTakes, ReplayStopped
<1>11. CASE UNCHANGED <<primaryLog, shadowLog, spc, rpc>>
  BY <1>1, <1>11 DEF ReplayStopped
<1>12. CASE ClientHalfClose \/ ClientCancel \/ ClientMessage \/ ShadowExpires
           \/ PrimaryOpened \/ PrimaryOpenFailed \/ PrimarySendEnded
           \/ PrimaryRecvEnded \/ Finish \/ WaitTimesOut
  BY <1>11, <1>12 DEF ClientHalfClose, ClientCancel, ClientMessage, ShadowExpires, PrimaryOpened, PrimaryOpenFailed, PrimarySendEnded, PrimaryRecvEnded, Finish, WaitTimesOut
<1>13. CASE OfferShadow \/ PrimaryMessage \/ ShadowMessage \/ UNCHANGED vars
  BY <1>11, <1>13 DEF OfferShadow, PrimaryMessage, ShadowMessage, vars
<1>14. ASSUME NEW err, Return(err) PROVE [Replay!Next]_(Replay!vars)
  BY <1>11, <1>14 DEF Return
<1>15. ASSUME NEW complete, NEW err, NEW status, PrimaryEnds(complete, err, status)
       PROVE  [Replay!Next]_(Replay!vars)
  BY <1>11, <1>15 DEF PrimaryEnds
<1>16. ASSUME NEW complete, NEW skip, NEW err, NEW status, ReceiverEnds(complete, skip, err, status)
       PROVE  [Replay!Next]_(Replay!vars)
  BY <1>11, <1>16 DEF ReceiverEnds
<1> QED
  BY <1>2, <1>3, <1>4, <1>5, <1>6, <1>7, <1>8, <1>9, <1>10, <1>12, <1>13, <1>14, <1>15, <1>16, Steps

\* The RPC implements ShadowReplay: the shadow is sent the primary's messages in order
\* and without a gap, each after the primary, until sendRequests stops for good
\* (forwardClientToPrimary, Offer, sendRequests), for any number of messages and any
\* size of the queue.
THEOREM ReplayCorrect == Spec => ImplementsReplay
<1>1. Init => Replay!Init
  BY DEF Init, Replay!Init, ReplayStopped
<1> QED
  BY <1>1, InitType, NextType, InitReplay, NextReplay, StepReplays, PTL
     DEF Spec, ImplementsReplay, Replay!Spec

================================================================================
