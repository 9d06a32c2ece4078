---------------------------- MODULE MilterConnProofs ----------------------------
(***************************************************************************)
(* Proofs about MilterConn for any number of frames, any queue capacity    *)
(* and any set of commands and replies: type correctness, the order of the *)
(* shadow's frames, and that the connection implements ShadowReplay.       *)
(***************************************************************************)
EXTENDS MilterConn, SequenceTheorems, TLAPS

--------------------------------------------------------------------------------
(* Facts about the operators of the model. *)

LEMMA MetricResultType ==
  ASSUME NEW e, NEW s, NEW r, NEW c
  PROVE  milterComparisonMetricResult(e, s, r, c) \in Results
  BY DEF milterComparisonMetricResult, Results

LEMMA CodesType ==
  ASSUME NEW r \in Seq(Replies)
  PROVE  Codes(r) \in Seq(ReplyCodes)
<1>1. DOMAIN r = 1..Len(r) /\ Len(r) \in Nat
  OBVIOUS
<1>2. \A i \in 1..Len(r) : r[i] \in Replies
  BY ElementOfSeq
<1>3. \A i \in 1..Len(r) : r[i].cmd \in ReplyCodes
  BY <1>2 DEF Replies
<1>4. Codes(r) \in [1..Len(r) -> ReplyCodes]
  BY <1>1, <1>3 DEF Codes
<1> QED BY <1>1, <1>4, SeqDef

LEMMA VerdictType ==
  ASSUME NEW id \in 0..MaxFrames, NEW res \in Results, verdicts \in Seq(Verdicts),
         Verdict(id, res)
  PROVE  verdicts' \in Seq(Verdicts)
<1>1. [id |-> id, result |-> res] \in Verdicts
  BY DEF Verdicts
<1> QED BY <1>1 DEF Verdict

LEMMA SkipVerdictType ==
  ASSUME NEW f \in Frames, verdicts \in Seq(Verdicts), SkipVerdict(f.id)
  PROVE  verdicts' \in Seq(Verdicts)
<1>1. f.id \in 0..MaxFrames
  BY ConnAssumption DEF Frames
<1> QED BY <1>1, MetricResultType, VerdictType DEF SkipVerdict

LEMMA SendType ==
  ASSUME NEW b \in Backends, NEW f \in Frames
  PROVE  Send(b, f) \in Backends
<1>1. b.log \in Seq(Frames) /\ b.due \in SUBSET Frames
  BY DEF Backends
<1>2. Append(b.log, f) \in Seq(Frames)
  BY <1>1
<1>3. (IF Expects(f) THEN b.due \cup {f} ELSE b.due) \in SUBSET Frames
  BY <1>1
<1> QED BY <1>2, <1>3 DEF Send, Backends

LEMMA ReadReplyType ==
  ASSUME NEW b \in Backends, b.out # <<>>
  PROVE  ReadReply(b) \in Backends /\ Head(b.out) \in Replies
<1>1. b.out \in Seq(Replies)
  BY DEF Backends
<1>2. Tail(b.out) \in Seq(Replies) /\ Head(b.out) \in Replies
  BY <1>1
<1> QED BY <1>2 DEF ReadReply, Backends

LEMMA AnswerType ==
  ASSUME NEW b \in Backends, NEW f \in b.due, NEW r \in BackendReplies(f.cmd)
  PROVE  Answer(b, f, r) \in Backends
<1>1. f \in Frames /\ f.id \in 1..MaxFrames
  BY DEF Backends, Frames
<1>2. r \in Seq(ReplyCodes)
  <2>1. CASE f.cmd = "O"
    <3>1. r = <<"O">>
      BY <2>1 DEF BackendReplies
    <3>2. <<"O">> \in Seq(ReplyCodes)
      BY RepliesAssumption
    <3> QED BY <3>1, <3>2
  <2>2. CASE f.cmd # "O"
    BY <2>2, RepliesAssumption DEF BackendReplies
  <2> QED BY <2>1, <2>2
<1> DEFINE tagged == [i \in DOMAIN r |-> [id |-> f.id, cmd |-> r[i]]]
<1>3. tagged \in Seq(Replies)
  <2>1. DOMAIN r = 1..Len(r) /\ Len(r) \in Nat /\ \A i \in 1..Len(r) : r[i] \in ReplyCodes
    BY <1>2
  <2>2. tagged \in [1..Len(r) -> Replies]
    BY <1>1, <2>1 DEF Replies
  <2> QED BY <2>1, <2>2, SeqDef
<1>4. b.out \o tagged \in Seq(Replies)
  BY <1>3 DEF Backends
<1>5. b.due \ {f} \in SUBSET Frames
  BY DEF Backends
<1> QED BY <1>4, <1>5 DEF Answer, Backends

--------------------------------------------------------------------------------
(* Type correctness. *)

\* The handler's and the worker's current frames are real while they are in use.
CurrentFrames ==
  /\ hpc \in {"send", "receive", "write", "submit"} => frame \in Frames
  /\ wpc \in {"dial", "wait", "abort"} => work \in Works
  /\ gpc \in {"send", "receive"} => work \in Works

TypeInv == TypeOK /\ CurrentFrames

LEMMA InitType == Init => TypeInv
<1> SUFFICES ASSUME Init PROVE TypeInv
  OBVIOUS
<1>1. NewBackend \in Backends
  BY DEF NewBackend, Backends
<1>2. /\ clientOpen \in BOOLEAN /\ enabled \in BOOLEAN /\ closed \in BOOLEAN
      /\ unavailable \in BOOLEAN /\ gerr \in BOOLEAN
  BY Zenon DEF Init
<1> QED BY <1>1, <1>2, ConnAssumption DEF Init, TypeInv, TypeOK, CurrentFrames

\* Writing a log line or a queue element keeps its type.
LEMMA WorkType ==
  ASSUME NEW f \in Frames, NEW r \in Seq(Replies)
  PROVE  [frame |-> f, raw |-> Codes(r)] \in Works
  BY CodesType DEF Works

LEMMA WorkFrame ==
  ASSUME NEW w \in Works
  PROVE  w.frame \in Frames
  BY DEF Works

LEMMA CompleteType ==
  ASSUME TypeInv, work \in Works, NEW e \in BOOLEAN, Complete(e)
  PROVE  TypeInv'
<1>1. work.frame \in Frames /\ work.frame.id \in 0..MaxFrames
  BY WorkFrame, ConnAssumption DEF Frames
<1>2. verdicts' \in Seq(Verdicts)
  BY <1>1, MetricResultType, VerdictType DEF Complete, TypeInv, TypeOK
<1> QED BY <1>2 DEF Complete, TypeInv, TypeOK, CurrentFrames, clientVars, handlerVars, queueVars, goVars

LEMMA NextType == TypeInv /\ [Next]_vars => TypeInv'
<1> SUFFICES ASSUME TypeInv, [Next]_vars PROVE TypeInv'
  OBVIOUS
<1> USE DEF TypeInv, TypeOK, CurrentFrames, clientVars, handlerVars, queueVars, workerVars, goVars
<1>1. CASE ClientClose
  <2>1. clientOpen' \in BOOLEAN
    BY <1>1, Zenon DEF ClientClose
  <2> QED BY <1>1, <2>1 DEF ClientClose
<1>2. CASE PrimaryAnswers
  BY <1>2, AnswerType DEF PrimaryAnswers
<1>3. CASE ShadowAnswers
  BY <1>3, AnswerType DEF ShadowAnswers
<1>4. CASE ReadFrame
  BY <1>4, ConnAssumption DEF ReadFrame, Frames
<1>5. CASE ReadBroken
  BY <1>5 DEF ReadBroken, Leave
<1>6. CASE PrimaryReceiveFailed
  BY <1>6 DEF PrimaryReceiveFailed, Leave
<1>7. CASE DialPrimary
  <2>1. enabled' \in BOOLEAN
    BY <1>7, Zenon DEF DialPrimary, ShadowEnabled
  <2> QED BY <1>7, <2>1 DEF DialPrimary
<1>8. CASE DialPrimaryFailed
  BY <1>8 DEF DialPrimaryFailed
<1>9. CASE ReadClosed
  BY <1>9 DEF ReadClosed, Leave
<1>10. CASE PrimarySend
  BY <1>10, SendType DEF PrimarySend
<1>11. CASE PrimarySendFailed
  BY <1>11 DEF PrimarySendFailed, Leave
<1>12. CASE PrimaryReceive
  BY <1>12, ReadReplyType DEF PrimaryReceive
<1>13. CASE writePrimaryFrame
  <2>1. [id |-> frame.id, raw |-> raw] \in Turns
    BY <1>13 DEF writePrimaryFrame, Turns, Frames
  <2> QED BY <1>13, <2>1 DEF writePrimaryFrame
<1>14. CASE WriteFailed
  BY <1>14 DEF WriteFailed, Leave
<1>15. CASE Submit
  <2>1. [frame |-> frame, raw |-> Codes(raw)] \in Works
    BY <1>15, WorkType DEF Submit
  <2>2. queue' \in Seq(Works) /\ Len(queue') <= QueueCapacity /\ closed' \in BOOLEAN
    BY <1>15, <2>1, ConnAssumption DEF Submit, Enqueue, Accepts
  <2>3. verdicts' \in Seq(Verdicts)
    BY <1>15, SkipVerdictType DEF Submit
  <2> QED BY <1>15, <2>2, <2>3 DEF Submit
<1>16. CASE FinishPrimaryOnly
  BY <1>16, SkipVerdictType DEF FinishPrimaryOnly
<1>17. CASE CloseWorker
  BY <1>17 DEF CloseWorker
<1>18. CASE CloseConn
  BY <1>18 DEF CloseConn
<1>19. CASE WorkerSkips
  <2>1. Head(queue) \in Works /\ Tail(queue) \in Seq(Works) /\ Len(Tail(queue)) <= QueueCapacity
    BY <1>19, ConnAssumption DEF WorkerSkips, Take
  <2>2. verdicts' \in Seq(Verdicts)
    BY <1>19, <2>1, WorkFrame, SkipVerdictType DEF WorkerSkips
  <2> QED BY <1>19, <2>1, <2>2 DEF WorkerSkips, Take
<1>20. CASE WorkerOpens
  <2>1. Head(queue) \in Works /\ Tail(queue) \in Seq(Works) /\ Len(Tail(queue)) <= QueueCapacity
    BY <1>20, ConnAssumption DEF WorkerOpens, Take
  <2> QED BY <1>20, <2>1 DEF WorkerOpens, Take
<1>21. CASE WorkerRuns
  <2>1. Head(queue) \in Works /\ Tail(queue) \in Seq(Works) /\ Len(Tail(queue)) <= QueueCapacity
    BY <1>21, ConnAssumption DEF WorkerRuns, Take
  <2>2. gerr' \in BOOLEAN
    BY <1>21, Zenon DEF WorkerRuns, StartEvent
  <2> QED BY <1>21, <2>1, <2>2 DEF WorkerRuns, Take, StartEvent
<1>22. CASE ShadowDialled
  <2>1. gerr' \in BOOLEAN
    BY <1>22, Zenon DEF ShadowDialled, StartEvent
  <2> QED BY <1>22, <2>1 DEF ShadowDialled, StartEvent
<1>23. CASE ShadowDialFailed
  <2>1. verdicts' \in Seq(Verdicts)
    BY <1>23, WorkFrame, SkipVerdictType DEF ShadowDialFailed
  <2> QED BY <1>23, <2>1 DEF ShadowDialFailed
<1>24. CASE WorkerCompletes
  BY <1>24, CompleteType DEF WorkerCompletes
<1>25. CASE WorkerTimesOut
  BY <1>25 DEF WorkerTimesOut
<1>26. CASE WorkerAborts
  BY <1>26, CompleteType DEF WorkerAborts
<1>27. CASE WorkerExits
  BY <1>27 DEF WorkerExits
<1>28. CASE ShadowSend
  <2>1. shadow' \in Backends
    BY <1>28, WorkFrame, SendType DEF ShadowSend
  <2> QED BY <1>28, <2>1 DEF ShadowSend
<1>29. CASE ShadowReceive
  BY <1>29, ReadReplyType DEF ShadowReceive
<1>30. CASE ShadowOpFailed
  BY <1>30 DEF ShadowOpFailed
<1>31. CASE Done
  BY <1>31 DEF Done, vars
<1>32. CASE UNCHANGED vars
  BY <1>32 DEF vars
<1> QED
  BY <1>1, <1>2, <1>3, <1>4, <1>5, <1>6, <1>7, <1>8, <1>9, <1>10, <1>11, <1>12, <1>13, <1>14, <1>15, <1>16, <1>17, <1>18, <1>19, <1>20, <1>21, <1>22, <1>23, <1>24, <1>25, <1>26, <1>27, <1>28, <1>29, <1>30, <1>31, <1>32
     DEF Next, HandlerStep, WorkerStep, GoroutineStep

\* TypeOK is an invariant for any number of frames and any queue capacity; in
\* particular the worker's queue never holds more than its capacity.
THEOREM TypeCorrect == Spec => []TypeOK
<1>1. TypeInv => TypeOK
  BY DEF TypeInv
<1> QED BY <1>1, InitType, NextType, PTL DEF Spec

--------------------------------------------------------------------------------
(* The order of the shadow's frames. *)

\* The work item in hand has not been sent to the shadow yet.
Unsent == wpc = "dial" \/ (wpc \in {"wait", "abort"} /\ gpc = "send")

\* Frames that left the queue and were sent, or are about to be.
Base == IF Unsent THEN Len(shadow.log) + 1 ELSE Len(shadow.log)

\* The queue q holds the frames of the log that follow its first n.
Follows(q, log, n) ==
  \A j \in 1..Len(q) : n + j <= Len(log) /\ q[j].frame = log[n + j]

\* The replay has not failed so far.
Sound == ~unavailable /\ wpc # "abort" /\ ~(wpc = "wait" /\ gerr)

\* The current frame is in the primary's log but not yet submitted.
Handling == hpc \in {"receive", "write", "submit"}

\* What the queue holds is the part of the primary's log that follows the frames
\* the shadow has; a session that can still be written to belongs to the item in
\* hand.
OrderInv ==
  /\ ShadowPrefix
  /\ hpc = "dial" => primary.log = <<>> /\ shadow.log = <<>> /\ queue = <<>> /\ wpc = "none"
  /\ Handling => Len(primary.log) > 0 /\ frame = primary.log[Len(primary.log)]
  /\ Unsent => /\ Len(shadow.log) < Len(primary.log)
               /\ work.frame = primary.log[Len(shadow.log) + 1]
  /\ Sound => Follows(queue, primary.log, Base)
  /\ Sound /\ enabled /\ ~closed =>
       /\ Handling => Base + Len(queue) + 1 = Len(primary.log)
       /\ hpc \in {"read", "send"} => Base + Len(queue) = Len(primary.log)
  /\ wpc = "dial" => session = "nil"
  /\ unavailable => session # "open" /\ wpc \notin {"dial", "wait", "abort"}
  /\ session = "open" /\ gpc \in {"send", "receive"} => wpc \in {"wait", "abort"}

LEMMA SendLog ==
  ASSUME NEW b \in Backends, NEW f \in Frames
  PROVE  Send(b, f).log = Append(b.log, f)
  BY DEF Send, Backends

LEMMA AnswerLog ==
  ASSUME NEW b \in Backends, NEW f, NEW r
  PROVE  Answer(b, f, r).log = b.log
  BY DEF Answer, Backends

LEMMA ReadReplyLog ==
  ASSUME NEW b \in Backends
  PROVE  ReadReply(b).log = b.log
  BY DEF ReadReply, Backends

LEMMA LogTypes ==
  ASSUME TypeInv
  PROVE  /\ primary \in Backends /\ primary.log \in Seq(Frames)
         /\ shadow \in Backends /\ shadow.log \in Seq(Frames)
         /\ queue \in Seq(Works)
  BY DEF TypeInv, TypeOK, Backends

\* The three ways in which the queue and the primary's log move.
LEMMA FollowsServe ==
  ASSUME NEW q \in Seq(Works), NEW log \in Seq(Frames), NEW n \in Nat, NEW f \in Frames,
         Follows(q, log, n)
  PROVE  Follows(q, Append(log, f), n)
<1> SUFFICES ASSUME NEW j \in 1..Len(q)
             PROVE  /\ n + j <= Len(Append(log, f))
                    /\ q[j].frame = Append(log, f)[n + j]
  BY DEF Follows
<1>1. n + j \in 1..Len(log) /\ q[j].frame = log[n + j]
  BY DEF Follows
<1> QED BY <1>1

LEMMA FollowsSubmit ==
  ASSUME NEW q \in Seq(Works), NEW log \in Seq(Frames), NEW n \in Nat, NEW w \in Works,
         Follows(q, log, n), n + Len(q) + 1 = Len(log), w.frame = log[Len(log)]
  PROVE  Follows(Append(q, w), log, n)
<1> SUFFICES ASSUME NEW j \in 1..Len(Append(q, w))
             PROVE  n + j <= Len(log) /\ Append(q, w)[j].frame = log[n + j]
  BY DEF Follows
<1>1. CASE j = Len(q) + 1
  BY <1>1
<1>2. CASE j # Len(q) + 1
  <2>1. j \in 1..Len(q) /\ Append(q, w)[j] = q[j]
    BY <1>2
  <2> QED BY <2>1 DEF Follows
<1> QED BY <1>1, <1>2

LEMMA FollowsTake ==
  ASSUME NEW q \in Seq(Works), NEW log \in Seq(Frames), NEW n \in Nat, q # <<>>,
         Follows(q, log, n)
  PROVE  /\ Head(q).frame = log[n + 1] /\ n + 1 <= Len(log)
         /\ Follows(Tail(q), log, n + 1) /\ Len(Tail(q)) = Len(q) - 1
<1>1. 1 \in 1..Len(q) /\ Head(q) = q[1] /\ Len(Tail(q)) = Len(q) - 1
  OBVIOUS
<1>2. ASSUME NEW j \in 1..Len(Tail(q))
      PROVE  (n + 1) + j <= Len(log) /\ Tail(q)[j].frame = log[(n + 1) + j]
  <2>1. j + 1 \in 1..Len(q) /\ Tail(q)[j] = q[j + 1] /\ n + (j + 1) = (n + 1) + j
    BY <1>1
  <2>2. n + (j + 1) <= Len(log) /\ q[j + 1].frame = log[n + (j + 1)]
    BY <2>1 DEF Follows
  <2> QED BY <2>1, <2>2
<1> QED BY <1>1, <1>2 DEF Follows

LEMMA InitOrder == Init => OrderInv
  BY DEF Init, OrderInv, ShadowPrefix, NewBackend, Handling, Unsent, Follows

LEMMA NextOrder == TypeInv /\ OrderInv /\ [Next]_vars => OrderInv'
<1> SUFFICES ASSUME TypeInv, OrderInv, [Next]_vars PROVE OrderInv'
  OBVIOUS
<1>0. /\ primary \in Backends /\ primary.log \in Seq(Frames)
      /\ shadow \in Backends /\ shadow.log \in Seq(Frames)
      /\ queue \in Seq(Works)
      /\ enabled \in BOOLEAN /\ closed \in BOOLEAN /\ gerr \in BOOLEAN
      /\ unavailable \in BOOLEAN /\ CurrentFrames
  BY LogTypes DEF TypeInv, TypeOK
<1> USE <1>0 DEF OrderInv, ShadowPrefix, Handling, Unsent, Base, Sound, CurrentFrames,
                 clientVars, handlerVars, queueVars, workerVars, goVars
<1>1. CASE ClientClose
  BY <1>1 DEF ClientClose
<1>2. CASE PrimaryAnswers
  <2>1. primary'.log = primary.log
    BY <1>2, AnswerLog DEF PrimaryAnswers
  <2> QED BY <1>2, <2>1 DEF PrimaryAnswers
<1>3. CASE ShadowAnswers
  <2>1. shadow'.log = shadow.log
    BY <1>3, AnswerLog DEF ShadowAnswers
  <2> QED BY <1>3, <2>1 DEF ShadowAnswers
<1>4. CASE ReadFrame
  BY <1>4 DEF ReadFrame
<1>5. CASE ReadBroken
  BY <1>5 DEF ReadBroken, Leave
<1>6. CASE PrimaryReceiveFailed
  BY <1>6 DEF PrimaryReceiveFailed, Leave
<1>7. CASE DialPrimary
  BY <1>7 DEF DialPrimary
<1>8. CASE DialPrimaryFailed
  BY <1>8 DEF DialPrimaryFailed
<1>9. CASE ReadClosed
  BY <1>9 DEF ReadClosed, Leave
<1>10. CASE PrimarySend
  <2>1. /\ frame \in Frames /\ primary'.log = Append(primary.log, frame)
        /\ UNCHANGED <<shadow, queue, work, wpc, gpc, gerr, unavailable, session, enabled, closed>>
    BY <1>10, SendLog DEF PrimarySend
  <2>2. /\ Len(primary'.log) = Len(primary.log) + 1
        /\ primary'.log[Len(primary.log) + 1] = frame
        /\ \A i \in 1..Len(primary.log) : primary'.log[i] = primary.log[i]
    BY <2>1
  <2>3. ShadowPrefix'
    BY <2>1, <2>2
  <2>4. Unsent' => /\ Len(shadow'.log) < Len(primary'.log)
                   /\ work'.frame = primary'.log[Len(shadow'.log) + 1]
    BY <2>1, <2>2
  <2>5. Base' = Base /\ Base \in Nat /\ (Sound' <=> Sound)
    BY <2>1
  <2>6. Sound' => Follows(queue', primary'.log, Base')
    BY <2>1, <2>5, FollowsServe
  <2>7. Handling' => Len(primary'.log) > 0 /\ frame' = primary'.log[Len(primary'.log)]
    BY <1>10, <2>2 DEF PrimarySend
  <2>8. Sound' /\ enabled' /\ ~closed' =>
          /\ Handling' => Base' + Len(queue') + 1 = Len(primary'.log)
          /\ hpc' \in {"read", "send"} => Base' + Len(queue') = Len(primary'.log)
    <3>1. Sound /\ enabled /\ ~closed => Base + Len(queue) = Len(primary.log)
      BY <1>10 DEF PrimarySend
    <3>2. hpc' \notin {"read", "send"}
      BY <1>10 DEF PrimarySend
    <3> HIDE DEF Base, Sound, OrderInv
    <3> QED BY <2>1, <2>2, <2>5, <3>1, <3>2
  <2> QED BY <1>10, <2>1, <2>3, <2>4, <2>6, <2>7, <2>8 DEF PrimarySend
<1>11. CASE PrimarySendFailed
  BY <1>11 DEF PrimarySendFailed, Leave
<1>12. CASE PrimaryReceive
  BY <1>12, ReadReplyLog DEF PrimaryReceive
<1>13. CASE writePrimaryFrame
  BY <1>13 DEF writePrimaryFrame
<1>14. CASE WriteFailed
  BY <1>14 DEF WriteFailed, Leave
<1>15. CASE Submit
  <2>1. CASE Accepts
    <3> DEFINE w == [frame |-> frame, raw |-> Codes(raw)]
    <3>1. w \in Works /\ w.frame = frame
      BY <1>15, WorkType DEF Submit, TypeInv, TypeOK
    <3>2. queue' = Append(queue, w) /\ closed' = closed /\ ~closed
      BY <1>15, <2>1 DEF Submit, Enqueue, Accepts
    <3> HIDE DEF w
    <3>3. Base' = Base /\ Base \in Nat /\ (Sound' <=> Sound) /\ primary' = primary
      BY <1>15 DEF Submit
    <3>4. Sound' => Follows(queue', primary'.log, Base')
      BY <1>15, <3>1, <3>2, <3>3, FollowsSubmit DEF Submit
    <3>5. Len(queue') = Len(queue) + 1
      BY <3>1, <3>2
    <3>6. Sound' /\ enabled' => Base' + Len(queue') = Len(primary'.log)
      <4>1. Sound /\ enabled => Base + Len(queue) + 1 = Len(primary.log)
        BY <1>15, <3>2 DEF Submit
      <4>2. enabled' = enabled /\ Len(queue) \in Nat
        BY <1>15 DEF Submit
      <4> HIDE DEF Base, Sound, OrderInv
      <4> QED BY <3>3, <3>5, <4>1, <4>2
    <3> QED BY <1>15, <3>4, <3>6 DEF Submit
  <2>2. CASE ~Accepts
    BY <1>15, <2>2 DEF Submit, Enqueue
  <2> QED BY <2>1, <2>2
<1>16. CASE FinishPrimaryOnly
  BY <1>16 DEF FinishPrimaryOnly
<1>17. CASE CloseWorker
  BY <1>17 DEF CloseWorker
<1>18. CASE CloseConn
  BY <1>18 DEF CloseConn
<1>19. CASE WorkerSkips
  BY <1>19 DEF WorkerSkips, Take
<1>20. CASE WorkerOpens
  <2>1. /\ work' = Head(queue) /\ queue' = Tail(queue) /\ queue # <<>>
        /\ UNCHANGED <<primary, shadow, hpc, frame, enabled, closed, unavailable>>
    BY <1>20 DEF WorkerOpens, Take
  <2>2. /\ Sound /\ Base = Len(shadow.log) /\ Base \in Nat /\ Unsent' /\ Base' = Len(shadow.log) + 1
    BY <1>20, <2>1 DEF WorkerOpens, Take
  <2>3. /\ work'.frame = primary.log[Base + 1] /\ Base + 1 <= Len(primary.log)
        /\ Follows(queue', primary.log, Base + 1) /\ Len(queue') = Len(queue) - 1
    BY <2>1, <2>2, FollowsTake
  <2>4. Sound' /\ enabled' /\ ~closed' =>
          /\ Handling' => Base' + Len(queue') + 1 = Len(primary'.log)
          /\ hpc' \in {"read", "send"} => Base' + Len(queue') = Len(primary'.log)
    <3>1. enabled /\ ~closed =>
            /\ Handling => Base + Len(queue) + 1 = Len(primary.log)
            /\ hpc \in {"read", "send"} => Base + Len(queue) = Len(primary.log)
      BY <2>2
    <3>2. (Handling' <=> Handling) /\ Base' = Base + 1 /\ Len(queue) \in Nat
      BY <2>1, <2>2
    <3> HIDE DEF Base, Sound, OrderInv, Handling, Unsent
    <3>3. Base' + Len(queue') = Base + Len(queue)
      BY <2>2, <2>3, <3>2
    <3>4. hpc' = hpc /\ enabled' = enabled /\ closed' = closed /\ primary' = primary
      BY <2>1
    <3> QED BY <3>1, <3>2, <3>3, <3>4
  <2> QED BY <1>20, <2>1, <2>2, <2>3, <2>4 DEF WorkerOpens, Take
<1>21. CASE WorkerRuns
  <2>1. /\ work' = Head(queue) /\ queue' = Tail(queue) /\ queue # <<>>
        /\ UNCHANGED <<primary, shadow, hpc, frame, enabled, closed, unavailable>>
    BY <1>21 DEF WorkerRuns, Take
  <2>2. /\ Sound /\ Base = Len(shadow.log) /\ Base \in Nat /\ Unsent' /\ Base' = Len(shadow.log) + 1
    BY <1>21, <2>1 DEF WorkerRuns, Take, StartEvent
  <2>3. /\ work'.frame = primary.log[Base + 1] /\ Base + 1 <= Len(primary.log)
        /\ Follows(queue', primary.log, Base + 1) /\ Len(queue') = Len(queue) - 1
    BY <2>1, <2>2, FollowsTake
  <2>4. Sound' /\ enabled' /\ ~closed' =>
          /\ Handling' => Base' + Len(queue') + 1 = Len(primary'.log)
          /\ hpc' \in {"read", "send"} => Base' + Len(queue') = Len(primary'.log)
    <3>1. enabled /\ ~closed =>
            /\ Handling => Base + Len(queue) + 1 = Len(primary.log)
            /\ hpc \in {"read", "send"} => Base + Len(queue) = Len(primary.log)
      BY <2>2
    <3>2. (Handling' <=> Handling) /\ Base' = Base + 1 /\ Len(queue) \in Nat
      BY <2>1, <2>2
    <3> HIDE DEF Base, Sound, OrderInv, Handling, Unsent
    <3>3. Base' + Len(queue') = Base + Len(queue)
      BY <2>2, <2>3, <3>2
    <3>4. hpc' = hpc /\ enabled' = enabled /\ closed' = closed /\ primary' = primary
      BY <2>1
    <3> QED BY <3>1, <3>2, <3>3, <3>4
  <2> QED BY <1>21, <2>1, <2>2, <2>3, <2>4 DEF WorkerRuns, Take, StartEvent
<1>22. CASE ShadowDialled
  BY <1>22 DEF ShadowDialled, StartEvent
<1>23. CASE ShadowDialFailed
  BY <1>23 DEF ShadowDialFailed
<1>24. CASE WorkerCompletes
  BY <1>24 DEF WorkerCompletes, Complete
<1>25. CASE WorkerTimesOut
  BY <1>25 DEF WorkerTimesOut
<1>26. CASE WorkerAborts
  BY <1>26 DEF WorkerAborts, Complete
<1>27. CASE WorkerExits
  BY <1>27 DEF WorkerExits
<1>28. CASE ShadowSend
  <2>1. /\ wpc \in {"wait", "abort"} /\ Unsent /\ work.frame \in Frames
        /\ shadow'.log = Append(shadow.log, work.frame)
        /\ UNCHANGED <<primary, queue, work, wpc>>
    BY <1>28, SendLog, WorkFrame DEF ShadowSend
  <2>2. /\ Len(shadow'.log) = Len(shadow.log) + 1
        /\ shadow'.log[Len(shadow.log) + 1] = work.frame
        /\ \A i \in 1..Len(shadow.log) : shadow'.log[i] = shadow.log[i]
    BY <2>1
  <2>3. ShadowPrefix'
    BY <2>1, <2>2
  <2>4. ~Unsent'
    BY <1>28, <2>1 DEF ShadowSend
  <2>5. Base' = Base
    BY <2>1, <2>2, <2>4
  <2> QED BY <1>28, <2>1, <2>3, <2>4, <2>5 DEF ShadowSend
<1>29. CASE ShadowReceive
  BY <1>29, ReadReplyLog DEF ShadowReceive
<1>30. CASE ShadowOpFailed
  BY <1>30 DEF ShadowOpFailed
<1>31. CASE Done
  BY <1>31 DEF Done, vars
<1>32. CASE UNCHANGED vars
  BY <1>32 DEF vars
<1> QED
  BY <1>1, <1>2, <1>3, <1>4, <1>5, <1>6, <1>7, <1>8, <1>9, <1>10, <1>11, <1>12, <1>13, <1>14, <1>15, <1>16, <1>17, <1>18, <1>19, <1>20, <1>21, <1>22, <1>23, <1>24, <1>25, <1>26, <1>27, <1>28, <1>29, <1>30, <1>31, <1>32
     DEF Next, HandlerStep, WorkerStep, GoroutineStep

\* The invariant that carries the order is itself an invariant.
LEMMA Ordered == Spec => [](TypeInv /\ OrderInv)
  BY InitType, NextType, InitOrder, NextOrder, PTL DEF Spec

\* For every capacity and every interleaving the shadow Milter has received a
\* gap-free prefix of the frames the primary received.
THEOREM PrefixCorrect == Spec => []ShadowPrefix
<1>1. OrderInv => ShadowPrefix
  BY DEF OrderInv
<1> QED BY <1>1, Ordered, PTL

--------------------------------------------------------------------------------
(* MilterConn implements ShadowReplay. *)

LEMMA InitReplay == Init => Replay!Init
  BY DEF Init, Replay!Init, NewBackend

\* Every step of the connection is a step of ShadowReplay or leaves it alone.
LEMMA StepReplay == TypeInv /\ OrderInv /\ [Next]_vars => [Replay!Next]_(Replay!vars)
<1> SUFFICES ASSUME TypeInv, OrderInv, [Next]_vars PROVE [Replay!Next]_(Replay!vars)
  OBVIOUS
<1>0. /\ primary \in Backends /\ primary.log \in Seq(Frames)
      /\ shadow \in Backends /\ shadow.log \in Seq(Frames)
      /\ unavailable \in BOOLEAN /\ CurrentFrames
  BY LogTypes DEF TypeInv, TypeOK
<1> USE DEF clientVars, handlerVars, queueVars, workerVars, goVars
<1>1. CASE PrimarySend
  <2>1. frame \in Frames /\ primary'.log = Append(primary.log, frame)
    BY <1>0, <1>1, SendLog DEF PrimarySend, CurrentFrames
  <2>2. UNCHANGED <<shadow, unavailable>>
    BY <1>1 DEF PrimarySend
  <2> QED BY <2>1, <2>2 DEF Replay!Next, Replay!Serve
<1>2. CASE ShadowSend
  <2>1. /\ Unsent /\ ~unavailable /\ work.frame \in Frames
        /\ shadow'.log = Append(shadow.log, work.frame)
    BY <1>0, <1>2, SendLog, WorkFrame DEF ShadowSend, OrderInv, Unsent, CurrentFrames
  <2>2. /\ Len(shadow.log) < Len(primary.log)
        /\ work.frame = primary.log[Len(shadow.log) + 1]
    BY <2>1 DEF OrderInv
  <2>3. UNCHANGED <<primary, unavailable>>
    BY <1>2 DEF ShadowSend
  <2> QED BY <2>1, <2>2, <2>3 DEF Replay!Next, Replay!ReplayNext
<1>3. CASE ShadowDialFailed
  <2>1. ~unavailable /\ unavailable' = TRUE /\ UNCHANGED <<primary, shadow>>
    BY <1>3 DEF ShadowDialFailed, OrderInv
  <2> QED BY <2>1 DEF Replay!Next, Replay!Stop
<1>4. ASSUME NEW e \in BOOLEAN, Complete(e), wpc \in {"wait", "abort"}
      PROVE  [Replay!Next]_(Replay!vars)
  <2>1. ~unavailable /\ unavailable' = e /\ UNCHANGED <<primary, shadow>>
    BY <1>0, <1>4 DEF Complete, OrderInv
  <2>2. CASE e
    <3>1. unavailable' = TRUE
      BY <2>1, <2>2
    <3> QED BY <2>1, <3>1 DEF Replay!Next, Replay!Stop
  <2>3. CASE ~e
    BY <1>0, <2>1, <2>3 DEF Replay!vars
  <2> QED BY <2>2, <2>3
<1>5. CASE WorkerCompletes
  BY <1>4, <1>5 DEF WorkerCompletes, TypeInv, TypeOK
<1>6. CASE WorkerAborts
  BY <1>4, <1>6 DEF WorkerAborts
<1>7. CASE PrimaryAnswers
  BY <1>0, <1>7, AnswerLog DEF PrimaryAnswers, Replay!vars
<1>8. CASE ShadowAnswers
  BY <1>0, <1>8, AnswerLog DEF ShadowAnswers, Replay!vars
<1>9. CASE PrimaryReceive
  BY <1>0, <1>9, ReadReplyLog DEF PrimaryReceive, Replay!vars
<1>10. CASE ShadowReceive
  BY <1>0, <1>10, ReadReplyLog DEF ShadowReceive, Replay!vars
<1>11. CASE ReadBroken \/ PrimaryReceiveFailed \/ ReadClosed \/ PrimarySendFailed \/ WriteFailed
  BY <1>11 DEF ReadBroken, PrimaryReceiveFailed, ReadClosed, PrimarySendFailed, WriteFailed,
               Leave, Replay!vars
<1>12. CASE \/ ClientClose \/ ReadFrame \/ DialPrimary \/ DialPrimaryFailed
            \/ writePrimaryFrame \/ Submit \/ FinishPrimaryOnly \/ CloseWorker \/ CloseConn
  BY <1>12 DEF ClientClose, ReadFrame, DialPrimary, DialPrimaryFailed, writePrimaryFrame,
               Submit, FinishPrimaryOnly, CloseWorker, CloseConn, Replay!vars
<1>13. CASE \/ WorkerSkips \/ WorkerOpens \/ WorkerRuns \/ ShadowDialled \/ WorkerTimesOut
            \/ WorkerExits \/ ShadowOpFailed
  BY <1>13 DEF WorkerSkips, WorkerOpens, WorkerRuns, ShadowDialled, WorkerTimesOut,
               WorkerExits, ShadowOpFailed, Replay!vars
<1>14. CASE Done \/ UNCHANGED vars
  BY <1>14 DEF Done, vars, Replay!vars
<1> QED
  BY <1>1, <1>2, <1>3, <1>5, <1>6, <1>7, <1>8, <1>9, <1>10, <1>11, <1>12, <1>13, <1>14
     DEF Next, HandlerStep, WorkerStep, GoroutineStep

\* Each connection replays its frames to the shadow in order, and once it has
\* stopped it never resumes.
THEOREM ReplayImplemented == Spec => ImplementsReplay
  BY Ordered, InitReplay, StepReplay, PTL DEF Spec, ImplementsReplay, Replay!Spec
================================================================================
