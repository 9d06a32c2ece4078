-------------------------- MODULE MilterVerdictProofs --------------------------
(***************************************************************************)
(* Proofs about MilterConn, continued: whose reply is relayed and compared *)
(* in a turn, and what is reported of each frame, for any number of        *)
(* frames, any queue capacity and any replies of the supported profile.    *)
(***************************************************************************)
EXTENDS MilterConnProofs

--------------------------------------------------------------------------------
(* The steps, by what they leave alone. *)

HandlerMove ==
  \/ ReadFrame \/ ReadBroken \/ PrimaryReceiveFailed \/ DialPrimaryFailed
  \/ ReadClosed \/ PrimarySend \/ PrimarySendFailed \/ PrimaryReceive \/ writePrimaryFrame
  \/ WriteFailed \/ Submit \/ FinishPrimaryOnly \/ CloseWorker \/ CloseConn

WorkerMove ==
  \/ WorkerSkips \/ WorkerOpens \/ WorkerRuns \/ ShadowDialled \/ ShadowDialFailed
  \/ WorkerCompletes \/ WorkerTimesOut \/ WorkerAborts \/ WorkerExits

\* The handler leaves the worker and the shadow alone, the worker and its goroutine
\* the handler; the backends and the MTA answer on their own.
LEMMA Moves ==
  ASSUME TypeInv, [Next]_vars
  PROVE  \/ HandlerMove /\ UNCHANGED <<workerVars, goVars, shadow, enabled, clientOpen>>
         \/ DialPrimary /\ UNCHANGED <<nread, frame, raw, clientVars, queue, closed, work, session,
                                       unavailable, goVars, primary, shadow, verdicts>>
         \/ WorkerMove /\ UNCHANGED <<handlerVars, clientVars, primary, shadow, enabled, closed>>
         \/ ShadowSend \/ ShadowReceive \/ ShadowOpFailed
         \/ PrimaryAnswers \/ ShadowAnswers
         \/ UNCHANGED <<handlerVars, clientGot, primary, queueVars, workerVars, goVars, shadow, verdicts>>
<1> USE DEF clientVars, handlerVars, queueVars, workerVars, goVars
<1>1. CASE ReadBroken \/ PrimaryReceiveFailed \/ ReadClosed \/ PrimarySendFailed \/ WriteFailed
  BY <1>1 DEF HandlerMove, ReadBroken, PrimaryReceiveFailed, ReadClosed, PrimarySendFailed,
              WriteFailed, Leave
<1>2. CASE ReadFrame \/ DialPrimaryFailed \/ PrimarySend \/ PrimaryReceive \/ writePrimaryFrame
  BY <1>2 DEF HandlerMove, ReadFrame, DialPrimaryFailed, PrimarySend, PrimaryReceive,
              writePrimaryFrame
<1>3. CASE Submit \/ FinishPrimaryOnly \/ CloseWorker \/ CloseConn
  BY <1>3 DEF HandlerMove, Submit, FinishPrimaryOnly, CloseWorker, CloseConn
<1>4. CASE DialPrimary
  BY <1>4 DEF DialPrimary
<1>5. CASE WorkerSkips \/ WorkerOpens \/ WorkerRuns \/ ShadowDialled \/ ShadowDialFailed
  BY <1>5 DEF WorkerMove, WorkerSkips, WorkerOpens, WorkerRuns, ShadowDialled, ShadowDialFailed
<1>6. CASE WorkerCompletes \/ WorkerTimesOut \/ WorkerAborts \/ WorkerExits
  BY <1>6 DEF WorkerMove, WorkerCompletes, WorkerTimesOut, WorkerAborts, WorkerExits, Complete
<1>7. CASE ClientClose \/ Done \/ UNCHANGED vars
  BY <1>7 DEF ClientClose, Done, vars
<1> QED
  BY <1>1, <1>2, <1>3, <1>4, <1>5, <1>6, <1>7 DEF Next, HandlerStep, WorkerStep, GoroutineStep

\* How the queue changes: an item is handed over, or taken by the idle worker.
LEMMA QueueMoves ==
  ASSUME TypeInv, [Next]_vars
  PROVE  \/ UNCHANGED queue /\ UNCHANGED work
         \/ /\ Submit /\ Accepts /\ queue' = Append(queue, [frame |-> frame, raw |-> Codes(raw)])
            /\ UNCHANGED <<work, verdicts>>
         \/ Take
<1> USE DEF clientVars, handlerVars, queueVars, workerVars, goVars
<1>1. CASE HandlerMove /\ UNCHANGED work
  <2>1. CASE Submit
    BY <1>1, <2>1 DEF Submit, Enqueue
  <2>2. CASE ~Submit
    BY <1>1, <2>2 DEF HandlerMove, ReadBroken, PrimaryReceiveFailed, ReadClosed, PrimarySendFailed,
       WriteFailed, Leave, ReadFrame, DialPrimaryFailed, PrimarySend, PrimaryReceive,
       writePrimaryFrame, FinishPrimaryOnly, CloseWorker, CloseConn
  <2> QED BY <2>1, <2>2
<1>2. CASE WorkerMove
  BY <1>2 DEF WorkerMove, WorkerSkips, WorkerOpens, WorkerRuns, ShadowDialled, ShadowDialFailed,
              WorkerCompletes, WorkerTimesOut, WorkerAborts, WorkerExits, Complete
<1>3. CASE ShadowSend \/ ShadowReceive \/ ShadowOpFailed \/ PrimaryAnswers \/ ShadowAnswers
  BY <1>3 DEF ShadowSend, ShadowReceive, ShadowOpFailed, PrimaryAnswers, ShadowAnswers
<1> QED BY <1>1, <1>2, <1>3, Moves

--------------------------------------------------------------------------------
(* The MTA has its reply before the shadow has the frame. *)

\* A frame whose turn is over for the MTA: it has its reply, if it expects one.
ClearedIn(f, got) == Expects(f) => \E t \in DOMAIN got : got[t].id = f.id
Cleared(f) == ClearedIn(f, clientGot)

\* Only such frames are handed to the worker.
ReplyInv ==
  /\ hpc = "submit" => Cleared(frame)
  /\ \A j \in 1..Len(queue) : Cleared(queue[j].frame)
  /\ work = NoWork \/ Cleared(work.frame)
  /\ \A i \in 1..Len(shadow.log) : Cleared(shadow.log[i])

\* The MTA keeps what it was given.
LEMMA GotMoves ==
  ASSUME TypeInv, [Next]_vars
  PROVE  /\ \/ UNCHANGED clientGot
            \/ writePrimaryFrame /\ clientGot' = Append(clientGot, [id |-> frame.id, raw |-> raw])
         /\ \A f : Cleared(f) => ClearedIn(f, clientGot')
<1>0. clientGot \in Seq(Turns)
  BY DEF TypeInv, TypeOK
<1> USE DEF clientVars, handlerVars, queueVars, workerVars, goVars
<1>1. \/ UNCHANGED clientGot
      \/ writePrimaryFrame /\ clientGot' = Append(clientGot, [id |-> frame.id, raw |-> raw])
  <2>1. CASE HandlerMove
    BY <2>1 DEF HandlerMove, ReadBroken, PrimaryReceiveFailed, ReadClosed, PrimarySendFailed,
       WriteFailed, Leave, ReadFrame, DialPrimaryFailed, PrimarySend, PrimaryReceive,
       writePrimaryFrame, Submit, FinishPrimaryOnly, CloseWorker, CloseConn
  <2>2. CASE ShadowSend \/ ShadowReceive \/ ShadowOpFailed \/ PrimaryAnswers \/ ShadowAnswers
    BY <2>2 DEF ShadowSend, ShadowReceive, ShadowOpFailed, PrimaryAnswers, ShadowAnswers
  <2> QED BY <2>1, <2>2, Moves
<1>2. ASSUME NEW f, Cleared(f) PROVE ClearedIn(f, clientGot')
  <2>1. CASE UNCHANGED clientGot
    BY <1>2, <2>1 DEF Cleared
  <2>2. CASE clientGot' = Append(clientGot, [id |-> frame.id, raw |-> raw])
    <3> DEFINE turn == [id |-> frame.id, raw |-> raw]
    <3> HIDE DEF turn
    <3>1. \A t \in DOMAIN clientGot : t \in DOMAIN Append(clientGot, turn)
                                      /\ Append(clientGot, turn)[t] = clientGot[t]
      BY <1>0
    <3> QED BY <1>2, <2>2, <3>1 DEF Cleared, ClearedIn, turn
  <2> QED BY <1>1, <2>1, <2>2
<1> QED BY <1>1, <1>2

\* How the shadow's log grows.
LEMMA ShadowLogMoves ==
  ASSUME TypeInv, [Next]_vars
  PROVE  \/ shadow'.log = shadow.log
         \/ /\ ShadowSend /\ shadow'.log = Append(shadow.log, work.frame)
            /\ work \in Works /\ work.frame \in Frames
<1>0. shadow \in Backends
  BY LogTypes
<1>1. CASE ShadowSend
  <2>1. work \in Works
    BY <1>1 DEF ShadowSend, TypeInv, CurrentFrames
  <2> QED BY <1>0, <1>1, <2>1, WorkFrame, SendLog DEF ShadowSend
<1>2. CASE ShadowReceive
  BY <1>0, <1>2, ReadReplyLog DEF ShadowReceive
<1>3. CASE ShadowAnswers
  BY <1>0, <1>3, AnswerLog DEF ShadowAnswers
<1>4. CASE ShadowOpFailed \/ PrimaryAnswers
  BY <1>4 DEF ShadowOpFailed, PrimaryAnswers
<1> QED BY <1>1, <1>2, <1>3, <1>4, Moves

\* How a frame comes to be submitted.
LEMMA SubmitMoves ==
  ASSUME TypeInv, [Next]_vars, hpc' = "submit"
  PROVE  \/ UNCHANGED <<hpc, frame>>
         \/ PrimarySend /\ ~Expects(frame) /\ UNCHANGED frame
         \/ /\ writePrimaryFrame /\ clientGot' = Append(clientGot, [id |-> frame.id, raw |-> raw])
            /\ UNCHANGED frame
<1> USE DEF clientVars, handlerVars, queueVars, workerVars, goVars
<1>1. CASE HandlerMove
  BY <1>1 DEF HandlerMove, ReadBroken, PrimaryReceiveFailed, ReadClosed, PrimarySendFailed,
     WriteFailed, Leave, ReadFrame, DialPrimaryFailed, PrimarySend, PrimaryReceive,
     writePrimaryFrame, Submit, FinishPrimaryOnly, CloseWorker, CloseConn
<1>2. CASE ShadowSend \/ ShadowReceive \/ ShadowOpFailed \/ PrimaryAnswers \/ ShadowAnswers
  BY <1>2 DEF ShadowSend, ShadowReceive, ShadowOpFailed, PrimaryAnswers, ShadowAnswers
<1>3. CASE DialPrimary
  BY <1>3 DEF DialPrimary
<1> QED BY <1>1, <1>2, <1>3, Moves

LEMMA InitReply == Init => ReplyInv
  BY DEF Init, ReplyInv, NewBackend

LEMMA NextReply ==
  ASSUME TypeInv, ReplyInv, [Next]_vars
  PROVE  ReplyInv'
<1>0. /\ queue \in Seq(Works) /\ shadow.log \in Seq(Frames) /\ clientGot \in Seq(Turns)
  BY LogTypes DEF TypeInv, TypeOK
<1>1. \A f : Cleared(f) => ClearedIn(f, clientGot')
  BY GotMoves
<1>2. hpc' = "submit" => ClearedIn(frame', clientGot')
  <2> SUFFICES ASSUME hpc' = "submit" PROVE ClearedIn(frame', clientGot')
    OBVIOUS
  <2>1. CASE UNCHANGED <<hpc, frame>>
    BY <1>1, <2>1 DEF ReplyInv
  <2>2. CASE ~Expects(frame) /\ UNCHANGED frame
    BY <2>2 DEF ClearedIn
  <2>3. CASE clientGot' = Append(clientGot, [id |-> frame.id, raw |-> raw]) /\ UNCHANGED frame
    <3> DEFINE turn == [id |-> frame.id, raw |-> raw]
    <3>1. turn.id = frame.id
      OBVIOUS
    <3> HIDE DEF turn
    <3>2. /\ Len(clientGot) + 1 \in DOMAIN Append(clientGot, turn)
          /\ Append(clientGot, turn)[Len(clientGot) + 1] = turn
      BY <1>0
    <3>3. clientGot' = Append(clientGot, turn)
      BY <2>3 DEF turn
    <3> QED BY <2>3, <3>1, <3>2, <3>3 DEF ClearedIn
  <2> QED BY <2>1, <2>2, <2>3, SubmitMoves
<1>3. \A j \in 1..Len(queue') : ClearedIn(queue'[j].frame, clientGot')
  <2> SUFFICES ASSUME NEW j \in 1..Len(queue') PROVE ClearedIn(queue'[j].frame, clientGot')
    OBVIOUS
  <2>1. CASE UNCHANGED queue
    BY <1>1, <2>1 DEF ReplyInv
  <2>2. CASE Submit /\ queue' = Append(queue, [frame |-> frame, raw |-> Codes(raw)])
    <3> DEFINE w == [frame |-> frame, raw |-> Codes(raw)]
    <3>1. w.frame = frame /\ queue' = Append(queue, w) /\ Cleared(frame)
      BY <2>2 DEF Submit, ReplyInv
    <3> HIDE DEF w
    <3>2. queue'[j] = w \/ (j \in 1..Len(queue) /\ queue'[j] = queue[j])
      BY <1>0, <3>1
    <3> QED BY <1>1, <3>1, <3>2 DEF ReplyInv
  <2>3. CASE Take
    <3>1. j + 1 \in 1..Len(queue) /\ queue'[j] = queue[j + 1]
      BY <1>0, <2>3 DEF Take
    <3> QED BY <1>1, <3>1 DEF ReplyInv
  <2> QED BY <2>1, <2>2, <2>3, QueueMoves
<1>4. work' = NoWork \/ ClearedIn(work'.frame, clientGot')
  <2>1. CASE UNCHANGED work
    BY <1>1, <2>1 DEF ReplyInv
  <2>2. CASE Take
    <3>1. 1 \in 1..Len(queue) /\ work' = queue[1]
      BY <1>0, <2>2 DEF Take
    <3> QED BY <1>1, <3>1 DEF ReplyInv
  <2> QED BY <2>1, <2>2, QueueMoves
<1>5. \A i \in 1..Len(shadow'.log) : ClearedIn(shadow'.log[i], clientGot')
  <2> SUFFICES ASSUME NEW i \in 1..Len(shadow'.log) PROVE ClearedIn(shadow'.log[i], clientGot')
    OBVIOUS
  <2>1. CASE shadow'.log = shadow.log
    BY <1>1, <2>1 DEF ReplyInv
  <2>2. CASE shadow'.log = Append(shadow.log, work.frame) /\ work \in Works /\ work.frame \in Frames
    <3>1. work # NoWork
      BY <2>2 DEF Works, Frames, NoWork, NoFrame
    <3>2. shadow'.log[i] = work.frame \/ (i \in 1..Len(shadow.log) /\ shadow'.log[i] = shadow.log[i])
      BY <1>0, <2>2
    <3> QED BY <1>1, <3>1, <3>2 DEF ReplyInv
  <2> QED BY <2>1, <2>2, ShadowLogMoves
<1> QED BY <1>2, <1>3, <1>4, <1>5 DEF ReplyInv, Cleared

\* A frame reaches the shadow only after the MTA has been given the primary's reply to
\* it (handleFrame writes before it submits), whatever the worker's timing.
THEOREM ReplyBeforeShadowCorrect == Spec => []ReplyBeforeShadow
<1>1. TypeInv /\ ReplyInv => ReplyBeforeShadow
  <2> SUFFICES ASSUME TypeInv, ReplyInv, NEW i \in DOMAIN shadow.log, Expects(shadow.log[i])
               PROVE  Answered(shadow.log[i])
    BY DEF ReplyBeforeShadow
  <2>1. i \in 1..Len(shadow.log)
    BY LogTypes
  <2> QED BY <2>1 DEF ReplyInv, Cleared, ClearedIn, Answered
<1>2. TypeInv /\ ReplyInv /\ [Next]_vars => TypeInv' /\ ReplyInv'
  BY NextType, NextReply
<1> QED BY <1>1, <1>2, InitType, InitReply, PTL DEF Spec

--------------------------------------------------------------------------------
(* A turn is closed with the reply to its own request. *)

\* What is left of the reply to f: its last frame and no other completes the turn.
Final(f, out) ==
  /\ out # <<>>
  /\ \A i \in 1..Len(out) : out[i].id = f.id /\ (ReplyComplete(f, out[i]) <=> i = Len(out))

Idle(b) == b.due = {} /\ b.out = <<>>
Awaiting(b, f) == \/ b.due = {f} /\ b.out = <<>>
                  \/ b.due = {} /\ Final(f, b.out)

LEMMA SendTurn ==
  ASSUME NEW b \in Backends, NEW f \in Frames, Idle(b)
  PROVE  IF Expects(f) THEN Awaiting(Send(b, f), f) ELSE Idle(Send(b, f))
<1>1. Send(b, f).out = b.out /\ Send(b, f).due = IF Expects(f) THEN b.due \cup {f} ELSE b.due
  BY DEF Send, Backends
<1> QED BY <1>1 DEF Idle, Awaiting

LEMMA ReadTurn ==
  ASSUME NEW b \in Backends, NEW f \in Frames, Awaiting(b, f), b.out # <<>>
  PROVE  /\ Head(b.out).id = f.id
         /\ IF ReplyComplete(f, Head(b.out)) THEN Idle(ReadReply(b)) ELSE Awaiting(ReadReply(b), f)
<1>0. b.out \in Seq(Replies) /\ b.due = {} /\ Final(f, b.out)
  BY DEF Backends, Awaiting
<1>1. ReadReply(b).out = Tail(b.out) /\ ReadReply(b).due = {}
  BY <1>0 DEF ReadReply, Backends
<1>2. /\ Head(b.out) = b.out[1] /\ 1 \in 1..Len(b.out) /\ Len(Tail(b.out)) = Len(b.out) - 1
      /\ Tail(b.out) \in Seq(Replies)
  BY <1>0
<1>6. Tail(b.out) = <<>> <=> Len(Tail(b.out)) = 0
  BY <1>2, EmptySeq
<1>3. Head(b.out).id = f.id /\ (ReplyComplete(f, Head(b.out)) <=> 1 = Len(b.out))
  BY <1>0, <1>2 DEF Final
<1>4. CASE 1 = Len(b.out)
  <2>1. Tail(b.out) = <<>>
    BY <1>2, <1>4, <1>6
  <2> QED BY <1>1, <1>3, <1>4, <2>1 DEF Idle
<1>5. CASE 1 # Len(b.out)
  <2>1. Tail(b.out) # <<>> /\ Tail(b.out) \in Seq(Replies)
    BY <1>0, <1>2, <1>5, <1>6
  <2>2. ASSUME NEW i \in 1..Len(Tail(b.out))
        PROVE  /\ Tail(b.out)[i].id = f.id
               /\ ReplyComplete(f, Tail(b.out)[i]) <=> i = Len(Tail(b.out))
    <3>1. i + 1 \in 1..Len(b.out) /\ Tail(b.out)[i] = b.out[i + 1]
      BY <1>0, <1>2
    <3>2. b.out[i + 1].id = f.id /\ (ReplyComplete(f, b.out[i + 1]) <=> i + 1 = Len(b.out))
      BY <1>0, <3>1 DEF Final
    <3>3. i + 1 = Len(b.out) <=> i = Len(Tail(b.out))
      BY <1>0, <1>2
    <3> QED BY <3>1, <3>2, <3>3
  <2>3. Final(f, Tail(b.out))
    BY <2>1, <2>2 DEF Final
  <2> QED BY <1>1, <1>3, <1>5, <2>3 DEF Awaiting
<1> QED BY <1>4, <1>5

LEMMA AnswerTurn ==
  ASSUME NEW b \in Backends, NEW f \in Frames, Awaiting(b, f), NEW g \in b.due,
         NEW r \in BackendReplies(g.cmd)
  PROVE  Awaiting(Answer(b, g, r), f)
<1>0. g = f /\ b.due = {f} /\ b.out = <<>>
  BY DEF Awaiting
<1>1. r \in Seq(ReplyCodes) /\ r # <<>>
  <2>1. <<"O">> \in Seq(ReplyCodes) /\ <<"O">> # <<>>
    BY RepliesAssumption
  <2> QED BY <2>1, RepliesAssumption DEF BackendReplies
<1>2. \A i \in 1..Len(r) : milterReplyCompletesRequest(f.cmd, r[i]) <=> i = Len(r)
  <2>1. CASE f.cmd = "O"
    <3>1. r = <<"O">>
      BY <1>0, <2>1 DEF BackendReplies
    <3>2. Len(r) = 1 /\ r[1] = "O"
      BY <3>1
    <3> QED BY <2>1, <3>2 DEF milterReplyCompletesRequest
  <2>2. CASE f.cmd # "O"
    <3>1. r \in EOMReplies /\ DOMAIN r = 1..Len(r)
      BY <1>0, <1>1, <2>2 DEF BackendReplies
    <3>2. \A i \in DOMAIN r : r[i] \in TerminalReplies <=> i = Len(r)
      BY <3>1, RepliesAssumption
    <3> QED BY <2>2, <3>1, <3>2 DEF milterReplyCompletesRequest
  <2> QED BY <2>1, <2>2
<1> DEFINE tagged == [i \in DOMAIN r |-> [id |-> g.id, cmd |-> r[i]]]
<1>3. tagged \in Seq([id : {g.id}, cmd : ReplyCodes]) /\ Len(tagged) = Len(r) /\ tagged # <<>>
  <2>1. DOMAIN r = 1..Len(r) /\ Len(r) \in Nat /\ \A i \in 1..Len(r) : r[i] \in ReplyCodes
    BY <1>1
  <2>2. tagged \in [1..Len(r) -> [id : {g.id}, cmd : ReplyCodes]]
    BY <2>1
  <2>3. tagged \in Seq([id : {g.id}, cmd : ReplyCodes]) /\ Len(tagged) = Len(r)
    BY <2>1, <2>2, SeqDef, LenProperties
  <2> QED BY <1>1, <2>3
<1>4. \A i \in 1..Len(tagged) : tagged[i].id = f.id /\ tagged[i].cmd = r[i]
  BY <1>0, <1>1, <1>3
<1>5. b.out \o tagged = tagged
  BY <1>0, <1>3
<1>6. Answer(b, g, r).out = tagged /\ Answer(b, g, r).due = {}
  BY <1>0, <1>5 DEF Answer, Backends
<1>7. Final(f, tagged)
  <2> HIDE DEF tagged
  <2> QED BY <1>2, <1>3, <1>4 DEF Final, ReplyComplete
<1> QED BY <1>6, <1>7 DEF Awaiting

LEMMA OwnReplyAppend ==
  ASSUME NEW id, NEW rs \in Seq(Replies), OwnReply(id, rs), NEW r \in Replies, r.id = id
  PROVE  OwnReply(id, Append(rs, r))
<1> SUFFICES ASSUME NEW i \in DOMAIN Append(rs, r) PROVE Append(rs, r)[i].id = id
  BY DEF OwnReply
<1>1. Append(rs, r)[i] = r \/ (i \in DOMAIN rs /\ Append(rs, r)[i] = rs[i])
  OBVIOUS
<1> QED BY <1>1 DEF OwnReply

LEMMA OwnReplyNone == \A id : OwnReply(id, <<>>)
  BY DEF OwnReply

\* Between two turns nothing is due, and in a turn only the reply to its own frame.
PrimaryTurn ==
  /\ hpc \in {"dial", "read", "send", "write", "submit"} => Idle(primary)
  /\ hpc \in {"receive", "write"} => Expects(frame) /\ OwnReply(frame.id, raw)
  /\ hpc = "receive" => Awaiting(primary, frame)
  /\ hpc = "send" => raw = <<>>
  /\ \A t \in 1..Len(clientGot) : OwnReply(clientGot[t].id, clientGot[t].raw)

\* The same for the shadow, up to the first failure: the session is then given up.
Event == wpc \in {"wait", "abort"}
ShadowTurn ==
  /\ session = "nil" \/ (session = "open" /\ ~Event) => Idle(shadow)
  /\ Event => session = "open" /\ gpc # "none"
  /\ Event /\ gpc = "send" => graw = <<>>
  /\ Event /\ gpc # "send" /\ ~gerr => OwnReply(work.frame.id, graw)
  /\ Event /\ gpc \in {"send", "done"} /\ ~gerr => Idle(shadow)
  /\ Event /\ gpc = "receive" /\ ~gerr => Awaiting(shadow, work.frame)

LEMMA InitTurns == Init => PrimaryTurn /\ ShadowTurn
  BY DEF Init, PrimaryTurn, ShadowTurn, Event, Idle, NewBackend

LEMMA NextPrimaryTurn ==
  ASSUME TypeInv, PrimaryTurn, [Next]_vars
  PROVE  PrimaryTurn'
<1>0. /\ primary \in Backends /\ raw \in Seq(Replies) /\ clientGot \in Seq(Turns)
      /\ hpc \in {"dial", "read", "send", "receive", "write", "submit", "close", "await", "closed"}
      /\ hpc \in {"send", "receive", "write", "submit"} => frame \in Frames
  BY DEF TypeInv, TypeOK, CurrentFrames
<1> USE DEF clientVars, handlerVars, queueVars, workerVars, goVars
<1>1. CASE UNCHANGED <<hpc, frame, raw, clientGot, primary>>
  BY <1>1 DEF PrimaryTurn
<1>2. CASE ReadFrame
  BY <1>2 DEF ReadFrame, PrimaryTurn
<1>3. CASE PrimarySend
  <2>1. /\ hpc = "send" /\ primary' = Send(primary, frame) /\ Idle(primary) /\ raw = <<>>
        /\ hpc' = IF Expects(frame) THEN "receive" ELSE "submit"
        /\ UNCHANGED <<frame, raw, clientGot>> /\ frame \in Frames
    BY <1>0, <1>3 DEF PrimarySend, PrimaryTurn
  <2>2. IF Expects(frame) THEN Awaiting(primary', frame) ELSE Idle(primary')
    BY <1>0, <2>1, SendTurn
  <2> QED BY <2>1, <2>2, OwnReplyNone DEF PrimaryTurn
<1>4. CASE PrimaryReceive
  <2>1. /\ hpc = "receive" /\ primary' = ReadReply(primary) /\ Awaiting(primary, frame)
        /\ hpc' = IF ReplyComplete(frame, Head(primary.out)) THEN "write" ELSE "receive"
        /\ raw' = Append(raw, Head(primary.out)) /\ primary.out # <<>>
        /\ OwnReply(frame.id, raw) /\ Expects(frame)
        /\ UNCHANGED <<frame, clientGot>> /\ frame \in Frames
    BY <1>0, <1>4 DEF PrimaryReceive, PrimaryTurn
  <2>2. /\ Head(primary.out).id = frame.id /\ Head(primary.out) \in Replies
        /\ IF ReplyComplete(frame, Head(primary.out)) THEN Idle(primary') ELSE Awaiting(primary', frame)
    BY <1>0, <2>1, ReadTurn, ReadReplyType
  <2>3. OwnReply(frame.id, raw')
    BY <1>0, <2>1, <2>2, OwnReplyAppend
  <2> QED BY <2>1, <2>2, <2>3 DEF PrimaryTurn
<1>5. CASE writePrimaryFrame
  <2>1. /\ hpc = "write" /\ hpc' = "submit" /\ OwnReply(frame.id, raw) /\ Idle(primary)
        /\ clientGot' = Append(clientGot, [id |-> frame.id, raw |-> raw])
        /\ UNCHANGED <<frame, raw, primary>>
    BY <1>5 DEF writePrimaryFrame, PrimaryTurn
  <2>2. ASSUME NEW t \in 1..Len(clientGot')
        PROVE  OwnReply(clientGot'[t].id, clientGot'[t].raw)
    <3> DEFINE turn == [id |-> frame.id, raw |-> raw]
    <3>1. turn.id = frame.id /\ turn.raw = raw /\ clientGot' = Append(clientGot, turn)
      BY <2>1
    <3> HIDE DEF turn
    <3>2. clientGot'[t] = turn \/ (t \in 1..Len(clientGot) /\ clientGot'[t] = clientGot[t])
      BY <1>0, <3>1
    <3> QED BY <2>1, <3>1, <3>2 DEF PrimaryTurn
  <2> QED BY <2>1, <2>2 DEF PrimaryTurn
<1>6. CASE PrimaryAnswers
  <2>a. PICK g \in primary.due : \E r \in BackendReplies(g.cmd) : primary' = Answer(primary, g, r)
    BY <1>6 DEF PrimaryAnswers
  <2>1. PICK r \in BackendReplies(g.cmd) : primary' = Answer(primary, g, r)
    BY <2>a
  <2>2. UNCHANGED <<hpc, frame, raw, clientGot>>
    BY <1>6 DEF PrimaryAnswers
  <2>3. hpc \notin {"dial", "read", "send", "write", "submit"}
    BY <2>1 DEF PrimaryTurn, Idle
  <2>4. hpc = "receive" => Awaiting(primary', frame)
    BY <1>0, <2>1, AnswerTurn DEF PrimaryTurn
  <2> QED BY <2>2, <2>3, <2>4 DEF PrimaryTurn
<1>7. CASE ReadBroken \/ PrimaryReceiveFailed \/ ReadClosed \/ PrimarySendFailed \/ WriteFailed
  BY <1>7 DEF ReadBroken, PrimaryReceiveFailed, ReadClosed, PrimarySendFailed, WriteFailed, Leave,
              PrimaryTurn
<1>8. CASE Submit \/ FinishPrimaryOnly \/ CloseWorker \/ CloseConn \/ DialPrimary \/ DialPrimaryFailed
  BY <1>8 DEF Submit, FinishPrimaryOnly, CloseWorker, CloseConn, DialPrimary, DialPrimaryFailed,
              PrimaryTurn
<1>9. CASE ShadowSend \/ ShadowReceive \/ ShadowOpFailed \/ ShadowAnswers
  BY <1>1, <1>9 DEF ShadowSend, ShadowReceive, ShadowOpFailed, ShadowAnswers
<1> QED BY <1>1, <1>2, <1>3, <1>4, <1>5, <1>6, <1>7, <1>8, <1>9, Moves DEF HandlerMove

LEMMA NextShadowTurn ==
  ASSUME TypeInv, OrderInv, ShadowTurn, [Next]_vars
  PROVE  ShadowTurn'
<1>0. /\ shadow \in Backends /\ graw \in Seq(Replies) /\ gerr \in BOOLEAN
      /\ Event => work.frame \in Frames
      /\ gpc \in {"none", "send", "receive", "done"} /\ session \in {"nil", "open", "closed"}
  BY WorkFrame DEF TypeInv, TypeOK, CurrentFrames, Event
<1>a. /\ wpc = "dial" => session = "nil"
      /\ session = "open" /\ gpc \in {"send", "receive"} => Event
  BY DEF OrderInv, Event
<1> USE DEF clientVars, handlerVars, queueVars, workerVars, goVars
<1>1. CASE UNCHANGED <<wpc, work, session, gpc, graw, gerr, shadow>>
  BY <1>1 DEF ShadowTurn, Event
<1>2. CASE WorkerSkips \/ WorkerOpens \/ WorkerExits
  BY <1>2 DEF WorkerSkips, WorkerOpens, WorkerExits, Take, ShadowTurn, Event
<1>3. CASE WorkerRuns \/ ShadowDialled
  <2>1. /\ session' = "open" /\ wpc' = "wait" /\ gpc' = "send" /\ graw' = <<>> /\ UNCHANGED shadow
        /\ session = "nil" \/ (session = "open" /\ ~Event)
    BY <1>3, <1>a DEF WorkerRuns, ShadowDialled, StartEvent, Take, Event
  <2> QED BY <2>1 DEF ShadowTurn, Event
<1>4. CASE ShadowDialFailed
  BY <1>4, <1>a DEF ShadowDialFailed, ShadowTurn, Event
<1>5. CASE WorkerCompletes
  <2>1. wpc = "wait" /\ gpc = "done" /\ wpc' = "idle" /\ UNCHANGED <<gpc, graw, gerr, shadow>>
    BY <1>5 DEF WorkerCompletes, Complete
  <2>2. session' = IF gerr THEN "closed" ELSE session
    BY <1>5 DEF WorkerCompletes, Complete
  <2> QED BY <2>1, <2>2 DEF ShadowTurn, Event
<1>6. CASE WorkerAborts
  <2>1. wpc' = "idle" /\ session' = "closed"
    BY <1>6 DEF WorkerAborts, Complete
  <2> QED BY <2>1 DEF ShadowTurn, Event
<1>7. CASE WorkerTimesOut
  BY <1>7 DEF WorkerTimesOut, ShadowTurn, Event
<1>8. CASE ShadowSend
  <2>1. /\ gpc = "send" /\ session = "open" /\ shadow' = Send(shadow, work.frame) /\ Event
        /\ gpc' = IF Expects(work.frame) THEN "receive" ELSE "done"
        /\ UNCHANGED <<wpc, work, session, graw, gerr>>
    BY <1>8, <1>a DEF ShadowSend
  <2>2. graw = <<>> /\ (~gerr => Idle(shadow)) /\ work.frame \in Frames
    BY <1>0, <2>1 DEF ShadowTurn
  <2>3. ~gerr => IF Expects(work.frame) THEN Awaiting(shadow', work.frame) ELSE Idle(shadow')
    BY <1>0, <2>1, <2>2, SendTurn
  <2> QED BY <2>1, <2>2, <2>3, OwnReplyNone DEF ShadowTurn, Event
<1>9. CASE ShadowReceive
  <2>1. /\ gpc = "receive" /\ session = "open" /\ shadow.out # <<>> /\ Event
        /\ graw' = Append(graw, Head(shadow.out)) /\ shadow' = ReadReply(shadow)
        /\ gpc' = IF ReplyComplete(work.frame, Head(shadow.out)) THEN "done" ELSE "receive"
        /\ UNCHANGED <<wpc, work, session, gerr>> /\ work.frame \in Frames
    BY <1>0, <1>9, <1>a DEF ShadowReceive
  <2>2. CASE ~gerr
    <3>1. Awaiting(shadow, work.frame) /\ OwnReply(work.frame.id, graw)
      BY <2>1, <2>2 DEF ShadowTurn
    <3>2. /\ Head(shadow.out).id = work.frame.id /\ Head(shadow.out) \in Replies
          /\ IF ReplyComplete(work.frame, Head(shadow.out))
             THEN Idle(shadow') ELSE Awaiting(shadow', work.frame)
      BY <1>0, <2>1, <3>1, ReadTurn, ReadReplyType
    <3>3. OwnReply(work.frame.id, graw')
      BY <1>0, <2>1, <3>1, <3>2, OwnReplyAppend
    <3> QED BY <2>1, <3>2, <3>3 DEF ShadowTurn, Event
  <2>3. CASE gerr
    BY <2>1, <2>3 DEF ShadowTurn, Event
  <2> QED BY <2>2, <2>3
<1>10. CASE ShadowOpFailed
  <2>1. gpc' = "done" /\ gerr' = TRUE /\ UNCHANGED <<wpc, session, shadow>>
    BY <1>10 DEF ShadowOpFailed
  <2> QED BY <2>1 DEF ShadowTurn, Event
<1>11. CASE ShadowAnswers
  <2>a. PICK g \in shadow.due : \E r \in BackendReplies(g.cmd) : shadow' = Answer(shadow, g, r)
    BY <1>11 DEF ShadowAnswers
  <2>1. PICK r \in BackendReplies(g.cmd) : shadow' = Answer(shadow, g, r)
    BY <2>a
  <2>2. UNCHANGED <<wpc, work, session, gpc, graw, gerr>>
    BY <1>11 DEF ShadowAnswers
  <2>3. ~Idle(shadow)
    BY <2>1 DEF Idle
  <2>4. Event /\ gpc = "receive" /\ ~gerr => Awaiting(shadow', work.frame)
    BY <1>0, <2>1, AnswerTurn DEF ShadowTurn
  <2> QED BY <2>2, <2>3, <2>4 DEF ShadowTurn, Event
<1>12. CASE DialPrimary
  <2>1. hpc = "dial" /\ wpc' \in {"idle", "none"} /\ UNCHANGED <<session, shadow>> /\ wpc = "none"
    BY <1>12 DEF DialPrimary, OrderInv
  <2> QED BY <2>1 DEF ShadowTurn, Event
<1>13. CASE PrimaryAnswers
  BY <1>1, <1>13 DEF PrimaryAnswers
<1> QED
  BY <1>1, <1>2, <1>3, <1>4, <1>5, <1>6, <1>7, <1>8, <1>9, <1>10, <1>11, <1>12, <1>13, Moves
     DEF WorkerMove

\* A turn is closed with the whole reply to its own request on both sides: no frame left
\* over from an earlier turn is relayed to the MTA or compared (Receive of milterSession,
\* and the worker's latch after the first failure), for every reply sequence a backend of
\* the supported profile gives.
THEOREM ReplyMatchesRequestCorrect == Spec => []ReplyMatchesRequest
<1> DEFINE Inv == TypeInv /\ OrderInv /\ PrimaryTurn /\ ShadowTurn
<1>1. Inv => ReplyMatchesRequest
  <2> SUFFICES ASSUME Inv PROVE ReplyMatchesRequest
    OBVIOUS
  <2>1. DOMAIN clientGot = 1..Len(clientGot)
    BY DEF TypeInv, TypeOK
  <2>2. \A t \in DOMAIN clientGot : OwnReply(clientGot[t].id, clientGot[t].raw)
    BY <2>1 DEF PrimaryTurn
  <2>3. wpc = "wait" /\ gpc = "done" /\ ~gerr => OwnReply(work.frame.id, graw)
    BY DEF ShadowTurn, Event
  <2> QED BY <2>2, <2>3 DEF ReplyMatchesRequest
<1>2. Inv /\ [Next]_vars => Inv'
  BY NextType, NextOrder, NextPrimaryTurn, NextShadowTurn
<1>3. Init => Inv
  BY InitType, InitOrder, InitTurns
<1> QED BY <1>1, <1>2, <1>3, PTL DEF Spec

--------------------------------------------------------------------------------
(* What is reported of each frame. *)

\* A frame has been read and not yet handed over.
Open == hpc \in {"send", "receive", "write", "submit"}

\* No frame after this one has been handed to the worker or reported.
Submitted == IF Open THEN nread - 1 ELSE nread

\* The worker has an item in hand.
InHand == wpc \in {"dial", "wait", "abort"}

\* The MTA's frames are numbered as they come.
IdInv ==
  /\ \A i \in 1..Len(primary.log) : primary.log[i].id = i
  /\ Open => frame.id = nread /\ nread > 0
  /\ hpc \in {"dial", "read", "receive", "write", "submit"} => Len(primary.log) = nread
  /\ hpc = "send" => Len(primary.log) = nread - 1
  /\ Len(primary.log) <= nread
  /\ \A t \in 1..Len(clientGot) : clientGot[t].id <= nread
  /\ hpc \in {"send", "receive", "write"} => \A t \in 1..Len(clientGot) : clientGot[t].id < nread

\* A worker exists iff the connection is shadowed, and ends with its queue drained.
WorkerInv ==
  /\ ~enabled => wpc = "none" /\ queue = <<>>
  /\ hpc = "dial" => ~enabled
  /\ hpc = "closed" => ~enabled \/ wpc = "done"
  /\ wpc = "done" => queue = <<>> /\ closed

LEMMA InitIds == Init => IdInv /\ WorkerInv
  BY DEF Init, IdInv, WorkerInv, Open, NewBackend

LEMMA NextIds ==
  ASSUME TypeInv, IdInv, [Next]_vars
  PROVE  IdInv'
<1>0. /\ primary \in Backends /\ primary.log \in Seq(Frames) /\ clientGot \in Seq(Turns)
      /\ nread \in Nat /\ \A t \in 1..Len(clientGot) : clientGot[t].id \in Nat
      /\ hpc \in {"send", "receive", "write", "submit"} => frame \in Frames
  <2>1. primary \in Backends /\ primary.log \in Seq(Frames) /\ clientGot \in Seq(Turns) /\ nread \in Nat
    BY LogTypes, ConnAssumption DEF TypeInv, TypeOK
  <2>2. ASSUME NEW t \in 1..Len(clientGot) PROVE clientGot[t].id \in Nat
    <3>1. clientGot[t] \in Turns
      BY <2>1, ElementOfSeq
    <3> QED BY <3>1, ConnAssumption DEF Turns
  <2> QED BY <2>1, <2>2 DEF TypeInv, CurrentFrames
<1> USE DEF clientVars, handlerVars, queueVars, workerVars, goVars
<1>1. CASE UNCHANGED <<hpc, nread, frame, clientGot>> /\ primary'.log = primary.log
  BY <1>1 DEF IdInv, Open
<1>2. CASE ReadFrame
  <2>1. /\ hpc = "read" /\ hpc' = "send" /\ nread' = nread + 1 /\ frame'.id = nread + 1
        /\ UNCHANGED <<clientGot, primary>>
    BY <1>2 DEF ReadFrame
  <2>2. \A t \in 1..Len(clientGot) : clientGot[t].id < nread + 1
    BY <1>0 DEF IdInv
  <2>3. \A i \in 1..Len(primary'.log) : primary'.log[i].id = i
    BY <2>1 DEF IdInv
  <2>4. Len(primary.log) = nread
    BY <2>1 DEF IdInv
  <2>5. \A t \in 1..Len(clientGot') : clientGot'[t].id < nread' /\ clientGot'[t].id <= nread'
    BY <1>0, <2>1, <2>2
  <2> QED BY <1>0, <2>1, <2>3, <2>4, <2>5 DEF IdInv, Open
<1>3. CASE PrimarySend
  <2>1. /\ hpc = "send" /\ hpc' \in {"receive", "submit"} /\ primary'.log = Append(primary.log, frame)
        /\ UNCHANGED <<clientGot, nread, frame>> /\ frame \in Frames
    BY <1>0, <1>3, SendLog DEF PrimarySend
  <2>2. /\ Len(primary.log) = nread - 1 /\ frame.id = nread /\ nread > 0
        /\ \A t \in 1..Len(clientGot) : clientGot[t].id < nread /\ clientGot[t].id <= nread
    BY <2>1 DEF IdInv, Open
  <2>3. Len(primary'.log) = nread
    BY <1>0, <2>1, <2>2
  <2>4. ASSUME NEW i \in 1..Len(primary'.log) PROVE primary'.log[i].id = i
    <3>1. \/ i = Len(primary.log) + 1 /\ primary'.log[i] = frame
          \/ i \in 1..Len(primary.log) /\ primary'.log[i] = primary.log[i]
      BY <1>0, <2>1
    <3> QED BY <1>0, <2>2, <3>1 DEF IdInv
  <2> QED BY <1>0, <2>1, <2>2, <2>3, <2>4 DEF IdInv, Open
<1>4. CASE writePrimaryFrame
  <2>1. /\ hpc = "write" /\ hpc' = "submit" /\ UNCHANGED <<nread, frame, primary>>
        /\ clientGot' = Append(clientGot, [id |-> frame.id, raw |-> raw])
    BY <1>4 DEF writePrimaryFrame
  <2>2. frame.id = nread
    BY <2>1 DEF IdInv, Open
  <2>3. ASSUME NEW t \in 1..Len(clientGot') PROVE clientGot'[t].id <= nread
    <3> DEFINE turn == [id |-> frame.id, raw |-> raw]
    <3>1. turn.id = frame.id /\ clientGot' = Append(clientGot, turn)
      BY <2>1
    <3> HIDE DEF turn
    <3>2. clientGot'[t] = turn \/ (t \in 1..Len(clientGot) /\ clientGot'[t] = clientGot[t])
      BY <1>0, <3>1
    <3> QED BY <1>0, <2>2, <3>1, <3>2 DEF IdInv
  <2> QED BY <2>1, <2>3 DEF IdInv, Open
<1>5. CASE PrimaryReceive
  <2>1. /\ hpc = "receive" /\ hpc' \in {"receive", "write"} /\ primary'.log = primary.log
        /\ UNCHANGED <<clientGot, nread, frame>>
    BY <1>0, <1>5, ReadReplyLog DEF PrimaryReceive
  <2> QED BY <2>1 DEF IdInv, Open
<1>6. CASE ReadBroken \/ PrimaryReceiveFailed \/ ReadClosed \/ PrimarySendFailed \/ WriteFailed
  BY <1>6 DEF ReadBroken, PrimaryReceiveFailed, ReadClosed, PrimarySendFailed, WriteFailed, Leave,
              IdInv, Open
<1>7. CASE Submit \/ FinishPrimaryOnly
  BY <1>7 DEF Submit, FinishPrimaryOnly, IdInv, Open
<1>8. CASE CloseWorker \/ CloseConn \/ DialPrimary \/ DialPrimaryFailed
  BY <1>8 DEF CloseWorker, CloseConn, DialPrimary, DialPrimaryFailed, IdInv, Open
<1>9. CASE ShadowSend \/ ShadowReceive \/ ShadowOpFailed \/ ShadowAnswers
  BY <1>1, <1>9 DEF ShadowSend, ShadowReceive, ShadowOpFailed, ShadowAnswers
<1>10. CASE PrimaryAnswers
  BY <1>0, <1>1, <1>10, AnswerLog DEF PrimaryAnswers
<1> QED BY <1>1, <1>2, <1>3, <1>4, <1>5, <1>6, <1>7, <1>8, <1>9, <1>10, Moves DEF HandlerMove

LEMMA NextWorkerInv ==
  ASSUME TypeInv, OrderInv, WorkerInv, [Next]_vars
  PROVE  WorkerInv'
<1>0. enabled \in BOOLEAN /\ closed \in BOOLEAN
  BY DEF TypeInv, TypeOK
<1> USE DEF clientVars, handlerVars, queueVars, workerVars, goVars
<1>1. CASE UNCHANGED <<hpc, enabled, queue, closed, wpc>>
  BY <1>1 DEF WorkerInv
<1>2. CASE DialPrimary
  <2>1. hpc = "dial" /\ hpc' = "read" /\ UNCHANGED queue /\ queue = <<>>
    BY <1>2 DEF DialPrimary, OrderInv
  <2>2. wpc' = IF enabled' THEN "idle" ELSE "none"
    BY <1>2 DEF DialPrimary
  <2> QED BY <2>1, <2>2 DEF WorkerInv
<1>3. CASE Submit
  <2>1. enabled /\ UNCHANGED <<enabled, wpc>> /\ hpc' = "read"
    BY <1>3 DEF Submit
  <2>2. wpc = "done" => closed' /\ queue' = queue
    BY <1>3 DEF Submit, Enqueue, Accepts, WorkerInv
  <2> QED BY <2>1, <2>2 DEF WorkerInv
<1>4. CASE CloseWorker \/ FinishPrimaryOnly \/ CloseConn \/ DialPrimaryFailed
  BY <1>4 DEF CloseWorker, FinishPrimaryOnly, CloseConn, DialPrimaryFailed, WorkerInv
<1>5. CASE ReadBroken \/ PrimaryReceiveFailed \/ ReadClosed \/ PrimarySendFailed \/ WriteFailed
  BY <1>5 DEF ReadBroken, PrimaryReceiveFailed, ReadClosed, PrimarySendFailed, WriteFailed, Leave,
              WorkerInv
<1>6. CASE ReadFrame \/ PrimarySend \/ PrimaryReceive \/ writePrimaryFrame
  BY <1>6 DEF ReadFrame, PrimarySend, PrimaryReceive, writePrimaryFrame, WorkerInv
<1>7. CASE WorkerSkips \/ WorkerOpens \/ WorkerRuns \/ ShadowDialled \/ ShadowDialFailed
  BY <1>7 DEF WorkerSkips, WorkerOpens, WorkerRuns, ShadowDialled, ShadowDialFailed, Take, StartEvent,
              WorkerInv
<1>8. CASE WorkerCompletes \/ WorkerTimesOut \/ WorkerAborts \/ WorkerExits
  BY <1>8 DEF WorkerCompletes, WorkerTimesOut, WorkerAborts, WorkerExits, Complete, WorkerInv
<1>9. CASE ShadowSend \/ ShadowReceive \/ ShadowOpFailed \/ ShadowAnswers \/ PrimaryAnswers
  BY <1>1, <1>9 DEF ShadowSend, ShadowReceive, ShadowOpFailed, ShadowAnswers, PrimaryAnswers
<1> QED
  BY <1>1, <1>2, <1>3, <1>4, <1>5, <1>6, <1>7, <1>8, <1>9, Moves DEF HandlerMove, WorkerMove

\* The frames sent, in hand, queued and not yet handed over follow each other.
SentInv ==
  /\ Base <= Submitted
  /\ \A j \in 1..Len(queue) : Base < queue[j].frame.id /\ queue[j].frame.id <= Submitted
  /\ \A i, j \in 1..Len(queue) : i < j => queue[i].frame.id < queue[j].frame.id
  /\ InHand => work.frame.id <= Submitted
  /\ InHand => \A j \in 1..Len(queue) : work.frame.id < queue[j].frame.id
  /\ Event /\ gpc \in {"receive", "done"} /\ ~gerr => work.frame.id = Len(shadow.log)

\* A frame is reported at most once, after it left the queue and the worker's hands.
ReportInv ==
  /\ \A v, w \in 1..Len(verdicts) : verdicts[v].id = verdicts[w].id => v = w
  /\ \A v \in 1..Len(verdicts) :
       /\ verdicts[v].id <= Submitted
       /\ \A j \in 1..Len(queue) : verdicts[v].id # queue[j].frame.id
       /\ InHand => verdicts[v].id # work.frame.id
       /\ verdicts[v].result \in {"same", "diff"} => verdicts[v].id <= Len(shadow.log)
       /\ verdicts[v].result = "skipped" => verdicts[v].id > Base

\* Every frame of the primary is reported, or about to be, or was never answered.
AccountInv ==
  \A i \in 1..Len(primary.log) :
    \/ \E v \in 1..Len(verdicts) : verdicts[v].id = i
    \/ \E j \in 1..Len(queue) : queue[j].frame.id = i
    \/ InHand /\ work.frame.id = i
    \/ Handling /\ i = Len(primary.log)
    \/ hpc \in {"close", "await", "closed"} /\ ~Cleared(primary.log[i])

\* The worker's steps, as far as reports are concerned: nothing is reported,
Silent == /\ UNCHANGED <<verdicts, queue, work>> /\ (InHand' <=> InHand) /\ Base' <= Base
          /\ hpc = "submit" => hpc' = "submit"
\* the handler hands a frame over or reports it,
HandsOver == /\ hpc = "submit" /\ hpc' = "read" /\ UNCHANGED <<verdicts, work, frame, wpc, shadow, gpc, gerr>>
             /\ queue' = Append(queue, [frame |-> frame, raw |-> Codes(raw)]) /\ Base' = Base
Refuses == /\ hpc = "submit" /\ hpc' = "read" /\ UNCHANGED <<queue, work, frame, wpc, shadow, gpc, gerr>>
           /\ Verdict(frame.id, "skipped") /\ Base' = Base
\* the worker skips a frame, takes one in hand, or reports the one it has.
Skips == /\ Take /\ ~InHand /\ ~InHand' /\ UNCHANGED <<hpc, shadow>>
         /\ Verdict(Head(queue).frame.id, "skipped") /\ Base' = Base
Begins == /\ Take /\ ~InHand /\ InHand' /\ UNCHANGED <<hpc, shadow, verdicts>>
          /\ Head(queue).frame.id = Base + 1 /\ Base' = Base + 1
          /\ Event' => gpc' = "send"
Reports(res) == /\ InHand /\ ~InHand' /\ UNCHANGED <<hpc, queue, shadow>>
                /\ Verdict(work.frame.id, res) /\ Base' <= Base
                /\ res \in {"same", "diff"} => work.frame.id <= Len(shadow.log)
                /\ res = "skipped" => work.frame.id > Base'

LEMMA BaseType ==
  ASSUME TypeInv
  PROVE  /\ Base \in Nat /\ Len(shadow.log) \in Nat /\ Len(shadow.log) <= Base
         /\ Len(queue) \in Nat /\ Len(verdicts) \in Nat
<1>1. shadow.log \in Seq(Frames) /\ queue \in Seq(Works) /\ verdicts \in Seq(Verdicts)
  BY LogTypes DEF TypeInv, TypeOK
<1> QED BY <1>1 DEF Base

\* What the worker begins with is the frame after those the shadow has.
LEMMA TakeBegins ==
  ASSUME TypeInv, OrderInv, IdInv, WorkerOpens \/ WorkerRuns
  PROVE  Begins
<1>1. /\ Take /\ ~unavailable /\ UNCHANGED <<hpc, shadow, verdicts>>
  BY DEF WorkerOpens, WorkerRuns, handlerVars
<1>2. wpc' \in {"dial", "wait"} /\ (wpc' = "wait" => gpc' = "send")
  BY DEF WorkerOpens, WorkerRuns, StartEvent
<1>3. wpc = "idle" /\ queue # <<>>
  BY <1>1 DEF Take
<1>4. ~InHand /\ InHand' /\ (Event' => gpc' = "send")
  BY <1>2, <1>3 DEF InHand, Event
<1>5. Sound /\ Base = Len(shadow.log)
  BY <1>1, <1>3 DEF Sound, Base, Unsent
<1>6. Base' = Len(shadow.log) + 1
  BY <1>1, <1>2 DEF Base, Unsent
<1>7. queue \in Seq(Works) /\ primary.log \in Seq(Frames) /\ Base \in Nat
  BY LogTypes, BaseType
<1>8. Head(queue).frame = primary.log[Base + 1] /\ Base + 1 <= Len(primary.log)
  BY <1>3, <1>5, <1>7, FollowsTake DEF OrderInv
<1>9. Head(queue).frame.id = Base + 1
  BY <1>7, <1>8 DEF IdInv
<1> QED BY <1>1, <1>4, <1>5, <1>6, <1>9 DEF Begins

LEMMA CompleteReports ==
  ASSUME TypeInv, OrderInv, WorkerInv, SentInv, WorkerCompletes \/ WorkerAborts
  PROVE  \E res \in Results : Reports(res)
<1>1. PICK e \in BOOLEAN : /\ Complete(e) /\ (~e => ~gerr /\ wpc = "wait" /\ gpc = "done")
                           /\ wpc \in {"wait", "abort"}
  BY DEF WorkerCompletes, WorkerAborts, TypeInv, TypeOK
<1> DEFINE res == milterComparisonMetricResult(enabled, TRUE, e, MilterCompare(work.raw, Codes(graw)))
<1>2. enabled
  BY <1>1 DEF WorkerInv
<1>3. res \in Results /\ res # "skipped" /\ (res \in {"same", "diff"} => ~e)
  BY <1>2, MetricResultType DEF milterComparisonMetricResult
<1>4. /\ Verdict(work.frame.id, res) /\ wpc' = "idle" /\ UNCHANGED <<hpc, queue, shadow, work>>
  BY <1>1 DEF Complete, handlerVars, queueVars
<1> HIDE DEF res
<1>5. res \in {"same", "diff"} => work.frame.id <= Len(shadow.log)
  <2>1. ~e => work.frame.id = Len(shadow.log)
    BY <1>1 DEF SentInv, Event
  <2> QED BY <1>3, <2>1, BaseType
<1>6. Base' = Len(shadow.log) /\ Base' <= Base
  BY <1>4, BaseType DEF Base, Unsent
<1>7. InHand /\ ~InHand'
  BY <1>1, <1>4 DEF InHand
<1> QED BY <1>3, <1>4, <1>5, <1>6, <1>7 DEF Reports

LEMMA DialReports ==
  ASSUME TypeInv, OrderInv, IdInv, ShadowDialFailed
  PROVE  Reports("skipped")
<1>1. /\ wpc = "dial" /\ wpc' = "idle" /\ UNCHANGED <<hpc, queue, shadow, work>>
      /\ SkipVerdict(work.frame.id)
  BY DEF ShadowDialFailed, handlerVars, queueVars
<1>2. Verdict(work.frame.id, "skipped")
  BY <1>1 DEF SkipVerdict, milterComparisonMetricResult
<1>3. Base' = Len(shadow.log) /\ Base' <= Base
  BY <1>1, BaseType DEF Base, Unsent
<1>4. work.frame.id = Len(shadow.log) + 1
  <2>1. Len(shadow.log) + 1 \in 1..Len(primary.log) /\ work.frame = primary.log[Len(shadow.log) + 1]
    BY <1>1, BaseType, LogTypes DEF OrderInv, Unsent
  <2> QED BY <2>1 DEF IdInv
<1>5. InHand /\ ~InHand'
  BY <1>1 DEF InHand
<1> QED BY <1>1, <1>2, <1>3, <1>4, <1>5, BaseType DEF Reports

\* Every step is one of those.
LEMMA ReportMoves ==
  ASSUME TypeInv, OrderInv, IdInv, WorkerInv, SentInv, [Next]_vars
  PROVE  Silent \/ HandsOver \/ Refuses \/ Skips \/ Begins \/ \E res \in Results : Reports(res)
<1>0. Base \in Nat /\ Len(shadow.log) \in Nat /\ Len(shadow.log) <= Base
  BY BaseType
<1> USE DEF clientVars, handlerVars, queueVars, workerVars, goVars
<1>1. CASE UNCHANGED <<hpc, verdicts, queue, work, wpc, gpc, shadow>>
  BY <1>0, <1>1 DEF Silent, InHand, Base, Unsent
<1>2. CASE Submit
  <2>1. /\ hpc = "submit" /\ hpc' = "read" /\ UNCHANGED <<work, frame, wpc, shadow, gpc, gerr>>
        /\ Base' = Base
    BY <1>2 DEF Submit, Base, Unsent
  <2>2. CASE Accepts
    BY <1>2, <2>1, <2>2 DEF Submit, Enqueue, HandsOver
  <2>3. CASE ~Accepts
    <3>1. UNCHANGED queue /\ SkipVerdict(frame.id)
      BY <1>2, <2>3 DEF Submit, Enqueue
    <3>2. Verdict(frame.id, "skipped")
      BY <3>1 DEF SkipVerdict, milterComparisonMetricResult
    <3> QED BY <2>1, <3>1, <3>2 DEF Refuses
  <2> QED BY <2>2, <2>3
<1>3. CASE FinishPrimaryOnly
  <2>1. /\ hpc = "submit" /\ hpc' = "read" /\ UNCHANGED <<queue, work, frame, wpc, shadow, gpc, gerr>>
        /\ Base' = Base /\ SkipVerdict(frame.id)
    BY <1>3 DEF FinishPrimaryOnly, Base, Unsent
  <2>2. Verdict(frame.id, "skipped")
    BY <2>1 DEF SkipVerdict, milterComparisonMetricResult
  <2> QED BY <2>1, <2>2 DEF Refuses
<1>4. CASE WorkerSkips
  <2>1. Take /\ wpc = "idle" /\ UNCHANGED <<hpc, shadow, wpc>> /\ SkipVerdict(Head(queue).frame.id)
    BY <1>4 DEF WorkerSkips, Take
  <2>2. Verdict(Head(queue).frame.id, "skipped")
    BY <2>1 DEF SkipVerdict, milterComparisonMetricResult
  <2> QED BY <2>1, <2>2 DEF Skips, InHand, Base, Unsent
<1>5. CASE WorkerOpens \/ WorkerRuns
  BY <1>5, TakeBegins
<1>6. CASE ShadowDialFailed
  BY <1>6, DialReports DEF Results
<1>7. CASE WorkerCompletes \/ WorkerAborts
  BY <1>7, CompleteReports
<1>8. CASE ReadFrame \/ PrimarySend \/ PrimaryReceive \/ writePrimaryFrame \/ CloseWorker \/ CloseConn
  BY <1>0, <1>8 DEF ReadFrame, PrimarySend, PrimaryReceive, writePrimaryFrame, CloseWorker, CloseConn,
     Silent, InHand, Base, Unsent
<1>9. CASE ReadBroken \/ PrimaryReceiveFailed \/ ReadClosed \/ PrimarySendFailed \/ WriteFailed
           \/ DialPrimaryFailed
  BY <1>0, <1>9 DEF ReadBroken, PrimaryReceiveFailed, ReadClosed, PrimarySendFailed, WriteFailed, Leave,
     DialPrimaryFailed, Silent, InHand, Base, Unsent
<1>10. CASE DialPrimary
  <2>1. wpc = "none" /\ wpc' \in {"idle", "none"} /\ hpc = "dial"
        /\ UNCHANGED <<verdicts, queue, work, shadow, gpc>>
    BY <1>10 DEF DialPrimary, OrderInv
  <2> QED BY <1>0, <2>1 DEF Silent, InHand, Base, Unsent
<1>11. CASE ShadowDialled \/ WorkerTimesOut \/ WorkerExits
  BY <1>0, <1>11 DEF ShadowDialled, WorkerTimesOut, WorkerExits, StartEvent, Silent, InHand, Base, Unsent
<1>12. CASE ShadowSend
  <2>1. /\ shadow'.log = Append(shadow.log, work.frame) /\ work.frame \in Frames
        /\ gpc' # "send" /\ UNCHANGED <<hpc, verdicts, queue, work, wpc>>
    <3>1. gpc = "send" /\ work \in Works
      BY <1>12 DEF ShadowSend, TypeInv, CurrentFrames
    <3> QED BY <1>12, <3>1, WorkFrame, SendLog, LogTypes DEF ShadowSend
  <2>2. Len(shadow'.log) = Len(shadow.log) + 1
    BY <2>1, LogTypes
  <2>3. gpc = "send" /\ wpc \in {"wait", "abort"}
    BY <1>12 DEF ShadowSend, OrderInv
  <2> QED BY <1>0, <2>1, <2>2, <2>3 DEF Silent, InHand, Base, Unsent
<1>13. CASE ShadowReceive \/ ShadowOpFailed \/ ShadowAnswers
  <2>1. shadow'.log = shadow.log
    BY <1>13, ReadReplyLog, AnswerLog, LogTypes DEF ShadowReceive, ShadowOpFailed, ShadowAnswers
  <2>2. UNCHANGED <<hpc, verdicts, queue, work, wpc>> /\ (gpc' = gpc \/ gpc' # "send")
    BY <1>13 DEF ShadowReceive, ShadowOpFailed, ShadowAnswers
  <2> QED BY <1>0, <2>1, <2>2 DEF Silent, InHand, Base, Unsent
<1>14. CASE PrimaryAnswers
  BY <1>1, <1>14 DEF PrimaryAnswers
<1> QED
  BY <1>1, <1>2, <1>3, <1>4, <1>5, <1>6, <1>7, <1>8, <1>9, <1>10, <1>11, <1>12, <1>13, <1>14, Moves
     DEF HandlerMove, WorkerMove

\* The number of frames handed over only grows; the one being handed over is the next.
LEMMA SubmittedMoves ==
  ASSUME TypeInv, IdInv, [Next]_vars
  PROVE  /\ Submitted \in Nat /\ Submitted' \in Nat /\ Submitted <= Submitted'
         /\ hpc = "submit" => frame.id = Submitted + 1
         /\ hpc = "submit" /\ hpc' = "read" => Submitted' = Submitted + 1
<1>0. /\ nread \in Nat /\ (Open => nread > 0 /\ frame.id = nread)
      /\ hpc \in {"dial", "read", "send", "receive", "write", "submit", "close", "await", "closed"}
  BY ConnAssumption DEF TypeInv, TypeOK, IdInv
<1> USE DEF clientVars, handlerVars, queueVars, workerVars, goVars
<1>1. \/ UNCHANGED <<hpc, nread>>
      \/ hpc = "read" /\ hpc' = "send" /\ nread' = nread + 1
      \/ UNCHANGED nread /\ hpc' \in {"close", "await", "closed"}
      \/ UNCHANGED nread /\ hpc \in {"send", "receive", "write"} /\ hpc' \in {"receive", "write", "submit"}
      \/ UNCHANGED nread /\ hpc \in {"dial", "submit"} /\ hpc' = "read"
  <2>1. CASE ReadBroken \/ PrimaryReceiveFailed \/ ReadClosed \/ PrimarySendFailed \/ WriteFailed
             \/ DialPrimaryFailed \/ CloseWorker \/ CloseConn
    BY <2>1 DEF ReadBroken, PrimaryReceiveFailed, ReadClosed, PrimarySendFailed, WriteFailed, Leave,
       DialPrimaryFailed, CloseWorker, CloseConn
  <2>2. CASE ReadFrame \/ PrimarySend \/ PrimaryReceive \/ writePrimaryFrame \/ Submit
             \/ FinishPrimaryOnly \/ DialPrimary
    BY <2>2 DEF ReadFrame, PrimarySend, PrimaryReceive, writePrimaryFrame, Submit, FinishPrimaryOnly,
       DialPrimary
  <2>3. CASE ShadowSend \/ ShadowReceive \/ ShadowOpFailed \/ ShadowAnswers \/ PrimaryAnswers
    BY <2>3 DEF ShadowSend, ShadowReceive, ShadowOpFailed, ShadowAnswers, PrimaryAnswers
  <2> QED BY <2>1, <2>2, <2>3, Moves DEF HandlerMove
<1> QED BY <1>0, <1>1 DEF Submitted, Open

\* The item in hand and those in the queue are frames of the connection.
LEMMA ItemTypes ==
  ASSUME TypeInv
  PROVE  /\ \A j \in 1..Len(queue) : queue[j].frame.id \in Nat
         /\ InHand => work.frame.id \in Nat
         /\ \A v \in 1..Len(verdicts) : verdicts[v].id \in Nat
<1>0. queue \in Seq(Works) /\ verdicts \in Seq(Verdicts) /\ (InHand => work \in Works)
  BY DEF TypeInv, TypeOK, CurrentFrames, InHand
<1>1. \A w \in Works : w.frame.id \in Nat
  BY ConnAssumption DEF Works, Frames
<1>2. \A v \in Verdicts : v.id \in Nat
  BY ConnAssumption DEF Verdicts
<1>3. \A j \in 1..Len(queue) : queue[j] \in Works
  BY <1>0, ElementOfSeq
<1>4. \A v \in 1..Len(verdicts) : verdicts[v] \in Verdicts
  BY <1>0, ElementOfSeq
<1> QED BY <1>0, <1>1, <1>2, <1>3, <1>4

\* The queue after an item was added, or its first one taken.
LEMMA AppendedQueue ==
  ASSUME TypeInv, HandsOver
  PROVE  /\ Len(queue') = Len(queue) + 1 /\ queue'[Len(queue) + 1].frame = frame
         /\ \A j \in 1..Len(queue) : queue'[j] = queue[j]
<1>0. queue \in Seq(Works)
  BY LogTypes
<1> DEFINE w == [frame |-> frame, raw |-> Codes(raw)]
<1>1. w.frame = frame /\ queue' = Append(queue, w)
  BY DEF HandsOver
<1> HIDE DEF w
<1> QED BY <1>0, <1>1

LEMMA TakenQueue ==
  ASSUME TypeInv, Take
  PROVE  /\ Len(queue) > 0 /\ Len(queue') = Len(queue) - 1 /\ work' = queue[1] /\ Head(queue) = queue[1]
         /\ \A j \in 1..Len(queue') : queue'[j] = queue[j + 1] /\ j + 1 \in 1..Len(queue)
  BY LogTypes DEF Take

LEMMA InitSent == Init => SentInv
  BY DEF Init, SentInv, Submitted, Open, InHand, Event, Base, Unsent, NewBackend

LEMMA NextSent ==
  ASSUME TypeInv, OrderInv, IdInv, WorkerInv, SentInv, ShadowTurn, [Next]_vars
  PROVE  SentInv'
<1>0. TypeInv'
  BY NextType
<1> DEFINE Order == /\ Base' <= Submitted'
                    /\ \A j \in 1..Len(queue') : /\ Base' < queue'[j].frame.id
                                                 /\ queue'[j].frame.id <= Submitted'
                    /\ \A i, j \in 1..Len(queue') : i < j => queue'[i].frame.id < queue'[j].frame.id
                    /\ InHand' => work'.frame.id <= Submitted'
                    /\ InHand' => \A j \in 1..Len(queue') : work'.frame.id < queue'[j].frame.id
<1>a. /\ Base \in Nat /\ Base' \in Nat /\ Submitted \in Nat /\ Submitted' \in Nat
      /\ Submitted <= Submitted' /\ Len(queue) \in Nat
      /\ \A j \in 1..Len(queue) : queue[j].frame.id \in Nat
      /\ InHand => work.frame.id \in Nat
  <2>1. Base \in Nat /\ Len(queue) \in Nat
    BY BaseType
  <2>2. Base' \in Nat
    <3>1. Base' = IF Unsent' THEN Len(shadow'.log) + 1 ELSE Len(shadow'.log)
      BY DEF Base
    <3>2. shadow'.log \in Seq(Frames)
      BY <1>0 DEF TypeInv, TypeOK, Backends
    <3> QED BY <3>1, <3>2
  <2> QED BY <2>1, <2>2, SubmittedMoves, ItemTypes
<1>b. /\ Base <= Submitted
      /\ \A j \in 1..Len(queue) : Base < queue[j].frame.id /\ queue[j].frame.id <= Submitted
      /\ \A i, j \in 1..Len(queue) : i < j => queue[i].frame.id < queue[j].frame.id
      /\ InHand => work.frame.id <= Submitted
      /\ InHand => \A j \in 1..Len(queue) : work.frame.id < queue[j].frame.id
  BY DEF SentInv
<1>c. Take => \A i, j \in 1..Len(queue') : i < j => queue'[i].frame.id < queue'[j].frame.id
  <2> SUFFICES ASSUME Take, NEW i \in 1..Len(queue'), NEW j \in 1..Len(queue'), i < j
               PROVE  queue'[i].frame.id < queue'[j].frame.id
    OBVIOUS
  <2>1. /\ i + 1 \in 1..Len(queue) /\ j + 1 \in 1..Len(queue) /\ i + 1 < j + 1
        /\ queue'[i] = queue[i + 1] /\ queue'[j] = queue[j + 1]
    BY <1>a, TakenQueue
  <2> QED BY <1>b, <2>1
<1>1. Order
  <2>1. CASE Silent
    <3>1. UNCHANGED <<queue, work>> /\ (InHand' <=> InHand) /\ Base' <= Base
      BY <2>1 DEF Silent
    <3>2. ASSUME NEW j \in 1..Len(queue')
          PROVE  Base' < queue'[j].frame.id /\ queue'[j].frame.id <= Submitted'
      <4>1. j \in 1..Len(queue) /\ queue'[j] = queue[j]
        BY <3>1
      <4>2. Base < queue[j].frame.id /\ queue[j].frame.id <= Submitted /\ queue[j].frame.id \in Nat
        BY <1>a, <1>b, <4>1
      <4> QED BY <1>a, <3>1, <4>1, <4>2
    <3>3. Base' <= Submitted'
      BY <1>a, <1>b, <3>1
    <3>4. InHand' => work'.frame.id <= Submitted'
      BY <1>a, <1>b, <3>1
    <3>5. InHand' => \A j \in 1..Len(queue') : work'.frame.id < queue'[j].frame.id
      BY <1>b, <3>1
    <3>6. \A i, j \in 1..Len(queue') : i < j => queue'[i].frame.id < queue'[j].frame.id
      BY <1>b, <3>1
    <3> QED BY <3>2, <3>3, <3>4, <3>5, <3>6
  <2>2. CASE HandsOver
    <3>1. /\ frame.id = Submitted + 1 /\ Submitted' = Submitted + 1 /\ Base' = Base
          /\ UNCHANGED work /\ (InHand' <=> InHand)
      BY <2>2, SubmittedMoves DEF HandsOver, InHand
    <3>2. ASSUME NEW j \in 1..Len(queue')
          PROVE  \/ j \in 1..Len(queue) /\ queue'[j] = queue[j]
                 \/ j = Len(queue) + 1 /\ queue'[j].frame.id = Submitted + 1
      BY <1>a, <2>2, <3>1, AppendedQueue
    <3>3. \A j \in 1..Len(queue') : Base' < queue'[j].frame.id /\ queue'[j].frame.id <= Submitted'
      BY <1>a, <1>b, <3>1, <3>2
    <3>4. ASSUME NEW i \in 1..Len(queue'), NEW j \in 1..Len(queue'), i < j
          PROVE  queue'[i].frame.id < queue'[j].frame.id
      <4>1. i \in 1..Len(queue) /\ queue'[i] = queue[i]
        BY <1>a, <2>2, <3>2, <3>4, AppendedQueue
      <4>2. queue[i].frame.id <= Submitted /\ queue[i].frame.id \in Nat
        BY <1>a, <1>b, <4>1
      <4>3. CASE j \in 1..Len(queue) /\ queue'[j] = queue[j]
        BY <1>b, <3>4, <4>1, <4>3
      <4>4. CASE queue'[j].frame.id = Submitted + 1
        BY <1>a, <4>1, <4>2, <4>4
      <4> QED BY <3>2, <4>3, <4>4
    <3>5. ASSUME InHand', NEW j \in 1..Len(queue') PROVE work'.frame.id < queue'[j].frame.id
      <4>1. InHand /\ work' = work /\ work.frame.id \in Nat /\ work.frame.id <= Submitted
        BY <1>a, <1>b, <3>1, <3>5
      <4>2. CASE j \in 1..Len(queue) /\ queue'[j] = queue[j]
        BY <1>b, <4>1, <4>2
      <4>3. CASE queue'[j].frame.id = Submitted + 1
        BY <1>a, <4>1, <4>3
      <4> QED BY <3>2, <4>2, <4>3
    <3>6. Base' <= Submitted' /\ (InHand' => work'.frame.id <= Submitted')
      BY <1>a, <1>b, <3>1
    <3> QED BY <3>3, <3>4, <3>5, <3>6
  <2>3. CASE Refuses
    BY <1>a, <1>b, <2>3 DEF Refuses, InHand
  <2>4. CASE Skips
    <3>1. Take /\ ~InHand' /\ Base' = Base
      BY <2>4 DEF Skips
    <3>2. ASSUME NEW j \in 1..Len(queue')
          PROVE  Base' < queue'[j].frame.id /\ queue'[j].frame.id <= Submitted'
      <4>1. j + 1 \in 1..Len(queue) /\ queue'[j] = queue[j + 1]
        BY <3>1, TakenQueue
      <4>2. /\ Base < queue[j + 1].frame.id /\ queue[j + 1].frame.id <= Submitted
            /\ queue[j + 1].frame.id \in Nat
        BY <1>a, <1>b, <4>1
      <4> QED BY <1>a, <3>1, <4>1, <4>2
    <3>3. \A i, j \in 1..Len(queue') : i < j => queue'[i].frame.id < queue'[j].frame.id
      BY <1>c, <3>1
    <3>4. Base' <= Submitted'
      BY <1>a, <1>b, <3>1
    <3> QED BY <3>1, <3>2, <3>3, <3>4
  <2>5. CASE Begins
    <3>1. Take /\ InHand' /\ Base' = Base + 1 /\ queue[1].frame.id = Base + 1 /\ work' = queue[1]
      BY <2>5, TakenQueue DEF Begins
    <3>2. ASSUME NEW j \in 1..Len(queue')
          PROVE  j + 1 \in 1..Len(queue) /\ queue'[j] = queue[j + 1] /\ 1 < j + 1 /\ 1 \in 1..Len(queue)
      BY <1>a, <3>1, TakenQueue
    <3>3. ASSUME NEW j \in 1..Len(queue') PROVE queue[1].frame.id < queue'[j].frame.id
      BY <1>b, <3>2
    <3>4. \A i, j \in 1..Len(queue') : i < j => queue'[i].frame.id < queue'[j].frame.id
      BY <1>c, <3>1
    <3>5. queue[1].frame.id <= Submitted
      BY <1>a, <1>b, <3>1, TakenQueue
    <3>6. ASSUME NEW j \in 1..Len(queue') PROVE queue'[j].frame.id <= Submitted'
      <4>1. queue[j + 1].frame.id <= Submitted /\ queue[j + 1].frame.id \in Nat
        BY <1>a, <1>b, <3>2
      <4> QED BY <1>a, <3>2, <4>1
    <3>7. Base' <= Submitted' /\ work'.frame.id <= Submitted'
      <4>1. queue[1].frame.id \in Nat
        BY <3>1, <1>a
      <4> QED BY <1>a, <3>1, <3>5, <4>1
    <3>8. ASSUME NEW j \in 1..Len(queue')
          PROVE  Base' < queue'[j].frame.id /\ work'.frame.id < queue'[j].frame.id
      BY <3>1, <3>3
    <3> QED BY <3>4, <3>6, <3>7, <3>8
  <2>6. ASSUME NEW res, Reports(res) PROVE Order
    BY <1>a, <1>b, <2>6 DEF Reports
  <2> QED BY <2>1, <2>2, <2>3, <2>4, <2>5, <2>6, ReportMoves
<1>2. Event' /\ gpc' \in {"receive", "done"} /\ ~gerr' => work'.frame.id = Len(shadow'.log)
  <2> USE DEF clientVars, handlerVars, queueVars, workerVars, goVars
  <2> SUFFICES ASSUME Event', gpc' \in {"receive", "done"}, ~gerr'
               PROVE  work'.frame.id = Len(shadow'.log)
    OBVIOUS
  <2>1. CASE ShadowSend
    <3>1. /\ shadow'.log = Append(shadow.log, work.frame) /\ work \in Works /\ UNCHANGED work
      BY <2>1, ShadowLogMoves DEF ShadowSend, TypeInv, CurrentFrames, Send
    <3>2. Unsent
      BY <2>1 DEF ShadowSend, Unsent, OrderInv
    <3>3. work.frame = primary.log[Len(shadow.log) + 1] /\ Len(shadow.log) < Len(primary.log)
      BY <3>2 DEF OrderInv
    <3>4. work.frame.id = Len(shadow.log) + 1
      BY <3>3, LogTypes DEF IdInv
    <3>5. Len(shadow'.log) = Len(shadow.log) + 1
      BY <3>1, LogTypes
    <3> QED BY <3>1, <3>4, <3>5
  <2>2. CASE ShadowReceive
    <3>1. gpc = "receive" /\ session = "open" /\ UNCHANGED <<work, wpc, gerr>> /\ shadow'.log = shadow.log
      BY <2>2, ReadReplyLog, LogTypes DEF ShadowReceive
    <3> QED BY <3>1 DEF SentInv, Event
  <2>3. CASE ShadowAnswers
    <3>1. UNCHANGED <<work, wpc, gpc, gerr>> /\ shadow'.log = shadow.log
      BY <2>3, AnswerLog, LogTypes DEF ShadowAnswers
    <3> QED BY <3>1 DEF SentInv, Event
  <2>4. CASE UNCHANGED <<work, wpc, gpc, gerr, shadow>>
    BY <2>4 DEF SentInv, Event
  <2>5. CASE ShadowOpFailed
    BY <2>5 DEF ShadowOpFailed
  <2>6. CASE WorkerMove
    <3>1. CASE WorkerTimesOut
      BY <3>1 DEF WorkerTimesOut, SentInv, Event
    <3>2. CASE ~WorkerTimesOut
      BY <2>6, <3>2 DEF WorkerMove, WorkerSkips, WorkerOpens, WorkerRuns, ShadowDialled, ShadowDialFailed,
         WorkerCompletes, WorkerAborts, WorkerExits, Complete, Take, StartEvent, Event
    <3> QED BY <3>1, <3>2
  <2>7. CASE DialPrimary
    BY <2>7 DEF DialPrimary, Event
  <2>8. CASE PrimaryAnswers
    BY <2>4, <2>8 DEF PrimaryAnswers
  <2> QED BY <2>1, <2>2, <2>3, <2>4, <2>5, <2>6, <2>7, <2>8, Moves
<1> QED BY <1>1, <1>2 DEF SentInv

LEMMA AppendedVerdict ==
  ASSUME TypeInv, NEW id, NEW res, Verdict(id, res)
  PROVE  /\ Len(verdicts') = Len(verdicts) + 1
         /\ verdicts'[Len(verdicts) + 1].id = id /\ verdicts'[Len(verdicts) + 1].result = res
         /\ \A v \in 1..Len(verdicts) : verdicts'[v] = verdicts[v]
<1>0. verdicts \in Seq(Verdicts)
  BY DEF TypeInv, TypeOK
<1> DEFINE w == [id |-> id, result |-> res]
<1>1. w.id = id /\ w.result = res /\ verdicts' = Append(verdicts, w)
  BY DEF Verdict
<1> HIDE DEF w
<1> QED BY <1>0, <1>1

LEMMA InitReport == Init => ReportInv /\ AccountInv
<1> SUFFICES ASSUME Init PROVE ReportInv /\ AccountInv
  OBVIOUS
<1>1. Len(verdicts) = 0 /\ Len(primary.log) = 0
  BY DEF Init, NewBackend
<1> QED BY <1>1 DEF ReportInv, AccountInv

LEMMA NextReport ==
  ASSUME TypeInv, OrderInv, IdInv, WorkerInv, SentInv, ReportInv, [Next]_vars
  PROVE  ReportInv'
<1>a. /\ Base \in Nat /\ Submitted \in Nat /\ Submitted' \in Nat /\ Submitted <= Submitted'
      /\ Len(queue) \in Nat /\ Len(verdicts) \in Nat
      /\ \A j \in 1..Len(queue) : queue[j].frame.id \in Nat
      /\ \A v \in 1..Len(verdicts) : verdicts[v].id \in Nat
      /\ InHand => work.frame.id \in Nat
  BY BaseType, SubmittedMoves, ItemTypes
<1>b. /\ Base <= Submitted
      /\ \A j \in 1..Len(queue) : Base < queue[j].frame.id /\ queue[j].frame.id <= Submitted
      /\ \A i, j \in 1..Len(queue) : i < j => queue[i].frame.id < queue[j].frame.id
      /\ InHand => work.frame.id <= Submitted
      /\ InHand => \A j \in 1..Len(queue) : work.frame.id < queue[j].frame.id
  BY DEF SentInv
<1>c. Len(shadow.log) <= Len(shadow'.log) /\ Len(shadow.log) \in Nat /\ Len(shadow'.log) \in Nat
  BY ShadowLogMoves, LogTypes
<1>d. Base' \in Nat
  <2>1. Base' = IF Unsent' THEN Len(shadow'.log) + 1 ELSE Len(shadow'.log)
    BY DEF Base
  <2> QED BY <1>c, <2>1
<1>e. ASSUME NEW v \in 1..Len(verdicts)
      PROVE  /\ verdicts[v].id <= Submitted'
             /\ verdicts[v].result \in {"same", "diff"} => verdicts[v].id <= Len(shadow'.log)
  BY <1>a, <1>c DEF ReportInv
\* What is to be shown of each report v, and of the list.
<1> DEFINE Apart(id) == /\ \A j \in 1..Len(queue') : id # queue'[j].frame.id
                        /\ InHand' => id # work'.frame.id
<1> DEFINE Each == \A v \in 1..Len(verdicts') :
                     /\ verdicts'[v].id <= Submitted' /\ Apart(verdicts'[v].id)
                     /\ verdicts'[v].result \in {"same", "diff"} => verdicts'[v].id <= Len(shadow'.log)
                     /\ verdicts'[v].result = "skipped" => verdicts'[v].id > Base'
<1> DEFINE Once == \A v, w \in 1..Len(verdicts') : verdicts'[v].id = verdicts'[w].id => v = w
<1>1. CASE Silent
  <2>1. /\ UNCHANGED <<verdicts, queue, work>> /\ (InHand' <=> InHand) /\ Base' <= Base
    BY <1>1 DEF Silent
  <2>2. Once
    BY <2>1 DEF ReportInv
  <2>3. Each
    BY <1>a, <1>d, <1>e, <2>1 DEF ReportInv
  <2> QED BY <2>2, <2>3 DEF ReportInv
<1>2. CASE HandsOver
  <2>1. /\ UNCHANGED <<verdicts, work>> /\ (InHand' <=> InHand) /\ Base' = Base
        /\ frame.id = Submitted + 1
    BY <1>2, SubmittedMoves DEF HandsOver, InHand
  <2>2. Once
    BY <2>1 DEF ReportInv
  <2>3. ASSUME NEW j \in 1..Len(queue')
        PROVE  queue'[j].frame.id = Submitted + 1 \/ (j \in 1..Len(queue) /\ queue'[j] = queue[j])
    BY <1>2, <1>a, <2>1, AppendedQueue
  <2>4. ASSUME NEW v \in 1..Len(verdicts) PROVE Apart(verdicts[v].id)
    <3>1. /\ \A j \in 1..Len(queue) : verdicts[v].id # queue[j].frame.id
          /\ InHand => verdicts[v].id # work.frame.id
          /\ verdicts[v].id <= Submitted
      BY DEF ReportInv
    <3>2. verdicts[v].id # Submitted + 1
      BY <1>a, <3>1
    <3> QED BY <2>1, <2>3, <3>1, <3>2
  <2>5. Each
    BY <1>a, <1>e, <2>1, <2>4 DEF ReportInv
  <2> QED BY <2>2, <2>5 DEF ReportInv
<1>3. CASE Begins
  <2>1. Take /\ ~InHand /\ InHand' /\ UNCHANGED verdicts /\ Base' = Base + 1 /\ work' = queue[1]
        /\ queue[1].frame.id = Base + 1 /\ 1 \in 1..Len(queue)
    BY <1>3, <1>a, TakenQueue DEF Begins
  <2>2. Once
    BY <2>1 DEF ReportInv
  <2>3. ASSUME NEW v \in 1..Len(verdicts) PROVE Apart(verdicts[v].id)
    <3>1. \A j \in 1..Len(queue) : verdicts[v].id # queue[j].frame.id
      BY DEF ReportInv
    <3>2. \A j \in 1..Len(queue') : queue'[j] = queue[j + 1] /\ j + 1 \in 1..Len(queue)
      BY <2>1, TakenQueue
    <3> QED BY <2>1, <3>1, <3>2
  <2>4. ASSUME NEW v \in 1..Len(verdicts), verdicts[v].result = "skipped" PROVE verdicts[v].id > Base'
    <3>1. verdicts[v].id > Base /\ verdicts[v].id # queue[1].frame.id
      BY <2>1, <2>4 DEF ReportInv
    <3> QED BY <1>a, <2>1, <3>1
  <2>5. Each
    BY <1>e, <2>1, <2>3, <2>4
  <2> QED BY <2>2, <2>5 DEF ReportInv
\* A new report.
<1>4. ASSUME NEW id \in Nat, NEW res, Verdict(id, res), id <= Submitted', Apart(id),
             \A v \in 1..Len(verdicts) : verdicts[v].id # id /\ Apart(verdicts[v].id),
             res \in {"same", "diff"} => id <= Len(shadow'.log), res = "skipped" => id > Base',
             Base' <= Base
      PROVE  ReportInv'
  <2>1. ASSUME NEW v \in 1..Len(verdicts')
        PROVE  \/ v \in 1..Len(verdicts) /\ verdicts'[v] = verdicts[v]
               \/ v = Len(verdicts) + 1 /\ verdicts'[v].id = id /\ verdicts'[v].result = res
    BY <1>4, <1>a, AppendedVerdict
  <2>2. Once
    BY <1>4, <2>1 DEF ReportInv
  <2>3. ASSUME NEW v \in 1..Len(verdicts) PROVE verdicts[v].result = "skipped" => verdicts[v].id > Base'
    BY <1>4, <1>a, <1>d DEF ReportInv
  <2> HIDE DEF Apart
  <2>4. Each
    BY <1>4, <1>e, <2>1, <2>3
  <2> USE DEF Apart
  <2> QED BY <2>2, <2>4 DEF ReportInv
<1>5. CASE Refuses
  <2>1. /\ UNCHANGED <<queue, work>> /\ (InHand' <=> InHand) /\ Base' = Base /\ Verdict(frame.id, "skipped")
        /\ frame.id = Submitted + 1 /\ Submitted' = Submitted + 1
    BY <1>5, SubmittedMoves DEF Refuses, InHand
  <2>2. Apart(frame.id)
    BY <1>a, <1>b, <2>1
  <2>3. \A v \in 1..Len(verdicts) : verdicts[v].id # frame.id /\ Apart(verdicts[v].id)
    BY <1>a, <2>1 DEF ReportInv
  <2>4. frame.id \in Nat /\ frame.id <= Submitted' /\ frame.id > Base' /\ Base' <= Base
    BY <1>a, <1>b, <2>1
  <2> QED BY <1>4, <2>1, <2>2, <2>3, <2>4
<1>6. CASE Skips
  <2>1. /\ Take /\ ~InHand' /\ Base' = Base /\ Verdict(queue[1].frame.id, "skipped") /\ 1 \in 1..Len(queue)
    BY <1>6, <1>a, TakenQueue DEF Skips
  <2>2. Apart(queue[1].frame.id)
    <3> SUFFICES ASSUME NEW j \in 1..Len(queue') PROVE queue[1].frame.id # queue'[j].frame.id
      BY <2>1
    <3>1. queue'[j] = queue[j + 1] /\ j + 1 \in 1..Len(queue) /\ 1 < j + 1
      BY <1>a, <2>1, TakenQueue
    <3>2. queue[1].frame.id < queue[j + 1].frame.id
      BY <1>b, <2>1, <3>1
    <3> QED BY <1>a, <2>1, <3>1, <3>2
  <2>3. \A v \in 1..Len(verdicts) : verdicts[v].id # queue[1].frame.id /\ Apart(verdicts[v].id)
    BY <2>1, TakenQueue DEF ReportInv
  <2>4. queue[1].frame.id \in Nat /\ queue[1].frame.id <= Submitted' /\ queue[1].frame.id > Base'
        /\ Base' <= Base
    BY <1>a, <1>b, <2>1
  <2> QED BY <1>4, <2>1, <2>2, <2>3, <2>4
<1>7. ASSUME NEW res, Reports(res) PROVE ReportInv'
  <2>1. /\ InHand /\ ~InHand' /\ UNCHANGED <<queue, shadow>> /\ Verdict(work.frame.id, res) /\ Base' <= Base
        /\ res \in {"same", "diff"} => work.frame.id <= Len(shadow.log)
        /\ res = "skipped" => work.frame.id > Base'
    BY <1>7 DEF Reports
  <2>2. Apart(work.frame.id)
    BY <1>a, <1>b, <2>1
  <2>3. \A v \in 1..Len(verdicts) : verdicts[v].id # work.frame.id /\ Apart(verdicts[v].id)
    BY <2>1 DEF ReportInv
  <2>4. work.frame.id \in Nat /\ work.frame.id <= Submitted'
    BY <1>a, <1>b, <2>1
  <2> QED BY <1>4, <2>1, <2>2, <2>3, <2>4
<1> QED BY <1>1, <1>2, <1>3, <1>5, <1>6, <1>7, ReportMoves

\* How a turn ends, and that a connection being closed stays so.
LEMMA TurnMoves ==
  ASSUME TypeInv, [Next]_vars
  PROVE  /\ \/ primary'.log = primary.log
            \/ hpc = "send" /\ Handling' /\ primary'.log = Append(primary.log, frame) /\ frame \in Frames
         /\ Handling => \/ Handling'
                        \/ hpc = "submit" /\ hpc' = "read"
                        \/ hpc \in {"receive", "write"} /\ hpc' = "close" /\ UNCHANGED clientGot
         /\ hpc \in {"close", "await", "closed"} =>
              hpc' \in {"close", "await", "closed"} /\ UNCHANGED clientGot
<1>0. primary \in Backends
  BY LogTypes
<1> USE DEF clientVars, handlerVars, queueVars, workerVars, goVars
<1>1. CASE UNCHANGED <<hpc, clientGot>> /\ primary'.log = primary.log
  BY <1>1 DEF Handling
<1>2. CASE ReadBroken \/ PrimaryReceiveFailed \/ ReadClosed \/ PrimarySendFailed \/ WriteFailed
           \/ DialPrimaryFailed \/ CloseWorker \/ CloseConn
  BY <1>2 DEF ReadBroken, PrimaryReceiveFailed, ReadClosed, PrimarySendFailed, WriteFailed, Leave,
     DialPrimaryFailed, CloseWorker, CloseConn, Handling
<1>3. CASE ReadFrame \/ writePrimaryFrame \/ Submit \/ FinishPrimaryOnly \/ DialPrimary
  BY <1>3 DEF ReadFrame, writePrimaryFrame, Submit, FinishPrimaryOnly, DialPrimary, Handling
<1>4. CASE PrimarySend
  <2>1. frame \in Frames /\ hpc = "send"
    BY <1>4 DEF PrimarySend, TypeInv, CurrentFrames
  <2> QED BY <1>0, <1>4, <2>1, SendLog DEF PrimarySend, Handling
<1>5. CASE PrimaryReceive
  BY <1>0, <1>5, ReadReplyLog DEF PrimaryReceive, Handling
<1>6. CASE ShadowSend \/ ShadowReceive \/ ShadowOpFailed \/ ShadowAnswers
  BY <1>1, <1>6 DEF ShadowSend, ShadowReceive, ShadowOpFailed, ShadowAnswers
<1>7. CASE PrimaryAnswers
  BY <1>0, <1>1, <1>7, AnswerLog DEF PrimaryAnswers
<1> QED BY <1>1, <1>2, <1>3, <1>4, <1>5, <1>6, <1>7, Moves DEF HandlerMove

LEMMA NextAccount ==
  ASSUME TypeInv, OrderInv, PrimaryTurn, IdInv, WorkerInv, SentInv, AccountInv, [Next]_vars
  PROVE  AccountInv'
<1>0. /\ primary.log \in Seq(Frames) /\ Len(queue) \in Nat /\ Len(verdicts) \in Nat
      /\ clientGot \in Seq(Turns)
  BY LogTypes, BaseType DEF TypeInv, TypeOK
<1> SUFFICES ASSUME NEW i \in 1..Len(primary'.log)
             PROVE  \/ \E v \in 1..Len(verdicts') : verdicts'[v].id = i
                    \/ \E j \in 1..Len(queue') : queue'[j].frame.id = i
                    \/ InHand' /\ work'.frame.id = i
                    \/ Handling' /\ i = Len(primary'.log)
                    \/ /\ hpc' \in {"close", "await", "closed"}
                       /\ ~ClearedIn(primary'.log[i], clientGot')
  BY DEF AccountInv, Cleared
<1> DEFINE Reported == \E v \in 1..Len(verdicts') : verdicts'[v].id = i
<1> DEFINE Queued == \E j \in 1..Len(queue') : queue'[j].frame.id = i
<1> DEFINE Held == InHand' /\ work'.frame.id = i
<1>1. CASE hpc = "send" /\ Handling' /\ primary'.log = Append(primary.log, frame) /\ frame \in Frames
           /\ i = Len(primary.log) + 1
  BY <1>0, <1>1
<1>2. \/ i = Len(primary.log) + 1 /\ hpc = "send" /\ Handling' /\ frame \in Frames
         /\ primary'.log = Append(primary.log, frame)
      \/ /\ i \in 1..Len(primary.log) /\ primary'.log[i] = primary.log[i]
         /\ primary'.log = primary.log \/ hpc = "send"
  BY <1>0, TurnMoves, SMTT(30)
<1> HIDE DEF Reported, Queued, Held
\* A report stays.
<1>3. ASSUME NEW v \in 1..Len(verdicts), verdicts[v].id = i PROVE Reported
  <2>1. CASE UNCHANGED verdicts
    BY <1>3, <2>1 DEF Reported
  <2>2. ASSUME NEW id, NEW res, Verdict(id, res) PROVE Reported
    BY <1>0, <1>3, <2>2, AppendedVerdict DEF Reported
  <2>3. UNCHANGED verdicts \/ \E id, res : Verdict(id, res)
    BY ReportMoves DEF Silent, HandsOver, Refuses, Skips, Begins, Reports
  <2> QED BY <2>1, <2>2, <2>3
\* A queued item stays in the queue, is taken or is reported.
<1>4. ASSUME NEW j \in 1..Len(queue), queue[j].frame.id = i PROVE Reported \/ Queued \/ Held
  <2>1. CASE UNCHANGED queue
    BY <1>4, <2>1 DEF Queued
  <2>2. CASE HandsOver
    BY <1>0, <1>4, <2>2, AppendedQueue DEF Queued
  <2>3. CASE Take /\ j # 1
    <3>1. j - 1 \in 1..Len(queue') /\ queue'[j - 1] = queue[(j - 1) + 1] /\ (j - 1) + 1 = j
      <4>1. Len(queue') = Len(queue) - 1 /\ Len(queue) \in Nat /\ j \in 2..Len(queue)
        BY <1>0, <2>3, TakenQueue
      <4>2. j - 1 \in 1..Len(queue') /\ (j - 1) + 1 = j
        BY <4>1
      <4> QED BY <2>3, <4>2, TakenQueue
    <3> QED BY <1>4, <3>1 DEF Queued
  <2>4. CASE Skips /\ j = 1
    <3>1. Verdict(i, "skipped")
      BY <1>4, <2>4, TakenQueue DEF Skips
    <3> QED BY <1>0, <3>1, AppendedVerdict DEF Reported
  <2>5. CASE Begins /\ j = 1
    BY <1>4, <2>5, TakenQueue DEF Begins, Held
  <2> QED BY <2>1, <2>2, <2>3, <2>4, <2>5, ReportMoves DEF Silent, Refuses, Skips, Begins, Reports
\* The item in hand stays there or is reported.
<1>5. ASSUME InHand, work.frame.id = i PROVE Reported \/ Held
  <2>1. CASE UNCHANGED work /\ (InHand' <=> InHand)
    BY <1>5, <2>1 DEF Held
  <2>2. ASSUME NEW res, Verdict(i, res) PROVE Reported
    BY <1>0, <2>2, AppendedVerdict DEF Reported
  <2>3. CASE HandsOver \/ Refuses
    BY <2>1, <2>3 DEF HandsOver, Refuses, InHand
  <2> QED BY <1>5, <2>1, <2>2, <2>3, ReportMoves DEF Silent, Skips, Begins, Reports
\* The frame being handled is handed over or reported, or its turn has failed.
<1>6. ASSUME Handling, i = Len(primary.log), primary'.log = primary.log
      PROVE  \/ Reported \/ Queued \/ (Handling' /\ i = Len(primary'.log))
             \/ hpc' \in {"close", "await", "closed"} /\ ~ClearedIn(primary'.log[i], clientGot')
  <2>1. frame = primary.log[i] /\ frame.id = i
    BY <1>0, <1>6 DEF OrderInv, IdInv, Handling, Open
  <2>2. CASE HandsOver
    BY <1>0, <2>1, <2>2, AppendedQueue DEF Queued
  <2>3. CASE Refuses
    <3>1. Verdict(i, "skipped")
      BY <2>1, <2>3 DEF Refuses
    <3> QED BY <1>0, <3>1, AppendedVerdict DEF Reported
  <2>4. CASE hpc \in {"receive", "write"} /\ hpc' = "close" /\ UNCHANGED clientGot
    <3>1. Expects(frame) /\ \A t \in 1..Len(clientGot) : clientGot[t].id < frame.id
      BY <2>4 DEF PrimaryTurn, IdInv, Open
    <3>2. \A t \in DOMAIN clientGot : clientGot[t].id # frame.id
      <4>1. DOMAIN clientGot = 1..Len(clientGot)
        BY <1>0
      <4>2. \A t \in 1..Len(clientGot) : clientGot[t].id \in Nat
        <5>1. \A t \in 1..Len(clientGot) : clientGot[t] \in Turns
          BY <1>0, ElementOfSeq
        <5> QED BY <5>1, ConnAssumption DEF Turns
      <4> QED BY <2>1, <3>1, <4>1, <4>2
    <3>3. ~ClearedIn(frame, clientGot)
      BY <3>1, <3>2 DEF ClearedIn
    <3> QED BY <1>6, <2>1, <2>4, <3>3
  <2>5. CASE Handling'
    BY <1>6, <2>5
  <2>6. CASE hpc = "submit" /\ hpc' = "read"
    <3>1. ~Silent /\ ~Skips /\ ~Begins /\ \A res : ~Reports(res)
      BY <2>6 DEF Silent, Skips, Begins, Reports
    <3> QED BY <2>2, <2>3, <3>1, ReportMoves
  <2> QED BY <1>6, <2>4, <2>5, <2>6, TurnMoves
<1>7. ASSUME hpc \in {"close", "await", "closed"}, ~Cleared(primary.log[i]), primary'.log = primary.log
      PROVE  hpc' \in {"close", "await", "closed"} /\ ~ClearedIn(primary'.log[i], clientGot')
  BY <1>7, TurnMoves DEF Cleared
<1>8. CASE /\ i \in 1..Len(primary.log) /\ primary'.log[i] = primary.log[i]
           /\ primary'.log = primary.log \/ hpc = "send"
  <2>1. \/ \E v \in 1..Len(verdicts) : verdicts[v].id = i
        \/ \E j \in 1..Len(queue) : queue[j].frame.id = i
        \/ InHand /\ work.frame.id = i
        \/ Handling /\ i = Len(primary.log)
        \/ hpc \in {"close", "await", "closed"} /\ ~Cleared(primary.log[i])
    BY <1>8 DEF AccountInv
  <2>2. Handling \/ hpc \in {"close", "await", "closed"} => primary'.log = primary.log
    BY <1>8 DEF Handling
  <2>3. \/ Reported \/ Queued \/ Held \/ (Handling' /\ i = Len(primary'.log))
        \/ hpc' \in {"close", "await", "closed"} /\ ~ClearedIn(primary'.log[i], clientGot')
    BY <1>3, <1>4, <1>5, <1>6, <1>7, <2>1, <2>2
  <2> QED BY <2>3 DEF Reported, Queued, Held
<1> QED BY <1>1, <1>2, <1>8

\* Everything the reports depend on.
FullInv ==
  /\ TypeInv /\ OrderInv /\ PrimaryTurn /\ ShadowTurn /\ IdInv /\ WorkerInv
  /\ SentInv /\ ReportInv /\ AccountInv

LEMMA FullyInvariant == Spec => []FullInv
<1>1. Init => FullInv
  BY InitType, InitOrder, InitTurns, InitIds, InitSent, InitReport DEF FullInv
<1>2. FullInv /\ [Next]_vars => FullInv'
  BY NextType, NextOrder, NextPrimaryTurn, NextShadowTurn, NextIds, NextWorkerInv, NextSent,
     NextReport, NextAccount DEF FullInv
<1> QED BY <1>1, <1>2, PTL DEF Spec

\* A comparison is reported only for a frame the shadow received in sequence, and a frame
\* reported as skipped never reached the shadow (onComplete, Submit and handleFrame),
\* for any queue capacity and whenever the shadow fails.
THEOREM VerdictSoundCorrect == Spec => []VerdictSound
<1>1. FullInv => VerdictSound
  <2> SUFFICES ASSUME FullInv, NEW v \in DOMAIN verdicts
               PROVE  /\ verdicts[v].result \in {"same", "diff"} => verdicts[v].id <= Len(shadow.log)
                      /\ verdicts[v].result = "skipped" => verdicts[v].id > Len(shadow.log)
    BY DEF VerdictSound
  <2>1. v \in 1..Len(verdicts)
    BY DEF FullInv, TypeInv, TypeOK
  <2>2. /\ verdicts[v].result \in {"same", "diff"} => verdicts[v].id <= Len(shadow.log)
        /\ verdicts[v].result = "skipped" => verdicts[v].id > Base
    BY <2>1 DEF FullInv, ReportInv
  <2>3. Base \in Nat /\ Len(shadow.log) \in Nat /\ Len(shadow.log) <= Base /\ verdicts[v].id \in Nat
    BY <2>1, BaseType, ItemTypes DEF FullInv
  <2> QED BY <2>2, <2>3
<1> QED BY <1>1, FullyInvariant, PTL

\* No frame is reported twice, and once the connection is closed every frame the primary
\* handled has been reported: the worker drains what Submit accepted, and handleFrame
\* reports what it refused.
THEOREM OneVerdictPerFrameCorrect == Spec => []OneVerdictPerFrame
<1>1. FullInv => OneVerdictPerFrame
  <2> SUFFICES ASSUME FullInv PROVE OneVerdictPerFrame
    OBVIOUS
  <2>1. DOMAIN verdicts = 1..Len(verdicts) /\ DOMAIN primary.log = 1..Len(primary.log)
    BY LogTypes DEF FullInv, TypeInv, TypeOK
  <2>2. \A v, w \in DOMAIN verdicts : verdicts[v].id = verdicts[w].id => v = w
    BY <2>1 DEF FullInv, ReportInv
  <2>3. ASSUME hpc = "closed", NEW i \in DOMAIN primary.log,
               Expects(primary.log[i]) => Answered(primary.log[i])
        PROVE  \E v \in DOMAIN verdicts : verdicts[v].id = primary.log[i].id
    <3>1. Cleared(primary.log[i])
      BY <2>3 DEF Cleared, ClearedIn, Answered
    <3>2. queue = <<>> /\ ~InHand
      BY <2>3 DEF FullInv, WorkerInv, InHand
    <3>3. ~Handling
      BY <2>3 DEF Handling
    <3>4. Len(queue) = 0
      BY <3>2
    <3>5. \E v \in 1..Len(verdicts) : verdicts[v].id = i
      BY <2>1, <3>1, <3>2, <3>3, <3>4 DEF FullInv, AccountInv
    <3>6. primary.log[i].id = i
      BY <2>1 DEF FullInv, IdInv
    <3> QED BY <2>1, <3>5, <3>6
  <2> QED BY <2>2, <2>3 DEF OneVerdictPerFrame
<1> QED BY <1>1, FullyInvariant, PTL
================================================================================
