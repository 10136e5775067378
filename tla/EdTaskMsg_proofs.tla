-------------------------- MODULE EdTaskMsg_proofs --------------------------
(***************************************************************************)
(* Proofs about EdTaskMsg, for any number of threads, any queue limit and  *)
(* either build.                                                           *)
(***************************************************************************)
EXTENDS EdTaskMsg, FiniteSetTheorems, TLAPS

(***************************************************************************)
(* The states of the task's thread: when it has a message in hand, when    *)
(* the batch counter runs, and when the eventfd is open.                   *)
(***************************************************************************)
Dispatching == {"handle", "notify", "recycle"}

TaskOK ==
    /\ tpc \in Dispatching => pmsg \in EdMsg /\ cnt > 0
    /\ tpc = "notify" => Sync(pmsg)
    /\ cnt > 0 => tpc \in Dispatching \cup {"pop"}
    /\ mMsgFd >= 0 <=> \/ tpc \notin {"off", "drain", "done"}
                       \/ tpc = "off" /\ pc[Owner] = "mainpost"
    /\ pc[Owner] = "mainpost" => tpc = "off"
    /\ mMsgFd < 0 /\ tpc # "drain" => mQuedMsgs = <<>>

(***************************************************************************)
(* A sender that nobody signalled yet has exactly one message in the task, *)
(* and every message with a live frame belongs to such a sender.           *)
(***************************************************************************)
HandledOf(t) == tpc \in {"handle", "notify"} /\ pmsg.from = t
QueuedOf(t)  == \E i \in DOMAIN mQuedMsgs : mQuedMsgs[i].from = t

LiveOK ==
    /\ notified \subseteq {t \in Threads : pc[t] = "waiting"}
    /\ \A t \in Threads : InSend(t) /\ t \notin notified
                            <=> QueuedOf(t) \/ HandledOf(t)
    /\ \A i, j \in DOMAIN mQuedMsgs :
          mQuedMsgs[i].from \in Threads /\ mQuedMsgs[i].from = mQuedMsgs[j].from
            => i = j
    /\ \A t \in Threads : ~(QueuedOf(t) /\ HandledOf(t))

\* No queued message points to a frame that is gone, and none was used.
FramesLive ==
    /\ fault # "dangling"
    /\ \A i \in DOMAIN mQuedMsgs : mQuedMsgs[i].from # DeadFrame

\* Without spurious wakeups no frame dies before its message, but for the sends
\* that find the eventfd closed, in a build without assertions, by a closeMsg that
\* is still draining the queue.
FramesOK ==
    ~SpuriousWakeups =>
        /\ ~HandledOf(DeadFrame)
        /\ ~NDEBUG \/ tpc # "drain" => FramesLive

\* What a sender's result says: 0 or the handler's code while its message is
\* in the task, and the truth once it was signalled.
Outcome(t) ==
    IF QueuedOf(t) \/ HandledOf(t)
    THEN result[t] >= 0 /\ (t \in served <=> tpc = "notify" /\ HandledOf(t))
    ELSE t \in served <=> result[t] >= 0

OutcomeOK == ~SpuriousWakeups => \A t \in Threads : Outcome(t)

-----------------------------------------------------------------------------
(***************************************************************************)
(* Facts about the operators.                                              *)
(***************************************************************************)

\* A frame that dies changes who the messages come from, and nothing else of
\* the queue.
LEMMA OrphanQueue ==
    ASSUME NEW q \in Seq(EdMsg), NEW t \in Threads
    PROVE  LET r == [i \in DOMAIN q |-> Orphan(t, q[i])]
           IN  /\ r \in Seq(EdMsg)
               /\ Len(r) = Len(q)
               /\ DOMAIN r = DOMAIN q
               /\ \A i \in DOMAIN q : r[i] = Orphan(t, q[i])
               /\ q = <<>> => r = <<>>
<1> DEFINE r == [i \in DOMAIN q |-> Orphan(t, q[i])]
<1>1. \A m \in EdMsg : Orphan(t, m) \in EdMsg
  BY DEF Orphan, Msg, EdMsg
<1>2. /\ Len(q) \in Nat /\ DOMAIN q = 1..Len(q)
      /\ \A i \in DOMAIN q : q[i] \in EdMsg
  OBVIOUS
<1>3. r \in [1..Len(q) -> EdMsg]
  BY <1>1, <1>2
<1>4. r \in Seq(EdMsg) /\ Len(r) = Len(q)
  BY <1>2, <1>3
<1>5. q = <<>> => r = <<>>
  BY <1>2, <1>4
<1> QED
  BY <1>2, <1>4, <1>5

\* A pooled message is a message, and so is what an orphaned one becomes.
LEMMA OrphanMsg ==
    ASSUME NEW m \in EdMsg \cup {NoMsg}, NEW t \in Threads
    PROVE  /\ Orphan(t, m) \in EdMsg \cup {NoMsg}
           /\ m \in EdMsg => Orphan(t, m) \in EdMsg
           /\ m.from = t => Orphan(t, m).from = DeadFrame
           /\ m.from # t => Orphan(t, m) = m
           /\ Sync(m) => Sync(Orphan(t, m))
BY ThreadsAssumption DEF Orphan, Msg, EdMsg, NoMsg, Sync

\* What the head of a queue and the rest of it are made of.
LEMMA HeadTail ==
    ASSUME NEW q \in Seq(EdMsg), q # <<>>
    PROVE  /\ Head(q) \in EdMsg /\ Head(q) = q[1]
           /\ Tail(q) \in Seq(EdMsg)
           /\ Len(Tail(q)) = Len(q) - 1
           /\ 1 \in DOMAIN q
           /\ \A i \in DOMAIN Tail(q) : i + 1 \in DOMAIN q /\ Tail(q)[i] = q[i + 1]
           /\ \A i \in DOMAIN q : i # 1 => i - 1 \in DOMAIN Tail(q)
OBVIOUS

\* A queue with one message more.
LEMMA AppendMsg ==
    ASSUME NEW q \in Seq(EdMsg), NEW m \in EdMsg
    PROVE  /\ Append(q, m) \in Seq(EdMsg)
           /\ Len(Append(q, m)) = Len(q) + 1
           /\ DOMAIN Append(q, m) = DOMAIN q \cup {Len(q) + 1}
           /\ \A i \in DOMAIN q : Append(q, m)[i] = q[i]
           /\ Append(q, m)[Len(q) + 1] = m
OBVIOUS


\* One more message: what Enqueue does to the queue and to the pool.
LEMMA EnqueueEffect ==
    ASSUME TypeOK, NEW m \in EdMsg, Enqueue(m)
    PROVE  /\ mQuedMsgs' \in Seq(EdMsg)
           /\ Len(mQuedMsgs') = Len(mQuedMsgs) + 1
           /\ DOMAIN mQuedMsgs' = DOMAIN mQuedMsgs \cup {Len(mQuedMsgs) + 1}
           /\ \A i \in DOMAIN mQuedMsgs : mQuedMsgs'[i] = mQuedMsgs[i]
           /\ mQuedMsgs'[Len(mQuedMsgs) + 1] = m
           /\ mEmptyMsgs' = IF mEmptyMsgs > 0 THEN mEmptyMsgs - 1 ELSE 0
           /\ mEmptyMsgs' \in Nat
<1>1. mQuedMsgs' = Append(mQuedMsgs, m) /\ mQuedMsgs \in Seq(EdMsg)
  BY DEF Enqueue, TypeOK
<1>2. mEmptyMsgs' = IF mEmptyMsgs > 0 THEN mEmptyMsgs - 1 ELSE 0
  BY DEF Enqueue
<1>3. mEmptyMsgs' \in Nat
  BY <1>2 DEF TypeOK
<1> QED
  BY <1>1, <1>2, <1>3, AppendMsg

\* The two outcomes of postEdMsg: nothing queued, or one message queued and
\* the eventfd written.
LEMMA PostEffect ==
    ASSUME TypeOK, NEW id, PostEdMsg(id)
    PROVE  \/ UNCHANGED queueVars /\ fault' \in {fault, "none", "queue_full"}
           \/ /\ mMsgFd >= 0 /\ HasMsgObj
              /\ Enqueue(Msg(id, NoThread))
              /\ evtCount' = evtCount + 1
              /\ UNCHANGED <<mMsgFd, fault>>
<1>1. CASE mMsgFd < 0
  BY <1>1 DEF PostEdMsg, queueVars
<1>2. CASE ~(mMsgFd < 0) /\ HasMsgObj
  <2>1. mMsgFd >= 0
    BY <1>2 DEF TypeOK
  <2> QED
    BY <1>2, <2>1 DEF PostEdMsg, WriteEventFd
<1>3. CASE ~(mMsgFd < 0) /\ ~HasMsgObj
  BY <1>3 DEF PostEdMsg, QueueFull, queueVars
<1> QED
  BY <1>1, <1>2, <1>3

\* The two outcomes of the first step of sendEdMsg: -1 and nothing queued, or
\* a message queued and the eventfd still to be written.
LEMMA SendEffect ==
    ASSUME TypeOK, NEW t \in Threads, NEW id, SendEdMsg(t, id)
    PROVE  /\ UNCHANGED <<taskVars, notified, mMsgFd, evtCount>>
           /\ tpc # "drain"
           /\ served' = served \ {t}
           /\ \/ /\ UNCHANGED queueVars /\ fault' \in {fault, "none", "queue_full"}
                 /\ pc' = [pc EXCEPT ![t] = "idle"]
                 /\ result' = [result EXCEPT ![t] = -1]
              \/ /\ mMsgFd >= 0 /\ HasMsgObj
                 /\ Enqueue(Msg(id, t)) /\ fault' = fault
                 /\ pc' = [pc EXCEPT ![t] = "write"]
                 /\ result' = [result EXCEPT ![t] = 0]
<1>0. tpc # "drain" /\ UNCHANGED taskVars
  BY DEF SendEdMsg, MsgMutexFree
<1>1. CASE mMsgFd < 0
  BY <1>0, <1>1 DEF SendEdMsg, queueVars
<1>2. CASE ~(mMsgFd < 0) /\ HasMsgObj
  <2>1. mMsgFd >= 0
    BY <1>2 DEF TypeOK
  <2> QED
    BY <1>0, <1>2, <2>1 DEF SendEdMsg
<1>3. CASE ~(mMsgFd < 0) /\ ~HasMsgObj
  BY <1>0, <1>3 DEF SendEdMsg, QueueFull, queueVars
<1> QED
  BY <1>1, <1>2, <1>3

\* When t leaves sendEdMsg, the messages of t are orphaned and all else of the
\* queue and of the dispatched message stays.
LEMMA FrameDiesEffect ==
    ASSUME TypeOK, NEW t \in Threads, FrameDies(t)
    PROVE  /\ mQuedMsgs' \in Seq(EdMsg)
           /\ Len(mQuedMsgs') = Len(mQuedMsgs)
           /\ DOMAIN mQuedMsgs' = DOMAIN mQuedMsgs
           /\ \A i \in DOMAIN mQuedMsgs :
                 mQuedMsgs'[i].from = IF mQuedMsgs[i].from = t THEN DeadFrame
                                      ELSE mQuedMsgs[i].from
           /\ mQuedMsgs = <<>> => mQuedMsgs' = <<>>
           /\ pmsg' \in EdMsg \cup {NoMsg}
           /\ pmsg \in EdMsg => pmsg' \in EdMsg
           /\ pmsg'.from = IF pmsg.from = t THEN DeadFrame ELSE pmsg.from
           /\ Sync(pmsg) <=> Sync(pmsg')
<1>1. mQuedMsgs' = [i \in DOMAIN mQuedMsgs |-> Orphan(t, mQuedMsgs[i])]
      /\ pmsg' = Orphan(t, pmsg)
  BY DEF FrameDies
<1>2. mQuedMsgs \in Seq(EdMsg) /\ pmsg \in EdMsg \cup {NoMsg}
  BY DEF TypeOK
<1>3. \A i \in DOMAIN mQuedMsgs :
         Orphan(t, mQuedMsgs[i]).from = IF mQuedMsgs[i].from = t THEN DeadFrame
                                        ELSE mQuedMsgs[i].from
  BY <1>2, OrphanMsg
<1>4. /\ mQuedMsgs' \in Seq(EdMsg)
      /\ Len(mQuedMsgs') = Len(mQuedMsgs)
      /\ DOMAIN mQuedMsgs' = DOMAIN mQuedMsgs
      /\ mQuedMsgs = <<>> => mQuedMsgs' = <<>>
      /\ \A i \in DOMAIN mQuedMsgs : mQuedMsgs'[i] = Orphan(t, mQuedMsgs[i])
  BY <1>1, <1>2, OrphanQueue
<1>5. /\ pmsg' \in EdMsg \cup {NoMsg}
      /\ pmsg \in EdMsg => pmsg' \in EdMsg
      /\ pmsg'.from = IF pmsg.from = t THEN DeadFrame ELSE pmsg.from
  BY <1>1, <1>2, OrphanMsg
<1>6. Sync(pmsg) <=> Sync(pmsg')
  BY <1>5, ThreadsAssumption DEF Sync
<1> QED
  BY <1>3, <1>4, <1>5, <1>6

-----------------------------------------------------------------------------
(***************************************************************************)
(* Types, and the progress of the task's thread.                           *)
(***************************************************************************)
TypeInv == TypeOK /\ TaskOK

\* The calls of the clients, of the owner and of the handlers keep TypeInv.
LEMMA CallTypeStep ==
    ASSUME TypeInv, OwnerCall \/ OwnerStep \/ HandlerCall
                    \/ \E t \in Clients : ClientCall(t)
    PROVE  TypeInv'
<1> USE DEF TypeInv, TypeOK, TaskOK, Dispatching, Threads
<1>1. ASSUME NEW id \in MsgIds, PostEdMsg(id)
      PROVE  /\ mMsgFd' = mMsgFd /\ evtCount' \in Nat
             /\ mQuedMsgs' \in Seq(EdMsg) /\ mEmptyMsgs' \in Nat
             /\ fault' \in Faults
             /\ mMsgFd < 0 => mQuedMsgs' = mQuedMsgs
  <2>1. Msg(id, NoThread) \in EdMsg
    BY DEF Msg, EdMsg
  <2>2. CASE UNCHANGED queueVars /\ fault' \in {fault, "none", "queue_full"}
    BY <2>2 DEF queueVars, Faults
  <2>3. CASE /\ mMsgFd >= 0 /\ Enqueue(Msg(id, NoThread))
             /\ evtCount' = evtCount + 1 /\ UNCHANGED <<mMsgFd, fault>>
    BY <2>1, <2>3, EnqueueEffect
  <2> QED
    BY <1>1, <2>2, <2>3, PostEffect
<1>2. ASSUME NEW t \in Threads, NEW id \in MsgIds, SendEdMsg(t, id),
             pc[t] # "mainpost"
      PROVE  TypeInv'
  <2>1. Msg(id, t) \in EdMsg
    BY DEF Msg, EdMsg
  <2>2. /\ UNCHANGED <<taskVars, notified, mMsgFd, evtCount>>
        /\ served' = served \ {t}
        /\ \/ /\ UNCHANGED queueVars /\ fault' \in {fault, "none", "queue_full"}
              /\ pc' = [pc EXCEPT ![t] = "idle"]
              /\ result' = [result EXCEPT ![t] = -1]
           \/ /\ mMsgFd >= 0 /\ Enqueue(Msg(id, t)) /\ fault' = fault
              /\ pc' = [pc EXCEPT ![t] = "write"]
              /\ result' = [result EXCEPT ![t] = 0]
    <3> HIDE DEF TypeOK, TaskOK, Threads
    <3> QED
      BY <1>2, SendEffect
  <2>3. /\ mQuedMsgs' \in Seq(EdMsg) /\ mEmptyMsgs' \in Nat
        /\ mMsgFd < 0 => mQuedMsgs' = mQuedMsgs
    BY <2>1, <2>2, EnqueueEffect DEF queueVars
  <2>4. /\ pc' \in [Threads -> CallerPcs]
        /\ pc'[Owner] = "mainpost" <=> pc[Owner] = "mainpost"
        /\ result' \in [Threads -> ResultCodes \cup {-1000, -1, 0}]
        /\ fault' \in Faults
    BY <1>2, <2>2 DEF CallerPcs, Faults
  <2> QED
    BY <2>2, <2>3, <2>4 DEF taskVars, Sync
<1>3. ASSUME NEW t \in Clients, NEW id \in ClientIds, Post(t, id) PROVE TypeInv'
  BY <1>1, <1>3 DEF Post, taskVars, callerVars, ClientIds, MsgIds, Sync
<1>4. ASSUME NEW id \in ClientIds, SelfPost(id) PROVE TypeInv'
  BY <1>1, <1>4 DEF SelfPost, taskVars, callerVars, ClientIds, MsgIds, Sync
<1>5. ASSUME NEW t \in Clients, NEW id \in ClientIds, Send(t, id) PROVE TypeInv'
  BY <1>2, <1>5 DEF Send, ClientIds, MsgIds
<1>6. CASE RunSend
  BY <1>2, <1>6 DEF RunSend, MsgIds
<1>7. ASSUME NEW fd \in EventFds, Run(fd) PROVE TypeInv'
  BY <1>7, EventFdsAssumption DEF Run, InitMsg, TaskPcs, CallerPcs, Sync
<1>8. ASSUME NEW fd \in EventFds, RunMain(fd) PROVE TypeInv'
  BY <1>8, EventFdsAssumption DEF RunMain, InitMsg, taskVars, CallerPcs, Sync
<1>9. CASE MainPost
  BY <1>1, <1>9 DEF MainPost, TaskPcs, CallerPcs, MsgIds, Sync
<1>10. CASE MainReturn \/ Join
  BY <1>10 DEF MainReturn, Join, queueVars, TaskPcs, CallerPcs, Sync
<1>11. CASE Terminate
  BY <1>1, <1>11 DEF Terminate, taskVars, CallerPcs, MsgIds, Sync
<1>12. CASE WaitTask
  BY <1>12 DEF WaitTask, queueVars, taskVars, CallerPcs, Sync
<1>13. ASSUME NEW code \in ResultCodes, SetSendMsgResult(code) PROVE TypeInv'
  BY <1>13 DEF SetSendMsgResult, queueVars, taskVars, Faults, Sync
<1> QED
  BY <1>3, <1>4, <1>5, <1>6, <1>7, <1>8, <1>9, <1>10, <1>11, <1>12, <1>13
  DEF OwnerCall, OwnerStep, HandlerCall, ClientCall

\* The end of a send keeps TypeInv.
LEMMA SendTypeStep ==
    ASSUME TypeInv, NEW t \in Threads, SendStep(t) \/ SpuriousWakeup(t)
    PROVE  TypeInv'
<1>1. ASSUME FrameDies(t), UNCHANGED <<mMsgFd, evtCount, mEmptyMsgs, exit_flag, tpc, cnt>>,
             pc' = [pc EXCEPT ![t] = "idle"], pc[t] # "mainpost",
             result' \in [Threads -> ResultCodes \cup {-1000, -1, 0}],
             notified' \subseteq Threads, served' = served, fault' = fault
      PROVE  TypeInv'
  <2>1. /\ mQuedMsgs' \in Seq(EdMsg)
        /\ mQuedMsgs = <<>> => mQuedMsgs' = <<>>
        /\ pmsg' \in EdMsg \cup {NoMsg}
        /\ pmsg \in EdMsg => pmsg' \in EdMsg
        /\ Sync(pmsg) <=> Sync(pmsg')
    BY <1>1, FrameDiesEffect DEF TypeInv
  <2>2. /\ pc' \in [Threads -> CallerPcs]
        /\ pc'[Owner] = "mainpost" <=> pc[Owner] = "mainpost"
    BY <1>1 DEF TypeInv, TypeOK, CallerPcs, Threads
  <2> QED
    BY <1>1, <2>1, <2>2 DEF TypeInv, TypeOK, TaskOK, Dispatching
<1>2. CASE SendWrite(t)
  <2>1. CASE mMsgFd >= 0
    BY <1>2, <2>1 DEF SendWrite, WriteEventFd, TypeInv, TypeOK, TaskOK,
                      Dispatching, CallerPcs, Threads, Sync
  <2>2. CASE ~(mMsgFd >= 0) /\ NDEBUG
    <3>1. result' \in [Threads -> ResultCodes \cup {-1000, -1, 0}]
      BY <1>2, <2>2 DEF SendWrite, WriteFails, TypeInv, TypeOK
    <3> QED
      BY <1>1, <1>2, <2>2, <3>1 DEF SendWrite, WriteFails, TypeInv, TypeOK
  <2>3. CASE ~(mMsgFd >= 0) /\ ~NDEBUG
    BY <1>2, <2>3 DEF SendWrite, WriteFails, TypeInv, TypeOK, TaskOK,
                      Dispatching, Faults, Sync
  <2> QED
    BY <2>1, <2>2, <2>3
<1>3. CASE Wake(t)
  BY <1>1, <1>3 DEF Wake, TypeInv, TypeOK
<1> QED
  BY <1>2, <1>3 DEF SendStep, SendWake, SpuriousWakeup

\* The steps of the task's thread keep TypeInv.
LEMMA TaskTypeStep ==
    ASSUME TypeInv, TaskStep
    PROVE  TypeInv'
<1> USE DEF TypeInv, TypeOK, TaskOK, Dispatching
<1>1. CASE TaskStart
  BY <1>1 DEF TaskStart, queueVars, callerVars, TaskPcs, Sync
<1>2. CASE MsgEvent
  BY <1>2 DEF MsgEvent, callerVars, TaskPcs, Sync
<1>3. CASE DispatchPop
  <2>1. CASE mQuedMsgs = <<>>
    BY <1>3, <2>1 DEF DispatchPop, Sync
  <2>2. CASE mQuedMsgs # <<>>
    <3>1. Head(mQuedMsgs) \in EdMsg /\ Tail(mQuedMsgs) \in Seq(EdMsg)
      BY <2>2, HeadTail
    <3>2. /\ mQuedMsgs' = Tail(mQuedMsgs) /\ pmsg' = Head(mQuedMsgs)
          /\ served' \subseteq Threads
          /\ tpc' \in Dispatching /\ (tpc' = "notify" => Sync(pmsg'))
          /\ exit_flag' \in {0, 1}
          /\ UNCHANGED <<cnt, mMsgFd, evtCount, mEmptyMsgs, pc, result, notified,
                         fault>>
      BY <1>3, <2>2 DEF DispatchPop
    <3> QED
      BY <1>3, <2>2, <3>1, <3>2 DEF DispatchPop, TaskPcs
  <2> QED
    BY <2>1, <2>2
<1>4. CASE HandlerReturn
  BY <1>4 DEF HandlerReturn, queueVars, TaskPcs, Sync
<1>5. CASE NotifySender
  <2>1. pmsg.from \in Threads \cup {DeadFrame}
    BY <1>5 DEF NotifySender, EdMsg, Sync
  <2> QED
    BY <1>5, <2>1 DEF NotifySender, Signal, queueVars, TaskPcs, Faults, Sync
<1>6. CASE Recycle
  BY <1>6 DEF Recycle, callerVars, TaskPcs
<1>7. CASE DispatchEnd
  BY <1>7 DEF DispatchEnd, queueVars, callerVars, TaskPcs, Sync
<1>8. CASE CloseMsg
  BY <1>8 DEF CloseMsg, callerVars, TaskPcs, Sync
<1>9. CASE CloseMsgDrain
  <2>1. /\ Head(mQuedMsgs) \in EdMsg /\ Tail(mQuedMsgs) \in Seq(EdMsg)
    BY <1>9, HeadTail DEF CloseMsgDrain
  <2>2. Head(mQuedMsgs).from \in Threads \cup {NoThread, DeadFrame}
    BY <2>1 DEF EdMsg
  <2>3. /\ notified' \subseteq Threads
        /\ result' \in [Threads -> ResultCodes \cup {-1000, -1, 0}]
        /\ mQuedMsgs' \in Seq(EdMsg) /\ mEmptyMsgs' \in Nat /\ fault' \in Faults
    <3>1. /\ notified \subseteq Threads /\ mQuedMsgs \in Seq(EdMsg) /\ mEmptyMsgs \in Nat
          /\ result \in [Threads -> ResultCodes \cup {-1000, -1, 0}] /\ fault \in Faults
      OBVIOUS
    <3> HIDE DEF TypeInv, TypeOK, TaskOK
    <3>2. CASE Head(mQuedMsgs).from = DeadFrame
      BY <1>9, <3>1, <3>2 DEF CloseMsgDrain, Faults
    <3>3. CASE Head(mQuedMsgs).from # DeadFrame /\ Sync(Head(mQuedMsgs))
      <4>1. Head(mQuedMsgs).from \in Threads
        BY <2>2, <3>3 DEF Sync
      <4>2. /\ notified' = notified \cup {Head(mQuedMsgs).from}
            /\ result' = [result EXCEPT ![Head(mQuedMsgs).from] = -1000]
            /\ mQuedMsgs' = Tail(mQuedMsgs) /\ mEmptyMsgs' = mEmptyMsgs + 1 /\ fault' = fault
        BY <1>9, <3>3 DEF CloseMsgDrain, Signal, SetClosedResult
      <4>3. result' \in [Threads -> ResultCodes \cup {-1000, -1, 0}]
        BY <3>1, <4>1, <4>2
      <4> QED
        BY <2>1, <3>1, <4>1, <4>2, <4>3
    <3>4. CASE Head(mQuedMsgs).from # DeadFrame /\ ~Sync(Head(mQuedMsgs))
      BY <1>9, <2>1, <3>1, <3>4 DEF CloseMsgDrain
    <3> QED
      BY <3>2, <3>3, <3>4
  <2> QED
    BY <1>9, <2>3 DEF CloseMsgDrain, taskVars, Sync
<1>10. CASE CloseMsgEnd
  BY <1>10 DEF CloseMsgEnd, callerVars, TaskPcs, Sync
<1> QED
  BY <1>1, <1>2, <1>3, <1>4, <1>5, <1>6, <1>7, <1>8, <1>9, <1>10 DEF TaskStep

\* TypeInv is inductive.
LEMMA TypeStep == TypeInv /\ [Next]_vars => TypeInv'
<1> SUFFICES ASSUME TypeInv, [Next]_vars PROVE TypeInv'
  OBVIOUS
<1>1. CASE UNCHANGED vars
  BY <1>1 DEF vars, TypeInv, TypeOK, TaskOK, Dispatching, Sync
<1> QED
  BY <1>1, CallTypeStep, SendTypeStep, TaskTypeStep DEF Next, Ended

\* The type invariant holds before the task is run for the first time.
LEMMA TypeInit == Init => TypeInv
BY ThreadsAssumption DEF Init, TypeInv, TypeOK, TaskOK, Dispatching, Threads,
                         TaskPcs, CallerPcs, Faults

\* Type correctness of the message queue: in particular the pool is never
\* negative, cv.notify_one is only called for a thread in sendEdMsg, and the
\* queue is empty whenever the eventfd is closed and closeMsg has returned.
THEOREM TypeCorrect == Spec => [](TypeOK /\ TaskOK)
<1>1. Spec => []TypeInv
  BY TypeInit, TypeStep, PTL DEF Spec
<1> QED
  BY <1>1 DEF TypeInv

-----------------------------------------------------------------------------
(***************************************************************************)
(* The pool.                                                               *)
(***************************************************************************)

\* Queueing a message that allocMsgObj had an object for keeps the bound.
LEMMA EnqueueKeepsPool ==
    ASSUME TypeInv, PoolBound, HasMsgObj, NEW m \in EdMsg, Enqueue(m),
           InFlight' = InFlight
    PROVE  PoolBound'
<1>1. /\ Len(mQuedMsgs') = Len(mQuedMsgs) + 1 /\ Len(mQuedMsgs) \in Nat
      /\ mEmptyMsgs' = IF mEmptyMsgs > 0 THEN mEmptyMsgs - 1 ELSE 0
  BY EnqueueEffect DEF TypeInv, TypeOK
<1>2. InFlight \in {0, 1}
  BY DEF InFlight
<1> QED
  BY <1>1, <1>2, MaxMsqQueSizeAssumption DEF PoolBound, HasMsgObj, TypeInv, TypeOK

\* Every step keeps the bound.
LEMMA PoolStep ==
    ASSUME TypeInv, PoolBound, [Next]_vars
    PROVE  PoolBound'
<1>0. /\ InFlight \in {0, 1} /\ Len(mQuedMsgs) \in Nat
      /\ mEmptyMsgs \in Nat /\ MaxMsqQueSize \in Nat
  BY MaxMsqQueSizeAssumption DEF InFlight, TypeInv, TypeOK
<1>1. ASSUME UNCHANGED <<mEmptyMsgs, mQuedMsgs>>, InFlight' = InFlight
      PROVE  PoolBound'
  BY <1>1 DEF PoolBound
<1>2. ASSUME NEW id \in MsgIds, PostEdMsg(id), InFlight' = InFlight
      PROVE  PoolBound'
  <2>1. Msg(id, NoThread) \in EdMsg
    BY DEF Msg, EdMsg
  <2>2. CASE UNCHANGED queueVars
    BY <1>1, <1>2, <2>2 DEF queueVars
  <2>3. CASE HasMsgObj /\ Enqueue(Msg(id, NoThread))
    BY <1>2, <2>1, <2>3, EnqueueKeepsPool
  <2> QED
    BY <1>2, <2>2, <2>3, PostEffect DEF TypeInv
<1>3. ASSUME NEW t \in Threads, NEW id \in MsgIds, SendEdMsg(t, id)
      PROVE  PoolBound'
  <2>1. Msg(id, t) \in EdMsg
    BY DEF Msg, EdMsg
  <2>2. InFlight' = InFlight
    BY <1>3 DEF SendEdMsg, taskVars, InFlight
  <2>3. CASE UNCHANGED queueVars
    BY <1>1, <2>2, <2>3 DEF queueVars
  <2>4. CASE HasMsgObj /\ Enqueue(Msg(id, t))
    BY <2>1, <2>2, <2>4, EnqueueKeepsPool
  <2> QED
    BY <1>3, <2>3, <2>4, SendEffect DEF TypeInv
<1>4. ASSUME NEW t \in Threads, FrameDies(t), UNCHANGED <<mEmptyMsgs, tpc>>
      PROVE  PoolBound'
  BY <1>4, FrameDiesEffect DEF TypeInv, PoolBound, InFlight
<1>5. CASE UNCHANGED vars
  BY <1>1, <1>5 DEF vars, InFlight
<1>6. CASE OwnerCall
  <2>1. ASSUME NEW fd \in EventFds, Run(fd) \/ RunMain(fd) PROVE PoolBound'
    BY <1>1, <2>1 DEF Run, RunMain, taskVars, InFlight
  <2>2. CASE Terminate
    BY <1>2, <2>2 DEF Terminate, taskVars, InFlight, MsgIds
  <2>3. CASE WaitTask
    BY <1>1, <2>3 DEF WaitTask, queueVars, taskVars, InFlight
  <2> QED
    BY <1>6, <2>1, <2>2, <2>3 DEF OwnerCall
<1>7. CASE OwnerStep
  <2>1. CASE RunSend
    BY <1>3, <2>1 DEF RunSend, MsgIds, Threads
  <2>2. CASE MainPost
    <3>1. tpc = "off" /\ tpc' = "start" /\ PostEdMsg("EDM_INIT")
      BY <2>2 DEF MainPost, TypeInv, TaskOK
    <3> QED
      BY <1>2, <3>1 DEF InFlight, MsgIds
  <2>3. CASE MainReturn \/ Join
    BY <1>1, <2>3 DEF MainReturn, Join, queueVars, InFlight
  <2> QED
    BY <1>7, <2>1, <2>2, <2>3 DEF OwnerStep
<1>8. ASSUME NEW t \in Clients, ClientCall(t) PROVE PoolBound'
  <2>1. ASSUME NEW id \in ClientIds, Post(t, id) PROVE PoolBound'
    BY <1>2, <2>1 DEF Post, taskVars, InFlight, ClientIds, MsgIds
  <2>2. ASSUME NEW id \in ClientIds, Send(t, id) PROVE PoolBound'
    BY <1>3, <2>2 DEF Send, ClientIds, MsgIds, Threads
  <2> QED
    BY <1>8, <2>1, <2>2 DEF ClientCall
<1>9. ASSUME NEW t \in Threads, SendStep(t) \/ SpuriousWakeup(t) PROVE PoolBound'
  <2>1. CASE Wake(t)
    BY <1>4, <2>1 DEF Wake
  <2>2. CASE SendWrite(t)
    BY <1>1, <1>4, <2>2 DEF SendWrite, WriteFails, InFlight
  <2> QED
    BY <1>9, <2>1, <2>2 DEF SendStep, SendWake, SpuriousWakeup
<1>10. CASE TaskStep
  <2>1. CASE TaskStart \/ MsgEvent \/ HandlerReturn \/ DispatchEnd \/ CloseMsg
             \/ NotifySender
    BY <1>1, <2>1 DEF TaskStart, MsgEvent, HandlerReturn, DispatchEnd, CloseMsg,
                      NotifySender, queueVars, InFlight
  <2>2. CASE DispatchPop
    <3>1. CASE mQuedMsgs = <<>>
      BY <1>1, <2>2, <3>1 DEF DispatchPop, InFlight
    <3>2. CASE mQuedMsgs # <<>>
      <4>1. Len(Tail(mQuedMsgs)) = Len(mQuedMsgs) - 1
        BY <3>2, HeadTail DEF TypeInv, TypeOK
      <4>2. /\ mQuedMsgs' = Tail(mQuedMsgs) /\ mEmptyMsgs' = mEmptyMsgs
            /\ InFlight = 0 /\ InFlight' = 1
        BY <2>2, <3>2 DEF DispatchPop, InFlight
      <4> QED
        BY <1>0, <4>1, <4>2 DEF PoolBound
    <3> QED
      BY <3>1, <3>2
  <2>3. CASE Recycle
    <3>1. InFlight = 1 /\ InFlight' = 0
      BY <2>3 DEF Recycle, InFlight
    <3> QED
      BY <1>0, <2>3, <3>1 DEF Recycle, PoolBound
  <2>4. CASE CloseMsgDrain
    <3>1. /\ Len(Tail(mQuedMsgs)) = Len(mQuedMsgs) - 1
      BY <2>4, HeadTail DEF CloseMsgDrain, TypeInv, TypeOK
    <3>2. InFlight' = InFlight
      BY <2>4 DEF CloseMsgDrain, taskVars, InFlight
    <3>3. \/ UNCHANGED <<mQuedMsgs, mEmptyMsgs>>
          \/ mQuedMsgs' = Tail(mQuedMsgs) /\ mEmptyMsgs' = mEmptyMsgs + 1
      <4>1. CASE Head(mQuedMsgs).from = DeadFrame
        BY <2>4, <4>1 DEF CloseMsgDrain
      <4>2. CASE Head(mQuedMsgs).from # DeadFrame
        BY <2>4, <4>2 DEF CloseMsgDrain
      <4> QED
        BY <4>1, <4>2
    <3>4. CASE UNCHANGED <<mQuedMsgs, mEmptyMsgs>>
      BY <1>1, <3>2, <3>4
    <3>5. CASE mQuedMsgs' = Tail(mQuedMsgs) /\ mEmptyMsgs' = mEmptyMsgs + 1
      <4>1. Len(mQuedMsgs') = Len(mQuedMsgs) - 1 /\ mEmptyMsgs' = mEmptyMsgs + 1
        BY <3>1, <3>5
      <4>2. mEmptyMsgs' + Len(mQuedMsgs') = mEmptyMsgs + Len(mQuedMsgs)
        BY <1>0, <4>1
      <4> QED
        BY <1>0, <3>2, <4>2 DEF PoolBound
    <3> QED
      BY <3>3, <3>4, <3>5
  <2>5. CASE CloseMsgEnd
    BY <1>0, <2>5 DEF CloseMsgEnd, PoolBound, InFlight
  <2> QED
    BY <1>10, <2>1, <2>2, <2>3, <2>4, <2>5 DEF TaskStep
<1>11. CASE HandlerCall
  <2>1. ASSUME NEW id \in ClientIds, SelfPost(id) PROVE PoolBound'
    BY <1>2, <2>1 DEF SelfPost, taskVars, InFlight, ClientIds, MsgIds
  <2>2. ASSUME NEW code \in ResultCodes, SetSendMsgResult(code) PROVE PoolBound'
    BY <1>1, <2>2 DEF SetSendMsgResult, queueVars, taskVars, InFlight
  <2> QED
    BY <1>11, <2>1, <2>2 DEF HandlerCall
<1> QED
  BY <1>5, <1>6, <1>7, <1>8, <1>9, <1>10, <1>11 DEF Next, Ended

\* The number of message objects a task ever holds is bounded by the msgqnum
\* argument of run plus the one object in the hands of dispatchMsgs, whatever
\* the threads, the handlers and the build do.
THEOREM PoolBounded == Spec => []PoolBound
<1>1. Init => PoolBound
  BY MaxMsqQueSizeAssumption DEF Init, PoolBound, InFlight
<1>2. TypeInv /\ PoolBound /\ [Next]_vars => TypeInv' /\ PoolBound'
  BY TypeStep, PoolStep
<1> QED
  BY <1>1, <1>2, TypeInit, PTL DEF Spec

-----------------------------------------------------------------------------
(***************************************************************************)
(* Senders and their messages.                                             *)
(***************************************************************************)

\* A step that leaves the queue, the message in hand and the senders alone.
LEMMA LiveFrame ==
    ASSUME LiveOK, UNCHANGED <<mQuedMsgs, notified>>,
           \A t \in Threads : HandledOf(t)' <=> HandledOf(t),
           \A t \in Threads : InSend(t)' <=> InSend(t),
           \A t \in Threads : pc[t] = "waiting" => pc'[t] = "waiting"
    PROVE  LiveOK'
<1>1. \A t \in Threads : QueuedOf(t)' <=> QueuedOf(t)
  BY DEF QueuedOf
<1> QED
  BY <1>1 DEF LiveOK

\* A posted message is nobody's.
LEMMA LivePost ==
    ASSUME TypeInv, LiveOK, NEW id \in MsgIds, PostEdMsg(id), UNCHANGED notified,
           \A t \in Threads : HandledOf(t)' <=> HandledOf(t),
           \A t \in Threads : InSend(t)' <=> InSend(t),
           \A t \in Threads : pc[t] = "waiting" => pc'[t] = "waiting"
    PROVE  LiveOK'
<1>1. CASE UNCHANGED queueVars
  BY <1>1, LiveFrame DEF queueVars
<1>2. CASE Enqueue(Msg(id, NoThread))
  <2>1. Msg(id, NoThread) \in EdMsg /\ Msg(id, NoThread).from \notin Threads
    BY ThreadsAssumption DEF Msg, EdMsg
  <2>2. /\ DOMAIN mQuedMsgs' = DOMAIN mQuedMsgs \cup {Len(mQuedMsgs) + 1}
        /\ \A i \in DOMAIN mQuedMsgs : mQuedMsgs'[i] = mQuedMsgs[i]
        /\ mQuedMsgs'[Len(mQuedMsgs) + 1].from \notin Threads
    BY <1>2, <2>1, EnqueueEffect DEF TypeInv
  <2>3. \A t \in Threads : QueuedOf(t)' <=> QueuedOf(t)
    BY <2>2 DEF QueuedOf
  <2>4. \A i, j \in DOMAIN mQuedMsgs' :
          mQuedMsgs'[i].from \in Threads /\ mQuedMsgs'[i].from = mQuedMsgs'[j].from
            => i = j
    BY <2>2 DEF LiveOK
  <2> QED
    BY <2>3, <2>4 DEF LiveOK
<1> QED
  BY <1>1, <1>2, PostEffect DEF TypeInv

\* A send adds the one message of its thread.
LEMMA LiveSend ==
    ASSUME TypeInv, LiveOK, NEW t \in Threads, NEW id \in MsgIds,
           SendEdMsg(t, id), ~InSend(t)
    PROVE  LiveOK'
<1>1. /\ UNCHANGED <<taskVars, notified>>
      /\ \/ UNCHANGED queueVars /\ pc' = [pc EXCEPT ![t] = "idle"]
         \/ Enqueue(Msg(id, t)) /\ pc' = [pc EXCEPT ![t] = "write"]
  BY SendEffect DEF TypeInv
<1>2. \A u \in Threads : HandledOf(u)' <=> HandledOf(u)
  BY <1>1 DEF taskVars, HandledOf
<1>3. pc \in [Threads -> CallerPcs]
  BY DEF TypeInv, TypeOK
<1>4. CASE UNCHANGED queueVars /\ pc' = [pc EXCEPT ![t] = "idle"]
  <2>1. /\ \A u \in Threads : InSend(u)' <=> InSend(u)
        /\ \A u \in Threads : pc[u] = "waiting" => pc'[u] = "waiting"
    BY <1>3, <1>4 DEF InSend
  <2> QED
    BY <1>1, <1>2, <1>4, <2>1, LiveFrame DEF queueVars
<1>5. CASE Enqueue(Msg(id, t)) /\ pc' = [pc EXCEPT ![t] = "write"]
  <2>1. Msg(id, t) \in EdMsg /\ Msg(id, t).from = t
    BY DEF Msg, EdMsg
  <2>2. /\ DOMAIN mQuedMsgs' = DOMAIN mQuedMsgs \cup {Len(mQuedMsgs) + 1}
        /\ \A i \in DOMAIN mQuedMsgs : mQuedMsgs'[i] = mQuedMsgs[i]
        /\ mQuedMsgs'[Len(mQuedMsgs) + 1].from = t
    BY <1>5, <2>1, EnqueueEffect DEF TypeInv
  <2>3. ~QueuedOf(t) /\ ~HandledOf(t) /\ t \notin notified
    BY DEF LiveOK, InSend
  <2>4. \A u \in Threads : QueuedOf(u)' <=> QueuedOf(u) \/ u = t
    BY <2>2 DEF QueuedOf
  <2>5. \A i, j \in DOMAIN mQuedMsgs' :
          mQuedMsgs'[i].from \in Threads /\ mQuedMsgs'[i].from = mQuedMsgs'[j].from
            => i = j
    BY <2>2, <2>3 DEF LiveOK, QueuedOf
  <2>6. \A u \in Threads : InSend(u)' <=> InSend(u) \/ u = t
    BY <1>3, <1>5 DEF InSend
  <2>7. notified' \subseteq {u \in Threads : pc'[u] = "waiting"}
    BY <1>1, <1>3, <1>5, <2>3 DEF LiveOK
  <2> QED
    BY <1>1, <1>2, <2>3, <2>4, <2>5, <2>6, <2>7 DEF LiveOK
<1> QED
  BY <1>1, <1>4, <1>5

\* A sender that returns takes its message, if there is one, out of the live
\* ones.
LEMMA LiveReturn ==
    ASSUME TypeInv, LiveOK, NEW t \in Threads, FrameDies(t),
           pc' = [pc EXCEPT ![t] = "idle"], notified' = notified \ {t},
           tpc' = tpc
    PROVE  LiveOK'
<1>1. /\ DOMAIN mQuedMsgs' = DOMAIN mQuedMsgs
      /\ \A i \in DOMAIN mQuedMsgs :
            mQuedMsgs'[i].from = IF mQuedMsgs[i].from = t THEN DeadFrame
                                 ELSE mQuedMsgs[i].from
      /\ pmsg'.from = IF pmsg.from = t THEN DeadFrame ELSE pmsg.from
  BY FrameDiesEffect DEF TypeInv
<1>2. DeadFrame \notin Threads
  BY ThreadsAssumption
<1>3. \A u \in Threads : QueuedOf(u)' <=> QueuedOf(u) /\ u # t
  BY <1>1, <1>2 DEF QueuedOf
<1>4. \A u \in Threads : HandledOf(u)' <=> HandledOf(u) /\ u # t
  BY <1>1, <1>2 DEF HandledOf
<1>5. \A i, j \in DOMAIN mQuedMsgs' :
        mQuedMsgs'[i].from \in Threads /\ mQuedMsgs'[i].from = mQuedMsgs'[j].from
          => i = j
  BY <1>1, <1>2 DEF LiveOK
<1>6. /\ \A u \in Threads : InSend(u)' <=> InSend(u) /\ u # t
      /\ notified' \subseteq {u \in Threads : pc'[u] = "waiting"}
  BY DEF InSend, LiveOK, TypeInv, TypeOK
<1> QED
  BY <1>3, <1>4, <1>5, <1>6 DEF LiveOK

\* Taking the head off the queue: what is left, and whose message it was.
LEMMA PopEffect ==
    ASSUME TypeInv, LiveOK, mQuedMsgs # <<>>, mQuedMsgs' = Tail(mQuedMsgs)
    PROVE  /\ Head(mQuedMsgs) \in EdMsg
           /\ \A u \in Threads : QueuedOf(u)' <=> QueuedOf(u) /\ u # Head(mQuedMsgs).from
           /\ \A u \in Threads : u = Head(mQuedMsgs).from => QueuedOf(u)
           /\ \A i, j \in DOMAIN mQuedMsgs' :
                 mQuedMsgs'[i].from \in Threads
                   /\ mQuedMsgs'[i].from = mQuedMsgs'[j].from => i = j
<1>1. /\ Head(mQuedMsgs) \in EdMsg /\ Head(mQuedMsgs) = mQuedMsgs[1]
      /\ 1 \in DOMAIN mQuedMsgs
      /\ \A i \in DOMAIN mQuedMsgs' :
            i + 1 \in DOMAIN mQuedMsgs /\ mQuedMsgs'[i] = mQuedMsgs[i + 1]
      /\ \A i \in DOMAIN mQuedMsgs : i # 1 => i - 1 \in DOMAIN mQuedMsgs'
  BY HeadTail DEF TypeInv, TypeOK
<1>2. DOMAIN mQuedMsgs \subseteq Int /\ DOMAIN mQuedMsgs' \subseteq Int
      /\ \A i \in DOMAIN mQuedMsgs' : i + 1 # 1
  BY DEF TypeInv, TypeOK
<1>3. ASSUME NEW u \in Threads
      PROVE  QueuedOf(u)' <=> QueuedOf(u) /\ u # Head(mQuedMsgs).from
  <2>1. ASSUME QueuedOf(u)' PROVE QueuedOf(u) /\ u # Head(mQuedMsgs).from
    <3>1. PICK i \in DOMAIN mQuedMsgs' : mQuedMsgs'[i].from = u
      BY <2>1 DEF QueuedOf
    <3>2. i + 1 \in DOMAIN mQuedMsgs /\ mQuedMsgs[i + 1].from = u /\ i + 1 # 1
      BY <1>1, <1>2, <3>1
    <3> QED
      BY <1>1, <3>2 DEF QueuedOf, LiveOK
  <2>2. ASSUME QueuedOf(u), u # Head(mQuedMsgs).from PROVE QueuedOf(u)'
    <3>1. PICK i \in DOMAIN mQuedMsgs : mQuedMsgs[i].from = u
      BY <2>2 DEF QueuedOf
    <3>2. i - 1 \in DOMAIN mQuedMsgs' /\ (i - 1) + 1 = i
      BY <1>1, <1>2, <2>2, <3>1
    <3>3. mQuedMsgs'[i - 1].from = u
      BY <1>1, <3>1, <3>2
    <3> QED
      BY <3>2, <3>3 DEF QueuedOf
  <2> QED
    BY <2>1, <2>2
<1>4. ASSUME NEW i \in DOMAIN mQuedMsgs', NEW j \in DOMAIN mQuedMsgs',
             mQuedMsgs'[i].from \in Threads, mQuedMsgs'[i].from = mQuedMsgs'[j].from
      PROVE  i = j
  <2>1. i + 1 = j + 1
    BY <1>1, <1>4 DEF LiveOK
  <2> QED
    BY <1>2, <2>1
<1> QED
  BY <1>1, <1>3, <1>4 DEF QueuedOf

\* dispatchMsgs takes a message: from queued to handled.
LEMMA LivePop ==
    ASSUME TypeInv, LiveOK, DispatchPop
    PROVE  LiveOK'
<1>1. CASE mQuedMsgs = <<>>
  <2>1. \A t \in Threads : HandledOf(t)' <=> HandledOf(t)
    BY <1>1 DEF DispatchPop, HandledOf
  <2> QED
    BY <1>1, <2>1, LiveFrame DEF DispatchPop, InSend
<1>2. CASE mQuedMsgs # <<>>
  <2>1. /\ mQuedMsgs' = Tail(mQuedMsgs) /\ pmsg' = Head(mQuedMsgs)
        /\ UNCHANGED <<pc, notified>> /\ tpc = "pop"
        /\ tpc' \in {"handle", "notify"} \/ (tpc' = "recycle" /\ ~Sync(pmsg'))
    BY <1>2 DEF DispatchPop
  <2>2. /\ Head(mQuedMsgs) \in EdMsg
        /\ \A u \in Threads : QueuedOf(u)' <=> QueuedOf(u) /\ u # Head(mQuedMsgs).from
        /\ \A u \in Threads : u = Head(mQuedMsgs).from => QueuedOf(u)
        /\ \A i, j \in DOMAIN mQuedMsgs' :
              mQuedMsgs'[i].from \in Threads
                /\ mQuedMsgs'[i].from = mQuedMsgs'[j].from => i = j
    BY <1>2, <2>1, PopEffect
  <2>3. /\ \A u \in Threads : ~HandledOf(u)
        /\ \A u \in Threads : HandledOf(u)' <=> u = Head(mQuedMsgs).from
    BY <2>1, ThreadsAssumption DEF HandledOf, Sync
  <2>4. \A u \in Threads : InSend(u)' <=> InSend(u)
    BY <2>1 DEF InSend
  <2> QED
    BY <2>1, <2>2, <2>3, <2>4 DEF LiveOK
<1> QED
  BY <1>1, <1>2

\* A signalled sender is one that waits, and has no message left.
LEMMA LiveNotify ==
    ASSUME TypeInv, LiveOK, NotifySender
    PROVE  LiveOK'
<1>1. CASE pmsg.from = DeadFrame
  BY <1>1, LiveFrame DEF NotifySender, queueVars, HandledOf, InSend
<1>2. CASE pmsg.from # DeadFrame
  <2>1. pmsg.from \in Threads /\ HandledOf(pmsg.from)
    BY <1>2 DEF NotifySender, TypeInv, TaskOK, Dispatching, EdMsg, Sync, HandledOf
  <2>2. /\ pc[pmsg.from] # "write" /\ notified' = notified \cup {pmsg.from}
        /\ tpc' = "recycle" /\ UNCHANGED <<mQuedMsgs, pmsg, pc>>
    BY <1>2 DEF NotifySender, Signal, queueVars
  <2>3. pc[pmsg.from] = "waiting" /\ ~QueuedOf(pmsg.from)
    BY <2>1, <2>2 DEF LiveOK, InSend
  <2>4. /\ \A u \in Threads : HandledOf(u)' <=> FALSE
        /\ \A u \in Threads : HandledOf(u) <=> u = pmsg.from
        /\ \A u \in Threads : QueuedOf(u)' <=> QueuedOf(u)
        /\ \A u \in Threads : InSend(u)' <=> InSend(u)
    BY <2>1, <2>2 DEF HandledOf, QueuedOf, InSend
  <2> QED
    BY <2>1, <2>2, <2>3, <2>4 DEF LiveOK
<1> QED
  BY <1>1, <1>2

\* So is one that closeMsg releases.
LEMMA LiveDrain ==
    ASSUME TypeInv, LiveOK, CloseMsgDrain
    PROVE  LiveOK'
<1>0. tpc = "drain" /\ tpc' = "drain" /\ pc' = pc /\ mQuedMsgs # <<>>
  BY DEF CloseMsgDrain, taskVars
<1>1. /\ \A u \in Threads : ~HandledOf(u) /\ ~HandledOf(u)'
      /\ \A u \in Threads : InSend(u)' <=> InSend(u)
  BY <1>0 DEF HandledOf, InSend
<1>2. CASE Head(mQuedMsgs).from = DeadFrame
  <2>1. UNCHANGED <<mQuedMsgs, notified>>
    BY <1>2 DEF CloseMsgDrain
  <2> QED
    BY <1>0, <1>1, <2>1, LiveFrame
<1>3. CASE Head(mQuedMsgs).from # DeadFrame
  <2>1. mQuedMsgs' = Tail(mQuedMsgs)
    BY <1>3 DEF CloseMsgDrain
  <2>2. /\ Head(mQuedMsgs) \in EdMsg
        /\ \A u \in Threads : QueuedOf(u)' <=> QueuedOf(u) /\ u # Head(mQuedMsgs).from
        /\ \A u \in Threads : u = Head(mQuedMsgs).from => QueuedOf(u)
        /\ \A i, j \in DOMAIN mQuedMsgs' :
              mQuedMsgs'[i].from \in Threads
                /\ mQuedMsgs'[i].from = mQuedMsgs'[j].from => i = j
    BY <1>0, <2>1, PopEffect
  <2>3. CASE Head(mQuedMsgs).from = NoThread
    <3>1. notified' = notified
      BY <1>3, <2>3 DEF CloseMsgDrain, Sync
    <3> QED
      BY <1>0, <1>1, <2>2, <2>3, <3>1, ThreadsAssumption DEF LiveOK
  <2>4. CASE Head(mQuedMsgs).from # NoThread
    <3>1. /\ Head(mQuedMsgs).from \in Threads
          /\ pc[Head(mQuedMsgs).from] # "write"
          /\ notified' = notified \cup {Head(mQuedMsgs).from}
      BY <1>3, <2>2, <2>4 DEF CloseMsgDrain, Sync, Signal, EdMsg
    <3>2. pc[Head(mQuedMsgs).from] = "waiting"
      BY <2>2, <3>1 DEF LiveOK, InSend
    <3> QED
      BY <1>0, <1>1, <2>2, <3>1, <3>2 DEF LiveOK
  <2> QED
    BY <2>3, <2>4
<1> QED
  BY <1>2, <1>3

\* LiveOK is inductive relative to TypeInv.
LEMMA LiveStep ==
    ASSUME TypeInv, LiveOK, [Next]_vars
    PROVE  LiveOK'
<1> USE DEF HandledOf, InSend
<1>0. pc \in [Threads -> CallerPcs] /\ Owner \in Threads /\ Clients \subseteq Threads
  BY DEF TypeInv, TypeOK, Threads
<1>1. CASE UNCHANGED vars
  BY <1>1, LiveFrame DEF vars
<1>2. ASSUME NEW fd \in EventFds, Run(fd) \/ RunMain(fd) PROVE LiveOK'
  BY <1>0, <1>2, LiveFrame DEF Run, RunMain, taskVars
<1>3. CASE Terminate
  BY <1>0, <1>3, LivePost DEF Terminate, taskVars, MsgIds
<1>4. CASE WaitTask \/ MainReturn \/ Join
  BY <1>0, <1>4, LiveFrame DEF WaitTask, MainReturn, Join, queueVars, taskVars
<1>5. CASE RunSend
  BY <1>0, <1>5, LiveSend DEF RunSend, MsgIds
<1>6. CASE MainPost
  <2>1. tpc = "off" /\ tpc' = "start" /\ PostEdMsg("EDM_INIT") /\ notified' = notified
        /\ pc[Owner] = "mainpost" /\ pc' = [pc EXCEPT ![Owner] = "inmain"]
    BY <1>6 DEF MainPost, TypeInv, TaskOK
  <2> QED
    BY <1>0, <2>1, LivePost DEF MsgIds
<1>7. ASSUME NEW t \in Clients, NEW id \in ClientIds, Post(t, id) PROVE LiveOK'
  BY <1>7, LivePost DEF Post, taskVars, callerVars, ClientIds, MsgIds
<1>8. ASSUME NEW t \in Clients, NEW id \in ClientIds, Send(t, id) PROVE LiveOK'
  BY <1>0, <1>8, LiveSend DEF Send, ClientIds, MsgIds
<1>9. ASSUME NEW t \in Threads, SendWrite(t) PROVE LiveOK'
  <2>1. t \notin notified
    BY <1>9 DEF SendWrite, LiveOK
  <2>2. CASE mMsgFd >= 0
    BY <1>0, <1>9, <2>2, LiveFrame DEF SendWrite
  <2>3. CASE ~(mMsgFd >= 0) /\ NDEBUG
    <3>1. notified' = notified \ {t}
      BY <1>9, <2>1 DEF SendWrite
    <3> QED
      BY <1>9, <2>3, <3>1, LiveReturn DEF SendWrite, WriteFails
  <2>4. CASE ~(mMsgFd >= 0) /\ ~NDEBUG
    BY <1>9, <2>4, LiveFrame DEF SendWrite, WriteFails
  <2> QED
    BY <2>2, <2>3, <2>4
<1>10. ASSUME NEW t \in Threads, Wake(t) PROVE LiveOK'
  BY <1>10, LiveReturn DEF Wake
<1>11. CASE TaskStart \/ MsgEvent \/ DispatchEnd \/ Recycle \/ CloseMsg \/ CloseMsgEnd
  BY <1>11, LiveFrame DEF TaskStart, MsgEvent, DispatchEnd, Recycle, CloseMsg,
     CloseMsgEnd, queueVars, callerVars
<1>12. CASE HandlerReturn
  <2>1. \A t \in Threads : HandledOf(t)' <=> HandledOf(t)
    BY <1>12, ThreadsAssumption DEF HandlerReturn, Sync
  <2> QED
    BY <1>12, <2>1, LiveFrame DEF HandlerReturn, queueVars
<1>13. ASSUME NEW id \in ClientIds, SelfPost(id) PROVE LiveOK'
  BY <1>13, LivePost DEF SelfPost, taskVars, callerVars, ClientIds, MsgIds
<1>14. ASSUME NEW code \in ResultCodes, SetSendMsgResult(code) PROVE LiveOK'
  BY <1>14, LiveFrame DEF SetSendMsgResult, queueVars, taskVars
<1> QED
  BY <1>1, <1>2, <1>3, <1>4, <1>5, <1>6, <1>7, <1>8, <1>9, <1>10, <1>11, <1>12,
     <1>13, <1>14, LivePop, LiveNotify, LiveDrain
  DEF Next, OwnerCall, OwnerStep, ClientCall, SendStep, SendWake, SpuriousWakeup,
      TaskStep, HandlerCall, Ended

\* At the start nobody is in a send.
LEMMA LiveInit == Init => LiveOK
BY DEF Init, LiveOK, QueuedOf, HandledOf, InSend

\* A thread asleep in sendEdMsg that nobody signalled has its message in the
\* queue or in the hands of dispatchMsgs, so no wakeup is ever lost: with
\* any number of senders, in both builds, and even if waits end spuriously.
THEOREM NoWakeupLost == Spec => []NoLostWakeup
<1>1. LiveOK => NoLostWakeup
  BY DEF LiveOK, NoLostWakeup, Pending, QueuedOf, HandledOf
<1>2. TypeInv /\ LiveOK /\ [Next]_vars => TypeInv' /\ LiveOK'
  BY TypeStep, LiveStep
<1> QED
  BY <1>1, <1>2, TypeInit, LiveInit, PTL DEF Spec

-----------------------------------------------------------------------------
(***************************************************************************)
(* The counter of the eventfd.                                             *)
(***************************************************************************)

\* The senders about to write can be counted.
LEMMA WritingFinite == IsFiniteSet(Writing) /\ Cardinality(Writing) \in Nat
<1>1. IsFiniteSet(Clients \cup {Owner})
  BY ThreadsAssumption, FS_AddElement
<1>2. Writing \subseteq Clients \cup {Owner}
  BY DEF Writing, Threads
<1> QED
  BY <1>1, <1>2, FS_Subset, FS_CardinalityType

\* Post: one more in the queue, one more in the counter.
LEMMA CountPost ==
    ASSUME TypeInv, CountConservation, NEW id \in MsgIds, PostEdMsg(id),
           cnt' = cnt, InFlight' = InFlight, Writing' = Writing
    PROVE  CountConservation'
<1>0. /\ Len(mQuedMsgs) \in Nat /\ evtCount \in Nat /\ cnt \in Nat
      /\ InFlight \in {0, 1} /\ Cardinality(Writing) \in Nat
  BY WritingFinite DEF TypeInv, TypeOK, InFlight
<1>1. CASE UNCHANGED queueVars
  BY <1>1 DEF queueVars, CountConservation
<1>2. CASE /\ Enqueue(Msg(id, NoThread)) /\ evtCount' = evtCount + 1
           /\ mMsgFd' = mMsgFd
  <2>1. Msg(id, NoThread) \in EdMsg
    BY DEF Msg, EdMsg
  <2>2. Len(mQuedMsgs') = Len(mQuedMsgs) + 1
    BY <1>2, <2>1, EnqueueEffect DEF TypeInv
  <2> QED
    BY <1>0, <1>2, <2>2 DEF CountConservation
<1> QED
  BY <1>1, <1>2, PostEffect DEF TypeInv

\* Send: one more in the queue, one more thread that has yet to write.
LEMMA CountSend ==
    ASSUME TypeInv, CountConservation, NEW t \in Threads, NEW id \in MsgIds,
           SendEdMsg(t, id), ~InSend(t)
    PROVE  CountConservation'
<1>0. /\ Len(mQuedMsgs) \in Nat /\ evtCount \in Nat /\ cnt \in Nat
      /\ InFlight \in {0, 1} /\ Cardinality(Writing) \in Nat
      /\ pc \in [Threads -> CallerPcs]
  BY WritingFinite DEF TypeInv, TypeOK, InFlight
<1>1. /\ UNCHANGED <<mMsgFd, evtCount, cnt>> /\ InFlight' = InFlight
      /\ \/ UNCHANGED queueVars /\ pc' = [pc EXCEPT ![t] = "idle"]
         \/ Enqueue(Msg(id, t)) /\ pc' = [pc EXCEPT ![t] = "write"]
  BY SendEffect DEF TypeInv, taskVars, InFlight
<1>2. CASE UNCHANGED queueVars /\ pc' = [pc EXCEPT ![t] = "idle"]
  <2>1. Writing' = Writing
    BY <1>0, <1>2 DEF Writing, InSend
  <2> QED
    BY <1>1, <1>2, <2>1 DEF queueVars, CountConservation
<1>3. CASE Enqueue(Msg(id, t)) /\ pc' = [pc EXCEPT ![t] = "write"]
  <2>1. Msg(id, t) \in EdMsg
    BY DEF Msg, EdMsg
  <2>2. Len(mQuedMsgs') = Len(mQuedMsgs) + 1
    BY <1>3, <2>1, EnqueueEffect DEF TypeInv
  <2>3. Writing' = Writing \cup {t} /\ t \notin Writing
    BY <1>0, <1>3 DEF Writing, InSend
  <2>4. Cardinality(Writing') = Cardinality(Writing) + 1
    BY <2>3, WritingFinite, FS_AddElement
  <2> QED
    BY <1>0, <1>1, <2>2, <2>4 DEF CountConservation
<1> QED
  BY <1>1, <1>2, <1>3

\* CountConservation is inductive relative to TypeInv and LiveOK; the latter
\* says that no sender is between its message and its write when a new eventfd
\* is opened.
LEMMA CountStep ==
    ASSUME TypeInv, LiveOK, CountConservation, [Next]_vars
    PROVE  CountConservation'
<1>0. /\ Len(mQuedMsgs) \in Nat /\ evtCount \in Nat /\ cnt \in Nat /\ mMsgFd \in Int
      /\ InFlight \in {0, 1} /\ Cardinality(Writing) \in Nat
      /\ pc \in [Threads -> CallerPcs] /\ Owner \in Threads /\ Clients \subseteq Threads
  BY WritingFinite DEF TypeInv, TypeOK, InFlight, Threads
<1>1. ASSUME UNCHANGED <<mMsgFd, evtCount, cnt>>, Len(mQuedMsgs') = Len(mQuedMsgs),
             InFlight' = InFlight, Writing' = Writing
      PROVE  CountConservation'
  BY <1>1 DEF CountConservation
<1>2. ASSUME mMsgFd' \in Int, mMsgFd' < 0 PROVE CountConservation'
  BY <1>2 DEF CountConservation
<1>3. CASE UNCHANGED vars
  BY <1>1, <1>3 DEF vars, InFlight, Writing
<1>4. ASSUME NEW fd \in EventFds, Run(fd) \/ RunMain(fd) PROVE CountConservation'
  <2>1. pc[Owner] = "idle" /\ tpc = "off" /\ UNCHANGED <<mQuedMsgs, cnt>> /\ evtCount' = 0
        /\ tpc' \in {"off", "start"}
    BY <1>4 DEF Run, RunMain, InitMsg, taskVars
  <2>2. mQuedMsgs = <<>> /\ cnt = 0
    BY <1>0, <2>1 DEF TypeInv, TaskOK, Dispatching
  <2>3. \A t \in Threads : pc[t] # "write"
    BY <2>1, <2>2 DEF LiveOK, QueuedOf, HandledOf, InSend
  <2>4. Writing' = {}
    BY <1>0, <1>4, <2>3 DEF Writing, Run, RunMain
  <2>5. InFlight' = 0
    BY <2>1 DEF InFlight
  <2> QED
    BY <2>1, <2>2, <2>4, <2>5, FS_EmptySet DEF CountConservation
<1>5. CASE Terminate
  <2>1. Writing' = Writing
    BY <1>0, <1>5 DEF Terminate, Writing
  <2> QED
    BY <1>5, <2>1, CountPost DEF Terminate, taskVars, InFlight, MsgIds
<1>6. CASE WaitTask \/ MainReturn \/ Join
  <2>1. Writing' = Writing
    BY <1>0, <1>6 DEF WaitTask, MainReturn, Join, Writing
  <2> QED
    BY <1>1, <1>6, <2>1 DEF WaitTask, MainReturn, Join, queueVars, taskVars, InFlight
<1>7. CASE RunSend
  BY <1>0, <1>7, CountSend DEF RunSend, MsgIds, InSend
<1>8. CASE MainPost
  <2>1. tpc = "off" /\ tpc' = "start" /\ PostEdMsg("EDM_INIT") /\ cnt' = cnt
        /\ pc[Owner] = "mainpost" /\ pc' = [pc EXCEPT ![Owner] = "inmain"]
    BY <1>8 DEF MainPost, TypeInv, TaskOK
  <2>2. Writing' = Writing /\ InFlight' = InFlight
    BY <1>0, <2>1 DEF Writing, InFlight
  <2> QED
    BY <2>1, <2>2, CountPost DEF MsgIds
<1>9. ASSUME NEW t \in Clients, NEW id \in ClientIds, Post(t, id)
      PROVE  CountConservation'
  BY <1>9, CountPost DEF Post, taskVars, callerVars, ClientIds, MsgIds, InFlight, Writing
<1>10. ASSUME NEW t \in Clients, NEW id \in ClientIds, Send(t, id)
       PROVE  CountConservation'
  BY <1>0, <1>10, CountSend DEF Send, ClientIds, MsgIds, InSend
<1>11. ASSUME NEW t \in Threads, SendWrite(t) PROVE CountConservation'
  <2>1. CASE mMsgFd >= 0
    <3>1. /\ evtCount' = evtCount + 1 /\ UNCHANGED <<mMsgFd, mQuedMsgs, cnt, tpc>>
          /\ pc[t] = "write" /\ pc' = [pc EXCEPT ![t] = "waiting"]
      BY <1>11, <2>1 DEF SendWrite, WriteEventFd
    <3>2. Writing' = Writing \ {t} /\ t \in Writing
      BY <1>0, <3>1 DEF Writing
    <3>3. Cardinality(Writing') = Cardinality(Writing) - 1
      BY <3>2, WritingFinite, FS_RemoveElement
    <3> QED
      BY <1>0, <3>1, <3>3 DEF CountConservation, InFlight
  <2>2. CASE ~(mMsgFd >= 0)
    BY <1>0, <1>2, <1>11, <2>2 DEF SendWrite
  <2> QED
    BY <2>1, <2>2
<1>12. ASSUME NEW t \in Threads, Wake(t) PROVE CountConservation'
  <2>1. Len(mQuedMsgs') = Len(mQuedMsgs)
    BY <1>12, FrameDiesEffect DEF Wake, TypeInv
  <2>2. Writing' = Writing
    BY <1>0, <1>12 DEF Wake, Writing
  <2> QED
    BY <1>1, <1>12, <2>1, <2>2 DEF Wake, InFlight
<1>13. CASE TaskStart \/ DispatchEnd \/ HandlerReturn \/ NotifySender
  <2>1. UNCHANGED <<mMsgFd, evtCount, mQuedMsgs, cnt, pc>>
    BY <1>13 DEF TaskStart, DispatchEnd, HandlerReturn, NotifySender, queueVars,
       callerVars
  <2>2. InFlight' = InFlight
    BY <1>13 DEF TaskStart, DispatchEnd, HandlerReturn, NotifySender, InFlight
  <2> QED
    BY <1>1, <2>1, <2>2 DEF Writing
<1>14. CASE MsgEvent
  <2>1. cnt = 0
    BY <1>0, <1>14 DEF MsgEvent, TypeInv, TaskOK, Dispatching
  <2> QED
    BY <1>0, <1>14, <2>1 DEF MsgEvent, callerVars, CountConservation, InFlight, Writing
<1>15. CASE DispatchPop
  <2>0. /\ tpc = "pop" /\ cnt > 0 /\ mMsgFd >= 0 /\ Writing' = Writing
        /\ UNCHANGED <<mMsgFd, evtCount>>
    BY <1>15 DEF DispatchPop, TypeInv, TaskOK, Writing
  <2>1. mQuedMsgs # <<>>
    <3> SUFFICES ASSUME mQuedMsgs = <<>> PROVE FALSE
      OBVIOUS
    <3>1. Len(mQuedMsgs) = 0 /\ InFlight = 0
      BY <2>0 DEF InFlight
    <3> QED
      BY <1>0, <2>0, <3>1 DEF CountConservation
  <2>2. Len(Tail(mQuedMsgs)) = Len(mQuedMsgs) - 1
    BY <2>1, HeadTail DEF TypeInv, TypeOK
  <2>3. /\ mQuedMsgs' = Tail(mQuedMsgs) /\ cnt' = cnt
        /\ InFlight = 0 /\ InFlight' = 1
    BY <1>15, <2>1 DEF DispatchPop, InFlight
  <2>4. Len(mQuedMsgs') + InFlight' = Len(mQuedMsgs) + InFlight
    BY <1>0, <2>2, <2>3
  <2> QED
    BY <2>0, <2>3, <2>4 DEF CountConservation
<1>16. CASE Recycle
  <2>1. InFlight = 1 /\ InFlight' = 0 /\ cnt' = cnt - 1
        /\ UNCHANGED <<mMsgFd, evtCount, mQuedMsgs>> /\ Writing' = Writing
    BY <1>16 DEF Recycle, InFlight, callerVars, Writing
  <2> QED
    BY <1>0, <2>1 DEF CountConservation
<1>17. CASE CloseMsg \/ CloseMsgDrain \/ CloseMsgEnd
  BY <1>0, <1>2, <1>17 DEF CloseMsg, CloseMsgDrain, CloseMsgEnd, TypeInv, TaskOK
<1>18. ASSUME NEW id \in ClientIds, SelfPost(id) PROVE CountConservation'
  BY <1>18, CountPost DEF SelfPost, taskVars, callerVars, ClientIds, MsgIds, InFlight,
                          Writing
<1>19. ASSUME NEW code \in ResultCodes, SetSendMsgResult(code)
       PROVE  CountConservation'
  BY <1>1, <1>19 DEF SetSendMsgResult, queueVars, taskVars, InFlight, Writing
<1> QED
  BY <1>3, <1>4, <1>5, <1>6, <1>7, <1>8, <1>9, <1>10, <1>11, <1>12, <1>13, <1>14,
     <1>15, <1>16, <1>17, <1>18, <1>19
  DEF Next, OwnerCall, OwnerStep, ClientCall, SendStep, SendWake, SpuriousWakeup,
      TaskStep, HandlerCall, Ended

\* The eventfd and the queue never disagree: dispatchMsgs pops exactly the
\* messages that were announced, so the branch "unexpected msg que error" is
\* dead code, and a queued message always wakes the task.
THEOREM CountConserved == Spec => []CountConservation
<1>1. Init => CountConservation
  BY DEF Init, CountConservation
<1>2. TypeInv /\ LiveOK /\ CountConservation /\ [Next]_vars
        => TypeInv' /\ LiveOK' /\ CountConservation'
  BY TypeStep, LiveStep, CountStep
<1> QED
  BY <1>1, <1>2, TypeInit, LiveInit, PTL DEF Spec

-----------------------------------------------------------------------------
(***************************************************************************)
(* The frames of the senders.                                              *)
(***************************************************************************)

\* FramesOK is inductive relative to TypeInv and LiveOK: a sender that returns
\* was signalled, and a signalled sender has no message left in the task; one
\* whose write fails returns with its message in a queue that closeMsg drains.
LEMMA FramesStep ==
    ASSUME TypeInv, LiveOK, FramesOK, [Next]_vars
    PROVE  FramesOK'
<1> SUFFICES ASSUME ~SpuriousWakeups PROVE FramesOK'
  BY DEF FramesOK
<1>0. /\ ~HandledOf(DeadFrame)
      /\ ~NDEBUG \/ tpc # "drain" => FramesLive
      /\ DeadFrame \notin Threads /\ DeadFrame # NoThread
      /\ Owner \in Threads /\ Clients \subseteq Threads
  BY ThreadsAssumption DEF FramesOK, Threads
<1>1. ASSUME UNCHANGED mQuedMsgs, ~HandledOf(DeadFrame)',
             fault' = "dangling" => fault = "dangling", tpc' # "drain" => tpc # "drain"
      PROVE  FramesOK'
  BY <1>0, <1>1 DEF FramesOK, FramesLive
<1>2. ASSUME NEW m \in EdMsg, m.from # DeadFrame, Enqueue(m), tpc # "drain",
             ~HandledOf(DeadFrame)', fault' = fault
      PROVE  FramesOK'
  <2>1. /\ DOMAIN mQuedMsgs' = DOMAIN mQuedMsgs \cup {Len(mQuedMsgs) + 1}
        /\ \A i \in DOMAIN mQuedMsgs : mQuedMsgs'[i] = mQuedMsgs[i]
        /\ mQuedMsgs'[Len(mQuedMsgs) + 1] = m
    BY <1>2, EnqueueEffect DEF TypeInv
  <2> QED
    BY <1>0, <1>2, <2>1 DEF FramesOK, FramesLive
<1>3. ASSUME NEW id \in MsgIds, PostEdMsg(id), ~HandledOf(DeadFrame)', tpc # "drain"
      PROVE  FramesOK'
  <2>1. Msg(id, NoThread) \in EdMsg /\ Msg(id, NoThread).from # DeadFrame
    BY <1>0 DEF Msg, EdMsg
  <2>2. CASE UNCHANGED queueVars /\ fault' \in {fault, "none", "queue_full"}
    BY <1>0, <1>1, <1>3, <2>2 DEF queueVars
  <2>3. CASE Enqueue(Msg(id, NoThread)) /\ fault' = fault
    BY <1>0, <1>2, <1>3, <2>1, <2>3
  <2> QED
    BY <1>3, <2>2, <2>3, PostEffect DEF TypeInv
<1>4. ASSUME NEW t \in Threads, NEW id \in MsgIds, SendEdMsg(t, id)
      PROVE  FramesOK'
  <2>1. Msg(id, t) \in EdMsg /\ Msg(id, t).from # DeadFrame
    BY <1>0 DEF Msg, EdMsg
  <2>2. ~HandledOf(DeadFrame)'
    BY <1>0, <1>4 DEF SendEdMsg, taskVars, HandledOf
  <2>3. CASE UNCHANGED queueVars /\ fault' \in {fault, "none", "queue_full"}
    BY <1>0, <1>1, <1>4, <2>2, <2>3, SendEffect DEF queueVars, TypeInv
  <2>4. CASE Enqueue(Msg(id, t)) /\ fault' = fault
    BY <1>0, <1>2, <1>4, <2>1, <2>2, <2>4, SendEffect DEF TypeInv
  <2> QED
    BY <1>4, <2>3, <2>4, SendEffect DEF TypeInv
<1>5. CASE UNCHANGED vars
  BY <1>0, <1>1, <1>5 DEF vars, HandledOf
<1>6. ASSUME NEW fd \in EventFds, Run(fd) \/ RunMain(fd) PROVE FramesOK'
  BY <1>0, <1>1, <1>6 DEF Run, RunMain, taskVars, HandledOf
<1>7. CASE Terminate
  BY <1>0, <1>3, <1>7 DEF Terminate, MsgMutexFree, taskVars, HandledOf, MsgIds
<1>8. CASE WaitTask \/ MainReturn \/ Join
  BY <1>0, <1>1, <1>8 DEF WaitTask, MainReturn, Join, queueVars, taskVars, HandledOf
<1>9. CASE RunSend
  BY <1>0, <1>4, <1>9 DEF RunSend, MsgIds
<1>10. CASE MainPost
  BY <1>3, <1>10 DEF MainPost, HandledOf, MsgIds, TypeInv, TaskOK
<1>11. ASSUME NEW t \in Clients, NEW id \in ClientIds, Post(t, id) PROVE FramesOK'
  BY <1>0, <1>3, <1>11 DEF Post, MsgMutexFree, taskVars, HandledOf, ClientIds, MsgIds
<1>12. ASSUME NEW t \in Clients, NEW id \in ClientIds, Send(t, id) PROVE FramesOK'
  BY <1>0, <1>4, <1>12 DEF Send, ClientIds, MsgIds
<1>13. ASSUME NEW t \in Threads, SendWrite(t) PROVE FramesOK'
  <2>1. CASE mMsgFd >= 0 \/ ~NDEBUG
    BY <1>0, <1>1, <1>13, <2>1 DEF SendWrite, WriteFails, HandledOf
  <2>2. CASE ~(mMsgFd >= 0) /\ NDEBUG
    <3>1. FrameDies(t) /\ UNCHANGED <<tpc, fault>>
      BY <1>13, <2>2 DEF SendWrite, WriteFails
    <3>2. tpc \notin {"handle", "notify"} /\ (tpc # "drain" => mQuedMsgs = <<>>)
      BY <2>2 DEF TypeInv, TypeOK, TaskOK
    <3>3. mQuedMsgs = <<>> => mQuedMsgs' = mQuedMsgs
      BY <3>1, FrameDiesEffect DEF TypeInv
    <3> QED
      BY <1>0, <2>2, <3>1, <3>2, <3>3 DEF FramesOK, FramesLive, HandledOf
  <2> QED
    BY <2>1, <2>2
<1>14. ASSUME NEW t \in Threads, SendStep(t) \/ SpuriousWakeup(t), ~SendWrite(t)
       PROVE  FramesOK'
  <2>1. t \in notified /\ FrameDies(t) /\ UNCHANGED <<tpc, fault>>
    BY <1>14 DEF SendStep, SendWake, SpuriousWakeup, Wake
  <2>2. ~QueuedOf(t) /\ ~HandledOf(t)
    BY <2>1 DEF LiveOK
  <2>3. /\ DOMAIN mQuedMsgs' = DOMAIN mQuedMsgs
        /\ \A i \in DOMAIN mQuedMsgs :
              mQuedMsgs'[i].from = IF mQuedMsgs[i].from = t THEN DeadFrame
                                   ELSE mQuedMsgs[i].from
        /\ pmsg'.from = IF pmsg.from = t THEN DeadFrame ELSE pmsg.from
    BY <2>1, FrameDiesEffect DEF TypeInv
  <2>4. FramesLive => FramesLive'
    BY <2>1, <2>2, <2>3 DEF FramesLive, QueuedOf
  <2>5. ~HandledOf(DeadFrame)'
    BY <1>0, <2>1, <2>2, <2>3 DEF HandledOf
  <2> QED
    BY <1>0, <2>1, <2>4, <2>5 DEF FramesOK
<1>15. CASE TaskStart \/ MsgEvent \/ DispatchEnd \/ Recycle \/ CloseMsg \/ HandlerReturn
  BY <1>0, <1>1, <1>15 DEF TaskStart, MsgEvent, DispatchEnd, Recycle, CloseMsg,
     HandlerReturn, queueVars, HandledOf
<1>16. CASE DispatchPop
  <2>1. CASE mQuedMsgs = <<>>
    BY <1>0, <1>1, <1>16, <2>1 DEF DispatchPop, HandledOf
  <2>2. CASE mQuedMsgs # <<>>
    <3>1. /\ Head(mQuedMsgs) = mQuedMsgs[1] /\ 1 \in DOMAIN mQuedMsgs
          /\ \A i \in DOMAIN Tail(mQuedMsgs) :
                i + 1 \in DOMAIN mQuedMsgs /\ Tail(mQuedMsgs)[i] = mQuedMsgs[i + 1]
      BY <2>2, HeadTail DEF TypeInv, TypeOK
    <3>2. /\ mQuedMsgs' = Tail(mQuedMsgs) /\ pmsg' = Head(mQuedMsgs) /\ fault' = fault
          /\ tpc # "drain"
      BY <1>16, <2>2 DEF DispatchPop
    <3> QED
      BY <1>0, <3>1, <3>2 DEF FramesOK, FramesLive, HandledOf
  <2> QED
    BY <2>1, <2>2
<1>17. CASE NotifySender
  <2>1. pmsg.from # DeadFrame
    BY <1>0, <1>17 DEF NotifySender, HandledOf
  <2> QED
    BY <1>0, <1>1, <1>17, <2>1 DEF NotifySender, queueVars, HandledOf
<1>18. CASE CloseMsgDrain
  <2>1. /\ Head(mQuedMsgs) = mQuedMsgs[1] /\ 1 \in DOMAIN mQuedMsgs
        /\ \A i \in DOMAIN Tail(mQuedMsgs) :
              i + 1 \in DOMAIN mQuedMsgs /\ Tail(mQuedMsgs)[i] = mQuedMsgs[i + 1]
    BY <1>18, HeadTail DEF CloseMsgDrain, TypeInv, TypeOK
  <2>2. tpc = "drain" /\ UNCHANGED <<tpc, pmsg>>
    BY <1>18 DEF CloseMsgDrain, taskVars
  <2>3. FramesLive => FramesLive'
    <3>1. FramesLive => mQuedMsgs' = Tail(mQuedMsgs) /\ fault' = fault
      BY <1>18, <2>1 DEF CloseMsgDrain, FramesLive
    <3> QED
      BY <2>1, <3>1 DEF FramesLive
  <2> QED
    BY <1>0, <2>2, <2>3 DEF FramesOK, HandledOf
<1>19. ASSUME NEW id \in ClientIds, SelfPost(id) PROVE FramesOK'
  BY <1>0, <1>3, <1>19 DEF SelfPost, taskVars, HandledOf, ClientIds, MsgIds
<1>20. ASSUME NEW code \in ResultCodes, SetSendMsgResult(code) PROVE FramesOK'
  <2>1. pmsg.from # DeadFrame
    BY <1>0, <1>20 DEF SetSendMsgResult, HandledOf
  <2> QED
    BY <1>0, <1>1, <1>20, <2>1 DEF SetSendMsgResult, queueVars, taskVars, HandledOf
<1>21. CASE CloseMsgEnd
  BY <1>21 DEF CloseMsgEnd, Alive, FramesOK, FramesLive, HandledOf
<1> QED
  BY <1>5, <1>6, <1>7, <1>8, <1>9, <1>10, <1>11, <1>12, <1>13, <1>14, <1>15, <1>16,
     <1>17, <1>18, <1>19, <1>20, <1>21
  DEF Next, OwnerCall, OwnerStep, ClientCall, SendStep, TaskStep, HandlerCall, Ended

\* For any number of threads, any queue limit and both builds, if waits do not end
\* spuriously: dispatchMsgs and the handlers never touch the condition variable,
\* the mutex or the result of a sendEdMsg that returned, and closeMsg can meet one
\* only in a build without assertions, in the queue it drains.
THEOREM FramesDangleOnlyInDrain ==
    ASSUME ~SpuriousWakeups
    PROVE  Spec => []DanglesOnlyInDrain
<1>1. Init => FramesOK
  BY DEF Init, FramesOK, FramesLive, HandledOf
<1>2. TypeInv /\ LiveOK /\ FramesOK /\ [Next]_vars
        => TypeInv' /\ LiveOK' /\ FramesOK'
  BY TypeStep, LiveStep, FramesStep
<1>3. FramesOK => DanglesOnlyInDrain
  BY BuildAssumption DEF FramesOK, FramesLive, HandledOf, DanglesOnlyInDrain
<1> QED
  BY <1>1, <1>2, <1>3, TypeInit, LiveInit, PTL DEF Spec

-----------------------------------------------------------------------------
(***************************************************************************)
(* What a send returns.                                                    *)
(***************************************************************************)

\* A step that tells t nothing.
LEMMA OutcomeFrame ==
    ASSUME NEW t \in Threads, Outcome(t),
           QueuedOf(t)' <=> QueuedOf(t), HandledOf(t)' <=> HandledOf(t),
           tpc' = "notify" /\ HandledOf(t)' <=> tpc = "notify" /\ HandledOf(t),
           result'[t] = result[t], t \in served' <=> t \in served
    PROVE  Outcome(t)'
BY DEF Outcome

\* A posted message is in nobody's way.
LEMMA PostQueued ==
    ASSUME TypeInv, NEW id \in MsgIds, PostEdMsg(id)
    PROVE  \A t \in Threads : QueuedOf(t)' <=> QueuedOf(t)
<1>1. CASE UNCHANGED queueVars
  BY <1>1 DEF queueVars, QueuedOf
<1>2. CASE Enqueue(Msg(id, NoThread))
  <2>1. Msg(id, NoThread) \in EdMsg /\ Msg(id, NoThread).from \notin Threads
    BY ThreadsAssumption DEF Msg, EdMsg
  <2>2. /\ DOMAIN mQuedMsgs' = DOMAIN mQuedMsgs \cup {Len(mQuedMsgs) + 1}
        /\ \A i \in DOMAIN mQuedMsgs : mQuedMsgs'[i] = mQuedMsgs[i]
        /\ mQuedMsgs'[Len(mQuedMsgs) + 1].from \notin Threads
    BY <1>2, <2>1, EnqueueEffect DEF TypeInv
  <2> QED
    BY <2>2 DEF QueuedOf
<1> QED
  BY <1>1, <1>2, PostEffect DEF TypeInv

\* A send starts with no outcome: -1 at once, or 0 with its message queued.
LEMMA OutcomeSend ==
    ASSUME TypeInv, LiveOK, NEW t \in Threads, NEW id \in MsgIds,
           SendEdMsg(t, id), ~InSend(t), NEW u \in Threads, Outcome(u)
    PROVE  Outcome(u)'
<1>1. /\ UNCHANGED taskVars /\ served' = served \ {t}
      /\ \/ UNCHANGED queueVars /\ result' = [result EXCEPT ![t] = -1]
         \/ Enqueue(Msg(id, t)) /\ result' = [result EXCEPT ![t] = 0]
  BY SendEffect DEF TypeInv
<1>2. /\ HandledOf(u)' <=> HandledOf(u)
      /\ tpc' = tpc /\ ~QueuedOf(t) /\ ~HandledOf(t)
      /\ result \in [Threads -> ResultCodes \cup {-1000, -1, 0}]
  BY <1>1 DEF taskVars, HandledOf, LiveOK, TypeInv, TypeOK
<1>3. CASE UNCHANGED queueVars /\ result' = [result EXCEPT ![t] = -1]
  <2>1. QueuedOf(u)' <=> QueuedOf(u)
    BY <1>3 DEF queueVars, QueuedOf
  <2>2. CASE u = t
    BY <1>1, <1>2, <1>3, <2>1, <2>2 DEF Outcome
  <2>3. CASE u # t
    BY <1>1, <1>2, <1>3, <2>1, <2>3, OutcomeFrame
  <2> QED
    BY <2>2, <2>3
<1>4. CASE Enqueue(Msg(id, t)) /\ result' = [result EXCEPT ![t] = 0]
  <2>1. Msg(id, t) \in EdMsg /\ Msg(id, t).from = t
    BY DEF Msg, EdMsg
  <2>2. /\ DOMAIN mQuedMsgs' = DOMAIN mQuedMsgs \cup {Len(mQuedMsgs) + 1}
        /\ \A i \in DOMAIN mQuedMsgs : mQuedMsgs'[i] = mQuedMsgs[i]
        /\ mQuedMsgs'[Len(mQuedMsgs) + 1].from = t
    BY <1>4, <2>1, EnqueueEffect DEF TypeInv
  <2>3. QueuedOf(u)' <=> QueuedOf(u) \/ u = t
    BY <2>2 DEF QueuedOf
  <2>4. CASE u = t
    BY <1>1, <1>2, <1>4, <2>3, <2>4 DEF Outcome
  <2>5. CASE u # t
    BY <1>1, <1>2, <1>4, <2>3, <2>5, OutcomeFrame
  <2> QED
    BY <2>4, <2>5
<1> QED
  BY <1>1, <1>3, <1>4

\* A sender that returns, if it has no message left or got the -1 of a failed
\* write.
LEMMA OutcomeReturn ==
    ASSUME TypeInv, NEW t \in Threads, FrameDies(t), tpc' = tpc, served' = served,
           NEW u \in Threads, Outcome(u), u # t => result'[u] = result[u],
           \/ result'[t] = result[t] /\ ~QueuedOf(t) /\ ~HandledOf(t)
           \/ result'[t] = -1 /\ t \notin served
    PROVE  Outcome(u)'
<1>1. /\ DOMAIN mQuedMsgs' = DOMAIN mQuedMsgs
      /\ \A i \in DOMAIN mQuedMsgs :
            mQuedMsgs'[i].from = IF mQuedMsgs[i].from = t THEN DeadFrame
                                 ELSE mQuedMsgs[i].from
      /\ pmsg'.from = IF pmsg.from = t THEN DeadFrame ELSE pmsg.from
  BY FrameDiesEffect DEF TypeInv
<1>2. DeadFrame \notin Threads
  BY ThreadsAssumption
<1>3. QueuedOf(u)' <=> QueuedOf(u) /\ u # t
  BY <1>1, <1>2 DEF QueuedOf
<1>4. HandledOf(u)' <=> HandledOf(u) /\ u # t
  BY <1>1, <1>2 DEF HandledOf
<1>5. CASE u # t
  BY <1>3, <1>4, <1>5, OutcomeFrame
<1>6. CASE u = t
  BY <1>3, <1>4, <1>6 DEF Outcome
<1> QED
  BY <1>5, <1>6

\* dispatchMsgs takes a message: not processed yet, unless it is EDM_EXIT.
LEMMA OutcomePop ==
    ASSUME TypeInv, LiveOK, DispatchPop, NEW u \in Threads, Outcome(u)
    PROVE  Outcome(u)'
<1>1. CASE mQuedMsgs = <<>>
  BY <1>1, OutcomeFrame DEF DispatchPop, QueuedOf, HandledOf
<1>2. CASE mQuedMsgs # <<>>
  <2>1. /\ mQuedMsgs' = Tail(mQuedMsgs) /\ pmsg' = Head(mQuedMsgs)
        /\ result' = result /\ tpc = "pop"
        /\ \/ tpc' = "handle" /\ served' = served
           \/ /\ tpc' = IF Sync(pmsg') THEN "notify" ELSE "recycle"
              /\ served' = served \cup ({Head(mQuedMsgs).from} \cap Threads)
    BY <1>2 DEF DispatchPop
  <2>2. /\ QueuedOf(u)' <=> QueuedOf(u) /\ u # Head(mQuedMsgs).from
        /\ u = Head(mQuedMsgs).from => QueuedOf(u)
    BY <1>2, <2>1, PopEffect
  <2>3. ~HandledOf(u) /\ (HandledOf(u)' <=> u = Head(mQuedMsgs).from)
    BY <2>1, ThreadsAssumption DEF HandledOf, Sync
  <2>4. CASE u = Head(mQuedMsgs).from
    <3>1. Sync(pmsg')
      BY <2>1, <2>4, ThreadsAssumption DEF Sync
    <3> QED
      BY <2>1, <2>2, <2>3, <2>4, <3>1 DEF Outcome
  <2>5. CASE u # Head(mQuedMsgs).from
    BY <2>1, <2>2, <2>3, <2>5, OutcomeFrame
  <2> QED
    BY <2>4, <2>5
<1> QED
  BY <1>1, <1>2

\* closeMsg drops a message: -1000 for its sender.
LEMMA OutcomeDrain ==
    ASSUME TypeInv, LiveOK, CloseMsgDrain, NEW u \in Threads, Outcome(u)
    PROVE  Outcome(u)'
<1>0. /\ tpc = "drain" /\ tpc' = tpc /\ mQuedMsgs # <<>> /\ served' = served
      /\ result \in [Threads -> ResultCodes \cup {-1000, -1, 0}]
  BY DEF CloseMsgDrain, taskVars, TypeInv, TypeOK
<1>1. ~HandledOf(u) /\ ~HandledOf(u)'
  BY <1>0 DEF HandledOf
<1>2. CASE Head(mQuedMsgs).from = DeadFrame
  <2>1. UNCHANGED <<mQuedMsgs, result>>
    BY <1>2 DEF CloseMsgDrain
  <2> QED
    BY <1>0, <1>1, <2>1, OutcomeFrame DEF QueuedOf
<1>3. CASE Head(mQuedMsgs).from # DeadFrame
  <2>1. mQuedMsgs' = Tail(mQuedMsgs)
    BY <1>3 DEF CloseMsgDrain
  <2>2. /\ QueuedOf(u)' <=> QueuedOf(u) /\ u # Head(mQuedMsgs).from
        /\ u = Head(mQuedMsgs).from => QueuedOf(u)
    BY <1>0, <2>1, PopEffect
  <2>3. result' = IF Sync(Head(mQuedMsgs))
                  THEN [result EXCEPT ![Head(mQuedMsgs).from] = -1000] ELSE result
    BY <1>3 DEF CloseMsgDrain, SetClosedResult
  <2>4. CASE u = Head(mQuedMsgs).from
    <3>1. result'[u] = -1000
      BY <1>0, <2>3, <2>4, ThreadsAssumption DEF Sync
    <3> QED
      BY <1>0, <1>1, <2>2, <2>4, <3>1 DEF Outcome
  <2>5. CASE u # Head(mQuedMsgs).from
    <3>1. result'[u] = result[u]
      BY <1>0, <2>3, <2>5
    <3> QED
      BY <1>0, <1>1, <2>2, <2>5, <3>1, OutcomeFrame
  <2> QED
    BY <2>4, <2>5
<1> QED
  BY <1>2, <1>3

\* OutcomeOK is inductive relative to TypeInv and LiveOK.
LEMMA OutcomeStep ==
    ASSUME TypeInv, LiveOK, OutcomeOK, [Next]_vars
    PROVE  OutcomeOK'
<1> SUFFICES ASSUME ~SpuriousWakeups, NEW u \in Threads PROVE Outcome(u)'
  BY DEF OutcomeOK
<1>0. /\ Outcome(u) /\ result \in [Threads -> ResultCodes \cup {-1000, -1, 0}]
      /\ pc \in [Threads -> CallerPcs] /\ Owner \in Threads /\ Clients \subseteq Threads
  BY DEF OutcomeOK, TypeInv, TypeOK, Threads
<1>1. ASSUME QueuedOf(u)' <=> QueuedOf(u), HandledOf(u)' <=> HandledOf(u),
             tpc' = "notify" <=> tpc = "notify", UNCHANGED <<result, served>>
      PROVE  Outcome(u)'
  BY <1>0, <1>1, OutcomeFrame
<1>2. ASSUME NEW id \in MsgIds, PostEdMsg(id), HandledOf(u)' <=> HandledOf(u),
             tpc' = "notify" <=> tpc = "notify", UNCHANGED <<result, served>>
      PROVE  Outcome(u)'
  BY <1>1, <1>2, PostQueued
<1>3. CASE UNCHANGED vars
  BY <1>1, <1>3 DEF vars, QueuedOf, HandledOf
<1>4. ASSUME NEW fd \in EventFds, Run(fd) \/ RunMain(fd) PROVE Outcome(u)'
  BY <1>1, <1>4 DEF Run, RunMain, taskVars, QueuedOf, HandledOf
<1>5. CASE Terminate
  BY <1>2, <1>5 DEF Terminate, taskVars, HandledOf, MsgIds
<1>6. CASE WaitTask \/ MainReturn \/ Join
  BY <1>1, <1>6 DEF WaitTask, MainReturn, Join, queueVars, taskVars, QueuedOf, HandledOf
<1>7. CASE RunSend
  BY <1>0, <1>7, OutcomeSend DEF RunSend, MsgIds, InSend
<1>8. CASE MainPost
  <2>1. tpc = "off" /\ tpc' = "start" /\ PostEdMsg("EDM_INIT")
        /\ UNCHANGED <<result, served>>
    BY <1>8 DEF MainPost, TypeInv, TaskOK
  <2> QED
    BY <1>2, <2>1 DEF HandledOf, MsgIds
<1>9. ASSUME NEW t \in Clients, NEW id \in ClientIds, Post(t, id) PROVE Outcome(u)'
  BY <1>2, <1>9 DEF Post, taskVars, callerVars, HandledOf, ClientIds, MsgIds
<1>10. ASSUME NEW t \in Clients, NEW id \in ClientIds, Send(t, id) PROVE Outcome(u)'
  BY <1>0, <1>10, OutcomeSend DEF Send, ClientIds, MsgIds, InSend
<1>11. ASSUME NEW t \in Threads, SendWrite(t) PROVE Outcome(u)'
  <2>1. CASE mMsgFd >= 0 \/ ~NDEBUG
    BY <1>1, <1>11, <2>1 DEF SendWrite, WriteFails, QueuedOf, HandledOf
  <2>2. CASE ~(mMsgFd >= 0) /\ NDEBUG
    <3>1. /\ FrameDies(t) /\ UNCHANGED <<tpc, served>> /\ pc[t] = "write"
          /\ result' = [result EXCEPT ![t] = -1]
      BY <1>11, <2>2 DEF SendWrite, WriteFails
    <3>2. QueuedOf(t) \/ HandledOf(t)
      BY <3>1 DEF LiveOK, InSend
    <3>3. tpc # "notify"
      BY <2>2 DEF TypeInv, TaskOK
    <3>4. t \notin served
      BY <3>2, <3>3 DEF OutcomeOK, Outcome
    <3> QED
      BY <1>0, <3>1, <3>4, OutcomeReturn
  <2> QED
    BY <2>1, <2>2
<1>12. ASSUME NEW t \in Threads, SendStep(t) \/ SpuriousWakeup(t), ~SendWrite(t)
       PROVE  Outcome(u)'
  <2>1. t \in notified /\ FrameDies(t) /\ UNCHANGED <<tpc, result, served>>
    BY <1>12 DEF SendStep, SendWake, SpuriousWakeup, Wake
  <2>2. ~QueuedOf(t) /\ ~HandledOf(t)
    BY <2>1 DEF LiveOK
  <2> QED
    BY <1>0, <2>1, <2>2, OutcomeReturn
<1>13. CASE TaskStart \/ MsgEvent \/ DispatchEnd \/ Recycle \/ CloseMsg \/ CloseMsgEnd
  BY <1>1, <1>13 DEF TaskStart, MsgEvent, DispatchEnd, Recycle, CloseMsg,
     CloseMsgEnd, queueVars, callerVars, QueuedOf, HandledOf
<1>14. CASE HandlerReturn
  <2>1. /\ tpc = "handle" /\ tpc' = IF Sync(pmsg) THEN "notify" ELSE "recycle"
        /\ served' = served \cup ({pmsg.from} \cap Threads)
        /\ UNCHANGED <<mQuedMsgs, pmsg, result>>
    BY <1>14 DEF HandlerReturn, queueVars
  <2>2. QueuedOf(u)' <=> QueuedOf(u)
    BY <2>1 DEF QueuedOf
  <2>3. CASE pmsg.from = u
    <3>1. HandledOf(u) /\ HandledOf(u)' /\ tpc' = "notify"
      BY <2>1, <2>3, ThreadsAssumption DEF HandledOf, Sync
    <3> QED
      BY <1>0, <2>1, <2>3, <3>1 DEF Outcome
  <2>4. CASE pmsg.from # u
    <3>1. ~HandledOf(u) /\ ~HandledOf(u)'
      BY <2>1, <2>4 DEF HandledOf
    <3> QED
      BY <1>0, <2>1, <2>2, <2>4, <3>1, OutcomeFrame
  <2> QED
    BY <2>3, <2>4
<1>15. CASE NotifySender
  <2>1. CASE pmsg.from = DeadFrame
    BY <1>1, <1>15, <2>1 DEF NotifySender, queueVars, QueuedOf, HandledOf
  <2>2. CASE pmsg.from # DeadFrame
    <3>1. tpc = "notify" /\ tpc' = "recycle" /\ UNCHANGED <<mQuedMsgs, pmsg, result, served>>
      BY <1>15, <2>2 DEF NotifySender, queueVars
    <3>2. ~HandledOf(u)' /\ (QueuedOf(u)' <=> QueuedOf(u))
      BY <3>1 DEF HandledOf, QueuedOf
    <3>3. ~(QueuedOf(u) /\ HandledOf(u))
      BY DEF LiveOK
    <3> QED
      BY <1>0, <3>1, <3>2, <3>3 DEF Outcome
  <2> QED
    BY <2>1, <2>2
<1>16. ASSUME NEW id \in ClientIds, SelfPost(id) PROVE Outcome(u)'
  BY <1>2, <1>16 DEF SelfPost, taskVars, callerVars, HandledOf, ClientIds, MsgIds
<1>17. ASSUME NEW code \in ResultCodes, SetSendMsgResult(code) PROVE Outcome(u)'
  <2>1. tpc = "handle" /\ UNCHANGED <<mQuedMsgs, tpc, pmsg, served>>
        /\ result' = IF pmsg.from = DeadFrame THEN result
                     ELSE [result EXCEPT ![pmsg.from] = code]
    BY <1>17 DEF SetSendMsgResult, queueVars, taskVars
  <2>2. (QueuedOf(u)' <=> QueuedOf(u)) /\ (HandledOf(u)' <=> HandledOf(u))
    BY <2>1 DEF QueuedOf, HandledOf
  <2>3. CASE pmsg.from = u
    <3>1. HandledOf(u) /\ result'[u] = code /\ code >= 0
      BY <1>0, <2>1, <2>3, ThreadsAssumption, ResultCodesAssumption DEF HandledOf
    <3> QED
      BY <1>0, <2>1, <2>2, <3>1 DEF Outcome
  <2>4. CASE pmsg.from # u
    <3>1. result'[u] = result[u]
      BY <1>0, <2>1, <2>4
    <3> QED
      BY <1>0, <2>1, <2>2, <3>1, OutcomeFrame
  <2> QED
    BY <2>3, <2>4
<1> QED
  BY <1>0, <1>3, <1>4, <1>5, <1>6, <1>7, <1>8, <1>9, <1>10, <1>11, <1>12, <1>13, <1>14,
     <1>15, <1>16, <1>17, OutcomePop, OutcomeDrain
  DEF Next, OwnerCall, OwnerStep, ClientCall, SendStep, TaskStep, HandlerCall, Ended

\* If waits do not end spuriously, then in both builds sendMsg returns a
\* non-negative value exactly when the task has processed the message.
THEOREM SendOutcomeTrue == Spec => [](~SpuriousWakeups => SendOutcome)
<1>1. Init => OutcomeOK
  BY DEF Init, OutcomeOK, Outcome, QueuedOf, HandledOf
<1>2. TypeInv /\ LiveOK /\ OutcomeOK /\ [Next]_vars
        => TypeInv' /\ LiveOK' /\ OutcomeOK'
  BY TypeStep, LiveStep, OutcomeStep
<1>3. LiveOK /\ OutcomeOK => (~SpuriousWakeups => SendOutcome)
  BY DEF LiveOK, OutcomeOK, Outcome, SendOutcome
<1> QED
  BY <1>1, <1>2, <1>3, TypeInit, LiveInit, PTL DEF Spec

-----------------------------------------------------------------------------
(***************************************************************************)
(* The refinement: a task is a mailbox.                                    *)
(***************************************************************************)
Callers == [t \in Threads |-> CallerOf(t)]

\* What a sender u has reached, as the mailbox sees it.
SameCaller(u) ==
    /\ InSend(u)' <=> InSend(u)
    /\ u \in notified' <=> u \in notified
    /\ u \in notified => (u \in served' <=> u \in served)

\* A step that lets no sender go and starts no send.
LEMMA CallersFrame ==
    ASSUME \A u \in Threads : SameCaller(u)
    PROVE  Callers' = Callers
BY DEF SameCaller, Callers, CallerOf

\* A step that takes one sender further.
LEMMA CallersOne ==
    ASSUME NEW t \in Threads, \A u \in Threads \ {t} : SameCaller(u)
    PROVE  Callers' = [Callers EXCEPT ![t] = CallerOf(t)']
<1>1. \A u \in Threads \ {t} : CallerOf(u)' = CallerOf(u)
  BY DEF SameCaller, CallerOf
<1> QED
  BY <1>1 DEF Callers

\* A step the mailbox does not see.
LEMMA Unseen ==
    ASSUME mMsgFd' >= 0 <=> mMsgFd >= 0, UNCHANGED mQuedMsgs,
           ServingMsg' = ServingMsg, \A u \in Threads : SameCaller(u)
    PROVE  UNCHANGED Mailbox!vars
BY CallersFrame DEF Mailbox!vars, Callers

\* postEdMsg is a post, or nothing when the queue is closed or full.
LEMMA MailboxPost ==
    ASSUME TypeInv, NEW id \in MsgIds, PostEdMsg(id),
           ServingMsg' = ServingMsg, \A u \in Threads : SameCaller(u)
    PROVE  Mailbox!Next \/ UNCHANGED Mailbox!vars
<1>1. CASE UNCHANGED queueVars
  BY <1>1, Unseen DEF queueVars
<1>2. CASE mMsgFd >= 0 /\ Enqueue(Msg(id, NoThread)) /\ UNCHANGED mMsgFd
  <2>1. Mailbox!Post(id)
    BY <1>2, CallersFrame DEF Mailbox!Post, Mailbox!Accept, Callers, Enqueue, Msg
  <2> QED
    BY <2>1 DEF Mailbox!Next
<1> QED
  BY <1>1, <1>2, PostEffect DEF TypeInv

\* The first step of sendEdMsg is a call, or nothing.
LEMMA MailboxSend ==
    ASSUME TypeInv, LiveOK, NEW t \in Threads, NEW id \in MsgIds, SendEdMsg(t, id),
           ~InSend(t)
    PROVE  Mailbox!Next \/ UNCHANGED Mailbox!vars
<1>0. /\ UNCHANGED <<taskVars, notified, mMsgFd>> /\ served' = served \ {t}
      /\ \/ UNCHANGED queueVars /\ pc' = [pc EXCEPT ![t] = "idle"]
         \/ /\ mMsgFd >= 0 /\ Enqueue(Msg(id, t))
            /\ pc' = [pc EXCEPT ![t] = "write"]
  BY SendEffect DEF TypeInv
<1>1. /\ pc \in [Threads -> CallerPcs] /\ t \notin notified
      /\ ServingMsg' = ServingMsg
  BY <1>0 DEF TypeInv, TypeOK, LiveOK, InSend, ServingMsg, taskVars, Sync
<1>2. \A u \in Threads \ {t} : SameCaller(u)
  BY <1>0, <1>1 DEF SameCaller, InSend
<1>3. CASE UNCHANGED queueVars /\ pc' = [pc EXCEPT ![t] = "idle"]
  <2>1. SameCaller(t)
    BY <1>0, <1>1, <1>3 DEF SameCaller, InSend
  <2> QED
    BY <1>1, <1>2, <1>3, <2>1, Unseen DEF queueVars
<1>4. CASE /\ mMsgFd >= 0 /\ Enqueue(Msg(id, t))
           /\ pc' = [pc EXCEPT ![t] = "write"]
  <2>1. CallerOf(t) = "out" /\ CallerOf(t)' = "in"
    BY <1>0, <1>1, <1>4 DEF CallerOf, InSend
  <2>2. Callers' = [Callers EXCEPT ![t] = "in"] /\ Callers[t] = "out"
    BY <1>2, <2>1, CallersOne DEF Callers
  <2>3. Mailbox!Call(t, id)
    BY <1>0, <1>1, <1>4, <2>2 DEF Mailbox!Call, Mailbox!Accept, Callers, Enqueue, Msg
  <2> QED
    BY <2>3 DEF Mailbox!Next
<1> QED
  BY <1>0, <1>3, <1>4

\* A signalled sender has no message left in the task, so its return changes
\* neither the queue nor the message being served.
LEMMA MailboxReturn ==
    ASSUME TypeInv, LiveOK, NEW t \in Threads, SendWake(t)
    PROVE  Mailbox!Next
<1>0. /\ t \in notified /\ pc[t] = "waiting" /\ FrameDies(t)
      /\ pc' = [pc EXCEPT ![t] = "idle"] /\ notified' = notified \ {t}
      /\ UNCHANGED <<mMsgFd, tpc, served>>
  BY DEF SendWake, Wake
<1>1. ~QueuedOf(t) /\ ~HandledOf(t) /\ pc \in [Threads -> CallerPcs]
  BY <1>0 DEF LiveOK, TypeInv, TypeOK
<1>2. mQuedMsgs' = mQuedMsgs
  <2>1. mQuedMsgs \in Seq(EdMsg) /\ mQuedMsgs' \in Seq(EdMsg)
        /\ Len(mQuedMsgs') = Len(mQuedMsgs)
    BY <1>0, FrameDiesEffect DEF TypeInv, TypeOK
  <2>2. \A i \in DOMAIN mQuedMsgs : mQuedMsgs'[i] = mQuedMsgs[i]
    BY <1>0, <1>1 DEF FrameDies, Orphan, QueuedOf
  <2> QED
    BY <2>1, <2>2
<1>3. ServingMsg' = ServingMsg
  <2>1. Sync(pmsg) <=> Sync(pmsg')
    BY <1>0, FrameDiesEffect DEF TypeInv
  <2>2. tpc \in {"handle", "notify"} \/ ~Sync(pmsg) => pmsg' = pmsg
    BY <1>0, <1>1, ThreadsAssumption DEF FrameDies, Orphan, HandledOf, Sync
  <2> QED
    BY <1>0, <2>1, <2>2 DEF ServingMsg
<1>4. \A u \in Threads \ {t} : SameCaller(u)
  BY <1>0, <1>1 DEF SameCaller, InSend
<1>5. CallerOf(t)' = "out" /\ CallerOf(t) \in {"served", "dropped"}
  BY <1>0, <1>1 DEF CallerOf, InSend
<1>6. Callers' = [Callers EXCEPT ![t] = "out"] /\ Callers[t] \in {"served", "dropped"}
  BY <1>4, <1>5, CallersOne DEF Callers
<1>7. Mailbox!Return(t)
  BY <1>0, <1>2, <1>3, <1>6 DEF Mailbox!Return, Callers
<1> QED
  BY <1>7 DEF Mailbox!Next

\* dispatchMsgs takes the oldest message, with no other in its hands.
LEMMA MailboxTake ==
    ASSUME TypeInv, LiveOK, DispatchPop
    PROVE  Mailbox!Next \/ UNCHANGED Mailbox!vars
<1>1. CASE mQuedMsgs = <<>>
  BY <1>1, Unseen DEF DispatchPop, ServingMsg, Sync, SameCaller, InSend
<1>2. CASE mQuedMsgs # <<>>
  <2> DEFINE m == Head(mQuedMsgs)
  <2>1. /\ mQuedMsgs' = Tail(mQuedMsgs) /\ pmsg' = m /\ tpc = "pop"
        /\ UNCHANGED <<mMsgFd, pc, notified>>
        /\ \/ tpc' = "handle" /\ served' = served
           \/ /\ tpc' = IF Sync(m) THEN "notify" ELSE "recycle"
              /\ served' = served \cup ({m.from} \cap Threads)
    BY <1>2 DEF DispatchPop
  <2>2. ServingMsg = <<>> /\ ServingMsg' = <<m>> /\ mMsgFd >= 0
    BY <2>1 DEF ServingMsg, Sync, TypeInv, TypeOK, TaskOK
  <2>3. \A u \in Threads : u = m.from => u \notin notified
    BY <1>2, <2>1, PopEffect DEF LiveOK
  <2>4. Callers' = Callers
    BY <2>1, <2>3, CallersFrame DEF SameCaller, InSend
  <2>5. Mailbox!Take
    BY <1>2, <2>1, <2>2, <2>4 DEF Mailbox!Take, Callers
  <2> QED
    BY <2>5 DEF Mailbox!Next
<1> QED
  BY <1>1, <1>2

\* notify_one lets the sender go with its message processed.
LEMMA MailboxFinish ==
    ASSUME TypeInv, LiveOK, FramesOK, OutcomeOK, ~NDEBUG, ~SpuriousWakeups, NotifySender
    PROVE  Mailbox!Next
<1>0. /\ tpc = "notify" /\ pmsg \in EdMsg /\ Sync(pmsg) /\ pmsg.from # DeadFrame
  BY DEF NotifySender, FramesOK, HandledOf, TypeInv, TypeOK, TaskOK, Dispatching
<1>1. PICK t \in Threads : t = pmsg.from /\ t # NoThread
  BY <1>0, ThreadsAssumption DEF EdMsg, Sync
<1>2. /\ notified' = notified \cup {t} /\ tpc' = "recycle"
      /\ UNCHANGED <<mMsgFd, mQuedMsgs, pmsg, pc, served>>
  BY <1>0, <1>1 DEF NotifySender, Signal, queueVars
<1>3. HandledOf(t) /\ InSend(t) /\ t \in served
  BY <1>0, <1>1 DEF HandledOf, LiveOK, OutcomeOK, Outcome
<1>4. ServingMsg = <<pmsg>> /\ ServingMsg' = <<>>
  BY <1>0, <1>2 DEF ServingMsg, Sync
<1>5. CallerOf(t)' = "served"
  BY <1>2, <1>3 DEF CallerOf, InSend
<1>6. \A u \in Threads \ {t} : SameCaller(u)
  BY <1>2 DEF SameCaller, InSend
<1>7. Callers' = [Callers EXCEPT ![t] = "served"]
  BY <1>1, <1>5, <1>6, CallersOne
<1>8. Mailbox!Finish
  BY <1>1, <1>2, <1>4, <1>7 DEF Mailbox!Finish, Mailbox!Release, Callers
<1> QED
  BY <1>8 DEF Mailbox!Next

\* closeMsg lets the sender of each queued message go with its message dropped.
LEMMA MailboxDrop ==
    ASSUME TypeInv, LiveOK, FramesOK, OutcomeOK, ~NDEBUG, ~SpuriousWakeups, CloseMsgDrain
    PROVE  Mailbox!Next
<1> DEFINE m == Head(mQuedMsgs)
<1>0. /\ tpc = "drain" /\ tpc' = tpc /\ pmsg' = pmsg /\ mQuedMsgs # <<>>
      /\ UNCHANGED <<mMsgFd, pc, served>>
  BY DEF CloseMsgDrain, taskVars
<1>1. m \in EdMsg /\ m.from # DeadFrame
  <2>1. m \in EdMsg /\ m = mQuedMsgs[1] /\ 1 \in DOMAIN mQuedMsgs
    BY <1>0, HeadTail DEF TypeInv, TypeOK
  <2> QED
    BY <2>1 DEF FramesOK, FramesLive
<1>2. /\ mQuedMsgs' = Tail(mQuedMsgs)
      /\ notified' = IF Sync(m) THEN notified \cup {m.from} ELSE notified
  BY <1>1 DEF CloseMsgDrain, Signal
<1>3. ServingMsg = <<>> /\ ServingMsg' = <<>> /\ ~(mMsgFd >= 0)
  BY <1>0 DEF ServingMsg, TypeInv, TypeOK, TaskOK
<1>4. Callers' = IF m.from = NoThread THEN Callers
                 ELSE [Callers EXCEPT ![m.from] = "dropped"]
  <2>1. CASE m.from = NoThread
    BY <1>0, <1>2, <2>1, CallersFrame DEF SameCaller, InSend, Sync
  <2>2. CASE m.from # NoThread
    <3>1. PICK t \in Threads : t = m.from
      BY <1>1, <2>2 DEF EdMsg
    <3>2. QueuedOf(t)
      BY <1>0, <1>2, <3>1, PopEffect
    <3>3. InSend(t) /\ t \notin served
      BY <1>0, <3>2 DEF LiveOK, OutcomeOK, Outcome
    <3>4. notified' = notified \cup {t}
      BY <1>2, <2>2, <3>1 DEF Sync
    <3>5. CallerOf(t)' = "dropped"
      BY <1>0, <3>3, <3>4 DEF CallerOf, InSend
    <3>6. \A u \in Threads \ {t} : SameCaller(u)
      BY <1>0, <3>4 DEF SameCaller, InSend
    <3>7. Callers' = [Callers EXCEPT ![t] = "dropped"]
      BY <3>5, <3>6, CallersOne
    <3> QED
      BY <2>2, <3>1, <3>7
  <2> QED
    BY <2>1, <2>2
<1>5. Mailbox!Drop
  BY <1>0, <1>2, <1>3, <1>4 DEF Mailbox!Drop, Mailbox!Release, Callers
<1> QED
  BY <1>5 DEF Mailbox!Next

\* Every step of the task and of its callers is a step of the mailbox, or none.
LEMMA MailboxStep ==
    ASSUME TypeInv, LiveOK, FramesOK, OutcomeOK, ~NDEBUG, ~SpuriousWakeups, [Next]_vars
    PROVE  Mailbox!Next \/ UNCHANGED Mailbox!vars
<1> USE DEF InSend, ServingMsg, Sync, SameCaller
<1>0. /\ pc \in [Threads -> CallerPcs] /\ Owner \in Threads /\ Clients \subseteq Threads
      /\ mMsgFd \in Int
  BY DEF TypeInv, TypeOK, Threads
<1>1. CASE UNCHANGED vars
  BY <1>1, Unseen DEF vars
<1>2. ASSUME NEW fd \in EventFds, Run(fd) \/ RunMain(fd)
      PROVE  Mailbox!Next \/ UNCHANGED Mailbox!vars
  <2>1. /\ pc[Owner] = "idle" /\ tpc = "off" /\ mMsgFd' = fd /\ tpc' \in {"off", "start"}
        /\ UNCHANGED <<mQuedMsgs, pmsg, notified, served>>
        /\ pc' \in {pc, [pc EXCEPT ![Owner] = "runsend"], [pc EXCEPT ![Owner] = "mainpost"]}
    BY <1>2 DEF Run, RunMain, InitMsg, taskVars
  <2>2. ~(mMsgFd >= 0) /\ mQuedMsgs = <<>> /\ fd \in Int
    BY <1>0, <2>1, EventFdsAssumption DEF TypeInv, TaskOK
  <2>3. ServingMsg' = ServingMsg /\ \A u \in Threads : SameCaller(u)
    BY <1>0, <2>1
  <2>4. CASE fd < 0
    BY <2>1, <2>2, <2>3, <2>4, Unseen
  <2>5. CASE fd >= 0
    <3>1. Mailbox!Open
      BY <2>1, <2>2, <2>3, <2>5, CallersFrame DEF Mailbox!Open, Callers
    <3> QED
      BY <3>1 DEF Mailbox!Next
  <2> QED
    BY <2>2, <2>4, <2>5
<1>3. CASE Terminate
  BY <1>0, <1>3, MailboxPost DEF Terminate, taskVars, MsgIds
<1>4. CASE WaitTask \/ MainReturn \/ Join
  BY <1>0, <1>4, Unseen DEF WaitTask, MainReturn, Join, queueVars, taskVars
<1>5. CASE RunSend
  BY <1>0, <1>5, MailboxSend DEF RunSend, MsgIds
<1>6. CASE MainPost
  <2>1. tpc = "off" /\ tpc' = "start" /\ PostEdMsg("EDM_INIT")
        /\ UNCHANGED <<pmsg, notified, served>>
        /\ pc[Owner] = "mainpost" /\ pc' = [pc EXCEPT ![Owner] = "inmain"]
    BY <1>6 DEF MainPost, TypeInv, TaskOK
  <2> QED
    BY <1>0, <2>1, MailboxPost DEF MsgIds
<1>7. ASSUME NEW t \in Clients, NEW id \in ClientIds, Post(t, id)
      PROVE  Mailbox!Next \/ UNCHANGED Mailbox!vars
  BY <1>7, MailboxPost DEF Post, taskVars, callerVars, ClientIds, MsgIds
<1>8. ASSUME NEW t \in Clients, NEW id \in ClientIds, Send(t, id)
      PROVE  Mailbox!Next \/ UNCHANGED Mailbox!vars
  BY <1>0, <1>8, MailboxSend DEF Send, ClientIds, MsgIds
<1>9. ASSUME NEW t \in Threads, SendWrite(t) PROVE UNCHANGED Mailbox!vars
  BY <1>0, <1>9, Unseen DEF SendWrite, WriteFails
<1>10. ASSUME NEW t \in Threads, SpuriousWakeup(t) PROVE FALSE
  BY <1>10 DEF SpuriousWakeup
<1>11. CASE TaskStart \/ MsgEvent \/ DispatchEnd \/ CloseMsgEnd
  BY <1>0, <1>11, Unseen DEF TaskStart, MsgEvent, DispatchEnd, CloseMsgEnd,
     queueVars, callerVars
<1>12. CASE HandlerReturn
  <2>1. /\ tpc = "handle" /\ tpc' = IF Sync(pmsg) THEN "notify" ELSE "recycle"
        /\ served' = served \cup ({pmsg.from} \cap Threads)
        /\ UNCHANGED <<mMsgFd, mQuedMsgs, pmsg, pc, notified>>
    BY <1>12 DEF HandlerReturn, queueVars
  <2>2. \A u \in Threads : u = pmsg.from => u \notin notified
    BY <2>1 DEF LiveOK, HandledOf
  <2> QED
    BY <2>1, <2>2, Unseen
<1>13. CASE Recycle
  <2>1. /\ tpc = "recycle" /\ tpc' = "pop"
        /\ UNCHANGED <<mMsgFd, mQuedMsgs, pc, notified, served>>
    BY <1>13 DEF Recycle, callerVars
  <2>2. CASE Sync(pmsg)
    BY <2>1, <2>2, Unseen
  <2>3. CASE ~Sync(pmsg)
    <3>1. ServingMsg = <<pmsg>> /\ ServingMsg' = <<>> /\ Callers' = Callers
      BY <2>1, <2>3, CallersFrame
    <3>2. Mailbox!Finish
      BY <2>1, <2>3, <3>1 DEF Mailbox!Finish, Mailbox!Release, Callers
    <3> QED
      BY <3>2 DEF Mailbox!Next
  <2> QED
    BY <2>2, <2>3
<1>14. CASE CloseMsg
  <2>1. /\ tpc = "msgclose" /\ tpc' = "drain" /\ mMsgFd' = -1
        /\ UNCHANGED <<mQuedMsgs, pmsg, pc, notified, served>>
    BY <1>14 DEF CloseMsg, callerVars
  <2>2. mMsgFd >= 0 /\ ServingMsg = <<>> /\ ServingMsg' = <<>> /\ Callers' = Callers
    BY <2>1, CallersFrame DEF TypeInv, TaskOK
  <2>3. Mailbox!Close
    BY <2>1, <2>2 DEF Mailbox!Close, Callers
  <2> QED
    BY <2>3 DEF Mailbox!Next
<1>15. ASSUME NEW id \in ClientIds, SelfPost(id)
       PROVE  Mailbox!Next \/ UNCHANGED Mailbox!vars
  BY <1>15, MailboxPost DEF SelfPost, taskVars, callerVars, ClientIds, MsgIds
<1>16. ASSUME NEW code \in ResultCodes, SetSendMsgResult(code)
       PROVE  UNCHANGED Mailbox!vars
  BY <1>16, Unseen DEF SetSendMsgResult, queueVars, taskVars
<1> QED
  BY <1>1, <1>2, <1>3, <1>4, <1>5, <1>6, <1>7, <1>8, <1>9, <1>10, <1>11, <1>12,
     <1>13, <1>14, <1>15, <1>16, MailboxReturn, MailboxTake, MailboxFinish, MailboxDrop
  DEF Next, OwnerCall, OwnerStep, ClientCall, SendStep, TaskStep, HandlerCall, Ended

\* In a debug build, if waits do not end spuriously, the queue, the eventfd and
\* the condition variables together implement the mailbox of TaskMailbox: with
\* any number of senders and any queue limit, messages are served one at a time
\* in the order they were accepted, and sendEdMsg returns only after its own
\* message was processed, or dropped by closeMsg.
THEOREM TaskIsMailbox ==
    ASSUME ~NDEBUG, ~SpuriousWakeups
    PROVE  Spec => IsMailbox
<1> DEFINE Inv == TypeInv /\ LiveOK /\ FramesOK /\ OutcomeOK
<1>1. Init => Mailbox!Init
  BY DEF Init, Mailbox!Init, ServingMsg, CallerOf, InSend
<1>2. Init => Inv
  <2>1. Init => FramesOK /\ OutcomeOK
    BY DEF Init, FramesOK, FramesLive, OutcomeOK, Outcome, QueuedOf, HandledOf
  <2> QED
    BY <2>1, TypeInit, LiveInit
<1>3. Inv /\ [Next]_vars => Inv'
  BY TypeStep, LiveStep, FramesStep, OutcomeStep
<1>4. Inv /\ [Next]_vars => [Mailbox!Next]_Mailbox!vars
  BY MailboxStep
<1> HIDE DEF Inv
<1> QED
  BY <1>1, <1>2, <1>3, <1>4, PTL DEF Spec, IsMailbox, Mailbox!Spec

=============================================================================
