------------------------------ MODULE EdTaskMsg ------------------------------
(***************************************************************************)
(* The message queue of an EdTask (src/ednio/EdTask.cpp): the eventfd that *)
(* wakes the task, the bounded pool of message objects, postMsg and        *)
(* sendMsg called from any thread, the dispatch loop of the task thread,   *)
(* and the start (run, runMain) and the end (postExit, terminate, wait,    *)
(* closeMsg) of the task.                                                  *)
(*                                                                         *)
(* A step is what a thread does between two points where another thread    *)
(* can see or change what it sees.  postEdMsg holds mMsgMutex from its     *)
(* first to its last line and is one step; sendEdMsg drops mMsgMutex       *)
(* before it writes to the eventfd and then waits on a condition variable  *)
(* of its own stack frame, so it is three.  closeMsg holds mMsgMutex all   *)
(* along, but takes the mutex of every sender it releases, so it is one    *)
(* step for each message it drains.                                        *)
(***************************************************************************)
EXTENDS Integers, Sequences, FiniteSets

CONSTANTS
    Clients,           \* threads that post and send to the task
    Owner,             \* the thread that runs, terminates and waits for it
    NoThread,          \* "nobody": the sender of a posted message
    DeadFrame,         \* a sendEdMsg frame that returned while its message lives
    EventFds,          \* what eventfd() can return
    MaxMsqQueSize,     \* the msgqnum argument of run
    ResultCodes,       \* what a handler passes to setSendMsgResult
    NDEBUG,            \* TRUE: assert() is compiled out (CMake's Release build)
    SpuriousWakeups    \* TRUE: condition_variable::wait may return unnotified

Threads == Clients \cup {Owner}

\* eventfd() returns -1 or a descriptor.  Descriptor 0 (standard input closed
\* before) makes run give up while senders still take it for an open queue.
ASSUME ThreadsAssumption ==
    /\ IsFiniteSet(Clients)
    /\ NoThread \notin Threads
    /\ DeadFrame \notin Threads \cup {NoThread}
ASSUME EventFdsAssumption == EventFds \subseteq Int /\ 0 \notin EventFds
ASSUME MaxMsqQueSizeAssumption == MaxMsqQueSize \in Nat
ASSUME ResultCodesAssumption == ResultCodes \subseteq Nat
ASSUME BuildAssumption == NDEBUG \in BOOLEAN /\ SpuriousWakeups \in BOOLEAN

VARIABLES
    mMsgFd,       \* the eventfd, negative when closed
    evtCount,     \* the counter of the eventfd
    mQuedMsgs,    \* the queue
    mEmptyMsgs,   \* how many message objects are pooled for reuse
    exit_flag,
    tpc,          \* where the task's thread is
    cnt,          \* messages dispatchMsgs still has to pop
    pmsg,         \* the message being dispatched
    pc,           \* where each calling thread is
    result,       \* what the last send of a thread returned, or will return
    notified,     \* waiting senders whose condition variable was signalled
    served,       \* senders whose last message the task did process
    fault         \* how the process ended, if it did

vars == <<mMsgFd, evtCount, mQuedMsgs, mEmptyMsgs, exit_flag, tpc, cnt, pmsg,
          pc, result, notified, served, fault>>

queueVars  == <<mMsgFd, evtCount, mQuedMsgs, mEmptyMsgs>>
taskVars   == <<exit_flag, tpc, cnt, pmsg>>
callerVars == <<pc, result, notified, served>>

-----------------------------------------------------------------------------
(***************************************************************************)
(* Messages.  from is the sender that waits for the message, NoThread for  *)
(* a posted one (sync = 0), DeadFrame once pcv, pmtx and psend_result      *)
(* point into a frame that has returned.                                   *)
(***************************************************************************)
MsgIds  == {"EDM_INIT", "EDM_EXIT", "USER"}
EdMsg   == [msgid : MsgIds, from : Threads \cup {NoThread, DeadFrame}]
NoMsg   == [msgid |-> "none", from |-> NoThread]
Msg(id, t) == [msgid |-> id, from |-> t]
Sync(m) == m.from # NoThread

ClientIds == {"USER", "EDM_EXIT"}

CallerPcs == {"idle", "write", "waiting", "runsend", "mainpost", "inmain",
              "terminate", "wait"}
TaskPcs   == {"off", "start", "epoll", "pop", "handle", "notify", "recycle",
              "msgclose", "drain", "done"}
Faults    == {"none", "queue_full", "send_write", "dangling"}

\* The process has not been ended by an assertion or by undefined behaviour.
Alive == fault = "none"

InSend(t) == pc[t] \in {"write", "waiting"}

\* The message object in the hands of dispatchMsgs, in neither list.
InFlight == IF tpc \in {"handle", "notify", "recycle"} THEN 1 ELSE 0

TypeOK ==
    /\ mMsgFd \in Int
    /\ evtCount \in Nat
    /\ mQuedMsgs \in Seq(EdMsg)
    /\ mEmptyMsgs \in Nat
    /\ exit_flag \in {0, 1}
    /\ tpc \in TaskPcs
    /\ cnt \in Nat
    /\ pmsg \in EdMsg \cup {NoMsg}
    /\ pc \in [Threads -> CallerPcs]
    /\ result \in [Threads -> ResultCodes \cup {-1000, -1, 0}]
    /\ notified \subseteq Threads
    /\ served \subseteq Threads
    /\ fault \in Faults

Init ==
    /\ mMsgFd = -1 /\ evtCount = 0 /\ mQuedMsgs = <<>> /\ mEmptyMsgs = 0
    /\ exit_flag = 0 /\ tpc = "off" /\ cnt = 0 /\ pmsg = NoMsg
    /\ pc = [t \in Threads |-> "idle"]
    /\ result = [t \in Threads |-> -1]
    /\ notified = {} /\ served = {} /\ fault = "none"

-----------------------------------------------------------------------------
(***************************************************************************)
(* Queueing.                                                               *)
(***************************************************************************)

\* closeMsg is the only one that keeps mMsgMutex from one step to the next.
MsgMutexFree == tpc # "drain"

\* Mutation of HasMsgObj: off by one in the comparison with the limit.
HasMsgObj_OneMore ==
    mEmptyMsgs > 0 \/ Len(mQuedMsgs) + mEmptyMsgs <= MaxMsqQueSize

\* allocMsgObj: reuse a pooled object, or allocate one while the lists hold
\* fewer than the limit.
HasMsgObj == mEmptyMsgs > 0 \/ Len(mQuedMsgs) + mEmptyMsgs < MaxMsqQueSize

\* Mutations of Enqueue: a new object counted as a pooled one; the message put
\* at the wrong end of the queue.
Enqueue_AlwaysPooled(m) ==
    /\ mQuedMsgs' = Append(mQuedMsgs, m)
    /\ mEmptyMsgs' = mEmptyMsgs - 1
Enqueue_Front(m) ==
    /\ mQuedMsgs' = <<m>> \o mQuedMsgs
    /\ mEmptyMsgs' = IF mEmptyMsgs > 0 THEN mEmptyMsgs - 1 ELSE 0

Enqueue(m) ==
    /\ mQuedMsgs' = Append(mQuedMsgs, m)
    /\ mEmptyMsgs' = IF mEmptyMsgs > 0 THEN mEmptyMsgs - 1 ELSE 0

\* Mutation of WriteEventFd: no write while the task is awake anyway.
WriteEventFd_IfAsleep ==
    evtCount' = IF tpc = "epoll" THEN evtCount + 1 ELSE evtCount

\* write(mMsgFd, 1) to an eventfd adds to its counter.
WriteEventFd == evtCount' = evtCount + 1

\* No message object left: assert(mMsgFd == 0) ends a debug build, a release
\* build returns -1 to the caller.
QueueFull ==
    /\ fault' = IF NDEBUG THEN "none" ELSE "queue_full"
    /\ UNCHANGED queueVars

\* postEdMsg, all of it under mMsgMutex.
PostEdMsg(id) ==
    IF mMsgFd < 0 THEN UNCHANGED <<queueVars, fault>>
    ELSE IF HasMsgObj
         THEN /\ Enqueue(Msg(id, NoThread))
              /\ WriteEventFd
              /\ UNCHANGED <<mMsgFd, fault>>
         ELSE QueueFull

\* postMsg and postObj (and postExit, with EDM_EXIT) from a client thread.
Post(t, id) ==
    /\ Alive /\ pc[t] = "idle" /\ MsgMutexFree
    /\ PostEdMsg(id)
    /\ UNCHANGED <<taskVars, callerVars>>

\* The same calls made by code that runs in the task's own thread: the message
\* handler, the EDM_CLOSE handler, or the handler of some other event.
SelfPost(id) ==
    /\ Alive /\ tpc \in {"epoll", "handle", "msgclose"}
    /\ PostEdMsg(id)
    /\ UNCHANGED <<taskVars, callerVars>>

-----------------------------------------------------------------------------
(***************************************************************************)
(* Sending.  The sender's frame holds the condition variable, its mutex    *)
(* and the result; the mutex is locked from before the message is queued   *)
(* until the sender waits.                                                 *)
(***************************************************************************)

\* A call of sendEdMsg by t, up to the unlock of mMsgMutex.
SendEdMsg(t, id) ==
    /\ Alive /\ MsgMutexFree
    /\ IF mMsgFd < 0
       THEN /\ pc' = [pc EXCEPT ![t] = "idle"]
            /\ result' = [result EXCEPT ![t] = -1]
            /\ served' = served \ {t}
            /\ UNCHANGED <<queueVars, notified, fault>>
       ELSE IF HasMsgObj
       THEN /\ Enqueue(Msg(id, t))
            /\ pc' = [pc EXCEPT ![t] = "write"]
            /\ result' = [result EXCEPT ![t] = 0]
            /\ served' = served \ {t}
            /\ UNCHANGED <<mMsgFd, evtCount, notified, fault>>
       ELSE /\ QueueFull
            /\ pc' = [pc EXCEPT ![t] = "idle"]
            /\ result' = [result EXCEPT ![t] = -1]
            /\ served' = served \ {t}
            /\ UNCHANGED notified
    /\ UNCHANGED taskVars

Send(t, id) == pc[t] = "idle" /\ SendEdMsg(t, id)

\* t leaves sendEdMsg: a message of its that is still around points nowhere.
Orphan(t, m) == IF m.from = t THEN Msg(m.msgid, DeadFrame) ELSE m
FrameDies(t) ==
    /\ mQuedMsgs' = [i \in DOMAIN mQuedMsgs |-> Orphan(t, mQuedMsgs[i])]
    /\ pmsg' = Orphan(t, pmsg)

\* The failure branch: unlock, assert(0), and -1 to the caller.
WriteFails(t) ==
    IF NDEBUG
    THEN /\ FrameDies(t)
         /\ pc' = [pc EXCEPT ![t] = "idle"]
         /\ result' = [result EXCEPT ![t] = -1]
         /\ UNCHANGED fault
    ELSE /\ fault' = "send_write"
         /\ UNCHANGED <<mQuedMsgs, pmsg, pc, result>>

\* The write to mMsgFd, after the unlock.  It succeeds if closeMsg has not
\* closed the eventfd meanwhile, and the thread is in cv.wait before its mutex
\* is free again; it fails otherwise.
SendWrite(t) ==
    /\ Alive /\ pc[t] = "write"
    /\ IF mMsgFd >= 0
       THEN /\ WriteEventFd
            /\ pc' = [pc EXCEPT ![t] = "waiting"]
            /\ UNCHANGED <<mQuedMsgs, pmsg, result, fault>>
       ELSE WriteFails(t) /\ UNCHANGED evtCount
    /\ UNCHANGED <<mMsgFd, mEmptyMsgs, exit_flag, tpc, cnt, notified, served>>

\* cv.wait returns in t and sendEdMsg returns the result.
Wake(t) ==
    /\ Alive /\ pc[t] = "waiting"
    /\ pc' = [pc EXCEPT ![t] = "idle"]
    /\ notified' = notified \ {t}
    /\ FrameDies(t)
    /\ UNCHANGED <<mMsgFd, evtCount, mEmptyMsgs, exit_flag, tpc, cnt,
                   result, served, fault>>

SendWake(t) == t \in notified /\ Wake(t)

\* The wait has no predicate, so any return of cv.wait ends the send.
SpuriousWakeup(t) == SpuriousWakeups /\ t \notin notified /\ Wake(t)

-----------------------------------------------------------------------------
(***************************************************************************)
(* Starting, terminating and waiting for the task, by its owner.           *)
(***************************************************************************)

\* mThread.joinable(): run has started a thread that nobody joined yet.
Joinable == tpc # "off" /\ pc[Owner] # "inmain"

\* initMsg: a new eventfd.
InitMsg(fd) ==
    /\ mMsgFd' = fd
    /\ evtCount' = 0

\* run, up to the start of the thread; "runsend" is the sendMsg(EDM_INIT) left.
Run(fd) ==
    /\ Alive /\ pc[Owner] = "idle" /\ tpc = "off"
    /\ InitMsg(fd)
    /\ IF fd <= 0
       THEN UNCHANGED <<tpc, pc>>
       ELSE /\ tpc' = "start"
            /\ pc' = [pc EXCEPT ![Owner] = "runsend"]
    /\ UNCHANGED <<mQuedMsgs, mEmptyMsgs, exit_flag, cnt, pmsg, result,
                   notified, served, fault>>

RunSend == pc[Owner] = "runsend" /\ SendEdMsg(Owner, "EDM_INIT")

\* runMain, up to its postMsg(EDM_INIT).
RunMain(fd) ==
    /\ Alive /\ pc[Owner] = "idle" /\ tpc = "off"
    /\ InitMsg(fd)
    /\ pc' = IF fd <= 0 THEN pc ELSE [pc EXCEPT ![Owner] = "mainpost"]
    /\ UNCHANGED <<mQuedMsgs, mEmptyMsgs, taskVars, result, notified, served,
                   fault>>

\* The rest of runMain: its thread turns into the task's.
MainPost ==
    /\ Alive /\ pc[Owner] = "mainpost"
    /\ PostEdMsg("EDM_INIT")
    /\ pc' = [pc EXCEPT ![Owner] = "inmain"]
    /\ tpc' = "start"
    /\ UNCHANGED <<exit_flag, cnt, pmsg, result, notified, served>>

MainReturn ==
    /\ Alive /\ pc[Owner] = "inmain" /\ tpc = "done"
    /\ pc' = [pc EXCEPT ![Owner] = "idle"]
    /\ tpc' = "off"
    /\ UNCHANGED <<queueVars, exit_flag, cnt, pmsg, result, notified, served,
                   fault>>

\* terminate posts EDM_EXIT, does not look at the result, and joins.
Terminate ==
    /\ Alive /\ pc[Owner] = "idle" /\ Joinable /\ MsgMutexFree
    /\ PostEdMsg("EDM_EXIT")
    /\ pc' = [pc EXCEPT ![Owner] = "terminate"]
    /\ UNCHANGED <<taskVars, result, notified, served>>

\* wait only joins.
WaitTask ==
    /\ Alive /\ pc[Owner] = "idle" /\ Joinable
    /\ pc' = [pc EXCEPT ![Owner] = "wait"]
    /\ UNCHANGED <<queueVars, taskVars, result, notified, served, fault>>

Join ==
    /\ Alive /\ pc[Owner] \in {"terminate", "wait"} /\ tpc = "done"
    /\ pc' = [pc EXCEPT ![Owner] = "idle"]
    /\ tpc' = "off"
    /\ UNCHANGED <<queueVars, exit_flag, cnt, pmsg, result, notified, served,
                   fault>>

-----------------------------------------------------------------------------
(***************************************************************************)
(* The task's thread.                                                      *)
(***************************************************************************)

\* taskProc up to the event loop: esOpen and the registration of mMsgFd.
TaskStart ==
    /\ Alive /\ tpc = "start"
    /\ tpc' = "epoll" /\ exit_flag' = 0
    /\ UNCHANGED <<queueVars, cnt, pmsg, callerVars, fault>>

\* epoll_wait reports mMsgFd; msgevent_cb reads, and so clears, its counter.
MsgEvent ==
    /\ Alive /\ tpc = "epoll" /\ evtCount > 0
    /\ tpc' = "pop" /\ cnt' = evtCount /\ evtCount' = 0
    /\ UNCHANGED <<mMsgFd, mQuedMsgs, mEmptyMsgs, exit_flag, pmsg, callerVars,
                   fault>>

\* Mutation of Signal: the sender's mutex is not taken before notify_one, so
\* the signal is lost on a sender that does not wait yet.
Signal_Unlocked(t) ==
    notified' = IF pc[t] = "waiting" THEN notified \cup {t} ELSE notified

\* Mutation of DispatchPop: the sender is released before its message is handled.
DispatchPop_NotifiesFirst ==
    /\ Alive /\ tpc = "pop" /\ cnt > 0 /\ mQuedMsgs # <<>>
    /\ LET m == Head(mQuedMsgs) IN
       /\ mQuedMsgs' = Tail(mQuedMsgs) /\ pmsg' = m /\ tpc' = "handle"
       /\ exit_flag' = IF m.msgid = "EDM_EXIT" THEN 1 ELSE exit_flag
       /\ IF Sync(m) THEN Signal_Unlocked(m.from) ELSE UNCHANGED notified
    /\ UNCHANGED <<mMsgFd, evtCount, mEmptyMsgs, cnt, pc, result, served, fault>>

\* One round of dispatchMsgs up to the handler.  EDM_EXIT has no handler: it
\* sets exit_flag, and the loop goes on with the rest of the batch.
DispatchPop ==
    /\ Alive /\ tpc = "pop" /\ cnt > 0
    /\ IF mQuedMsgs = <<>>
       THEN /\ cnt' = 0
            /\ UNCHANGED <<mQuedMsgs, tpc, pmsg, exit_flag, served>>
       ELSE LET m == Head(mQuedMsgs) IN
            /\ mQuedMsgs' = Tail(mQuedMsgs)
            /\ pmsg' = m
            /\ IF m.msgid = "EDM_EXIT"
               THEN /\ exit_flag' = 1
                    /\ tpc' = IF Sync(m) THEN "notify" ELSE "recycle"
                    /\ served' = served \cup ({m.from} \cap Threads)
               ELSE /\ tpc' = "handle"
                    /\ UNCHANGED <<exit_flag, served>>
            /\ UNCHANGED cnt
    /\ UNCHANGED <<mMsgFd, evtCount, mEmptyMsgs, pc, result, notified, fault>>

\* The handler answers a synchronous message: *psend_result = code.
SetSendMsgResult(code) ==
    /\ Alive /\ tpc = "handle" /\ Sync(pmsg)
    /\ IF pmsg.from = DeadFrame
       THEN fault' = "dangling" /\ UNCHANGED result
       ELSE result' = [result EXCEPT ![pmsg.from] = code] /\ UNCHANGED fault
    /\ UNCHANGED <<queueVars, taskVars, pc, notified, served>>

\* OnEventProc, or the listener of a task message queue, returns.
HandlerReturn ==
    /\ Alive /\ tpc = "handle"
    /\ tpc' = IF Sync(pmsg) THEN "notify" ELSE "recycle"
    /\ served' = served \cup ({pmsg.from} \cap Threads)
    /\ UNCHANGED <<queueVars, exit_flag, cnt, pmsg, pc, result, notified, fault>>

\* lock(*pmtx); notify_one; unlock: t holds that mutex until it waits.
Signal(t) ==
    /\ pc[t] # "write"
    /\ notified' = notified \cup {t}

\* Mutation of SetClosedResult: the result stays what sendEdMsg set.
SetClosedResult_Missing(t) == UNCHANGED result

\* What a sender learns when its message was never processed.
SetClosedResult(t) == result' = [result EXCEPT ![t] = -1000]

NotifySender ==
    /\ Alive /\ tpc = "notify"
    /\ IF pmsg.from = DeadFrame
       THEN fault' = "dangling" /\ UNCHANGED <<tpc, notified>>
       ELSE Signal(pmsg.from) /\ tpc' = "recycle" /\ UNCHANGED fault
    /\ UNCHANGED <<queueVars, exit_flag, cnt, pmsg, pc, result, served>>

\* The object goes back to the pool, and the loop counts one more.
Recycle ==
    /\ Alive /\ tpc = "recycle"
    /\ mEmptyMsgs' = mEmptyMsgs + 1
    /\ pmsg' = NoMsg /\ cnt' = cnt - 1 /\ tpc' = "pop"
    /\ UNCHANGED <<mMsgFd, evtCount, mQuedMsgs, exit_flag, callerVars, fault>>

\* Mutation of LoopEnds: the event loop goes on while messages are queued.
LoopEnds_WhenEmpty == exit_flag = 1 /\ mQuedMsgs = <<>>

\* esMain: for (; psys->exit_flag == 0;)
LoopEnds == exit_flag = 1

\* dispatchMsgs returns; esMain waits again or, with exit_flag, ends and
\* callMsgClose runs the EDM_CLOSE handler.
DispatchEnd ==
    /\ Alive /\ tpc = "pop" /\ cnt = 0
    /\ tpc' = IF LoopEnds THEN "msgclose" ELSE "epoll"
    /\ UNCHANGED <<queueVars, exit_flag, cnt, pmsg, callerVars, fault>>

\* closeMsg takes mMsgMutex and closes the eventfd ...
CloseMsg ==
    /\ Alive /\ tpc = "msgclose"
    /\ tpc' = "drain" /\ mMsgFd' = -1 /\ evtCount' = 0
    /\ UNCHANGED <<mQuedMsgs, mEmptyMsgs, exit_flag, cnt, pmsg, callerVars,
                   fault>>

\* ... releases the sender of each message left, with result -1000 ...
CloseMsgDrain ==
    /\ Alive /\ tpc = "drain" /\ mQuedMsgs # <<>>
    /\ LET m == Head(mQuedMsgs) IN
       IF m.from = DeadFrame
       THEN /\ fault' = "dangling"
            /\ UNCHANGED <<mQuedMsgs, mEmptyMsgs, notified, result>>
       ELSE /\ IF Sync(m)
               THEN Signal(m.from) /\ SetClosedResult(m.from)
               ELSE UNCHANGED <<notified, result>>
            /\ mQuedMsgs' = Tail(mQuedMsgs)
            /\ mEmptyMsgs' = mEmptyMsgs + 1
            /\ UNCHANGED fault
    /\ UNCHANGED <<mMsgFd, evtCount, taskVars, pc, served>>

\* ... and frees the pool.  The thread then ends (timers and epoll descriptor
\* are closed; they are not part of this module).
CloseMsgEnd ==
    /\ Alive /\ tpc = "drain" /\ mQuedMsgs = <<>>
    /\ mEmptyMsgs' = 0 /\ tpc' = "done"
    /\ UNCHANGED <<mMsgFd, evtCount, mQuedMsgs, exit_flag, cnt, pmsg,
                   callerVars, fault>>

-----------------------------------------------------------------------------
OwnerCall == (\E fd \in EventFds : Run(fd) \/ RunMain(fd)) \/ Terminate \/ WaitTask
OwnerStep == RunSend \/ MainPost \/ MainReturn \/ Join

SendStep(t) == SendWrite(t) \/ SendWake(t)

ClientCall(t) == \E id \in ClientIds : Post(t, id) \/ Send(t, id)

TaskStep == \/ TaskStart \/ MsgEvent \/ DispatchPop \/ HandlerReturn
            \/ NotifySender \/ Recycle \/ DispatchEnd
            \/ CloseMsg \/ CloseMsgDrain \/ CloseMsgEnd

HandlerCall == \/ \E id \in ClientIds : SelfPost(id)
               \/ \E code \in ResultCodes : SetSendMsgResult(code)

\* The process is gone; this keeps its end apart from a deadlock.
Ended == ~Alive /\ UNCHANGED vars

Next == \/ OwnerCall \/ OwnerStep
        \/ \E t \in Clients : ClientCall(t)
        \/ \E t \in Threads : SendStep(t) \/ SpuriousWakeup(t)
        \/ TaskStep \/ HandlerCall
        \/ Ended

Spec == Init /\ [][Next]_vars

(***************************************************************************)
(* The scheduler runs every thread that can run, and handlers return.      *)
(* Nobody has to make a new call.                                          *)
(***************************************************************************)
Fairness == /\ WF_vars(TaskStep)
            /\ WF_vars(OwnerStep)
            /\ \A t \in Threads : WF_vars(SendStep(t))

FairSpec == Spec /\ Fairness

-----------------------------------------------------------------------------
(***************************************************************************)
(* Properties.                                                             *)
(***************************************************************************)

Writing == {t \in Threads : pc[t] = "write"}

\* The eventfd counts exactly the queued messages whose sender has written it:
\* every queued message is announced by the counter, is part of the batch
\* being dispatched, or belongs to a sender about to write.  So dispatchMsgs
\* never finds the queue empty ("unexpected msg que error") and no message is
\* left in a queue that nothing will wake the task for.
CountConservation ==
    mMsgFd >= 0 =>
        Len(mQuedMsgs) + InFlight = evtCount + cnt + Cardinality(Writing)

\* A message that t still waits for is in the queue or being dispatched.
Pending(t) ==
    \/ \E i \in DOMAIN mQuedMsgs : mQuedMsgs[i].from = t
    \/ tpc \in {"handle", "notify"} /\ pmsg.from = t

\* A sender that has not been signalled will be: dispatchMsgs or closeMsg
\* still has its message.  (Signalling without the sender's mutex, or dropping
\* a message at the exit, would leave it asleep for good.)
NoLostWakeup ==
    \A t \in Threads : InSend(t) /\ t \notin notified => Pending(t)

\* sendMsg returns a non-negative value exactly when the task processed the
\* message, and -1 or -1000 exactly when it did not.
SendOutcome ==
    \A t \in Threads : ~InSend(t) => (t \in served <=> result[t] >= 0)

\* The task holds at most one message object more than msgqnum: allocMsgObj
\* does not count the object in the hands of dispatchMsgs.
PoolBound == mEmptyMsgs + Len(mQuedMsgs) + InFlight <= MaxMsqQueSize + 1

\* In every build, dispatchMsgs and setSendMsgResult never meet the condition
\* variable, mutex or result of a sendEdMsg that has returned, also when they get
\* the message before its sender has written the eventfd.  A queued message points
\* to such a frame only while closeMsg drains the queue, and only in a build
\* without assertions.
DanglesOnlyInDrain ==
    /\ ~(tpc \in {"handle", "notify"} /\ pmsg.from = DeadFrame)
    /\ (fault = "dangling" \/ \E i \in DOMAIN mQuedMsgs : mQuedMsgs[i].from = DeadFrame)
           => NDEBUG /\ tpc = "drain"

\* A send ends, whatever the task does: it is handling, idle or exiting.
SendReturns ==
    \A t \in Threads : InSend(t) ~> (~InSend(t) \/ fault # "none")

\* terminate returns: the task gets EDM_EXIT, leaves its loop and is joined.
TerminateReturns ==
    pc[Owner] = "terminate" ~> (pc[Owner] # "terminate" \/ fault # "none")

(***************************************************************************)
(* The mailbox the task implements.                                        *)
(***************************************************************************)
CallerOf(t) ==
    IF ~InSend(t) THEN "out"
    ELSE IF t \notin notified THEN "in"
    ELSE IF t \in served THEN "served" ELSE "dropped"

ServingMsg ==
    IF tpc \in {"handle", "notify"} \/ (tpc = "recycle" /\ ~Sync(pmsg))
    THEN <<pmsg>> ELSE <<>>

Mailbox == INSTANCE TaskMailbox WITH
    open    <- mMsgFd >= 0,
    inbox   <- mQuedMsgs,
    serving <- ServingMsg,
    caller  <- [t \in Threads |-> CallerOf(t)]

\* The queue, the eventfd and the condition variables together are a mailbox:
\* messages are taken in the order they were accepted, one at a time, and a
\* sender returns only after its own message was processed or dropped.
IsMailbox == Mailbox!Spec
=============================================================================
