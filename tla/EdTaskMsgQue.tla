---------------------------- MODULE EdTaskMsgQue ----------------------------
(***************************************************************************)
(* Message queues with a listener of their own (src/ednio/EdTaskMsgQue.cpp, *)
(* createTaskMsgQue and destroyTaskMsgQue of EdTask.cpp).  A queue belongs *)
(* to the task that opens it; its messages go through the queue of that    *)
(* task, marked with the queue's handle, and dispatchMsgs looks the        *)
(* listener up in gViewMap, which all tasks share, and calls it after      *)
(* releasing the lock.  Posting reads mHandle in one step and queues the   *)
(* message in another.                                                     *)
(*                                                                         *)
(* A queue is opened and closed by its own task only, and not in its own   *)
(* listener, which close would destroy.  A listener may send to tasks that *)
(* CanSend allows: no task may come to wait for itself (README.md:183).    *)
(* The task's message queue is the one of TaskMailbox; tasks do not end.   *)
(***************************************************************************)
EXTENDS Naturals, Sequences, FiniteSets

CONSTANTS
    ViewTasks, ViewClients,    \* tasks, and threads that only post
    NoThread,
    Ques,                      \* EdTaskMsgQue objects
    QueTask,                   \* the task each of them belongs to
    CanSend,                   \* pairs of tasks: the first may wait for the second
    MaxViews,                  \* bound on the queues opened
    MaxPending,                \* messages a task's queue takes
    MaxMsgs                    \* bound on the messages

ASSUME ViewTasksAssumption == IsFiniteSet(ViewTasks) /\ NoThread \notin ViewTasks \cup ViewClients
ASSUME QueTaskAssumption == QueTask \in [Ques -> ViewTasks]
ASSUME CanSendAssumption ==
    /\ CanSend \subseteq ViewTasks \X ViewTasks
    /\ \A S \in SUBSET ViewTasks : S # {} =>
           \E t \in S : \A u \in S : <<t, u>> \notin CanSend
ASSUME ViewBoundsAssumption == {MaxViews, MaxPending, MaxMsgs} \subseteq Nat

VARIABLES
    gViewMap,      \* handle -> [task, opening], the listeners
    seedHandle,    \* seed_handle of createTaskMsgQue
    openings,      \* openings so far; an opening is named by its number
    mHandle,       \* per queue, 0 when closed
    posting,       \* per thread: the message it is about to queue, if any
    pending,       \* per task: its message queue
    disp,          \* per task: dispatchMsgs, see DispIdle
    msgs           \* messages posted

viewVars == <<gViewMap, seedHandle, openings, mHandle, posting, pending, disp, msgs>>

Threads == ViewTasks \cup ViewClients
NoMsg == [handle |-> 0, opening |-> 0, to |-> NoThread, sender |-> NoThread]

\* dispatchMsgs: idle, with a listener found, in a listener or in OnEventProc, or
\* there and waiting for a message it sent.
DispIdle == [pc |-> "idle", msg |-> NoMsg]

ViewInit ==
    /\ gViewMap = <<>> /\ seedHandle = 0 /\ openings = 0
    /\ mHandle = [q \in Ques |-> 0]
    /\ posting = [th \in Threads |-> NoMsg]
    /\ pending = [t \in ViewTasks |-> <<>>]
    /\ disp = [t \in ViewTasks |-> DispIdle]
    /\ msgs = 0

\* The code of the task's program runs, outside of the listener of queue q.
OwnCode(t, q) ==
    /\ posting[t] = NoMsg
    /\ \/ disp[t].pc = "idle"
       \/ disp[t].pc \in {"listener", "proc"} /\ (mHandle[q] = 0 \/ disp[t].msg.handle # mHandle[q])

\* Mutation of NewHandle: a handle that is free again is used again.
NewHandle_Reused == CHOOSE h \in 1..MaxViews : h \notin DOMAIN gViewMap

\* The seed goes on also when handles are free again; it is a u32 and skips 0.
NewHandle == seedHandle + 1

\* open: createTaskMsgQue.
QueOpen(q) ==
    /\ OwnCode(QueTask[q], q) /\ mHandle[q] = 0 /\ openings < MaxViews
    /\ gViewMap' = [h \in DOMAIN gViewMap \cup {NewHandle} |->
                        IF h = NewHandle THEN [task |-> QueTask[q], opening |-> openings + 1]
                        ELSE gViewMap[h]]
    /\ seedHandle' = NewHandle /\ openings' = openings + 1
    /\ mHandle' = [mHandle EXCEPT ![q] = NewHandle]
    /\ UNCHANGED <<posting, pending, disp, msgs>>

\* close: destroyTaskMsgQue, then mHandle is reset.
QueClose(q) ==
    /\ OwnCode(QueTask[q], q) /\ mHandle[q] # 0
    /\ gViewMap' = [h \in DOMAIN gViewMap \ {mHandle[q]} |-> gViewMap[h]]
    /\ mHandle' = [mHandle EXCEPT ![q] = 0]
    /\ UNCHANGED <<seedHandle, openings, posting, pending, disp, msgs>>

\* postMsg, postObj, sendMsg, sendObj up to the lock of the task's queue.  A task
\* does so in a listener.  Handle 0, after a close, fails an assertion; a build
\* without assertions posts it to the task itself.
PostReads(th, q, sync) ==
    /\ posting[th] = NoMsg /\ msgs < MaxMsgs
    /\ th \in ViewTasks => disp[th].pc \in {"listener", "proc"}
    /\ sync => th \in ViewTasks /\ <<th, QueTask[q]>> \in CanSend
    /\ posting' = [posting EXCEPT ![th] =
           [handle |-> mHandle[q],
            opening |-> IF mHandle[q] = 0 THEN 0 ELSE gViewMap[mHandle[q]].opening,
            to |-> QueTask[q], sender |-> IF sync THEN th ELSE NoThread]]
    /\ msgs' = msgs + 1
    /\ UNCHANGED <<gViewMap, seedHandle, openings, mHandle, pending, disp>>

\* The message is queued, or refused by a full queue; a sender waits.
PostQueues(th) ==
    LET msg == posting[th] IN
    /\ msg # NoMsg
    /\ IF Len(pending[msg.to]) < MaxPending
       THEN /\ pending' = [pending EXCEPT ![msg.to] = Append(@, msg)]
            /\ disp' = IF msg.sender = th THEN [disp EXCEPT ![th].pc = "wait"] ELSE disp
       ELSE UNCHANGED <<pending, disp>>
    /\ posting' = [posting EXCEPT ![th] = NoMsg]
    /\ UNCHANGED <<gViewMap, seedHandle, openings, mHandle, msgs>>

\* Mutation of Answered: a sender whose queue is gone is not answered.
Answered_IfFound(d, msg, found) ==
    IF msg.sender # NoThread /\ found THEN [d EXCEPT ![msg.sender].pc = "listener"] ELSE d

\* The sender, if any, goes on in its listener, whether or not there was a
\* listener for its message.
Answered(d, msg, found) ==
    IF msg.sender # NoThread THEN [d EXCEPT ![msg.sender].pc = "listener"] ELSE d

\* dispatchMsgs takes a message and looks its listener up under _gviewMutex.
LookUp(t) ==
    /\ disp[t].pc = "idle" /\ pending[t] # <<>>
    /\ pending' = [pending EXCEPT ![t] = Tail(@)]
    /\ LET msg == Head(pending[t]) IN
           disp' = CASE msg.handle = 0 -> [disp EXCEPT ![t] = [pc |-> "proc", msg |-> msg]]
                     [] msg.handle \in DOMAIN gViewMap ->
                            [disp EXCEPT ![t] = [pc |-> "found", msg |-> msg]]
                     [] OTHER -> Answered(disp, msg, FALSE)
    /\ UNCHANGED <<gViewMap, seedHandle, openings, mHandle, posting, msgs>>

\* The listener is called, without the lock.
CallListener(t) ==
    /\ disp[t].pc = "found"
    /\ disp' = [disp EXCEPT ![t].pc = "listener"]
    /\ UNCHANGED <<gViewMap, seedHandle, openings, mHandle, posting, pending, msgs>>

\* The listener, or OnEventProc, returns.
HandlerReturns(t) ==
    /\ disp[t].pc \in {"listener", "proc"} /\ posting[t] = NoMsg
    /\ disp' = Answered([disp EXCEPT ![t] = DispIdle], disp[t].msg, TRUE)
    /\ UNCHANGED <<gViewMap, seedHandle, openings, mHandle, posting, pending, msgs>>

\* The bounds of the model.
ViewDone ==
    /\ openings = MaxViews /\ gViewMap = <<>>
    /\ \A th \in Threads : posting[th] = NoMsg
    /\ \A t \in ViewTasks : pending[t] = <<>> /\ disp[t] = DispIdle
    /\ UNCHANGED viewVars

ViewNext ==
    \/ ViewDone
    \/ \E q \in Ques : \/ QueOpen(q) \/ QueClose(q)
                       \/ \E th \in Threads, sync \in BOOLEAN : PostReads(th, q, sync)
    \/ \E th \in Threads : PostQueues(th)
    \/ \E t \in ViewTasks : LookUp(t) \/ CallListener(t) \/ HandlerReturns(t)

\* Tasks run on, and their handlers return.
ViewFairness ==
    \A t \in ViewTasks : WF_viewVars(LookUp(t) \/ CallListener(t) \/ HandlerReturns(t) \/ PostQueues(t))

ViewSpec == ViewInit /\ [][ViewNext]_viewVars /\ ViewFairness

-----------------------------------------------------------------------------
(***************************************************************************)
(* Properties.                                                             *)
(***************************************************************************)

\* Between the lookup and the end of the call the listener exists, belongs to
\* the task that runs it, and is the one of the opening that the message was
\* posted to, whatever other tasks open, close and post meanwhile.
ListenerIsMeant ==
    \A t \in ViewTasks :
        disp[t].pc \in {"found", "listener", "wait"} /\ disp[t].msg.handle # 0 =>
            /\ disp[t].msg.handle \in DOMAIN gViewMap
            /\ gViewMap[disp[t].msg.handle] = [task |-> t, opening |-> disp[t].msg.opening]

\* A listener that sends to another task's queue is answered, also when that
\* queue is closed before its message is handled.
QueSendReturns == \A t \in ViewTasks : disp[t].pc = "wait" ~> disp[t].pc # "wait"
=============================================================================
