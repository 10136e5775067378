------------------------ MODULE EdTaskMsgQue_proofs ------------------------
(***************************************************************************)
(* Proofs about EdTaskMsgQue, for any tasks, threads and queues, and any   *)
(* bounds.                                                                 *)
(***************************************************************************)
EXTENDS EdTaskMsgQue, TLAPS

Message == [handle : Nat, opening : Nat, to : ViewTasks \cup {NoThread},
            sender : ViewTasks \cup {NoThread}]
Pcs == {"idle", "found", "listener", "proc", "wait"}

ViewTypeOK ==
    /\ seedHandle \in Nat /\ openings \in Nat /\ msgs \in Nat
    /\ DOMAIN gViewMap \subseteq 1..seedHandle
    /\ \A h \in DOMAIN gViewMap : gViewMap[h] \in [task : ViewTasks, opening : Nat]
    /\ mHandle \in [Ques -> Nat]
    /\ posting \in [Threads -> Message]
    /\ pending \in [ViewTasks -> Seq(Message)]
    /\ disp \in [ViewTasks -> [pc : Pcs, msg : Message]]

(***************************************************************************)
(* A message is for the opening of a queue that it was posted to: its      *)
(* handle has been given out, and is that opening's or nobody's.  This is  *)
(* what keeps a late message from the listener of a queue opened since,    *)
(* and it holds because handles are not used again.                        *)
(***************************************************************************)
Addressed(m) ==
    m.handle # 0 =>
        /\ m.handle <= seedHandle
        /\ m.handle \in DOMAIN gViewMap =>
               gViewMap[m.handle] = [task |-> m.to, opening |-> m.opening]

QuesAddressed ==
    \A q \in Ques : mHandle[q] # 0 =>
        /\ mHandle[q] \in DOMAIN gViewMap
        /\ gViewMap[mHandle[q]].task = QueTask[q]
        /\ \A p \in Ques : mHandle[p] = mHandle[q] => p = q

PostingAddressed ==
    \A th \in Threads : /\ Addressed(posting[th])
                        /\ posting[th] # NoMsg => posting[th].to \in ViewTasks

PendingAddressed ==
    \A t \in ViewTasks : \A i \in DOMAIN pending[t] :
        Addressed(pending[t][i]) /\ pending[t][i].to = t

\* The message of a task is one for a listener it has, or none.
DispAddressed ==
    \A t \in ViewTasks :
        /\ disp[t].pc = "idle" => disp[t].msg.handle = 0
        /\ disp[t].msg.handle # 0 =>
               /\ disp[t].msg.handle \in DOMAIN gViewMap
               /\ gViewMap[disp[t].msg.handle] = [task |-> t, opening |-> disp[t].msg.opening]

ViewInv ==
    /\ ViewTypeOK
    /\ QuesAddressed
    /\ PostingAddressed
    /\ PendingAddressed
    /\ DispAddressed

-----------------------------------------------------------------------------
(* The value that stands for no message is a message with the task's own handle. *)
LEMMA NoMsgType == NoMsg \in Message /\ NoMsg.handle = 0
BY DEF NoMsg, Message

\* The invariant holds before the first queue is opened.
LEMMA ViewInitInv == ViewInit => ViewInv
<1> SUFFICES ASSUME ViewInit PROVE ViewInv
  OBVIOUS
<1>1. ViewTypeOK
  BY NoMsgType DEF ViewInit, ViewTypeOK, DispIdle, Pcs
<1>2. QuesAddressed BY DEF ViewInit, QuesAddressed
<1>3. PostingAddressed BY NoMsgType DEF ViewInit, PostingAddressed, Addressed
<1>4. PendingAddressed BY DEF ViewInit, PendingAddressed
<1>5. DispAddressed BY NoMsgType DEF ViewInit, DispAddressed, DispIdle
<1> QED BY <1>1, <1>2, <1>3, <1>4, <1>5 DEF ViewInv

\* A new queue has a handle that no message bears.
LEMMA QueOpenInv == ASSUME NEW q \in Ques PROVE ViewInv /\ QueOpen(q) => ViewInv'
<1> SUFFICES ASSUME ViewInv, QueOpen(q) PROVE ViewInv'
  OBVIOUS
<1> USE DEF ViewInv, ViewTypeOK
<1>1. /\ seedHandle' = seedHandle + 1 /\ openings' = openings + 1
      /\ mHandle' = [mHandle EXCEPT ![q] = seedHandle + 1]
      /\ DOMAIN gViewMap' = DOMAIN gViewMap \cup {seedHandle + 1}
      /\ \A h \in DOMAIN gViewMap : h # seedHandle + 1 /\ gViewMap'[h] = gViewMap[h]
      /\ gViewMap'[seedHandle + 1] = [task |-> QueTask[q], opening |-> openings + 1]
      /\ UNCHANGED <<posting, pending, disp, msgs>>
  BY DEF QueOpen, NewHandle
<1>2. ViewTypeOK'
  <2>1. DOMAIN gViewMap' \subseteq 1..seedHandle'
    BY <1>1
  <2>2. ASSUME NEW h \in DOMAIN gViewMap' PROVE gViewMap'[h] \in [task : ViewTasks, opening : Nat]
    <3>1. CASE h = seedHandle + 1
      <4>1. QueTask[q] \in ViewTasks BY QueTaskAssumption
      <4> QED BY <1>1, <3>1, <4>1
    <3>2. CASE h \in DOMAIN gViewMap BY <1>1, <3>2
    <3> QED BY <1>1, <3>1, <3>2
  <2> QED BY <1>1, <2>1, <2>2
<1>3. ASSUME NEW m \in Message, Addressed(m) PROVE Addressed(m)'
  BY <1>1, <1>3 DEF Addressed, Message
<1>4. QuesAddressed' BY <1>1 DEF QuesAddressed
<1>5. PostingAddressed' BY <1>1, <1>3 DEF PostingAddressed
<1>6. PendingAddressed'
  <2> SUFFICES ASSUME NEW t \in ViewTasks, NEW i \in DOMAIN pending[t]
               PROVE  Addressed(pending[t][i])' /\ pending[t][i].to = t
    BY <1>1 DEF PendingAddressed
  <2>1. pending[t][i] \in Message
    BY SMT
  <2> QED BY <1>1, <1>3, <2>1 DEF PendingAddressed
<1>7. DispAddressed' BY <1>1 DEF DispAddressed
<1> QED BY <1>2, <1>4, <1>5, <1>6, <1>7

\* The task that closes a queue is not in its listener, and no other task is.
LEMMA QueCloseInv == ASSUME NEW q \in Ques PROVE ViewInv /\ QueClose(q) => ViewInv'
<1> SUFFICES ASSUME ViewInv, QueClose(q) PROVE ViewInv'
  OBVIOUS
<1> USE DEF ViewInv, ViewTypeOK
<1>1. /\ mHandle[q] # 0 /\ mHandle' = [mHandle EXCEPT ![q] = 0]
      /\ DOMAIN gViewMap' = DOMAIN gViewMap \ {mHandle[q]}
      /\ \A h \in DOMAIN gViewMap' : gViewMap'[h] = gViewMap[h]
      /\ UNCHANGED <<seedHandle, openings, posting, pending, disp, msgs>>
  BY DEF QueClose
<1>2. ViewTypeOK' BY <1>1
<1>3. ASSUME NEW m, Addressed(m) PROVE Addressed(m)'
  BY <1>1, <1>3 DEF Addressed
<1>4. QuesAddressed'
  BY <1>1 DEF QuesAddressed
<1>5. PostingAddressed' BY <1>1, <1>3 DEF PostingAddressed
<1>6. PendingAddressed' BY <1>1, <1>3 DEF PendingAddressed
<1>7. DispAddressed'
  <2> SUFFICES ASSUME NEW t \in ViewTasks, disp[t].msg.handle # 0
               PROVE  disp[t].msg.handle # mHandle[q]
    BY <1>1 DEF DispAddressed
  <2>1. CASE t = QueTask[q]
    <3>1. disp[t].pc = "idle" \/ mHandle[q] = 0 \/ disp[t].msg.handle # mHandle[q]
      BY <2>1 DEF QueClose, OwnCode
    <3> QED BY <1>1, <3>1 DEF DispAddressed
  <2>2. CASE t # QueTask[q]
    <3>0. gViewMap[disp[t].msg.handle] = [task |-> t, opening |-> disp[t].msg.opening]
      BY DEF DispAddressed
    <3>1. gViewMap[disp[t].msg.handle].task = t BY <3>0
    <3>2. gViewMap[mHandle[q]].task = QueTask[q] BY <1>1 DEF QuesAddressed
    <3> QED BY <2>2, <3>1, <3>2
  <2> QED BY <2>1, <2>2
<1> QED BY <1>2, <1>4, <1>5, <1>6, <1>7

\* A message is made for the opening that the queue has when mHandle is read.
LEMMA PostReadsInv ==
    ASSUME NEW th \in Threads, NEW q \in Ques, NEW sync \in BOOLEAN
    PROVE  ViewInv /\ PostReads(th, q, sync) => ViewInv'
<1> SUFFICES ASSUME ViewInv, PostReads(th, q, sync) PROVE ViewInv'
  OBVIOUS
<1> USE DEF ViewInv, ViewTypeOK
<1> DEFINE m == [handle |-> mHandle[q],
                 opening |-> IF mHandle[q] = 0 THEN 0 ELSE gViewMap[mHandle[q]].opening,
                 to |-> QueTask[q], sender |-> IF sync THEN th ELSE NoThread]
<1>1. /\ posting' = [posting EXCEPT ![th] = m] /\ msgs' = msgs + 1
      /\ UNCHANGED <<gViewMap, seedHandle, openings, mHandle, pending, disp>>
  BY DEF PostReads
<1>2. sync => th \in ViewTasks
  BY DEF PostReads
<1>3. mHandle[q] # 0 => /\ mHandle[q] \in DOMAIN gViewMap /\ mHandle[q] <= seedHandle
                        /\ gViewMap[mHandle[q]] \in [task : ViewTasks, opening : Nat]
                        /\ gViewMap[mHandle[q]].task = QueTask[q]
  BY DEF QuesAddressed
<1>4. QueTask[q] \in ViewTasks
  BY QueTaskAssumption
<1>5. m \in Message
  BY <1>2, <1>3, <1>4 DEF Message
<1>6. Addressed(m)
  <2>1. mHandle[q] # 0 => gViewMap[mHandle[q]] = [task |-> QueTask[q], opening |-> gViewMap[mHandle[q]].opening]
    BY <1>3
  <2> QED BY <1>3, <2>1 DEF Addressed
<1>7. m.to \in ViewTasks BY <1>4
<1> HIDE DEF m
<1>8. ViewTypeOK' BY <1>1, <1>5
<1>9. PostingAddressed' BY <1>1, <1>6, <1>7 DEF PostingAddressed, Addressed
<1>10. QuesAddressed' /\ PendingAddressed' /\ DispAddressed'
  BY <1>1 DEF QuesAddressed, PendingAddressed, DispAddressed, Addressed
<1> QED BY <1>8, <1>9, <1>10

\* Listeners stay the ones meant while no task changes the message it handles.
LEMMA DispKept ==
    ASSUME ViewInv, gViewMap' = gViewMap,
           \A t \in ViewTasks : /\ disp'[t].msg = disp[t].msg
                                /\ disp'[t].pc = "idle" => disp[t].pc = "idle"
    PROVE  DispAddressed'
<1>1. DispAddressed
  BY DEF ViewInv
<1> QED
  BY <1>1 DEF DispAddressed

\* Moving a task on changes neither its message nor the other tasks.
LEMMA MovesOn ==
    ASSUME NEW d \in [ViewTasks -> [pc : Pcs, msg : Message]], NEW t \in ViewTasks,
           NEW p \in Pcs, p # "idle"
    PROVE  LET new == [d EXCEPT ![t].pc = p]
           IN  /\ new \in [ViewTasks -> [pc : Pcs, msg : Message]]
               /\ \A u \in ViewTasks : /\ new[u].msg = d[u].msg
                                       /\ new[u].pc = "idle" => d[u].pc = "idle"
<1> DEFINE new == [d EXCEPT ![t].pc = p]
<1>1. d[t].msg \in Message /\ new[t] = [pc |-> p, msg |-> d[t].msg]
  OBVIOUS
<1>2. \A u \in ViewTasks : u # t => new[u] = d[u]
  OBVIOUS
<1>3. new \in [ViewTasks -> [pc : Pcs, msg : Message]]
  OBVIOUS
<1> HIDE DEF new
<1>4. \A u \in ViewTasks : new[u].msg = d[u].msg /\ (new[u].pc = "idle" => d[u].pc = "idle")
  BY <1>1, <1>2
<1> QED
  BY <1>3, <1>4 DEF new

(* Queueing a message whose handle was read before keeps the invariant. *)
LEMMA PostQueuesInv == ASSUME NEW th \in Threads PROVE ViewInv /\ PostQueues(th) => ViewInv'
<1> SUFFICES ASSUME ViewInv, PostQueues(th) PROVE ViewInv'
  OBVIOUS
<1> USE DEF ViewInv, ViewTypeOK
<1> DEFINE m == posting[th]
<1>1. /\ m # NoMsg /\ posting' = [posting EXCEPT ![th] = NoMsg]
      /\ UNCHANGED <<gViewMap, seedHandle, openings, mHandle, msgs>>
  BY DEF PostQueues
<1>2. m \in Message /\ Addressed(m) /\ m.to \in ViewTasks
  BY <1>1 DEF PostingAddressed
<1>3. \/ UNCHANGED <<pending, disp>>
      \/ /\ pending' = [pending EXCEPT ![m.to] = Append(@, m)]
         /\ disp' = disp \/ (th \in ViewTasks /\ disp' = [disp EXCEPT ![th].pc = "wait"])
  BY <1>2, ViewTasksAssumption DEF PostQueues, Message, Threads
<1>4. disp' \in [ViewTasks -> [pc : Pcs, msg : Message]] /\ DispAddressed'
  <2>1. CASE disp' = disp BY <1>1, <2>1 DEF DispAddressed
  <2>2. CASE th \in ViewTasks /\ disp' = [disp EXCEPT ![th].pc = "wait"]
    <3>1. "wait" \in Pcs /\ "wait" # "idle"
      BY DEF Pcs
    <3>2. disp \in [ViewTasks -> [pc : Pcs, msg : Message]]
      OBVIOUS
    <3> HIDE DEF ViewInv, ViewTypeOK
    <3>3. /\ disp' \in [ViewTasks -> [pc : Pcs, msg : Message]]
          /\ \A u \in ViewTasks : /\ disp'[u].msg = disp[u].msg
                                  /\ disp'[u].pc = "idle" => disp[u].pc = "idle"
      BY <2>2, <3>1, <3>2, MovesOn
    <3> QED BY <1>1, <3>3, DispKept
  <2> QED BY <1>3, <2>1, <2>2
<1>5. posting' \in [Threads -> Message] /\ PostingAddressed'
  BY <1>1, NoMsgType DEF PostingAddressed, Addressed
<1>6. pending' \in [ViewTasks -> Seq(Message)] /\ PendingAddressed'
  <2>1. CASE pending' = pending BY <1>1, <2>1 DEF PendingAddressed, Addressed
  <2>2. CASE pending' = [pending EXCEPT ![m.to] = Append(@, m)]
    <3>1. pending' \in [ViewTasks -> Seq(Message)]
      BY <1>2, <2>2
    <3>2. ASSUME NEW t \in ViewTasks, NEW i \in DOMAIN pending'[t]
          PROVE  Addressed(pending'[t][i]) /\ pending'[t][i].to = t
      <4>1. CASE t = m.to
        <5>1. \/ i \in DOMAIN pending[t] /\ pending'[t][i] = pending[t][i]
              \/ pending'[t][i] = m
          BY <1>2, <2>2, <3>2, <4>1
        <5> QED BY <1>2, <4>1, <5>1 DEF PendingAddressed
      <4>2. CASE t # m.to BY <1>2, <2>2, <3>2, <4>2 DEF PendingAddressed
      <4> QED BY <4>1, <4>2
    <3> QED BY <1>1, <3>1, <3>2 DEF PendingAddressed, Addressed
  <2> QED BY <1>3, <2>1, <2>2
<1>7. QuesAddressed' BY <1>1 DEF QuesAddressed
<1> QED BY <1>1, <1>4, <1>5, <1>6, <1>7

\* Answered lets a sender go on.
LetGo(d, m) == IF m.sender # NoThread THEN [d EXCEPT ![m.sender].pc = "listener"] ELSE d

\* That changes where the sender is, and not the message it handles.
LEMMA LetGoKeeps ==
    ASSUME NEW d \in [ViewTasks -> [pc : Pcs, msg : Message]], NEW m \in Message
    PROVE  /\ LetGo(d, m) \in [ViewTasks -> [pc : Pcs, msg : Message]]
           /\ \A t \in ViewTasks : /\ LetGo(d, m)[t].msg = d[t].msg
                                   /\ LetGo(d, m)[t].pc \in {d[t].pc, "listener"}
BY DEF Message, Pcs, LetGo

\* What is found is the listener of the opening the message was posted to.
LEMMA LookUpInv == ASSUME NEW t \in ViewTasks PROVE ViewInv /\ LookUp(t) => ViewInv'
<1> SUFFICES ASSUME ViewInv, LookUp(t) PROVE ViewInv'
  OBVIOUS
<1> USE DEF ViewInv, ViewTypeOK
<1> DEFINE m == Head(pending[t])
<1>1. /\ pending[t] # <<>> /\ pending' = [pending EXCEPT ![t] = Tail(@)]
      /\ UNCHANGED <<gViewMap, seedHandle, openings, mHandle, posting, msgs>>
      /\ disp[t].pc = "idle"
  BY DEF LookUp
<1>2. m \in Message /\ Addressed(m) /\ m.to = t
  <2>1. 1 \in DOMAIN pending[t] /\ m = pending[t][1] /\ m \in Message BY <1>1
  <2> QED BY <2>1 DEF PendingAddressed
<1>3. \/ m.handle = 0 /\ disp' = [disp EXCEPT ![t] = [pc |-> "proc", msg |-> m]]
      \/ m.handle # 0 /\ m.handle \in DOMAIN gViewMap /\ disp' = [disp EXCEPT ![t] = [pc |-> "found", msg |-> m]]
      \/ disp' = LetGo(disp, m)
  <2> HIDE DEF ViewInv
  <2>1. CASE m.handle = 0
    <3>1. disp' = [disp EXCEPT ![t] = [pc |-> "proc", msg |-> m]]
      <4>1. m.handle \notin DOMAIN gViewMap BY <2>1 DEF ViewInv
      <4> QED BY <2>1, <4>1 DEF LookUp
    <3> QED BY <2>1, <3>1
  <2>2. CASE m.handle # 0 /\ m.handle \in DOMAIN gViewMap BY <2>2 DEF LookUp, Answered, LetGo
  <2>3. CASE m.handle # 0 /\ m.handle \notin DOMAIN gViewMap BY <2>3 DEF LookUp, Answered, LetGo
  <2> QED BY <2>1, <2>2, <2>3
<1>4. disp' \in [ViewTasks -> [pc : Pcs, msg : Message]] /\ DispAddressed'
  <2>1. CASE m.handle = 0 /\ disp' = [disp EXCEPT ![t] = [pc |-> "proc", msg |-> m]]
    BY <1>1, <1>2, <2>1 DEF DispAddressed, Pcs
  <2>2. CASE m.handle # 0 /\ m.handle \in DOMAIN gViewMap /\ disp' = [disp EXCEPT ![t] = [pc |-> "found", msg |-> m]]
    BY <1>1, <1>2, <2>2 DEF DispAddressed, Pcs, Addressed
  <2>3. CASE disp' = LetGo(disp, m)
    <3>1. /\ disp' \in [ViewTasks -> [pc : Pcs, msg : Message]]
          /\ \A u \in ViewTasks : disp'[u].msg = disp[u].msg /\ disp'[u].pc \in {disp[u].pc, "listener"}
      BY <1>2, <2>3, LetGoKeeps
    <3> HIDE DEF ViewInv, ViewTypeOK
    <3> QED BY <1>1, <3>1, DispKept
  <2> QED BY <1>3, <2>1, <2>2, <2>3
<1>5. pending' \in [ViewTasks -> Seq(Message)] /\ PendingAddressed'
  <2>1. pending' \in [ViewTasks -> Seq(Message)] BY <1>1
  <2>2. ASSUME NEW u \in ViewTasks, NEW i \in DOMAIN pending'[u]
        PROVE  Addressed(pending'[u][i]) /\ pending'[u][i].to = u
    <3>1. CASE u = t
      <4>1. i + 1 \in DOMAIN pending[t] /\ pending'[u][i] = pending[t][i + 1]
        BY <1>1, <2>2, <3>1
      <4> QED BY <3>1, <4>1 DEF PendingAddressed
    <3>2. CASE u # t BY <1>1, <2>2, <3>2 DEF PendingAddressed
    <3> QED BY <3>1, <3>2
  <2> QED BY <1>1, <2>1, <2>2 DEF PendingAddressed, Addressed
<1>6. QuesAddressed' /\ PostingAddressed'
  BY <1>1 DEF QuesAddressed, PostingAddressed, Addressed
<1> QED BY <1>1, <1>4, <1>5, <1>6

\* The listener is called, and returns.
LEMMA HandlerInv ==
    ASSUME NEW t \in ViewTasks
    PROVE  ViewInv /\ (CallListener(t) \/ HandlerReturns(t)) => ViewInv'
<1> SUFFICES ASSUME ViewInv, CallListener(t) \/ HandlerReturns(t) PROVE ViewInv'
  OBVIOUS
<1> USE DEF ViewInv, ViewTypeOK
<1>1. UNCHANGED <<gViewMap, seedHandle, openings, mHandle, posting, pending, msgs>>
  BY DEF CallListener, HandlerReturns
<1>2. disp' \in [ViewTasks -> [pc : Pcs, msg : Message]] /\ DispAddressed'
  <2>1. CASE CallListener(t)
    BY <1>1, <2>1 DEF CallListener, DispAddressed, Pcs
  <2>2. CASE HandlerReturns(t)
    <3> DEFINE d == [disp EXCEPT ![t] = DispIdle]
               m == disp[t].msg
    <3>1. d \in [ViewTasks -> [pc : Pcs, msg : Message]] /\ m \in Message
      BY NoMsgType DEF DispIdle, Pcs
    <3>2. disp' = LetGo(d, m)
      BY <2>2 DEF HandlerReturns, Answered, LetGo
    <3>3. \A u \in ViewTasks : u # t => d[u] = disp[u]
      OBVIOUS
    <3>4. d[t].msg.handle = 0
      BY NoMsgType DEF DispIdle
    <3> HIDE DEF d
    <3>a. /\ LetGo(d, m) \in [ViewTasks -> [pc : Pcs, msg : Message]]
          /\ \A u \in ViewTasks : LetGo(d, m)[u].msg = d[u].msg /\ LetGo(d, m)[u].pc \in {d[u].pc, "listener"}
      BY <3>1, LetGoKeeps
    <3>5. /\ disp' \in [ViewTasks -> [pc : Pcs, msg : Message]]
          /\ \A u \in ViewTasks : disp'[u].msg = d[u].msg /\ disp'[u].pc \in {d[u].pc, "listener"}
      BY <3>a, <3>2
    <3>6. ASSUME NEW u \in ViewTasks
          PROVE  /\ disp'[u].pc = "idle" => disp'[u].msg.handle = 0
                 /\ disp'[u].msg.handle # 0 =>
                        /\ disp'[u].msg.handle \in DOMAIN gViewMap
                        /\ gViewMap[disp'[u].msg.handle] = [task |-> u, opening |-> disp'[u].msg.opening]
      <4>1. CASE u = t BY <3>4, <3>5, <4>1
      <4>2. CASE u # t
        <5>1. disp'[u].msg = disp[u].msg /\ disp'[u].pc \in {disp[u].pc, "listener"}
          BY <3>3, <3>5, <4>2
        <5> HIDE DEF ViewTypeOK
        <5> QED BY <5>1 DEF DispAddressed
      <4> QED BY <4>1, <4>2
    <3> QED BY <1>1, <3>5, <3>6 DEF DispAddressed
  <2> QED BY <2>1, <2>2
<1>3. QuesAddressed' /\ PostingAddressed' /\ PendingAddressed'
  BY <1>1 DEF QuesAddressed, PostingAddressed, PendingAddressed, Addressed
<1> QED BY <1>1, <1>2, <1>3

\* Every step preserves the invariant.
LEMMA ViewNextInv == ViewInv /\ [ViewNext]_viewVars => ViewInv'
<1> SUFFICES ASSUME ViewInv, [ViewNext]_viewVars PROVE ViewInv'
  OBVIOUS
<1>1. CASE UNCHANGED viewVars
  BY <1>1 DEF viewVars, ViewInv, ViewTypeOK, QuesAddressed, PostingAddressed, PendingAddressed,
              DispAddressed, Addressed
<1>2. CASE ViewNext
  BY <1>1, <1>2, QueOpenInv, QueCloseInv, PostReadsInv, PostQueuesInv, LookUpInv, HandlerInv
     DEF ViewNext, ViewDone
<1> QED BY <1>1, <1>2

\* The listener that dispatchMsgs has found and calls without the lock stays the
\* one of the opening its message was posted to, for any number of tasks that
\* open, close and post.
THEOREM ListenerIsMeantThm == ViewSpec => []ListenerIsMeant
<1>1. ViewInv => ListenerIsMeant
  BY DEF ViewInv, DispAddressed, ListenerIsMeant
<1> QED BY <1>1, ViewInitInv, ViewNextInv, PTL DEF ViewSpec
=============================================================================
