----------------------------- MODULE EdEventLoop -----------------------------
(***************************************************************************)
(* The event loop of an EdTask (edEventLoop, esMain, regEdEvent,           *)
(* deregEdEvent, cleanUpEventResource, reserveFree in src/ednio/EdTask.cpp) *)
(* and the EdEvent objects it calls (src/ednio/EdEvent.cpp), opened and    *)
(* closed as a socket is (src/ednio/EdSocket.cpp).                         *)
(*                                                                         *)
(* The kernel hands out registrations as raw edevt_t pointers, a batch at  *)
(* a time.  A callback may close or reopen any object, also one whose      *)
(* entry is still to come in the batch, and both the descriptor and the    *)
(* memory of a closed registration may be given to another one.  What      *)
(* keeps this together is that a deregistered edevt_t is freed only after  *)
(* the batch, and that every call is preceded by a test of isReg.          *)
(*                                                                         *)
(* Everything runs in the task's thread.  A step is one callback started,  *)
(* one call made by a callback, an entry skipped, or the end of a batch.   *)
(***************************************************************************)
EXTENDS Naturals, Sequences, FiniteSets

CONSTANTS
    Objs,             \* EdEvent objects of the program
    Task,             \* the user of the task's own registration, mEdMsgEvt
    Fds, NoFd,        \* descriptors, and the -1 of mFd
    Evts, NoEvt,      \* addresses of edevt_t objects, and NULL
    MAX_GET_EVENTS,   \* the size of a batch
    NDEBUG            \* TRUE: assert() is compiled out

ASSUME UsersAssumption == Task \notin Objs
ASSUME FdsAssumption == NoFd \notin Fds
ASSUME EvtsAssumption == NoEvt \notin Evts
ASSUME MaxGetEventsAssumption == MAX_GET_EVENTS \in Nat \ {0}
ASSUME AssertAssumption == NDEBUG \in BOOLEAN

VARIABLES
    fds,         \* open descriptors
    interest,    \* what epoll knows: the edevt_t of each descriptor
    evts,        \* the edevt_t objects
    mFd, mEvt,   \* per EdEvent object; of Task they are mMsgFd, mEdMsgEvt
    mIsReg,      \* the EdEvent objects whose mIsReg is true
    reserved,    \* mReserveFreeList
    batch,       \* what is left of the events epoll_wait returned
    lpc,         \* where the loop is
    exit_flag,
    fault        \* the assertion that ended the process, if one did

kernelVars == <<fds, interest>>
objVars    == <<mFd, mEvt, mIsReg, reserved>>
loopVars   == <<batch, lpc, exit_flag>>
vars == <<fds, interest, evts, mFd, mEvt, mIsReg, reserved, batch, lpc,
          exit_flag, fault>>

Users == Objs \cup {Task}

\* In the order in which esMain looks at them.
Flags == <<"READ", "HANGUP", "WRITE">>
FlagSet == {Flags[i] : i \in DOMAIN Flags}

(***************************************************************************)
(* mem says which list an edevt_t is in: mEvtList ("live", isReg is true), *)
(* mDummyEvtList ("dummy", isReg is false), or none, its memory free.  fd  *)
(* and user are those of the last registration at that address.            *)
(***************************************************************************)
Edevt == [mem : {"free", "live", "dummy"}, fd : Fds \cup {NoFd}, user : Users]
Entry == [evt : Evts, events : SUBSET FlagSet]

Live == {e \in Evts : evts[e].mem = "live"}
Alive == fault = "none"

TypeOK ==
    /\ fds \subseteq Fds
    /\ interest \in [Fds -> Evts \cup {NoEvt}]
    /\ evts \in [Evts -> Edevt]
    /\ mFd \in [Users -> Fds \cup {NoFd}]
    /\ mEvt \in [Users -> Evts \cup {NoEvt}]
    /\ mIsReg \subseteq Objs /\ reserved \subseteq Objs
    /\ batch \in Seq(Entry) /\ Len(batch) <= MAX_GET_EVENTS
    /\ lpc \in {"start", "wait", "entry", "cb", "close", "free", "done"}
    /\ exit_flag \in {0, 1}
    /\ fault \in {"none", "dereg", "active_events"}

\* run has opened mMsgFd and started the thread; no object is open.
Init ==
    /\ \E fd \in Fds : /\ fds = {fd}
                       /\ mFd = [u \in Users |-> IF u = Task THEN fd ELSE NoFd]
    /\ interest = [fd \in Fds |-> NoEvt]
    /\ evts = [e \in Evts |-> [mem |-> "free", fd |-> NoFd, user |-> Task]]
    /\ mEvt = [u \in Users |-> NoEvt]
    /\ mIsReg = {} /\ reserved = {}
    /\ batch = <<>> /\ lpc = "start" /\ exit_flag = 0 /\ fault = "none"

-----------------------------------------------------------------------------
(***************************************************************************)
(* Registrations.                                                          *)
(***************************************************************************)

\* regEdEvent when epoll_ctl succeeds: allocate at e, add to the kernel and to
\* mEvtList.
RegEdEvent(fd, u, e) ==
    /\ evts[e].mem = "free"
    /\ evts' = [evts EXCEPT ![e] = [mem |-> "live", fd |-> fd, user |-> u]]
    /\ interest' = [interest EXCEPT ![fd] = e]

\* Mutation of DeregEdEvent: the registration is freed at once.
DeregEdEvent_FreeNow(e) ==
    /\ interest' = [interest EXCEPT ![evts[e].fd] = NoEvt]
    /\ fault' = fault
    /\ evts' = [evts EXCEPT ![e].mem = "free"]

\* deregEdEvent: out of the kernel (assert(ret==0)), then from mEvtList to
\* mDummyEvtList with isReg = false.
DeregEdEvent(e) ==
    /\ fault' = IF interest[evts[e].fd] = NoEvt /\ ~NDEBUG THEN "dereg" ELSE fault
    /\ interest' = [interest EXCEPT ![evts[e].fd] = NoEvt]
    /\ evts' = [evts EXCEPT ![e].mem = "dummy"]

\* Mutation of CleanedUp: the list is popped but nothing is freed.
CleanedUp_Nothing(ev) == ev

\* cleanUpEventResource frees what mDummyEvtList holds.
CleanedUp(ev) ==
    [e \in Evts |-> IF ev[e].mem = "dummy" THEN [ev[e] EXCEPT !.mem = "free"]
                                           ELSE ev[e]]

-----------------------------------------------------------------------------
(***************************************************************************)
(* What a callback does with EdEvent objects.                              *)
(***************************************************************************)

\* A callback, or the EDM_CLOSE handler, is running.
InHandler == Alive /\ lpc \in {"cb", "close"}

\* setFd with a new descriptor.
SetFd(o, fd) ==
    /\ fd \notin fds
    /\ fds' = fds \cup {fd}
    /\ mFd' = [mFd EXCEPT ![o] = fd]

\* openSock: a descriptor, not registered yet.
OpenSock(o, fd) ==
    /\ InHandler /\ mFd[o] = NoFd
    /\ SetFd(o, fd)
    /\ UNCHANGED <<interest, evts, mEvt, mIsReg, reserved, loopVars, fault>>

\* registerEvent (and changeEvent of an object without registration).  It does
\* nothing when mIsReg is true, or when mEvt is still set.
Register(o, e) ==
    IF o \in mIsReg \/ mEvt[o] # NoEvt
    THEN UNCHANGED <<interest, evts, mEvt, mIsReg>>
    ELSE /\ RegEdEvent(mFd'[o], o, e)
         /\ mEvt' = [mEvt EXCEPT ![o] = e]
         /\ mIsReg' = mIsReg \cup {o}

RegisterEvent(o, e) ==
    /\ InHandler /\ mFd[o] # NoFd
    /\ UNCHANGED mFd
    /\ Register(o, e)
    /\ UNCHANGED <<fds, reserved, loopVars, fault>>

\* registerEvent when epoll_ctl fails (no more watches): regEdEvent frees the
\* edevt_t and returns NULL, mIsReg is set all the same.
RegisterFails(o) ==
    /\ InHandler /\ mFd[o] # NoFd /\ o \notin mIsReg
    /\ mIsReg' = mIsReg \cup {o}
    /\ UNCHANGED <<kernelVars, evts, mFd, mEvt, reserved, loopVars, fault>>

\* Mutation of DeregisterEvent: mEvt is not set to NULL.
DeregisterEvent_KeepsEvt(o) ==
    /\ IF o \in mIsReg /\ mEvt[o] # NoEvt
       THEN DeregEdEvent(mEvt[o])
       ELSE UNCHANGED <<evts, interest, fault>>
    /\ UNCHANGED mEvt
    /\ mIsReg' = mIsReg \ {o}

\* Mutation of DeregisterEvent: mIsReg is not reset.
DeregisterEvent_KeepsReg(o) ==
    /\ IF o \in mIsReg /\ mEvt[o] # NoEvt
       THEN DeregEdEvent(mEvt[o])
       ELSE UNCHANGED <<evts, interest, fault>>
    /\ mEvt' = [mEvt EXCEPT ![o] = NoEvt]
    /\ UNCHANGED mIsReg

\* deregisterEvent.
DeregisterEvent(o) ==
    /\ IF o \in mIsReg /\ mEvt[o] # NoEvt
       THEN DeregEdEvent(mEvt[o])
       ELSE UNCHANGED <<evts, interest, fault>>
    /\ mEvt' = [mEvt EXCEPT ![o] = NoEvt]
    /\ mIsReg' = mIsReg \ {o}

\* close of an open object: deregisterEvent, close of the descriptor, mFd = -1.
Close(o) ==
    /\ DeregisterEvent(o)
    /\ fds' = fds \ {mFd[o]}
    /\ mFd' = [mFd EXCEPT ![o] = NoFd]

CloseSock(o) ==
    /\ InHandler /\ mFd[o] # NoFd
    /\ Close(o)
    /\ UNCHANGED <<reserved, loopVars>>

\* reserveFree: the object is deleted when the task ends.
ReserveFree(o) ==
    /\ InHandler
    /\ reserved' = reserved \cup {o}
    /\ UNCHANGED <<kernelVars, evts, mFd, mEvt, mIsReg, loopVars, fault>>

\* EDM_EXIT is among the messages a callback of the task handles.
SetExitFlag ==
    /\ Alive /\ lpc = "cb" /\ evts[Head(batch).evt].user = Task
    /\ exit_flag' = 1
    /\ UNCHANGED <<kernelVars, evts, objVars, batch, lpc, fault>>

-----------------------------------------------------------------------------
(***************************************************************************)
(* The loop.                                                               *)
(***************************************************************************)

\* edEventLoop registers mMsgFd and enters esMain.
StartLoop ==
    /\ Alive /\ lpc = "start"
    /\ \E e \in Evts : /\ RegEdEvent(mFd[Task], Task, e)
                       /\ mEvt' = [mEvt EXCEPT ![Task] = e]
    /\ lpc' = "wait"
    /\ UNCHANGED <<fds, mFd, mIsReg, reserved, batch, exit_flag, fault>>

\* epoll_wait returns up to MAX_GET_EVENTS entries, one per ready descriptor,
\* in any order.  What is ready is up to the peers.  mMsgFd is read only.
Reportable(b) ==
    \A i \in DOMAIN b :
        /\ b[i].evt \in Live
        /\ b[i].events # {}
        /\ evts[b[i].evt].user = Task => b[i].events = {"READ"}
        /\ \A j \in DOMAIN b : b[j].evt = b[i].evt => i = j

EpollWait ==
    /\ Alive /\ lpc = "wait"
    /\ \E n \in 1..MAX_GET_EVENTS : \E b \in [1..n -> [evt : Live, events : SUBSET FlagSet]] :
           Reportable(b) /\ batch' = b
    /\ lpc' = "entry"
    /\ UNCHANGED <<kernelVars, evts, objVars, exit_flag, fault>>

\* Mutation of Callable: isReg is not tested.
Callable_NoTest(e) == e.events # {}

\* isReg, tested before every call of evtcb.
Callable(e) == e.events # {} /\ evts[e.evt].mem = "live"

\* The next flag of the entry, in the order of esMain.
FirstFlag(F) == CHOOSE f \in F : \E i \in DOMAIN Flags :
                    f = Flags[i] /\ \A j \in 1..(i - 1) : Flags[j] \notin F

\* evtcb is called for the next flag; what the callback does are the actions
\* above.
CallBack ==
    /\ Alive /\ lpc = "entry" /\ batch # <<>> /\ Callable(Head(batch))
    /\ batch' = [batch EXCEPT ![1].events = @ \ {FirstFlag(@)}]
    /\ lpc' = "cb"
    /\ UNCHANGED <<kernelVars, evts, objVars, exit_flag, fault>>

CallbackReturns ==
    /\ Alive /\ lpc = "cb"
    /\ lpc' = "entry"
    /\ UNCHANGED <<kernelVars, evts, objVars, batch, exit_flag, fault>>

\* __release_event__: the entry is used up, or its registration is gone.
NextEntry ==
    /\ Alive /\ lpc = "entry" /\ batch # <<>> /\ ~Callable(Head(batch))
    /\ batch' = Tail(batch)
    /\ UNCHANGED <<kernelVars, evts, objVars, lpc, exit_flag, fault>>

\* Mutation of BatchEnd: exit_flag is not tested before the next epoll_wait.
BatchEnd_WaitsAgain ==
    /\ Alive /\ lpc = "entry" /\ batch = <<>>
    /\ evts' = CleanedUp(evts)
    /\ lpc' = "wait"
    /\ UNCHANGED <<kernelVars, objVars, batch, exit_flag, fault>>

\* Mutation of BatchEnd: exit_flag is tested after every entry.
BatchEnd_AtOnce ==
    /\ Alive /\ lpc = "entry" /\ (batch = <<>> \/ exit_flag = 1)
    /\ batch' = <<>> /\ evts' = CleanedUp(evts)
    /\ lpc' = IF exit_flag = 0 THEN "wait" ELSE "close"
    /\ UNCHANGED <<kernelVars, objVars, exit_flag, fault>>

\* The end of a batch: cleanUpEventResource, and the test of exit_flag.
BatchEnd ==
    /\ Alive /\ lpc = "entry" /\ batch = <<>>
    /\ evts' = CleanedUp(evts)
    /\ lpc' = IF exit_flag = 0 THEN "wait" ELSE "close"
    /\ UNCHANGED <<kernelVars, objVars, batch, exit_flag, fault>>

\* callMsgClose: the handler of EDM_CLOSE returns.
CloseHandled ==
    /\ Alive /\ lpc = "close"
    /\ lpc' = "free"
    /\ UNCHANGED <<kernelVars, evts, objVars, batch, exit_flag, fault>>

\* freeReservedObjs deletes an object; its destructor closes it.
FreeReservedObj(o) ==
    /\ Alive /\ lpc = "free" /\ o \in reserved
    /\ reserved' = reserved \ {o}
    /\ IF mFd[o] # NoFd
       THEN Close(o)
       ELSE UNCHANGED <<kernelVars, evts, mFd, mEvt, mIsReg, fault>>
    /\ UNCHANGED loopVars

\* The rest of edEventLoop: deregEdEvent(mEdMsgEvt), cleanUpEventResource, and
\* the check that mEvtList is empty.
LoopReturns ==
    /\ Alive /\ lpc = "free" /\ reserved = {}
    /\ interest' = [interest EXCEPT ![evts[mEvt[Task]].fd] = NoEvt]
    /\ evts' = CleanedUp([evts EXCEPT ![mEvt[Task]].mem = "dummy"])
    /\ fault' = IF Live # {mEvt[Task]} /\ ~NDEBUG THEN "active_events" ELSE fault
    /\ lpc' = "done"
    /\ UNCHANGED <<fds, objVars, batch, exit_flag>>

Ended == (~Alive \/ lpc = "done") /\ UNCHANGED vars

LoopStep ==
    \/ StartLoop \/ CallBack \/ CallbackReturns \/ NextEntry \/ BatchEnd
    \/ CloseHandled \/ LoopReturns
    \/ \E o \in Objs : FreeReservedObj(o)

HandlerStep ==
    \/ \E o \in Objs :
           \/ \E fd \in Fds : OpenSock(o, fd)
           \/ \E e \in Evts : RegisterEvent(o, e)
           \/ RegisterFails(o) \/ CloseSock(o) \/ ReserveFree(o)
    \/ SetExitFlag

Next == LoopStep \/ HandlerStep \/ EpollWait \/ Ended

Spec == Init /\ [][Next]_vars

-----------------------------------------------------------------------------
(***************************************************************************)
(* Properties.                                                             *)
(***************************************************************************)

\* No pending entry points to a freed edevt_t (the case in which esMain finds
\* fd == 0): the registration it was reported for is live or kept.
BatchSafe == \A i \in DOMAIN batch : evts[batch[i].evt].mem # "free"

\* The three views of a registration agree: epoll's, mEvtList's and the
\* object's.  In particular EPOLL_CTL_DEL never fails, no object keeps a pointer
\* to a registration that is gone, and an object that reopens has the new one.
RegistrationsAgree ==
    /\ fault # "dereg"
    /\ \A e \in Live : /\ mEvt[evts[e].user] = e
                       /\ interest[evts[e].fd] = e
                       /\ evts[e].fd \in fds
    /\ \A fd \in Fds : interest[fd] # NoEvt => interest[fd] \in Live /\ evts[interest[fd]].fd = fd
    /\ \A o \in Objs : mEvt[o] # NoEvt =>
           /\ mEvt[o] \in Live /\ o \in mIsReg
           /\ evts[mEvt[o]].user = o /\ evts[mEvt[o]].fd = mFd[o]

\* A callback is made only on an object that holds the registration it is made
\* for: one closed earlier in the batch is not called, and one closed and
\* reopened is not called for what was reported of its old descriptor.
CallbackLive ==
    [][ lpc = "entry" /\ lpc' = "cb" =>
            LET e == Head(batch).evt
            IN  mEvt[evts[e].user] = e /\ mFd[evts[e].user] = evts[e].fd ]_vars

\* No registration given up is still allocated while the task sleeps, and none
\* at all when esClose looks (evt_alloc_cnt), unless the process was stopped
\* because an object was left open.
NoEventLeak ==
    /\ lpc = "wait" => \A e \in Evts : evts[e].mem # "dummy"
    /\ lpc = "done" /\ Alive /\ ~NDEBUG => \A e \in Evts : evts[e].mem = "free"

\* After EDM_EXIT the loop returns, but not before every entry that was reported
\* together with the message has got its callback, unless a callback closed it
\* first; a callback may open, close and reopen objects meanwhile.
ExitEnds ==
    /\ exit_flag = 1 ~> lpc = "done"
    /\ \A e \in Evts :
           (exit_flag = 1 /\ \E i \in DOMAIN batch : batch[i].evt = e /\ batch[i].events # {})
               ~> (evts[e].mem # "live" \/ (lpc = "cb" /\ Head(batch).evt = e))
=============================================================================
