------------------------------ MODULE EdTimers ------------------------------
(***************************************************************************)
(* Timers of a task: EdTimer (src/ednio/EdTimer.cpp) and the task timers   *)
(* of EdTask::setTimer and killTimer (src/ednio/EdTask.cpp), on the event  *)
(* loop of EdEventLoop, every object of which is a timer here.             *)
(*                                                                         *)
(* A timer expires at any time, also while a callback runs and between the *)
(* report of an expiry by epoll_wait and its callback.  Times are counted  *)
(* in units of 8 microseconds, in which a millisecond is 125 and the u32   *)
(* product msec * 1000 wraps at 2^29, exactly as in the code.              *)
(***************************************************************************)
EXTENDS EdEventLoop

CONSTANTS
    TaskTimers,     \* the objects that are task timers, named by their id
    Msecs,          \* arguments of set and setTimer
    CreateFails     \* TRUE: timerfd_create and epoll_ctl may fail

ASSUME TaskTimersAssumption == TaskTimers \subseteq Objs
ASSUME MsecsAssumption == Msecs \subseteq Nat
ASSUME CreateFailsAssumption == CreateFails \in BOOLEAN

VARIABLES
    armed,        \* the timerfds that are running
    expired,      \* the timerfds with an expiry that has not been read
    mTimerSpec,   \* per timer
    mTimerMap     \* the task timers in use

timerVars == <<armed, expired, mTimerSpec, mTimerMap>>
allVars == <<vars, timerVars>>

TimerTypeOK ==
    /\ TypeOK
    /\ armed \subseteq Objs /\ expired \subseteq Objs
    /\ mTimerSpec \in [Objs -> [it_interval : Nat, it_value : Nat]]
    /\ mTimerMap \subseteq TaskTimers

TimerInit ==
    /\ Init
    /\ armed = {} /\ expired = {} /\ mTimerMap = {}
    /\ mTimerSpec = [o \in Objs |-> [it_interval |-> 0, it_value |-> 0]]

-----------------------------------------------------------------------------

\* set: the u32 product msec * 1000.
Usec(msec) == (msec * 125) % 2^29

\* setUsec: the first expiry is the interval unless given.
Itimerspec(msec, first) ==
    [it_interval |-> Usec(msec),
     it_value    |-> IF Usec(first) = 0 THEN Usec(msec) ELSE Usec(first)]

\* timerfd_settime: arms or, with a zero it_value, disarms; an expiry that has
\* not been read is forgotten.
Settime(o, value) ==
    /\ armed' = IF value = 0 THEN armed \ {o} ELSE armed \cup {o}
    /\ expired' = expired \ {o}

\* What set keeps in the object; setTimer also puts a new id into mTimerMap.
SetSpec(o, msec, first) ==
    /\ mTimerSpec' = [mTimerSpec EXCEPT ![o] = Itimerspec(msec, first)]
    /\ mTimerMap' = mTimerMap \cup ({o} \cap TaskTimers)

\* set of a timer that has no descriptor: timerfd_create, setFd, registerEvent,
\* timerfd_settime.
SetNew(o, fd, e, msec, first) ==
    /\ InHandler /\ mFd[o] = NoFd
    /\ SetFd(o, fd) /\ Register(o, e)
    /\ SetSpec(o, msec, first)
    /\ Settime(o, Itimerspec(msec, first).it_value)
    /\ UNCHANGED <<reserved, loopVars, fault>>

\* set of a timer that has one.
SetAgain(o, msec, first) ==
    /\ InHandler /\ mFd[o] # NoFd
    /\ SetSpec(o, msec, first)
    /\ Settime(o, Itimerspec(msec, first).it_value)
    /\ UNCHANGED vars

\* timerfd_create returns -1: setFd(-1), regEdEvent returns NULL and
\* registerEvent sets mIsReg; timerfd_settime fails.
SetFails(o, msec, first) ==
    /\ CreateFails /\ InHandler /\ mFd[o] = NoFd
    /\ mIsReg' = mIsReg \cup {o}
    /\ SetSpec(o, msec, first)
    /\ UNCHANGED <<kernelVars, evts, mFd, mEvt, reserved, loopVars, fault,
                   armed, expired>>

\* timerfd_create succeeds and epoll_ctl fails: the timer runs unregistered.
SetUnregistered(o, fd, msec, first) ==
    /\ CreateFails /\ InHandler /\ mFd[o] = NoFd /\ o \notin mIsReg
    /\ SetFd(o, fd)
    /\ mIsReg' = mIsReg \cup {o}
    /\ SetSpec(o, msec, first)
    /\ Settime(o, Itimerspec(msec, first).it_value)
    /\ UNCHANGED <<interest, evts, mEvt, reserved, loopVars, fault>>

\* kill of a timer that has a descriptor.
KillFd(o) ==
    /\ Close(o)
    /\ armed' = armed \ {o} /\ expired' = expired \ {o}

\* kill of an EdTimer; killTimer of a task timer, which is then deleted, so that
\* the next setTimer starts with a new object (mIsReg is false).
Kill(o) ==
    /\ InHandler /\ mFd[o] # NoFd
    /\ KillFd(o)
    /\ mTimerMap' = mTimerMap \ {o}
    /\ UNCHANGED <<reserved, loopVars, mTimerSpec>>

\* killTimer of a task timer without a descriptor: only deleted.
KillUnset(o) ==
    /\ InHandler /\ o \in mTimerMap /\ mFd[o] = NoFd
    /\ mTimerMap' = mTimerMap \ {o}
    /\ mIsReg' = mIsReg \ {o}
    /\ UNCHANGED <<kernelVars, evts, mFd, mEvt, reserved, loopVars, fault,
                   armed, expired, mTimerSpec>>

\* pause of an EdTimer.
Pause(o) ==
    /\ InHandler /\ o \notin TaskTimers /\ mFd[o] # NoFd
    /\ Settime(o, 0)
    /\ UNCHANGED <<vars, mTimerSpec, mTimerMap>>

\* resume; reset is pause and resume.
Resume(o) ==
    /\ InHandler /\ o \notin TaskTimers /\ mFd[o] # NoFd
    /\ Settime(o, mTimerSpec[o].it_value)
    /\ UNCHANGED <<vars, mTimerSpec, mTimerMap>>

-----------------------------------------------------------------------------
(***************************************************************************)
(* The kernel and the loop.                                                *)
(***************************************************************************)

\* A running timer expires; a one-shot timer stops.
Expire(o) ==
    /\ Alive /\ lpc # "done" /\ o \in armed
    /\ expired' = expired \cup {o}
    /\ armed' = IF mTimerSpec[o].it_interval = 0 THEN armed \ {o} ELSE armed
    /\ UNCHANGED <<vars, mTimerSpec, mTimerMap>>

\* epoll_wait reports a timer only if it has expired, and as readable.
TimerWait ==
    /\ EpollWait
    /\ \A i \in DOMAIN batch' :
           /\ batch'[i].events = {"READ"}
           /\ LET u == evts[batch'[i].evt].user IN u \in Objs => u \in expired
    /\ UNCHANGED timerVars

\* Mutation of OnEventRead: the expiry is left in the descriptor.
OnEventRead_NoRead == CallBack /\ UNCHANGED timerVars

\* OnEventRead: the expiry is read, if there is one, and OnTimer is called.
OnEventRead ==
    /\ CallBack
    /\ expired' = expired \ {evts[Head(batch).evt].user}
    /\ UNCHANGED <<armed, mTimerSpec, mTimerMap>>

\* cleanupAllTimer after the loop has returned, then the task is closed.
CleanupAllTimer(o) ==
    /\ Alive /\ lpc = "done" /\ o \in mTimerMap
    /\ mTimerMap' = mTimerMap \ {o}
    /\ IF mFd[o] # NoFd
       THEN KillFd(o)
       ELSE UNCHANGED <<kernelVars, evts, mFd, mEvt, mIsReg, fault, armed, expired>>
    /\ UNCHANGED <<reserved, loopVars, mTimerSpec>>

LoopTimerStep ==
    \/ OnEventRead
    \/ \E o \in Objs : CleanupAllTimer(o)
    \/ /\ StartLoop \/ CallbackReturns \/ NextEntry \/ BatchEnd \/ CloseHandled
          \/ LoopReturns
       /\ UNCHANGED timerVars

TimerCall ==
    \/ \E o \in Objs, msec, first \in Msecs :
           \/ \E fd \in Fds : \/ \E e \in Evts : SetNew(o, fd, e, msec, first)
                              \/ SetUnregistered(o, fd, msec, first)
           \/ SetAgain(o, msec, first) \/ SetFails(o, msec, first)
    \/ \E o \in Objs : Kill(o) \/ KillUnset(o) \/ Pause(o) \/ Resume(o)
    \/ SetExitFlag /\ UNCHANGED timerVars

TimerNext ==
    \/ LoopTimerStep \/ TimerCall \/ TimerWait
    \/ \E o \in Objs : Expire(o)
    \/ Ended /\ UNCHANGED timerVars

TimerSpec == TimerInit /\ [][TimerNext]_allVars

\* The thread runs, handlers return, and epoll_wait, which rotates its list of
\* ready descriptors, does not pass over the same one for ever.
Reported(o) == TimerWait /\ \E i \in DOMAIN batch' : batch'[i].evt = mEvt[o]

FairTimerSpec ==
    /\ TimerSpec
    /\ WF_allVars(LoopTimerStep)
    /\ \A o \in Objs : SF_allVars(Reported(o))

-----------------------------------------------------------------------------
(***************************************************************************)
(* Properties.                                                             *)
(***************************************************************************)

\* An expiry of a timer that the loop knows leads to OnTimer, however many others
\* are ready, unless the timer is killed, paused or set again first, or the task
\* ends.
RegisteredExpiryServed ==
    \A o \in Objs : (o \in expired /\ mEvt[o] # NoEvt)
                        ~> (o \notin expired \/ mEvt[o] = NoEvt \/ exit_flag = 1)
=============================================================================
