---------------------------- MODULE EdLocalEvent ----------------------------
(***************************************************************************)
(* Events posted to a listener of the same thread (src/ednio/              *)
(* EdLocalEvent.cpp) over an eventfd (src/ednio/EdEventFd.cpp).  postEvent *)
(* queues an Event object, taken from the ones used before if it can, and  *)
(* raises the eventfd; OnEventFd takes as many events as the eventfd       *)
(* counted, and calls the listener, which may post, close and open again.  *)
(* The object of the event being handled is already the first of the used  *)
(* ones: a listener that posts has read its event before.                  *)
(***************************************************************************)
EXTENDS Naturals, Sequences, FiniteSets, SequencesExt

CONSTANTS
    EventObjs,    \* memory for Event objects
    MaxEvent,     \* mMaxEvent
    MaxPosts      \* bound on the events accepted

ASSUME EventObjsAssumption == IsFiniteSet(EventObjs)
ASSUME MaxEventAssumption == MaxEvent \in 1..Cardinality(EventObjs)
ASSUME MaxPostsAssumption == MaxPosts \in Nat

VARIABLES
    evtOpen, evtCnt,          \* the eventfd and its counter
    mEvtQue, mDummyEvtQue,
    evtId,                    \* what an Event object holds
    loopCnt, evtPc,           \* OnEventFd: rounds left, and where it is
    posts,                    \* events accepted; an event is named by its number
    unraised                  \* events queued although raise failed

evtVars ==
    <<evtOpen, evtCnt, mEvtQue, mDummyEvtQue, evtId, loopCnt, evtPc, posts, unraised>>

EvtInit ==
    /\ evtOpen = FALSE /\ evtCnt = 0
    /\ mEvtQue = <<>> /\ mDummyEvtQue = <<>>
    /\ evtId = [o \in EventObjs |-> 0]
    /\ loopCnt = 0 /\ evtPc = "idle" /\ posts = 0 /\ unraised = 0

\* The code of the program runs: outside of OnEventFd, or in the listener.
EvtUser == evtPc \in {"idle", "listener"}

\* open: a new eventfd, registered for EVT_READ.
EvtOpen ==
    /\ EvtUser /\ ~evtOpen
    /\ evtOpen' = TRUE /\ evtCnt' = 0
    /\ UNCHANGED <<mEvtQue, mDummyEvtQue, evtId, loopCnt, evtPc, posts, unraised>>

\* close deletes the events, queued and used, and closes the eventfd.
EvtClose ==
    /\ EvtUser /\ evtOpen
    /\ mEvtQue' = <<>> /\ mDummyEvtQue' = <<>>
    /\ evtOpen' = FALSE /\ evtCnt' = 0 /\ unraised' = 0
    /\ UNCHANGED <<evtId, loopCnt, evtPc, posts>>

InMemory == ToSet(mEvtQue) \cup ToSet(mDummyEvtQue)

\* Mutation of EventObject: the first used object is taken but stays on the list
\* of used ones.
EventObject_Kept(o) ==
    IF mDummyEvtQue # <<>>
    THEN o = Head(mDummyEvtQue) /\ UNCHANGED mDummyEvtQue
    ELSE o \notin InMemory /\ UNCHANGED mDummyEvtQue

\* The object of a new event: the first of the used ones, or a new one.
EventObject(o) ==
    IF mDummyEvtQue # <<>>
    THEN o = Head(mDummyEvtQue) /\ mDummyEvtQue' = Tail(mDummyEvtQue)
    ELSE o \notin InMemory /\ UNCHANGED mDummyEvtQue

\* Mutation of Raise: the eventfd is raised only when the queue was empty.
Raise_Once ==
    IF evtOpen
    THEN evtCnt' = (IF mEvtQue = <<>> THEN evtCnt + 1 ELSE evtCnt) /\ UNCHANGED unraised
    ELSE unraised' = unraised + 1 /\ UNCHANGED evtCnt

\* EdEventFd::raise adds one to the counter, or fails without an eventfd; the
\* event stays queued all the same.
Raise ==
    IF evtOpen
    THEN evtCnt' = evtCnt + 1 /\ UNCHANGED unraised
    ELSE unraised' = unraised + 1 /\ UNCHANGED evtCnt

\* postEvent; above mMaxEvent it returns -1 and changes nothing.
PostEvent(o) ==
    /\ EvtUser /\ posts < MaxPosts /\ Len(mEvtQue) < MaxEvent
    /\ EventObject(o)
    /\ mEvtQue' = Append(mEvtQue, o)
    /\ evtId' = [evtId EXCEPT ![o] = posts + 1] /\ posts' = posts + 1
    /\ Raise
    /\ UNCHANGED <<evtOpen, loopCnt, evtPc>>

\* EdEventFd::OnEventRead takes the whole count.
EvtRead ==
    /\ evtPc = "idle" /\ evtOpen /\ evtCnt > 0
    /\ loopCnt' = evtCnt /\ evtCnt' = 0 /\ evtPc' = "loop"
    /\ UNCHANGED <<evtOpen, mEvtQue, mDummyEvtQue, evtId, posts, unraised>>

\* A round of OnEventFd: the listener is called of the first event, if any.
EvtRound ==
    /\ evtPc = "loop" /\ loopCnt > 0
    /\ loopCnt' = loopCnt - 1
    /\ IF mEvtQue # <<>>
       THEN /\ mDummyEvtQue' = <<Head(mEvtQue)>> \o mDummyEvtQue
            /\ mEvtQue' = Tail(mEvtQue) /\ evtPc' = "listener"
       ELSE UNCHANGED <<mEvtQue, mDummyEvtQue, evtPc>>
    /\ UNCHANGED <<evtOpen, evtCnt, evtId, posts, unraised>>

EvtListenerReturns ==
    /\ evtPc = "listener" /\ evtPc' = "loop"
    /\ UNCHANGED <<evtOpen, evtCnt, mEvtQue, mDummyEvtQue, evtId, loopCnt, posts, unraised>>

EvtLoopEnds ==
    /\ evtPc = "loop" /\ loopCnt = 0 /\ evtPc' = "idle"
    /\ UNCHANGED <<evtOpen, evtCnt, mEvtQue, mDummyEvtQue, evtId, loopCnt, posts, unraised>>

EvtNext ==
    \/ EvtOpen \/ EvtClose \/ EvtRead \/ EvtRound \/ EvtListenerReturns \/ EvtLoopEnds
    \/ \E o \in EventObjs : PostEvent(o)

EvtSpec == EvtInit /\ [][EvtNext]_evtVars

-----------------------------------------------------------------------------
(***************************************************************************)
(* Properties.                                                             *)
(***************************************************************************)

\* The queue holds the last events accepted, in the order of the posts and each
\* with its own contents, although objects are used again while the listener
\* still runs; and the eventfd counts every one of them, but for those whose
\* raise failed.
EventsIntact ==
    /\ \A i \in DOMAIN mEvtQue : evtId[mEvtQue[i]] = posts - Len(mEvtQue) + i
    /\ Len(mEvtQue) <= evtCnt + loopCnt + unraised
=============================================================================
