------------------------- MODULE EdEventLoop_proofs -------------------------
(***************************************************************************)
(* Proofs about EdEventLoop, for any sets of objects, descriptors and      *)
(* addresses, any batch size and either build.                             *)
(***************************************************************************)
EXTENDS EdEventLoop, TLAPS

(***************************************************************************)
(* The inductive invariant: besides the types and RegistrationsAgree,      *)
(* descriptors have one owner, the task's own registration is there while  *)
(* the loop runs, and a batch is pending only inside of it.                *)
(***************************************************************************)
FdsOwned ==
    /\ mFd[Task] # NoFd
    /\ \A u \in Users : mFd[u] # NoFd => mFd[u] \in fds
    /\ \A u, v \in Users : mFd[u] = mFd[v] /\ mFd[u] # NoFd => u = v

TaskRegistered ==
    /\ lpc = "start" => /\ \A e \in Evts : evts[e].mem = "free"
                        /\ \A u \in Users : mEvt[u] = NoEvt
    /\ lpc \notin {"start", "done"} =>
           /\ mEvt[Task] \in Live
           /\ evts[mEvt[Task]].user = Task /\ evts[mEvt[Task]].fd = mFd[Task]
    /\ lpc = "done" => mEvt[Task] \notin Live

BatchOnlyInLoop == lpc \notin {"entry", "cb"} => batch = <<>>

Inv ==
    /\ TypeOK
    /\ FdsOwned
    /\ TaskRegistered
    /\ RegistrationsAgree

-----------------------------------------------------------------------------
(***************************************************************************)
(* What the operations on registrations do.                                *)
(***************************************************************************)

\* regEdEvent gives a user whose descriptor is not registered a registration.
LEMMA RegPreserves ==
    ASSUME Inv, NEW u \in Users, NEW e \in Evts,
           mEvt[u] = NoEvt, mFd[u] # NoFd,
           lpc # "done", 
           RegEdEvent(mFd[u], u, e), mEvt' = [mEvt EXCEPT ![u] = e],
           mIsReg' = IF u = Task THEN mIsReg ELSE mIsReg \cup {u},
           UNCHANGED <<fds, mFd, fault>>
    PROVE  /\ evts' \in [Evts -> Edevt] /\ interest' \in [Fds -> Evts \cup {NoEvt}]
           /\ mEvt' \in [Users -> Evts \cup {NoEvt}] /\ mIsReg' \subseteq Objs
           /\ Live' = Live \cup {e} /\ e \notin Live
           /\ RegistrationsAgree'
<1> USE DEF TypeOK, Inv
<1>1. /\ evts' = [evts EXCEPT ![e] = [mem |-> "live", fd |-> mFd[u], user |-> u]]
      /\ interest' = [interest EXCEPT ![mFd[u]] = e]
      /\ evts[e].mem = "free" /\ mFd[u] \in Fds
  BY DEF RegEdEvent
<1>2. /\ evts' \in [Evts -> Edevt] /\ interest' \in [Fds -> Evts \cup {NoEvt}]
      /\ mEvt' \in [Users -> Evts \cup {NoEvt}] /\ mIsReg' \subseteq Objs
  BY <1>1 DEF Edevt, Users
<1>3. Live' = Live \cup {e} /\ e \notin Live
  BY <1>1 DEF Live, Edevt
<1>4. ASSUME NEW d \in Live PROVE evts[d].fd # mFd[u]
  <2>1. evts[d].user \in Users /\ mEvt[evts[d].user] = d /\ d \in Evts
    BY DEF RegistrationsAgree, Live, Edevt
  <2>2. evts[d].fd = mFd[evts[d].user]
    BY <2>1, EvtsAssumption DEF RegistrationsAgree, TaskRegistered, Live, Users
  <2>3. evts[d].user # u
    BY <2>1, EvtsAssumption
  <2> QED
    BY <2>1, <2>2, <2>3 DEF FdsOwned
<1>5. fault' # "dereg"
  BY DEF RegistrationsAgree
<1>6. ASSUME NEW d \in Live'
      PROVE  mEvt'[evts'[d].user] = d /\ interest'[evts'[d].fd] = d /\ evts'[d].fd \in fds'
  <2>1. CASE d = e
    BY <1>1, <2>1 DEF FdsOwned
  <2>2. CASE d # e
    <3>1. d \in Live /\ d \in Evts /\ evts'[d] = evts[d] /\ evts[d].user \in Users
      BY <1>1, <1>3, <2>2 DEF Live, Edevt
    <3>2. mEvt[evts[d].user] = d /\ interest[evts[d].fd] = d /\ evts[d].fd \in fds
      BY <3>1 DEF RegistrationsAgree
    <3>3. evts[d].user # u /\ evts[d].fd # mFd[u] /\ evts[d].fd \in Fds
      BY <1>4, <3>1, <3>2, EvtsAssumption
    <3> QED
      BY <1>1, <3>1, <3>2, <3>3
  <2> QED BY <2>1, <2>2
<1>7. ASSUME NEW fd \in Fds, interest'[fd] # NoEvt
      PROVE  interest'[fd] \in Live' /\ evts'[interest'[fd]].fd = fd
  <2>1. CASE fd = mFd[u]
    BY <1>1, <1>3, <2>1
  <2>2. CASE fd # mFd[u]
    <3>1. interest'[fd] = interest[fd]
      BY <1>1, <2>2
    <3>2. interest[fd] \in Live /\ evts[interest[fd]].fd = fd
      BY <3>1, <1>7 DEF RegistrationsAgree
    <3> QED
      BY <1>1, <1>3, <3>1, <3>2 DEF Live
  <2> QED BY <2>1, <2>2
<1>8. ASSUME NEW o \in Objs, mEvt'[o] # NoEvt
      PROVE  /\ mEvt'[o] \in Live' /\ o \in mIsReg'
             /\ evts'[mEvt'[o]].user = o /\ evts'[mEvt'[o]].fd = mFd'[o]
  <2>1. CASE o = u
    BY <1>1, <1>3, <2>1, UsersAssumption
  <2>2. CASE o # u
    <3>1. mEvt'[o] = mEvt[o]
      BY <2>2 DEF Users
    <3>2. mEvt[o] \in Live /\ o \in mIsReg /\ evts[mEvt[o]].user = o /\ evts[mEvt[o]].fd = mFd[o]
      BY <3>1, <1>8 DEF RegistrationsAgree
    <3> QED
      BY <1>1, <1>3, <3>1, <3>2 DEF Live
  <2> QED BY <2>1, <2>2
<1> QED
  BY <1>2, <1>3, <1>5, <1>6, <1>7, <1>8 DEF RegistrationsAgree

\* close of an object gives up its registration, and no other one; EPOLL_CTL_DEL
\* does not fail.
LEMMA ClosePreserves ==
    ASSUME Inv, NEW o \in Objs, mFd[o] # NoFd, Close(o)
    PROVE  /\ evts' \in [Evts -> Edevt] /\ interest' \in [Fds -> Evts \cup {NoEvt}]
           /\ mEvt' \in [Users -> Evts \cup {NoEvt}] /\ mIsReg' \subseteq Objs
           /\ mFd' \in [Users -> Fds \cup {NoFd}] /\ fds' \subseteq Fds
           /\ mEvt'[Task] = mEvt[Task] /\ mFd'[Task] = mFd[Task]
           /\ \A e \in Evts : \/ evts'[e] = evts[e]
                              \/ e \in Live /\ evts[e].user = o /\ evts'[e].mem = "dummy"
           /\ fault' = fault
           /\ FdsOwned' /\ RegistrationsAgree'
<1> USE DEF TypeOK, Inv
<1>0. o \in Users /\ o # Task /\ Task \in Users
  BY UsersAssumption DEF Users
<1>1. /\ mEvt' = [mEvt EXCEPT ![o] = NoEvt] /\ mIsReg' = mIsReg \ {o}
      /\ fds' = fds \ {mFd[o]} /\ mFd' = [mFd EXCEPT ![o] = NoFd]
  BY DEF Close, DeregisterEvent
<1>2. FdsOwned'
  BY <1>0, <1>1 DEF FdsOwned
<1>3. /\ mEvt' \in [Users -> Evts \cup {NoEvt}] /\ mIsReg' \subseteq Objs
      /\ mFd' \in [Users -> Fds \cup {NoFd}] /\ fds' \subseteq Fds
      /\ mEvt'[Task] = mEvt[Task] /\ mFd'[Task] = mFd[Task]
  BY <1>0, <1>1
<1>4. \A d \in Live : /\ d \in Evts /\ evts[d].user \in Users /\ evts[d].fd \in Fds \cup {NoFd}
                      /\ mEvt[evts[d].user] = d /\ interest[evts[d].fd] = d
                      /\ evts[d].fd \in fds
                      /\ evts[d].fd = mFd[evts[d].user]
  BY EvtsAssumption DEF RegistrationsAgree, TaskRegistered, Live, Edevt, Users
<1>5. CASE mEvt[o] = NoEvt
  <2>1. UNCHANGED <<evts, interest, fault>> /\ Live' = Live
    BY <1>5 DEF Close, DeregisterEvent, Live
  <2>2. \A d \in Live : evts[d].user # o /\ evts[d].fd # mFd[o]
    BY <1>0, <1>4, <1>5, EvtsAssumption DEF Live, FdsOwned
  <2>3. RegistrationsAgree'
    BY <1>0, <1>1, <1>4, <1>5, <2>1, <2>2 DEF RegistrationsAgree, Users
  <2> QED BY <1>2, <1>3, <2>1, <2>3
<1>6. CASE mEvt[o] # NoEvt
  <2> DEFINE d == mEvt[o]
  <2>1. d \in Live /\ d \in Evts /\ o \in mIsReg /\ evts[d].user = o /\ evts[d].fd = mFd[o]
        /\ interest[mFd[o]] = d /\ mFd[o] \in Fds
    BY <1>6, <1>4 DEF RegistrationsAgree
  <2>2. /\ fault' = fault /\ interest' = [interest EXCEPT ![mFd[o]] = NoEvt]
        /\ evts' = [evts EXCEPT ![d].mem = "dummy"]
    BY <1>6, <2>1, EvtsAssumption DEF Close, DeregisterEvent, DeregEdEvent
  <2>3. /\ evts' \in [Evts -> Edevt] /\ interest' \in [Fds -> Evts \cup {NoEvt}]
        /\ \A e \in Evts : \/ evts'[e] = evts[e]
                           \/ e \in Live /\ evts[e].user = o /\ evts'[e].mem = "dummy"
    BY <2>1, <2>2 DEF Edevt
  <2>4. Live' = Live \ {d} /\ \A c \in Live' : evts'[c] = evts[c]
    BY <2>1, <2>2 DEF Live, Edevt
  <2>5. \A c \in Live' : evts[c].user # o /\ evts[c].fd # mFd[o]
    BY <1>0, <1>4, <2>1, <2>4 DEF FdsOwned
  <2>6. fault' # "dereg"
    BY <2>2 DEF RegistrationsAgree
  <2>7. \A c \in Live' : mEvt'[evts'[c].user] = c /\ interest'[evts'[c].fd] = c /\ evts'[c].fd \in fds'
    BY <1>1, <1>4, <2>2, <2>4, <2>5
  <2>8. \A fd \in Fds : interest'[fd] # NoEvt => interest'[fd] \in Live' /\ evts'[interest'[fd]].fd = fd
    BY <2>1, <2>2, <2>4 DEF RegistrationsAgree
  <2>9. \A p \in Objs : mEvt'[p] # NoEvt =>
            /\ mEvt'[p] \in Live' /\ p \in mIsReg'
            /\ evts'[mEvt'[p]].user = p /\ evts'[mEvt'[p]].fd = mFd'[p]
    BY <1>0, <1>1, <2>1, <2>4 DEF RegistrationsAgree, Users
  <2> QED
    BY <1>2, <1>3, <2>2, <2>3, <2>6, <2>7, <2>8, <2>9 DEF RegistrationsAgree
<1> QED BY <1>5, <1>6

\* cleanUpEventResource frees the registrations given up, and touches no other.
LEMMA CleanedUpFrees ==
    ASSUME NEW ev \in [Evts -> Edevt]
    PROVE  /\ CleanedUp(ev) \in [Evts -> Edevt]
           /\ \A e \in Evts : /\ ev[e].mem = "dummy" => CleanedUp(ev)[e].mem = "free"
                              /\ ev[e].mem # "dummy" => CleanedUp(ev)[e] = ev[e]
BY DEF CleanedUp, Edevt

-----------------------------------------------------------------------------
(***************************************************************************)
(* The invariant is inductive: one lemma per action that changes more than *)
(* the loop's own state.                                                   *)
(***************************************************************************)
\* The invariant holds when run has started the thread.
LEMMA InitInv == Init => Inv /\ BatchOnlyInLoop
<1> SUFFICES ASSUME Init PROVE Inv /\ BatchOnlyInLoop
  OBVIOUS
<1>1. PICK fd \in Fds : /\ fds = {fd}
                        /\ mFd = [u \in Users |-> IF u = Task THEN fd ELSE NoFd]
  BY DEF Init
<1>2. TypeOK
  BY <1>1, MaxGetEventsAssumption DEF Init, TypeOK, Edevt, Users, Entry
<1>3. FdsOwned
  BY <1>1, FdsAssumption DEF FdsOwned, Users
<1>4. TaskRegistered
  BY DEF Init, TaskRegistered
<1>5. RegistrationsAgree
  BY DEF Init, RegistrationsAgree, Live, Users
<1> QED BY <1>2, <1>3, <1>4, <1>5 DEF Inv, BatchOnlyInLoop, Init

\* A step of the loop that leaves objects and registrations alone.
LEMMA LoopOnlyInv ==
    ASSUME Inv, UNCHANGED <<kernelVars, evts, mFd, mEvt, mIsReg, fault>>,
           reserved' \subseteq Objs, batch' \in Seq(Entry), Len(batch') <= MAX_GET_EVENTS,
           exit_flag' \in {0, 1},
           lpc' \in {"wait", "entry", "cb", "close", "free"},
           lpc \notin {"start", "done"}
    PROVE  Inv'
<1> USE DEF Inv, kernelVars
<1>1. TypeOK' BY DEF TypeOK
<1>2. FdsOwned' BY DEF FdsOwned
<1>3. Live' = Live BY DEF Live
<1>4. TaskRegistered' BY <1>3 DEF TaskRegistered
<1>5. RegistrationsAgree' BY <1>3 DEF RegistrationsAgree
<1> QED BY <1>1, <1>2, <1>4, <1>5

\* The task's own registration.
LEMMA StartLoopInv == Inv /\ StartLoop => Inv'
<1> SUFFICES ASSUME Inv, StartLoop PROVE Inv'
  OBVIOUS
<1>0. TypeOK /\ FdsOwned /\ TaskRegistered BY DEF Inv
<1>1. PICK e \in Evts : /\ RegEdEvent(mFd[Task], Task, e)
                        /\ mEvt' = [mEvt EXCEPT ![Task] = e]
  BY DEF StartLoop
<1>2. /\ lpc = "start" /\ lpc' = "wait"
      /\ UNCHANGED <<fds, mFd, mIsReg, reserved, batch, exit_flag, fault>>
  BY DEF StartLoop
<1>3. Task \in Users /\ mEvt[Task] = NoEvt /\ mFd[Task] # NoFd /\ mFd[Task] \in Fds
  BY <1>0, <1>2 DEF Users, TaskRegistered, FdsOwned, TypeOK
<1>4. /\ evts' \in [Evts -> Edevt] /\ interest' \in [Fds -> Evts \cup {NoEvt}]
      /\ mEvt' \in [Users -> Evts \cup {NoEvt}] /\ mIsReg' \subseteq Objs
      /\ Live' = Live \cup {e} /\ e \notin Live
      /\ RegistrationsAgree'
  BY <1>1, <1>2, <1>3, RegPreserves
<1>5. TypeOK'
  BY <1>0, <1>2, <1>4 DEF TypeOK
<1>6. FdsOwned'
  BY <1>0, <1>2 DEF FdsOwned
<1>7. TaskRegistered'
  BY <1>0, <1>1, <1>2, <1>3, <1>4 DEF TaskRegistered, TypeOK, RegEdEvent
<1> QED BY <1>4, <1>5, <1>6, <1>7 DEF Inv

\* A new descriptor is nobody else's.
LEMMA OpenSockInv == ASSUME NEW o \in Objs, NEW fd \in Fds PROVE Inv /\ OpenSock(o, fd) => Inv'
<1> SUFFICES ASSUME Inv, OpenSock(o, fd) PROVE Inv'
  OBVIOUS
<1> USE DEF Inv
<1>1. /\ mFd[o] = NoFd /\ fd \notin fds /\ fds' = fds \cup {fd} /\ mFd' = [mFd EXCEPT ![o] = fd]
      /\ UNCHANGED <<interest, evts, mEvt, mIsReg, reserved, batch, lpc, exit_flag, fault>>
      /\ lpc \in {"cb", "close"}
  BY DEF OpenSock, SetFd, loopVars, InHandler
<1>2. o \in Users /\ o # Task /\ Task \in Users
  BY UsersAssumption DEF Users
<1>3. TypeOK' BY <1>1, <1>2 DEF TypeOK
<1>4. FdsOwned' BY <1>1, <1>2, FdsAssumption DEF FdsOwned, TypeOK
<1>5. Live' = Live BY <1>1 DEF Live
<1>6. TaskRegistered' BY <1>1, <1>2, <1>5 DEF TaskRegistered, TypeOK
<1>7. mEvt[o] = NoEvt
  <2> SUFFICES ASSUME mEvt[o] # NoEvt PROVE FALSE
    OBVIOUS
  <2>1. mEvt[o] \in Live /\ evts[mEvt[o]].fd = NoFd
    BY <1>1 DEF RegistrationsAgree
  <2> QED BY <2>1, FdsAssumption DEF RegistrationsAgree, TypeOK
<1>8. RegistrationsAgree'
  BY <1>1, <1>2, <1>5, <1>7 DEF RegistrationsAgree, TypeOK, Users
<1> QED BY <1>3, <1>4, <1>6, <1>8

\* registerEvent, also when it does nothing.
LEMMA RegisterEventInv == ASSUME NEW o \in Objs, NEW e \in Evts PROVE Inv /\ RegisterEvent(o, e) => Inv'
<1> SUFFICES ASSUME Inv, RegisterEvent(o, e) PROVE Inv'
  OBVIOUS
<1>0. TypeOK /\ FdsOwned /\ TaskRegistered /\ RegistrationsAgree BY DEF Inv
<1>1. /\ mFd[o] # NoFd /\ UNCHANGED <<fds, mFd, reserved, batch, lpc, exit_flag, fault>>
      /\ lpc \in {"cb", "close"} /\ Register(o, e)
  BY DEF RegisterEvent, InHandler, loopVars
<1>2. o \in Users /\ o # Task /\ Task \in Users
  BY UsersAssumption DEF Users
<1>3. CASE o \in mIsReg \/ mEvt[o] # NoEvt
  <2>1. UNCHANGED <<interest, evts, mEvt, mIsReg>>
    BY <1>1, <1>3 DEF Register
  <2> QED BY <1>0, <1>1, <2>1, LoopOnlyInv DEF kernelVars, TypeOK
<1>4. CASE o \notin mIsReg /\ mEvt[o] = NoEvt
  <2>1. /\ RegEdEvent(mFd[o], o, e) /\ mEvt' = [mEvt EXCEPT ![o] = e] /\ mIsReg' = mIsReg \cup {o}
    BY <1>1, <1>4 DEF Register
  <2>2. /\ evts' \in [Evts -> Edevt] /\ interest' \in [Fds -> Evts \cup {NoEvt}]
        /\ mEvt' \in [Users -> Evts \cup {NoEvt}] /\ mIsReg' \subseteq Objs
        /\ Live' = Live \cup {e} /\ e \notin Live
        /\ RegistrationsAgree'
    BY <1>1, <1>2, <1>4, <2>1, RegPreserves
  <2>3. TypeOK'
    BY <1>0, <1>1, <2>2 DEF TypeOK
  <2>4. FdsOwned'
    BY <1>0, <1>1 DEF FdsOwned
  <2>5. mEvt'[Task] = mEvt[Task] /\ mEvt[Task] \in Live /\ mEvt[Task] # e
        /\ evts'[mEvt[Task]] = evts[mEvt[Task]]
    BY <1>0, <1>1, <1>2, <2>1, <2>2 DEF TaskRegistered, TypeOK, RegEdEvent, Live
  <2>6. TaskRegistered'
    BY <1>0, <1>1, <2>2, <2>5 DEF TaskRegistered
  <2> QED BY <2>2, <2>3, <2>4, <2>6 DEF Inv
<1> QED BY <1>3, <1>4

\* A failed registerEvent leaves mIsReg set and no registration.
LEMMA RegisterFailsInv == ASSUME NEW o \in Objs PROVE Inv /\ RegisterFails(o) => Inv'
<1> SUFFICES ASSUME Inv, RegisterFails(o) PROVE Inv'
  OBVIOUS
<1> USE DEF Inv
<1>1. /\ mIsReg' = mIsReg \cup {o}
      /\ UNCHANGED <<fds, interest, evts, mFd, mEvt, reserved, batch, lpc, exit_flag, fault>>
  BY DEF RegisterFails, kernelVars, loopVars
<1>2. TypeOK' BY <1>1 DEF TypeOK
<1>3. FdsOwned' BY <1>1 DEF FdsOwned
<1>4. Live' = Live BY <1>1 DEF Live
<1>5. TaskRegistered' BY <1>1, <1>4 DEF TaskRegistered
<1>6. RegistrationsAgree' BY <1>1, <1>4 DEF RegistrationsAgree
<1> QED BY <1>2, <1>3, <1>5, <1>6

\* closeSock, and the destructor run by freeReservedObjs.
LEMMA CloseInv ==
    ASSUME NEW o \in Objs, Inv, mFd[o] # NoFd, Close(o), reserved' \subseteq Objs,
           UNCHANGED loopVars, lpc \notin {"start", "done"}
    PROVE  Inv'
<1>0. TypeOK /\ FdsOwned /\ TaskRegistered BY DEF Inv
<1>1. /\ evts' \in [Evts -> Edevt] /\ interest' \in [Fds -> Evts \cup {NoEvt}]
      /\ mEvt' \in [Users -> Evts \cup {NoEvt}] /\ mIsReg' \subseteq Objs
      /\ mFd' \in [Users -> Fds \cup {NoFd}] /\ fds' \subseteq Fds
      /\ mEvt'[Task] = mEvt[Task] /\ mFd'[Task] = mFd[Task]
      /\ \A e \in Evts : \/ evts'[e] = evts[e]
                         \/ e \in Live /\ evts[e].user = o /\ evts'[e].mem = "dummy"
      /\ fault' = fault
      /\ FdsOwned' /\ RegistrationsAgree'
  BY ClosePreserves
<1>2. TypeOK'
  BY <1>0, <1>1 DEF TypeOK, loopVars
<1>3. evts'[mEvt[Task]] = evts[mEvt[Task]] /\ mEvt[Task] \in Live
  BY <1>0, <1>1, UsersAssumption DEF TaskRegistered, Live
<1>4. TaskRegistered'
  BY <1>0, <1>1, <1>3 DEF TaskRegistered, Live, loopVars
<1> QED BY <1>1, <1>2, <1>4 DEF Inv

\* The end of a batch frees no live registration.
LEMMA BatchEndInv == Inv /\ BatchEnd => Inv'
<1> SUFFICES ASSUME Inv, BatchEnd PROVE Inv'
  OBVIOUS
<1> USE DEF Inv
<1>1. /\ evts' = CleanedUp(evts) /\ lpc = "entry" /\ lpc' \in {"wait", "close"}
      /\ UNCHANGED <<fds, interest, mFd, mEvt, mIsReg, reserved, batch, exit_flag, fault>>
  BY DEF BatchEnd, kernelVars, objVars
<1>2. evts' \in [Evts -> Edevt] /\ Live' = Live /\ \A e \in Live : evts'[e] = evts[e]
  BY <1>1, CleanedUpFrees DEF Live, TypeOK
<1>3. TypeOK' BY <1>1, <1>2 DEF TypeOK
<1>4. FdsOwned' BY <1>1 DEF FdsOwned
<1>5. TaskRegistered' BY <1>1, <1>2 DEF TaskRegistered
<1>6. RegistrationsAgree' BY <1>1, <1>2 DEF RegistrationsAgree
<1> QED BY <1>3, <1>4, <1>5, <1>6

\* What LoopReturns does to the registrations.
LEMMA LoopReturnsEffect ==
    ASSUME Inv, LoopReturns
    PROVE  /\ evts' \in [Evts -> Edevt]
           /\ Live' = Live \ {mEvt[Task]} /\ mEvt[Task] \in Live
           /\ \A e \in Live' : evts'[e] = evts[e]
           /\ \A e \in Evts : e \notin Live' => evts'[e].mem = "free"
<1> DEFINE t == mEvt[Task]
           ev == [evts EXCEPT ![t].mem = "dummy"]
<1>1. t \in Live /\ t \in Evts
  BY DEF Inv, TaskRegistered, LoopReturns, Live
<1>2. evts \in [Evts -> Edevt]
  BY DEF Inv, TypeOK
<1>3. ev \in [Evts -> Edevt] /\ ev[t].mem = "dummy" /\ \A e \in Evts : e # t => ev[e] = evts[e]
  BY <1>1, <1>2 DEF Edevt
<1>4. evts' = CleanedUp(ev)
  BY DEF LoopReturns
<1> HIDE DEF ev
<1>5. /\ evts' \in [Evts -> Edevt]
      /\ evts'[t].mem = "free"
      /\ \A e \in Evts : e # t => /\ evts[e].mem = "dummy" => evts'[e].mem = "free"
                                  /\ evts[e].mem # "dummy" => evts'[e] = evts[e]
  BY <1>1, <1>3, <1>4, CleanedUpFrees
<1> QED BY <1>1, <1>2, <1>5 DEF Live, Edevt

\* The end of edEventLoop.
LEMMA LoopReturnsInv == Inv /\ LoopReturns => Inv'
<1> SUFFICES ASSUME Inv, LoopReturns PROVE Inv'
  OBVIOUS
<1>0. TypeOK /\ FdsOwned /\ TaskRegistered /\ RegistrationsAgree BY DEF Inv
<1>1. /\ evts' \in [Evts -> Edevt]
      /\ Live' = Live \ {mEvt[Task]} /\ mEvt[Task] \in Live
      /\ \A e \in Live' : evts'[e] = evts[e]
  BY LoopReturnsEffect
<1>2. /\ interest' = [interest EXCEPT ![mFd[Task]] = NoEvt] /\ lpc' = "done"
      /\ fault' \in {fault, "active_events"}
      /\ UNCHANGED <<fds, mFd, mEvt, mIsReg, reserved, batch, exit_flag>>
  BY <1>0 DEF LoopReturns, TaskRegistered, objVars
<1>3. /\ mFd[Task] \in Fds /\ Task \in Users /\ mEvt[Task] \in Evts
      /\ evts[mEvt[Task]].user = Task /\ evts[mEvt[Task]].fd = mFd[Task]
  BY <1>0, <1>1 DEF FdsOwned, TypeOK, Users, Live, TaskRegistered, LoopReturns
<1>4. TypeOK' BY <1>0, <1>1, <1>2, <1>3 DEF TypeOK
<1>5. FdsOwned' BY <1>0, <1>2 DEF FdsOwned
<1>6. TaskRegistered' BY <1>1, <1>2 DEF TaskRegistered
<1>7. fault' # "dereg" BY <1>0, <1>2 DEF RegistrationsAgree
<1>8. ASSUME NEW e \in Live'
      PROVE  mEvt'[evts'[e].user] = e /\ interest'[evts'[e].fd] = e /\ evts'[e].fd \in fds'
  <2>1. e \in Live /\ e # mEvt[Task] /\ evts'[e] = evts[e] BY <1>1
  <2>2. mEvt[evts[e].user] = e /\ interest[evts[e].fd] = e /\ evts[e].fd \in fds
    BY <1>0, <2>1 DEF RegistrationsAgree
  <2>3. interest[mFd[Task]] = mEvt[Task]
    BY <1>0, <1>1, <1>3 DEF RegistrationsAgree
  <2>4. evts[e].fd # mFd[Task] /\ evts[e].fd \in Fds
    BY <1>0, <2>1, <2>2, <2>3 DEF TypeOK
  <2> QED BY <1>0, <1>2, <2>1, <2>2, <2>4 DEF TypeOK
<1>9. ASSUME NEW fd \in Fds, interest'[fd] # NoEvt
      PROVE  interest'[fd] \in Live' /\ evts'[interest'[fd]].fd = fd
  <2>1. fd # mFd[Task] /\ interest'[fd] = interest[fd]
    BY <1>0, <1>2, <1>9 DEF TypeOK
  <2>2. interest[fd] \in Live /\ evts[interest[fd]].fd = fd
    BY <1>0, <1>9, <2>1 DEF RegistrationsAgree
  <2> QED BY <1>1, <1>3, <2>1, <2>2
<1>10. ASSUME NEW o \in Objs, mEvt'[o] # NoEvt
      PROVE  /\ mEvt'[o] \in Live' /\ o \in mIsReg'
             /\ evts'[mEvt'[o]].user = o /\ evts'[mEvt'[o]].fd = mFd'[o]
  <2>1. /\ mEvt[o] \in Live /\ o \in mIsReg /\ evts[mEvt[o]].user = o /\ evts[mEvt[o]].fd = mFd[o]
    BY <1>0, <1>2, <1>10 DEF RegistrationsAgree
  <2>2. mEvt[o] # mEvt[Task]
    BY <1>3, <2>1, UsersAssumption
  <2> QED BY <1>1, <1>2, <2>1, <2>2
<1> QED BY <1>4, <1>5, <1>6, <1>7, <1>8, <1>9, <1>10 DEF Inv, RegistrationsAgree

\* Entries are reported for live registrations, so that a batch has its type.
LEMMA EpollWaitInv == Inv /\ EpollWait => Inv'
<1> SUFFICES ASSUME Inv, EpollWait PROVE Inv'
  OBVIOUS
<1>1. PICK n \in 1..MAX_GET_EVENTS : \E b \in [1..n -> [evt : Live, events : SUBSET FlagSet]] :
          Reportable(b) /\ batch' = b
  BY DEF EpollWait
<1>2. batch' \in [1..n -> [evt : Live, events : SUBSET FlagSet]]
  BY <1>1
<1>3. n \in Nat /\ n <= MAX_GET_EVENTS
  BY <1>1, MaxGetEventsAssumption
<1>4. [evt : Live, events : SUBSET FlagSet] \subseteq Entry
  BY DEF Entry, Live
<1>5. batch' \in Seq(Entry) /\ Len(batch') <= MAX_GET_EVENTS
  BY <1>2, <1>3, <1>4
<1> QED
  BY <1>5, LoopOnlyInv DEF EpollWait, Inv, TypeOK, kernelVars, objVars

\* The entries of a batch keep their registration when evtcb has been called.
LEMMA CallBackBatch ==
    ASSUME TypeOK, CallBack
    PROVE  /\ batch' \in Seq(Entry) /\ Len(batch') = Len(batch)
           /\ \A i \in DOMAIN batch : batch'[i].evt = batch[i].evt
<1>1. /\ batch \in Seq(Entry) /\ batch # <<>>
      /\ batch' = [batch EXCEPT ![1].events = @ \ {FirstFlag(@)}]
  BY DEF CallBack, TypeOK
<1>2. 1 \in DOMAIN batch /\ batch[1] \in Entry
  BY <1>1
<1>3. [batch[1] EXCEPT !.events = @ \ {FirstFlag(@)}] \in Entry
      /\ [batch[1] EXCEPT !.events = @ \ {FirstFlag(@)}].evt = batch[1].evt
  BY <1>2 DEF Entry
<1>4. batch' = [batch EXCEPT ![1] = [batch[1] EXCEPT !.events = @ \ {FirstFlag(@)}]]
  BY <1>1
<1> QED BY <1>1, <1>2, <1>3, <1>4

\* Every step preserves the invariant.
LEMMA NextInv == Inv /\ [Next]_vars => Inv'
<1> SUFFICES ASSUME Inv, [Next]_vars PROVE Inv'
  OBVIOUS
<1> USE DEF kernelVars, objVars, loopVars
<1>0. TypeOK BY DEF Inv
<1>1. CASE UNCHANGED vars
  <2>1. TypeOK' /\ FdsOwned'
    BY <1>1 DEF Inv, TypeOK, FdsOwned, vars
  <2>2. Live' = Live
    BY <1>1 DEF Live, vars
  <2>3. TaskRegistered' /\ RegistrationsAgree'
    BY <1>1, <2>2 DEF Inv, TaskRegistered, RegistrationsAgree, vars
  <2> QED BY <2>1, <2>3 DEF Inv
<1>2. CASE StartLoop BY <1>2, StartLoopInv
<1>3. CASE CallBack
  <2>1. batch' \in Seq(Entry) /\ Len(batch') <= MAX_GET_EVENTS
    BY <1>0, <1>3, CallBackBatch DEF TypeOK
  <2> QED BY <1>0, <1>3, <2>1, LoopOnlyInv DEF CallBack, TypeOK
<1>4. CASE CallbackReturns BY <1>0, <1>4, LoopOnlyInv DEF CallbackReturns, TypeOK
<1>5. CASE NextEntry
  <2>1. batch' \in Seq(Entry) /\ Len(batch') <= MAX_GET_EVENTS
    BY <1>0, <1>5, MaxGetEventsAssumption DEF NextEntry, TypeOK
  <2> QED BY <1>0, <1>5, <2>1, LoopOnlyInv DEF NextEntry, TypeOK
<1>6. CASE BatchEnd BY <1>6, BatchEndInv
<1>7. CASE CloseHandled BY <1>0, <1>7, LoopOnlyInv DEF CloseHandled, TypeOK
<1>8. CASE LoopReturns BY <1>8, LoopReturnsInv
<1>9. ASSUME NEW o \in Objs, FreeReservedObj(o) PROVE Inv'
  <2>1. CASE mFd[o] # NoFd
    BY <1>0, <1>9, <2>1, CloseInv DEF FreeReservedObj, TypeOK
  <2>2. CASE mFd[o] = NoFd
    BY <1>0, <1>9, <2>2, LoopOnlyInv DEF FreeReservedObj, TypeOK
  <2> QED BY <2>1, <2>2
<1>10. ASSUME NEW o \in Objs, NEW fd \in Fds, OpenSock(o, fd) PROVE Inv'
  BY <1>10, OpenSockInv
<1>11. ASSUME NEW o \in Objs, NEW e \in Evts, RegisterEvent(o, e) PROVE Inv'
  BY <1>11, RegisterEventInv
<1>12. ASSUME NEW o \in Objs, RegisterFails(o) PROVE Inv'
  BY <1>12, RegisterFailsInv
<1>13. ASSUME NEW o \in Objs, CloseSock(o) PROVE Inv'
  BY <1>0, <1>13, CloseInv DEF CloseSock, InHandler, TypeOK
<1>14. ASSUME NEW o \in Objs, ReserveFree(o) PROVE Inv'
  BY <1>0, <1>14, LoopOnlyInv DEF ReserveFree, InHandler, TypeOK
<1>15. CASE SetExitFlag
  BY <1>0, <1>15, LoopOnlyInv DEF SetExitFlag, TypeOK
<1>16. CASE EpollWait BY <1>16, EpollWaitInv
<1>17. CASE Ended BY <1>1, <1>17 DEF Ended
<1> QED
  BY <1>1, <1>2, <1>3, <1>4, <1>5, <1>6, <1>7, <1>8, <1>9, <1>10, <1>11, <1>12,
     <1>13, <1>14, <1>15, <1>16, <1>17 DEF Next, LoopStep, HandlerStep

-----------------------------------------------------------------------------
(***************************************************************************)
(* The theorems.                                                           *)
(***************************************************************************)

\* The variables of the loop, the kernel and the objects keep their types.
THEOREM TypeCorrect == Spec => []TypeOK
<1>1. Init => Inv BY InitInv
<1>2. Inv => TypeOK BY DEF Inv
<1> QED BY <1>1, <1>2, NextInv, PTL DEF Spec

\* epoll, mEvtList and the objects agree on every registration; deregEdEvent
\* never fails its assertion.
THEOREM RegistrationsAgreeThm == Spec => []RegistrationsAgree
<1>1. Init => Inv BY InitInv
<1>2. Inv => RegistrationsAgree BY DEF Inv
<1> QED BY <1>1, <1>2, NextInv, PTL DEF Spec

\* Memory is freed only where no entry is pending: at the end of a batch, and
\* after the loop.
SafeInv == Inv /\ BatchOnlyInLoop /\ BatchSafe

\* Every step preserves it.
LEMMA NextSafe == SafeInv /\ [Next]_vars => SafeInv'
<1> SUFFICES ASSUME SafeInv, [Next]_vars PROVE BatchOnlyInLoop' /\ BatchSafe'
  BY NextInv DEF SafeInv
<1> USE DEF kernelVars, objVars, loopVars
<1>0. Inv /\ TypeOK /\ BatchOnlyInLoop /\ BatchSafe BY DEF SafeInv, Inv
<1>a. \A i \in DOMAIN batch : batch[i].evt \in Evts
  <2>1. batch \in Seq(Entry) BY <1>0 DEF TypeOK
  <2>2. \A i \in DOMAIN batch : batch[i] \in Entry BY <2>1
  <2> QED BY <2>2 DEF Entry
<1>b. ASSUME UNCHANGED <<batch, lpc>>,
             \A e \in Evts : evts[e].mem # "free" => evts'[e].mem # "free"
      PROVE  BatchOnlyInLoop' /\ BatchSafe'
  BY <1>0, <1>a, <1>b DEF BatchOnlyInLoop, BatchSafe
<1>c. ASSUME batch' = <<>> PROVE BatchOnlyInLoop' /\ BatchSafe'
  BY <1>c DEF BatchOnlyInLoop, BatchSafe
<1>1. CASE UNCHANGED vars BY <1>1, <1>b DEF vars
<1>2. CASE StartLoop BY <1>0, <1>2, <1>c DEF StartLoop, BatchOnlyInLoop
<1>3. CASE CallBack
  <2>1. Len(batch') = Len(batch) /\ \A i \in DOMAIN batch : batch'[i].evt = batch[i].evt
        /\ batch' \in Seq(Entry) /\ batch \in Seq(Entry)
    BY <1>0, <1>3, CallBackBatch DEF TypeOK
  <2>2. DOMAIN batch' = DOMAIN batch
    BY <2>1
  <2> QED BY <1>0, <1>3, <2>1, <2>2 DEF CallBack, BatchOnlyInLoop, BatchSafe
<1>4. CASE CallbackReturns BY <1>0, <1>4 DEF CallbackReturns, BatchOnlyInLoop, BatchSafe
<1>5. CASE NextEntry
  <2>1. batch \in Seq(Entry) /\ batch # <<>> /\ batch' = Tail(batch) /\ UNCHANGED <<evts, lpc>>
        /\ lpc = "entry"
    BY <1>0, <1>5 DEF NextEntry, TypeOK
  <2>2. ASSUME NEW i \in DOMAIN batch' PROVE i + 1 \in DOMAIN batch /\ batch'[i] = batch[i + 1]
    BY <2>1, <2>2
  <2> QED BY <1>0, <2>1, <2>2 DEF BatchOnlyInLoop, BatchSafe
<1>6. CASE BatchEnd BY <1>6, <1>c DEF BatchEnd
<1>7. CASE CloseHandled BY <1>0, <1>7, <1>c DEF CloseHandled, BatchOnlyInLoop
<1>8. CASE LoopReturns BY <1>0, <1>8, <1>c DEF LoopReturns, BatchOnlyInLoop
<1>9. ASSUME NEW o \in Objs, FreeReservedObj(o) PROVE BatchOnlyInLoop' /\ BatchSafe'
  BY <1>0, <1>9, <1>c DEF FreeReservedObj, BatchOnlyInLoop
<1>10. ASSUME NEW o \in Objs, NEW fd \in Fds, OpenSock(o, fd) PROVE BatchOnlyInLoop' /\ BatchSafe'
  BY <1>10, <1>b DEF OpenSock
<1>11. ASSUME NEW o \in Objs, NEW e \in Evts, RegisterEvent(o, e) PROVE BatchOnlyInLoop' /\ BatchSafe'
  <2>1. \A d \in Evts : evts[d].mem # "free" => evts'[d].mem # "free"
    BY <1>0, <1>11 DEF RegisterEvent, Register, RegEdEvent, TypeOK
  <2> QED BY <1>11, <2>1, <1>b DEF RegisterEvent
<1>12. ASSUME NEW o \in Objs, RegisterFails(o) PROVE BatchOnlyInLoop' /\ BatchSafe'
  BY <1>12, <1>b DEF RegisterFails
<1>13. ASSUME NEW o \in Objs, CloseSock(o) PROVE BatchOnlyInLoop' /\ BatchSafe'
  <2>1. Close(o) /\ mFd[o] # NoFd /\ UNCHANGED <<batch, lpc>> BY <1>13 DEF CloseSock
  <2>2. \A e \in Evts : \/ evts'[e] = evts[e]
                        \/ evts'[e].mem = "dummy"
    BY <1>0, <2>1, ClosePreserves
  <2> QED BY <2>1, <2>2, <1>b
<1>14. ASSUME NEW o \in Objs, ReserveFree(o) PROVE BatchOnlyInLoop' /\ BatchSafe'
  BY <1>14, <1>b DEF ReserveFree
<1>15. CASE SetExitFlag BY <1>15, <1>b DEF SetExitFlag
<1>16. CASE EpollWait
  <2>1. PICK n \in 1..MAX_GET_EVENTS : \E b \in [1..n -> [evt : Live, events : SUBSET FlagSet]] :
            Reportable(b) /\ batch' = b
    BY <1>16 DEF EpollWait
  <2>2. \A i \in DOMAIN batch' : batch'[i].evt \in Live
    BY <2>1
  <2> QED BY <1>16, <2>2 DEF EpollWait, BatchSafe, BatchOnlyInLoop, Live
<1>17. CASE Ended BY <1>1, <1>17 DEF Ended
<1> QED
  BY <1>1, <1>2, <1>3, <1>4, <1>5, <1>6, <1>7, <1>8, <1>9, <1>10, <1>11, <1>12,
     <1>13, <1>14, <1>15, <1>16, <1>17 DEF Next, LoopStep, HandlerStep

\* No entry of a batch is left pointing to freed memory, whatever the callbacks
\* before it close and open.
THEOREM BatchSafeThm == Spec => []BatchSafe
<1>1. Init => SafeInv
  BY InitInv DEF SafeInv, Init, BatchSafe
<1>2. SafeInv => BatchSafe BY DEF SafeInv
<1> QED BY <1>1, <1>2, NextSafe, PTL DEF Spec

\* Every step leaves nothing behind.
LEMMA NextLeak == Inv /\ NoEventLeak /\ [Next]_vars => NoEventLeak'
<1> SUFFICES ASSUME Inv, NoEventLeak, [Next]_vars PROVE NoEventLeak'
  OBVIOUS
<1> USE DEF kernelVars, objVars, loopVars
<1>0. TypeOK /\ TaskRegistered BY DEF Inv
<1>a. ASSUME lpc' \notin {"wait", "done"} PROVE NoEventLeak'
  BY <1>a DEF NoEventLeak
<1>1. CASE UNCHANGED vars BY <1>1 DEF vars, NoEventLeak, Alive
<1>2. CASE StartLoop
  BY <1>0, <1>2 DEF StartLoop, RegEdEvent, TaskRegistered, NoEventLeak, TypeOK
<1>3. CASE BatchEnd
  <2>1. evts' = CleanedUp(evts) /\ lpc' # "done" BY <1>3 DEF BatchEnd
  <2>2. \A e \in Evts : evts'[e].mem # "dummy"
    BY <1>0, <2>1, CleanedUpFrees DEF TypeOK
  <2> QED BY <2>1, <2>2 DEF NoEventLeak
<1>4. CASE LoopReturns
  <2>1. /\ Live' = Live \ {mEvt[Task]}
        /\ \A e \in Evts : e \notin Live' => evts'[e].mem = "free"
    BY <1>4, LoopReturnsEffect
  <2>2. ASSUME Alive', ~NDEBUG PROVE Live' = {}
    BY <1>4, <2>1, <2>2 DEF LoopReturns, Alive
  <2>3. lpc' = "done" BY <1>4 DEF LoopReturns
  <2> QED BY <2>1, <2>2, <2>3 DEF NoEventLeak
<1>5. CASE Ended BY <1>1, <1>5 DEF Ended
<1>6. CASE CallBack \/ CallbackReturns \/ NextEntry \/ CloseHandled \/ EpollWait \/ SetExitFlag
  BY <1>6, <1>a DEF CallBack, CallbackReturns, NextEntry, CloseHandled, EpollWait, SetExitFlag
<1>7. CASE \E o \in Objs : FreeReservedObj(o)
  BY <1>7, <1>a DEF FreeReservedObj
<1>8. CASE \E o \in Objs :
           \/ \E fd \in Fds : OpenSock(o, fd)
           \/ \E e \in Evts : RegisterEvent(o, e)
           \/ RegisterFails(o) \/ CloseSock(o) \/ ReserveFree(o)
  BY <1>8, <1>a DEF OpenSock, RegisterEvent, RegisterFails, CloseSock, ReserveFree, InHandler
<1> QED
  BY <1>1, <1>2, <1>3, <1>4, <1>5, <1>6, <1>7, <1>8 DEF Next, LoopStep, HandlerStep

\* What callbacks deregister is freed before the task sleeps again, and a build
\* with assertions ends the loop with nothing allocated or stops.
THEOREM NoEventLeakThm == Spec => []NoEventLeak
<1>1. Init => SafeInv /\ NoEventLeak
  BY InitInv DEF SafeInv, Init, BatchSafe, NoEventLeak
<1>2. SafeInv /\ NoEventLeak /\ [Next]_vars => (SafeInv /\ NoEventLeak)'
  BY NextSafe, NextLeak DEF SafeInv
<1> QED BY <1>1, <1>2, PTL DEF Spec

\* evtcb is called only of an object that holds the registration, and with it the
\* descriptor, that the entry was reported for.
THEOREM CallbackLiveThm == Spec => CallbackLive
<1> DEFINE A == lpc = "entry" /\ lpc' = "cb" =>
                    LET e == Head(batch).evt
                    IN  mEvt[evts[e].user] = e /\ mFd[evts[e].user] = evts[e].fd
<1>1. Inv /\ [Next]_vars => [A]_vars
  <2> SUFFICES ASSUME Inv, Next, lpc = "entry", lpc' = "cb"
               PROVE  LET e == Head(batch).evt
                      IN  mEvt[evts[e].user] = e /\ mFd[evts[e].user] = evts[e].fd
    OBVIOUS
  <2> USE DEF kernelVars, objVars, loopVars
  <2>1. CallBack
    BY DEF Next, LoopStep, HandlerStep, StartLoop, CallbackReturns, NextEntry, BatchEnd,
           CloseHandled, LoopReturns, FreeReservedObj, OpenSock, RegisterEvent, RegisterFails,
           CloseSock, ReserveFree, SetExitFlag, EpollWait, Ended, vars, InHandler
  <2> DEFINE e == Head(batch).evt
  <2>2. e \in Live /\ evts[e].user \in Users /\ evts[e] \in Edevt
    <3>1. batch \in Seq(Entry) /\ batch # <<>> /\ Callable(Head(batch))
      BY <2>1 DEF CallBack, Inv, TypeOK
    <3>2. Head(batch) \in Entry
      BY <3>1
    <3> QED BY <3>1, <3>2 DEF Callable, Entry, Live, Inv, TypeOK, Edevt
  <2>3. mEvt[evts[e].user] = e
    BY <2>2 DEF Inv, RegistrationsAgree
  <2>4. e # NoEvt
    BY <2>2, EvtsAssumption DEF Live
  <2>5. mFd[evts[e].user] = evts[e].fd
    <3>1. CASE evts[e].user = Task
      BY <2>3, <3>1 DEF Inv, TaskRegistered
    <3>2. CASE evts[e].user \in Objs
      BY <2>3, <2>4, <3>2 DEF Inv, RegistrationsAgree
    <3> QED BY <2>2, <3>1, <3>2 DEF Users
  <2> QED BY <2>3, <2>5
<1>2. Init => Inv BY InitInv
<1> QED BY <1>1, <1>2, NextInv, PTL DEF Spec, CallbackLive
=============================================================================
