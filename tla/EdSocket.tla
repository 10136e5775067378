------------------------------ MODULE EdSocket ------------------------------
(***************************************************************************)
(* Stream sockets of a task (src/ednio/EdSocket.cpp): opening, listening,  *)
(* accepting, connecting, receiving, and how the end of a connection       *)
(* reaches the program.                                                    *)
(*                                                                         *)
(* A socket learns that its peer has gone in two ways, which may both be   *)
(* on their way: recv finds nothing more to read and sets lastSockErrorNo, *)
(* a variable of the whole task that OnEventRead looks at after OnRead     *)
(* returns; or epoll reports a hangup.  Between the two the program's      *)
(* handlers run, and may close and reopen any socket.                      *)
(*                                                                         *)
(* Registrations and batches are those of EdEventLoop, of which two facts  *)
(* are used: a socket that was closed is not called for what was reported  *)
(* before (CallbackLive), and every registration epoll has is the socket's *)
(* current one (RegistrationsAgree).  The program's handlers (mLis or the  *)
(* overridden methods) are the calls a callback makes.                     *)
(***************************************************************************)
EXTENDS Naturals, Sequences, FiniteSets

CONSTANTS
    Listeners,        \* the sockets that are bound and listen
    Clients,          \* the sockets that connect, or are opened by accept
    UnixClients,      \* the clients of type SOCK_TYPE_UNIXSTREAM
    NoSock,           \* any other object of the task: a timer, the message queue
    MaxIn,            \* bound on unread data, and on the backlog of a listener
    MAX_GET_EVENTS,
    CrossCalls        \* TRUE: a handler also receives from or closes other sockets

Socks == Listeners \cup Clients

ASSUME RolesAssumption == Listeners \cap Clients = {} /\ UnixClients \subseteq Clients
ASSUME NoSockAssumption == NoSock \notin Socks
ASSUME MaxInAssumption == MaxIn \in Nat \ {0}
ASSUME BatchAssumption == MAX_GET_EVENTS \in Nat \ {0}
ASSUME CrossCallsAssumption == CrossCalls \in BOOLEAN

VARIABLES
    sock,              \* the sockets and what the kernel has for them
    lastSockErrorNo,   \* of the task
    batch,             \* what is left of the events epoll_wait returned
    cb,                \* the running handler
    told               \* sockets whose program was told the connection ended

vars == <<sock, lastSockErrorNo, batch, cb, told>>

FlagSet == {"READ", "HANGUP", "WRITE"}

(***************************************************************************)
(* The state of a descriptor: none (mFd is -1), fresh (neither connected   *)
(* nor listening), listen, connecting, up, fin (the peer sends no more),   *)
(* err (reset or refused, SO_ERROR not read yet), dead (the same, read).   *)
(***************************************************************************)
Descriptor == {"none", "fresh", "listen", "connecting", "up", "fin", "err", "dead"}
Over == {"fin", "err", "dead"}

\* mask is empty when the socket is not registered.  inq is what can be read
\* or, of a listener, accepted.
SockRec == [kst : Descriptor, inq : 0..MaxIn,
            mStatus : {"DISCONNECTED", "CONNECTING", "CONNECTED"},
            mIsListen : BOOLEAN, mIsBinded : BOOLEAN, mask : SUBSET FlagSet]

\* "read": OnRead, "readDisc": OnDisconnected after it, "disc": OnDisconnected
\* after a hangup, "other": a timer, a message, another object.
Handlers == {"none", "other", "read", "readDisc", "disc", "conn", "write", "incoming"}
Idle == [h |-> "none", s |-> NoSock]

TypeOK ==
    /\ sock \in [Socks -> SockRec]
    /\ lastSockErrorNo \in {"0", "EBADFD"}
    /\ batch \in Seq([s : Socks \cup {NoSock}, flags : SUBSET FlagSet])
    /\ Len(batch) <= MAX_GET_EVENTS
    /\ cb \in [h : Handlers, s : Socks \cup {NoSock}]
    /\ told \subseteq Socks

\* clearInternal
Cleared == [kst |-> "none", inq |-> 0, mStatus |-> "DISCONNECTED",
            mIsListen |-> FALSE, mIsBinded |-> FALSE, mask |-> {}]

Init ==
    /\ sock = [s \in Socks |-> Cleared]
    /\ lastSockErrorNo = "0"
    /\ batch = <<>> /\ cb = Idle /\ told = {}

Open(s) == sock[s].kst # "none"

-----------------------------------------------------------------------------
(***************************************************************************)
(* The peers and the kernel.                                               *)
(***************************************************************************)

Peer(s, from, to) ==
    /\ sock[s].kst \in from
    /\ sock' = [sock EXCEPT ![s].kst = to]
    /\ UNCHANGED <<lastSockErrorNo, batch, cb, told>>

Established(s) == Peer(s, {"connecting"}, "up")
Refused(s)     == Peer(s, {"connecting"}, "err")
PeerCloses(s)  == Peer(s, {"up"}, "fin")
PeerResets(s)  == Peer(s, {"up", "fin"}, "err")

\* Data for a connection, or a connection for a listener.
Arrives(s) ==
    /\ sock[s].kst \in {"up", "listen"} /\ sock[s].inq < MaxIn
    /\ sock' = [sock EXCEPT ![s].inq = @ + 1]
    /\ UNCHANGED <<lastSockErrorNo, batch, cb, told>>

\* What epoll reports of an object that is registered.  EPOLLHUP and EPOLLERR come
\* whether asked for or not, and esMain takes them for EVT_HANGUP.
Reported(s) ==
    IF s = NoSock THEN {"READ"} ELSE
    LET r == sock[s] IN
    {f \in r.mask :
        \/ f = "READ"   /\ (r.inq > 0 \/ r.kst \in Over)
        \/ f = "WRITE"  /\ r.kst \in Over \cup {"fresh", "up"}
        \/ f = "HANGUP" /\ r.kst \in Over}
    \cup (IF r.mask # {} /\ r.kst \in {"fresh", "err", "dead"} THEN {"HANGUP"} ELSE {})

Ready == {s \in Socks \cup {NoSock} : Reported(s) # {}}

-----------------------------------------------------------------------------
(***************************************************************************)
(* Calls a handler makes.                                                  *)
(***************************************************************************)

InHandler == cb.h # "none"

\* Unless CrossCalls, a handler receives only from its own socket, in OnRead,
\* and OnRead and the OnDisconnected after it close no other socket.
MayRecv(s) == CrossCalls \/ cb = [h |-> "read", s |-> s]
MayClose(s) == CrossCalls \/ cb.s = s \/ cb.h \notin {"read", "readDisc"}

\* openSock.
OpenSock(s) ==
    /\ InHandler /\ ~Open(s)
    /\ sock' = [sock EXCEPT ![s].kst = "fresh"]
    /\ told' = told \ {s}
    /\ UNCHANGED <<lastSockErrorNo, batch, cb>>

\* registerEvent does nothing for a socket that is registered.
RegisterEvent(r, flags) == IF r.mask = {} THEN [r EXCEPT !.mask = flags] ELSE r

\* Mutation of Connecting: registered as the branch for Unix sockets does.
Connecting_Read(r, kst) ==
    [RegisterEvent([r EXCEPT !.kst = kst], {"READ", "HANGUP"}) EXCEPT !.mStatus = "CONNECTING"]

Connecting(r, kst) ==
    [RegisterEvent([r EXCEPT !.kst = kst], {"WRITE", "HANGUP"}) EXCEPT !.mStatus = "CONNECTING"]

\* connect to an IP address, opening the socket if needed.  ::connect is in
\* progress, or fails at once and leaves the descriptor as it was; the status is
\* CONNECTING in both cases.
Connect(s) ==
    /\ InHandler /\ s \in Clients \ UnixClients /\ sock[s].mStatus = "DISCONNECTED"
    /\ \E kst \in {"connecting", "fresh"} :
           sock' = [sock EXCEPT ![s] = Connecting(@, kst)]
    /\ told' = IF Open(s) THEN told ELSE told \ {s}
    /\ UNCHANGED <<lastSockErrorNo, batch, cb>>

\* connect of a Unix socket that succeeds, which it does at once.  One that fails
\* changes nothing.
ConnectUnix(s) ==
    /\ InHandler /\ s \in UnixClients /\ sock[s].kst = "fresh"
    /\ sock[s].mStatus = "DISCONNECTED"
    /\ sock' = [sock EXCEPT ![s] = [RegisterEvent(@, {"READ", "HANGUP"}) EXCEPT
                                        !.kst = "up", !.mStatus = "CONNECTED"]]
    /\ UNCHANGED <<lastSockErrorNo, batch, cb, told>>

Bound(r) == RegisterEvent([r EXCEPT !.kst = "fresh", !.mIsBinded = TRUE], {"READ"})

\* bindSock, opening the socket if needed.  (One that fails is OpenSock.)
BindSock(s) ==
    /\ InHandler /\ s \in Listeners /\ sock[s].kst \in {"none", "fresh"}
    /\ ~sock[s].mIsBinded
    /\ sock' = [sock EXCEPT ![s] = Bound(@)]
    /\ told' = IF Open(s) THEN told ELSE told \ {s}
    /\ UNCHANGED <<lastSockErrorNo, batch, cb>>

\* listenSock: binds unless bound, listens.  When bind fails, mIsListen stays set.
ListenSock(s) ==
    /\ InHandler /\ s \in Listeners /\ sock[s].kst \in {"none", "fresh"}
    /\ LET r == [sock[s] EXCEPT !.mIsListen = TRUE]
       IN  \/ sock' = [sock EXCEPT ![s] = [Bound(r) EXCEPT !.kst = "listen"]]
           \/ ~r.mIsBinded /\ sock' = [sock EXCEPT ![s] = [r EXCEPT !.kst = "fresh"]]
    /\ told' = IF Open(s) THEN told ELSE told \ {s}
    /\ UNCHANGED <<lastSockErrorNo, batch, cb>>

\* acceptSock with openChildSock of c, or accept followed by it.
AcceptSock(s, c) ==
    /\ InHandler /\ sock[s].kst = "listen" /\ sock[s].inq > 0
    /\ c \in Clients /\ ~Open(c)
    /\ sock' = [sock EXCEPT
                    ![s].inq = @ - 1,
                    ![c] = [RegisterEvent(@, {"READ", "HANGUP"}) EXCEPT
                                !.kst = "up", !.mStatus = "CONNECTED"]]
    /\ told' = told \ {c}
    /\ UNCHANGED <<lastSockErrorNo, batch, cb>>

\* rejectSock.
RejectSock(s) ==
    /\ InHandler /\ sock[s].kst = "listen" /\ sock[s].inq > 0
    /\ sock' = [sock EXCEPT ![s].inq = @ - 1]
    /\ UNCHANGED <<lastSockErrorNo, batch, cb, told>>

\* Mutation of ReadNothing: EAGAIN, for which read returns -1, is taken for the end.
ReadNothing_OrAgain(s) == sock[s].inq = 0 /\ sock[s].kst \in {"up", "fin", "dead"}

\* read returns 0.
ReadNothing(s) == sock[s].inq = 0 /\ sock[s].kst \in {"fin", "dead"}

\* recv: takes what is there or a part of it; or fails with the error that is
\* pending; or finds the end.
Recv(s) ==
    /\ InHandler /\ Open(s) /\ MayRecv(s)
    /\ \/ \E n \in 1..sock[s].inq : sock' = [sock EXCEPT ![s].inq = @ - n]
       \/ sock[s].inq = 0 /\ sock' = [sock EXCEPT ![s].kst = IF @ = "err" THEN "dead" ELSE @]
    /\ lastSockErrorNo' = IF ReadNothing(s) THEN "EBADFD" ELSE lastSockErrorNo
    /\ UNCHANGED <<batch, cb, told>>

\* Mutation of Closed: the status is kept.
Closed_KeepsStatus(r) ==
    [r EXCEPT !.kst = "none", !.inq = 0, !.mask = {}, !.mIsBinded = FALSE]

\* close of an open socket; mIsListen is kept.
Closed(r) ==
    [r EXCEPT !.kst = "none", !.inq = 0, !.mask = {}, !.mIsBinded = FALSE,
              !.mStatus = "DISCONNECTED"]

\* Mutation of Close: lastSockErrorNo is not reset.
Close_KeepsError(s) ==
    /\ sock' = [sock EXCEPT ![s] = Closed(@)]
    /\ batch' = [i \in DOMAIN batch |->
                    IF batch[i].s = s THEN [batch[i] EXCEPT !.flags = {}] ELSE batch[i]]
    /\ UNCHANGED lastSockErrorNo

Close(s) ==
    /\ sock' = [sock EXCEPT ![s] = Closed(@)]
    /\ batch' = [i \in DOMAIN batch |->
                    IF batch[i].s = s THEN [batch[i] EXCEPT !.flags = {}] ELSE batch[i]]
    /\ lastSockErrorNo' = "0"

CloseSock(s) ==
    /\ InHandler /\ Open(s) /\ MayClose(s)
    /\ Close(s)
    /\ UNCHANGED <<cb, told>>

-----------------------------------------------------------------------------
(***************************************************************************)
(* The loop and the handlers of EdSocket.                                  *)
(***************************************************************************)

BatchSizes == 1..MAX_GET_EVENTS

\* epoll_wait returns the state of some ready objects, in any order.
EpollWait ==
    /\ cb = Idle /\ batch = <<>>
    /\ \E n \in BatchSizes : \E o \in [1..n -> Ready] :
           /\ \A i, j \in 1..n : o[i] = o[j] => i = j
           /\ batch' = [i \in 1..n |-> [s |-> o[i], flags |-> Reported(o[i])]]
    /\ UNCHANGED <<sock, lastSockErrorNo, cb, told>>

\* esMain tests the flags of an entry in this order.
Due(s, flag) ==
    /\ cb = Idle /\ batch # <<>> /\ Head(batch).s = s /\ flag \in Head(batch).flags
    /\ flag # "READ"  => "READ" \notin Head(batch).flags
    /\ flag = "WRITE" => "HANGUP" \notin Head(batch).flags

Consume(flag) == batch' = [batch EXCEPT ![1].flags = @ \ {flag}]

NextEntry ==
    /\ cb = Idle /\ batch # <<>> /\ Head(batch).flags = {}
    /\ batch' = Tail(batch)
    /\ UNCHANGED <<sock, lastSockErrorNo, cb, told>>

\* OnEventRead up to the call of OnRead or OnIncomingConnection.
OnEventRead(s) ==
    /\ Due(s, "READ")
    /\ Consume("READ")
    /\ cb' = [h |-> IF sock[s].mIsListen THEN "incoming" ELSE "read", s |-> s]
    /\ UNCHANGED <<sock, lastSockErrorNo, told>>

\* OnRead has returned.
OnReadReturns ==
    /\ cb.h = "read"
    /\ IF lastSockErrorNo = "0"
       THEN cb' = Idle /\ UNCHANGED told
       ELSE cb' = [cb EXCEPT !.h = "readDisc"] /\ told' = told \cup {cb.s}
    /\ UNCHANGED <<sock, lastSockErrorNo, batch>>

\* The OnDisconnected called by OnEventRead has returned: the socket is closed
\* unless the program did it.
OnEventReadReturns ==
    /\ cb.h = "readDisc"
    /\ cb' = Idle
    /\ IF lastSockErrorNo # "0" /\ Open(cb.s)
       THEN Close(cb.s)
       ELSE UNCHANGED <<sock, lastSockErrorNo, batch>>
    /\ UNCHANGED told

\* Mutation of OnEventHangup: the program is told but the socket not closed.
OnEventHangup_NoClose(s) ==
    /\ Due(s, "HANGUP")
    /\ Consume("HANGUP")
    /\ cb' = [h |-> "disc", s |-> s] /\ told' = told \cup {s}
    /\ UNCHANGED <<sock, lastSockErrorNo>>

OnEventHangup(s) ==
    /\ Due(s, "HANGUP")
    /\ Close(s)
    /\ cb' = [h |-> "disc", s |-> s] /\ told' = told \cup {s}

\* Mutation of Connected: hangups are not asked for.
Connected_NoHangup(r) == [r EXCEPT !.mStatus = "CONNECTED", !.mask = {"READ"}]

Connected(r) == [r EXCEPT !.mStatus = "CONNECTED", !.mask = {"READ", "HANGUP"}]

\* OnEventWrite: of a socket that is connecting, the connection is up, or failed
\* after epoll_wait had reported it.
OnEventWrite(s) ==
    /\ Due(s, "WRITE")
    /\ \/ /\ sock[s].mStatus = "CONNECTING" /\ sock[s].kst = "err"
          /\ Close(s)
          /\ cb' = [h |-> "disc", s |-> s] /\ told' = told \cup {s}
       \/ /\ sock[s].mStatus = "CONNECTING" /\ sock[s].kst # "err"
          /\ sock' = [sock EXCEPT ![s] = Connected(@)]
          /\ Consume("WRITE")
          /\ cb' = [h |-> "conn", s |-> s]
          /\ UNCHANGED <<lastSockErrorNo, told>>
       \/ /\ sock[s].mStatus # "CONNECTING"
          /\ Consume("WRITE")
          /\ cb' = [h |-> "write", s |-> s]
          /\ UNCHANGED <<sock, lastSockErrorNo, told>>

\* Another object's callback: a timer, a message.
OtherCallback ==
    /\ Due(NoSock, "READ")
    /\ Consume("READ")
    /\ cb' = [Idle EXCEPT !.h = "other"]
    /\ UNCHANGED <<sock, lastSockErrorNo, told>>

HandlerReturns ==
    /\ cb.h \in {"other", "disc", "conn", "write", "incoming"}
    /\ cb' = Idle
    /\ UNCHANGED <<sock, lastSockErrorNo, batch, told>>

LoopStep ==
    \/ NextEntry \/ OtherCallback \/ OnReadReturns \/ OnEventReadReturns \/ HandlerReturns
    \/ \E s \in Socks : OnEventRead(s) \/ OnEventHangup(s) \/ OnEventWrite(s)

Call(s) ==
    \/ OpenSock(s) \/ Connect(s) \/ ConnectUnix(s) \/ BindSock(s) \/ ListenSock(s)
    \/ \E c \in Clients : AcceptSock(s, c)
    \/ RejectSock(s) \/ Recv(s) \/ CloseSock(s)

PeerStep(s) ==
    Established(s) \/ Refused(s) \/ PeerCloses(s) \/ PeerResets(s) \/ Arrives(s)

Next ==
    \/ LoopStep \/ EpollWait
    \/ \E s \in Socks : Call(s) \/ PeerStep(s)

Spec == Init /\ [][Next]_vars

\* The thread runs and handlers return; epoll_wait rotates its list of ready
\* descriptors; an attempt to connect ends, if only by a timeout.
Fairness ==
    /\ WF_vars(LoopStep)
    /\ \A s \in Clients : SF_vars(EpollWait /\ \E i \in DOMAIN batch' : batch'[i].s = s)
    /\ \A s \in Clients : WF_vars(Established(s) \/ Refused(s))

FairSpec == Spec /\ Fairness

-----------------------------------------------------------------------------
(***************************************************************************)
(* Properties.                                                             *)
(***************************************************************************)

OnDisconnected(s) == cb' # cb /\ cb'.s = s /\ cb'.h \in {"readDisc", "disc"}

\* mStatus, which connect tests, agrees with the descriptor of a client, and the
\* registration with both: whatever was reported of a former descriptor, and
\* whether the end was found by recv or by a hangup.
StatusAgrees ==
    \A s \in Clients :
        LET r == sock[s] IN
        /\ r.mStatus = "DISCONNECTED" => r.kst \in {"none", "fresh"} /\ r.mask = {}
        /\ r.mStatus = "CONNECTING"   => r.kst # "none" /\ r.mask = {"WRITE", "HANGUP"}
        /\ r.mStatus = "CONNECTED"    => r.kst \in Over \cup {"up"} /\ r.mask = {"READ", "HANGUP"}

\* OnDisconnected is not called of a connection that is up or being made.
DisconnectTruthful ==
    [][ \A s \in Clients : OnDisconnected(s) => sock[s].kst \notin {"up", "connecting"} ]_vars

\* OnDisconnected is called once of a connection, though recv and a hangup of
\* the same batch entry both find its end.
DisconnectedOnce == [][ \A s \in Socks : OnDisconnected(s) => s \notin told ]_vars

\* What OnEventRead closes after OnDisconnected is the connection that ended,
\* not one the program has made in the handler.
ClosesWhatEnded ==
    [][ cb.h = "readDisc" /\ cb' = Idle /\ sock' # sock => cb.s \in told ]_vars

\* Of a connection that its peer closed, OnDisconnected is called when everything
\* was received ("ednio recognize the disconnection from read() return value").
DisconnectAfterData ==
    [][ \A s \in Clients : OnDisconnected(s) /\ sock[s].kst = "fin" => sock[s].inq = 0 ]_vars

\* connect is answered, by OnConnected or OnDisconnected, or the program closes
\* the socket.
ConnectAnswered ==
    \A s \in Clients : sock[s].mStatus = "CONNECTING" ~> sock[s].mStatus # "CONNECTING"

\* A connection that has ended is closed, even if the program never calls recv.
EndIsSeen == \A s \in Clients : sock[s].kst \in Over ~> sock[s].kst \notin Over
=============================================================================
