-------------------------------- MODULE EdSSL --------------------------------
(***************************************************************************)
(* TLS over an EdSocket, in its two forms: the SSL mode of EdSmartSocket   *)
(* (src/ednio/EdSmartSocket.cpp under USE_SSL), sslCls "smart", and        *)
(* EdSSLSocket (src/ednio/edssl/EdSSLSocket.cpp), sslCls "ssl".  A call of *)
(* OpenSSL is done, fails, or wants to read or to write first; the events  *)
(* of the socket are changed to what it wants, and the call is repeated    *)
(* when the event comes.                                                   *)
(*                                                                         *)
(* The EdSocket underneath is the one of EdSocket, reduced to the state of *)
(* its connection: "fin" and "reset" are ends that are not yet seen.  When *)
(* the program is told of the end it may call close or leave it to         *)
(* EdSocket, which then closes the descriptor only.                        *)
(*                                                                         *)
(* sslCause records what makes a connection stall, or be used without a    *)
(* handshake:                                                              *)
(*   "stale"     the socket is opened again without close: mSSL is kept    *)
(*   "recv"      recvPacket wants to read while a write is pending, so     *)
(*               that write events are no longer asked for                 *)
(*   "wantRead"  a write wants to read: read events do not repeat it       *)
(*   "wantWrite" write events were asked for and nothing asks for read     *)
(*               events again: OnWrite of EdSSLSocket is empty, and        *)
(*               procSSLOnWrite goes by mSSLWantEvent, which a handshake   *)
(*               or a read leaves behind                                   *)
(*   "failed"    SSL_write of the pending buffer fails for good on a       *)
(*               connection that is up: the buffer stays, the events stay  *)
(*               as they are, and the program is not told                  *)
(***************************************************************************)
EXTENDS Naturals, FiniteSets

CONSTANTS
    SslClasses,     \* which of "smart" and "ssl"
    MaxSslConns     \* bound on the connections opened one after the other

ASSUME SslClassesAssumption == SslClasses \subseteq {"smart", "ssl"}
ASSUME MaxSslConnsAssumption == MaxSslConns \in Nat

VARIABLES
    sslCls,
    tcp, sslMask,                \* the connection, and the events registered for
    mSSL, mSessionConencted,     \* mSSL: whether there is an SSL object
    mSSLWantEvent,
    sslPending,                  \* mPendingBuf # NULL
    sslTold,                     \* what the program was told of the connection
    sslCause, sslConns

sessVars == <<mSSL, mSessionConencted>>
sslVars ==
    <<sslCls, tcp, sslMask, sessVars, mSSLWantEvent, sslPending, sslTold, sslCause, sslConns>>

SslInit ==
    /\ sslCls \in SslClasses
    /\ tcp = "closed" /\ sslMask = {}
    /\ mSSL = FALSE /\ mSessionConencted = FALSE
    /\ mSSLWantEvent = "NONE" /\ sslPending = FALSE
    /\ sslTold = "nothing" /\ sslCause = {} /\ sslConns = 0

Smart == sslCls = "smart"
IsOver == tcp \in {"fin", "reset"}
Outcomes == {"done", "wantRead", "wantWrite", "fail"}

\* The program is told event ev, having been told before what told says; "wrong"
\* is an event that makes no sense then.
Told(told, ev) ==
    CASE ev = "connected" /\ told = "nothing" -> "connected"
      [] ev = "readable" /\ told = "connected" -> "connected"
      [] ev = "disconnected" /\ told \in {"nothing", "connected"} -> "disconnected"
      [] OTHER -> "wrong"

-----------------------------------------------------------------------------
(***************************************************************************)
(* Opening and closing.                                                    *)
(***************************************************************************)

Opened(state, flags, ssl) ==
    /\ tcp = "closed" /\ sslConns < MaxSslConns
    /\ tcp' = state /\ sslMask' = flags /\ mSSL' = ssl
    /\ sslTold' = "nothing" /\ sslConns' = sslConns + 1
    /\ sslCause' = IF mSSL THEN {"stale"} ELSE {}
    /\ UNCHANGED <<sslCls, mSessionConencted, mSSLWantEvent, sslPending>>

\* openSSLClientSock; what is left of the connection before is kept.
OpenSSLClientSock == Opened("open", {}, mSSL)

\* openSSLChildSock: a new SSL object.
OpenSSLChildSock == Opened("up", {"READ", "HANGUP"}, TRUE)

\* EdSocket::connect.
SslConnect ==
    /\ tcp = "open"
    /\ tcp' = "connecting" /\ sslMask' = {"WRITE", "HANGUP"}
    /\ UNCHANGED <<sslCls, sessVars, mSSLWantEvent, sslPending, sslTold, sslCause, sslConns>>

\* The descriptor is closed; close of the class (full) also drops the SSL object
\* and the pending buffer, but not mSSLWantEvent.
Closed(full) ==
    /\ tcp' = "closed" /\ sslMask' = {}
    /\ IF full
       THEN mSSL' = FALSE /\ mSessionConencted' = FALSE /\ sslPending' = FALSE
       ELSE UNCHANGED <<sessVars, sslPending>>

SslClose ==
    /\ tcp # "closed" \/ mSSL
    /\ Closed(TRUE)
    /\ UNCHANGED <<sslCls, mSSLWantEvent, sslTold, sslCause, sslConns>>

-----------------------------------------------------------------------------
(***************************************************************************)
(* The handshake.                                                          *)
(***************************************************************************)

\* Mutation of WantMask: the events of the other direction.
WantMask_Swapped(o) ==
    LET dir == IF o = "wantWrite" THEN "READ" ELSE "WRITE" IN
    IF Smart THEN {dir, "HANGUP"} ELSE {dir}

\* changeSSLSockEvent: the events asked for.
WantMask(o) ==
    LET dir == IF o = "wantWrite" THEN "WRITE" ELSE "READ" IN
    IF Smart THEN {dir, "HANGUP"} ELSE {dir}

WantEvent(o) == IF o = "wantWrite" THEN "WRITE" ELSE "READ"

\* Mutation of ToldOfFailure: lastSockErrorNo stays set, so that OnEventRead
\* tells the end again.
ToldOfFailure_Twice == Told(Told(sslTold, "disconnected"), "disconnected")

\* procSSLErrCloseNeedEnd: close resets lastSockErrorNo, also when the program
\* calls it in the callback.
ToldOfFailure == Told(sslTold, "disconnected")

\* procSSLConnect, with the mask the socket has then.
ProcSSLConnect(o, flags) ==
    /\ \/ /\ o = "done" /\ tcp # "reset"
          /\ mSessionConencted' = TRUE /\ sslTold' = Told(sslTold, "connected")
          /\ tcp' = (IF tcp = "connecting" THEN "up" ELSE tcp) /\ sslMask' = flags
          /\ sslCause' = IF mSSLWantEvent = "WRITE" /\ "READ" \notin flags
                         THEN sslCause \cup {"wantWrite"} ELSE sslCause
          /\ mSSL' = TRUE /\ UNCHANGED <<mSSLWantEvent, sslPending>>
       \/ /\ o = "fail"
          /\ Closed(TRUE) /\ sslTold' = ToldOfFailure
          /\ UNCHANGED <<mSSLWantEvent, sslCause>>
       \/ /\ o \in {"wantRead", "wantWrite"} /\ ~IsOver
          /\ tcp' = "up" /\ sslMask' = WantMask(o) /\ mSSL' = TRUE
          /\ mSSLWantEvent' = IF Smart THEN WantEvent(o) ELSE mSSLWantEvent
          /\ sslCause' = IF ~Smart /\ o = "wantWrite" THEN sslCause \cup {"wantWrite"} ELSE sslCause
          /\ UNCHANGED <<mSessionConencted, sslPending, sslTold>>
    /\ UNCHANGED <<sslCls, sslConns>>

\* EdSocket is connected: startHandshake, unless there is an SSL object already.
TcpConnected(o) ==
    /\ tcp = "connecting"
    /\ IF ~mSSL /\ ~mSessionConencted
       THEN ProcSSLConnect(o, {"READ", "HANGUP"})
       ELSE /\ tcp' = "up" /\ sslMask' = {"READ", "HANGUP"}
            /\ UNCHANGED <<sslCls, sessVars, mSSLWantEvent, sslPending, sslTold, sslCause, sslConns>>

\* sslAccept, called by the program.
SslAccept(o) ==
    /\ tcp \in {"up", "fin", "reset"} /\ mSSL /\ ~mSessionConencted
    /\ ProcSSLConnect(o, sslMask)

-----------------------------------------------------------------------------
(***************************************************************************)
(* The end of the connection.                                              *)
(***************************************************************************)

PeerEnds ==
    /\ tcp = "up" /\ tcp' \in {"fin", "reset"}
    /\ UNCHANGED <<sslCls, sslMask, sessVars, mSSLWantEvent, sslPending, sslTold, sslCause, sslConns>>

\* OnDisconnected, the descriptor being closed: fireDisconnected tells of it only
\* if there was a session, EdSSLSocket closes itself and tells of it always.
SslDisconnected(told) ==
    /\ Closed(~Smart)
    /\ sslTold' = IF Smart /\ ~mSessionConencted THEN told ELSE Told(told, "disconnected")
    /\ UNCHANGED <<sslCls, sslCause, sslConns>>

\* OnEventHangup (EPOLLRDHUP if asked for, EPOLLHUP always), or a failed connect.
SslHangup ==
    /\ (IsOver /\ ("HANGUP" \in sslMask \/ tcp = "reset")) \/ tcp = "connecting"
    /\ SslDisconnected(sslTold)
    /\ UNCHANGED mSSLWantEvent

-----------------------------------------------------------------------------
(***************************************************************************)
(* Reading and writing.                                                    *)
(***************************************************************************)

SslReadEvent == tcp \in {"up", "fin", "reset"} /\ "READ" \in sslMask
SslWriteEvent == tcp \in {"up", "fin", "reset"} /\ "WRITE" \in sslMask

\* A read event before the end of the handshake.
OnReadHandshake(o) ==
    /\ SslReadEvent /\ mSSL /\ ~mSessionConencted
    /\ ProcSSLConnect(o, sslMask)

\* A read event of a session: the program is told, and calls recvPacket (recv of
\* EdSSLSocket), which returns data, wants an event first, or fails without a
\* sign.
OnReadSession(o) ==
    /\ SslReadEvent /\ mSessionConencted
    /\ sslTold' = Told(sslTold, "readable")
    /\ IF o \in {"wantRead", "wantWrite"}
       THEN /\ sslMask' = WantMask(o)
            /\ mSSLWantEvent' = IF Smart THEN WantEvent(o) ELSE mSSLWantEvent
            /\ sslCause' = sslCause \cup (IF sslPending /\ o = "wantRead" THEN {"recv"} ELSE {})
                                    \cup (IF o = "wantWrite" THEN {"wantWrite"} ELSE {})
       ELSE /\ mSSLWantEvent' = IF Smart THEN "NONE" ELSE mSSLWantEvent
            /\ UNCHANGED <<sslMask, sslCause>>
    /\ UNCHANGED <<sslCls, tcp, sessVars, sslPending, sslConns>>

\* recvPacket returns 0: lastSockErrorNo is set, OnEventRead tells of the end and
\* closes the descriptor if the program did not call close.
OnReadEnd ==
    /\ SslReadEvent /\ mSessionConencted
    /\ SslDisconnected(Told(sslTold, "readable"))
    /\ mSSLWantEvent' = IF Smart THEN "NONE" ELSE mSSLWantEvent

\* SSL_write of the pending buffer, from sendPacket or procSSLOnWrite: all of it,
\* or none.  After an error that is not a want (fail) the buffer is kept, whatever
\* the state of the connection, and changeSSLSockEvent changes no event.
WritePending(o) ==
    IF o \in {"wantRead", "wantWrite"}
    THEN /\ sslPending' = TRUE /\ sslMask' = WantMask(o) /\ mSSLWantEvent' = WantEvent(o)
         /\ sslCause' = IF o = "wantRead" THEN sslCause \cup {"wantRead"} ELSE sslCause
    ELSE /\ sslPending' = (o = "fail") /\ mSSLWantEvent' = "NONE"
         /\ sslMask' = IF o = "done" /\ sslPending THEN {"READ", "HANGUP"} ELSE sslMask
         /\ sslCause' = IF o = "fail" /\ ~IsOver THEN sslCause \cup {"failed"} ELSE sslCause

\* sendPacket in SSL mode; with a pending buffer it returns SEND_FAIL.
SendPacketSSL(o) ==
    /\ Smart /\ mSessionConencted /\ tcp # "closed" /\ ~sslPending
    /\ WritePending(o)
    /\ UNCHANGED <<sslCls, tcp, sessVars, sslTold, sslConns>>

\* send of EdSSLSocket keeps nothing.
SslSend(o) ==
    /\ ~Smart /\ mSessionConencted /\ o # "done"
    /\ sslMask' = IF o = "fail" THEN sslMask ELSE WantMask(o)
    /\ sslCause' = IF o = "wantWrite" THEN sslCause \cup {"wantWrite"} ELSE sslCause
    /\ UNCHANGED <<sslCls, tcp, sessVars, mSSLWantEvent, sslPending, sslTold, sslConns>>

\* reserveWrite.
SslReserveWrite ==
    /\ Smart /\ mSessionConencted /\ tcp = "up"
    /\ sslMask' = {"READ", "WRITE", "HANGUP"}
    /\ UNCHANGED <<sslCls, tcp, sessVars, mSSLWantEvent, sslPending, sslTold, sslCause, sslConns>>

\* Mutation of OnWriteHandshakes: as in EdSSLSocket.
OnWriteHandshakes_Never == FALSE

\* procSSLOnWrite goes on with the handshake, OnWrite of EdSSLSocket is empty.
OnWriteHandshakes == Smart

OnWriteHandshake(o) ==
    /\ SslWriteEvent /\ OnWriteHandshakes /\ mSSL /\ ~mSessionConencted
    /\ ProcSSLConnect(o, sslMask)

\* procSSLOnWrite of a session.
OnWriteSession(o) ==
    /\ SslWriteEvent /\ Smart /\ mSessionConencted
    /\ IF sslPending
       THEN WritePending(o)
       ELSE /\ sslMask' = IF mSSLWantEvent # "WRITE" THEN {"READ", "HANGUP"} ELSE sslMask
            /\ UNCHANGED <<sslPending, mSSLWantEvent, sslCause>>
    /\ UNCHANGED <<sslCls, tcp, sessVars, sslTold, sslConns>>

SslDone == tcp = "closed" /\ sslConns = MaxSslConns /\ UNCHANGED sslVars

SslNext ==
    \/ OpenSSLClientSock \/ OpenSSLChildSock \/ SslConnect \/ SslClose
    \/ PeerEnds \/ SslHangup \/ OnReadEnd \/ SslReserveWrite \/ SslDone
    \/ \E o \in Outcomes :
           \/ TcpConnected(o) \/ SslAccept(o) \/ OnReadHandshake(o) \/ OnReadSession(o)
           \/ SendPacketSSL(o) \/ SslSend(o) \/ OnWriteHandshake(o) \/ OnWriteSession(o)

\* The peer goes on with the handshake until it is done or has failed, and takes
\* what is written, unless a write has failed for good; ends are seen.
SslFairness ==
    /\ SF_sslVars(\E o \in {"done", "fail"} : OnReadHandshake(o) \/ OnWriteHandshake(o))
    /\ SF_sslVars("failed" \notin sslCause /\ \E o \in {"done", "fail"} : OnWriteSession(o))
    /\ WF_sslVars(SslHangup)

SslSpec == SslInit /\ [][SslNext]_sslVars /\ SslFairness

-----------------------------------------------------------------------------
(***************************************************************************)
(* Properties.                                                             *)
(***************************************************************************)

\* On a connection that was not opened over an old SSL object the program is
\* told NETEV_CONNECTED once and before NETEV_READABLE, and of the end at most
\* once and last, by whichever of the handshake, the read that returns 0 and
\* the hangup comes first.
SslToldInOrder == "stale" \notin sslCause => sslTold # "wrong"

\* A pending write of a session waits for write events, but for "recv",
\* "wantRead" and "failed": then it stays, and sendPacket fails for ever.
SslPendingArmed ==
    sslPending /\ tcp = "up" /\ sslCause \cap {"stale", "recv", "wantRead", "failed"} = {} =>
        "WRITE" \in sslMask

\* A handshake comes to a session or to the end of the connection, and while the
\* session lasts the socket comes back to waiting for data, unless "wantWrite"
\* or another cause prevents it.
SslProgress ==
    mSSL /\ tcp = "up" ~>
        \/ mSessionConencted /\ "READ" \in sslMask
        \/ tcp = "closed"
        \/ sslCause # {}
=============================================================================
