---------------------------- MODULE EdSmartSocket ----------------------------
(***************************************************************************)
(* A stream socket with a pending write (src/ednio/EdSmartSocket.cpp, mode *)
(* SOCKET_NORMAL).  sendPacket writes at once what the kernel takes, keeps *)
(* the rest in mPendingBuf, asks for write events, and refuses packets     *)
(* until procNormalOnWrite has written the rest.                           *)
(*                                                                         *)
(* The EdSocket underneath is reduced to the state of its connection and   *)
(* the events it is registered for.  The listener is called last in every  *)
(* handler of this class, so that what it does are steps of their own.     *)
(***************************************************************************)
EXTENDS Naturals, Sequences, FiniteSets

CONSTANTS
    Sizes,          \* sizes of packets
    TakeModes,      \* values of takebuffer
    MaxBytes,       \* bound on the bytes sent on a connection
    MaxConns,       \* bound on the connections opened one after the other
    ClosesAtEnd     \* TRUE: the program calls close when it is told NETEV_DISCONNECTED

ASSUME SizesAssumption == Sizes \subseteq Nat \ {0}
ASSUME TakeModesAssumption == TakeModes \subseteq BOOLEAN
ASSUME MaxBytesAssumption == MaxBytes \in Nat
ASSUME MaxConnsAssumption == MaxConns \in Nat \ {0}
ASSUME ClosesAtEndAssumption == ClosesAtEnd \in BOOLEAN

VARIABLES
    conn,               \* the connection of mSock
    mask,               \* the events mSock is registered for
    mPendingBuf, mPendingSize, mPendingWriteCnt,
    conns,              \* connections opened so far
    sent, wire          \* bytes accepted, and taken by the kernel

pendVars == <<mPendingBuf, mPendingSize, mPendingWriteCnt>>
streamVars == <<conns, sent, wire>>
vars == <<conn, mask, pendVars, streamVars>>

NULL == <<>>
EVT_ALL == {"READ", "WRITE", "HANGUP"}

\* A byte is named by its connection and its place in it.
Bytes == (1..MaxConns) \X (1..MaxBytes)
NextBytes(n) == [i \in 1..n |-> <<conns, Len(sent) + i>>]

TypeOK ==
    /\ conn \in {"closed", "open", "connecting", "up", "over"}
    /\ mask \subseteq EVT_ALL
    /\ mPendingBuf \in Seq(Bytes)
    /\ mPendingSize \in Nat /\ mPendingWriteCnt \in 0..mPendingSize
    /\ mPendingBuf # NULL => Len(mPendingBuf) = mPendingSize
    /\ conns \in 0..MaxConns
    /\ sent \in Seq(Bytes) /\ Len(sent) <= MaxBytes /\ wire \in Seq(Bytes)

Init ==
    /\ conn = "closed" /\ mask = {}
    /\ mPendingBuf = NULL /\ mPendingSize = 0 /\ mPendingWriteCnt = 0
    /\ conns = 0 /\ sent = <<>> /\ wire = <<>>

-----------------------------------------------------------------------------
(***************************************************************************)
(* The connection.                                                         *)
(***************************************************************************)

NewConn(state, flags) ==
    /\ conn = "closed" /\ conns < MaxConns
    /\ conn' = state /\ mask' = flags
    /\ conns' = conns + 1 /\ sent' = <<>> /\ wire' = <<>>
    /\ UNCHANGED pendVars

\* openClient; it does not look at mPendingBuf.
OpenClient == NewConn("open", {})

\* openChild.
OpenChild == NewConn("up", {"READ", "HANGUP"})

\* connect of a socket that is open.
Connect ==
    /\ conn = "open"
    /\ conn' = "connecting" /\ mask' = {"WRITE", "HANGUP"}
    /\ UNCHANGED <<pendVars, streamVars>>

\* EdSocket::OnEventWrite: the connection is up; fireConnected.
Connected ==
    /\ conn = "connecting"
    /\ conn' = "up" /\ mask' = {"READ", "HANGUP"}
    /\ UNCHANGED <<pendVars, streamVars>>

\* The attempt fails, or the peer or the network ends the connection.
Ends ==
    /\ conn \in {"connecting", "up"}
    /\ conn' = "over"
    /\ UNCHANGED <<mask, pendVars, streamVars>>

\* Mutation of FreePending: the buffer is freed but the pointer kept.
FreePending_Keeps == UNCHANGED pendVars

\* close frees mPendingBuf; the counters keep their values.
FreePending ==
    /\ mPendingBuf' = NULL
    /\ UNCHANGED <<mPendingSize, mPendingWriteCnt>>

\* close.
Close ==
    /\ conn \in {"open", "connecting", "up", "over"}
    /\ conn' = "closed" /\ mask' = {}
    /\ FreePending
    /\ UNCHANGED streamVars

\* EdSocket closes the descriptor and calls fireDisconnected, which keeps
\* mPendingBuf; the program may call close, and does so if ClosesAtEnd.
FireDisconnected ==
    /\ conn = "over"
    /\ conn' = "closed" /\ mask' = {}
    /\ FreePending \/ (~ClosesAtEnd /\ UNCHANGED pendVars)
    /\ UNCHANGED streamVars

-----------------------------------------------------------------------------
(***************************************************************************)
(* Writing.                                                                *)
(***************************************************************************)

\* write takes some of the bytes, none of them if the send buffer is full
\* (EAGAIN), and on a connection that is over it fails.
Taken(n) == IF conn = "up" THEN 0..n ELSE {0}

\* Mutation of KeepCopy: the copy starts at the first byte of the packet.
KeepCopy_FromStart(buf, wret) ==
    /\ mPendingSize' = Len(buf) - wret
    /\ mPendingBuf' = SubSeq(buf, 1, Len(buf) - wret)
    /\ mPendingWriteCnt' = 0

\* What was not written is copied.
KeepCopy(buf, wret) ==
    /\ mPendingSize' = Len(buf) - wret
    /\ mPendingBuf' = SubSeq(buf, wret + 1, Len(buf))
    /\ mPendingWriteCnt' = 0

\* With takebuffer the caller's buffer is kept.
KeepTaken(buf, wret) ==
    /\ mPendingSize' = Len(buf)
    /\ mPendingBuf' = buf
    /\ mPendingWriteCnt' = Len(buf) - wret

\* Mutation of Arm: write events are not asked for.
Arm_Not == UNCHANGED mask

\* changeEvent after a partial write.
Arm == mask' = EVT_ALL

\* sendPacket when there is no pending buffer, which returns SEND_OK or
\* SEND_PENDING: the packet is accepted.  (With a pending buffer, or when write
\* fails, it returns SEND_FAIL and changes nothing.)
SendPacket(n, takebuffer) ==
    /\ conn = "up" /\ mPendingBuf = NULL /\ Len(sent) + n <= MaxBytes
    /\ LET buf == NextBytes(n) IN
       \E wret \in Taken(n) :
           /\ sent' = sent \o buf
           /\ wire' = wire \o SubSeq(buf, 1, wret)
           /\ IF wret = n
              THEN UNCHANGED <<pendVars, mask>>
              ELSE /\ IF takebuffer THEN KeepTaken(buf, wret) ELSE KeepCopy(buf, wret)
                   /\ Arm
    /\ UNCHANGED <<conn, conns>>

\* reserveWrite.
ReserveWrite ==
    /\ conn = "up"
    /\ mask' = EVT_ALL
    /\ UNCHANGED <<conn, pendVars, streamVars>>

\* What is left of the pending buffer.
Unwritten == SubSeq(mPendingBuf, mPendingWriteCnt + 1, mPendingSize)

\* Mutation of Written: the buffer is freed after any write.
Written_Any(wret) ==
    IF wret > 0
    THEN /\ mask' = {"READ", "HANGUP"}
         /\ mPendingBuf' = NULL /\ mPendingSize' = 0 /\ mPendingWriteCnt' = 0
    ELSE UNCHANGED <<mask, pendVars>>

\* After a write of wret bytes: the end of the buffer, or a part of it.
Written(wret) ==
    IF wret > 0 /\ mPendingWriteCnt + wret = mPendingSize
    THEN /\ mask' = {"READ", "HANGUP"}
         /\ mPendingBuf' = NULL /\ mPendingSize' = 0 /\ mPendingWriteCnt' = 0
    ELSE /\ mPendingWriteCnt' = mPendingWriteCnt + wret
         /\ UNCHANGED <<mask, mPendingBuf, mPendingSize>>

\* procNormalOnWrite with a pending buffer.
OnWritePending(wret) ==
    /\ conn = "up" /\ "WRITE" \in mask /\ mPendingBuf # NULL
    /\ wret \in Taken(Len(Unwritten))
    /\ wire' = wire \o SubSeq(Unwritten, 1, wret)
    /\ Written(wret)
    /\ UNCHANGED <<conn, conns, sent>>

\* procNormalOnWrite without one: reserveWrite is answered with NETEV_WRITABLE.
OnWriteReserved ==
    /\ conn = "up" /\ "WRITE" \in mask /\ mPendingBuf = NULL
    /\ mask' = {"READ", "HANGUP"}
    /\ UNCHANGED <<conn, pendVars, streamVars>>

\* The last connection is used up; the bound of the model.
Done == conn = "closed" /\ conns = MaxConns /\ UNCHANGED vars

OnWrite == \E wret \in 0..MaxBytes : OnWritePending(wret)

Next ==
    \/ OpenClient \/ OpenChild \/ Connect \/ Connected \/ Ends \/ Close
    \/ FireDisconnected
    \/ \E n \in Sizes, takebuffer \in TakeModes : SendPacket(n, takebuffer)
    \/ ReserveWrite \/ OnWrite \/ OnWriteReserved \/ Done

Spec == Init /\ [][Next]_vars

\* The peer reads, so that write events come and bring progress; the end of a
\* connection is noticed; EdSocket promises the latter as EndIsSeen.
Fairness ==
    /\ WF_vars(\E wret \in 1..MaxBytes : OnWritePending(wret))
    /\ WF_vars(FireDisconnected)

FairSpec == Spec /\ Fairness

-----------------------------------------------------------------------------
(***************************************************************************)
(* Properties.                                                             *)
(***************************************************************************)

Stream == INSTANCE ByteStream

\* The kernel gets the accepted bytes in order, each once, whatever parts write
\* takes, and none of a former connection.
IsByteStream == Stream!Spec

\* While the connection is up no accepted byte is lost: what the kernel has not
\* taken is in the pending buffer, which waits for write events (otherwise it
\* would stay, and sendPacket fail for ever).
NothingDropped ==
    conn = "up" =>
        /\ sent = wire \o (IF mPendingBuf = NULL THEN <<>> ELSE Unwritten)
        /\ mPendingBuf # NULL => "WRITE" \in mask

\* A pending buffer is written, or freed at the end of the connection.
PendingEnds == mPendingBuf # NULL ~> mPendingBuf = NULL
=============================================================================
