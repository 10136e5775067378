--------------------------- MODULE EdSocketChannel ---------------------------
(***************************************************************************)
(* A stream socket with a queue of packets (src/ednio/EdSocketChannel.cpp). *)
(* A packet occupies one of a fixed number of chunks: the current one,     *)
(* which tx is writing, or one of the queue mChks.  OnWrite writes chunk   *)
(* after chunk and calls OnTxComplete after each, between updating the     *)
(* queue and using it again; there the program may send more packets, or   *)
(* close the channel.                                                      *)
(*                                                                         *)
(* The EdSocket underneath is reduced as in EdSmartSocket.  The program    *)
(* sends when the connection is up, closes the channel when it is told     *)
(* that the connection ended, and in OnTxComplete only if it was the last  *)
(* packet that was completed.                                              *)
(***************************************************************************)
EXTENDS Naturals, Sequences, FiniteSets, SequencesExt

CONSTANTS
    Chunks, NULL,   \* the ChunkInfo objects made by init
    Sizes,          \* sizes of packets
    MaxBytes,       \* bound on the bytes sent on a connection
    MaxConns        \* bound on the connections opened one after the other

ASSUME ChunksAssumption == IsFiniteSet(Chunks) /\ NULL \notin Chunks
ASSUME SizesAssumption == Sizes \subseteq Nat \ {0}
ASSUME MaxBytesAssumption == MaxBytes \in Nat
ASSUME MaxConnsAssumption == MaxConns \in Nat \ {0}

VARIABLES
    conn, mask,           \* the connection, and the events registered for
    mFreeChks, mChks, mCurChk,
    data, curCnt,         \* per chunk: the packet, and how much of it is written
    chk, pc,              \* OnWrite: its variable, and where it is
    conns, sent, wire,    \* connections opened; bytes accepted, and taken
    owed                  \* packets whose OnTxComplete is still to come

connVars == <<conn, mask>>
chunkVars == <<mFreeChks, mChks, mCurChk, data, curCnt>>
loopVars == <<chk, pc>>
streamVars == <<conns, sent, wire, owed>>
vars == <<connVars, chunkVars, loopVars, streamVars>>

\* A byte is named by its connection and its place in it, a packet by its first
\* byte.
Bytes == (1..MaxConns) \X (1..MaxBytes)
NextBytes(n) == [i \in 1..n |-> <<conns, Len(sent) + i>>]
Packet(c) == data[c][1]

TypeOK ==
    /\ conn \in {"closed", "connecting", "up", "over"}
    /\ mask \subseteq {"READ", "WRITE", "HANGUP"}
    /\ mFreeChks \in Seq(Chunks) /\ mChks \in Seq(Chunks)
    /\ mCurChk \in Chunks \cup {NULL} /\ chk \in Chunks \cup {NULL}
    /\ data \in [Chunks -> Seq(Bytes)]
    /\ curCnt \in [Chunks -> Nat] /\ \A c \in Chunks : curCnt[c] <= Len(data[c])
    /\ pc \in {"idle", "write", "complete"}
    /\ conns \in 0..MaxConns /\ Len(sent) <= MaxBytes
    /\ sent \in Seq(Bytes) /\ wire \in Seq(Bytes) /\ owed \in Seq(Bytes)

Init ==
    /\ conn = "closed" /\ mask = {}
    /\ mFreeChks = <<>> /\ mChks = <<>> /\ mCurChk = NULL
    /\ data = [c \in Chunks |-> <<>>] /\ curCnt = [c \in Chunks |-> 0]
    /\ chk = NULL /\ pc = "idle"
    /\ conns = 0 /\ sent = <<>> /\ wire = <<>> /\ owed = <<>>

-----------------------------------------------------------------------------
(***************************************************************************)
(* The connection.                                                         *)
(***************************************************************************)

\* init makes the chunks; openSock and connect.
OpenChannel ==
    /\ conn = "closed" /\ pc = "idle" /\ conns < MaxConns
    /\ mFreeChks' = SetToSeq(Chunks)
    /\ conn' = "connecting" /\ mask' = {"WRITE", "HANGUP"}
    /\ conns' = conns + 1 /\ sent' = <<>> /\ wire' = <<>>
    /\ UNCHANGED <<mChks, mCurChk, data, curCnt, loopVars, owed>>

\* EdSocket::OnEventWrite while connecting.
Connected ==
    /\ conn = "connecting" /\ pc = "idle"
    /\ conn' = "up" /\ mask' = {"READ", "HANGUP"}
    /\ UNCHANGED <<chunkVars, loopVars, streamVars>>

\* The attempt fails, or the peer or the network ends the connection.
Ends ==
    /\ conn \in {"connecting", "up"}
    /\ conn' = "over"
    /\ UNCHANGED <<mask, chunkVars, loopVars, streamVars>>

\* closeChannel deletes the chunks and what they hold, and closes the socket.
CloseChannel ==
    /\ conn # "closed"
    /\ pc = "idle" \/ (pc = "complete" /\ chk = NULL)
    /\ mFreeChks' = <<>> /\ mChks' = <<>> /\ mCurChk' = NULL
    /\ data' = [c \in Chunks |-> <<>>] /\ curCnt' = [c \in Chunks |-> 0]
    /\ conn' = "closed" /\ mask' = {} /\ owed' = <<>>
    /\ UNCHANGED <<loopVars, conns, sent, wire>>

-----------------------------------------------------------------------------
(***************************************************************************)
(* Sending.                                                                *)
(***************************************************************************)

\* send takes some of n bytes, none if the send buffer is full or the connection
\* over; tx does not tell the two apart.
Taken(n) == IF conn = "up" THEN 0..n ELSE {0}

\* A handler of the program runs: OnTxComplete, or one of another event.
MaySend == conn \in {"up", "over"} /\ pc \in {"idle", "complete"}

\* sendPacket when another packet is being written: SR_CONTINUE.
Enqueue(n) ==
    /\ MaySend /\ mFreeChks # <<>> /\ mCurChk # NULL /\ Len(sent) + n <= MaxBytes
    /\ LET c == Head(mFreeChks) IN
           /\ data' = [data EXCEPT ![c] = NextBytes(n)]
           /\ curCnt' = [curCnt EXCEPT ![c] = 0]
           /\ mChks' = Append(mChks, c)
    /\ mFreeChks' = Tail(mFreeChks)
    /\ sent' = sent \o NextBytes(n) /\ owed' = Append(owed, NextBytes(n)[1])
    /\ UNCHANGED <<connVars, mCurChk, loopVars, conns, wire>>

\* Mutation of Arm: write events are not asked for.
Arm_Not == UNCHANGED mask

Arm == mask' = {"READ", "WRITE"}

\* sendPacket when none is: tx at once.  All is written (SR_COMPLETE, without
\* OnTxComplete), or the rest waits for a write event (SR_CONTINUE).
SendNow(n, wcnt) ==
    /\ MaySend /\ mFreeChks # <<>> /\ mCurChk = NULL /\ Len(sent) + n <= MaxBytes
    /\ wcnt \in Taken(n)
    /\ LET c == Head(mFreeChks) IN
           /\ data' = [data EXCEPT ![c] = NextBytes(n)]
           /\ curCnt' = [curCnt EXCEPT ![c] = wcnt]
           /\ IF wcnt = n
              THEN /\ mFreeChks' = Append(Tail(mFreeChks), c)
                   /\ UNCHANGED <<mCurChk, mask, owed>>
              ELSE /\ mFreeChks' = Tail(mFreeChks) /\ mCurChk' = c
                   /\ Arm
                   /\ owed' = Append(owed, NextBytes(n)[1])
    /\ sent' = sent \o NextBytes(n)
    /\ wire' = wire \o SubSeq(NextBytes(n), 1, wcnt)
    /\ UNCHANGED <<conn, mChks, loopVars, conns>>

-----------------------------------------------------------------------------
(***************************************************************************)
(* OnWrite.                                                                *)
(***************************************************************************)

\* The loop is entered only if there is a current chunk.
OnWrite ==
    /\ conn = "up" /\ pc = "idle" /\ "WRITE" \in mask /\ mCurChk # NULL
    /\ chk' = mCurChk /\ pc' = "write"
    /\ UNCHANGED <<connVars, chunkVars, streamVars>>

\* Mutation of NextChunk: the newest packet is written next.
NextChunk_Last ==
    IF mChks # <<>>
    THEN mCurChk' = mChks[Len(mChks)] /\ mChks' = Front(mChks) /\ UNCHANGED mask
    ELSE mCurChk' = NULL /\ mask' = {"READ"} /\ UNCHANGED mChks

\* Mutation of NextChunk: when the queue is empty the events are left as they are.
NextChunk_StaysArmed ==
    IF mChks # <<>>
    THEN mCurChk' = Head(mChks) /\ mChks' = Tail(mChks) /\ UNCHANGED mask
    ELSE mCurChk' = NULL /\ UNCHANGED <<mask, mChks>>

\* The next packet of the queue becomes the current one; without one, write
\* events are no longer asked for.
NextChunk ==
    IF mChks # <<>>
    THEN mCurChk' = Head(mChks) /\ mChks' = Tail(mChks) /\ UNCHANGED mask
    ELSE mCurChk' = NULL /\ mask' = {"READ"} /\ UNCHANGED mChks

\* Mutation of Release: a chunk that is written is not given back.
Release_Not(c) == UNCHANGED mFreeChks

Release(c) == mFreeChks' = Append(mFreeChks, c)

\* Mutation of Offset: the chunk is written from its start.
Offset_Start(c) == 0

Offset(c) == curCnt[c]

Progress(c, wcnt) == curCnt[c] + wcnt

\* tx of the current chunk.  When it is complete, the queue is advanced and
\* OnTxComplete called; if not, the loop ends.
Tx(wcnt) ==
    /\ pc = "write"
    /\ LET c == mCurChk
           remain == Len(data[c]) - curCnt[c]
       IN  /\ wcnt \in Taken(remain)
           /\ wire' = wire \o SubSeq(data[c], Offset(c) + 1, Offset(c) + wcnt)
           /\ curCnt' = [curCnt EXCEPT ![c] = Progress(c, wcnt)]
           /\ IF wcnt = remain
              THEN /\ Release(chk) /\ NextChunk
                   /\ chk' = mCurChk'
                   /\ owed' = RemoveFirst(owed, Packet(chk))
                   /\ pc' = "complete"
              ELSE /\ pc' = "idle" /\ chk' = NULL
                   /\ UNCHANGED <<mFreeChks, mChks, mCurChk, mask, owed>>
    /\ UNCHANGED <<conn, data, conns, sent>>

OnTxCompleteReturns ==
    /\ pc = "complete"
    /\ pc' = IF chk # NULL THEN "write" ELSE "idle"
    /\ UNCHANGED <<connVars, chunkVars, chk, streamVars>>

\* The last connection is used up; the bound of the model.
Done == conn = "closed" /\ conns = MaxConns /\ pc = "idle" /\ UNCHANGED vars

Next ==
    \/ OpenChannel \/ Connected \/ Ends \/ CloseChannel
    \/ \E n \in Sizes : Enqueue(n) \/ \E wcnt \in 0..n : SendNow(n, wcnt)
    \/ OnWrite \/ OnTxCompleteReturns \/ Done
    \/ \E wcnt \in 0..MaxBytes : Tx(wcnt)

Spec == Init /\ [][Next]_vars

\* OnWrite runs on, handlers return, the peer reads; the program closes the
\* channel when it is told that the connection is over.
Fairness ==
    /\ WF_vars(OnWrite \/ OnTxCompleteReturns \/ \E wcnt \in 0..MaxBytes : Tx(wcnt))
    /\ SF_vars(\E wcnt \in 1..MaxBytes : Tx(wcnt))
    /\ WF_vars(conn = "over" /\ CloseChannel)

FairSpec == Spec /\ Fairness

-----------------------------------------------------------------------------
(***************************************************************************)
(* Properties.                                                             *)
(***************************************************************************)

Elems(s) == {s[i] : i \in DOMAIN s}
InUse == Elems(mChks) \cup ({mCurChk} \ {NULL})

\* Every chunk is free, queued or current, and only one of them, whatever
\* OnTxComplete sends: the channel neither loses capacity nor writes a chunk
\* that was given to another packet.
ChunksConserved ==
    conn # "closed" =>
        /\ Elems(mFreeChks) \cup InUse = Chunks /\ Elems(mFreeChks) \cap InUse = {}
        /\ Len(mFreeChks) + Len(mChks) + Cardinality({mCurChk} \ {NULL}) = Cardinality(Chunks)

\* Write events are asked for exactly while a packet waits: none is forgotten,
\* and the loop does not spin.
ArmedWhileWaiting ==
    conn = "up" /\ pc = "idle" => (mCurChk # NULL <=> "WRITE" \in mask)

\* OnTxComplete is called of the packets in the order in which they were sent,
\* when all their bytes are written.
CompletedInOrder ==
    [][ pc = "write" /\ pc' = "complete" =>
            /\ owed # <<>> /\ owed' = Tail(owed)
            /\ Len(wire') + 1 = IF owed' = <<>> THEN Len(sent) + 1 ELSE Head(owed')[2] ]_vars

Stream == INSTANCE ByteStream

\* The kernel gets the packets in order, whole, each once.
IsByteStream == Stream!Spec

\* A packet that was accepted for later is completed, or dropped with the channel.
PacketEnds == \A p \in Bytes : p \in Elems(owed) ~> p \notin Elems(owed)
=============================================================================
