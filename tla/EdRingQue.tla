------------------------------ MODULE EdRingQue ------------------------------
(***************************************************************************)
(* A ring buffer of bytes (src/ednio/EdRingQue.cpp), with a cursor for     *)
(* reading ahead: peek reads from the front without taking, peekNext goes  *)
(* on where the last peek ended.  Copies are made in two pieces where the  *)
(* buffer wraps.                                                           *)
(***************************************************************************)
EXTENDS Naturals, Sequences, SequencesExt

CONSTANTS
    RingSize,     \* mBufSize
    RingBytes     \* bytes are 0..RingBytes-1, put one after the other

ASSUME RingSizeAssumption == RingSize \in Nat \ {0}
ASSUME RingBytesAssumption == RingBytes \in Nat \ {0}

VARIABLES
    mBuf, mReadPos, mWritePos, mDataSize,
    mLastPeekPos, mLastPeekDataSize,
    ringRef,      \* the bytes put and not yet got
    ringNext,     \* the next byte that is put
    peeked        \* bytes of ringRef before the cursor, or RingSize + 1 if it is stale

ringVars ==
    <<mBuf, mReadPos, mWritePos, mDataSize, mLastPeekPos, mLastPeekDataSize,
      ringRef, ringNext, peeked>>

LesserOf(a, b) == IF a < b THEN a ELSE b
Stale == RingSize + 1

RingInit ==
    /\ mBuf = [i \in 0..RingSize - 1 |-> 0]
    /\ mReadPos = 0 /\ mWritePos = 0 /\ mDataSize = 0
    /\ mLastPeekPos = 0 /\ mLastPeekDataSize = 0
    /\ ringRef = <<>> /\ ringNext = 0 /\ peeked = 0

Piece(from, n) == [i \in 1..n |-> mBuf[from + i - 1]]

\* Mutation of ReadPos: the second piece is not read.
ReadPos_OnePiece(size, readpos, datasize) ==
    Piece(readpos, LesserOf(LesserOf(size, datasize), RingSize - readpos))

\* readPos: up to size of the datasize bytes from readpos on.
ReadPos(size, readpos, datasize) ==
    LET rdsize == LesserOf(size, datasize)
        c == LesserOf(rdsize, RingSize - readpos)
    IN  Piece(readpos, c) \o Piece(0, rdsize - c)

RingGet(size) ==
    /\ LET rdcnt == Len(ReadPos(size, mReadPos, mDataSize)) IN
           /\ mReadPos' = (mReadPos + rdcnt) % RingSize
           /\ mDataSize' = mDataSize - rdcnt
           /\ ringRef' = SubSeq(ringRef, rdcnt + 1, Len(ringRef))
           /\ peeked' = IF rdcnt = 0 THEN peeked ELSE Stale
    /\ UNCHANGED <<mBuf, mWritePos, mLastPeekPos, mLastPeekDataSize, ringNext>>

RingPeek(size) ==
    /\ LET rdcnt == Len(ReadPos(size, mReadPos, mDataSize)) IN
           /\ mLastPeekPos' = (mReadPos + rdcnt) % RingSize
           /\ mLastPeekDataSize' = mDataSize - rdcnt
           /\ peeked' = rdcnt
    /\ UNCHANGED <<mBuf, mReadPos, mWritePos, mDataSize, ringRef, ringNext>>

\* The program does not go on with a cursor that a get made stale.
RingPeekNext(size) ==
    /\ peeked # Stale
    /\ LET rdcnt == Len(ReadPos(size, mLastPeekPos, mLastPeekDataSize)) IN
           /\ mLastPeekPos' = (mLastPeekPos + rdcnt) % RingSize
           /\ mLastPeekDataSize' = mLastPeekDataSize - rdcnt
           /\ peeked' = peeked + rdcnt
    /\ UNCHANGED <<mBuf, mReadPos, mWritePos, mDataSize, ringRef, ringNext>>

\* Mutation of Written: the second piece goes where the first one ended.
Written_NoWrap(i, c) == mWritePos + i - 1

\* Where the i-th byte of a put goes whose first piece has c bytes.
Written(i, c) == IF i <= c THEN mWritePos + i - 1 ELSE i - c - 1

\* put takes what there is room for.
RingPut(size) ==
    LET wsize == LesserOf(size, RingSize - mDataSize)
        c == LesserOf(wsize, RingSize - mWritePos)
        bytes == [i \in 1..wsize |-> (ringNext + i - 1) % RingBytes]
    IN  /\ mBuf' = [p \in 0..RingSize - 1 |->
                        IF \E i \in 1..wsize : Written(i, c) = p
                        THEN bytes[CHOOSE i \in 1..wsize : Written(i, c) = p]
                        ELSE mBuf[p]]
        /\ mWritePos' = ((mWritePos + c) % RingSize) + (wsize - c)
        /\ mDataSize' = mDataSize + wsize
        /\ ringRef' = ringRef \o bytes
        /\ ringNext' = (ringNext + wsize) % RingBytes
        /\ UNCHANGED <<mReadPos, mLastPeekPos, mLastPeekDataSize, peeked>>

RingNext ==
    \E size \in 1..RingSize + 1 :
        RingGet(size) \/ RingPeek(size) \/ RingPeekNext(size) \/ RingPut(size)

RingSpec == RingInit /\ [][RingNext]_ringVars

-----------------------------------------------------------------------------
(***************************************************************************)
(* Properties.                                                             *)
(***************************************************************************)

\* get and peek of any size return the first bytes that were put and not yet
\* got, and peekNext the ones that follow those it has shown already, wherever
\* the buffer wraps.
RingIsFifo ==
    /\ mReadPos < RingSize /\ mWritePos < RingSize
    /\ \A size \in 1..RingSize + 1 :
           /\ ReadPos(size, mReadPos, mDataSize) = SubSeq(ringRef, 1, LesserOf(size, Len(ringRef)))
           /\ peeked # Stale =>
                  IsPrefix(ReadPos(size, mLastPeekPos, mLastPeekDataSize),
                           SubSeq(ringRef, peeked + 1, Len(ringRef)))
=============================================================================
