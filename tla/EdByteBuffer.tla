---------------------------- MODULE EdByteBuffer ----------------------------
(***************************************************************************)
(* A growing buffer of bytes and numbers (src/ednio/EdByteBuffer.cpp and   *)
(* the templates of EdByteBuffer.h).  A number is its sequence of bytes,   *)
(* the most significant first; in memory, on a little-endian machine, it   *)
(* is reversed unless mOrder asks for network order.  The program reads    *)
(* the numbers in the widths it put them in, consumes no more than remains *)
(* (consume takes the minimum with mSize, not with what is left), and      *)
(* reserves no less than the buffer holds (reserve would cut it short).    *)
(***************************************************************************)
EXTENDS Integers, Sequences, SequencesExt, FiniteSetsExt

CONSTANTS
    Digits,       \* values of a byte that are put
    Widths,       \* widths of numbers, in bytes
    StartSize,    \* capacity of the first put; 4 in the code
    DoubleLimit,  \* doubling ends here; 16 * 1024 in the code
    RoundUnit,    \* larger capacities are multiples of it; 128 in the code
    MaxSize       \* bound on the bytes held

ASSUME DigitsAssumption == Digits \subseteq 0..255
ASSUME WidthsAssumption == Widths \subseteq Nat \ {0}
ASSUME GrowthAssumption ==
    /\ {StartSize, DoubleLimit, RoundUnit} \subseteq Nat \ {0}
    /\ DoubleLimit <= 16384
ASSUME MaxSizeAssumption == MaxSize \in Nat

VARIABLES
    bb,        \* [mem, mSize, mCapacity, mReadPos, mOrder]
    items,     \* the numbers put, with the order they were put in
    itemsRead  \* how many of them are read

bbVars == <<bb, items, itemsRead>>

Garbage == -1
Numbers == UNION {[1..w -> Digits] : w \in Widths}

BBInit ==
    /\ bb = [mem |-> <<>>, mSize |-> 0, mCapacity |-> 0, mReadPos |-> 0, mOrder |-> 0]
    /\ items = <<>> /\ itemsRead = 0

\* What doubling multiplies a capacity by; the last one passes DoubleLimit.
Doublings == {1, 2, 4, 8, 16, 32, 64, 128, 256, 512, 1024, 2048, 4096, 8192, 16384}

\* Mutation of Grown: larger capacities are rounded down.
Grown_Down(cap, need) ==
    LET t0 == IF cap = 0 THEN StartSize ELSE cap
        t == Min({t0 * d : d \in Doublings} \ (0..Min({need, DoubleLimit}) - 1))
    IN  IF t < need THEN (need \div RoundUnit) * RoundUnit ELSE t

\* The capacity that put makes room for need bytes with: doubled until it is
\* enough or the limit is passed, then computed from the need.
Grown(cap, need) ==
    LET t0 == IF cap = 0 THEN StartSize ELSE cap
        t == Min({t0 * d : d \in Doublings} \ (0..Min({need, DoubleLimit}) - 1))
    IN  IF t < need THEN ((need \div RoundUnit) + (need % RoundUnit)) * RoundUnit ELSE t

\* realloc keeps what fits.
Reallocated(mem, cap) == [i \in 1..cap |-> IF i <= Len(mem) THEN mem[i] ELSE Garbage]

\* put of a sequence of bytes.
PutBytes(b, bytes) ==
    LET need == b.mSize + Len(bytes)
        cap == IF need > b.mCapacity THEN Grown(b.mCapacity, need) ELSE b.mCapacity
        mem == Reallocated(b.mem, cap)
    IN  [b EXCEPT !.mCapacity = cap, !.mSize = need,
                  !.mem = [i \in 1..cap |-> IF i \in b.mSize + 1..need THEN bytes[i - b.mSize] ELSE mem[i]]]

\* How put8..put64 and putNum lay a number out.
Encoded(digits, order) == IF order = 0 THEN Reverse(digits) ELSE digits

\* Mutation of Decoded: a network order number is read as it lies in memory.
Decoded_Host(bytes, order) == Reverse(bytes)

\* What get8..get64 read.
Decoded(bytes, order) == IF order = 0 THEN Reverse(bytes) ELSE bytes

\* What getNum reads: in network order each char is extended with its sign before
\* it is shifted, so that one of 128 or more sets all the bytes before it.
DecodedNum(bytes, order) ==
    IF order = 0 THEN Reverse(bytes)
    ELSE [j \in DOMAIN bytes |->
              IF \E i \in DOMAIN bytes : i > j /\ bytes[i] >= 128 THEN 255 ELSE bytes[j]]

BBPut(digits) ==
    /\ bb.mSize + Len(digits) <= MaxSize
    /\ bb' = PutBytes(bb, Encoded(digits, bb.mOrder))
    /\ items' = Append(items, [digits |-> digits, order |-> bb.mOrder])
    /\ UNCHANGED itemsRead

Remain == bb.mSize - bb.mReadPos
NextWidth == Len(items[itemsRead + 1].digits)

\* get, get8..get64, getNum, or consume, of the next number.  The number readers
\* throw, and change nothing, when less than it remains.
BBGet ==
    /\ itemsRead < Len(items) /\ Remain >= NextWidth
    /\ bb' = [bb EXCEPT !.mReadPos = @ + NextWidth]
    /\ itemsRead' = itemsRead + 1
    /\ UNCHANGED items

BBRewind ==
    /\ bb' = [bb EXCEPT !.mReadPos = 0] /\ itemsRead' = 0
    /\ UNCHANGED items

BBClear ==
    /\ bb' = [bb EXCEPT !.mSize = 0, !.mReadPos = 0]
    /\ items' = <<>> /\ itemsRead' = 0

\* reserve, and enlarge, which reserves more than the capacity.
BBReserve(size) ==
    /\ size >= bb.mSize
    /\ bb' = [bb EXCEPT !.mem = Reallocated(@, size), !.mCapacity = size]
    /\ UNCHANGED <<items, itemsRead>>

\* release gives the memory away; mOrder stays.
BBRelease ==
    /\ bb' = [mem |-> <<>>, mSize |-> 0, mCapacity |-> 0, mReadPos |-> 0, mOrder |-> bb.mOrder]
    /\ items' = <<>> /\ itemsRead' = 0

\* takeBuffer: memory from elsewhere that holds one number.
BBTakeBuffer(digits, cap) ==
    /\ cap >= Len(digits)
    /\ bb' = [mem |-> Reallocated(Encoded(digits, bb.mOrder), cap), mSize |-> Len(digits),
              mCapacity |-> cap, mReadPos |-> 0, mOrder |-> bb.mOrder]
    /\ items' = <<[digits |-> digits, order |-> bb.mOrder]>> /\ itemsRead' = 0

BBSetOrder(order) ==
    /\ bb' = [bb EXCEPT !.mOrder = order]
    /\ UNCHANGED <<items, itemsRead>>

BBNext ==
    \/ \E digits \in Numbers : BBPut(digits) \/ \E cap \in 1..MaxSize : BBTakeBuffer(digits, cap)
    \/ BBGet \/ BBRewind \/ BBClear \/ BBRelease
    \/ \E size \in 0..MaxSize : BBReserve(size)
    \/ \E order \in {0, 1} : BBSetOrder(order)

BBSpec == BBInit /\ [][BBNext]_bbVars

-----------------------------------------------------------------------------
(***************************************************************************)
(* Properties.                                                             *)
(***************************************************************************)

\* The readers see the bytes of the next number.
NextBytesRead == SubSeq(bb.mem, bb.mReadPos + 1, bb.mReadPos + NextWidth)

\* However the buffer grew, was reserved, cleared and rewound, put never writes
\* past its memory, nothing that was put is lost, and the next number is read as
\* it was put when it is read in the same order; by getNum only if no byte but
\* the first is 128 or more.
NumbersReadBack ==
    /\ bb.mReadPos <= bb.mSize /\ bb.mSize <= bb.mCapacity
    /\ bb.mSize = Len(FlattenSeq([i \in DOMAIN items |-> items[i].digits]))
    /\ itemsRead < Len(items) =>
           LET next == items[itemsRead + 1] IN
           /\ Remain >= NextWidth
           /\ bb.mOrder = next.order =>
                  /\ Decoded(NextBytesRead, bb.mOrder) = next.digits
                  /\ (\A i \in 2..NextWidth : next.digits[i] < 128) =>
                         DecodedNum(NextBytesRead, bb.mOrder) = next.digits
=============================================================================
