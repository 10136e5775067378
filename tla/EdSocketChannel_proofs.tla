----------------------- MODULE EdSocketChannel_proofs -----------------------
(***************************************************************************)
(* Proofs about the queue of packets of EdSocketChannel.                   *)
(***************************************************************************)
EXTENDS EdSocketChannel, FiniteSetTheorems, TLAPS

-----------------------------------------------------------------------------
(***************************************************************************)
(* Sequences of chunks and of bytes.                                       *)
(***************************************************************************)

Distinct(s) == \A i, j \in 1..Len(s) : s[i] = s[j] => i = j

(* The empty sequence has no element and no repetition. *)
LEMMA EmptyFacts ==
    ASSUME NEW S
    PROVE  <<>> \in Seq(S) /\ Len(<<>>) = 0 /\ Elems(<<>>) = {} /\ Distinct(<<>>)
BY DEF Elems, Distinct

(* What Head and Tail of a non-empty sequence are, by index. *)
LEMMA TailFacts ==
    ASSUME NEW S, NEW s \in Seq(S), s # <<>>
    PROVE  /\ Len(s) \in Nat /\ Len(s) > 0 /\ Head(s) = s[1] /\ Head(s) \in S
           /\ Tail(s) \in Seq(S) /\ Len(Tail(s)) = Len(s) - 1
           /\ \A i \in 1..Len(s) - 1 : Tail(s)[i] = s[i + 1]
OBVIOUS

(* A sequence is empty exactly when its length is 0. *)
LEMMA EmptyByLength ==
    ASSUME NEW S, NEW s \in Seq(S)
    PROVE  s = <<>> <=> Len(s) = 0
OBVIOUS

(* What Append gives, by index. *)
LEMMA AppendFacts ==
    ASSUME NEW S, NEW s \in Seq(S), NEW e \in S
    PROVE  /\ Append(s, e) \in Seq(S) /\ Len(Append(s, e)) = Len(s) + 1 /\ Len(s) \in Nat
           /\ \A i \in 1..Len(s) : Append(s, e)[i] = s[i]
           /\ Append(s, e)[Len(s) + 1] = e
OBVIOUS

(* What putting an element before a sequence gives, by index. *)
LEMMA PrependFacts ==
    ASSUME NEW S, NEW s \in Seq(S), NEW e \in S
    PROVE  /\ <<e>> \o s \in Seq(S) /\ Len(<<e>> \o s) = Len(s) + 1 /\ Len(s) \in Nat
           /\ (<<e>> \o s)[1] = e
           /\ \A i \in 1..Len(s) : (<<e>> \o s)[i + 1] = s[i]
OBVIOUS

(* The elements of a sequence, by index. *)
LEMMA ElemsIn ==
    ASSUME NEW S, NEW s \in Seq(S)
    PROVE  /\ Elems(s) \subseteq S
           /\ \A e : e \in Elems(s) <=> \E i \in 1..Len(s) : s[i] = e
BY DEF Elems

(* Taking the head of a sequence without repetition takes that element from its elements. *)
LEMMA TailElems ==
    ASSUME NEW S, NEW s \in Seq(S), s # <<>>, Distinct(s)
    PROVE  Distinct(Tail(s)) /\ Elems(Tail(s)) = Elems(s) \ {Head(s)} /\ Head(s) \in Elems(s)
<1>1. /\ Len(s) \in Nat /\ Len(s) > 0 /\ Head(s) = s[1] /\ Tail(s) \in Seq(S)
      /\ Len(Tail(s)) = Len(s) - 1 /\ \A i \in 1..Len(s) - 1 : Tail(s)[i] = s[i + 1]
  BY TailFacts
<1>2. Distinct(Tail(s))
  <2>1. SUFFICES ASSUME NEW i \in 1..Len(s) - 1, NEW j \in 1..Len(s) - 1, Tail(s)[i] = Tail(s)[j]
                 PROVE  i = j
    BY <1>1 DEF Distinct
  <2>2. i + 1 \in 1..Len(s) /\ j + 1 \in 1..Len(s) /\ s[i + 1] = s[j + 1]
    BY <1>1, <2>1
  <2>3. i + 1 = j + 1
    BY <2>2 DEF Distinct
  <2> QED
    BY <2>3
<1>3. ASSUME NEW e \in Elems(Tail(s)) PROVE e \in Elems(s) /\ e # Head(s)
  <2>1. PICK i \in 1..Len(s) - 1 : Tail(s)[i] = e
    <3>1. Tail(s) \in Seq(S) /\ e \in Elems(Tail(s))
      BY <1>1
    <3>2. \E i \in 1..Len(Tail(s)) : Tail(s)[i] = e
      BY <3>1, ElemsIn
    <3> QED
      BY <1>1, <3>2
  <2>2. i + 1 \in 1..Len(s) /\ s[i + 1] = e /\ 1 \in 1..Len(s) /\ i + 1 # 1
    BY <1>1, <2>1
  <2>3. s[i + 1] # s[1]
    BY <2>2 DEF Distinct
  <2> QED
    BY <1>1, <2>2, <2>3, ElemsIn
<1>4. ASSUME NEW e \in Elems(s), e # Head(s) PROVE e \in Elems(Tail(s))
  <2>1. PICK i \in 1..Len(s) : s[i] = e
    BY ElemsIn
  <2>2. i - 1 \in 1..Len(s) - 1 /\ (i - 1) + 1 = i
    BY <1>1, <1>4, <2>1
  <2>3. Tail(s)[i - 1] = e
    BY <1>1, <2>1, <2>2
  <2> QED
    BY <1>1, <2>2, <2>3, ElemsIn
<1>5. Head(s) \in Elems(s)
  <2>1. 1 \in 1..Len(s)
    BY <1>1
  <2> QED
    BY <1>1, <2>1, ElemsIn
<1> QED
  BY <1>2, <1>3, <1>4, <1>5

(* Appending a new element to a sequence without repetition keeps it so. *)
LEMMA AppendElems ==
    ASSUME NEW S, NEW s \in Seq(S), NEW e \in S, Distinct(s), e \notin Elems(s)
    PROVE  Distinct(Append(s, e)) /\ Elems(Append(s, e)) = Elems(s) \cup {e}
<1> DEFINE t == Append(s, e)
<1>1. /\ t \in Seq(S) /\ Len(t) = Len(s) + 1 /\ Len(s) \in Nat
      /\ \A i \in 1..Len(s) : t[i] = s[i]
      /\ t[Len(s) + 1] = e
  BY AppendFacts
<1> HIDE DEF t
<1>2. \A i \in 1..Len(s) : s[i] # e
  BY ElemsIn
<1>3. Distinct(t)
  BY <1>1, <1>2 DEF Distinct
<1>4. ASSUME NEW x PROVE x \in Elems(t) <=> x \in Elems(s) \/ x = e
  <2>1. x \in Elems(t) <=> \E i \in 1..Len(s) + 1 : t[i] = x
    BY <1>1, ElemsIn
  <2>2. x \in Elems(s) <=> \E i \in 1..Len(s) : s[i] = x
    BY ElemsIn
  <2> QED
    BY <1>1, <2>1, <2>2
<1> QED
  BY <1>3, <1>4 DEF t

(* The free list that init builds holds every chunk once. *)
LEMMA ChunksInOrder ==
    LET s == SetToSeq(Chunks)
    IN  /\ s \in Seq(Chunks) /\ Len(s) = Cardinality(Chunks) /\ Distinct(s)
        /\ Elems(s) = Chunks /\ Cardinality(Chunks) \in Nat
<1> DEFINE n == Cardinality(Chunks)
<1> DEFINE s == SetToSeq(Chunks)
<1>1. n \in Nat /\ ExistsBijection(1..n, Chunks)
  BY ChunksAssumption, FS_CardinalityType
<1>2. \E f \in [1..n -> Chunks] : IsInjective(f)
  BY <1>1 DEF ExistsBijection, Bijection, Injection
<1>3. s \in [1..n -> Chunks] /\ \A a, b \in 1..n : s[a] = s[b] => a = b
  <2>1. s \in [1..n -> Chunks] /\ IsInjective(s)
    BY <1>2 DEF SetToSeq
  <2> HIDE DEF s
  <2> QED
    BY <2>1 DEF IsInjective
<1> HIDE DEF s, n
<1>4. s \in Seq(Chunks) /\ Len(s) = n
  BY <1>1, <1>3
<1>5. s \in Surjection(1..n, Chunks)
  <2>1. s \in Injection(1..n, Chunks)
    BY <1>3 DEF Injection, IsInjective
  <2>2. Cardinality(1..n) = n
    BY <1>1, FS_Interval
  <2> QED
    BY <2>1, <2>2, FS_Injection, ChunksAssumption DEF n
<1>6. Elems(s) = Chunks
  BY <1>3, <1>4, <1>5 DEF Elems, Surjection
<1>7. Distinct(s)
  BY <1>3, <1>4 DEF Distinct
<1> QED
  BY <1>1, <1>4, <1>6, <1>7 DEF s, n

(* Removing the first occurrence of the first element leaves the tail. *)
LEMMA RemoveFirstHead ==
    ASSUME NEW S, NEW s \in Seq(S), s # <<>>
    PROVE  RemoveFirst(s, s[1]) = Tail(s)
<1>1. Len(s) \in Nat /\ 1 \in 1..Len(s)
  OBVIOUS
<1> DEFINE I == {i \in 1..Len(s) : s[i] = s[1]}
<1>2. 1 \in I /\ \A y \in I : 1 <= y
  BY <1>1
<1>3. Min(I) = 1
  <2>1. \E x \in I : \A y \in I : x <= y
    BY <1>2
  <2>2. Min(I) \in I /\ \A y \in I : Min(I) <= y
    BY <2>1 DEF Min
  <2>3. Min(I) <= 1 /\ 1 <= Min(I) /\ Min(I) \in Nat
    BY <1>1, <1>2, <2>2
  <2> QED
    BY <2>3
<1>4. SelectInSeq(s, LAMBDA v : v = s[1]) = 1
  BY <1>2, <1>3 DEF SelectInSeq
<1>5. RemoveFirst(s, s[1]) = RemoveAt(s, 1)
  BY <1>1, <1>4 DEF RemoveFirst
<1>6. RemoveAt(s, 1) = SubSeq(s, 1, 0) \o SubSeq(s, 2, Len(s))
  BY DEF RemoveAt
<1> QED
  BY <1>1, <1>5, <1>6

\* The parts of a packet.
LEMMA PartOfPacket ==
    ASSUME NEW S, NEW s \in Seq(S), NEW k \in 0..Len(s), NEW w \in 0..Len(s) - k
    PROVE  /\ SubSeq(s, k + 1, k + w) \in Seq(S) /\ Len(SubSeq(s, k + 1, k + w)) = w
           /\ \A i \in 1..w : SubSeq(s, k + 1, k + w)[i] = s[k + i]
BY SMTT(30)

(* The part of a packet that one write takes. *)
LEMMA HeadOfPacket ==
    ASSUME NEW S, NEW s \in Seq(S), NEW w \in 0..Len(s)
    PROVE  /\ SubSeq(s, 1, w) \in Seq(S) /\ Len(SubSeq(s, 1, w)) = w
           /\ \A i \in 1..w : SubSeq(s, 1, w)[i] = s[i]
OBVIOUS

(* What concatenation gives, by index. *)
LEMMA ConcatFacts ==
    ASSUME NEW S, NEW s \in Seq(S), NEW t \in Seq(S)
    PROVE  /\ s \o t \in Seq(S) /\ Len(s) \in Nat /\ Len(t) \in Nat
           /\ Len(s \o t) = Len(s) + Len(t)
           /\ \A i \in 1..Len(s) : (s \o t)[i] = s[i]
           /\ \A i \in 1..Len(t) : (s \o t)[Len(s) + i] = t[i]
OBVIOUS

(* A sequence is a prefix of any longer one built from it. *)
LEMMA PrefixConcat ==
    ASSUME NEW S, NEW s \in Seq(S), NEW t \in Seq(S)
    PROVE  IsPrefix(s, s \o t)
BY DEF IsPrefix

\* The bytes of connection k from number f on.
From(s, k, f) == \A i \in 1..Len(s) : s[i] = <<k, f + i - 1>>

(* Of two sequences of bytes numbered from 1, the shorter is a prefix of the longer. *)
LEMMA NumberedPrefix ==
    ASSUME NEW S, NEW s \in Seq(S), NEW t \in Seq(S), NEW k, From(s, k, 1), From(t, k, 1),
           Len(s) <= Len(t)
    PROVE  IsPrefix(s, t)
<1>1. Len(s) \in Nat /\ Len(t) \in Nat /\ Len(s) \in 0..Len(t)
  OBVIOUS
<1>2. ASSUME NEW i \in 1..Len(s) PROVE s[i] = t[i]
  <2>1. i \in 1..Len(t)
    BY <1>1
  <2>2. s[i] = <<k, 1 + i - 1>>
    BY DEF From
  <2>3. t[i] = <<k, 1 + i - 1>>
    BY <2>1 DEF From
  <2> QED
    BY <2>2, <2>3
<1>3. SubSeq(s, 1, Len(s)) = s
  OBVIOUS
<1>4. SubSeq(t, 1, Len(s)) = s
  <2> DEFINE u == SubSeq(t, 1, Len(s))
  <2>1. u \in Seq(S) /\ Len(u) = Len(s) /\ \A i \in 1..Len(s) : u[i] = t[i]
    BY <1>1, HeadOfPacket
  <2> HIDE DEF u
  <2>2. u = s
    BY <1>2, <2>1
  <2> QED
    BY <2>2 DEF u
<1> QED
  BY <1>3, <1>4 DEF IsPrefix

(* Numbered bytes followed by the bytes with the next numbers are numbered. *)
LEMMA NumberedConcat ==
    ASSUME NEW S, NEW s \in Seq(S), NEW t \in Seq(S), NEW k, From(s, k, 1),
           From(t, k, Len(s) + 1)
    PROVE  From(s \o t, k, 1)
<1> DEFINE u == s \o t
<1>1. /\ Len(s) \in Nat /\ Len(t) \in Nat /\ Len(u) = Len(s) + Len(t)
      /\ \A i \in 1..Len(s) : u[i] = s[i]
      /\ \A i \in 1..Len(t) : u[Len(s) + i] = t[i]
  BY ConcatFacts
<1> HIDE DEF u
<1>2. ASSUME NEW i \in 1..Len(s) + Len(t) PROVE u[i] = <<k, 1 + i - 1>>
  <2>1. CASE i \in 1..Len(s)
    BY <1>1, <2>1 DEF From
  <2>2. CASE i \notin 1..Len(s)
    <3>1. i - Len(s) \in 1..Len(t) /\ Len(s) + (i - Len(s)) = i
          /\ (Len(s) + 1) + (i - Len(s)) - 1 = 1 + i - 1
      BY <1>1, <2>2
    <3>2. u[i] = t[i - Len(s)]
      BY <1>1, <3>1
    <3> QED
      BY <3>1, <3>2 DEF From
  <2> QED
    BY <2>1, <2>2
<1>3. From(u, k, 1)
  BY <1>1, <1>2 DEF From
<1> QED
  BY <1>3 DEF u

-----------------------------------------------------------------------------
(***************************************************************************)
(* The inductive invariant.                                                *)
(***************************************************************************)

\* The chunks that hold a packet, in the order in which they are written.
Line == IF mCurChk = NULL THEN <<>> ELSE <<mCurChk>> \o mChks

\* Sequences a and b hold every chunk exactly once between them.
Partition(a, b) ==
    /\ Distinct(a) /\ Distinct(b)
    /\ Elems(a) \cup Elems(b) = Chunks /\ Elems(a) \cap Elems(b) = {}
    /\ Len(a) + Len(b) = Cardinality(Chunks)

\* The packets of the chunks of l lie end to end up to byte number end of
\* connection k; o are their first bytes.
Queued(l, d, o, k, end) ==
    /\ Len(o) = Len(l)
    /\ \A i \in 1..Len(l) :
           /\ d[l[i]] # <<>> /\ o[i] = d[l[i]][1] /\ From(d[l[i]], k, o[i][2])
           /\ o[i][2] + Len(d[l[i]]) = IF i = Len(l) THEN end + 1 ELSE o[i + 1][2]
           /\ o[i][2] + Len(d[l[i]]) <= end + 1

\* Of the packets of l only the first is written in part, so far that w bytes
\* are written in all.
Written(l, d, cnt, o, w, end) ==
    IF l = <<>>
    THEN w = end
    ELSE /\ w + 1 = o[1][2] + cnt[l[1]] /\ cnt[l[1]] < Len(d[l[1]])
         /\ \A i \in 2..Len(l) : cnt[l[i]] = 0

ConnInv ==
    /\ conn = "closed" => mCurChk = NULL /\ mChks = <<>> /\ owed = <<>>
    /\ conn # "closed" => conns # 0
    /\ conn = "connecting" => mCurChk = NULL /\ pc = "idle"
    /\ mCurChk = NULL => mChks = <<>>

LoopInv ==
    /\ pc = "write" => mCurChk # NULL /\ chk = mCurChk
    /\ pc = "complete" => chk = NULL \/ (mCurChk # NULL /\ chk = mCurChk)

ArmInv == conn = "up" => (mCurChk # NULL <=> "WRITE" \in mask)

ChunkInv == conn # "closed" => Partition(mFreeChks, Line)

ByteInv ==
    conn # "closed" =>
        /\ From(sent, conns, 1) /\ From(wire, conns, 1)
        /\ Queued(Line, data, owed, conns, Len(sent))
        /\ Written(Line, data, curCnt, owed, Len(wire), Len(sent))

ChannelInv == TypeOK /\ ConnInv /\ LoopInv /\ ArmInv /\ ChunkInv /\ ByteInv

-----------------------------------------------------------------------------
(***************************************************************************)
(* How packets join and leave the line.                                    *)
(***************************************************************************)

(* Moving the head of one list to the end of the other keeps the chunks shared out. *)
LEMMA MoveHead ==
    ASSUME NEW a \in Seq(Chunks), NEW b \in Seq(Chunks), Partition(a, b), a # <<>>
    PROVE  Partition(Tail(a), Append(b, Head(a)))
<1> DEFINE c == Head(a)
<1>1. /\ Len(a) \in Nat /\ Len(a) > 0 /\ c \in Chunks /\ Len(Tail(a)) = Len(a) - 1
  BY TailFacts
<1>2. Distinct(Tail(a)) /\ Elems(Tail(a)) = Elems(a) \ {c} /\ c \in Elems(a)
  BY TailElems DEF Partition
<1> HIDE DEF c
<1>3. c \notin Elems(b) /\ Distinct(b)
  BY <1>2 DEF Partition
<1>4. /\ Len(Append(b, c)) = Len(b) + 1 /\ Len(b) \in Nat
  BY <1>1, AppendFacts
<1>5. Distinct(Append(b, c)) /\ Elems(Append(b, c)) = Elems(b) \cup {c}
  BY <1>1, <1>3, AppendElems
<1>6. Len(Tail(a)) + Len(Append(b, c)) = Len(a) + Len(b)
  BY <1>1, <1>4
<1>7. Elems(Tail(a)) \cup Elems(Append(b, c)) = Chunks /\ Elems(Tail(a)) \cap Elems(Append(b, c)) = {}
  BY <1>2, <1>3, <1>5 DEF Partition
<1>8. Partition(Tail(a), Append(b, c))
  BY <1>2, <1>5, <1>6, <1>7 DEF Partition
<1> QED
  BY <1>8 DEF c

(* Sharing out the chunks does not depend on which list is named first. *)
LEMMA PartitionTurned ==
    ASSUME NEW a \in Seq(Chunks), NEW b \in Seq(Chunks), Partition(a, b)
    PROVE  Partition(b, a)
<1>1. Len(a) \in Nat /\ Len(b) \in Nat
  OBVIOUS
<1>2. Len(b) + Len(a) = Cardinality(Chunks)
  BY <1>1 DEF Partition
<1> QED
  BY <1>2 DEF Partition

(* Moving the head of a list to its own end keeps the chunks shared out. *)
LEMMA Rotate ==
    ASSUME NEW a \in Seq(Chunks), NEW b \in Seq(Chunks), Partition(a, b), a # <<>>
    PROVE  Partition(Append(Tail(a), Head(a)), b)
<1> DEFINE c == Head(a)
<1>1. /\ Len(a) \in Nat /\ Len(a) > 0 /\ c \in Chunks /\ Len(Tail(a)) = Len(a) - 1
      /\ Tail(a) \in Seq(Chunks)
  BY TailFacts
<1>2. Distinct(Tail(a)) /\ Elems(Tail(a)) = Elems(a) \ {c} /\ c \in Elems(a)
  BY TailElems DEF Partition
<1> HIDE DEF c
<1>4. Len(Append(Tail(a), c)) = Len(Tail(a)) + 1
  BY <1>1, AppendFacts
<1>3. c \notin Elems(Tail(a))
  BY <1>2
<1>5. Distinct(Append(Tail(a), c)) /\ Elems(Append(Tail(a), c)) = Elems(Tail(a)) \cup {c}
  <2> DEFINE t == Tail(a)
  <2>1. t \in Seq(Chunks) /\ c \in Chunks /\ Distinct(t) /\ c \notin Elems(t)
    BY <1>1, <1>2, <1>3
  <2> HIDE DEF t
  <2>2. Distinct(Append(t, c)) /\ Elems(Append(t, c)) = Elems(t) \cup {c}
    BY <2>1, AppendElems
  <2> QED
    BY <2>2 DEF t
<1>6. Len(Append(Tail(a), c)) = Len(a)
  BY <1>1, <1>4
<1>7. Elems(Append(Tail(a), c)) = Elems(a)
  BY <1>2, <1>5
<1>8. Partition(Append(Tail(a), c), b)
  BY <1>5, <1>6, <1>7 DEF Partition
<1> QED
  BY <1>8 DEF c

(* The connection and the number of a byte. *)
LEMMA ByteFacts ==
    ASSUME NEW b \in Bytes
    PROVE  b[1] \in 1..MaxConns /\ b[2] \in Nat /\ b[2] \in 1..MaxBytes /\ b = <<b[1], b[2]>>
BY MaxBytesAssumption DEF Bytes

(* No queued packet: the empty line is in order. *)
LEMMA QueuedNone ==
    ASSUME NEW d, NEW k, NEW end
    PROVE  Queued(<<>>, d, <<>>, k, end)
BY DEF Queued

(* A packet with the next bytes may join the end of the line (sendPacket). *)
LEMMA QueuedAppend ==
    ASSUME NEW l \in Seq(Chunks), NEW d \in [Chunks -> Seq(Bytes)], NEW o \in Seq(Bytes),
           NEW k, NEW end \in Nat, NEW c \in Chunks, NEW p \in Seq(Bytes),
           Queued(l, d, o, k, end), c \notin Elems(l), p # <<>>, From(p, k, end + 1)
    PROVE  Queued(Append(l, c), [d EXCEPT ![c] = p], Append(o, p[1]), k, end + Len(p))
<1> DEFINE m == Append(l, c)
<1> DEFINE e == [d EXCEPT ![c] = p]
<1> DEFINE q == Append(o, p[1])
<1>1. /\ m \in Seq(Chunks) /\ Len(m) = Len(l) + 1 /\ Len(l) \in Nat
      /\ \A i \in 1..Len(l) : m[i] = l[i]
      /\ m[Len(l) + 1] = c
  BY AppendFacts
<1>2. Len(p) \in Nat /\ Len(p) > 0 /\ p[1] \in Bytes /\ p[1] = <<k, end + 1>> /\ p[1][2] = end + 1
  <2>1. Len(p) \in Nat /\ 1 \in 1..Len(p) /\ p[1] \in Bytes
    OBVIOUS
  <2>2. p[1] = <<k, end + 1 + 1 - 1>>
    BY <2>1 DEF From
  <2>3. end + 1 + 1 - 1 = end + 1
    OBVIOUS
  <2> QED
    BY <2>1, <2>2, <2>3
<1>3. /\ Len(q) = Len(o) + 1 /\ Len(o) \in Nat
      /\ \A i \in 1..Len(o) : q[i] = o[i]
      /\ q[Len(o) + 1] = p[1]
  BY <1>2, AppendFacts
<1>4. e[c] = p /\ \A x \in Chunks : x # c => e[x] = d[x]
  OBVIOUS
<1>5. \A i \in 1..Len(l) : l[i] # c /\ l[i] \in Chunks
  BY ElemsIn
<1>6. Len(o) = Len(l)
  BY DEF Queued
<1> HIDE DEF m, e, q
<1>7. ASSUME NEW i \in 1..Len(m)
      PROVE  /\ e[m[i]] # <<>> /\ q[i] = e[m[i]][1] /\ From(e[m[i]], k, q[i][2])
             /\ q[i][2] + Len(e[m[i]]) = IF i = Len(m) THEN end + Len(p) + 1 ELSE q[i + 1][2]
             /\ q[i][2] + Len(e[m[i]]) <= end + Len(p) + 1
  <2>1. CASE i \in 1..Len(l)
    <3>1. m[i] = l[i] /\ q[i] = o[i] /\ e[m[i]] = d[l[i]] /\ i # Len(m)
      BY <1>1, <1>3, <1>4, <1>5, <1>6, <2>1
    <3>2. /\ d[l[i]] # <<>> /\ o[i] = d[l[i]][1] /\ From(d[l[i]], k, o[i][2])
          /\ o[i][2] + Len(d[l[i]]) = IF i = Len(l) THEN end + 1 ELSE o[i + 1][2]
          /\ o[i][2] + Len(d[l[i]]) <= end + 1
      BY <2>1 DEF Queued
    <3>5. o[i][2] + Len(d[l[i]]) <= end + Len(p) + 1
      <4> DEFINE a == o[i][2] + Len(d[l[i]])
      <4>1. a \in Nat /\ a <= end + 1
        <5>1. o[i] \in Bytes
          BY <1>6, <2>1
        <5>2. o[i][2] \in Nat
          BY <5>1, ByteFacts
        <5>3. d[l[i]] \in Seq(Bytes)
          BY <1>5, <2>1
        <5>4. Len(d[l[i]]) \in Nat
          BY <5>3
        <5>5. a \in Nat
          <6>1. \A x, y \in Nat : x + y \in Nat
            OBVIOUS
          <6> QED
            BY <5>2, <5>4, <6>1, Zenon
        <5>6. a <= end + 1
          BY <3>2, Zenon
        <5> QED
          BY <5>5, <5>6
      <4> HIDE DEF a
      <4>2. a <= end + Len(p) + 1
        BY <1>2, <4>1
      <4> QED
        BY <4>2 DEF a
    <3>3. CASE i = Len(l)
      <4>1. q[i + 1] = p[1]
        BY <1>3, <1>6, <3>3
      <4>2. o[i][2] + Len(d[l[i]]) = q[i + 1][2]
        BY <1>2, <3>2, <3>3, <4>1
      <4> QED
        BY <3>1, <3>2, <3>5, <4>2
    <3>4. CASE i # Len(l)
      <4>1. i + 1 \in 1..Len(o)
        BY <1>1, <1>6, <2>1, <3>4, SMTT(30)
      <4>2. q[i + 1] = o[i + 1]
        BY <1>3, <4>1
      <4> QED
        BY <3>1, <3>2, <3>4, <3>5, <4>2
    <3> QED
      BY <3>3, <3>4
  <2>2. CASE i = Len(l) + 1
    <3>1. m[i] = c /\ q[i] = p[1] /\ e[m[i]] = p /\ i = Len(m)
      BY <1>1, <1>3, <1>4, <1>6, <2>2
    <3>2. end + 1 + Len(p) = end + Len(p) + 1 /\ end + 1 + Len(p) <= end + Len(p) + 1
      BY <1>2
    <3> QED
      BY <1>2, <3>1, <3>2
  <2>3. i \in 1..Len(l) \/ i = Len(l) + 1
    BY <1>1
  <2> QED
    BY <2>1, <2>2, <2>3
<1>8. Len(q) = Len(m)
  BY <1>1, <1>3, <1>6
<1>9. Queued(m, e, q, k, end + Len(p))
  BY <1>7, <1>8 DEF Queued
<1> QED
  BY <1>9 DEF m, e, q

(* The line without its first packet is in order (tx, a packet completed). *)
LEMMA QueuedTail ==
    ASSUME NEW l \in Seq(Chunks), NEW d \in [Chunks -> Seq(Bytes)], NEW o \in Seq(Bytes),
           NEW k, NEW end \in Nat, Queued(l, d, o, k, end), l # <<>>
    PROVE  Queued(Tail(l), d, Tail(o), k, end)
<1> DEFINE m == Tail(l)
<1> DEFINE q == Tail(o)
<1>1. /\ Len(l) \in Nat /\ Len(l) > 0 /\ Len(m) = Len(l) - 1
      /\ \A i \in 1..Len(l) - 1 : m[i] = l[i + 1]
  BY TailFacts
<1>2. Len(o) = Len(l) /\ o # <<>>
  BY <1>1 DEF Queued
<1>3. Len(q) = Len(o) - 1 /\ \A i \in 1..Len(o) - 1 : q[i] = o[i + 1]
  BY <1>2, TailFacts
<1> HIDE DEF m, q
<1>4. ASSUME NEW i \in 1..Len(m)
      PROVE  /\ d[m[i]] # <<>> /\ q[i] = d[m[i]][1] /\ From(d[m[i]], k, q[i][2])
             /\ q[i][2] + Len(d[m[i]]) = IF i = Len(m) THEN end + 1 ELSE q[i + 1][2]
             /\ q[i][2] + Len(d[m[i]]) <= end + 1
  <2>1. m[i] = l[i + 1] /\ q[i] = o[i + 1] /\ i + 1 \in 1..Len(l) /\ (i = Len(m) <=> i + 1 = Len(l))
    BY <1>1, <1>2, <1>3
  <2>2. i # Len(m) => q[i + 1] = o[(i + 1) + 1]
    BY <1>1, <1>2, <1>3
  <2>3. /\ d[l[i + 1]] # <<>> /\ o[i + 1] = d[l[i + 1]][1] /\ From(d[l[i + 1]], k, o[i + 1][2])
        /\ o[i + 1][2] + Len(d[l[i + 1]]) = IF i + 1 = Len(l) THEN end + 1 ELSE o[(i + 1) + 1][2]
        /\ o[i + 1][2] + Len(d[l[i + 1]]) <= end + 1
    BY <2>1 DEF Queued
  <2> QED
    BY <2>1, <2>2, <2>3
<1>5. Queued(m, d, q, k, end)
  BY <1>1, <1>2, <1>3, <1>4 DEF Queued
<1> QED
  BY <1>5 DEF m, q

-----------------------------------------------------------------------------
(***************************************************************************)
(* The state the lemmas are applied to.                                    *)
(***************************************************************************)

(* The line: the current chunk, then the queued ones. *)
LEMMA LineFacts ==
    ASSUME TypeOK
    PROVE  /\ Line \in Seq(Chunks)
           /\ mCurChk = NULL => Line = <<>>
           /\ mCurChk # NULL =>
                  /\ mCurChk \in Chunks /\ Line # <<>> /\ Head(Line) = mCurChk /\ Line[1] = mCurChk
                  /\ Tail(Line) = mChks /\ Len(Line) = Len(mChks) + 1 /\ Len(mChks) \in Nat
                  /\ \A x : x \in Elems(Line) <=> x = mCurChk \/ x \in Elems(mChks)
<1>1. mChks \in Seq(Chunks) /\ mCurChk \in Chunks \cup {NULL}
  BY DEF TypeOK
<1>2. CASE mCurChk = NULL
  BY <1>2 DEF Line
<1>3. CASE mCurChk # NULL
  <2> DEFINE l == <<mCurChk>> \o mChks
  <2>1. Line = l
    BY <1>3 DEF Line
  <2>2. /\ l \in Seq(Chunks) /\ Len(l) = Len(mChks) + 1 /\ Len(mChks) \in Nat /\ l[1] = mCurChk
        /\ \A i \in 1..Len(mChks) : l[i + 1] = mChks[i]
    BY <1>1, <1>3, PrependFacts
  <2>3. l # <<>> /\ Head(l) = mCurChk /\ Tail(l) = mChks
    BY <1>1, <1>3
  <2> HIDE DEF l
  <2>4. ASSUME NEW x PROVE x \in Elems(l) <=> x = mCurChk \/ x \in Elems(mChks)
    <3>1. x \in Elems(l) <=> \E i \in 1..Len(mChks) + 1 : l[i] = x
      BY <2>2, ElemsIn
    <3>2. x \in Elems(mChks) <=> \E i \in 1..Len(mChks) : mChks[i] = x
      BY <1>1, ElemsIn
    <3>3. \A i \in 1..Len(mChks) + 1 : i = 1 \/ (i - 1 \in 1..Len(mChks) /\ (i - 1) + 1 = i)
      BY <2>2
    <3>4. \A i \in 1..Len(mChks) : i + 1 \in 1..Len(mChks) + 1
      BY <2>2
    <3>5. 1 \in 1..Len(mChks) + 1
      BY <2>2
    <3> QED
      BY <2>2, <3>1, <3>2, <3>3, <3>4, <3>5
  <2> QED
    BY <1>1, <1>3, <2>1, <2>2, <2>3, <2>4
<1> QED
  BY <1>2, <1>3

\* The bytes that sendPacket accepts.
LEMMA NewPacket ==
    ASSUME TypeOK, conns # 0, NEW n \in Sizes, Len(sent) + n <= MaxBytes
    PROVE  LET p == NextBytes(n)
           IN  /\ p \in Seq(Bytes) /\ Len(p) = n /\ n \in Nat /\ n > 0 /\ p # <<>>
               /\ Len(sent) \in Nat /\ From(p, conns, Len(sent) + 1) /\ p[1] \in Bytes
<1> DEFINE p == NextBytes(n)
<1>1. n \in Nat /\ n > 0
  BY SizesAssumption
<1>2. sent \in Seq(Bytes) /\ conns \in 1..MaxConns
  BY MaxConnsAssumption DEF TypeOK
<1>3. Len(sent) \in Nat
  BY <1>2
<1>4. \A i \in 1..n : <<conns, Len(sent) + i>> \in Bytes
  BY <1>1, <1>2, <1>3, MaxBytesAssumption DEF Bytes
<1>5. p \in Seq(Bytes) /\ Len(p) = n /\ \A i \in 1..n : p[i] = <<conns, Len(sent) + i>>
  BY <1>1, <1>4 DEF NextBytes
<1> HIDE DEF p
<1>6. p # <<>> /\ p[1] \in Bytes
  BY <1>1, <1>5
<1>7. \A i \in 1..n : Len(sent) + 1 + i - 1 = Len(sent) + i
  BY <1>1, <1>3
<1>8. From(p, conns, Len(sent) + 1)
  BY <1>5, <1>7 DEF From
<1> QED
  BY <1>1, <1>3, <1>5, <1>6, <1>8 DEF p

\* Of a packet at most what remains is taken.
LEMMA TakenFacts ==
    ASSUME NEW n \in Nat, NEW w \in Taken(n)
    PROVE  w \in 0..n /\ w \in Nat
BY DEF Taken

-----------------------------------------------------------------------------
(***************************************************************************)
(* Types.                                                                  *)
(***************************************************************************)

(* The initial state has the right types. *)
LEMMA TypeInit == Init => TypeOK
<1> SUFFICES ASSUME Init PROVE TypeOK
  OBVIOUS
<1>1. <<>> \in Seq(Chunks) /\ <<>> \in Seq(Bytes) /\ Len(<<>>) = 0
  OBVIOUS
<1>2. data \in [Chunks -> Seq(Bytes)] /\ \A c \in Chunks : data[c] = <<>>
  BY <1>1 DEF Init
<1>3. curCnt \in [Chunks -> Nat] /\ \A c \in Chunks : curCnt[c] = 0
  BY DEF Init
<1>4. \A c \in Chunks : curCnt[c] <= Len(data[c])
  BY <1>1, <1>2, <1>3
<1>5. conns \in 0..MaxConns /\ Len(sent) <= MaxBytes
  BY <1>1, MaxConnsAssumption, MaxBytesAssumption DEF Init
<1> QED
  BY <1>1, <1>2, <1>3, <1>4, <1>5 DEF Init, TypeOK

(* The types of a packet just sent, of which w bytes were written. *)
LEMMA TypeSend ==
    ASSUME TypeOK, conns # 0, NEW n \in Sizes, Len(sent) + n <= MaxBytes,
           NEW c \in Chunks, NEW w \in 0..n,
           data' = [data EXCEPT ![c] = NextBytes(n)], curCnt' = [curCnt EXCEPT ![c] = w],
           sent' = sent \o NextBytes(n)
    PROVE  /\ data' \in [Chunks -> Seq(Bytes)] /\ curCnt' \in [Chunks -> Nat]
           /\ \A x \in Chunks : curCnt'[x] <= Len(data'[x])
           /\ sent' \in Seq(Bytes) /\ Len(sent') = Len(sent) + n /\ Len(sent') <= MaxBytes
<1> DEFINE p == NextBytes(n)
<1>1. p \in Seq(Bytes) /\ Len(p) = n /\ n \in Nat
  BY NewPacket
<1> HIDE DEF p
<1>2. data \in [Chunks -> Seq(Bytes)] /\ curCnt \in [Chunks -> Nat] /\ sent \in Seq(Bytes)
      /\ \A x \in Chunks : curCnt[x] <= Len(data[x])
  BY DEF TypeOK
<1>3. data' \in [Chunks -> Seq(Bytes)] /\ data'[c] = p /\ \A x \in Chunks : x # c => data'[x] = data[x]
  BY <1>1, <1>2 DEF p
<1>4. curCnt' \in [Chunks -> Nat] /\ curCnt'[c] = w /\ \A x \in Chunks : x # c => curCnt'[x] = curCnt[x]
  BY <1>1, <1>2
<1>5. \A x \in Chunks : curCnt'[x] <= Len(data'[x])
  BY <1>1, <1>2, <1>3, <1>4
<1>6. sent' \in Seq(Bytes) /\ Len(sent') = Len(sent) + n
  BY <1>1, <1>2, ConcatFacts DEF p
<1> QED
  BY <1>3, <1>4, <1>5, <1>6


\* The packet that tx completes is the one that is owed longest.
LEMMA OwedHead ==
    ASSUME TypeOK, ConnInv, LoopInv, ByteInv, pc = "write"
    PROVE  /\ mCurChk \in Chunks /\ chk = mCurChk /\ conn # "closed" /\ conns # 0
           /\ owed # <<>> /\ RemoveFirst(owed, Packet(chk)) = Tail(owed)
<1>1. mCurChk # NULL /\ chk = mCurChk
  BY DEF LoopInv
<1>2. conn # "closed" /\ conns # 0
  BY <1>1 DEF ConnInv
<1>3. /\ mCurChk \in Chunks /\ Line[1] = mCurChk /\ Len(Line) = Len(mChks) + 1 /\ Len(mChks) \in Nat
  BY <1>1, LineFacts
<1>4. 1 \in 1..Len(Line)
  BY <1>3
<1>5. Len(owed) = Len(Line) /\ owed[1] = data[Line[1]][1]
  BY <1>2, <1>4 DEF ByteInv, Queued
<1>6. owed \in Seq(Bytes) /\ owed # <<>> /\ owed[1] = Packet(chk)
  BY <1>1, <1>3, <1>4, <1>5 DEF TypeOK, Packet
<1>7. RemoveFirst(owed, owed[1]) = Tail(owed)
  BY <1>6, RemoveFirstHead
<1> QED
  BY <1>1, <1>2, <1>3, <1>6, <1>7

(* tx keeps the types. *)
LEMMA TypeTx ==
    ASSUME TypeOK, ConnInv, LoopInv, ByteInv, NEW w \in 0..MaxBytes, Tx(w)
    PROVE  TypeOK'
<1> DEFINE c == mCurChk
<1> DEFINE r == Len(data[c]) - curCnt[c]
<1>1. c \in Chunks /\ chk = c
  BY DEF Tx, LoopInv, TypeOK
<1>2. data \in [Chunks -> Seq(Bytes)] /\ curCnt \in [Chunks -> Nat]
      /\ \A x \in Chunks : curCnt[x] <= Len(data[x])
  BY DEF TypeOK
<1>3. data[c] \in Seq(Bytes) /\ curCnt[c] \in 0..Len(data[c]) /\ r \in Nat /\ Len(data[c]) \in Nat
  BY <1>1, <1>2
<1>4. w \in Taken(r)
  BY DEF Tx
<1>5. w \in 0..Len(data[c]) - curCnt[c] /\ w \in Nat
  BY <1>3, <1>4, TakenFacts
<1>6. data' = data /\ conn' = conn /\ conns' = conns /\ sent' = sent
      /\ curCnt' = [curCnt EXCEPT ![c] = curCnt[c] + w]
      /\ wire' = wire \o SubSeq(data[c], curCnt[c] + 1, curCnt[c] + w)
  BY DEF Tx, Progress, Offset
<1>7. curCnt' \in [Chunks -> Nat] /\ \A x \in Chunks : curCnt'[x] <= Len(data'[x])
  <2>1. curCnt' \in [Chunks -> Nat] /\ curCnt'[c] = curCnt[c] + w
        /\ \A x \in Chunks : x # c => curCnt'[x] = curCnt[x]
    <3>1. curCnt[c] + w \in Nat
      BY <1>3, <1>5
    <3> HIDE DEF c
    <3> QED
      BY <1>1, <1>2, <1>6, <3>1
  <2>2. curCnt[c] + w <= Len(data[c])
    BY <1>3, <1>5
  <2> QED
    BY <1>2, <1>6, <2>1, <2>2
<1>8. wire' \in Seq(Bytes)
  <2>1. wire \in Seq(Bytes)
    BY DEF TypeOK
  <2>2. SubSeq(data[c], curCnt[c] + 1, curCnt[c] + w) \in Seq(Bytes)
    BY <1>3, <1>5, PartOfPacket
  <2> QED
    BY <1>6, <2>1, <2>2, ConcatFacts
<1>9. /\ mFreeChks' \in Seq(Chunks) /\ mChks' \in Seq(Chunks) /\ mCurChk' \in Chunks \cup {NULL}
      /\ chk' \in Chunks \cup {NULL} /\ mask' \subseteq {"READ", "WRITE", "HANGUP"}
      /\ pc' \in {"idle", "write", "complete"}
  <2>1. CASE w = r
    <3>1. Release(c) /\ NextChunk /\ chk' = mCurChk' /\ pc' = "complete"
      BY <1>1, <2>1 DEF Tx
    <3>2. mFreeChks' \in Seq(Chunks)
      BY <1>1, <3>1, AppendFacts DEF Release, TypeOK
    <3>3. /\ mChks' \in Seq(Chunks) /\ mCurChk' \in Chunks \cup {NULL}
          /\ mask' \subseteq {"READ", "WRITE", "HANGUP"}
      <4>1. CASE mChks # <<>>
        <5>1. mCurChk' = Head(mChks) /\ mChks' = Tail(mChks) /\ mask' = mask
          BY <3>1, <4>1 DEF NextChunk
        <5>2. mChks \in Seq(Chunks) /\ mask \subseteq {"READ", "WRITE", "HANGUP"}
          BY DEF TypeOK
        <5>3. Head(mChks) \in Chunks /\ Tail(mChks) \in Seq(Chunks)
          BY <4>1, <5>2, TailFacts
        <5> QED
          BY <5>1, <5>2, <5>3
      <4>2. CASE mChks = <<>>
        BY <3>1, <4>2 DEF NextChunk, TypeOK
      <4> QED
        BY <4>1, <4>2
    <3> QED
      BY <3>1, <3>2, <3>3
  <2>2. CASE w # r
    BY <2>2 DEF Tx, TypeOK
  <2> QED
    BY <2>1, <2>2
<1>10. owed' \in Seq(Bytes)
  <2>1. CASE w = r
    <3>1. pc = "write" /\ owed' = RemoveFirst(owed, Packet(chk))
      BY <2>1 DEF Tx
    <3>2. owed # <<>> /\ owed' = Tail(owed)
      BY <3>1, OwedHead
    <3> QED
      BY <3>2, TailFacts DEF TypeOK
  <2>2. CASE w # r
    BY <2>2 DEF Tx, TypeOK
  <2> QED
    BY <2>1, <2>2
<1> QED
  BY <1>6, <1>7, <1>8, <1>9, <1>10 DEF TypeOK

(* Every step keeps the types. *)
LEMMA TypeStep ==
    ASSUME TypeOK, ConnInv, LoopInv, ByteInv, [Next]_vars
    PROVE  TypeOK'
<1>1. CASE OpenChannel
  <2>1. mFreeChks' \in Seq(Chunks)
    BY <1>1, ChunksInOrder DEF OpenChannel
  <2>2. sent' \in Seq(Bytes) /\ wire' \in Seq(Bytes) /\ Len(sent') = 0
    BY <1>1 DEF OpenChannel
  <2>3. conns' \in 0..MaxConns /\ Len(sent') <= MaxBytes
    BY <1>1, <2>2, MaxConnsAssumption, MaxBytesAssumption DEF OpenChannel, TypeOK
  <2> QED
    BY <1>1, <2>1, <2>2, <2>3 DEF OpenChannel, TypeOK, loopVars
<1>2. CASE Connected
  BY <1>2 DEF Connected, TypeOK, chunkVars, loopVars, streamVars
<1>3. CASE Ends
  BY <1>3 DEF Ends, TypeOK, chunkVars, loopVars, streamVars
<1>4. CASE CloseChannel
  <2>1. <<>> \in Seq(Chunks) /\ <<>> \in Seq(Bytes) /\ Len(<<>>) = 0
    OBVIOUS
  <2>2. data' \in [Chunks -> Seq(Bytes)] /\ \A c \in Chunks : data'[c] = <<>>
    BY <1>4, <2>1 DEF CloseChannel
  <2>3. curCnt' \in [Chunks -> Nat] /\ \A c \in Chunks : curCnt'[c] = 0
    BY <1>4 DEF CloseChannel
  <2>4. \A c \in Chunks : curCnt'[c] <= Len(data'[c])
    BY <2>1, <2>2, <2>3
  <2> QED
    BY <1>4, <2>1, <2>2, <2>3, <2>4 DEF CloseChannel, TypeOK, loopVars
<1>5. ASSUME NEW n \in Sizes, Enqueue(n) PROVE TypeOK'
  <2> DEFINE c == Head(mFreeChks)
  <2>1. mFreeChks # <<>> /\ mFreeChks \in Seq(Chunks) /\ conns # 0 /\ Len(sent) + n <= MaxBytes
    BY <1>5 DEF Enqueue, MaySend, ConnInv, TypeOK
  <2>2. c \in Chunks /\ Tail(mFreeChks) \in Seq(Chunks)
    BY <2>1, TailFacts
  <2>3. 0 \in 0..n
    BY SizesAssumption
  <2>4. /\ data' = [data EXCEPT ![c] = NextBytes(n)] /\ curCnt' = [curCnt EXCEPT ![c] = 0]
        /\ mChks' = Append(mChks, c) /\ mFreeChks' = Tail(mFreeChks)
        /\ sent' = sent \o NextBytes(n) /\ owed' = Append(owed, NextBytes(n)[1])
    BY <1>5 DEF Enqueue
  <2> HIDE DEF c
  <2>5. /\ data' \in [Chunks -> Seq(Bytes)] /\ curCnt' \in [Chunks -> Nat]
        /\ \A x \in Chunks : curCnt'[x] <= Len(data'[x])
        /\ sent' \in Seq(Bytes) /\ Len(sent') <= MaxBytes
    BY <2>1, <2>2, <2>3, <2>4, TypeSend
  <2>6. owed' \in Seq(Bytes) /\ mChks' \in Seq(Chunks)
    BY <2>1, <2>2, <2>4, NewPacket, AppendFacts DEF TypeOK
  <2> QED
    BY <1>5, <2>2, <2>4, <2>5, <2>6 DEF Enqueue, TypeOK, connVars, loopVars
<1>6. ASSUME NEW n \in Sizes, NEW w \in 0..n, SendNow(n, w) PROVE TypeOK'
  <2> DEFINE c == Head(mFreeChks)
  <2> DEFINE p == NextBytes(n)
  <2>1. mFreeChks # <<>> /\ mFreeChks \in Seq(Chunks) /\ conns # 0 /\ Len(sent) + n <= MaxBytes
    BY <1>6 DEF SendNow, MaySend, ConnInv, TypeOK
  <2>2. c \in Chunks /\ Tail(mFreeChks) \in Seq(Chunks)
    BY <2>1, TailFacts
  <2>3. p \in Seq(Bytes) /\ Len(p) = n /\ p[1] \in Bytes
    BY <2>1, NewPacket
  <2>4. /\ data' = [data EXCEPT ![c] = p] /\ curCnt' = [curCnt EXCEPT ![c] = w]
        /\ sent' = sent \o p /\ wire' = wire \o SubSeq(p, 1, w)
    BY <1>6 DEF SendNow
  <2>5. /\ data' \in [Chunks -> Seq(Bytes)] /\ curCnt' \in [Chunks -> Nat]
        /\ \A x \in Chunks : curCnt'[x] <= Len(data'[x])
        /\ sent' \in Seq(Bytes) /\ Len(sent') <= MaxBytes
    <3> HIDE DEF c
    <3> QED
      BY <2>1, <2>2, <2>4, TypeSend
  <2>6. wire' \in Seq(Bytes)
    <3> HIDE DEF p
    <3>1. SubSeq(p, 1, w) \in Seq(Bytes)
      BY <2>3, HeadOfPacket
    <3> QED
      BY <2>4, <3>1, ConcatFacts DEF TypeOK
  <2>7. /\ mFreeChks' \in Seq(Chunks) /\ mCurChk' \in Chunks \cup {NULL} /\ owed' \in Seq(Bytes)
        /\ mask' \subseteq {"READ", "WRITE", "HANGUP"}
    <3>1. CASE w = n
      <4>1. mFreeChks' = Append(Tail(mFreeChks), c) /\ UNCHANGED <<mCurChk, mask, owed>>
        BY <1>6, <3>1 DEF SendNow
      <4>2. mFreeChks' \in Seq(Chunks)
        BY <2>2, <4>1, AppendFacts
      <4> QED
        BY <4>1, <4>2 DEF TypeOK
    <3>2. CASE w # n
      <4>1. mFreeChks' = Tail(mFreeChks) /\ mCurChk' = c /\ Arm /\ owed' = Append(owed, p[1])
        BY <1>6, <3>2 DEF SendNow
      <4>2. owed' \in Seq(Bytes)
        BY <2>3, <4>1, AppendFacts DEF TypeOK
      <4> QED
        BY <2>2, <4>1, <4>2 DEF Arm
    <3> QED
      BY <3>1, <3>2
  <2>8. UNCHANGED <<conn, mChks, loopVars, conns>>
    BY <1>6 DEF SendNow
  <2> QED
    BY <2>5, <2>6, <2>7, <2>8 DEF TypeOK, loopVars
<1>7. CASE OnWrite
  BY <1>7 DEF OnWrite, TypeOK, connVars, chunkVars, streamVars
<1>8. CASE OnTxCompleteReturns
  BY <1>8 DEF OnTxCompleteReturns, TypeOK, connVars, chunkVars, streamVars
<1>9. CASE Done \/ UNCHANGED vars
  BY <1>9 DEF Done, TypeOK, vars, connVars, chunkVars, loopVars, streamVars
<1> QED
  BY <1>1, <1>2, <1>3, <1>4, <1>5, <1>6, <1>7, <1>8, <1>9, TypeTx DEF Next

-----------------------------------------------------------------------------
(***************************************************************************)
(* The connection, the loop of OnWrite and the events asked for.           *)
(***************************************************************************)

(* Every step keeps what relates connection, loop variables and mask. *)
LEMMA ControlStep ==
    ASSUME TypeOK, ConnInv, LoopInv, ArmInv, [Next]_vars
    PROVE  ConnInv' /\ LoopInv' /\ ArmInv'
<1>1. CASE OpenChannel
  <2>1. conns' # 0
    BY <1>1 DEF OpenChannel, TypeOK
  <2> QED
    BY <1>1, <2>1 DEF OpenChannel, ConnInv, LoopInv, ArmInv, loopVars
<1>2. CASE Connected
  BY <1>2 DEF Connected, ConnInv, LoopInv, ArmInv, chunkVars, loopVars, streamVars
<1>3. CASE Ends
  BY <1>3 DEF Ends, ConnInv, LoopInv, ArmInv, chunkVars, loopVars, streamVars
<1>4. CASE CloseChannel
  BY <1>4 DEF CloseChannel, ConnInv, LoopInv, ArmInv, loopVars
<1>5. ASSUME NEW n \in Sizes, Enqueue(n) PROVE ConnInv' /\ LoopInv' /\ ArmInv'
  BY <1>5 DEF Enqueue, MaySend, ConnInv, LoopInv, ArmInv, connVars, loopVars
<1>6. ASSUME NEW n \in Sizes, NEW w \in 0..n, SendNow(n, w) PROVE ConnInv' /\ LoopInv' /\ ArmInv'
  <2>1. /\ conn \in {"up", "over"} /\ pc \in {"idle", "complete"} /\ mCurChk = NULL
        /\ UNCHANGED <<conn, mChks, loopVars, conns>>
    BY <1>6 DEF SendNow, MaySend
  <2>2. CASE w = n
    BY <1>6, <2>1, <2>2 DEF SendNow, ConnInv, LoopInv, ArmInv, loopVars
  <2>3. CASE w # n
    <3>1. mCurChk' = Head(mFreeChks) /\ mask' = {"READ", "WRITE"} /\ mFreeChks # <<>>
      BY <1>6, <2>3 DEF SendNow, Arm
    <3>2. Head(mFreeChks) \in Chunks
      BY <3>1, TailFacts DEF TypeOK
    <3>3. mCurChk' # NULL
      BY <3>1, <3>2, ChunksAssumption
    <3>4. pc = "complete" => chk = NULL
      BY <2>1 DEF LoopInv
    <3> QED
      BY <2>1, <3>1, <3>3, <3>4 DEF ConnInv, LoopInv, ArmInv, loopVars
  <2> QED
    BY <2>2, <2>3
<1>7. CASE OnWrite
  BY <1>7 DEF OnWrite, ConnInv, LoopInv, ArmInv, connVars, chunkVars, streamVars
<1>8. CASE OnTxCompleteReturns
  BY <1>8 DEF OnTxCompleteReturns, ConnInv, LoopInv, ArmInv, connVars, chunkVars, streamVars
<1>9. ASSUME NEW w \in 0..MaxBytes, Tx(w) PROVE ConnInv' /\ LoopInv' /\ ArmInv'
  <2> DEFINE r == Len(data[mCurChk]) - curCnt[mCurChk]
  <2>1. pc = "write" /\ UNCHANGED <<conn, conns>>
    BY <1>9 DEF Tx
  <2>2. mCurChk # NULL /\ conn # "closed" /\ conn # "connecting"
    BY <2>1 DEF LoopInv, ConnInv
  <2>3. CASE w = r
    <3>1. NextChunk /\ chk' = mCurChk' /\ pc' = "complete"
      BY <1>9, <2>3 DEF Tx
    <3>2. CASE mChks # <<>>
      <4>1. mCurChk' = Head(mChks) /\ mask' = mask
        BY <3>1, <3>2 DEF NextChunk
      <4>2. Head(mChks) \in Chunks
        BY <3>2, TailFacts DEF TypeOK
      <4>3. mCurChk' # NULL
        BY <4>1, <4>2, ChunksAssumption
      <4> QED
        BY <2>1, <2>2, <3>1, <4>1, <4>3 DEF ConnInv, LoopInv, ArmInv
    <3>3. CASE mChks = <<>>
      <4>1. mCurChk' = NULL /\ mask' = {"READ"} /\ mChks' = mChks
        BY <3>1, <3>3 DEF NextChunk
      <4> QED
        BY <2>1, <2>2, <3>1, <3>3, <4>1 DEF ConnInv, LoopInv, ArmInv
    <3> QED
      BY <3>2, <3>3
  <2>4. CASE w # r
    <3>1. pc' = "idle" /\ UNCHANGED <<mChks, mCurChk, mask>>
      BY <1>9, <2>4 DEF Tx
    <3> QED
      BY <2>1, <2>2, <3>1 DEF ConnInv, LoopInv, ArmInv
  <2> QED
    BY <2>3, <2>4
<1>10. CASE Done \/ UNCHANGED vars
  BY <1>10 DEF Done, ConnInv, LoopInv, ArmInv, vars, connVars, chunkVars, loopVars, streamVars
<1> QED
  BY <1>1, <1>2, <1>3, <1>4, <1>5, <1>6, <1>7, <1>8, <1>9, <1>10 DEF Next

-----------------------------------------------------------------------------
(***************************************************************************)
(* What has been written.                                                  *)
(***************************************************************************)

(* Adding the bytes written to both sides of the count of what is behind. *)
LEMMA AddBoth ==
    ASSUME NEW w \in Nat, NEW a \in Nat, NEW x \in Nat, NEW n \in Nat, w + 1 = a + x
    PROVE  w + n + 1 = a + (x + n)
OBVIOUS

\* A packet joins the line behind another.
LEMMA WrittenAppend ==
    ASSUME NEW l \in Seq(Chunks), NEW d \in [Chunks -> Seq(Bytes)], NEW o \in Seq(Bytes),
           NEW cnt \in [Chunks -> Nat], NEW w \in Nat, NEW end, NEW e2, NEW c \in Chunks,
           NEW p \in Seq(Bytes), NEW b \in Bytes, Len(o) = Len(l), l # <<>>,
           Written(l, d, cnt, o, w, end), c \notin Elems(l)
    PROVE  Written(Append(l, c), [d EXCEPT ![c] = p], [cnt EXCEPT ![c] = 0], Append(o, b), w, e2)
<1> DEFINE m == Append(l, c)
<1> DEFINE f == [d EXCEPT ![c] = p]
<1> DEFINE g == [cnt EXCEPT ![c] = 0]
<1> DEFINE q == Append(o, b)
<1>1. /\ m \in Seq(Chunks) /\ Len(m) = Len(l) + 1 /\ Len(l) \in Nat
      /\ \A i \in 1..Len(l) : m[i] = l[i]
      /\ m[Len(l) + 1] = c
  BY AppendFacts
<1>2. \A i \in 1..Len(o) : q[i] = o[i]
  BY AppendFacts
<1>3. f[c] = p /\ \A x \in Chunks : x # c => f[x] = d[x]
  OBVIOUS
<1>4. g[c] = 0 /\ \A x \in Chunks : x # c => g[x] = cnt[x]
  OBVIOUS
<1>5. \A i \in 1..Len(l) : l[i] # c /\ l[i] \in Chunks
  BY ElemsIn
<1>6. 1 \in 1..Len(l)
  OBVIOUS
<1> HIDE DEF m, f, g, q
<1>7. m # <<>>
  <2>1. Len(m) # 0
    BY <1>1
  <2> QED
    BY <1>1, <2>1, EmptyByLength
<1>8. m[1] = l[1] /\ q[1] = o[1] /\ f[m[1]] = d[l[1]] /\ g[m[1]] = cnt[l[1]]
  BY <1>1, <1>2, <1>3, <1>4, <1>5, <1>6
<1>9. w + 1 = q[1][2] + g[m[1]] /\ g[m[1]] < Len(f[m[1]])
  BY <1>8 DEF Written
<1>10. ASSUME NEW i \in 2..Len(m) PROVE g[m[i]] = 0
  <2>1. CASE i \in 2..Len(l)
    <3>1. i \in 1..Len(l)
      BY <2>1
    <3>2. g[m[i]] = cnt[l[i]]
      BY <1>1, <1>4, <1>5, <3>1
    <3> QED
      BY <2>1, <3>2 DEF Written
  <2>2. CASE i = Len(l) + 1
    BY <1>1, <1>4, <2>2
  <2>3. i \in 2..Len(l) \/ i = Len(l) + 1
    BY <1>1
  <2> QED
    BY <2>1, <2>2, <2>3
<1>11. Written(m, f, g, q, w, e2)
  BY <1>7, <1>9, <1>10 DEF Written
<1> QED
  BY <1>11 DEF m, f, g, q

\* A packet of which n bytes were written joins an empty line.
LEMMA WrittenFirst ==
    ASSUME NEW d \in [Chunks -> Seq(Bytes)], NEW cnt \in [Chunks -> Nat], NEW c \in Chunks,
           NEW p \in Seq(Bytes), NEW b \in Bytes, NEW w \in Nat, NEW n \in Nat, NEW e2,
           b[2] = w + 1, n < Len(p)
    PROVE  Written(<<c>>, [d EXCEPT ![c] = p], [cnt EXCEPT ![c] = n], <<b>>, w + n, e2)
<1> DEFINE l == <<c>>
<1> DEFINE o == <<b>>
<1> DEFINE f == [d EXCEPT ![c] = p]
<1> DEFINE g == [cnt EXCEPT ![c] = n]
<1>1. l # <<>> /\ Len(l) = 1 /\ l[1] = c /\ o[1] = b
  OBVIOUS
<1>2. f[c] = p /\ g[c] = n
  OBVIOUS
<1> HIDE DEF l, o, f, g
<1>3. w + n + 1 = o[1][2] + g[l[1]] /\ g[l[1]] < Len(f[l[1]])
  <2>1. w + n + 1 = (w + 1) + n
    OBVIOUS
  <2> QED
    BY <1>1, <1>2, <2>1
<1>4. \A i \in 2..Len(l) : g[l[i]] = 0
  BY <1>1
<1>5. Written(l, f, g, o, w + n, e2)
  BY <1>1, <1>3, <1>4 DEF Written
<1> QED
  BY <1>5 DEF l, o, f, g

\* More of the first packet is written, but not all.
LEMMA WrittenMore ==
    ASSUME NEW l \in Seq(Chunks), l # <<>>, NEW d \in [Chunks -> Seq(Bytes)], NEW o \in Seq(Bytes),
           Len(o) = Len(l), Distinct(l),
           NEW cnt \in [Chunks -> Nat], NEW w \in Nat, NEW end, NEW n \in Nat,
           Written(l, d, cnt, o, w, end), cnt[l[1]] + n < Len(d[l[1]])
    PROVE  Written(l, d, [cnt EXCEPT ![l[1]] = cnt[l[1]] + n], o, w + n, end)
<1> DEFINE c == l[1]
<1> DEFINE x == cnt[c] + n
<1> DEFINE g == [cnt EXCEPT ![c] = x]
<1>1. c \in Chunks /\ 1 \in 1..Len(l) /\ Len(l) \in Nat /\ cnt[c] \in Nat
  OBVIOUS
<1>2. g[c] = x /\ \A y \in Chunks : y # c => g[y] = cnt[y]
  BY <1>1
<1>3. o[1][2] \in Nat
  <2>1. o[1] \in Bytes
    BY <1>1
  <2> QED
    BY <2>1, ByteFacts
<1>4. w + 1 = o[1][2] + cnt[c] /\ \A i \in 2..Len(l) : cnt[l[i]] = 0
  BY DEF Written
<1>5. w + n + 1 = o[1][2] + x
  <2> DEFINE a == o[1][2]
  <2> DEFINE y == cnt[c]
  <2>1. w \in Nat /\ a \in Nat /\ y \in Nat /\ n \in Nat /\ w + 1 = a + y
    BY <1>1, <1>3, <1>4
  <2> HIDE DEF a, y
  <2>2. w + n + 1 = a + (y + n)
    BY <2>1, AddBoth
  <2> QED
    BY <2>2 DEF a, y
<1>6. \A i \in 2..Len(l) : l[i] # c /\ l[i] \in Chunks
  <2>1. ASSUME NEW i \in 2..Len(l) PROVE i \in 1..Len(l) /\ i # 1
    BY <1>1
  <2> QED
    BY <1>1, <2>1 DEF Distinct
<1> HIDE DEF g
<1>7. \A i \in 2..Len(l) : g[l[i]] = 0
  BY <1>2, <1>4, <1>6
<1>8. Written(l, d, g, o, w + n, end)
  BY <1>2, <1>5, <1>7 DEF Written
<1> QED
  BY <1>8 DEF g

\* The first packet is written to its end.
LEMMA WrittenTail ==
    ASSUME NEW l \in Seq(Chunks), l # <<>>, NEW d \in [Chunks -> Seq(Bytes)], NEW o \in Seq(Bytes),
           Distinct(l), NEW k, NEW cnt \in [Chunks -> Nat], NEW w \in Nat, NEW end \in Nat, NEW n \in Nat,
           Queued(l, d, o, k, end), Written(l, d, cnt, o, w, end), cnt[l[1]] + n = Len(d[l[1]])
    PROVE  Written(Tail(l), d, [cnt EXCEPT ![l[1]] = cnt[l[1]] + n], Tail(o), w + n, end)
<1> DEFINE c == l[1]
<1> DEFINE x == cnt[c] + n
<1> DEFINE g == [cnt EXCEPT ![c] = x]
<1> DEFINE m == Tail(l)
<1> DEFINE q == Tail(o)
<1>1. c \in Chunks /\ 1 \in 1..Len(l) /\ Len(l) \in Nat /\ cnt[c] \in Nat
  OBVIOUS
<1>2. \A y \in Chunks : y # c => g[y] = cnt[y]
  BY <1>1
<1>3. Len(o) = Len(l) /\ o # <<>>
  BY <1>1 DEF Queued
<1>4. /\ Len(m) = Len(l) - 1 /\ m \in Seq(Chunks) /\ \A i \in 1..Len(l) - 1 : m[i] = l[i + 1]
  BY TailFacts
<1>5. \A i \in 1..Len(l) - 1 : q[i] = o[i + 1]
  BY <1>3, TailFacts
<1>6. o[1][2] \in Nat
  <2>1. o[1] \in Bytes
    BY <1>1, <1>3
  <2> QED
    BY <2>1, ByteFacts
<1>7. w + 1 = o[1][2] + cnt[c] /\ \A i \in 2..Len(l) : cnt[l[i]] = 0
  BY DEF Written
<1>8. w + n + 1 = o[1][2] + Len(d[c])
  <2> DEFINE a == o[1][2]
  <2> DEFINE y == cnt[c]
  <2>1. w + n + 1 = a + (y + n)
    <3>1. w \in Nat /\ a \in Nat /\ y \in Nat /\ n \in Nat /\ w + 1 = a + y
      BY <1>1, <1>6, <1>7
    <3> HIDE DEF a, y
    <3> QED
      BY <3>1, AddBoth
  <2> QED
    BY <2>1
<1>9. o[1][2] + Len(d[c]) = IF 1 = Len(l) THEN end + 1 ELSE o[1 + 1][2]
  BY <1>1 DEF Queued
<1> HIDE DEF g, m, q
<1>10. CASE Len(l) = 1
  <2>1. m = <<>>
    BY <1>4, <1>10
  <2>2. w + n = end
    BY <1>8, <1>9, <1>10, SMTT(30)
  <2> QED
    BY <2>1, <2>2 DEF Written, g, m, q
<1>11. CASE Len(l) # 1
  <2>1. m # <<>> /\ m[1] = l[2] /\ q[1] = o[2] /\ 2 \in 1..Len(l) /\ 2 \in 2..Len(l)
    <3>1. 1 \in 1..Len(l) - 1 /\ 2 \in 1..Len(l) /\ 2 \in 2..Len(l) /\ Len(l) - 1 # 0
      <4> DEFINE N == Len(l)
      <4>1. N \in Nat /\ 1 \in 1..N /\ N # 1
        BY <1>1, <1>11
      <4> HIDE DEF N
      <4>2. 1 \in 1..N - 1 /\ 2 \in 1..N /\ 2 \in 2..N /\ N - 1 # 0
        BY <4>1
      <4> QED
        BY <4>2 DEF N
    <3>2. m # <<>>
      BY <1>4, <3>1, EmptyByLength
    <3>3. m[1] = l[1 + 1] /\ q[1] = o[1 + 1]
      BY <1>4, <1>5, <3>1
    <3> QED
      BY <3>1, <3>2, <3>3
  <2>2. l[2] # c /\ l[2] \in Chunks
    BY <1>1, <2>1 DEF Distinct
  <2>3. g[m[1]] = 0
    BY <1>2, <1>7, <2>1, <2>2
  <2>4. w + n + 1 = q[1][2] + g[m[1]]
    <3>1. o[2][2] \in Nat
      <4>1. o[2] \in Bytes
        BY <1>3, <2>1
      <4> QED
        BY <4>1, ByteFacts
    <3>2. w + n + 1 = o[2][2]
      BY <1>8, <1>9, <1>11
    <3> QED
      BY <2>1, <2>3, <3>1, <3>2
  <2>5. g[m[1]] < Len(d[m[1]])
    <3>1. d[l[2]] # <<>> /\ d[l[2]] \in Seq(Bytes)
      BY <2>1, <2>2 DEF Queued
    <3>2. Len(d[l[2]]) > 0
      BY <3>1
    <3> QED
      BY <2>1, <2>3, <3>2
  <2>6. ASSUME NEW i \in 2..Len(m) PROVE g[m[i]] = 0
    <3>0. i \in 1..Len(l) - 1 /\ i + 1 \in 1..Len(l) /\ i + 1 \in 2..Len(l) /\ i + 1 # 1
      BY <1>1, <1>4
    <3>1. m[i] = l[i + 1]
      BY <1>4, <3>0
    <3>2. l[i + 1] # c /\ l[i + 1] \in Chunks
      BY <1>1, <3>0 DEF Distinct
    <3> QED
      BY <1>2, <1>7, <3>0, <3>1, <3>2
  <2>7. Written(m, d, g, q, w + n, end)
    BY <2>1, <2>4, <2>5, <2>6 DEF Written
  <2> QED
    BY <2>7 DEF g, m, q
<1> QED
  BY <1>10, <1>11

\* The part of a packet that tx writes continues the numbering.
LEMMA PartNumbered ==
    ASSUME NEW s \in Seq(Bytes), NEW k, NEW f \in Nat, NEW c \in 0..Len(s), NEW n \in 0..Len(s) - c,
           From(s, k, f)
    PROVE  From(SubSeq(s, c + 1, c + n), k, f + c)
<1> DEFINE t == SubSeq(s, c + 1, c + n)
<1>1. Len(t) = n /\ \A i \in 1..n : t[i] = s[c + i]
  BY PartOfPacket
<1> HIDE DEF t
<1>2. ASSUME NEW i \in 1..n PROVE t[i] = <<k, f + c + i - 1>>
  <2>1. c + i \in 1..Len(s) /\ f + (c + i) - 1 = f + c + i - 1
    OBVIOUS
  <2>2. s[c + i] = <<k, f + (c + i) - 1>>
    BY <2>1 DEF From
  <2> QED
    BY <1>1, <2>1, <2>2
<1>3. From(t, k, f + c)
  BY <1>1, <1>2 DEF From
<1> QED
  BY <1>3 DEF t

-----------------------------------------------------------------------------
(***************************************************************************)
(* The chunks and the bytes.                                               *)
(***************************************************************************)

(* A chunk appended to the queue is appended to the line. *)
LEMMA LineByQueue ==
    ASSUME NEW m, NEW q \in Seq(Chunks), NEW c \in Chunks, m \in Chunks
    PROVE  <<m>> \o Append(q, c) = Append(<<m>> \o q, c)
OBVIOUS

(* A non-empty queue is its head and its tail. *)
LEMMA HeadAndTail ==
    ASSUME NEW q \in Seq(Chunks), q # <<>>
    PROVE  <<Head(q)>> \o Tail(q) = q
OBVIOUS

(* A packet sent while none is queued is alone in the line. *)
LEMMA AloneInLine ==
    ASSUME NEW S, NEW c \in S
    PROVE  <<c>> \o <<>> = <<c>> /\ Append(<<>>, c) = <<c>>
OBVIOUS

(* init: all chunks are free, nothing was sent. *)
LEMMA OpenStep ==
    ASSUME TypeOK, ConnInv, OpenChannel
    PROVE  ChunkInv' /\ ByteInv'
<1>1. Line' = <<>> /\ owed' = <<>> /\ sent' = <<>> /\ wire' = <<>> /\ mFreeChks' = SetToSeq(Chunks)
  BY DEF OpenChannel, ConnInv, Line
<1>2. Partition(SetToSeq(Chunks), <<>>)
  <2> DEFINE s == SetToSeq(Chunks)
  <2>1. /\ Len(s) = Cardinality(Chunks) /\ Distinct(s)
        /\ Elems(s) = Chunks /\ Cardinality(Chunks) \in Nat
    BY ChunksInOrder
  <2> HIDE DEF s
  <2>2. Len(<<>>) = 0 /\ Elems(<<>>) = {} /\ Distinct(<<>>)
    BY EmptyFacts
  <2>3. Partition(s, <<>>)
    BY <2>1, <2>2 DEF Partition
  <2> QED
    BY <2>3 DEF s
<1>3. \A k : From(<<>>, k, 1)
  BY DEF From
<1>4. ByteInv'
  BY <1>1, <1>3, QueuedNone DEF ByteInv, Written
<1> QED
  BY <1>1, <1>2, <1>4 DEF ChunkInv

(* sendPacket while another packet is being written. *)
LEMMA EnqueueStep ==
    ASSUME TypeOK, ConnInv, ChunkInv, ByteInv, NEW n \in Sizes, Enqueue(n)
    PROVE  ChunkInv' /\ ByteInv'
<1> DEFINE c == Head(mFreeChks)
<1> DEFINE p == NextBytes(n)
<1>1. /\ conn # "closed" /\ mFreeChks # <<>> /\ mCurChk # NULL /\ Len(sent) + n <= MaxBytes
      /\ data' = [data EXCEPT ![c] = p] /\ curCnt' = [curCnt EXCEPT ![c] = 0]
      /\ mChks' = Append(mChks, c) /\ mFreeChks' = Tail(mFreeChks)
      /\ sent' = sent \o p /\ owed' = Append(owed, p[1])
      /\ conn' = conn /\ mCurChk' = mCurChk /\ conns' = conns /\ wire' = wire
  BY DEF Enqueue, MaySend, connVars
<1>2. /\ mFreeChks \in Seq(Chunks) /\ mChks \in Seq(Chunks) /\ data \in [Chunks -> Seq(Bytes)]
      /\ curCnt \in [Chunks -> Nat] /\ sent \in Seq(Bytes) /\ wire \in Seq(Bytes) /\ owed \in Seq(Bytes)
      /\ conns # 0
  BY <1>1 DEF TypeOK, ConnInv
<1>3. c \in Chunks
  BY <1>1, <1>2, TailFacts
<1>4. /\ p \in Seq(Bytes) /\ Len(p) = n /\ n \in Nat /\ p # <<>> /\ p[1] \in Bytes
      /\ Len(sent) \in Nat /\ From(p, conns, Len(sent) + 1)
  BY <1>1, <1>2, NewPacket
<1>5. Line \in Seq(Chunks) /\ Line # <<>> /\ mCurChk \in Chunks
  BY <1>1, LineFacts
<1>6. Line' = Append(Line, c)
  <2>1. Line' = <<mCurChk>> \o Append(mChks, c) /\ Line = <<mCurChk>> \o mChks
    BY <1>1 DEF Line
  <2> QED
    BY <1>2, <1>3, <1>5, <2>1, LineByQueue
<1>7. Partition(mFreeChks, Line)
  BY <1>1 DEF ChunkInv
<1>8. c \notin Elems(Line)
  <2>1. c \in Elems(mFreeChks)
    BY <1>1, <1>2, <1>7, TailElems DEF Partition
  <2> QED
    BY <1>7, <2>1 DEF Partition
<1>9. Partition(Tail(mFreeChks), Append(Line, c))
  BY <1>1, <1>2, <1>5, <1>7, MoveHead
<1>10. /\ From(sent, conns, 1) /\ From(wire, conns, 1)
       /\ Queued(Line, data, owed, conns, Len(sent))
       /\ Written(Line, data, curCnt, owed, Len(wire), Len(sent))
  BY <1>1 DEF ByteInv
<1> HIDE DEF c, p
<1>11. From(sent \o p, conns, 1)
  BY <1>2, <1>4, <1>10, NumberedConcat
<1>12. Len(sent \o p) = Len(sent) + Len(p)
  BY <1>2, <1>4, ConcatFacts
<1>13. Queued(Append(Line, c), [data EXCEPT ![c] = p], Append(owed, p[1]), conns, Len(sent) + Len(p))
  BY <1>2, <1>3, <1>4, <1>5, <1>8, <1>10, QueuedAppend
<1>14. Len(owed) = Len(Line) /\ Len(wire) \in Nat
  BY <1>2, <1>10 DEF Queued
<1>15. Written(Append(Line, c), [data EXCEPT ![c] = p], [curCnt EXCEPT ![c] = 0],
               Append(owed, p[1]), Len(wire), Len(sent) + Len(p))
  <2> DEFINE b == p[1]
  <2> DEFINE e == Len(sent)
  <2> DEFINE e2 == Len(sent) + Len(p)
  <2>1. b \in Bytes /\ Written(Line, data, curCnt, owed, Len(wire), e)
    BY <1>4, <1>10
  <2> HIDE DEF b, e, e2
  <2>2. Written(Append(Line, c), [data EXCEPT ![c] = p], [curCnt EXCEPT ![c] = 0],
                Append(owed, b), Len(wire), e2)
    BY <1>2, <1>3, <1>4, <1>5, <1>8, <1>14, <2>1, WrittenAppend
  <2> QED
    BY <2>2 DEF b, e2
<1>16. ByteInv'
  BY <1>1, <1>6, <1>10, <1>11, <1>12, <1>13, <1>15 DEF ByteInv
<1> QED
  BY <1>1, <1>6, <1>9, <1>16 DEF ChunkInv

(* sendPacket that writes at once, all or a part. *)
LEMMA SendNowStep ==
    ASSUME TypeOK, ConnInv, ChunkInv, ByteInv, NEW n \in Sizes, NEW w \in 0..n, SendNow(n, w)
    PROVE  ChunkInv' /\ ByteInv'
<1> DEFINE c == Head(mFreeChks)
<1> DEFINE p == NextBytes(n)
<1>1. /\ conn # "closed" /\ mFreeChks # <<>> /\ mCurChk = NULL /\ Len(sent) + n <= MaxBytes
      /\ data' = [data EXCEPT ![c] = p] /\ curCnt' = [curCnt EXCEPT ![c] = w]
      /\ mChks' = mChks /\ sent' = sent \o p /\ wire' = wire \o SubSeq(p, 1, w)
      /\ conn' = conn /\ conns' = conns
  BY DEF SendNow, MaySend
<1>2. /\ mFreeChks \in Seq(Chunks) /\ data \in [Chunks -> Seq(Bytes)]
      /\ curCnt \in [Chunks -> Nat] /\ sent \in Seq(Bytes) /\ wire \in Seq(Bytes) /\ owed \in Seq(Bytes)
      /\ conns # 0 /\ mChks = <<>>
  BY <1>1 DEF TypeOK, ConnInv
<1>3. c \in Chunks
  BY <1>1, <1>2, TailFacts
<1>4. /\ p \in Seq(Bytes) /\ Len(p) = n /\ n \in Nat /\ p # <<>> /\ p[1] \in Bytes /\ n > 0
      /\ Len(sent) \in Nat /\ From(p, conns, Len(sent) + 1)
  BY <1>1, <1>2, NewPacket
<1>5. Line = <<>> /\ Line \in Seq(Chunks)
  BY <1>1, LineFacts
<1>6. Partition(mFreeChks, <<>>)
  BY <1>1, <1>5 DEF ChunkInv
<1>7. /\ From(sent, conns, 1) /\ From(wire, conns, 1)
      /\ Queued(<<>>, data, owed, conns, Len(sent)) /\ Len(wire) = Len(sent)
  BY <1>1, <1>5 DEF ByteInv, Written
<1>8. owed = <<>>
  <2>1. Len(owed) = 0
    BY <1>7 DEF Queued
  <2> QED
    BY <1>2, <2>1
<1>9. p[1][2] = Len(wire) + 1
  <2>1. 1 \in 1..Len(p)
    BY <1>4
  <2>2. p[1] = <<conns, Len(sent) + 1 + 1 - 1>>
    BY <1>4, <2>1 DEF From
  <2>3. Len(sent) + 1 + 1 - 1 = Len(sent) + 1
    BY <1>4
  <2> QED
    BY <1>7, <2>2, <2>3
<1> HIDE DEF c, p
<1>10. From(sent \o p, conns, 1) /\ Len(sent \o p) = Len(sent) + n
  BY <1>2, <1>4, <1>7, NumberedConcat, ConcatFacts
<1>11. w \in Nat /\ w \in 0..Len(p)
  BY <1>4
<1>12. SubSeq(p, 1, w) \in Seq(Bytes) /\ Len(SubSeq(p, 1, w)) = w
  BY <1>4, <1>11, HeadOfPacket
<1>13. From(SubSeq(p, 1, w), conns, Len(wire) + 1)
  <2> DEFINE t == SubSeq(p, 1, w)
  <2>1. Len(t) = w /\ \A i \in 1..w : t[i] = p[i]
    BY <1>4, <1>11, HeadOfPacket
  <2>2. \A i \in 1..w : i \in 1..Len(p)
    BY <1>4
  <2> HIDE DEF t
  <2>3. From(t, conns, Len(sent) + 1)
    BY <1>4, <2>1, <2>2 DEF From
  <2> QED
    BY <1>7, <2>3 DEF t
<1>14. /\ From(wire \o SubSeq(p, 1, w), conns, 1)
       /\ Len(wire \o SubSeq(p, 1, w)) = Len(wire) + w
  BY <1>2, <1>7, <1>12, <1>13, NumberedConcat, ConcatFacts, ZenonT(30)
<1>15. CASE w = n
  <2>1. mFreeChks' = Append(Tail(mFreeChks), c) /\ mCurChk' = mCurChk /\ owed' = owed
    BY <1>15 DEF SendNow, c
  <2>2. Line' = <<>>
    BY <1>1, <2>1 DEF Line
  <2>3. Partition(Append(Tail(mFreeChks), c), <<>>)
    <3>1. <<>> \in Seq(Chunks)
      OBVIOUS
    <3> QED
      BY <1>1, <1>2, <1>6, <3>1, Rotate DEF c
  <2>4. Queued(<<>>, data', <<>>, conns, Len(sent'))
    BY QueuedNone
  <2>5. Len(wire') = Len(sent')
    BY <1>1, <1>7, <1>10, <1>14, <1>15
  <2>6. Written(<<>>, data', curCnt', <<>>, Len(wire'), Len(sent'))
    BY <2>5 DEF Written
  <2>7. ByteInv'
    BY <1>1, <1>8, <1>10, <1>14, <2>1, <2>2, <2>4, <2>6 DEF ByteInv
  <2> QED
    BY <2>1, <2>2, <2>3, <2>7 DEF ChunkInv
<1>16. CASE w # n
  <2>1. mFreeChks' = Tail(mFreeChks) /\ mCurChk' = c /\ owed' = Append(owed, p[1])
    BY <1>16 DEF SendNow, c, p
  <2>2. Line' = <<c>> /\ Append(<<>>, c) = <<c>>
    <3>1. Line' = <<c>> \o <<>>
      BY <1>1, <1>2, <1>3, <2>1, ChunksAssumption DEF Line
    <3> QED
      BY <1>3, <3>1, AloneInLine
  <2>3. Partition(Tail(mFreeChks), <<c>>)
    <3>1. <<>> \in Seq(Chunks)
      OBVIOUS
    <3>2. Partition(Tail(mFreeChks), Append(<<>>, c))
      BY <1>1, <1>2, <1>6, <3>1, MoveHead DEF c
    <3> QED
      BY <2>2, <3>2
  <2>4. owed' = <<p[1]>>
    BY <1>4, <1>8, <2>1, AloneInLine
  <2>5. Queued(Append(<<>>, c), [data EXCEPT ![c] = p], Append(<<>>, p[1]), conns, Len(sent) + Len(p))
    <3>1. <<>> \in Seq(Chunks) /\ <<>> \in Seq(Bytes) /\ c \notin Elems(<<>>)
      BY EmptyFacts
    <3>2. Queued(<<>>, data, <<>>, conns, Len(sent))
      BY QueuedNone
    <3> DEFINE z == <<>>
    <3> HIDE DEF z
    <3>3. Queued(Append(z, c), [data EXCEPT ![c] = p], Append(z, p[1]), conns, Len(sent) + Len(p))
      BY <1>2, <1>3, <1>4, <3>1, <3>2, QueuedAppend DEF z
    <3> QED
      BY <3>3 DEF z
  <2>6. Queued(<<c>>, data', <<p[1]>>, conns, Len(sent) + n)
    BY <1>1, <1>4, <2>2, <2>5, AloneInLine
  <2>7. Written(<<c>>, [data EXCEPT ![c] = p], [curCnt EXCEPT ![c] = w], <<p[1]>>,
                Len(wire) + w, Len(sent) + n)
    <3> DEFINE b == p[1]
    <3> DEFINE v == Len(wire)
    <3> DEFINE e2 == Len(sent) + n
    <3>1. b \in Bytes /\ v \in Nat /\ b[2] = v + 1 /\ w < Len(p)
      BY <1>2, <1>4, <1>9, <1>11, <1>16
    <3> HIDE DEF b, v, e2
    <3>2. Written(<<c>>, [data EXCEPT ![c] = p], [curCnt EXCEPT ![c] = w], <<b>>, v + w, e2)
      BY <1>2, <1>3, <1>4, <1>11, <3>1, WrittenFirst
    <3> QED
      BY <3>2 DEF b, v, e2
  <2>8. ByteInv'
    BY <1>1, <1>10, <1>14, <2>2, <2>4, <2>6, <2>7 DEF ByteInv
  <2> QED
    BY <2>1, <2>2, <2>3, <2>8 DEF ChunkInv
<1> QED
  BY <1>15, <1>16

(* tx of the current packet, all or a part of what is left. *)
LEMMA TxStep ==
    ASSUME TypeOK, ConnInv, LoopInv, ChunkInv, ByteInv, NEW w \in 0..MaxBytes, Tx(w)
    PROVE  ChunkInv' /\ ByteInv'
<1> DEFINE c == mCurChk
<1> DEFINE x == curCnt[c]
<1> DEFINE part == SubSeq(data[c], x + 1, x + w)
<1>1. pc = "write" /\ data' = data /\ conn' = conn /\ conns' = conns /\ sent' = sent
      /\ curCnt' = [curCnt EXCEPT ![c] = x + w] /\ wire' = wire \o part
  BY DEF Tx, Progress, Offset
<1>2. /\ c \in Chunks /\ chk = c /\ conn # "closed" /\ owed # <<>>
      /\ RemoveFirst(owed, Packet(chk)) = Tail(owed)
  BY <1>1, OwedHead
<1>3. /\ mFreeChks \in Seq(Chunks) /\ mChks \in Seq(Chunks) /\ data \in [Chunks -> Seq(Bytes)]
      /\ curCnt \in [Chunks -> Nat] /\ sent \in Seq(Bytes) /\ wire \in Seq(Bytes) /\ owed \in Seq(Bytes)
      /\ \A y \in Chunks : curCnt[y] <= Len(data[y])
  BY DEF TypeOK
<1>4. data[c] \in Seq(Bytes) /\ x \in Nat /\ Len(data[c]) \in Nat /\ x \in 0..Len(data[c])
  BY <1>2, <1>3
<1>5. w \in 0..Len(data[c]) - x /\ w \in Nat
  <2>1. Len(data[c]) - x \in Nat
    BY <1>4
  <2>2. w \in Taken(Len(data[c]) - x)
    BY DEF Tx
  <2> QED
    BY <2>1, <2>2, TakenFacts
<1>6. /\ Line \in Seq(Chunks) /\ Line # <<>> /\ Line[1] = c /\ Head(Line) = c /\ Tail(Line) = mChks
      /\ Len(Line) \in Nat /\ 1 \in 1..Len(Line)
  <2>1. c # NULL
    BY <1>2, ChunksAssumption
  <2>2. Line \in Seq(Chunks) /\ Line # <<>> /\ Line[1] = c /\ Head(Line) = c /\ Tail(Line) = mChks
    BY <2>1, LineFacts
  <2> QED
    BY <2>2, TailFacts
<1>7. /\ From(sent, conns, 1) /\ From(wire, conns, 1)
      /\ Queued(Line, data, owed, conns, Len(sent))
      /\ Written(Line, data, curCnt, owed, Len(wire), Len(sent))
      /\ Partition(mFreeChks, Line) /\ Distinct(Line)
  BY <1>2 DEF ByteInv, ChunkInv, Partition
<1>8. From(data[c], conns, owed[1][2]) /\ Len(owed) = Len(Line)
  BY <1>6, <1>7 DEF Queued
<1>9. owed[1][2] \in Nat
  <2>1. owed[1] \in Bytes
    BY <1>3, <1>6, <1>8
  <2> QED
    BY <2>1, ByteFacts
<1>10. Len(wire) + 1 = owed[1][2] + x /\ Len(wire) \in Nat /\ Len(sent) \in Nat
  BY <1>3, <1>6, <1>7, SMTT(30) DEF Written
<1>11. part \in Seq(Bytes) /\ Len(part) = w
  BY <1>4, <1>5, PartOfPacket, ZenonT(30)
<1>12. From(part, conns, Len(wire) + 1)
  <2>1. From(part, conns, owed[1][2] + x)
    BY <1>4, <1>5, <1>8, <1>9, PartNumbered
  <2> QED
    BY <1>10, <2>1
<1> HIDE DEF part
<1>13. From(wire \o part, conns, 1) /\ Len(wire \o part) = Len(wire) + w
  BY <1>3, <1>7, <1>11, <1>12, NumberedConcat, ConcatFacts
<1> DEFINE g == [curCnt EXCEPT ![Line[1]] = curCnt[Line[1]] + w]
<1>14. curCnt' = g
  BY <1>1, <1>6
<1>15. CASE w = Len(data[c]) - x
  <2>1. Release(c) /\ NextChunk /\ owed' = Tail(owed)
    BY <1>2, <1>15 DEF Tx
  <2>2. Line' = Tail(Line)
    <3>1. CASE mChks = <<>>
      <4>1. mCurChk' = NULL
        BY <2>1, <3>1 DEF NextChunk
      <4> QED
        BY <1>6, <3>1, <4>1 DEF Line
    <3>2. CASE mChks # <<>>
      <4>1. mCurChk' = Head(mChks) /\ mChks' = Tail(mChks)
        BY <2>1, <3>2 DEF NextChunk
      <4>2. mCurChk' # NULL
        BY <1>3, <3>2, <4>1, TailFacts, ChunksAssumption
      <4>3. Line' = <<Head(mChks)>> \o Tail(mChks)
        BY <4>1, <4>2 DEF Line
      <4> QED
        BY <1>3, <1>6, <3>2, <4>3, HeadAndTail
    <3> QED
      BY <3>1, <3>2
  <2>3. mFreeChks' = Append(mFreeChks, Head(Line))
    BY <1>6, <2>1 DEF Release
  <2>4. Partition(mFreeChks', Tail(Line))
    <3>1. Partition(Line, mFreeChks)
      BY <1>3, <1>6, <1>7, PartitionTurned
    <3>2. Partition(Tail(Line), Append(mFreeChks, Head(Line)))
      BY <1>3, <1>6, <3>1, MoveHead
    <3>3. Tail(Line) \in Seq(Chunks) /\ Append(mFreeChks, Head(Line)) \in Seq(Chunks)
      BY <1>2, <1>3, <1>6, AppendFacts
    <3> QED
      BY <2>3, <3>2, <3>3, PartitionTurned
  <2>5. Queued(Tail(Line), data, Tail(owed), conns, Len(sent))
    BY <1>3, <1>6, <1>7, <1>10, QueuedTail
  <2>6. Written(Tail(Line), data, g, Tail(owed), Len(wire) + w, Len(sent))
    <3>1. curCnt[Line[1]] + w = Len(data[Line[1]])
      BY <1>4, <1>5, <1>6, <1>15
    <3> HIDE DEF c, x
    <3> QED
      BY <1>3, <1>5, <1>6, <1>7, <1>10, <3>1, WrittenTail
  <2>7. ByteInv'
    BY <1>1, <1>7, <1>13, <1>14, <2>1, <2>2, <2>5, <2>6 DEF ByteInv
  <2> QED
    BY <2>2, <2>4, <2>7 DEF ChunkInv
<1>16. CASE w # Len(data[c]) - x
  <2>1. UNCHANGED <<mFreeChks, mChks, mCurChk, owed>>
    BY <1>16 DEF Tx
  <2>2. Line' = Line
    BY <2>1 DEF Line
  <2>3. Written(Line, data, g, owed, Len(wire) + w, Len(sent))
    <3>1. curCnt[Line[1]] + w < Len(data[Line[1]])
      <4> DEFINE N == Len(data[c])
      <4>1. N \in Nat /\ x \in 0..N /\ w \in 0..N - x /\ w # N - x
        BY <1>4, <1>5, <1>16
      <4> HIDE DEF N, x
      <4>2. x + w < N
        BY <4>1
      <4> QED
        BY <1>6, <4>2 DEF N, x
    <3> HIDE DEF c, x
    <3> QED
      BY <1>3, <1>5, <1>6, <1>7, <1>8, <1>10, <3>1, WrittenMore
  <2>4. ByteInv'
    BY <1>1, <1>7, <1>13, <1>14, <2>1, <2>2, <2>3 DEF ByteInv
  <2> QED
    BY <1>7, <2>1, <2>2, <2>4 DEF ChunkInv
<1> QED
  BY <1>15, <1>16

(* A step that touches neither chunks nor bytes keeps their invariants. *)
LEMMA QuietStep ==
    ASSUME ChunkInv, ByteInv, UNCHANGED <<chunkVars, streamVars>>,
           conn = "closed" => conn' = "closed"
    PROVE  ChunkInv' /\ ByteInv'
<1>1. Line' = Line
  BY DEF Line, chunkVars
<1>2. ChunkInv'
  BY <1>1 DEF ChunkInv, chunkVars
<1>3. ByteInv'
  BY <1>1 DEF ByteInv, chunkVars, streamVars
<1> QED
  BY <1>2, <1>3

(* The initial state satisfies the inductive invariant. *)
LEMMA ChannelInit == Init => ChannelInv
<1> SUFFICES ASSUME Init PROVE ChannelInv
  OBVIOUS
<1>1. TypeOK
  BY TypeInit
<1>2. ConnInv /\ LoopInv /\ ArmInv /\ ChunkInv /\ ByteInv
  BY DEF Init, ConnInv, LoopInv, ArmInv, ChunkInv, ByteInv
<1> QED
  BY <1>1, <1>2 DEF ChannelInv

(* Every step keeps the inductive invariant. *)
LEMMA ChannelStep == ChannelInv /\ [Next]_vars => ChannelInv'
<1> SUFFICES ASSUME ChannelInv, [Next]_vars PROVE ChannelInv'
  OBVIOUS
<1> USE DEF ChannelInv
<1>1. TypeOK' /\ ConnInv' /\ LoopInv' /\ ArmInv'
  BY TypeStep, ControlStep
<1>2. CASE OpenChannel
  BY <1>1, <1>2, OpenStep
<1>3. CASE Connected \/ Ends \/ OnWrite \/ OnTxCompleteReturns \/ Done \/ UNCHANGED vars
  <2>1. UNCHANGED <<chunkVars, streamVars>> /\ (conn = "closed" => conn' = "closed")
    BY <1>3 DEF Connected, Ends, OnWrite, OnTxCompleteReturns, Done, vars, connVars
  <2> QED
    BY <1>1, <2>1, QuietStep
<1>4. CASE CloseChannel
  <2>1. ChunkInv' /\ ByteInv'
    BY <1>4 DEF CloseChannel, ChunkInv, ByteInv
  <2> QED
    BY <1>1, <2>1
<1>5. ASSUME NEW n \in Sizes, Enqueue(n) PROVE ChannelInv'
  BY <1>1, <1>5, EnqueueStep
<1>6. ASSUME NEW n \in Sizes, NEW w \in 0..n, SendNow(n, w) PROVE ChannelInv'
  BY <1>1, <1>6, SendNowStep
<1>7. ASSUME NEW w \in 0..MaxBytes, Tx(w) PROVE ChannelInv'
  BY <1>1, <1>7, TxStep
<1> QED
  BY <1>2, <1>3, <1>4, <1>5, <1>6, <1>7 DEF Next

(* The inductive invariant holds always. *)
LEMMA ChannelSafe == Spec => []ChannelInv
<1>1. Init => ChannelInv
  BY ChannelInit
<1>2. ChannelInv /\ [Next]_vars => ChannelInv'
  BY ChannelStep
<1> QED
  BY <1>1, <1>2, PTL DEF Spec

\* No more is written than was accepted.
WireInv == conn # "closed" => Len(wire) <= Len(sent)

(* No more bytes are on the wire than were accepted. *)
LEMMA WireBehind == ChannelInv => WireInv
<1> SUFFICES ASSUME ChannelInv, conn # "closed" PROVE Len(wire) <= Len(sent)
  BY DEF WireInv
<1> USE DEF ChannelInv
<1>1. /\ sent \in Seq(Bytes) /\ wire \in Seq(Bytes) /\ owed \in Seq(Bytes)
      /\ Queued(Line, data, owed, conns, Len(sent))
      /\ Written(Line, data, curCnt, owed, Len(wire), Len(sent))
      /\ Line \in Seq(Chunks) /\ Len(sent) \in Nat /\ Len(wire) \in Nat
  <2>1. sent \in Seq(Bytes) /\ wire \in Seq(Bytes) /\ owed \in Seq(Bytes)
    BY DEF TypeOK
  <2>2. /\ Queued(Line, data, owed, conns, Len(sent))
        /\ Written(Line, data, curCnt, owed, Len(wire), Len(sent))
    BY DEF ByteInv
  <2>3. Line \in Seq(Chunks)
    BY LineFacts
  <2>4. Len(sent) \in Nat /\ Len(wire) \in Nat
    BY <2>1
  <2> QED
    BY <2>1, <2>2, <2>3, <2>4
<1>2. CASE Line = <<>>
  BY <1>1, <1>2 DEF Written
<1>3. CASE Line # <<>>
  <2> DEFINE c == Line[1]
  <2>1. c \in Chunks /\ 1 \in 1..Len(Line) /\ Len(Line) \in Nat
    BY <1>1, <1>3, TailFacts
  <2>2. data[c] \in Seq(Bytes) /\ curCnt[c] \in Nat /\ owed[1] \in Bytes /\ Len(owed) = Len(Line)
    BY <1>1, <2>1 DEF TypeOK, Queued
  <2>3. Len(wire) + 1 = owed[1][2] + curCnt[c] /\ curCnt[c] < Len(data[c])
    BY <1>1, <1>3 DEF Written
  <2>4. owed[1][2] + Len(data[c]) <= Len(sent) + 1
    BY <1>1, <2>1 DEF Queued
  <2> DEFINE a == owed[1][2]
  <2> DEFINE x == curCnt[c]
  <2> DEFINE n == Len(data[c])
  <2> DEFINE w == Len(wire)
  <2>5. /\ a \in Nat /\ x \in Nat /\ n \in Nat /\ w \in Nat /\ w + 1 = a + x /\ x < n
        /\ a + n <= Len(sent) + 1
    BY <1>1, <2>2, <2>3, <2>4, ByteFacts
  <2> HIDE DEF a, x, n, w
  <2>6. w <= Len(sent)
    BY <1>1, <2>5
  <2> QED
    BY <2>6 DEF w
<1> QED
  BY <1>2, <1>3

-----------------------------------------------------------------------------
(***************************************************************************)
(* The theorems.                                                           *)
(***************************************************************************)

\* On an open channel every chunk made by init is free, queued or current, and
\* only one of them, whatever sendPacket, tx and OnTxComplete do in between.
THEOREM ChunksConservedThm == Spec => []ChunksConserved
<1>1. ChannelInv => ChunksConserved
  <2> SUFFICES ASSUME ChannelInv, conn # "closed" PROVE ChunksConserved
    BY DEF ChunksConserved
  <2>1. TypeOK /\ ConnInv /\ Partition(mFreeChks, Line)
    BY DEF ChannelInv, ChunkInv
  <2>2. Cardinality({}) = 0 /\ (mCurChk # NULL => Cardinality({mCurChk}) = 1)
    BY FS_EmptySet, FS_Singleton
  <2>3. Elems(Line) = InUse /\ Len(Line) = Len(mChks) + Cardinality({mCurChk} \ {NULL})
    <3>1. CASE mCurChk = NULL
      <4>1. Line = <<>> /\ mChks = <<>> /\ {mCurChk} \ {NULL} = {}
        BY <2>1, <3>1, LineFacts DEF ConnInv
      <4>2. Elems(<<>>) = {} /\ Len(<<>>) = 0
        BY EmptyFacts
      <4>3. Elems(mChks) = {} /\ Elems(Line) = {} /\ Len(mChks) = 0 /\ Len(Line) = 0
        BY <4>1, <4>2
      <4>4. Elems(Line) = InUse
        BY <4>1, <4>3 DEF InUse
      <4>5. Cardinality({mCurChk} \ {NULL}) = 0
        BY <2>2, <4>1
      <4> QED
        BY <4>3, <4>4, <4>5
    <3>2. CASE mCurChk # NULL
      <4>1. {mCurChk} \ {NULL} = {mCurChk}
        BY <3>2
      <4>2. /\ Len(Line) = Len(mChks) + 1
            /\ \A x : x \in Elems(Line) <=> x = mCurChk \/ x \in Elems(mChks)
        BY <2>1, <3>2, LineFacts
      <4> QED
        BY <2>2, <3>2, <4>1, <4>2 DEF InUse
    <3> QED
      BY <3>1, <3>2
  <2>4. Cardinality({mCurChk} \ {NULL}) \in Nat
    <3>1. CASE mCurChk = NULL
      BY <2>2, <3>1
    <3>2. CASE mCurChk # NULL
      <4>1. {mCurChk} \ {NULL} = {mCurChk}
        BY <3>2
      <4> QED
        BY <2>2, <3>2, <4>1
    <3> QED
      BY <3>1, <3>2
  <2>5. Len(mFreeChks) \in Nat /\ Len(mChks) \in Nat
    BY <2>1 DEF TypeOK
  <2>6. Len(mFreeChks) + Len(mChks) + Cardinality({mCurChk} \ {NULL}) = Cardinality(Chunks)
    <3>1. Len(mFreeChks) + Len(Line) = Cardinality(Chunks)
      BY <2>1 DEF Partition
    <3> DEFINE a == Len(mFreeChks)
    <3> DEFINE b == Len(mChks)
    <3> DEFINE e == Cardinality({mCurChk} \ {NULL})
    <3>2. a \in Nat /\ b \in Nat /\ e \in Nat /\ a + (b + e) = Cardinality(Chunks)
      BY <2>3, <2>4, <2>5, <3>1
    <3> HIDE DEF a, b, e
    <3>3. a + b + e = Cardinality(Chunks)
      BY <3>2
    <3> QED
      BY <3>3 DEF a, b, e
  <2> QED
    BY <2>1, <2>3, <2>6 DEF ChunksConserved, Partition
<1> QED
  BY <1>1, ChannelSafe, PTL

\* Between events, write events of a connection that is up are asked for exactly
\* while a packet waits, however sendPacket and the loop of OnWrite interleave.
THEOREM ArmedWhileWaitingThm == Spec => []ArmedWhileWaiting
<1>1. ChannelInv => ArmedWhileWaiting
  BY DEF ChannelInv, ArmInv, ArmedWhileWaiting
<1> QED
  BY <1>1, ChannelSafe, PTL

\* tx calls OnTxComplete of the packets in the order in which sendPacket accepted
\* them, each when its last byte has been written.
THEOREM CompletedInOrderThm == Spec => CompletedInOrder
<1>1. ChannelInv /\ ChannelInv' /\ [Next]_vars =>
        [ pc = "write" /\ pc' = "complete" =>
            /\ owed # <<>> /\ owed' = Tail(owed)
            /\ Len(wire') + 1 = IF owed' = <<>> THEN Len(sent) + 1 ELSE Head(owed')[2] ]_vars
  <2> SUFFICES ASSUME ChannelInv, ChannelInv', [Next]_vars, pc = "write", pc' = "complete"
               PROVE  /\ owed # <<>> /\ owed' = Tail(owed)
                      /\ Len(wire') + 1 = IF owed' = <<>> THEN Len(sent) + 1 ELSE Head(owed')[2]
    OBVIOUS
  <2> USE DEF ChannelInv
  <2>1. PICK w \in 0..MaxBytes : Tx(w)
    BY DEF Next, OpenChannel, Connected, Ends, CloseChannel, Enqueue, SendNow, MaySend, OnWrite,
           OnTxCompleteReturns, Done, vars, loopVars
  <2>2. owed' = RemoveFirst(owed, Packet(chk)) /\ sent' = sent /\ conn' = conn
        /\ curCnt' = [curCnt EXCEPT ![mCurChk] = curCnt[mCurChk] + w] /\ NextChunk /\ data' = data
    BY <2>1 DEF Tx, Progress
  <2>3. owed # <<>> /\ owed' = Tail(owed) /\ conn # "closed" /\ mCurChk \in Chunks
    BY <2>2, OwedHead
  <2>4. /\ Queued(Line', data', owed', conns', Len(sent'))
        /\ Written(Line', data', curCnt', owed', Len(wire'), Len(sent'))
    BY <2>2, <2>3 DEF ByteInv
  <2>5. Line' = mChks
    <3>1. CASE mChks = <<>>
      BY <2>2, <3>1 DEF NextChunk, Line
    <3>2. CASE mChks # <<>>
      <4>1. mCurChk' = Head(mChks) /\ mChks' = Tail(mChks) /\ mChks \in Seq(Chunks)
        BY <2>2, <3>2 DEF NextChunk, TypeOK
      <4>2. mCurChk' # NULL
        BY <3>2, <4>1, TailFacts, ChunksAssumption
      <4>3. Line' = <<Head(mChks)>> \o Tail(mChks)
        BY <4>1, <4>2 DEF Line
      <4> QED
        BY <3>2, <4>1, <4>3, HeadAndTail
    <3> QED
      BY <3>1, <3>2
  <2>6. owed' \in Seq(Bytes) /\ mChks \in Seq(Chunks) /\ Len(owed') = Len(mChks)
    BY <2>4, <2>5 DEF TypeOK, Queued
  <2>7. CASE mChks = <<>>
    <3>1. owed' = <<>>
      BY <2>6, <2>7
    <3>2. Len(wire') = Len(sent)
      BY <2>2, <2>4, <2>5, <2>7 DEF Written
    <3> QED
      BY <2>3, <3>1, <3>2
  <2>8. CASE mChks # <<>>
    <3>1. owed' # <<>>
      BY <2>6, <2>8, EmptyByLength
    <3>2. Len(wire') + 1 = owed'[1][2] + curCnt'[mChks[1]]
      BY <2>4, <2>5, <2>8 DEF Written
    <3>3. Head(owed') = owed'[1] /\ owed'[1] \in Bytes
      BY <2>6, <3>1, TailFacts
    <3>4. curCnt'[mChks[1]] = 0
      <4>1. /\ Line \in Seq(Chunks) /\ Tail(Line) = mChks /\ Line # <<>> /\ Line[1] = mCurChk
            /\ Len(Line) = Len(mChks) + 1 /\ Len(mChks) \in Nat
        BY <2>3, LineFacts, ChunksAssumption
      <4>2. Len(mChks) > 0
        BY <2>6, <2>8
      <4>3. 2 \in 2..Len(Line) /\ 2 \in 1..Len(Line) /\ 1 \in 1..Len(Line) /\ 1 \in 1..Len(Line) - 1
        BY <4>1, <4>2
      <4>4. mChks[1] = Line[1 + 1]
        BY <4>1, <4>3, TailFacts
      <4>5. mChks[1] = Line[2] /\ Line[2] \in Chunks
        BY <4>1, <4>3, <4>4
      <4>6. Line[2] # mCurChk
        BY <2>3, <4>1, <4>3 DEF ChunkInv, Partition, Distinct
      <4>7. curCnt[Line[2]] = 0
        BY <2>3, <4>1, <4>3 DEF ByteInv, Written
      <4> QED
        BY <2>2, <4>5, <4>6, <4>7 DEF TypeOK
    <3>5. owed'[1][2] \in Nat
      BY <3>3, ByteFacts
    <3> QED
      BY <2>3, <3>1, <3>2, <3>3, <3>4, <3>5
  <2> QED
    BY <2>7, <2>8
<1> QED
  BY <1>1, ChannelSafe, PTL DEF Spec, CompletedInOrder

\* The channel implements the byte stream: the kernel is given the bytes of the
\* packets that sendPacket accepted, in that order and each once, through any
\* number of partial writes, queued packets and reopened connections.
THEOREM ChannelIsByteStream == Spec => IsByteStream
<1>1. Init => Stream!Init
  BY DEF Init, Stream!Init
<1>2. ChannelInv /\ ChannelInv' /\ WireInv' /\ [Next]_vars => [Stream!Next]_<<sent, wire>>
  <2> SUFFICES ASSUME ChannelInv, ChannelInv', WireInv', [Next]_vars
               PROVE  Stream!Next \/ UNCHANGED <<sent, wire>>
    BY DEF Stream!Next
  <2> USE DEF ChannelInv
  <2>1. CASE OpenChannel
    BY <2>1 DEF OpenChannel, Stream!Next, Stream!Reopen
  <2>2. CASE Connected \/ Ends \/ CloseChannel \/ OnWrite \/ OnTxCompleteReturns \/ Done \/ UNCHANGED vars
    BY <2>2 DEF Connected, Ends, CloseChannel, OnWrite, OnTxCompleteReturns, Done, vars, streamVars
  <2>3. ASSUME conn' # "closed", NEW p \in Seq(Bytes), NEW q \in Seq(Bytes),
               sent' = sent \o p, wire' = wire \o q
        PROVE  Stream!Next
    <3>1. IsPrefix(sent, sent') /\ IsPrefix(wire, wire')
      BY <2>3, PrefixConcat DEF TypeOK
    <3>2. IsPrefix(wire', sent')
      <4>1. /\ From(sent', conns', 1) /\ From(wire', conns', 1)
            /\ wire' \in Seq(Bytes) /\ sent' \in Seq(Bytes)
        BY <2>3 DEF ByteInv, TypeOK
      <4>2. Len(wire') <= Len(sent')
        BY <2>3 DEF WireInv
      <4> QED
        BY <4>1, <4>2, NumberedPrefix
    <3> QED
      BY <3>1, <3>2 DEF Stream!Next, Stream!Write, Stream!IsPrefix, IsPrefix
  <2>4. <<>> \in Seq(Bytes) /\ sent \o <<>> = sent /\ wire \o <<>> = wire
    BY DEF TypeOK
  <2>5. ASSUME NEW n \in Sizes, Enqueue(n) PROVE Stream!Next
    <3>1. /\ conn' # "closed" /\ sent' = sent \o NextBytes(n) /\ wire' = wire
          /\ conns # 0 /\ Len(sent) + n <= MaxBytes
      BY <2>5 DEF Enqueue, MaySend, ConnInv, connVars
    <3>2. NextBytes(n) \in Seq(Bytes)
      BY <3>1, NewPacket
    <3>3. wire' = wire \o <<>>
      BY <2>4, <3>1
    <3> QED
      BY <2>3, <2>4, <3>1, <3>2, <3>3
  <2>6. ASSUME NEW n \in Sizes, NEW w \in 0..n, SendNow(n, w) PROVE Stream!Next
    <3> DEFINE p == NextBytes(n)
    <3>1. /\ conn' # "closed" /\ sent' = sent \o p /\ wire' = wire \o SubSeq(p, 1, w)
          /\ conns # 0 /\ Len(sent) + n <= MaxBytes
      BY <2>6 DEF SendNow, MaySend, ConnInv
    <3>2. p \in Seq(Bytes) /\ Len(p) = n
      BY <3>1, NewPacket
    <3> HIDE DEF p
    <3>3. SubSeq(p, 1, w) \in Seq(Bytes)
      BY <3>2, HeadOfPacket
    <3> QED
      BY <2>3, <3>1, <3>2, <3>3
  <2>7. ASSUME NEW w \in 0..MaxBytes, Tx(w) PROVE Stream!Next
    <3> DEFINE c == mCurChk
    <3>1. /\ pc = "write" /\ conn' = conn /\ sent' = sent
          /\ wire' = wire \o SubSeq(data[c], curCnt[c] + 1, curCnt[c] + w)
          /\ w \in Taken(Len(data[c]) - curCnt[c])
      BY <2>7 DEF Tx, Offset
    <3>2. c \in Chunks /\ conn # "closed"
      BY <3>1, OwedHead
    <3>3. data[c] \in Seq(Bytes) /\ curCnt[c] \in 0..Len(data[c]) /\ Len(data[c]) - curCnt[c] \in Nat
      <4>1. data \in [Chunks -> Seq(Bytes)] /\ curCnt \in [Chunks -> Nat]
            /\ \A x \in Chunks : curCnt[x] <= Len(data[x])
        BY DEF TypeOK
      <4> HIDE DEF c
      <4>2. data[c] \in Seq(Bytes) /\ curCnt[c] \in Nat /\ curCnt[c] <= Len(data[c])
        BY <3>2, <4>1
      <4>3. Len(data[c]) \in Nat
        BY <4>2
      <4> QED
        BY <4>2, <4>3
    <3>4. SubSeq(data[c], curCnt[c] + 1, curCnt[c] + w) \in Seq(Bytes)
      BY <3>1, <3>3, TakenFacts, PartOfPacket
    <3>5. sent' = sent \o <<>>
      BY <2>4, <3>1
    <3> QED
      BY <2>3, <2>4, <3>1, <3>2, <3>4, <3>5
  <2> QED
    BY <2>1, <2>2, <2>5, <2>6, <2>7 DEF Next
<1> QED
  BY <1>1, <1>2, ChannelSafe, WireBehind, PTL DEF Spec, IsByteStream, Stream!Spec

=============================================================================
