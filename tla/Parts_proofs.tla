---------------------------- MODULE Parts_proofs ----------------------------
(***************************************************************************)
(* Proofs about the small components: the file reader, the local events,   *)
(* the intrusive list, the ring buffer and the byte buffer.                *)
(***************************************************************************)
EXTENDS EdBuffredFileReader, EdByteBuffer, EdLocalEvent, EdObjList, EdRingQue,
        WellFoundedInduction, TLAPS

-----------------------------------------------------------------------------
(***************************************************************************)
(* Sequences.                                                              *)
(***************************************************************************)

(* The empty sequence. *)
LEMMA EmptySeqFacts ==
    ASSUME NEW S
    PROVE  <<>> \in Seq(S) /\ Len(<<>>) = 0 /\ DOMAIN <<>> = {}
OBVIOUS

(* What Head and Tail of a non-empty sequence are, by index. *)
LEMMA TailFacts ==
    ASSUME NEW S, NEW s \in Seq(S), s # <<>>
    PROVE  /\ Len(s) \in Nat /\ Len(s) > 0
           /\ Head(s) = s[1] /\ Head(s) \in S
           /\ Tail(s) \in Seq(S) /\ Len(Tail(s)) = Len(s) - 1
           /\ DOMAIN s = 1..Len(s) /\ DOMAIN Tail(s) = 1..Len(s) - 1
           /\ \A i \in 1..Len(s) - 1 : Tail(s)[i] = s[i + 1]
OBVIOUS

(* What Append gives, by index. *)
LEMMA AppendFacts ==
    ASSUME NEW S, NEW s \in Seq(S), NEW e \in S
    PROVE  /\ Append(s, e) \in Seq(S) /\ Len(Append(s, e)) = Len(s) + 1
           /\ DOMAIN s = 1..Len(s) /\ Len(s) \in Nat
           /\ DOMAIN Append(s, e) = 1..Len(s) + 1
           /\ \A i \in 1..Len(s) : Append(s, e)[i] = s[i]
           /\ Append(s, e)[Len(s) + 1] = e
OBVIOUS

(* What putting an element before a sequence gives, by index. *)
LEMMA PrependFacts ==
    ASSUME NEW S, NEW s \in Seq(S), NEW e \in S
    PROVE  /\ <<e>> \o s \in Seq(S) /\ Len(s) \in Nat /\ Len(<<e>> \o s) = Len(s) + 1
           /\ (<<e>> \o s)[1] = e
           /\ \A i \in 2..Len(s) + 1 : (<<e>> \o s)[i] = s[i - 1]
OBVIOUS

(* Domain and elements of a sequence. *)
LEMMA ElementFacts ==
    ASSUME NEW S, NEW s \in Seq(S)
    PROVE  /\ Len(s) \in Nat /\ DOMAIN s = 1..Len(s)
           /\ \A i \in DOMAIN s : s[i] \in S
OBVIOUS

(* A function on 1..n is a sequence of length n. *)
LEMMA SeqOfFunction ==
    ASSUME NEW S, NEW n \in Nat, NEW f \in [1..n -> S]
    PROVE  f \in Seq(S) /\ Len(f) = n
OBVIOUS

(* What concatenation gives, by index. *)
LEMMA ConcatFacts ==
    ASSUME NEW S, NEW s \in Seq(S), NEW t \in Seq(S)
    PROVE  /\ s \o t \in Seq(S) /\ Len(s) \in Nat /\ Len(t) \in Nat
           /\ Len(s \o t) = Len(s) + Len(t)
           /\ \A i \in 1..Len(s) : (s \o t)[i] = s[i]
           /\ \A i \in Len(s) + 1..Len(s) + Len(t) : (s \o t)[i] = t[i - Len(s)]
OBVIOUS

(* What SubSeq gives, by index. *)
LEMMA SubSeqFacts ==
    ASSUME NEW S, NEW s \in Seq(S), NEW m \in 1..Len(s) + 1, NEW n \in m - 1..Len(s)
    PROVE  /\ SubSeq(s, m, n) \in Seq(S) /\ Len(SubSeq(s, m, n)) = n - m + 1
           /\ \A i \in 1..n - m + 1 : SubSeq(s, m, n)[i] = s[m + i - 1]
OBVIOUS

(* A sequence without its first n elements, by index. *)
LEMMA DropFacts ==
    ASSUME NEW S, NEW s \in Seq(S), NEW n \in 0..Len(s)
    PROVE  /\ SubSeq(s, n + 1, Len(s)) \in Seq(S)
           /\ Len(SubSeq(s, n + 1, Len(s))) = Len(s) - n
           /\ \A i \in 1..Len(s) - n : SubSeq(s, n + 1, Len(s))[i] = s[n + i]
OBVIOUS

(* Sequences of the same length and elements are equal. *)
LEMMA SeqEqual ==
    ASSUME NEW S, NEW s \in Seq(S), NEW t \in Seq(S), Len(s) = Len(t),
           \A i \in 1..Len(s) : s[i] = t[i]
    PROVE  s = t
OBVIOUS

(* A sequence that agrees with a longer one is its prefix. *)
LEMMA PrefixFacts ==
    ASSUME NEW S, NEW s \in Seq(S), NEW t \in Seq(S), Len(s) <= Len(t),
           \A i \in 1..Len(s) : s[i] = t[i]
    PROVE  IsPrefix(s, t)
<1>1. Len(s) \in Nat /\ Len(t) \in Nat
  OBVIOUS
<1>2. /\ SubSeq(t, 1, Len(s)) \in Seq(S) /\ Len(SubSeq(t, 1, Len(s))) = Len(s)
      /\ \A i \in 1..Len(s) : SubSeq(t, 1, Len(s))[i] = t[i]
  BY <1>1, SubSeqFacts
<1>3. SubSeq(s, 1, Len(s)) = s
  BY <1>1
<1>4. s = SubSeq(t, 1, Len(s))
  BY <1>2, SeqEqual
<1> QED
  BY <1>3, <1>4 DEF IsPrefix

-----------------------------------------------------------------------------
(***************************************************************************)
(* The file reader.  ReadsAhead is not inductive: that a load never makes  *)
(* the list longer than the share needs that a load is scheduled only      *)
(* while there is room, and that "no more" is told only at the end needs   *)
(* that the file is never read past its end.                               *)
(***************************************************************************)

Share == IF QSize = 0 THEN 1 ELSE QSize

ReaderNumbersOK ==
    /\ opens \in Nat /\ filePos \in 0..Blocks /\ got \in Nat /\ lastGot \in Nat
    /\ mBufList \in Seq(Nat)

ReaderFlagsOK ==
    /\ fileOpen \in BOOLEAN /\ mEof \in BOOLEAN /\ jobRaised \in BOOLEAN
    /\ readFailed \in BOOLEAN

ReaderInv ==
    /\ ReaderNumbersOK
    /\ ReaderFlagsOK
    /\ ~fileOpen => mBufList = <<>>
    /\ fileOpen /\ jobRaised => Len(mBufList) < Share
    /\ ReadsAhead

(* The initial reader satisfies its invariant. *)
LEMMA ReaderInitInv == ReaderInit => ReaderInv
<1> SUFFICES ASSUME ReaderInit PROVE ReaderInv
  OBVIOUS
<1>1. ReaderNumbersOK
  BY BlocksAssumption DEF ReaderInit, ReaderNumbersOK
<1>2. ReaderFlagsOK
  BY DEF ReaderInit, ReaderFlagsOK
<1> QED
  BY <1>1, <1>2 DEF ReaderInit, ReaderInv, ReadsAhead

(* A load by the event loop keeps the invariant. *)
LEMMA ReaderOnJob ==
    ASSUME ReaderInv, NEW ok \in BOOLEAN, OnJob(ok)
    PROVE  ReaderInv'
<1> USE BlocksAssumption, QSizeAssumption
<1>1. CASE ok
  <2>1. filePos < Blocks /\ filePos' = filePos + 1
    BY <1>1 DEF OnJob, ReadGives
  <2>2. (readFailed' <=> readFailed) /\ (mEof' <=> mEof) /\ ReaderFlagsOK'
    BY <1>1 DEF OnJob, ReadGives, ReaderInv, ReaderFlagsOK
  <2>3. mBufList' = Append(mBufList, filePos + 1)
    BY <1>1 DEF OnJob, Loaded
  <2>4. /\ Len(mBufList) \in Nat
        /\ Len(mBufList') = Len(mBufList) + 1 /\ mBufList' \in Seq(Nat)
        /\ DOMAIN mBufList = 1..Len(mBufList)
        /\ DOMAIN mBufList' = 1..Len(mBufList) + 1
        /\ \A i \in 1..Len(mBufList) : mBufList'[i] = mBufList[i]
        /\ mBufList'[Len(mBufList) + 1] = filePos + 1
    <3> filePos + 1 \in Nat
      BY DEF ReaderInv, ReaderNumbersOK
    <3> QED
      BY <2>3, AppendFacts DEF ReaderInv, ReaderNumbersOK
  <2>5. ReaderNumbersOK'
    BY <2>1, <2>4 DEF ReaderInv, ReaderNumbersOK, OnJob
  <2>6. jobRaised' <=> Len(mBufList') < QSize
    BY <1>1 DEF OnJob, MoreWanted
  <2>7. fileOpen /\ fileOpen' /\ jobRaised /\ got' = got /\ lastGot' = lastGot
    BY DEF OnJob
  <2>8. \A i \in DOMAIN mBufList' : mBufList'[i] = got' + i
    <3>1. /\ ReaderNumbersOK /\ filePos = got + Len(mBufList)
          /\ \A i \in DOMAIN mBufList : mBufList[i] = got + i
      BY <2>7 DEF ReaderInv, ReadsAhead
    <3>2. filePos + 1 = got + (Len(mBufList) + 1)
      BY <2>4, <3>1 DEF ReaderNumbersOK
    <3>3. SUFFICES ASSUME NEW i \in 1..Len(mBufList) + 1 PROVE mBufList'[i] = got + i
      BY <2>4, <2>7
    <3>4. CASE i \in 1..Len(mBufList)
      BY <2>4, <3>1, <3>4
    <3>5. CASE i = Len(mBufList) + 1
      BY <2>4, <3>2, <3>5
    <3> QED
      BY <2>4, <3>4, <3>5
  <2>9. ReadsAhead'
    <3>1. ReadsAhead /\ ReaderNumbersOK /\ Len(mBufList) < Share
      BY <2>7 DEF ReaderInv
    <3>2. filePos' = got' + Len(mBufList') /\ lastGot' \in {0, got'}
      BY <2>1, <2>4, <2>7, <3>1 DEF ReadsAhead, ReaderNumbersOK
    <3>3. lastGot' = 0 /\ got' > 0 => readFailed'
      BY <2>1, <2>2, <2>7, <3>1 DEF ReadsAhead, ReaderNumbersOK
    <3>4. Len(mBufList') <= IF QSize = 0 THEN 1 ELSE QSize
      BY <2>4, <3>1 DEF Share
    <3> QED
      BY <2>4, <2>6, <2>8, <3>2, <3>3, <3>4 DEF ReadsAhead
  <2> QED
    BY <2>2, <2>4, <2>5, <2>6, <2>7, <2>9 DEF ReaderInv, Share
<1>2. CASE ~ok
  <2>1. filePos' = filePos /\ mBufList' = mBufList
    BY <1>2 DEF OnJob, ReadGives, Loaded
  <2>2. ~jobRaised' /\ mEof' /\ (readFailed' <=> readFailed \/ filePos < Blocks) /\ ReaderFlagsOK'
    BY <1>2 DEF OnJob, ReadGives, ReaderInv, ReaderFlagsOK
  <2>3. fileOpen /\ fileOpen' /\ got' = got /\ lastGot' = lastGot /\ opens' = opens
    BY DEF OnJob
  <2>4. ReaderNumbersOK'
    BY <2>1, <2>3 DEF ReaderInv, ReaderNumbersOK
  <2>5. ReadsAhead'
    BY <2>1, <2>2, <2>3 DEF ReaderInv, ReaderNumbersOK, ReadsAhead
  <2> QED
    BY <2>2, <2>3, <2>4, <2>5 DEF ReaderInv
<1> QED
  BY <1>1, <1>2

(* A load by getData keeps the invariant. *)
LEMMA ReaderGetNow ==
    ASSUME ReaderInv, NEW ok \in BOOLEAN, GetNow(ok)
    PROVE  ReaderInv'
<1> USE BlocksAssumption, QSizeAssumption
<1>1. mBufList = <<>> /\ mBufList' = <<>> /\ fileOpen /\ fileOpen' /\ opens' = opens
  BY DEF GetNow
<1>2. filePos = got /\ Len(mBufList) = 0 /\ Len(mBufList') = 0 /\ DOMAIN mBufList' = {}
  <2>1. filePos = got + Len(mBufList)
    BY <1>1 DEF ReaderInv, ReadsAhead
  <2>2. Len(mBufList) = 0 /\ Len(mBufList') = 0 /\ DOMAIN mBufList' = {}
    BY <1>1, EmptySeqFacts
  <2> QED
    BY <2>1, <2>2 DEF ReaderInv, ReaderNumbersOK
<1>3. CASE ok
  <2>1. filePos < Blocks /\ filePos' = filePos + 1
    BY <1>3 DEF GetNow, ReadGives
  <2>2. mEof' <=> mEof
    BY <1>3 DEF GetNow, ReadGives
  <2>3. lastGot' = filePos + 1 /\ got' = got + 1
    <3>1. Head(Append(mBufList, filePos + 1)) = filePos + 1
      BY <1>1
    <3> QED
      BY <1>3, <3>1 DEF GetNow, Loaded
  <2>4. (jobRaised' <=> jobRaised \/ ~mEof) /\ ReaderFlagsOK'
    <3>1. jobRaised' = (jobRaised \/ (0 <= QSize /\ ~mEof'))
      BY DEF GetNow, Reschedule
    <3>2. 0 <= QSize
      OBVIOUS
    <3>3. mEof' \in BOOLEAN /\ readFailed' \in BOOLEAN /\ jobRaised' \in BOOLEAN
      BY <3>1 DEF GetNow, ReadGives
    <3>4. fileOpen' \in BOOLEAN
      BY DEF GetNow, ReaderInv, ReaderFlagsOK
    <3> QED
      BY <2>2, <3>1, <3>2, <3>3, <3>4 DEF ReaderFlagsOK
  <2>5. ReaderNumbersOK'
    BY <1>1, <2>1, <2>3 DEF ReaderInv, ReaderNumbersOK
  <2>6. ReadsAhead'
    BY <1>2, <2>1, <2>2, <2>3, <2>4 DEF ReaderInv, ReaderNumbersOK, ReadsAhead
  <2> QED
    BY <1>1, <1>2, <2>4, <2>5, <2>6 DEF ReaderInv, Share
<1>4. CASE ~ok
  <2>1. filePos' = filePos /\ lastGot' = 0 /\ got' = got
    BY <1>4 DEF GetNow, ReadGives
  <2>2. mEof' /\ (readFailed' <=> readFailed \/ filePos < Blocks) /\ ReaderFlagsOK'
    BY <1>4 DEF GetNow, ReadGives, Reschedule, ReaderInv, ReaderFlagsOK
  <2>3. ReaderNumbersOK'
    BY <1>1, <2>1 DEF ReaderInv, ReaderNumbersOK
  <2>4. filePos' = Blocks \/ readFailed'
    BY <2>1, <2>2 DEF ReaderInv, ReaderNumbersOK
  <2>5. filePos' = got' + 0 /\ got' \in Nat
    BY <1>2, <2>1, <2>3 DEF ReaderNumbersOK
  <2>6. ReadsAhead'
    BY <1>2, <2>1, <2>2, <2>4, <2>5 DEF ReadsAhead
  <2> QED
    BY <1>1, <1>2, <2>2, <2>3, <2>6 DEF ReaderInv, Share
<1> QED
  BY <1>3, <1>4

(* Taking a loaded block keeps the invariant. *)
LEMMA ReaderGetLoaded ==
    ASSUME ReaderInv, GetLoaded
    PROVE  ReaderInv'
<1> USE BlocksAssumption, QSizeAssumption
<1>1. /\ mBufList' = Tail(mBufList) /\ mBufList # <<>> /\ mBufList \in Seq(Nat)
      /\ fileOpen /\ fileOpen' /\ lastGot' = Head(mBufList) /\ got' = got + 1
      /\ opens' = opens /\ filePos' = filePos
  BY DEF GetLoaded, ReaderInv, ReaderNumbersOK
<1>2. /\ mBufList' \in Seq(Nat) /\ Len(mBufList') = Len(mBufList) - 1
      /\ Len(mBufList) \in Nat /\ Len(mBufList) > 0
      /\ Head(mBufList) = mBufList[1] /\ DOMAIN mBufList = 1..Len(mBufList)
      /\ DOMAIN mBufList' = 1..Len(mBufList) - 1
      /\ \A i \in 1..Len(mBufList) - 1 : mBufList'[i] = mBufList[i + 1]
  <2> HIDE DEF ReaderInv
  <2> QED
    BY <1>1, TailFacts
<1>3. /\ mEof' = mEof /\ readFailed' = readFailed /\ ReaderFlagsOK'
      /\ jobRaised' <=> jobRaised \/ (Len(mBufList') <= QSize /\ ~mEof)
  BY DEF GetLoaded, Reschedule, ReaderInv, ReaderFlagsOK
<1>4. ReaderNumbersOK /\ \A i \in DOMAIN mBufList : mBufList[i] = got + i
  BY <1>1 DEF ReaderInv, ReadsAhead
<1>5. lastGot' = got'
  BY <1>1, <1>2, <1>4 DEF ReaderNumbersOK
<1>6. \A i \in DOMAIN mBufList' : mBufList'[i] = got' + i
  <2>1. SUFFICES ASSUME NEW i \in 1..Len(mBufList) - 1 PROVE mBufList'[i] = got' + i
    BY <1>2
  <2>2. i + 1 \in DOMAIN mBufList
    BY <1>2
  <2>3. mBufList'[i] = got + (i + 1)
    BY <1>2, <1>4, <2>2
  <2> QED
    BY <1>1, <1>2, <1>4, <2>3 DEF ReaderNumbersOK
<1>7. ReaderNumbersOK'
  BY <1>1, <1>2, <1>4, <1>5 DEF ReaderNumbersOK
<1>8. Len(mBufList) <= Share /\ filePos = got + Len(mBufList)
  BY <1>1 DEF ReaderInv, ReadsAhead, Share
<1>9. ReadsAhead'
  <2>1. filePos' = got' + Len(mBufList') /\ got' > 0
    BY <1>1, <1>2, <1>4, <1>8 DEF ReaderNumbersOK
  <2>2. Len(mBufList') <= QSize /\ Len(mBufList') <= IF QSize = 0 THEN 1 ELSE QSize
    BY <1>2, <1>8 DEF Share
  <2> QED
    BY <1>3, <1>5, <1>6, <2>1, <2>2 DEF ReadsAhead
<1> QED
  BY <1>1, <1>2, <1>3, <1>7, <1>8, <1>9 DEF ReaderInv, Share

(* Every step of the reader keeps its invariant. *)
LEMMA ReaderStep == ReaderInv /\ [ReaderNext]_readerVars => ReaderInv'
<1> SUFFICES ASSUME ReaderInv, [ReaderNext]_readerVars PROVE ReaderInv'
  OBVIOUS
<1> USE BlocksAssumption, QSizeAssumption
<1>1. CASE ReaderOpen
  <2>1. ReaderNumbersOK' /\ mBufList' = <<>>
    BY <1>1 DEF ReaderOpen, ReaderInv, ReaderNumbersOK
  <2>2. ReaderFlagsOK' /\ ~jobRaised'
    BY <1>1 DEF ReaderOpen, ReaderInv, ReaderFlagsOK
  <2>3. ReadsAhead'
    BY <1>1, <2>1, EmptySeqFacts DEF ReaderOpen, ReadsAhead
  <2> QED
    BY <1>1, <2>1, <2>2, <2>3 DEF ReaderInv
<1>2. CASE ReaderClose
  <2>1. ReaderNumbersOK' /\ mBufList' = <<>>
    BY <1>2 DEF ReaderClose, ReaderInv, ReaderNumbersOK
  <2>2. ReaderFlagsOK' /\ ~fileOpen'
    BY <1>2 DEF ReaderClose, ReaderInv, ReaderFlagsOK
  <2> QED
    BY <2>1, <2>2 DEF ReaderInv, ReadsAhead
<1>3. CASE GetLoaded
  BY <1>3, ReaderGetLoaded
<1>4. CASE ReaderDone \/ UNCHANGED readerVars
  BY <1>4 DEF ReaderDone, readerVars, ReaderInv, ReaderNumbersOK, ReaderFlagsOK, ReadsAhead, Share
<1>5. ASSUME NEW ok \in BOOLEAN, OnJob(ok) \/ GetNow(ok) PROVE ReaderInv'
  BY <1>5, ReaderOnJob, ReaderGetNow
<1> QED
  BY <1>1, <1>2, <1>3, <1>4, <1>5 DEF ReaderNext

\* For every file, every mQSize and every sequence of files: the program gets
\* the blocks in order, "no more" only at the end of the file or after a failed
\* read, and the reader stays ahead of it by its share and never by more.
THEOREM ReadsAheadThm == ReaderSpec => []ReadsAhead
<1>1. ReaderInv => ReadsAhead
  BY DEF ReaderInv
<1> QED
  BY <1>1, ReaderInitInv, ReaderStep, PTL DEF ReaderSpec

-----------------------------------------------------------------------------
(***************************************************************************)
(* Local events.  EventsIntact is not inductive: that a post does not      *)
(* overwrite an event which is still queued needs that the objects on the  *)
(* two lists are all different; that no event is forgotten by the eventfd  *)
(* needs that a count is left over only while OnEventFd runs, and none in  *)
(* an eventfd that is closed.                                              *)
(***************************************************************************)

EvtTypeOK ==
    /\ evtCnt \in Nat /\ loopCnt \in Nat /\ posts \in Nat /\ unraised \in Nat
    /\ mEvtQue \in Seq(EventObjs) /\ mDummyEvtQue \in Seq(EventObjs)
    /\ evtId \in [EventObjs -> Nat]

EvtCounts ==
    /\ ~evtOpen => evtCnt = 0
    /\ evtPc = "idle" => loopCnt = 0

Distinct(s) == \A i, j \in 1..Len(s) : s[i] = s[j] => i = j

ObjectsApart ==
    /\ Distinct(mEvtQue) /\ Distinct(mDummyEvtQue)
    /\ \A i \in 1..Len(mEvtQue), j \in 1..Len(mDummyEvtQue) : mEvtQue[i] # mDummyEvtQue[j]

EvtInv == EvtTypeOK /\ EvtCounts /\ ObjectsApart /\ EventsIntact

(* The initial state satisfies the invariant. *)
LEMMA EvtInitInv == EvtInit => EvtInv
<1> SUFFICES ASSUME EvtInit PROVE EvtInv
  OBVIOUS
<1>1. EvtTypeOK
  BY DEF EvtInit, EvtTypeOK
<1>2. Len(mEvtQue) = 0 /\ Len(mDummyEvtQue) = 0 /\ DOMAIN mEvtQue = {}
  BY DEF EvtInit
<1>3. ObjectsApart
  BY <1>2 DEF ObjectsApart, Distinct
<1>4. EventsIntact /\ EvtCounts
  BY <1>2 DEF EvtInit, EventsIntact, EvtCounts
<1> QED
  BY <1>1, <1>3, <1>4 DEF EvtInv

(* Arithmetic of a raise, or of a posted event, added to the counts. *)
LEMMA CountsCover ==
    ASSUME NEW a \in Nat, NEW b \in Nat, NEW c \in Nat
    PROVE  /\ 0 <= a + b + c
           /\ \A n, a0, c0 \in Nat :
                  n <= a0 + b + c0 /\ a + c = a0 + c0 + 1 => n + 1 <= a + b + c
OBVIOUS

(* postEvent: the object taken is in no queue, so no event in a queue is overwritten. *)
LEMMA EvtPost ==
    ASSUME EvtInv, NEW o \in EventObjs, PostEvent(o)
    PROVE  EvtInv'
<1>1. /\ mEvtQue \in Seq(EventObjs) /\ mDummyEvtQue \in Seq(EventObjs)
      /\ mEvtQue' = Append(mEvtQue, o) /\ posts \in Nat /\ posts' = posts + 1
      /\ evtId \in [EventObjs -> Nat] /\ evtId' = [evtId EXCEPT ![o] = posts + 1]
      /\ loopCnt' = loopCnt /\ loopCnt \in Nat
  BY DEF EvtInv, EvtTypeOK, PostEvent
<1>2. /\ mEvtQue' \in Seq(EventObjs) /\ Len(mEvtQue') = Len(mEvtQue) + 1
      /\ Len(mEvtQue) \in Nat /\ DOMAIN mEvtQue = 1..Len(mEvtQue)
      /\ DOMAIN mEvtQue' = 1..Len(mEvtQue) + 1
      /\ \A i \in 1..Len(mEvtQue) : mEvtQue'[i] = mEvtQue[i]
      /\ mEvtQue'[Len(mEvtQue) + 1] = o
  BY <1>1, AppendFacts
<1>3. /\ mDummyEvtQue' \in Seq(EventObjs) /\ Len(mDummyEvtQue') \in Nat
      /\ Distinct(mDummyEvtQue')
      /\ \A j \in 1..Len(mDummyEvtQue') : mDummyEvtQue'[j] # o
      /\ \A j \in 1..Len(mDummyEvtQue') : \E k \in 1..Len(mDummyEvtQue) : mDummyEvtQue'[j] = mDummyEvtQue[k]
      /\ \A i \in 1..Len(mEvtQue) : mEvtQue[i] # o
  <2>1. CASE mDummyEvtQue # <<>>
    <3>1. o = Head(mDummyEvtQue) /\ mDummyEvtQue' = Tail(mDummyEvtQue)
      BY <2>1 DEF PostEvent, EventObject
    <3>2. /\ Len(mDummyEvtQue) \in Nat /\ Len(mDummyEvtQue) > 0 /\ o = mDummyEvtQue[1]
          /\ mDummyEvtQue' \in Seq(EventObjs) /\ Len(mDummyEvtQue') = Len(mDummyEvtQue) - 1
          /\ \A i \in 1..Len(mDummyEvtQue) - 1 : mDummyEvtQue'[i] = mDummyEvtQue[i + 1]
      BY <1>1, <2>1, <3>1, TailFacts
    <3>3. /\ Distinct(mDummyEvtQue)
          /\ \A i \in 1..Len(mEvtQue), j \in 1..Len(mDummyEvtQue) : mEvtQue[i] # mDummyEvtQue[j]
      BY DEF EvtInv, ObjectsApart
    <3>4. \A j \in 1..Len(mDummyEvtQue') :
             /\ j + 1 \in 1..Len(mDummyEvtQue) /\ j + 1 # 1
             /\ mDummyEvtQue'[j] = mDummyEvtQue[j + 1]
      BY <3>2
    <3>5. Len(mDummyEvtQue') \in Nat /\ 1 \in 1..Len(mDummyEvtQue)
      BY <3>2
    <3>6. Distinct(mDummyEvtQue')
      <4> SUFFICES ASSUME NEW i \in 1..Len(mDummyEvtQue'), NEW j \in 1..Len(mDummyEvtQue'), i # j
                   PROVE  mDummyEvtQue'[i] # mDummyEvtQue'[j]
        BY DEF Distinct
      <4>1. i + 1 # j + 1
        BY <3>5
      <4> QED
        BY <3>3, <3>4, <4>1 DEF Distinct
    <3>7. \A j \in 1..Len(mDummyEvtQue') : mDummyEvtQue'[j] # o
      BY <3>2, <3>3, <3>4, <3>5 DEF Distinct
    <3> QED
      BY <3>2, <3>3, <3>4, <3>5, <3>6, <3>7
  <2>2. CASE mDummyEvtQue = <<>>
    <3>1. o \notin InMemory /\ mDummyEvtQue' = mDummyEvtQue
      BY <2>2 DEF PostEvent, EventObject
    <3>2. \A i \in DOMAIN mEvtQue : mEvtQue[i] # o
      BY <3>1 DEF InMemory, ToSet
    <3> QED
      BY <1>1, <1>2, <2>2, <3>1, <3>2, EmptySeqFacts DEF Distinct
  <2> QED
    BY <2>1, <2>2
<1>4. ObjectsApart'
  <2>1. Distinct(mEvtQue')
    BY <1>2, <1>3 DEF EvtInv, ObjectsApart, Distinct
  <2>2. ASSUME NEW i \in 1..Len(mEvtQue'), NEW j \in 1..Len(mDummyEvtQue')
        PROVE  mEvtQue'[i] # mDummyEvtQue'[j]
    <3>1. PICK k \in 1..Len(mDummyEvtQue) : mDummyEvtQue'[j] = mDummyEvtQue[k]
      BY <1>3
    <3>2. CASE i = Len(mEvtQue) + 1
      BY <1>2, <1>3, <3>2
    <3>3. CASE i \in 1..Len(mEvtQue)
      BY <1>2, <3>1, <3>3 DEF EvtInv, ObjectsApart
    <3> QED
      BY <1>2, <3>2, <3>3
  <2> QED
    BY <1>3, <2>1, <2>2 DEF ObjectsApart
<1>5. /\ evtCnt \in Nat /\ unraised \in Nat /\ evtCnt' \in Nat /\ unraised' \in Nat
      /\ evtCnt' + unraised' = evtCnt + unraised + 1
      /\ evtOpen' = evtOpen /\ evtPc' = evtPc
      /\ ~evtOpen => evtCnt' = evtCnt
  <2>1. evtCnt \in Nat /\ unraised \in Nat /\ evtOpen' = evtOpen /\ evtPc' = evtPc
    BY DEF EvtInv, EvtTypeOK, PostEvent
  <2>2. \/ evtOpen /\ evtCnt' = evtCnt + 1 /\ unraised' = unraised
        \/ ~evtOpen /\ unraised' = unraised + 1 /\ evtCnt' = evtCnt
    BY DEF PostEvent, Raise
  <2> QED
    BY <2>1, <2>2
<1>6. EvtTypeOK'
  BY <1>1, <1>2, <1>3, <1>5 DEF EvtTypeOK
<1>7. EvtCounts'
  BY <1>1, <1>5 DEF EvtInv, EvtCounts
<1>8. EventsIntact'
  <2>1. ASSUME NEW i \in 1..Len(mEvtQue) + 1
        PROVE  evtId'[mEvtQue'[i]] = posts' - Len(mEvtQue') + i
    <3>1. CASE i = Len(mEvtQue) + 1
      BY <1>1, <1>2, <3>1
    <3>2. CASE i \in 1..Len(mEvtQue)
      <4>1. mEvtQue'[i] = mEvtQue[i] /\ mEvtQue[i] # o /\ mEvtQue[i] \in EventObjs
        BY <1>1, <1>2, <1>3, <3>2
      <4>2. evtId[mEvtQue[i]] = posts - Len(mEvtQue) + i
        BY <1>2, <3>2 DEF EvtInv, EventsIntact
      <4> QED
        BY <1>1, <1>2, <4>1, <4>2
    <3> QED
      BY <1>2, <3>1, <3>2
  <2>2. Len(mEvtQue) <= evtCnt + loopCnt + unraised
    BY DEF EvtInv, EventsIntact
  <2>3. Len(mEvtQue') <= evtCnt' + loopCnt' + unraised'
    <3>1. Len(mEvtQue') = Len(mEvtQue) + 1 /\ Len(mEvtQue) \in Nat /\ Len(mEvtQue') \in Nat
      BY <1>2
    <3>2. loopCnt' = loopCnt /\ loopCnt \in Nat /\ loopCnt' \in Nat
      BY <1>1
    <3>3. /\ evtCnt \in Nat /\ unraised \in Nat /\ evtCnt' \in Nat /\ unraised' \in Nat
          /\ evtCnt' + unraised' = evtCnt + unraised + 1
      BY <1>5
    <3>4. Len(mEvtQue) + 1 <= evtCnt' + loopCnt + unraised'
      <4>1. \A n, a0, c0 \in Nat :
               n <= a0 + loopCnt + c0 /\ evtCnt' + unraised' = a0 + c0 + 1
                   => n + 1 <= evtCnt' + loopCnt + unraised'
        BY <3>2, <3>3, CountsCover
      <4> QED
        BY <2>2, <3>1, <3>3, <4>1
    <3> QED
      BY <3>1, <3>2, <3>4
  <2> QED
    BY <1>2, <2>1, <2>3 DEF EventsIntact
<1> QED
  BY <1>4, <1>6, <1>7, <1>8 DEF EvtInv

(* OnEventFd moves the first event to the used ones. *)
LEMMA EvtRoundInv ==
    ASSUME EvtInv, EvtRound
    PROVE  EvtInv'
<1>1. /\ evtCnt' = evtCnt /\ evtId' = evtId /\ posts' = posts /\ unraised' = unraised
      /\ evtOpen' = evtOpen /\ evtPc = "loop" /\ evtPc' # "idle"
      /\ loopCnt' = loopCnt - 1 /\ loopCnt' \in Nat /\ loopCnt \in Nat
      /\ evtCnt \in Nat /\ unraised \in Nat /\ posts \in Nat
      /\ evtId \in [EventObjs -> Nat]
      /\ mEvtQue \in Seq(EventObjs) /\ mDummyEvtQue \in Seq(EventObjs)
  BY DEF EvtInv, EvtTypeOK, EvtRound
<1>2. EvtCounts'
  BY <1>1 DEF EvtInv, EvtCounts
<1>3. CASE mEvtQue = <<>>
  <2>1. mEvtQue' = mEvtQue /\ mDummyEvtQue' = mDummyEvtQue
    BY <1>3 DEF EvtRound
  <2>2. EvtTypeOK' /\ ObjectsApart'
    BY <1>1, <2>1 DEF EvtInv, EvtTypeOK, ObjectsApart
  <2>3. EventsIntact'
    BY <1>1, <1>3, <2>1, EmptySeqFacts DEF EventsIntact
  <2> QED
    BY <1>2, <2>2, <2>3 DEF EvtInv
<1>4. CASE mEvtQue # <<>>
  <2>1. mEvtQue' = Tail(mEvtQue) /\ mDummyEvtQue' = <<Head(mEvtQue)>> \o mDummyEvtQue
    BY <1>4 DEF EvtRound
  <2>2. /\ Len(mEvtQue) \in Nat /\ Len(mEvtQue) > 0
        /\ Head(mEvtQue) = mEvtQue[1] /\ Head(mEvtQue) \in EventObjs
        /\ mEvtQue' \in Seq(EventObjs) /\ Len(mEvtQue') = Len(mEvtQue) - 1
        /\ DOMAIN mEvtQue = 1..Len(mEvtQue) /\ DOMAIN mEvtQue' = 1..Len(mEvtQue) - 1
        /\ \A i \in 1..Len(mEvtQue) - 1 : mEvtQue'[i] = mEvtQue[i + 1]
    BY <1>1, <1>4, <2>1, TailFacts
  <2>3. /\ mDummyEvtQue' \in Seq(EventObjs) /\ Len(mDummyEvtQue) \in Nat
        /\ Len(mDummyEvtQue') = Len(mDummyEvtQue) + 1
        /\ mDummyEvtQue'[1] = mEvtQue[1]
        /\ \A i \in 2..Len(mDummyEvtQue) + 1 : mDummyEvtQue'[i] = mDummyEvtQue[i - 1]
    BY <1>1, <2>1, <2>2, PrependFacts
  <2>4. EvtTypeOK'
    BY <1>1, <2>2, <2>3 DEF EvtTypeOK
  <2>5. ObjectsApart'
    <3> HIDE DEF EvtInv
    <3>o. /\ Distinct(mEvtQue) /\ Distinct(mDummyEvtQue)
          /\ \A i \in 1..Len(mEvtQue), j \in 1..Len(mDummyEvtQue) : mEvtQue[i] # mDummyEvtQue[j]
      BY DEF EvtInv, ObjectsApart
    <3>1. Distinct(mEvtQue')
      <4>1. SUFFICES ASSUME NEW i \in 1..Len(mEvtQue) - 1, NEW j \in 1..Len(mEvtQue) - 1,
                            mEvtQue'[i] = mEvtQue'[j]
                     PROVE  i = j
        BY <2>2 DEF Distinct
      <4>2. i + 1 \in 1..Len(mEvtQue) /\ j + 1 \in 1..Len(mEvtQue)
        BY <2>2
      <4>3. mEvtQue[i + 1] = mEvtQue[j + 1]
        BY <2>2, <4>1
      <4>4. i + 1 = j + 1
        BY <3>o, <4>2, <4>3 DEF Distinct
      <4> QED
        BY <4>4
    <3>2. Distinct(mDummyEvtQue')
      <4>1. SUFFICES ASSUME NEW i \in 1..Len(mDummyEvtQue) + 1, NEW j \in 1..Len(mDummyEvtQue) + 1,
                            i < j
                     PROVE  mDummyEvtQue'[i] # mDummyEvtQue'[j]
        <5>1. ASSUME NEW i \in 1..Len(mDummyEvtQue) + 1, NEW j \in 1..Len(mDummyEvtQue) + 1,
                     mDummyEvtQue'[i] = mDummyEvtQue'[j], i # j
              PROVE  i < j \/ j < i
          BY <2>3, <5>1
        <5> QED
          BY <2>3, <5>1 DEF Distinct
      <4>2. mDummyEvtQue'[j] = mDummyEvtQue[j - 1] /\ j - 1 \in 1..Len(mDummyEvtQue)
        BY <2>3, <4>1
      <4>3. CASE i = 1
        <5>1. 1 \in 1..Len(mEvtQue) /\ mDummyEvtQue'[i] = mEvtQue[1]
          BY <2>2, <2>3, <4>3
        <5> QED
          BY <3>o, <4>2, <5>1
      <4>4. CASE i # 1
        <5>1. mDummyEvtQue'[i] = mDummyEvtQue[i - 1] /\ i - 1 \in 1..Len(mDummyEvtQue)
          BY <2>3, <4>1, <4>4
        <5> QED
          BY <3>o, <4>1, <4>2, <5>1 DEF Distinct
      <4> QED
        BY <4>3, <4>4
    <3>3. ASSUME NEW i \in 1..Len(mEvtQue'), NEW j \in 1..Len(mDummyEvtQue')
          PROVE  mEvtQue'[i] # mDummyEvtQue'[j]
      <4>1. mEvtQue'[i] = mEvtQue[i + 1] /\ i + 1 \in 1..Len(mEvtQue)
        BY <2>2
      <4>2. CASE j = 1
        <5>1. 1 \in 1..Len(mEvtQue) /\ 1 # i + 1
          BY <2>2
        <5> QED
          BY <2>3, <3>o, <4>1, <4>2, <5>1 DEF Distinct
      <4>3. CASE j # 1
        <5>1. mDummyEvtQue'[j] = mDummyEvtQue[j - 1] /\ j - 1 \in 1..Len(mDummyEvtQue)
          BY <2>3, <4>3
        <5> QED
          BY <3>o, <4>1, <5>1
      <4> QED
        BY <4>2, <4>3
    <3> QED
      BY <3>1, <3>2, <3>3 DEF ObjectsApart
  <2>6. EventsIntact'
    <3>1. ASSUME NEW i \in 1..Len(mEvtQue) - 1
          PROVE  evtId'[mEvtQue'[i]] = posts' - Len(mEvtQue') + i
      <4>1. mEvtQue'[i] = mEvtQue[i + 1] /\ i + 1 \in DOMAIN mEvtQue
        BY <2>2
      <4>2. evtId[mEvtQue[i + 1]] = posts - Len(mEvtQue) + (i + 1)
        BY <4>1 DEF EvtInv, EventsIntact
      <4> QED
        BY <1>1, <2>2, <4>1, <4>2
    <3>2. Len(mEvtQue) <= evtCnt + loopCnt + unraised
      BY DEF EvtInv, EventsIntact
    <3>3. Len(mEvtQue') <= evtCnt' + loopCnt' + unraised'
      BY <1>1, <2>2, <3>2
    <3> QED
      BY <2>2, <3>1, <3>3 DEF EventsIntact
  <2> QED
    BY <1>2, <2>4, <2>5, <2>6 DEF EvtInv
<1> QED
  BY <1>3, <1>4

(* Every step of EdLocalEvent keeps the invariant. *)
LEMMA EvtStep == EvtInv /\ [EvtNext]_evtVars => EvtInv'
<1> SUFFICES ASSUME EvtInv, [EvtNext]_evtVars PROVE EvtInv'
  OBVIOUS
<1>1. CASE EvtOpen
  <2>1. EvtTypeOK' /\ ObjectsApart'
    BY <1>1 DEF EvtOpen, EvtInv, EvtTypeOK, ObjectsApart
  <2>2. EvtCounts' /\ evtCnt' = evtCnt
    BY <1>1 DEF EvtOpen, EvtInv, EvtCounts
  <2>3. EventsIntact'
    BY <1>1, <2>2 DEF EvtOpen, EvtInv, EventsIntact
  <2> QED
    BY <2>1, <2>2, <2>3 DEF EvtInv
<1>2. CASE EvtClose
  <2>1. EvtTypeOK'
    BY <1>2 DEF EvtClose, EvtInv, EvtTypeOK
  <2>2. Len(mEvtQue') = 0 /\ Len(mDummyEvtQue') = 0 /\ DOMAIN mEvtQue' = {}
    BY <1>2 DEF EvtClose
  <2>3. ObjectsApart'
    BY <2>2 DEF ObjectsApart, Distinct
  <2>4. EvtCounts'
    BY <1>2 DEF EvtClose, EvtInv, EvtCounts
  <2>5. EventsIntact'
    <3>1. evtCnt' \in Nat /\ loopCnt' \in Nat /\ unraised' \in Nat
      BY <2>1 DEF EvtTypeOK
    <3>2. Len(mEvtQue') = 0 /\ Len(mEvtQue') \in Nat
      BY <2>2
    <3>3. Len(mEvtQue') <= evtCnt' + loopCnt' + unraised'
      BY <3>1, <3>2, CountsCover
    <3> QED
      BY <2>2, <3>3 DEF EventsIntact
  <2> QED
    BY <2>1, <2>3, <2>4, <2>5 DEF EvtInv
<1>3. CASE EvtRead
  <2>1. EvtTypeOK' /\ ObjectsApart'
    BY <1>3 DEF EvtRead, EvtInv, EvtTypeOK, ObjectsApart
  <2>2. EvtCounts' /\ loopCnt = 0
    BY <1>3 DEF EvtRead, EvtInv, EvtCounts
  <2>3. EventsIntact'
    BY <1>3, <2>2 DEF EvtRead, EvtInv, EvtTypeOK, EventsIntact
  <2> QED
    BY <2>1, <2>2, <2>3 DEF EvtInv
<1>4. CASE EvtRound
  BY <1>4, EvtRoundInv
<1>5. CASE EvtListenerReturns \/ EvtLoopEnds \/ UNCHANGED evtVars
  <2>1. /\ UNCHANGED <<evtOpen, evtCnt, mEvtQue, mDummyEvtQue, evtId, loopCnt, posts, unraised>>
        /\ evtPc' = "idle" => loopCnt = 0
    BY <1>5 DEF EvtListenerReturns, EvtLoopEnds, evtVars, EvtInv, EvtCounts
  <2> QED
    BY <2>1 DEF EvtInv, EvtTypeOK, EvtCounts, ObjectsApart, EventsIntact
<1>6. ASSUME NEW o \in EventObjs, PostEvent(o) PROVE EvtInv'
  BY <1>6, EvtPost
<1> QED
  BY <1>1, <1>2, <1>3, <1>4, <1>5, <1>6 DEF EvtNext

\* For every mMaxEvent and any number of posts: the queue holds the last events
\* accepted, in order and each with its own contents, and the eventfd counts
\* them, but for those whose raise failed.
THEOREM EventsIntactThm == EvtSpec => []EventsIntact
<1>1. EvtInv => EventsIntact
  BY DEF EvtInv
<1> QED
  BY <1>1, EvtInitInv, EvtStep, PTL DEF EvtSpec


-----------------------------------------------------------------------------
(***************************************************************************)
(* The ring buffer.  RingIsFifo speaks of what a read returns; the         *)
(* invariant says where each byte lies.  A write never touches a byte that *)
(* is still to be read because mWritePos is where the data end, and a      *)
(* cursor that is not stale lies within the data.                          *)
(***************************************************************************)

\* Positions after the end of the buffer go on at its start.
Wrap(a) == IF a < RingSize THEN a ELSE a - RingSize

RingNumbersOK ==
    /\ mReadPos \in 0..RingSize - 1 /\ mWritePos \in 0..RingSize - 1
    /\ mDataSize \in 0..RingSize /\ ringNext \in Nat
    /\ mLastPeekPos \in 0..RingSize - 1 /\ mLastPeekDataSize \in 0..RingSize
    /\ peeked \in 0..RingSize + 1

RingDataOK ==
    /\ mBuf \in [0..RingSize - 1 -> Nat]
    /\ ringRef \in Seq(Nat) /\ Len(ringRef) = mDataSize
    /\ mWritePos = Wrap(mReadPos + mDataSize)
    /\ \A i \in 1..mDataSize : ringRef[i] = mBuf[Wrap(mReadPos + i - 1)]

CursorOK ==
    peeked # Stale =>
        /\ peeked + mLastPeekDataSize <= mDataSize
        /\ mLastPeekPos = Wrap(mReadPos + peeked)

RingInv == RingNumbersOK /\ RingDataOK /\ CursorOK

(* The remainder by the size of the ring, without division. *)
LEMMA WrapFacts ==
    ASSUME NEW a \in 0..2 * RingSize - 1
    PROVE  a % RingSize = Wrap(a) /\ Wrap(a) \in 0..RingSize - 1
BY RingSizeAssumption DEF Wrap

(* Wrapping twice is wrapping the sum. *)
LEMMA WrapTwice ==
    ASSUME NEW a \in 0..RingSize - 1, NEW x \in Nat, NEW y \in Nat, x + y <= RingSize
    PROVE  Wrap(Wrap(a + x) + y) = Wrap(a + (x + y))
BY RingSizeAssumption DEF Wrap

\* A read of up to size bytes from rp on returns the ds bytes there are, or as
\* many of them as asked for.
LEMMA ReadFacts ==
    ASSUME mBuf \in [0..RingSize - 1 -> Nat], NEW size \in Nat,
           NEW rp \in 0..RingSize - 1, NEW ds \in 0..RingSize
    PROVE  /\ ReadPos(size, rp, ds) \in Seq(Nat)
           /\ Len(ReadPos(size, rp, ds)) = LesserOf(size, ds)
           /\ \A i \in 1..LesserOf(size, ds) : ReadPos(size, rp, ds)[i] = mBuf[Wrap(rp + i - 1)]
<1> DEFINE rd == LesserOf(size, ds)
           c == LesserOf(rd, RingSize - rp)
<1>1. /\ rd \in Nat /\ rd <= RingSize /\ RingSize \in Nat /\ rp \in Nat /\ rp < RingSize
      /\ c \in Nat /\ c <= rd /\ rd - c \in Nat /\ c <= RingSize - rp
      /\ rd = c \/ c = RingSize - rp
  BY RingSizeAssumption DEF LesserOf
<1>2. ReadPos(size, rp, ds) = Piece(rp, c) \o Piece(0, rd - c)
  BY DEF ReadPos
<1> HIDE DEF rd, c
<1>3. Piece(rp, c) \in [1..c -> Nat] /\ Piece(0, rd - c) \in [1..rd - c -> Nat]
  BY <1>1 DEF Piece
<1>4. /\ Piece(rp, c) \in Seq(Nat) /\ Len(Piece(rp, c)) = c
      /\ Piece(0, rd - c) \in Seq(Nat) /\ Len(Piece(0, rd - c)) = rd - c
  BY <1>1, <1>3, SeqOfFunction
<1> DEFINE first == Piece(rp, c)
           second == Piece(0, rd - c)
           bytes == ReadPos(size, rp, ds)
<1>5. /\ \A i \in 1..c : first[i] = mBuf[rp + i - 1]
      /\ \A i \in 1..rd - c : second[i] = mBuf[0 + i - 1]
  BY DEF Piece
<1>6. /\ first \in Seq(Nat) /\ Len(first) = c /\ second \in Seq(Nat) /\ Len(second) = rd - c
      /\ bytes = first \o second
  BY <1>2, <1>4
<1> HIDE DEF first, second, bytes
<1>7. /\ bytes \in Seq(Nat) /\ Len(bytes) = rd
      /\ \A i \in 1..c : bytes[i] = first[i]
      /\ \A i \in c + 1..rd : bytes[i] = second[i - c]
  <2>1. Len(first) + Len(second) = rd
    BY <1>1, <1>6
  <2>2. /\ first \o second \in Seq(Nat) /\ Len(first \o second) = Len(first) + Len(second)
        /\ \A i \in 1..Len(first) : (first \o second)[i] = first[i]
        /\ \A i \in Len(first) + 1..Len(first) + Len(second) :
               (first \o second)[i] = second[i - Len(first)]
    BY <1>6, ConcatFacts
  <2> QED
    BY <1>6, <2>1, <2>2
<1>8. ASSUME NEW i \in 1..rd
      PROVE  bytes[i] = mBuf[Wrap(rp + i - 1)]
  <2>1. CASE i <= c
    <3>1. i \in 1..c /\ Wrap(rp + i - 1) = rp + i - 1
      BY <1>1, <2>1 DEF Wrap
    <3> QED
      BY <1>5, <1>7, <3>1
  <2>2. CASE ~ (i <= c)
    <3>1. i \in c + 1..rd /\ i - c \in 1..rd - c /\ Wrap(rp + i - 1) = 0 + (i - c) - 1
      BY <1>1, <2>2 DEF Wrap
    <3>2. second[i - c] = mBuf[0 + (i - c) - 1]
      BY <1>5, <3>1
    <3> QED
      BY <1>7, <3>1, <3>2
  <2> QED
    BY <2>1, <2>2
<1> QED
  BY <1>7, <1>8 DEF rd, bytes

(* The initial ring satisfies its invariant. *)
LEMMA RingInitInv == RingInit => RingInv
<1> SUFFICES ASSUME RingInit PROVE RingInv
  OBVIOUS
<1>1. RingNumbersOK
  BY RingSizeAssumption DEF RingInit, RingNumbersOK
<1>2. RingDataOK
  BY RingSizeAssumption DEF RingInit, RingDataOK, Wrap
<1>3. CursorOK
  BY RingSizeAssumption DEF RingInit, CursorOK, Wrap
<1> QED
  BY <1>1, <1>2, <1>3 DEF RingInv

\* A get takes the first bytes, and the others stay where they are.
LEMMA RingGetInv ==
    ASSUME RingInv, NEW size \in 1..RingSize + 1, RingGet(size)
    PROVE  RingInv'
<1> DEFINE n == LesserOf(size, mDataSize)
<1>1. /\ RingSize \in Nat \ {0} /\ mReadPos \in Nat /\ mReadPos < RingSize
      /\ mDataSize \in Nat /\ mDataSize <= RingSize /\ size \in Nat
      /\ n \in Nat /\ n <= mDataSize
  BY RingSizeAssumption DEF RingInv, RingNumbersOK, LesserOf
<1>2. Len(ReadPos(size, mReadPos, mDataSize)) = n
  BY <1>1, ReadFacts DEF RingInv, RingNumbersOK, RingDataOK
<1>3. /\ mReadPos' = (mReadPos + n) % RingSize /\ mDataSize' = mDataSize - n
      /\ ringRef' = SubSeq(ringRef, n + 1, Len(ringRef))
      /\ peeked' = IF n = 0 THEN peeked ELSE Stale
      /\ UNCHANGED <<mBuf, mWritePos, mLastPeekPos, mLastPeekDataSize, ringNext>>
  BY <1>2 DEF RingGet
<1> HIDE DEF n
<1>4. mReadPos' = Wrap(mReadPos + n) /\ mReadPos' \in 0..RingSize - 1
  <2>1. mReadPos + n \in 0..2 * RingSize - 1
    BY <1>1
  <2> QED
    BY <1>3, <2>1, WrapFacts
<1>5. RingNumbersOK'
  BY <1>1, <1>3, <1>4 DEF RingInv, RingNumbersOK, Stale
<1>6. ringRef \in Seq(Nat) /\ Len(ringRef) = mDataSize
  BY DEF RingInv, RingDataOK
<1>7. /\ ringRef' \in Seq(Nat) /\ Len(ringRef') = mDataSize'
      /\ \A i \in 1..mDataSize' : ringRef'[i] = ringRef[n + i]
  <2>1. n \in 0..Len(ringRef)
    BY <1>1, <1>6
  <2> QED
    BY <1>3, <1>6, <2>1, DropFacts
<1>8. RingDataOK'
  <2>1. mWritePos' = Wrap(mReadPos' + mDataSize')
    <3>1. mWritePos = Wrap(mReadPos + mDataSize)
      BY DEF RingInv, RingDataOK
    <3>2. /\ mReadPos \in 0..RingSize - 1 /\ mDataSize' \in Nat
          /\ n + mDataSize' = mDataSize /\ n + mDataSize' <= RingSize
      BY <1>1, <1>3
    <3>3. Wrap(Wrap(mReadPos + n) + mDataSize') = Wrap(mReadPos + (n + mDataSize'))
      BY <1>1, <3>2, WrapTwice, ZenonT(30)
    <3> QED
      BY <1>3, <1>4, <3>1, <3>2, <3>3
  <2>2. ASSUME NEW i \in 1..mDataSize' PROVE ringRef'[i] = mBuf'[Wrap(mReadPos' + i - 1)]
    <3>1. n + i \in 1..mDataSize /\ i \in Nat
      BY <1>1, <1>3
    <3>2. ringRef[n + i] = mBuf[Wrap(mReadPos + (n + i) - 1)]
      BY <3>1 DEF RingInv, RingDataOK
    <3>3. Wrap(mReadPos + (n + i) - 1) = Wrap(mReadPos' + i - 1)
      BY <1>1, <1>4, <3>1 DEF Wrap
    <3> QED
      BY <1>3, <1>7, <3>2, <3>3
  <2> QED
    BY <1>3, <1>7, <2>1, <2>2 DEF RingInv, RingDataOK, Wrap
<1>9. CursorOK'
  <2>1. CASE n = 0
    <3>1. /\ mReadPos' = mReadPos /\ mDataSize' = mDataSize /\ peeked' = peeked
          /\ mLastPeekPos' = mLastPeekPos /\ mLastPeekDataSize' = mLastPeekDataSize
      BY <1>1, <1>3, <1>4, <2>1 DEF Wrap
    <3> QED
      BY <3>1 DEF RingInv, CursorOK, Wrap, Stale
  <2>2. CASE n # 0
    BY <1>3, <2>2 DEF CursorOK, Stale
  <2> QED
    BY <2>1, <2>2
<1> QED
  BY <1>5, <1>8, <1>9 DEF RingInv

(* peek keeps the invariant. *)
LEMMA RingPeekInv ==
    ASSUME RingInv, NEW size \in 1..RingSize + 1, RingPeek(size)
    PROVE  RingInv'
<1> DEFINE n == LesserOf(size, mDataSize)
<1>1. /\ RingSize \in Nat \ {0} /\ mReadPos \in Nat /\ mReadPos < RingSize
      /\ mDataSize \in Nat /\ mDataSize <= RingSize /\ size \in Nat
      /\ n \in Nat /\ n <= mDataSize
  BY RingSizeAssumption DEF RingInv, RingNumbersOK, LesserOf
<1>2. Len(ReadPos(size, mReadPos, mDataSize)) = n
  BY <1>1, ReadFacts DEF RingInv, RingNumbersOK, RingDataOK
<1>3. /\ mLastPeekPos' = (mReadPos + n) % RingSize /\ mLastPeekDataSize' = mDataSize - n
      /\ peeked' = n
      /\ UNCHANGED <<mBuf, mReadPos, mWritePos, mDataSize, ringRef, ringNext>>
  BY <1>2 DEF RingPeek
<1> HIDE DEF n
<1>4. mLastPeekPos' = Wrap(mReadPos + n) /\ mLastPeekPos' \in 0..RingSize - 1
  <2>1. mReadPos + n \in 0..2 * RingSize - 1
    BY <1>1
  <2> QED
    BY <1>3, <2>1, WrapFacts
<1>5. RingNumbersOK'
  BY <1>1, <1>3, <1>4 DEF RingInv, RingNumbersOK
<1>6. RingDataOK'
  BY <1>3 DEF RingInv, RingDataOK, Wrap
<1>7. CursorOK'
  BY <1>1, <1>3, <1>4 DEF CursorOK, Wrap
<1> QED
  BY <1>5, <1>6, <1>7 DEF RingInv

\* peekNext goes on from the cursor, and stays within the data.
LEMMA RingPeekNextInv ==
    ASSUME RingInv, NEW size \in 1..RingSize + 1, RingPeekNext(size)
    PROVE  RingInv'
<1> DEFINE n == LesserOf(size, mLastPeekDataSize)
<1>1. /\ RingSize \in Nat \ {0} /\ mReadPos \in Nat /\ mReadPos < RingSize
      /\ mDataSize \in Nat /\ mDataSize <= RingSize /\ size \in Nat
      /\ mLastPeekDataSize \in Nat /\ mLastPeekDataSize <= RingSize
      /\ mLastPeekPos \in Nat /\ mLastPeekPos < RingSize /\ peeked \in Nat
      /\ n \in Nat /\ n <= mLastPeekDataSize
  BY RingSizeAssumption DEF RingInv, RingNumbersOK, LesserOf
<1>2. Len(ReadPos(size, mLastPeekPos, mLastPeekDataSize)) = n
  BY <1>1, ReadFacts DEF RingInv, RingNumbersOK, RingDataOK
<1>3. /\ mLastPeekPos' = (mLastPeekPos + n) % RingSize
      /\ mLastPeekDataSize' = mLastPeekDataSize - n /\ peeked' = peeked + n
      /\ UNCHANGED <<mBuf, mReadPos, mWritePos, mDataSize, ringRef, ringNext>>
  BY <1>2 DEF RingPeekNext
<1> HIDE DEF n
<1>4. peeked + mLastPeekDataSize <= mDataSize /\ mLastPeekPos = Wrap(mReadPos + peeked)
  BY DEF RingInv, CursorOK, RingPeekNext
<1>5. mLastPeekPos' = Wrap(mLastPeekPos + n) /\ mLastPeekPos' \in 0..RingSize - 1
  <2>1. mLastPeekPos + n \in 0..2 * RingSize - 1
    BY <1>1
  <2> QED
    BY <1>3, <2>1, WrapFacts
<1>6. RingNumbersOK'
  BY <1>1, <1>3, <1>4, <1>5 DEF RingInv, RingNumbersOK
<1>7. RingDataOK'
  BY <1>3 DEF RingInv, RingDataOK, Wrap
<1>8. CursorOK'
  BY <1>1, <1>3, <1>4, <1>5 DEF CursorOK, Wrap
<1> QED
  BY <1>6, <1>7, <1>8 DEF RingInv

\* A put writes behind the data, and only there.
LEMMA RingPutInv ==
    ASSUME RingInv, NEW size \in 1..RingSize + 1, RingPut(size)
    PROVE  RingInv'
<1> DEFINE n == LesserOf(size, RingSize - mDataSize)
           c == LesserOf(n, RingSize - mWritePos)
           bytes == [i \in 1..n |-> (ringNext + i - 1) % RingBytes]
           At(i) == Wrap(mWritePos + i - 1)
<1>1. /\ RingSize \in Nat \ {0} /\ mReadPos \in Nat /\ mReadPos < RingSize
      /\ mDataSize \in Nat /\ mDataSize <= RingSize /\ size \in Nat
      /\ mWritePos \in Nat /\ mWritePos < RingSize
      /\ n \in Nat /\ n + mDataSize <= RingSize
      /\ c \in Nat /\ c <= n /\ c <= RingSize - mWritePos /\ (c = n \/ c = RingSize - mWritePos)
  BY RingSizeAssumption DEF RingInv, RingNumbersOK, LesserOf
<1>2. /\ mBuf' = [p \in 0..RingSize - 1 |->
                      IF \E i \in 1..n : Written(i, c) = p
                      THEN bytes[CHOOSE i \in 1..n : Written(i, c) = p]
                      ELSE mBuf[p]]
      /\ mWritePos' = ((mWritePos + c) % RingSize) + (n - c)
      /\ mDataSize' = mDataSize + n
      /\ ringRef' = ringRef \o bytes
      /\ ringNext' = (ringNext + n) % RingBytes
      /\ UNCHANGED <<mReadPos, mLastPeekPos, mLastPeekDataSize, peeked>>
  BY DEF RingPut
<1>3. /\ RingBytes \in Nat \ {0} /\ ringNext \in Nat
      /\ mBuf \in [0..RingSize - 1 -> Nat] /\ ringRef \in Seq(Nat) /\ Len(ringRef) = mDataSize
      /\ mWritePos = Wrap(mReadPos + mDataSize)
      /\ \A i \in 1..mDataSize : ringRef[i] = mBuf[Wrap(mReadPos + i - 1)]
  BY RingBytesAssumption DEF RingInv, RingNumbersOK, RingDataOK
<1> HIDE DEF n, c
<1>4. bytes \in [1..n -> Nat] /\ ringNext' \in Nat
  BY <1>1, <1>2, <1>3
<1> HIDE DEF bytes
<1>5. bytes \in Seq(Nat) /\ Len(bytes) = n
  BY <1>1, <1>4, SeqOfFunction
<1>6. \A i \in 1..n : Written(i, c) = At(i) /\ At(i) \in 0..RingSize - 1
  BY <1>1 DEF Written, Wrap
<1>7. \A i, j \in 1..n : At(i) = At(j) => i = j
  BY <1>1 DEF Wrap
<1>8. mBuf' \in [0..RingSize - 1 -> Nat] /\ \A i \in 1..n : mBuf'[At(i)] = bytes[i]
  <2> HIDE DEF At
  <2>1. ASSUME NEW p \in 0..RingSize - 1, NEW i \in 1..n, Written(i, c) = p
        PROVE  (CHOOSE j \in 1..n : Written(j, c) = p) = i
    BY <2>1, <1>6, <1>7
  <2>2. ASSUME NEW p \in 0..RingSize - 1 PROVE mBuf'[p] \in Nat
    <3>1. CASE \E i \in 1..n : Written(i, c) = p
      BY <3>1, <1>2, <1>4
    <3>2. CASE ~ \E i \in 1..n : Written(i, c) = p
      BY <3>2, <1>2, <1>3
    <3> QED
      BY <3>1, <3>2
  <2>3. mBuf' = [p \in 0..RingSize - 1 |-> mBuf'[p]]
    BY <1>2
  <2>4. ASSUME NEW i \in 1..n PROVE mBuf'[At(i)] = bytes[i]
    BY <2>1, <1>2, <1>6
  <2> QED
    BY <2>2, <2>3, <2>4
<1>9. \A p \in 0..RingSize - 1 : (\A i \in 1..n : At(i) # p) => mBuf'[p] = mBuf[p]
  BY <1>2, <1>6
<1>10. mWritePos' = Wrap(mWritePos + n) /\ mWritePos' \in 0..RingSize - 1
  <2>1. mWritePos + c \in 0..2 * RingSize - 1
    BY <1>1
  <2>2. (mWritePos + c) % RingSize = Wrap(mWritePos + c)
    BY <2>1, WrapFacts
  <2>3. Wrap(mWritePos + c) + (n - c) = Wrap(mWritePos + n)
    BY <1>1 DEF Wrap
  <2>4. Wrap(mWritePos + n) \in 0..RingSize - 1
    BY <1>1 DEF Wrap
  <2> QED
    BY <1>2, <2>2, <2>3, <2>4
<1>11. RingNumbersOK'
  BY <1>1, <1>2, <1>4, <1>10 DEF RingInv, RingNumbersOK
<1>12. /\ ringRef' \in Seq(Nat) /\ Len(ringRef') = mDataSize'
       /\ \A i \in 1..mDataSize : ringRef'[i] = ringRef[i]
       /\ \A i \in mDataSize + 1..mDataSize + n : ringRef'[i] = bytes[i - mDataSize]
  <2>1. /\ ringRef \o bytes \in Seq(Nat)
        /\ Len(ringRef \o bytes) = Len(ringRef) + Len(bytes)
        /\ \A i \in 1..Len(ringRef) : (ringRef \o bytes)[i] = ringRef[i]
        /\ \A i \in Len(ringRef) + 1..Len(ringRef) + Len(bytes) :
               (ringRef \o bytes)[i] = bytes[i - Len(ringRef)]
    BY <1>3, <1>5, ConcatFacts, ZenonT(30)
  <2> QED
    BY <1>2, <1>3, <1>5, <2>1
<1>13. ASSUME NEW i \in 1..mDataSize' PROVE ringRef'[i] = mBuf'[Wrap(mReadPos' + i - 1)]
  <2>1. CASE i <= mDataSize
    <3>1. i \in 1..mDataSize /\ Wrap(mReadPos + i - 1) \in 0..RingSize - 1
      <4>1. mDataSize' = mDataSize + n
        BY <1>2
      <4>2. i \in 1..mDataSize
        BY <2>1, <4>1, <1>1
      <4> QED
        BY <4>2, <1>1 DEF Wrap
    <3>2. \A j \in 1..n : At(j) # Wrap(mReadPos + i - 1)
      BY <3>1, <1>1, <1>3 DEF Wrap
    <3> HIDE DEF At
    <3>3. mBuf'[Wrap(mReadPos + i - 1)] = mBuf[Wrap(mReadPos + i - 1)]
      BY <3>1, <3>2, <1>9
    <3>4. ringRef'[i] = mBuf[Wrap(mReadPos + i - 1)]
      BY <3>1, <1>3, <1>12
    <3>5. mReadPos' = mReadPos
      BY <1>2
    <3> QED
      BY <3>3, <3>4, <3>5
  <2>2. CASE ~ (i <= mDataSize)
    <3>1. i \in mDataSize + 1..mDataSize + n /\ i - mDataSize \in 1..n
      BY <2>2, <1>1, <1>2, SMTT(30)
    <3>2. At(i - mDataSize) = Wrap(mReadPos + i - 1)
      BY <3>1, <1>1, <1>3 DEF Wrap
    <3>3. mBuf'[At(i - mDataSize)] = bytes[i - mDataSize]
      BY <3>1, <1>8
    <3> QED
      BY <3>1, <3>2, <3>3, <1>2, <1>12
  <2> QED
    BY <2>1, <2>2
<1>14. mWritePos' = Wrap(mReadPos' + mDataSize')
  BY <1>1, <1>2, <1>3, <1>10 DEF Wrap
<1>15. RingDataOK'
  BY <1>8, <1>12, <1>13, <1>14 DEF RingDataOK, Wrap
<1>16. CursorOK'
  <2>1. mLastPeekDataSize \in Nat /\ peeked \in Nat
    BY <1>1 DEF RingInv, RingNumbersOK
  <2> QED
    BY <2>1, <1>1, <1>2 DEF RingInv, CursorOK, Wrap, Stale
<1> QED
  BY <1>11, <1>15, <1>16 DEF RingInv

(* Every step of the ring keeps its invariant. *)
LEMMA RingStep == RingInv /\ [RingNext]_ringVars => RingInv'
<1> SUFFICES ASSUME RingInv, [RingNext]_ringVars PROVE RingInv'
  OBVIOUS
<1>1. CASE RingNext
  BY <1>1, RingGetInv, RingPeekInv, RingPeekNextInv, RingPutInv DEF RingNext
<1>2. CASE UNCHANGED ringVars
  <2>1. RingNumbersOK' /\ CursorOK'
    BY <1>2 DEF ringVars, RingInv, RingNumbersOK, CursorOK, Wrap, Stale
  <2>2. RingDataOK'
    BY <1>2 DEF ringVars, RingInv, RingDataOK, Wrap
  <2> QED
    BY <2>1, <2>2 DEF RingInv
<1> QED
  BY <1>1, <1>2

\* For every buffer size: whatever puts, gets and peeks came before, get and peek
\* (EdRingQue::get, peek) return the oldest bytes in the order they were put, and
\* peekNext the ones after those already shown, wherever the buffer wraps.
THEOREM RingIsFifoThm == RingSpec => []RingIsFifo
<1>1. RingInv => RingIsFifo
  <2> SUFFICES ASSUME RingInv PROVE RingIsFifo
    OBVIOUS
  <2>1. /\ RingSize \in Nat \ {0} /\ mReadPos \in 0..RingSize - 1
        /\ mDataSize \in 0..RingSize /\ mLastPeekPos \in 0..RingSize - 1
        /\ mLastPeekDataSize \in 0..RingSize
        /\ mBuf \in [0..RingSize - 1 -> Nat] /\ ringRef \in Seq(Nat) /\ Len(ringRef) = mDataSize
        /\ \A i \in 1..mDataSize : ringRef[i] = mBuf[Wrap(mReadPos + i - 1)]
    BY RingSizeAssumption DEF RingInv, RingNumbersOK, RingDataOK
  <2>2. mReadPos < RingSize /\ mWritePos < RingSize
    BY RingSizeAssumption DEF RingInv, RingNumbersOK
  <2>3. ASSUME NEW size \in 1..RingSize + 1
        PROVE  ReadPos(size, mReadPos, mDataSize) = SubSeq(ringRef, 1, LesserOf(size, Len(ringRef)))
    <3> DEFINE q == ReadPos(size, mReadPos, mDataSize)
               n == LesserOf(size, mDataSize)
               t == SubSeq(ringRef, 1, n)
    <3>1. n \in Nat /\ n <= mDataSize /\ size \in Nat /\ mDataSize \in Nat
      BY <2>1 DEF LesserOf
    <3>2. q \in Seq(Nat) /\ Len(q) = n /\ \A i \in 1..n : q[i] = mBuf[Wrap(mReadPos + i - 1)]
      BY <2>1, <3>1, ReadFacts, ZenonT(30)
    <3> HIDE DEF q, n
    <3>3. t \in Seq(Nat) /\ Len(t) = n /\ \A i \in 1..n : t[i] = ringRef[i]
      BY <2>1, <3>1
    <3>4. \A i \in 1..n : i \in 1..mDataSize
      BY <3>1
    <3> HIDE DEF t
    <3>5. q = t
      <4>1. \A i \in 1..Len(q) : q[i] = t[i]
        BY <2>1, <3>2, <3>3, <3>4
      <4> QED
        BY <4>1, <3>2, <3>3, SeqEqual
    <3> QED
      BY <2>1, <3>5 DEF q, n, t
  <2>4. ASSUME NEW size \in 1..RingSize + 1, peeked # Stale
        PROVE  IsPrefix(ReadPos(size, mLastPeekPos, mLastPeekDataSize),
                        SubSeq(ringRef, peeked + 1, Len(ringRef)))
    <3> DEFINE q == ReadPos(size, mLastPeekPos, mLastPeekDataSize)
               n == LesserOf(size, mLastPeekDataSize)
               t == SubSeq(ringRef, peeked + 1, Len(ringRef))
    <3>1. /\ n \in Nat /\ n <= mLastPeekDataSize /\ size \in Nat
          /\ mLastPeekDataSize \in Nat /\ mDataSize \in Nat /\ peeked \in Nat
          /\ peeked + mLastPeekDataSize <= mDataSize /\ mLastPeekPos = Wrap(mReadPos + peeked)
      BY <2>1, <2>4 DEF LesserOf, RingInv, RingNumbersOK, CursorOK
    <3>2. q \in Seq(Nat) /\ Len(q) = n /\ \A i \in 1..n : q[i] = mBuf[Wrap(mLastPeekPos + i - 1)]
      BY <2>1, <3>1, ReadFacts, ZenonT(30)
    <3> HIDE DEF q, n
    <3>3. peeked \in 0..Len(ringRef)
      BY <2>1, <3>1
    <3>4. /\ t \in Seq(Nat) /\ Len(t) = mDataSize - peeked
          /\ \A i \in 1..mDataSize - peeked : t[i] = ringRef[peeked + i]
      BY <2>1, <3>3, DropFacts
    <3> HIDE DEF t
    <3>5. Len(q) <= Len(t)
      BY <3>1, <3>2, <3>4
    <3>6. ASSUME NEW i \in 1..Len(q) PROVE q[i] = t[i]
      <4>1. i \in 1..n /\ i \in 1..mDataSize - peeked /\ peeked + i \in 1..mDataSize
        BY <3>1, <3>2
      <4>2. Wrap(mLastPeekPos + i - 1) = Wrap(mReadPos + (peeked + i) - 1)
        BY <2>1, <3>1, <4>1 DEF Wrap
      <4>3. ringRef[peeked + i] = mBuf[Wrap(mReadPos + (peeked + i) - 1)]
        BY <2>1, <4>1
      <4> QED
        BY <3>2, <3>4, <4>1, <4>2, <4>3
    <3>7. IsPrefix(q, t)
      BY <3>2, <3>4, <3>5, <3>6, PrefixFacts
    <3> QED
      BY <3>7 DEF q, t
  <2> QED
    BY <2>2, <2>3, <2>4 DEF RingIsFifo
<1> QED
  BY <1>1, RingInitInv, RingStep, PTL DEF RingSpec

-----------------------------------------------------------------------------
(***************************************************************************)
(* The intrusive list.  ListIsSequence needs that the nodes of a list are  *)
(* distinct, and, because remove and insert recognise a node by its seed,  *)
(* that a header which names a list belongs to a node of that list.        *)
(***************************************************************************)

HdrType ==
    [prev : Nodes \cup {Nil}, next : Nodes \cup {Nil},
     seed : Lists \cup {Nil}, list : Lists \cup {Nil}]

\* The i-th node of s, and no node before its first and after its last one.
Nth(s, i) == IF i \in 1..Len(s) THEN s[i] ELSE Nil

Links(s, i, seed, l) ==
    [prev |-> Nth(s, i - 1), next |-> Nth(s, i + 1), seed |-> seed, list |-> l]

NoRepeat(s) == \A i, j \in 1..Len(s) : s[i] = s[j] => i = j

\* The headers h, from head to tail, are those of the sequence s in list l.
Chained(s, h, head, tail, seed, l) ==
    /\ s \in Seq(Nodes) /\ NoRepeat(s)
    /\ head = Nth(s, 1) /\ tail = Nth(s, Len(s))
    /\ \A i \in 1..Len(s) : h[s[i]] = Links(s, i, seed, l)

Member(n, s) == \E i \in 1..Len(s) : s[i] = n

ListTypeOK ==
    /\ mphead \in [Lists -> Nodes \cup {Nil}] /\ mptail \in [Lists -> Nodes \cup {Nil}]
    /\ mSize \in [Lists -> Nat] /\ mSeed \in [Lists -> Lists \cup {Nil}]
    /\ hdr \in [Nodes -> HdrType] /\ listRef \in [Lists -> Seq(Nodes)]

ListsChained ==
    \A l \in Lists :
        /\ mSize[l] = Len(listRef[l]) /\ mSeed[l] \in {l, Nil}
        /\ Chained(listRef[l], hdr, mphead[l], mptail[l], mSeed[l], l)

HeadersTruthful ==
    \A n \in Nodes :
        /\ hdr[n].list = Nil => hdr[n].seed = Nil
        /\ hdr[n].list # Nil => Member(n, listRef[hdr[n].list])

ListInv == ListTypeOK /\ ListsChained /\ HeadersTruthful

\* A chain is not disturbed by changes to headers of other nodes.
LEMMA ChainedFrame ==
    ASSUME NEW s, NEW h, NEW g, NEW head, NEW tail, NEW seed, NEW l,
           Chained(s, h, head, tail, seed, l),
           \A n \in Nodes : Member(n, s) => g[n] = h[n]
    PROVE  Chained(s, g, head, tail, seed, l)
<1>1. \A i \in 1..Len(s) : s[i] \in Nodes /\ Member(s[i], s)
  BY DEF Chained, Member
<1> QED
  BY <1>1 DEF Chained

(* The header of the i-th node of a chained list. *)
LEMMA ChainedHdr ==
    ASSUME NEW s, NEW h, NEW head, NEW tail, NEW seed, NEW l,
           Chained(s, h, head, tail, seed, l), NEW i \in 1..Len(s)
    PROVE  /\ h[s[i]].prev = Nth(s, i - 1) /\ h[s[i]].next = Nth(s, i + 1)
           /\ h[s[i]].seed = seed /\ h[s[i]].list = l
<1>1. h[s[i]] = Links(s, i, seed, l)
  BY DEF Chained
<1> QED
  BY <1>1 DEF Links

(* The empty list is chained. *)
LEMMA ChainedEmpty ==
    ASSUME NEW h, NEW seed, NEW l
    PROVE  Chained(<<>>, h, Nil, Nil, seed, l)
BY DEF Chained, NoRepeat, Nth

(* The initial lists satisfy the invariant. *)
LEMMA ListInitInv == ListInit => ListInv
<1> SUFFICES ASSUME ListInit PROVE ListInv
  OBVIOUS
<1>1. NewHdr \in HdrType /\ NewHdr.list = Nil /\ NewHdr.seed = Nil
  BY DEF NewHdr, HdrType
<1>2. ListTypeOK
  BY <1>1 DEF ListInit, ListTypeOK
<1>3. ListsChained
  <2> SUFFICES ASSUME NEW l \in Lists
               PROVE  /\ mSize[l] = Len(listRef[l]) /\ mSeed[l] \in {l, Nil}
                      /\ Chained(listRef[l], hdr, mphead[l], mptail[l], mSeed[l], l)
    BY DEF ListsChained
  <2>1. /\ mphead[l] = Nil /\ mptail[l] = Nil /\ listRef[l] = <<>>
        /\ mSize[l] = 0 /\ mSeed[l] = l
    BY DEF ListInit
  <2> QED
    BY <2>1, ChainedEmpty
<1>4. HeadersTruthful
  BY <1>1 DEF ListInit, HeadersTruthful
<1> QED
  BY <1>2, <1>3, <1>4 DEF ListInv

\* A node whose header has the seed of a list, which after clear is that of no
\* list, and names the list in this case, is a node of the list.
LEMMA SeedFinds ==
    ASSUME ListInv, NEW l \in Lists, NEW n \in Nodes,
           hdr[n].seed = mSeed[l], mSeed[l] = Nil => hdr[n].list = l
    PROVE  Member(n, listRef[l])
<1>1. hdr[n].list \in Lists \cup {Nil} /\ mSeed[l] \in {l, Nil} /\ Nil \notin Lists
  BY ListsAssumption DEF ListInv, ListTypeOK, ListsChained, HdrType
<1>2. hdr[n].list # Nil
  BY <1>1 DEF ListInv, HeadersTruthful
<1>3. PICK i \in 1..Len(listRef[hdr[n].list]) : listRef[hdr[n].list][i] = n
  BY <1>2 DEF ListInv, HeadersTruthful, Member
<1>4. /\ hdr[n].seed = mSeed[hdr[n].list]
      /\ mSeed[hdr[n].list] \in {hdr[n].list, Nil}
  BY <1>1, <1>2, <1>3, ChainedHdr DEF ListInv, ListsChained
<1>5. hdr[n].list = l
  BY <1>1, <1>4
<1> QED
  BY <1>3, <1>5 DEF Member

\* The header of a node of a list names the list.
LEMMA MemberHdr ==
    ASSUME ListInv, NEW l \in Lists, NEW n \in Nodes, Member(n, listRef[l])
    PROVE  hdr[n].list = l /\ hdr[n].seed = mSeed[l]
<1>1. PICK i \in 1..Len(listRef[l]) : listRef[l][i] = n
  BY DEF Member
<1> QED
  BY <1>1, ChainedHdr DEF ListInv, ListsChained

\* What an operation on list l has to show: it makes a chain of the new sequence
\* t, changes no header but those of nodes that are, were or become nodes of l,
\* and those that leave it are unlisted.
Rechains(l, t, sd, hd, tl) ==
    /\ t \in Seq(Nodes) /\ listRef' = [listRef EXCEPT ![l] = t]
    /\ mSize' = [mSize EXCEPT ![l] = Len(t)]
    /\ sd \in {l, Nil} /\ mSeed' = [mSeed EXCEPT ![l] = sd]
    /\ hd \in Nodes \cup {Nil} /\ mphead' = [mphead EXCEPT ![l] = hd]
    /\ tl \in Nodes \cup {Nil} /\ mptail' = [mptail EXCEPT ![l] = tl]
    /\ hdr' \in [Nodes -> HdrType] /\ Chained(t, hdr', hd, tl, sd, l)
    /\ \A n \in Nodes : hdr[n].list \notin {l, Nil} => hdr'[n] = hdr[n]
    /\ \A n \in Nodes : hdr[n].list \in {l, Nil} =>
           \/ Member(n, t)
           \/ hdr'[n].list = Nil /\ hdr'[n].seed = Nil

(* An operation that rechains one list and leaves the nodes of the others keeps the invariant. *)
LEMMA ListOperation ==
    ASSUME ListInv, NEW l \in Lists, NEW t, NEW sd, NEW hd, NEW tl,
           Rechains(l, t, sd, hd, tl)
    PROVE  ListInv'
<1> USE DEF Rechains
<1>1. ListTypeOK'
  <2>1. Len(t) \in Nat /\ sd \in Lists \cup {Nil}
    OBVIOUS
  <2> QED
    BY <2>1 DEF ListInv, ListTypeOK
<1>2. ListsChained'
  <2> SUFFICES ASSUME NEW k \in Lists
               PROVE  /\ mSize'[k] = Len(listRef'[k]) /\ mSeed'[k] \in {k, Nil}
                      /\ Chained(listRef'[k], hdr', mphead'[k], mptail'[k], mSeed'[k], k)
    BY DEF ListsChained
  <2>1. CASE k = l
    <3>1. /\ listRef'[l] = t /\ mphead'[l] = hd /\ mptail'[l] = tl /\ mSeed'[l] = sd
          /\ mSize'[l] = Len(t)
      BY DEF ListInv, ListTypeOK
    <3> QED
      BY <2>1, <3>1
  <2>2. CASE k # l
    <3>1. /\ listRef'[k] = listRef[k] /\ mphead'[k] = mphead[k] /\ mptail'[k] = mptail[k]
          /\ mSeed'[k] = mSeed[k] /\ mSize'[k] = mSize[k]
      BY <2>2 DEF ListInv, ListTypeOK
    <3>2. /\ mSize[k] = Len(listRef[k]) /\ mSeed[k] \in {k, Nil}
          /\ Chained(listRef[k], hdr, mphead[k], mptail[k], mSeed[k], k)
      BY DEF ListInv, ListsChained
    <3>3. \A n \in Nodes : Member(n, listRef[k]) => hdr'[n] = hdr[n]
      BY <2>2, MemberHdr, ListsAssumption
    <3>4. Chained(listRef[k], hdr', mphead[k], mptail[k], mSeed[k], k)
      BY <3>2, <3>3, ChainedFrame
    <3> QED
      BY <3>1, <3>2, <3>4
  <2> QED
    BY <2>1, <2>2
<1>3. HeadersTruthful'
  <2> SUFFICES ASSUME NEW n \in Nodes
               PROVE  /\ hdr'[n].list = Nil => hdr'[n].seed = Nil
                      /\ hdr'[n].list # Nil => Member(n, listRef'[hdr'[n].list])
    BY DEF HeadersTruthful, Member
  <2>0. listRef'[l] = t
    BY DEF ListInv, ListTypeOK
  <2>1. CASE Member(n, t)
    <3>1. PICK i \in 1..Len(t) : t[i] = n
      BY <2>1 DEF Member
    <3>2. hdr'[n].list = l /\ hdr'[n].seed = sd
      BY <3>1, ChainedHdr
    <3> QED
      BY <3>2, <2>0, <2>1, ListsAssumption
  <2>2. CASE hdr'[n].list = Nil /\ hdr'[n].seed = Nil
    BY <2>2
  <2>3. CASE hdr[n].list \notin {l, Nil}
    <3>1. hdr'[n] = hdr[n] /\ hdr[n].list \in Lists
      BY <2>3 DEF ListInv, ListTypeOK, HdrType
    <3>2. listRef'[hdr[n].list] = listRef[hdr[n].list]
      BY <2>3, <3>1 DEF ListInv, ListTypeOK
    <3>3. Member(n, listRef[hdr[n].list])
      BY <2>3 DEF ListInv, HeadersTruthful
    <3> QED
      BY <2>3, <3>1, <3>2, <3>3
  <2> QED
    BY <2>1, <2>2, <2>3
<1> QED
  BY <1>1, <1>2, <1>3 DEF ListInv

\* push_back makes n the last node.
LEMMA PushChained ==
    ASSUME NEW s, NEW h, NEW g, NEW hd, NEW tl, NEW sd, NEW l, NEW n \in Nodes,
           Chained(s, h, hd, tl, sd, l), ~ Member(n, s),
           g[n] = [prev |-> tl, next |-> Nil, seed |-> sd, list |-> l],
           tl # Nil => g[tl] = [h[tl] EXCEPT !.next = n],
           \A m \in Nodes : m # n /\ m # tl => g[m] = h[m]
    PROVE  Chained(Append(s, n), g, IF tl = Nil THEN n ELSE hd, n, sd, l)
<1> DEFINE t == Append(s, n)
           L == Len(s)
<1>1. /\ s \in Seq(Nodes) /\ NoRepeat(s) /\ hd = Nth(s, 1) /\ tl = Nth(s, L)
      /\ \A i \in 1..L : h[s[i]] = Links(s, i, sd, l)
  BY DEF Chained
<1>2. L \in Nat /\ \A i \in 1..L : s[i] \in Nodes /\ s[i] # n /\ s[i] # Nil
  BY <1>1, NodesAssumption DEF Member
<1>3. /\ t \in Seq(Nodes) /\ Len(t) = L + 1
      /\ \A i \in 1..L : t[i] = s[i]
      /\ t[L + 1] = n
  BY <1>1, AppendFacts
<1> HIDE DEF t, L
<1>4. tl = Nil <=> L = 0
  BY <1>1, <1>2 DEF Nth, L
<1>5. /\ \A i \in 0..L : Nth(t, i) = Nth(s, i)
      /\ Nth(t, L + 1) = n /\ Nth(t, L + 2) = Nil
  BY <1>2, <1>3 DEF Nth, L
<1>6. NoRepeat(t)
  BY <1>1, <1>2, <1>3 DEF NoRepeat, L
<1>7. (IF tl = Nil THEN n ELSE hd) = Nth(t, 1)
  <2>1. CASE L = 0
    BY <2>1, <1>4, <1>5
  <2>2. CASE L # 0
    BY <2>2, <1>1, <1>2, <1>4, <1>5
  <2> QED
    BY <2>1, <2>2
<1>8. ASSUME NEW i \in 1..L + 1 PROVE g[t[i]] = Links(t, i, sd, l)
  <2>1. CASE i = L + 1
    <3>1. i - 1 = L /\ i + 1 = L + 2 /\ L \in 0..L
      BY <2>1, <1>2
    <3>2. Nth(t, i - 1) = tl /\ Nth(t, i + 1) = Nil
      BY <3>1, <1>1, <1>5 DEF L
    <3>3. Links(t, i, sd, l) = [prev |-> tl, next |-> Nil, seed |-> sd, list |-> l]
      BY <3>2 DEF Links
    <3> QED
      BY <2>1, <3>3, <1>3
  <2>2. CASE i < L
    <3>1. /\ i \in 1..L /\ L \in 1..L /\ i - 1 \in 0..L /\ i + 1 \in 0..L /\ s[i] # s[L]
      BY <2>2, <1>1, <1>2 DEF NoRepeat, L
    <3>2. tl = s[L]
      BY <3>1, <1>1 DEF Nth, L
    <3>3. g[s[i]] = h[s[i]]
      BY <3>1, <3>2, <1>2
    <3>4. Nth(t, i - 1) = Nth(s, i - 1) /\ Nth(t, i + 1) = Nth(s, i + 1)
      BY <3>1, <1>5
    <3> QED
      BY <3>1, <3>3, <3>4, <1>1, <1>3 DEF Links
  <2>3. CASE i = L
    <3>1. L \in 1..L /\ L # 0 /\ L - 1 \in 0..L
      BY <2>3, <1>2
    <3>2. tl = s[L]
      BY <3>1, <1>1 DEF Nth, L
    <3>3. h[tl] = [prev |-> Nth(s, L - 1), next |-> Nth(s, L + 1), seed |-> sd, list |-> l]
      BY <3>1, <3>2, <1>1 DEF Links
    <3>4. g[tl] = [h[tl] EXCEPT !.next = n]
      BY <3>1, <1>4
    <3>5. g[tl] = [prev |-> Nth(s, L - 1), next |-> n, seed |-> sd, list |-> l]
      BY <3>3, <3>4
    <3>6. Nth(t, L - 1) = Nth(s, L - 1) /\ Nth(t, L + 1) = n
      BY <3>1, <1>5
    <3> QED
      BY <2>3, <3>1, <3>2, <3>5, <3>6, <1>3 DEF Links
  <2> QED
    BY <1>2, <2>1, <2>2, <2>3
<1> QED
  BY <1>3, <1>5, <1>6, <1>7, <1>8 DEF Chained, t

(* push_back keeps the invariant. *)
LEMMA PushBackInv ==
    ASSUME ListInv, NEW l \in Lists, NEW n \in Nodes, PushBack(l, n)
    PROVE  ListInv'
<1> DEFINE s == listRef[l]
           tl == mptail[l]
           h == [prev |-> tl, next |-> Nil, seed |-> mSeed[l], list |-> l]
           hd == IF tl = Nil THEN n ELSE mphead[l]
           t == Append(s, n)
<1>1. /\ tl \in Nodes \cup {Nil} /\ mphead[l] \in Nodes \cup {Nil}
      /\ mSeed[l] \in {l, Nil} /\ hdr \in [Nodes -> HdrType]
      /\ s \in Seq(Nodes) /\ mSize[l] = Len(s)
      /\ mSeed \in [Lists -> Lists \cup {Nil}]
      /\ mphead \in [Lists -> Nodes \cup {Nil}]
      /\ Chained(s, hdr, mphead[l], tl, mSeed[l], l)
  BY DEF ListInv, ListTypeOK, ListsChained
<1>2. ~ Member(n, s) /\ hdr[n].list = Nil
  BY MemberHdr, ListsAssumption DEF PushBack, Unlisted
<1>3. tl # Nil => Member(tl, s) /\ hdr[tl].list = l
  <2>1. tl # Nil => Member(tl, s)
    BY <1>1 DEF Chained, Nth, Member
  <2> QED
    BY <1>1, <2>1, MemberHdr
<1>4. /\ mptail' = [mptail EXCEPT ![l] = n]
      /\ mSize' = [mSize EXCEPT ![l] = mSize[l] + 1]
      /\ listRef' = [listRef EXCEPT ![l] = Append(s, n)]
      /\ mSeed' = mSeed
      /\ tl = Nil => mphead' = [mphead EXCEPT ![l] = n] /\ hdr' = [hdr EXCEPT ![n] = h]
      /\ tl # Nil => mphead' = mphead /\ hdr' = [hdr EXCEPT ![n] = h, ![tl].next = n]
  BY DEF PushBack
<1>5. h \in HdrType
  BY <1>1 DEF HdrType
<1>6. hdr' \in [Nodes -> HdrType] /\ hdr'[n] = h
      /\ (tl # Nil => hdr'[tl] = [hdr[tl] EXCEPT !.next = n])
      /\ \A m \in Nodes : m # n /\ m # tl => hdr'[m] = hdr[m]
  <2> HIDE DEF h
  <2>1. CASE tl = Nil
    BY <2>1, <1>1, <1>4, <1>5
  <2>2. CASE tl # Nil
    <3>1. tl \in Nodes /\ tl # n
      BY <2>2, <1>1, <1>2, <1>3
    <3>2. [hdr[tl] EXCEPT !.next = n] \in HdrType
      BY <3>1, <1>1 DEF HdrType
    <3> QED
      BY <2>2, <3>1, <3>2, <1>1, <1>4, <1>5
  <2> QED
    BY <2>1, <2>2
<1>7. Chained(t, hdr', hd, n, mSeed[l], l)
  BY <1>1, <1>2, <1>6, PushChained, SMTT(30)
<1> HIDE DEF h, hd
<1>8. /\ t \in Seq(Nodes) /\ Len(t) = mSize[l] + 1
      /\ Member(n, t) /\ \A m \in Nodes : Member(m, s) => Member(m, t)
  <2>1. /\ t \in Seq(Nodes) /\ Len(t) = Len(s) + 1 /\ Len(s) \in Nat
        /\ \A i \in 1..Len(s) : t[i] = s[i]
        /\ t[Len(s) + 1] = n
    BY <1>1, AppendFacts
  <2> QED
    BY <1>1, <2>1 DEF Member
<1> HIDE DEF t
<1>9. mphead' = [mphead EXCEPT ![l] = hd] /\ mSeed' = [mSeed EXCEPT ![l] = mSeed[l]]
  BY <1>1, <1>4 DEF hd
<1> HIDE DEF s, tl
<1>10. \A m \in Nodes : hdr[m].list \notin {l, Nil} => hdr'[m] = hdr[m]
  BY <1>2, <1>3, <1>6, NodesAssumption
<1>11. ASSUME NEW m \in Nodes, hdr[m].list \in {l, Nil}
       PROVE  Member(m, t) \/ (hdr'[m].list = Nil /\ hdr'[m].seed = Nil)
  <2>1. CASE m = n
    BY <2>1, <1>8
  <2>2. CASE hdr[m].list = l
    BY <2>2, <1>8, ListsAssumption DEF ListInv, HeadersTruthful, s
  <2>3. CASE m # n /\ hdr[m].list = Nil
    <3>1. hdr'[m] = hdr[m]
      BY <2>3, <1>3, <1>6, ListsAssumption, NodesAssumption
    <3> QED
      BY <2>3, <3>1 DEF ListInv, HeadersTruthful
  <2> QED
    BY <1>11, <2>1, <2>2, <2>3
<1>12. hd \in Nodes \cup {Nil}
  BY <1>1 DEF hd
<1>13. /\ mptail' = [mptail EXCEPT ![l] = n] /\ mSize' = [mSize EXCEPT ![l] = Len(t)]
       /\ listRef' = [listRef EXCEPT ![l] = t] /\ n \in Nodes \cup {Nil}
  BY <1>4, <1>8 DEF t
<1>14. Rechains(l, t, mSeed[l], hd, n)
  BY <1>1, <1>6, <1>7, <1>8, <1>9, <1>10, <1>11, <1>12, <1>13 DEF Rechains
<1> QED
  BY <1>14, ListOperation

(* What removing the k-th element gives, by index. *)
LEMMA RemoveFacts ==
    ASSUME NEW S, NEW s \in Seq(S), NoRepeat(s), NEW k \in 1..Len(s)
    PROVE  /\ RemoveFirst(s, s[k]) \in Seq(S) /\ Len(RemoveFirst(s, s[k])) = Len(s) - 1
           /\ \A i \in 1..Len(s) - 1 :
                  RemoveFirst(s, s[k])[i] = IF i < k THEN s[i] ELSE s[i + 1]
<1> DEFINE I == {i \in 1..Len(s) : s[i] = s[k]}
           a == SubSeq(s, 1, k - 1)
           b == SubSeq(s, k + 1, Len(s))
<1>1. Len(s) \in Nat /\ I = {k}
  BY DEF NoRepeat
<1>2. Min(I) = k
  <2>1. \E x \in I : \A y \in I : x <= y
    BY <1>1
  <2>2. Min(I) \in I
    BY <2>1 DEF Min
  <2> QED
    BY <1>1, <2>2
<1>3. SelectInSeq(s, LAMBDA v : v = s[k]) = k
  BY <1>1, <1>2 DEF SelectInSeq
<1>4. RemoveFirst(s, s[k]) = RemoveAt(s, k)
  BY <1>1, <1>3 DEF RemoveFirst
<1>5. RemoveAt(s, k) = a \o b
  BY DEF RemoveAt
<1>6. a \in Seq(S) /\ Len(a) = k - 1 /\ \A i \in 1..k - 1 : a[i] = s[i]
  BY <1>1
<1>7. b \in Seq(S) /\ Len(b) = Len(s) - k /\ \A i \in 1..Len(s) - k : b[i] = s[k + i]
  BY <1>1, DropFacts
<1> HIDE DEF a, b
<1>8. /\ a \o b \in Seq(S) /\ Len(a \o b) = Len(a) + Len(b)
      /\ \A i \in 1..Len(a) : (a \o b)[i] = a[i]
      /\ \A i \in Len(a) + 1..Len(a) + Len(b) : (a \o b)[i] = b[i - Len(a)]
  BY <1>6, <1>7, ConcatFacts, ZenonT(30)
<1> DEFINE t == a \o b
<1> HIDE DEF t
<1>9. t \in Seq(S) /\ Len(t) = Len(s) - 1
  BY <1>1, <1>6, <1>7, <1>8 DEF t
<1>10. ASSUME NEW i \in 1..Len(s) - 1 PROVE t[i] = IF i < k THEN s[i] ELSE s[i + 1]
  <2>1. CASE i < k
    <3>1. i \in 1..k - 1
      BY <1>1, <2>1
    <3> QED
      BY <2>1, <3>1, <1>6, <1>8 DEF t
  <2>2. CASE ~ (i < k)
    <3>1. /\ i - (k - 1) \in 1..Len(s) - k /\ k + (i - (k - 1)) = i + 1
          /\ i \in (k - 1) + 1..(k - 1) + (Len(s) - k)
      BY <1>1, <2>2
    <3>2. t[i] = b[i - (k - 1)]
      BY <3>1, <1>6, <1>7, <1>8 DEF t
    <3>3. b[i - (k - 1)] = s[i + 1]
      BY <3>1, <1>7
    <3> QED
      BY <2>2, <3>2, <3>3
  <2> QED
    BY <2>1, <2>2
<1>11. RemoveFirst(s, s[k]) = t
  BY <1>4, <1>5 DEF t
<1> QED
  BY <1>9, <1>10, <1>11

\* remove links the neighbours of the node with each other.
Spliced(h, g, n) ==
    \A m \in Nodes \ {n} :
        g[m] = IF m = h[n].prev THEN [h[m] EXCEPT !.next = h[n].next]
               ELSE IF m = h[n].next THEN [h[m] EXCEPT !.prev = h[n].prev]
               ELSE h[m]

(* Splicing a node out leaves the rest chained. *)
LEMMA RemoveChained ==
    ASSUME NEW s, NEW h, NEW g, NEW hd, NEW tl, NEW sd, NEW l,
           Chained(s, h, hd, tl, sd, l), NEW k \in 1..Len(s), NEW n, n = s[k],
           Spliced(h, g, n)
    PROVE  Chained(RemoveFirst(s, n), g,
                   IF h[n].prev = Nil THEN h[n].next ELSE hd,
                   IF h[n].next = Nil THEN h[n].prev ELSE tl, sd, l)
<1> DEFINE t == RemoveFirst(s, n)
           L == Len(s)
<1>1. /\ s \in Seq(Nodes) /\ NoRepeat(s) /\ hd = Nth(s, 1) /\ tl = Nth(s, L)
      /\ \A i \in 1..L : h[s[i]] = Links(s, i, sd, l)
  BY DEF Chained
<1>2. /\ L \in Nat /\ k \in 1..L /\ \A i \in 1..L : s[i] \in Nodes /\ s[i] # Nil
      /\ \A i, j \in 1..L : s[i] = s[j] => i = j
  BY <1>1, NodesAssumption DEF NoRepeat
<1>3. /\ t \in Seq(Nodes) /\ Len(t) = L - 1
      /\ \A i \in 1..L - 1 : t[i] = IF i < k THEN s[i] ELSE s[i + 1]
  BY <1>1, RemoveFacts
<1>4. h[n].prev = Nth(s, k - 1) /\ h[n].next = Nth(s, k + 1)
  BY ChainedHdr
<1>5. \A i \in Nat : Nth(s, i) = IF i \in 1..L THEN s[i] ELSE Nil
  BY DEF Nth
<1> HIDE DEF t, L
<1>6. \A i \in 0..L : Nth(t, i) = IF i < k THEN Nth(s, i) ELSE Nth(s, i + 1)
  <2> SUFFICES ASSUME NEW i \in 0..L
               PROVE  Nth(t, i) = IF i < k THEN Nth(s, i) ELSE Nth(s, i + 1)
    OBVIOUS
  <2>1. Nth(t, i) = IF i \in 1..L - 1 THEN t[i] ELSE Nil
    BY <1>3 DEF Nth
  <2>2. CASE i < k
    <3>1. i \in Nat /\ (i \in 1..L - 1 <=> i \in 1..L)
      BY <2>2, <1>2
    <3> QED
      BY <2>1, <2>2, <3>1, <1>3, <1>5
  <2>3. CASE ~ (i < k)
    <3>1. i + 1 \in Nat /\ (i \in 1..L - 1 <=> i + 1 \in 1..L)
      BY <2>3, <1>2
    <3> QED
      BY <2>1, <2>3, <3>1, <1>3, <1>5
  <2> QED
    BY <2>2, <2>3
<1>7. NoRepeat(t)
  <2> SUFFICES ASSUME NEW i \in 1..L - 1, NEW j \in 1..L - 1, t[i] = t[j] PROVE i = j
    BY <1>3 DEF NoRepeat
  <2> DEFINE a == IF i < k THEN i ELSE i + 1
             b == IF j < k THEN j ELSE j + 1
  <2>1. a \in 1..L /\ b \in 1..L /\ (a = b => i = j)
    BY <1>2
  <2>2. t[i] = s[a] /\ t[j] = s[b]
    BY <1>3
  <2> HIDE DEF a, b
  <2> QED
    BY <2>1, <2>2, <1>2
<1>8. ASSUME NEW i \in 1..L - 1 PROVE g[t[i]] = Links(t, i, sd, l)
  <2> DEFINE j == IF i < k THEN i ELSE i + 1
             m == s[j]
             pv == h[n].prev
             nx == h[n].next
             linked == [prev |-> Nth(t, i - 1), next |-> Nth(t, i + 1), seed |-> sd, list |-> l]
  <2>1. /\ j \in 1..L /\ j - 1 \in Nat /\ j + 1 \in Nat /\ k - 1 \in Nat /\ k + 1 \in Nat
        /\ i \in Nat /\ k \in Nat /\ j # k
    BY <1>2
  <2>2. t[i] = m /\ m \in Nodes \ {n}
    <3>1. m \in Nodes /\ m # n
      BY <2>1, <1>2
    <3> QED
      BY <3>1, <1>3
  <2>3. m = pv <=> j = k - 1
    <3>1. CASE k - 1 \in 1..L
      <4>1. pv = s[k - 1]
        BY <3>1, <2>1, <1>4, <1>5
      <4> HIDE DEF j, pv
      <4> QED
        BY <3>1, <4>1, <2>1, <1>2
    <3>2. CASE k - 1 \notin 1..L
      <4>1. pv = Nil
        BY <3>2, <2>1, <1>4, <1>5
      <4> HIDE DEF j, pv
      <4> QED
        BY <3>2, <4>1, <2>1, <1>2
    <3> QED
      BY <3>1, <3>2
  <2>4. m = nx <=> j = k + 1
    <3>1. CASE k + 1 \in 1..L
      <4>1. nx = s[k + 1]
        BY <3>1, <2>1, <1>4, <1>5
      <4> HIDE DEF j, nx
      <4> QED
        BY <3>1, <4>1, <2>1, <1>2
    <3>2. CASE k + 1 \notin 1..L
      <4>1. nx = Nil
        BY <3>2, <2>1, <1>4, <1>5
      <4> HIDE DEF j, nx
      <4> QED
        BY <3>2, <4>1, <2>1, <1>2
    <3> QED
      BY <3>1, <3>2
  <2>5. h[m] = [prev |-> Nth(s, j - 1), next |-> Nth(s, j + 1), seed |-> sd, list |-> l]
    <3> HIDE DEF j
    <3> QED
      BY <2>1, <1>1 DEF Links
  <2>6. g[m] = IF m = pv THEN [h[m] EXCEPT !.next = nx]
               ELSE IF m = nx THEN [h[m] EXCEPT !.prev = pv]
               ELSE h[m]
    BY <2>2 DEF Spliced
  <2>7. pv = Nth(s, k - 1) /\ nx = Nth(s, k + 1)
    BY <1>4
  <2>8. Nth(t, i - 1) = IF j = k + 1 THEN Nth(s, k - 1) ELSE Nth(s, j - 1)
    <3>1. i - 1 \in 0..L
      BY <1>2
    <3>2. Nth(t, i - 1) = IF i - 1 < k THEN Nth(s, i - 1) ELSE Nth(s, i - 1 + 1)
      BY <3>1, <1>6
    <3>3. CASE i < k
      BY <3>2, <3>3, <2>1
    <3>4. CASE i = k
      BY <3>2, <3>4, <2>1
    <3>5. CASE i > k
      <4>1. j - 1 = i /\ j # k + 1 /\ ~ (i - 1 < k) /\ i - 1 + 1 = i
        BY <3>5, <2>1
      <4> QED
        BY <3>2, <4>1
    <3> QED
      BY <3>3, <3>4, <3>5, <2>1
  <2>9. Nth(t, i + 1) = IF j = k - 1 THEN Nth(s, k + 1) ELSE Nth(s, j + 1)
    <3>1. i + 1 \in 0..L
      BY <1>2
    <3>2. Nth(t, i + 1) = IF i + 1 < k THEN Nth(s, i + 1) ELSE Nth(s, i + 1 + 1)
      BY <3>1, <1>6
    <3>3. CASE i < k - 1
      <4>1. j = i /\ j # k - 1 /\ i + 1 < k
        BY <3>3, <2>1
      <4> QED
        BY <3>2, <4>1
    <3>4. CASE i = k - 1
      <4>1. j = k - 1 /\ ~ (i + 1 < k) /\ i + 1 + 1 = k + 1
        BY <3>4, <2>1
      <4> QED
        BY <3>2, <4>1
    <3>5. CASE ~ (i < k)
      <4>1. j = i + 1 /\ j # k - 1 /\ ~ (i + 1 < k)
        BY <3>5, <2>1
      <4> QED
        BY <3>2, <4>1
    <3> QED
      BY <3>3, <3>4, <3>5, <2>1
  <2>10. ~ (j = k - 1 /\ j = k + 1)
    BY <2>1
  <2> HIDE DEF j, m, pv, nx
  <2>11. g[m] = linked
    <3>1. CASE j = k - 1
      BY <3>1, <2>3, <2>5, <2>6, <2>7, <2>8, <2>9, <2>10
    <3>2. CASE j = k + 1
      BY <3>2, <2>3, <2>4, <2>5, <2>6, <2>7, <2>8, <2>9, <2>10
    <3>3. CASE j # k - 1 /\ j # k + 1
      BY <3>3, <2>3, <2>4, <2>5, <2>6, <2>8, <2>9
    <3> QED
      BY <3>1, <3>2, <3>3
  <2> QED
    BY <2>2, <2>11 DEF Links
<1>9. (IF h[n].prev = Nil THEN h[n].next ELSE hd) = Nth(t, 1)
  <2>1. CASE k = 1
    <3>1. h[n].prev = Nil /\ 1 \in 0..L
      BY <2>1, <1>2, <1>4, <1>5
    <3> QED
      BY <2>1, <3>1, <1>4, <1>6
  <2>2. CASE k # 1
    <3>1. k - 1 \in 1..L /\ 1 \in 0..L /\ 1 < k
      BY <2>2, <1>2
    <3>2. h[n].prev # Nil
      BY <3>1, <1>2, <1>4, <1>5
    <3> QED
      BY <3>1, <3>2, <1>1, <1>6
  <2> QED
    BY <2>1, <2>2
<1>10. (IF h[n].next = Nil THEN h[n].prev ELSE tl) = Nth(t, L - 1)
  <2>1. CASE k = L
    <3>1. h[n].next = Nil /\ L - 1 \in 0..L /\ L - 1 < k
      BY <2>1, <1>2, <1>4, <1>5
    <3> QED
      BY <2>1, <3>1, <1>4, <1>6
  <2>2. CASE k # L
    <3>1. k + 1 \in 1..L /\ L - 1 \in 0..L /\ ~ (L - 1 < k) /\ L - 1 + 1 = L
      BY <2>2, <1>2
    <3>2. h[n].next # Nil
      BY <3>1, <1>2, <1>4, <1>5
    <3> QED
      BY <3>1, <3>2, <1>1, <1>6
  <2> QED
    BY <2>1, <2>2
<1> QED
  BY <1>3, <1>7, <1>8, <1>9, <1>10 DEF Chained, t

(* remove keeps the invariant; with a node of another list it does nothing. *)
LEMMA ListRemoveInv ==
    ASSUME ListInv, NEW l \in Lists, NEW n \in Nodes, ListRemove(l, n)
    PROVE  ListInv'
<1> DEFINE s == listRef[l]
           t == RemoveFirst(s, n)
           hd == IF hdr[n].prev = Nil THEN hdr[n].next ELSE mphead[l]
           tl == IF hdr[n].next = Nil THEN hdr[n].prev ELSE mptail[l]
<1>1. /\ mptail[l] \in Nodes \cup {Nil} /\ mphead[l] \in Nodes \cup {Nil}
      /\ mSeed[l] \in {l, Nil} /\ hdr \in [Nodes -> HdrType]
      /\ s \in Seq(Nodes) /\ mSize[l] = Len(s)
      /\ mSeed \in [Lists -> Lists \cup {Nil}]
      /\ mphead \in [Lists -> Nodes \cup {Nil}] /\ mptail \in [Lists -> Nodes \cup {Nil}]
      /\ Chained(s, hdr, mphead[l], mptail[l], mSeed[l], l)
  BY DEF ListInv, ListTypeOK, ListsChained
<1>2. Member(n, s)
  BY SeedFinds DEF ListRemove, HasSeed
<1>3. PICK k \in 1..Len(s) : s[k] = n
  BY <1>2 DEF Member
<1>4. /\ mSize' = [mSize EXCEPT ![l] = mSize[l] - 1]
      /\ listRef' = [listRef EXCEPT ![l] = t] /\ mSeed' = mSeed
      /\ mphead' = IF hdr[n].prev = Nil THEN [mphead EXCEPT ![l] = hdr[n].next] ELSE mphead
      /\ mptail' = IF hdr[n].next = Nil THEN [mptail EXCEPT ![l] = hdr[n].prev] ELSE mptail
      /\ hdr' = Unlinked(n)
  BY DEF ListRemove
<1>5. hdr[n].prev \in Nodes \cup {Nil} /\ hdr[n].next \in Nodes \cup {Nil}
  BY <1>1 DEF HdrType
<1>6. /\ Spliced(hdr, hdr', n)
      /\ hdr'[n] = [hdr[n] EXCEPT !.seed = Nil, !.list = Nil]
      /\ hdr' = [m \in Nodes |-> hdr'[m]]
  BY <1>4 DEF Spliced, Unlinked
<1>7. hdr' \in [Nodes -> HdrType] /\ hdr'[n].list = Nil /\ hdr'[n].seed = Nil
  <2>1. ASSUME NEW m \in Nodes \ {n} PROVE hdr'[m] \in HdrType
    <3>1. hdr'[m] \in {hdr[m], [hdr[m] EXCEPT !.next = hdr[n].next],
                       [hdr[m] EXCEPT !.prev = hdr[n].prev]}
      BY <1>6 DEF Spliced
    <3> QED
      BY <3>1, <1>1, <1>5 DEF HdrType
  <2>2. hdr'[n] \in HdrType /\ hdr'[n].list = Nil /\ hdr'[n].seed = Nil
    BY <1>1, <1>6, ZenonT(30) DEF HdrType
  <2> QED
    BY <2>1, <2>2, <1>6
<1>8. Chained(t, hdr', hd, tl, mSeed[l], l)
  <2>1. Chained(s, hdr, mphead[l], mptail[l], mSeed[l], l) /\ Spliced(hdr, hdr', n)
    BY <1>1, <1>6
  <2>2. k \in 1..Len(s) /\ n = s[k]
    BY <1>3
  <2> HIDE DEF s
  <2> QED
    BY <2>1, <2>2, RemoveChained
<1>9. /\ t \in Seq(Nodes) /\ Len(t) = mSize[l] - 1
      /\ \A m \in Nodes \ {n} : Member(m, s) => Member(m, t)
  <2>1. NoRepeat(s)
    BY <1>1 DEF Chained
  <2>2. /\ t \in Seq(Nodes) /\ Len(t) = Len(s) - 1
        /\ \A i \in 1..Len(s) - 1 : t[i] = IF i < k THEN s[i] ELSE s[i + 1]
    BY <1>1, <1>3, <2>1, RemoveFacts
  <2>3. ASSUME NEW m \in Nodes \ {n}, NEW i \in 1..Len(s), s[i] = m PROVE Member(m, t)
    <3> HIDE DEF t, s
    <3>1. i # k /\ Len(s) \in Nat
      BY <2>3, <1>1, <1>3
    <3>2. CASE i < k
      <4>1. i \in 1..Len(s) - 1
        BY <3>1, <3>2, <1>3
      <4> QED
        BY <2>2, <2>3, <3>2, <4>1 DEF Member
    <3>3. CASE ~ (i < k)
      <4>1. i - 1 \in 1..Len(s) - 1 /\ ~ (i - 1 < k) /\ i - 1 + 1 = i
        BY <3>1, <3>3, <1>3
      <4> QED
        BY <2>2, <2>3, <4>1 DEF Member
    <3> QED
      BY <3>2, <3>3
  <2> QED
    BY <1>1, <2>2, <2>3 DEF Member
<1> HIDE DEF t
<1>10. /\ mphead' = [mphead EXCEPT ![l] = hd] /\ mptail' = [mptail EXCEPT ![l] = tl]
       /\ mSeed' = [mSeed EXCEPT ![l] = mSeed[l]] /\ mSize' = [mSize EXCEPT ![l] = Len(t)]
       /\ listRef' = [listRef EXCEPT ![l] = t]
  BY <1>1, <1>4, <1>9 DEF t
<1>11. hd \in Nodes \cup {Nil} /\ tl \in Nodes \cup {Nil}
  BY <1>1, <1>5
<1> HIDE DEF hd, tl
<1>12. ASSUME NEW m \in Nodes, ~ Member(m, s) PROVE hdr'[m] = hdr[m]
  <2>1. \A i \in 1..Len(s) : s[i] # m
    BY <1>12 DEF Member
  <2>2. m # n
    BY <1>2, <1>12
  <2>3. hdr[n].prev = Nth(s, k - 1) /\ hdr[n].next = Nth(s, k + 1)
    BY <1>1, <1>3, ChainedHdr
  <2>4. m # hdr[n].prev /\ m # hdr[n].next
    BY <2>1, <2>3, NodesAssumption DEF Nth
  <2> QED
    BY <2>2, <2>4, <1>6 DEF Spliced
<1>13. \A m \in Nodes : hdr[m].list \notin {l, Nil} => hdr'[m] = hdr[m]
  BY <1>12, MemberHdr
<1>14. ASSUME NEW m \in Nodes, hdr[m].list \in {l, Nil}
       PROVE  Member(m, t) \/ (hdr'[m].list = Nil /\ hdr'[m].seed = Nil)
  <2>1. CASE m = n
    BY <2>1, <1>7
  <2>2. CASE m # n /\ hdr[m].list = l
    BY <2>2, <1>9, ListsAssumption DEF ListInv, HeadersTruthful
  <2>3. CASE hdr[m].list = Nil
    <3>1. hdr'[m] = hdr[m]
      BY <2>3, <1>12, MemberHdr, ListsAssumption
    <3> QED
      BY <2>3, <3>1 DEF ListInv, HeadersTruthful
  <2> QED
    BY <1>14, <2>1, <2>2, <2>3
<1>15. Rechains(l, t, mSeed[l], hd, tl)
  BY <1>1, <1>7, <1>8, <1>9, <1>10, <1>11, <1>13, <1>14 DEF Rechains
<1> QED
  BY <1>15, ListOperation

(* clear keeps the invariant. *)
LEMMA ListClearInv ==
    ASSUME ListInv, NEW l \in Lists, ListClear(l)
    PROVE  ListInv'
<1>1. /\ mphead' = [mphead EXCEPT ![l] = Nil] /\ mptail' = [mptail EXCEPT ![l] = Nil]
      /\ mSize' = [mSize EXCEPT ![l] = 0] /\ mSeed' = [mSeed EXCEPT ![l] = Nil]
      /\ hdr' = [n \in Nodes |-> IF hdr[n].list = l THEN NewHdr ELSE hdr[n]]
      /\ listRef' = [listRef EXCEPT ![l] = <<>>]
  BY DEF ListClear
<1>2. NewHdr \in HdrType /\ NewHdr.list = Nil /\ NewHdr.seed = Nil
  BY DEF NewHdr, HdrType
<1>3. hdr' \in [Nodes -> HdrType]
  BY <1>1, <1>2 DEF ListInv, ListTypeOK
<1>4. Chained(<<>>, hdr', Nil, Nil, Nil, l)
  BY ChainedEmpty
<1>5. \A n \in Nodes : hdr[n].list \notin {l, Nil} => hdr'[n] = hdr[n]
  BY <1>1
<1>6. \A n \in Nodes : hdr[n].list \in {l, Nil} => hdr'[n].list = Nil /\ hdr'[n].seed = Nil
  BY <1>1, <1>2 DEF ListInv, HeadersTruthful
<1>7. <<>> \in Seq(Nodes) /\ Len(<<>>) = 0
  OBVIOUS
<1>8. Rechains(l, <<>>, Nil, Nil, Nil)
  BY <1>1, <1>3, <1>4, <1>5, <1>6, <1>7 DEF Rechains
<1> QED
  BY <1>8, ListOperation

(* What inserting behind the k-th element gives, by index. *)
LEMMA InsertFacts ==
    ASSUME NEW S, NEW s \in Seq(S), NEW e \in S, NEW k \in 1..Len(s)
    PROVE  /\ InsertAt(s, 1 + k, e) \in Seq(S) /\ Len(InsertAt(s, 1 + k, e)) = Len(s) + 1
           /\ \A i \in 1..Len(s) + 1 :
                  InsertAt(s, 1 + k, e)[i] =
                      IF i <= k THEN s[i] ELSE IF i = k + 1 THEN e ELSE s[i - 1]
<1> DEFINE a == SubSeq(s, 1, k)
           b == SubSeq(s, k + 1, Len(s))
           c == Append(a, e)
           t == c \o b
<1>1. Len(s) \in Nat /\ k \in Nat /\ k \in 0..Len(s)
  OBVIOUS
<1>2. a \in Seq(S) /\ Len(a) = k /\ \A i \in 1..k : a[i] = s[i]
  BY <1>1
<1>3. b \in Seq(S) /\ Len(b) = Len(s) - k /\ \A i \in 1..Len(s) - k : b[i] = s[k + i]
  BY <1>1, DropFacts
<1>4. InsertAt(s, 1 + k, e) = a \o <<e>> \o b
  <2>1. (1 + k) - 1 = k /\ 1 + k = k + 1
    BY <1>1
  <2>2. InsertAt(s, 1 + k, e) = SubSeq(s, 1, (1 + k) - 1) \o <<e>> \o SubSeq(s, 1 + k, Len(s))
    BY DEF InsertAt
  <2> QED
    BY <2>1, <2>2
<1> HIDE DEF a, b
<1>5. a \o <<e>> = c
  BY <1>2
<1>6. /\ c \in Seq(S) /\ Len(c) = k + 1 /\ c[k + 1] = e
      /\ \A i \in 1..k : c[i] = a[i]
  BY <1>2, AppendFacts
<1> HIDE DEF c
<1>7. /\ t \in Seq(S) /\ Len(t) = Len(c) + Len(b)
      /\ \A i \in 1..Len(c) : t[i] = c[i]
      /\ \A i \in Len(c) + 1..Len(c) + Len(b) : t[i] = b[i - Len(c)]
  BY <1>3, <1>6, ConcatFacts, ZenonT(30)
<1>8. InsertAt(s, 1 + k, e) = t
  BY <1>4, <1>5
<1> HIDE DEF t
<1>9. Len(c) + Len(b) = Len(s) + 1
  BY <1>1, <1>3, <1>6
<1>10. ASSUME NEW i \in 1..Len(s) + 1
       PROVE  t[i] = IF i <= k THEN s[i] ELSE IF i = k + 1 THEN e ELSE s[i - 1]
  <2>1. CASE i <= k
    <3>1. i \in 1..k /\ i \in 1..k + 1
      BY <2>1, <1>1
    <3> QED
      BY <2>1, <3>1, <1>2, <1>6, <1>7
  <2>2. CASE i = k + 1
    <3>1. i \in 1..k + 1 /\ ~ (i <= k)
      BY <2>2, <1>1
    <3> QED
      BY <2>2, <3>1, <1>6, <1>7
  <2>3. CASE i > k + 1
    <3>1. /\ i \in k + 1 + 1..Len(s) + 1 /\ i - (k + 1) \in 1..Len(s) - k
          /\ k + (i - (k + 1)) = i - 1 /\ ~ (i <= k) /\ i # k + 1
      BY <2>3, <1>1
    <3>2. t[i] = b[i - (k + 1)]
      BY <3>1, <1>6, <1>7, <1>9
    <3>3. b[i - (k + 1)] = s[i - 1]
      BY <3>1, <1>3
    <3> QED
      BY <3>1, <3>2, <3>3
  <2> QED
    BY <1>1, <2>1, <2>2, <2>3
<1> QED
  BY <1>7, <1>8, <1>9, <1>10

\* insert puts n between two neighbours, of which p is the first.
Inserted(h, g, n, p, sd, l) ==
    /\ g[n] = [prev |-> p, next |-> h[p].next, seed |-> sd, list |-> l]
    /\ g[p] = [h[p] EXCEPT !.next = n]
    /\ g[h[p].next] = [h[h[p].next] EXCEPT !.prev = n]
    /\ \A m \in Nodes \ {n, p, h[p].next} : g[m] = h[m]

(* Splicing a node in behind another leaves the list chained. *)
LEMMA InsertChained ==
    ASSUME NEW s, NEW h, NEW g, NEW hd, NEW tl, NEW sd, NEW l, NEW n \in Nodes,
           Chained(s, h, hd, tl, sd, l), NEW k \in 1..Len(s), ~ Member(n, s),
           h[s[k]].next # Nil, Inserted(h, g, n, s[k], sd, l)
    PROVE  Chained(InsertAt(s, 1 + k, n), g, hd, tl, sd, l)
<1> DEFINE t == InsertAt(s, 1 + k, n)
           L == Len(s)
<1>1. /\ s \in Seq(Nodes) /\ NoRepeat(s) /\ hd = Nth(s, 1) /\ tl = Nth(s, L)
      /\ \A i \in 1..L : h[s[i]] = Links(s, i, sd, l)
  BY DEF Chained
<1>2. /\ L \in Nat /\ k \in 1..L /\ \A i \in 1..L : s[i] \in Nodes /\ s[i] # n
      /\ \A i, j \in 1..L : s[i] = s[j] => i = j
  BY <1>1 DEF NoRepeat, Member
<1>3. /\ t \in Seq(Nodes) /\ Len(t) = L + 1
      /\ \A i \in 1..L + 1 :
             t[i] = IF i <= k THEN s[i] ELSE IF i = k + 1 THEN n ELSE s[i - 1]
  BY <1>1, InsertFacts
<1>4. \A i \in Nat : Nth(s, i) = IF i \in 1..L THEN s[i] ELSE Nil
  BY DEF Nth
<1> HIDE DEF t, L
<1>5. k + 1 \in 1..L /\ h[s[k]].next = s[k + 1]
  <2>1. h[s[k]].next = Nth(s, k + 1)
    BY ChainedHdr
  <2>2. k + 1 \in Nat
    BY <1>2
  <2> QED
    BY <2>1, <2>2, <1>4
<1>6. \A i \in 0..L + 2 :
          Nth(t, i) = IF i <= k THEN Nth(s, i) ELSE IF i = k + 1 THEN n ELSE Nth(s, i - 1)
  <2> SUFFICES ASSUME NEW i \in 0..L + 2
               PROVE  Nth(t, i) = IF i <= k THEN Nth(s, i)
                                  ELSE IF i = k + 1 THEN n ELSE Nth(s, i - 1)
    OBVIOUS
  <2>1. Nth(t, i) = IF i \in 1..L + 1 THEN t[i] ELSE Nil
    BY <1>3 DEF Nth
  <2>2. CASE i <= k
    <3>1. i \in Nat /\ (i \in 1..L + 1 <=> i \in 1..L)
      BY <2>2, <1>2
    <3> QED
      BY <2>1, <2>2, <3>1, <1>3, <1>4
  <2>3. CASE i = k + 1
    <3>1. i \in 1..L + 1 /\ ~ (i <= k)
      BY <2>3, <1>2
    <3> QED
      BY <2>1, <2>3, <3>1, <1>3
  <2>4. CASE i > k + 1
    <3>1. i - 1 \in Nat /\ (i \in 1..L + 1 <=> i - 1 \in 1..L) /\ ~ (i <= k) /\ i # k + 1
      BY <2>4, <1>2
    <3> QED
      BY <2>1, <3>1, <1>3, <1>4
  <2> QED
    BY <1>2, <2>2, <2>3, <2>4
<1>7. NoRepeat(t)
  <2> SUFFICES ASSUME NEW i \in 1..L + 1, NEW j \in 1..L + 1, t[i] = t[j] PROVE i = j
    BY <1>3 DEF NoRepeat
  <2> DEFINE a == IF i <= k THEN i ELSE i - 1
             b == IF j <= k THEN j ELSE j - 1
  <2>1. /\ i # k + 1 => a \in 1..L
        /\ j # k + 1 => b \in 1..L
        /\ i # k + 1 /\ j # k + 1 /\ a = b => i = j
    BY <1>2
  <2>2. /\ i # k + 1 => t[i] = s[a]
        /\ j # k + 1 => t[j] = s[b]
        /\ i = k + 1 => t[i] = n
        /\ j = k + 1 => t[j] = n
    BY <1>2, <1>3
  <2> HIDE DEF a, b
  <2> QED
    BY <2>1, <2>2, <1>2
<1>8. ASSUME NEW i \in 1..L + 1 PROVE g[t[i]] = Links(t, i, sd, l)
  <2>1. i \in Nat /\ k \in Nat /\ L \in Nat
    BY <1>2
  <2>2. /\ Nth(t, i - 1) = IF i - 1 <= k THEN Nth(s, i - 1)
                           ELSE IF i - 1 = k + 1 THEN n ELSE Nth(s, i - 1 - 1)
        /\ Nth(t, i + 1) = IF i + 1 <= k THEN Nth(s, i + 1)
                           ELSE IF i + 1 = k + 1 THEN n ELSE Nth(s, i + 1 - 1)
    <3>1. i - 1 \in 0..L + 2 /\ i + 1 \in 0..L + 2
      BY <2>1
    <3> QED
      BY <3>1, <1>6
  <2>3. CASE i = k + 1
    <3>1. /\ i - 1 = k /\ i - 1 <= k /\ ~ (i + 1 <= k) /\ i + 1 # k + 1 /\ i + 1 - 1 = k + 1
          /\ ~ (i <= k) /\ k \in Nat /\ k + 1 \in Nat
      BY <2>1, <2>3
    <3>2. t[i] = n
      BY <3>1, <2>3, <1>3
    <3>3. Nth(t, i - 1) = s[k] /\ Nth(t, i + 1) = s[k + 1]
      BY <3>1, <2>2, <1>2, <1>4, <1>5
    <3>4. g[n] = [prev |-> s[k], next |-> s[k + 1], seed |-> sd, list |-> l]
      BY <1>5 DEF Inserted
    <3> QED
      BY <3>2, <3>3, <3>4 DEF Links
  <2>4. CASE i # k + 1
    <3> DEFINE j == IF i <= k THEN i ELSE i - 1
               m == s[j]
               linked == [prev |-> Nth(t, i - 1), next |-> Nth(t, i + 1), seed |-> sd, list |-> l]
    <3>1. j \in 1..L
      BY <2>4, <1>2
    <3>2. t[i] = m /\ m \in Nodes /\ m # n
      <4>1. t[i] = m
        BY <2>4, <1>3
      <4> HIDE DEF j
      <4> QED
        BY <4>1, <3>1, <1>2
    <3>3. h[m] = [prev |-> Nth(s, j - 1), next |-> Nth(s, j + 1), seed |-> sd, list |-> l]
      <4> HIDE DEF j
      <4> QED
        BY <3>1, <1>1 DEF Links
    <3>4. Nth(t, i - 1) = IF j = k + 1 THEN n ELSE Nth(s, j - 1)
      <4>1. CASE i <= k
        <5>1. j = i /\ j # k + 1 /\ i - 1 <= k
          BY <4>1, <2>1
        <5> QED
          BY <5>1, <2>2
      <4>2. CASE i = k + 2
        <5>1. j = k + 1 /\ i - 1 = k + 1 /\ ~ (i - 1 <= k)
          BY <4>2, <2>1
        <5> QED
          BY <5>1, <2>2
      <4>3. CASE i > k + 2
        <5>1. j = i - 1 /\ j # k + 1 /\ i - 1 # k + 1 /\ ~ (i - 1 <= k)
          BY <4>3, <2>1
        <5> QED
          BY <5>1, <2>2
      <4> QED
        BY <2>1, <2>4, <4>1, <4>2, <4>3
    <3>5. Nth(t, i + 1) = IF j = k THEN n ELSE Nth(s, j + 1)
      <4>1. CASE i < k
        <5>1. j = i /\ j # k /\ i + 1 <= k
          BY <4>1, <2>1
        <5> QED
          BY <5>1, <2>2
      <4>2. CASE i = k
        <5>1. j = k /\ i + 1 = k + 1 /\ ~ (i + 1 <= k)
          BY <4>2, <2>1
        <5> QED
          BY <5>1, <2>2
      <4>3. CASE i > k + 1
        <5>1. j = i - 1 /\ j # k /\ i + 1 # k + 1 /\ ~ (i + 1 <= k) /\ i + 1 - 1 = j + 1
          BY <4>3, <2>1
        <5> QED
          BY <5>1, <2>2
      <4> QED
        BY <2>1, <2>4, <4>1, <4>2, <4>3
    <3> HIDE DEF j, m
    <3>6. (m = s[k] <=> j = k) /\ (m = s[k + 1] <=> j = k + 1) /\ k # k + 1
      BY <3>1, <2>1, <1>2, <1>5 DEF m
    <3>7. g[m] = linked
      <4>1. CASE j = k
        <5>1. g[m] = [h[m] EXCEPT !.next = n] /\ j # k + 1
          BY <4>1, <3>6 DEF Inserted
        <5> QED
          BY <4>1, <5>1, <3>3, <3>4, <3>5
      <4>2. CASE j = k + 1
        <5>1. g[m] = [h[m] EXCEPT !.prev = n] /\ j # k
          BY <4>2, <3>6, <1>5 DEF Inserted
        <5> QED
          BY <4>2, <5>1, <3>3, <3>4, <3>5
      <4>3. CASE j # k /\ j # k + 1
        <5>1. g[m] = h[m]
          BY <4>3, <3>2, <3>6, <1>5 DEF Inserted
        <5> QED
          BY <4>3, <5>1, <3>3, <3>4, <3>5
      <4> QED
        BY <4>1, <4>2, <4>3
    <3> QED
      BY <3>2, <3>7 DEF Links
  <2> QED
    BY <2>3, <2>4
<1>9. hd = Nth(t, 1) /\ tl = Nth(t, L + 1)
  <2>1. /\ 1 \in 0..L + 2 /\ 1 <= k /\ L + 1 \in 0..L + 2 /\ ~ (L + 1 <= k) /\ L + 1 # k + 1
        /\ (L + 1) - 1 = L
    BY <1>2, <1>5
  <2>2. Nth(t, 1) = Nth(s, 1)
    BY <2>1, <1>6
  <2>3. Nth(t, L + 1) = Nth(s, (L + 1) - 1)
    BY <2>1, <1>6
  <2> QED
    BY <2>1, <2>2, <2>3, <1>1 DEF L
<1> QED
  BY <1>3, <1>7, <1>8, <1>9 DEF Chained, t

(* insert keeps the invariant. *)
LEMMA InsertAfterInv ==
    ASSUME ListInv, NEW l \in Lists, NEW p \in Nodes, NEW n \in Nodes, InsertAfter(l, p, n)
    PROVE  ListInv'
<1> DEFINE s == listRef[l]
           sd == mSeed[l]
           q == hdr[p].next
           x == [prev |-> p, next |-> q, seed |-> sd, list |-> l]
<1>1. /\ mptail[l] \in Nodes \cup {Nil} /\ mphead[l] \in Nodes \cup {Nil}
      /\ sd \in {l, Nil} /\ hdr \in [Nodes -> HdrType]
      /\ s \in Seq(Nodes) /\ mSize[l] = Len(s)
      /\ mSeed \in [Lists -> Lists \cup {Nil}]
      /\ mphead \in [Lists -> Nodes \cup {Nil}] /\ mptail \in [Lists -> Nodes \cup {Nil}]
      /\ Chained(s, hdr, mphead[l], mptail[l], sd, l)
  BY DEF ListInv, ListTypeOK, ListsChained
<1>2. Member(p, s)
  BY SeedFinds DEF InsertAfter
<1>3. PICK k \in 1..Len(s) : s[k] = p
  BY <1>2 DEF Member
<1>4. ~ Member(n, s) /\ hdr[n].list = Nil
  BY MemberHdr, ListsAssumption DEF InsertAfter, Unlisted
<1>5. q # Nil /\ q \in Nodes /\ Member(q, s)
  <2>1. q = Nth(s, k + 1)
    BY <1>1, <1>3, ChainedHdr
  <2>2. q # Nil /\ q \in Nodes
    BY <1>1 DEF InsertAfter, HdrType
  <2> QED
    BY <2>1, <2>2 DEF Nth, Member
<1>6. p # q
  <2>1. q = Nth(s, k + 1)
    BY <1>1, <1>3, ChainedHdr
  <2>2. k + 1 \in 1..Len(s) /\ q = s[k + 1]
    BY <1>5, <2>1 DEF Nth
  <2>3. \A i, j \in 1..Len(s) : s[i] = s[j] => i = j
    BY <1>1 DEF Chained, NoRepeat
  <2>4. k # k + 1
    BY <1>3
  <2> QED
    BY <1>3, <2>2, <2>3, <2>4
<1>7. n # p /\ n # q
  BY <1>2, <1>4, <1>5
<1>8. (CHOOSE i \in DOMAIN s : s[i] = p) = k
  <2>1. \A i, j \in 1..Len(s) : s[i] = s[j] => i = j
    BY <1>1 DEF Chained, NoRepeat
  <2>2. DOMAIN s = 1..Len(s)
    BY <1>1
  <2> QED
    BY <1>3, <2>1, <2>2
<1> DEFINE t == InsertAt(s, 1 + k, n)
<1>9. /\ hdr' = [hdr EXCEPT ![n] = x, ![p].next = n, ![q].prev = n]
      /\ mSize' = [mSize EXCEPT ![l] = mSize[l] + 1]
      /\ listRef' = [listRef EXCEPT ![l] = t]
      /\ mphead' = mphead /\ mptail' = mptail /\ mSeed' = mSeed
  BY <1>8 DEF InsertAfter
<1>10. x \in HdrType
  BY <1>1, <1>5 DEF HdrType
<1>11. /\ [hdr[p] EXCEPT !.next = n] \in HdrType /\ [hdr[q] EXCEPT !.prev = n] \in HdrType
  BY <1>1, <1>5 DEF HdrType
<1> HIDE DEF x
<1>12. /\ hdr' \in [Nodes -> HdrType] /\ hdr'[n] = x
       /\ hdr'[p] = [hdr[p] EXCEPT !.next = n] /\ hdr'[q] = [hdr[q] EXCEPT !.prev = n]
       /\ \A m \in Nodes \ {n, p, q} : hdr'[m] = hdr[m]
  <2> HIDE DEF q
  <2> QED
    BY <1>1, <1>5, <1>6, <1>7, <1>9, <1>10, <1>11
<1>13. Inserted(hdr, hdr', n, s[k], sd, l)
  BY <1>3, <1>12 DEF Inserted, x
<1>14. Chained(t, hdr', mphead[l], mptail[l], sd, l)
  <2>1. hdr[s[k]].next # Nil
    BY <1>3, <1>5
  <2> HIDE DEF s
  <2> QED
    BY <1>1, <1>3, <1>4, <1>13, <2>1, InsertChained
<1>15. /\ t \in Seq(Nodes) /\ Len(t) = mSize[l] + 1
       /\ Member(n, t) /\ \A m \in Nodes : Member(m, s) => Member(m, t)
  <2>1. /\ t \in Seq(Nodes) /\ Len(t) = Len(s) + 1
        /\ \A i \in 1..Len(s) + 1 :
               t[i] = IF i <= k THEN s[i] ELSE IF i = k + 1 THEN n ELSE s[i - 1]
    <3>1. s \in Seq(Nodes) /\ k \in 1..Len(s)
      BY <1>1, <1>3
    <3> HIDE DEF s
    <3> QED
      BY <3>1, InsertFacts, SMTT(30)
  <2> HIDE DEF t, s
  <2>2. Len(s) \in Nat /\ k \in 1..Len(s)
    BY <1>1, <1>3
  <2>3. Member(n, t)
    <3>1. k + 1 \in 1..Len(s) + 1 /\ ~ (k + 1 <= k)
      BY <2>2
    <3> QED
      BY <2>1, <3>1 DEF Member
  <2>4. ASSUME NEW m \in Nodes, NEW i \in 1..Len(s), s[i] = m PROVE Member(m, t)
    <3>1. CASE i <= k
      <4>1. i \in 1..Len(s) + 1
        BY <2>2
      <4> QED
        BY <2>1, <2>4, <3>1, <4>1 DEF Member
    <3>2. CASE ~ (i <= k)
      <4>1. i + 1 \in 1..Len(s) + 1 /\ ~ (i + 1 <= k) /\ i + 1 # k + 1 /\ i + 1 - 1 = i
        BY <2>2, <3>2
      <4>2. t[i + 1] = s[i]
        BY <2>1, <4>1
      <4> QED
        BY <2>1, <2>4, <4>1, <4>2 DEF Member
    <3> QED
      BY <3>1, <3>2
  <2> QED
    BY <1>1, <2>1, <2>3, <2>4 DEF Member
<1> HIDE DEF t
<1>16. /\ mphead' = [mphead EXCEPT ![l] = mphead[l]] /\ mptail' = [mptail EXCEPT ![l] = mptail[l]]
       /\ mSeed' = [mSeed EXCEPT ![l] = sd] /\ mSize' = [mSize EXCEPT ![l] = Len(t)]
       /\ listRef' = [listRef EXCEPT ![l] = t]
  BY <1>1, <1>9, <1>15
<1>17. hdr[p].list = l /\ hdr[q].list = l
  BY <1>2, <1>5, MemberHdr
<1>18. \A m \in Nodes : hdr[m].list \notin {l, Nil} => hdr'[m] = hdr[m]
  <2> HIDE DEF q
  <2> QED
    BY <1>4, <1>12, <1>17
<1>19. ASSUME NEW m \in Nodes, hdr[m].list \in {l, Nil}
       PROVE  Member(m, t) \/ (hdr'[m].list = Nil /\ hdr'[m].seed = Nil)
  <2>1. CASE m = n
    BY <2>1, <1>15
  <2>2. CASE hdr[m].list = l
    BY <2>2, <1>15, ListsAssumption DEF ListInv, HeadersTruthful
  <2>3. CASE m # n /\ hdr[m].list = Nil
    <3>1. hdr'[m] = hdr[m]
      <4> HIDE DEF q
      <4> QED
        BY <2>3, <1>12, <1>17, ListsAssumption
    <3> QED
      BY <2>3, <3>1 DEF ListInv, HeadersTruthful
  <2> QED
    BY <1>19, <2>1, <2>2, <2>3
<1>20. Rechains(l, t, sd, mphead[l], mptail[l])
  BY <1>1, <1>12, <1>14, <1>15, <1>16, <1>18, <1>19 DEF Rechains
<1> QED
  BY <1>20, ListOperation

(* Every step of the lists keeps the invariant. *)
LEMMA ListStep == ListInv /\ [ListNext]_listVars => ListInv'
<1> SUFFICES ASSUME ListInv, [ListNext]_listVars PROVE ListInv'
  OBVIOUS
<1>1. CASE ListNext
  BY <1>1, ListClearInv, PushBackInv, ListRemoveInv, InsertAfterInv DEF ListNext
<1>2. CASE UNCHANGED listVars
  BY <1>2 DEF listVars, ListInv, ListTypeOK, ListsChained, HeadersTruthful
<1> QED
  BY <1>1, <1>2

\* For any number of lists and nodes: after any sequence of push_back, insert,
\* remove, pop_front and clear (EdObjList.h), each list is, by its head, tail,
\* size and the links in both directions, the sequence it stands for, and no
\* node is in two lists.
THEOREM ListIsSequenceThm == ListSpec => []ListIsSequence
<1>1. ListInv => ListIsSequence
  <2> SUFFICES ASSUME ListInv, NEW l \in Lists
               PROVE  LET s == listRef[l]
                          At(i) == IF i \in DOMAIN s THEN s[i] ELSE Nil
                      IN  /\ mSize[l] = Len(s) /\ mphead[l] = At(1) /\ mptail[l] = At(Len(s))
                          /\ \A i \in DOMAIN s :
                                 hdr[s[i]] = [prev |-> At(i - 1), next |-> At(i + 1),
                                              seed |-> mSeed[l], list |-> l]
                          /\ \A k \in Lists \ {l} : ToSet(s) \cap ToSet(listRef[k]) = {}
    BY DEF ListIsSequence
  <2> DEFINE s == listRef[l]
             At(i) == IF i \in DOMAIN s THEN s[i] ELSE Nil
  <2>1. /\ mSize[l] = Len(s) /\ s \in Seq(Nodes)
        /\ mphead[l] = Nth(s, 1) /\ mptail[l] = Nth(s, Len(s))
        /\ \A i \in 1..Len(s) : hdr[s[i]] = Links(s, i, mSeed[l], l)
    BY DEF ListInv, ListsChained, Chained
  <2>2. DOMAIN s = 1..Len(s)
    BY <2>1
  <2>3. \A i : Nth(s, i) = At(i)
    BY <2>2 DEF Nth
  <2>4. ASSUME NEW i \in DOMAIN s
        PROVE  hdr[s[i]] = [prev |-> At(i - 1), next |-> At(i + 1), seed |-> mSeed[l], list |-> l]
    <3> HIDE DEF s, At
    <3>1. hdr[s[i]] = [prev |-> Nth(s, i - 1), next |-> Nth(s, i + 1),
                       seed |-> mSeed[l], list |-> l]
      BY <2>1, <2>2 DEF Links
    <3> QED
      BY <2>3, <3>1
  <2>5. ASSUME NEW k \in Lists \ {l} PROVE ToSet(s) \cap ToSet(listRef[k]) = {}
    <3>1. \A n \in ToSet(s) : n \in Nodes /\ Member(n, s)
      BY <2>1, <2>2 DEF ToSet, Member
    <3>2. listRef[k] \in Seq(Nodes)
      BY DEF ListInv, ListTypeOK
    <3>3. \A n \in ToSet(listRef[k]) : n \in Nodes /\ Member(n, listRef[k])
      BY <3>2 DEF ToSet, Member
    <3> QED
      BY <3>1, <3>3, MemberHdr
  <2>6. mphead[l] = At(1) /\ mptail[l] = At(Len(s))
    BY <2>1, <2>3
  <2> QED
    BY <2>1, <2>4, <2>5, <2>6
<1> QED
  BY <1>1, ListInitInv, ListStep, PTL DEF ListSpec

-----------------------------------------------------------------------------
(***************************************************************************)
(* The byte buffer.  The numbers put so far tile the first mSize bytes:    *)
(* e[i] is where the i-th number ends.  NumbersReadBack only looks at the  *)
(* next number to be read; that every later one is still in memory as it   *)
(* was laid out is what a put, a reserve and a rewind rely on.             *)
(***************************************************************************)

\* A set of natural numbers has a least element.
LEMMA LeastNat ==
    ASSUME NEW T, T \subseteq Nat, T # {}
    PROVE  \E x \in T : \A y \in T : x <= y
<1> DEFINE R == {p \in Nat \X Nat : p[1] < p[2]}
<1>1. IsWellFoundedOn(R, Nat)
  BY NatLessThanWellFounded DEF OpToRel
<1>2. \A a, b \in Nat : a < b => <<a, b>> \in R
  OBVIOUS
<1> HIDE DEF R
<1>3. PICK x \in T : \A y \in T : ~ (<<y, x>> \in R)
  BY <1>1, WFMin
<1>4. \A y \in T : ~ (y < x)
  BY <1>2, <1>3
<1>5. \A y \in T : x \in Nat /\ y \in Nat
  OBVIOUS
<1> QED
  BY <1>4, <1>5

\* Min finds it.
LEMMA MinFacts ==
    ASSUME NEW T, T \subseteq Nat, T # {}
    PROVE  Min(T) \in T /\ \A y \in T : Min(T) <= y
<1>1. \E x \in T : \A y \in T : x <= y
  BY LeastNat
<1> QED
  BY <1>1 DEF Min

\* A sequence of sequences, put end to end, is as long as they are together.
LEMMA FlattenLength ==
    ASSUME NEW S, NEW n \in Nat, NEW q \in [1..n -> Seq(S)],
           NEW e \in [0..n -> Nat], e[0] = 0,
           \A i \in 1..n : e[i] = e[i - 1] + Len(q[i])
    PROVE  Len(FlattenSeq(q)) = e[n]
<1> DEFINE Rec(f) == [i \in 1..Len(q) |-> IF i = 1 THEN q[i] ELSE f[i - 1] \o q[i]]
           flat == CHOOSE f : f = Rec(f)
           Ends(f, i) == f[i] \in Seq(S) /\ Len(f[i]) = e[i]
           Upto(k, f) ==
               /\ f \in [1..k -> Seq(S)]
               /\ \A i \in 1..k : f[i] = IF i = 1 THEN q[i] ELSE f[i - 1] \o q[i]
           NoneUpto == {k \in 1..n : ~\E f : Upto(k, f)}
<1>1. Len(q) = n
  OBVIOUS
<1>2. FlattenSeq(q) = IF Len(q) = 0 THEN q ELSE flat[Len(q)]
  BY DEF FlattenSeq
<1>3. CASE n = 0
  BY <1>1, <1>2, <1>3
<1>4. CASE n > 0
  <2>1. ASSUME NoneUpto # {} PROVE FALSE
    <3>1. PICK k \in NoneUpto : \A y \in NoneUpto : k <= y
      <4>1. NoneUpto \subseteq Nat
        OBVIOUS
      <4> HIDE DEF NoneUpto
      <4> QED
        BY <2>1, <4>1, LeastNat
    <3>2. k \in 1..n /\ ~\E f : Upto(k, f)
      BY <3>1
    <3>3. k # 1
      <4>1. Upto(1, [i \in 1..1 |-> q[1]])
        BY <1>4
      <4> QED
        BY <3>2, <4>1
    <3>4. k - 1 \in 1..n /\ ~(k <= k - 1)
      BY <3>2, <3>3
    <3>5. PICK f : Upto(k - 1, f)
      <4> HIDE DEF Upto
      <4> QED
        BY <3>1, <3>4
    <3> DEFINE g == [i \in 1..k |-> IF i < k THEN f[i] ELSE f[k - 1] \o q[k]]
    <3>6. f[k - 1] \o q[k] \in Seq(S)
      BY <3>2, <3>4, <3>5
    <3>7. g \in [1..k -> Seq(S)]
      BY <3>2, <3>5, <3>6
    <3>8. ASSUME NEW i \in 1..k PROVE g[i] = IF i = 1 THEN q[i] ELSE g[i - 1] \o q[i]
      <4>1. CASE i = k
        <5>1. k - 1 \in 1..k /\ k \in 1..k /\ k - 1 < k /\ ~(k < k)
          BY <3>2, <3>4
        <5> QED
          BY <3>3, <4>1, <5>1
      <4>2. CASE i # k
        <5>1. i \in 1..k - 1 /\ i < k /\ (i # 1 => i - 1 \in 1..k /\ i - 1 < k)
          BY <3>2, <4>2
        <5>2. g[i] = f[i] /\ (i # 1 => g[i - 1] = f[i - 1])
          BY <5>1
        <5> HIDE DEF g
        <5> QED
          BY <3>5, <5>1, <5>2
      <4> QED
        BY <4>1, <4>2
    <3>9. Upto(k, g)
      <4> HIDE DEF g
      <4> QED
        BY <3>7, <3>8
    <3> QED
      BY <3>2, <3>9
  <2>2. PICK f : Upto(n, f)
    <3>1. n \in 1..n
      BY <1>4
    <3> HIDE DEF Upto
    <3> QED
      BY <2>1, <3>1
  <2>3. f = Rec(f)
    BY <1>1, <2>2
  <2>4. flat = Rec(flat)
    <3> HIDE DEF Rec
    <3> QED
      BY <2>3, Zenon
  <2> HIDE DEF flat
  <2>5. \A i \in 1..n : flat[i] = IF i = 1 THEN q[i] ELSE flat[i - 1] \o q[i]
    BY <1>1, <2>4
  <2> DEFINE Wrong == {i \in 1..n : ~Ends(flat, i)}
  <2>6. ASSUME Wrong # {} PROVE FALSE
    <3>1. PICK k \in Wrong : \A y \in Wrong : k <= y
      <4>1. Wrong \subseteq Nat
        OBVIOUS
      <4> HIDE DEF Wrong
      <4> QED
        BY <2>6, <4>1, LeastNat
    <3>2. k \in 1..n /\ ~Ends(flat, k)
      BY <3>1
    <3>3. CASE k = 1
      <4>1. flat[1] = q[1]
        BY <2>5, <3>2, <3>3
      <4>2. e[1] = Len(q[1]) /\ q[1] \in Seq(S)
        BY <3>2, <3>3
      <4> QED
        BY <3>2, <3>3, <4>1, <4>2
    <3>4. CASE k # 1
      <4>1. k - 1 \in 1..n /\ k - 1 \notin Wrong
        BY <3>1, <3>2, <3>4, SMTT(30)
      <4>2. Ends(flat, k - 1)
        BY <4>1
      <4>3. flat[k] = flat[k - 1] \o q[k] /\ q[k] \in Seq(S) /\ e[k] = e[k - 1] + Len(q[k])
        BY <2>5, <3>2, <3>4
      <4> HIDE DEF Wrong
      <4> QED
        BY <3>2, <4>2, <4>3, SMTT(30)
    <3> QED
      BY <3>3, <3>4
  <2>7. Ends(flat, n)
    <3>1. n \in 1..n
      BY <1>4
    <3> HIDE DEF Ends
    <3> QED
      BY <2>6, <3>1
  <2> QED
    BY <1>1, <1>2, <1>4, <2>7
<1> QED
  BY <1>3, <1>4
Item == [digits : Seq(0..255), order : {0, 1}]

BBTypeOK ==
    /\ bb \in [mem : Seq(Int), mSize : Nat, mCapacity : Nat, mReadPos : Nat,
               mOrder : {0, 1}]
    /\ Len(bb.mem) = bb.mCapacity /\ bb.mSize <= bb.mCapacity
    /\ items \in Seq(Item) /\ itemsRead \in 0..Len(items)

Tiles(e) ==
    /\ e[0] = 0 /\ e[itemsRead] = bb.mReadPos /\ e[Len(items)] = bb.mSize
    /\ \A i \in 1..Len(items) : e[i] = e[i - 1] + Len(items[i].digits)
    /\ \A i \in 0..Len(items) : e[i] <= bb.mSize

Holds(e) ==
    \A i \in 1..Len(items) : \A j \in 1..Len(items[i].digits) :
        bb.mem[e[i - 1] + j] = Encoded(items[i].digits, items[i].order)[j]

BBInv ==
    /\ BBTypeOK
    /\ \E e \in [0..Len(items) -> Nat] : Tiles(e) /\ Holds(e)

\* A sequence of members of A is one of members of any larger set.
LEMMA SeqSuperset ==
    ASSUME NEW A, NEW B, A \subseteq B, NEW s \in Seq(A)
    PROVE  s \in Seq(B)
OBVIOUS

\* w members of a sequence, from the one after the p-th on.
LEMMA ReadAt ==
    ASSUME NEW s \in Seq(Int), NEW p \in Nat, NEW w \in Nat, p + w <= Len(s)
    PROVE  /\ SubSeq(s, p + 1, p + w) \in Seq(Int) /\ Len(SubSeq(s, p + 1, p + w)) = w
           /\ \A j \in 1..w : SubSeq(s, p + 1, p + w)[j] = s[p + j]
<1>1. Len(s) \in Nat
  OBVIOUS
<1>2. /\ p + 1 \in 1..Len(s) + 1 /\ p + w \in (p + 1) - 1..Len(s)
      /\ (p + w) - (p + 1) + 1 = w /\ \A j \in 1..w : (p + 1) + j - 1 = p + j
  BY <1>1
<1> QED
  BY <1>2, SubSeqFacts

\* A byte of a number that ends before sz lies before sz.
LEMMA InTile ==
    ASSUME NEW a \in Nat, NEW len \in Nat, NEW sz \in Nat, a + len <= sz, NEW j \in 1..len
    PROVE  a + j \in 1..sz
OBVIOUS

\* Bytes are integers.
LEMMA ByteFacts ==
    ASSUME NEW s \in Seq(0..255)
    PROVE  s \in Seq(Int) /\ Len(s) \in Nat
<1>1. 0..255 \subseteq Int
  OBVIOUS
<1>2. \A A : A \subseteq Int => (s \in Seq(A) => s \in Seq(Int))
  BY SeqSuperset
<1> QED
  BY <1>1, <1>2, ElementFacts, ZenonT(30)

\* The parts of what was put.
LEMMA ItemFacts ==
    ASSUME NEW q \in Seq(Item), NEW i \in 1..Len(q)
    PROVE  q[i].digits \in Seq(0..255) /\ q[i].order \in {0, 1} /\ Len(q[i].digits) \in Nat
<1>1. q[i] \in Item
  BY ElementFacts
<1>2. q[i].digits \in Seq(0..255) /\ q[i].order \in {0, 1}
  BY <1>1 DEF Item
<1> QED
  BY <1>2, ElementFacts

\* A number is a sequence of bytes.
LEMMA NumberFacts ==
    ASSUME NEW d \in Numbers
    PROVE  d \in Seq(0..255) /\ Len(d) \in Nat
<1>1. PICK w \in Widths : d \in [1..w -> Digits]
  BY DEF Numbers
<1>2. w \in Nat /\ Digits \subseteq 0..255
  BY WidthsAssumption, DigitsAssumption
<1>3. d \in [1..w -> 0..255]
  BY <1>1, <1>2
<1> QED
  BY <1>2, <1>3, SeqOfFunction

\* A reversed sequence, and one reversed twice.
LEMMA ReverseFacts ==
    ASSUME NEW S, NEW d \in Seq(S)
    PROVE  /\ Reverse(d) \in Seq(S) /\ Len(Reverse(d)) = Len(d)
           /\ \A i \in 1..Len(d) : Reverse(d)[i] = d[(Len(d) - i) + 1]
           /\ Reverse(Reverse(d)) = d
<1> DEFINE n == Len(d)
<1>1. n \in Nat /\ \A i \in 1..n : (n - i) + 1 \in 1..n /\ d[i] \in S
  OBVIOUS
<1>2. Reverse(d) \in [1..n -> S]
  BY <1>1 DEF Reverse
<1>3. Reverse(d) \in Seq(S) /\ Len(Reverse(d)) = n
  BY <1>1, <1>2, SeqOfFunction
<1>4. \A i \in 1..n : Reverse(d)[i] = d[(n - i) + 1]
  BY <1>1 DEF Reverse
<1>5. Reverse(Reverse(d)) \in Seq(S) /\ Len(Reverse(Reverse(d))) = n
  <2>1. \A i \in 1..n : Reverse(d)[(n - i) + 1] \in S
    BY <1>1, <1>2
  <2>2. Reverse(Reverse(d)) \in [1..n -> S]
    BY <1>3, <2>1 DEF Reverse
  <2> QED
    BY <1>1, <2>2, SeqOfFunction
<1>6. \A i \in 1..n : Reverse(Reverse(d))[i] = d[i]
  <2>1. \A i \in 1..n : Reverse(Reverse(d))[i] = Reverse(d)[(n - i) + 1]
    BY <1>3 DEF Reverse
  <2>2. \A i \in 1..n : (n - ((n - i) + 1)) + 1 = i
    BY <1>1
  <2> QED
    BY <1>1, <1>4, <2>1, <2>2
<1> QED
  BY <1>3, <1>4, <1>5, <1>6, SeqEqual

\* A number in memory has as many bytes, and reads back in the same order.
LEMMA EncodedFacts ==
    ASSUME NEW d \in Seq(0..255), NEW order \in {0, 1}
    PROVE  /\ Encoded(d, order) \in Seq(0..255) /\ Len(Encoded(d, order)) = Len(d)
           /\ Decoded(Encoded(d, order), order) = d
BY ReverseFacts DEF Encoded, Decoded

\* getNum reads it back too if no byte but the first has its top bit set.
LEMMA DecodedNumFacts ==
    ASSUME NEW d \in Seq(0..255), NEW order \in {0, 1},
           \A i \in 2..Len(d) : d[i] < 128
    PROVE  DecodedNum(Encoded(d, order), order) = d
<1>1. CASE order = 0
  BY <1>1, ReverseFacts DEF DecodedNum, Encoded
<1>2. CASE order # 0
  <2>1. Len(d) \in Nat /\ DOMAIN d = 1..Len(d) /\ \A i \in DOMAIN d : d[i] \in 0..255
    BY ElementFacts, ZenonT(30)
  <2>2. \A i, j \in DOMAIN d : ~(i > j /\ d[i] >= 128)
    <3>1. \A i, j \in DOMAIN d : i > j => i \in 2..Len(d)
      BY <2>1
    <3>2. \A i \in DOMAIN d : i \in 2..Len(d) => ~(d[i] >= 128)
      <4> SUFFICES ASSUME NEW i \in DOMAIN d, i \in 2..Len(d) PROVE ~(d[i] >= 128)
        OBVIOUS
      <4>1. d[i] < 128
        OBVIOUS
      <4>2. d[i] \in 0..255
        BY <2>1, Zenon
      <4>3. \A x \in 0..255 : x < 128 => ~(x >= 128)
        OBVIOUS
      <4> QED
        BY <4>1, <4>2, <4>3, Zenon
    <3> QED
      BY <3>1, <3>2
  <2>3. DecodedNum(Encoded(d, order), order) = [j \in DOMAIN d |-> d[j]]
    BY <1>2, <2>2 DEF DecodedNum, Encoded
  <2> QED
    BY <2>1, <2>3
<1> QED
  BY <1>1, <1>2

\* realloc.
LEMMA ReallocatedFacts ==
    ASSUME NEW mem \in Seq(Int), NEW cap \in Nat
    PROVE  /\ Reallocated(mem, cap) \in Seq(Int) /\ Len(Reallocated(mem, cap)) = cap
           /\ \A i \in 1..cap : i <= Len(mem) => Reallocated(mem, cap)[i] = mem[i]
<1>1. Len(mem) \in Nat /\ \A i \in 1..Len(mem) : mem[i] \in Int
  OBVIOUS
<1>2. \A i \in 1..cap : i <= Len(mem) => mem[i] \in Int
  BY <1>1
<1>3. Reallocated(mem, cap) \in [1..cap -> Int]
  BY <1>2 DEF Reallocated, Garbage
<1>4. \A i \in 1..cap : i <= Len(mem) => Reallocated(mem, cap)[i] = mem[i]
  BY DEF Reallocated
<1> QED
  BY <1>3, <1>4, SeqOfFunction

\* The capacity that put asks for is enough: the doubling passes the need or
\* DoubleLimit, and what is computed from the need is not below it.
LEMMA GrownFacts ==
    ASSUME NEW cap \in Nat, NEW need \in Nat
    PROVE  Grown(cap, need) \in Nat /\ Grown(cap, need) >= need
<1> DEFINE t0 == IF cap = 0 THEN StartSize ELSE cap
           low == Min({need, DoubleLimit})
           T == {t0 * d : d \in Doublings} \ (0..low - 1)
           t == Min(T)
<1>1. /\ t0 \in Nat /\ t0 >= 1 /\ RoundUnit \in Nat /\ RoundUnit >= 1
      /\ DoubleLimit \in Nat /\ DoubleLimit <= 16384
  BY GrowthAssumption
<1>2. low \in Nat /\ low <= DoubleLimit
  <2>1. {need, DoubleLimit} \subseteq Nat /\ {need, DoubleLimit} # {}
    BY <1>1
  <2> QED
    BY <2>1, MinFacts
<1>3. \A d \in Doublings : t0 * d \in Nat
  <2>1. Doublings \subseteq Nat
    BY DEF Doublings
  <2> QED
    BY <1>1, <2>1
<1>4. t0 * 16384 \in T
  <2>1. t0 * 16384 >= 16384 /\ 16384 \in Doublings
    BY <1>1 DEF Doublings
  <2>2. t0 * 16384 \notin 0..low - 1
    BY <1>1, <1>2, <2>1
  <2> QED
    BY <2>1, <2>2
<1>5. T \subseteq Nat /\ T # {}
  <2>1. \A x \in T : \E d \in Doublings : x = t0 * d
    OBVIOUS
  <2> HIDE DEF T, t0
  <2> QED
    BY <1>3, <1>4, <2>1
<1>6. t \in Nat
  <2> HIDE DEF T
  <2> QED
    BY <1>5, MinFacts
<1> DEFINE q == need \div RoundUnit
           r == need % RoundUnit
<1>7. q \in Nat /\ r \in Nat /\ need = RoundUnit * q + r
  BY <1>1
<1>8. (q + r) * RoundUnit \in Nat /\ (q + r) * RoundUnit >= need
  <2> HIDE DEF q, r
  <2>1. r * RoundUnit >= r
    BY <1>1, <1>7
  <2>2. (q + r) * RoundUnit = RoundUnit * q + r * RoundUnit
    BY <1>1, <1>7
  <2>3. RoundUnit * q \in Nat /\ r * RoundUnit \in Nat
    BY <1>1, <1>7
  <2> QED
    BY <1>7, <2>1, <2>2, <2>3
<1>9. Grown(cap, need) = IF t < need THEN (q + r) * RoundUnit ELSE t
  BY DEF Grown
<1> HIDE DEF t, q, r
<1> QED
  BY <1>6, <1>8, <1>9

\* Where put writes.
LEMMA PutRanges ==
    ASSUME NEW sz \in Nat, NEW len \in Nat, NEW cap \in Nat, cap >= sz + len
    PROVE  /\ \A i \in 1..sz : i \in 1..cap /\ i \notin sz + 1..sz + len
           /\ \A j \in 1..len : /\ sz + j \in 1..cap /\ sz + j \in sz + 1..sz + len
                                 /\ (sz + j) - sz = j
           /\ \A i \in sz + 1..sz + len : i - sz \in 1..len
OBVIOUS

\* put: the bytes that were there stay, and the new ones follow.
LEMMA PutFacts ==
    ASSUME BBTypeOK, NEW bytes \in Seq(0..255)
    PROVE  LET b == PutBytes(bb, bytes) IN
           /\ b \in [mem : Seq(Int), mSize : Nat, mCapacity : Nat, mReadPos : Nat,
                     mOrder : {0, 1}]
           /\ Len(b.mem) = b.mCapacity /\ b.mSize <= b.mCapacity
           /\ b.mSize = bb.mSize + Len(bytes) /\ b.mReadPos = bb.mReadPos
           /\ \A i \in 1..bb.mSize : b.mem[i] = bb.mem[i]
           /\ \A j \in 1..Len(bytes) : b.mem[bb.mSize + j] = bytes[j]
<1> DEFINE need == bb.mSize + Len(bytes)
           cap == IF need > bb.mCapacity THEN Grown(bb.mCapacity, need) ELSE bb.mCapacity
           mem == Reallocated(bb.mem, cap)
           new == [i \in 1..cap |-> IF i \in bb.mSize + 1..need THEN bytes[i - bb.mSize]
                                    ELSE mem[i]]
<1>1. /\ bb.mem \in Seq(Int) /\ bb.mSize \in Nat /\ bb.mCapacity \in Nat
      /\ Len(bb.mem) = bb.mCapacity /\ bb.mSize <= bb.mCapacity
      /\ Len(bytes) \in Nat
  BY ElementFacts DEF BBTypeOK
<1>2. \A j \in 1..Len(bytes) : bytes[j] \in Int
  <2>1. \A j \in 1..Len(bytes) : bytes[j] \in 0..255
    BY ElementFacts, ZenonT(30)
  <2>2. 0..255 \subseteq Int
    OBVIOUS
  <2> QED
    BY <2>1, <2>2, Zenon
<1>3. cap \in Nat /\ cap >= need /\ cap >= bb.mSize
  <2>1. need \in Nat
    BY <1>1
  <2> HIDE DEF need
  <2>2. Grown(bb.mCapacity, need) \in Nat /\ Grown(bb.mCapacity, need) >= need
    BY <1>1, <2>1, GrownFacts
  <2>3. cap \in Nat /\ cap >= need
    BY <1>1, <2>1, <2>2
  <2> HIDE DEF cap
  <2> QED
    BY <1>1, <2>3 DEF need
<1> HIDE DEF cap
<1>4. /\ \A i \in 1..cap : mem[i] \in Int
      /\ \A i \in 1..cap : i <= Len(bb.mem) => mem[i] = bb.mem[i]
  <2>1. mem \in Seq(Int) /\ Len(mem) = cap
        /\ \A i \in 1..cap : i <= Len(bb.mem) => mem[i] = bb.mem[i]
    BY <1>1, <1>3, ReallocatedFacts
  <2> HIDE DEF mem
  <2> QED
    BY <2>1, ElementFacts
<1> HIDE DEF mem
<1>5. /\ \A i \in 1..bb.mSize : i \in 1..cap /\ i \notin bb.mSize + 1..need
      /\ \A j \in 1..Len(bytes) : /\ bb.mSize + j \in 1..cap
                                   /\ bb.mSize + j \in bb.mSize + 1..need
                                   /\ (bb.mSize + j) - bb.mSize = j
      /\ \A i \in bb.mSize + 1..need : i - bb.mSize \in 1..Len(bytes)
  BY <1>1, <1>3, PutRanges
<1>6. new \in [1..cap -> Int]
  BY <1>2, <1>4, <1>5
<1>7. \A i \in 1..bb.mSize : new[i] = bb.mem[i]
  <2>1. \A i \in 1..bb.mSize : i <= Len(bb.mem)
    BY <1>1
  <2> QED
    BY <1>4, <1>5, <2>1
<1>8. \A j \in 1..Len(bytes) : new[bb.mSize + j] = bytes[j]
  BY <1>5
<1>9. new \in Seq(Int) /\ Len(new) = cap
  BY <1>3, <1>6, SeqOfFunction
<1>10. PutBytes(bb, bytes) = [bb EXCEPT !.mCapacity = cap, !.mSize = need, !.mem = new]
  BY DEF PutBytes, cap, mem
<1> HIDE DEF new
<1>11. need \in Nat
  BY <1>1
<1> QED
  BY <1>3, <1>7, <1>8, <1>9, <1>10, <1>11, ZenonT(30) DEF BBTypeOK

\* A step after which the same numbers lie where they lay.
LEMMA BBFrame ==
    ASSUME BBInv, BBTypeOK', UNCHANGED items, bb'.mSize = bb.mSize,
           \/ bb'.mReadPos = bb.mReadPos /\ itemsRead' = itemsRead
           \/ bb'.mReadPos = 0 /\ itemsRead' = 0,
           \A i \in 1..bb.mSize : bb'.mem[i] = bb.mem[i]
    PROVE  BBInv'
<1>1. PICK e \in [0..Len(items) -> Nat] : Tiles(e) /\ Holds(e)
  BY DEF BBInv
<1>2. items \in Seq(Item) /\ Len(items) \in Nat /\ bb.mSize \in Nat
  BY DEF BBInv, BBTypeOK
<1>3. Tiles(e)'
  <2>1. e[itemsRead'] = bb'.mReadPos
    BY <1>1 DEF Tiles
  <2> QED
    BY <1>1, <2>1 DEF Tiles
<1>4. Holds(e)'
  <2> SUFFICES ASSUME NEW i \in 1..Len(items), NEW j \in 1..Len(items[i].digits)
               PROVE  bb'.mem[e[i - 1] + j] = Encoded(items[i].digits, items[i].order)[j]
    BY DEF Holds
  <2>0. i \in 0..Len(items) /\ i - 1 \in 0..Len(items)
    BY <1>2
  <2>1. /\ e[i] = e[i - 1] + Len(items[i].digits) /\ e[i] <= bb.mSize
        /\ e[i] \in Nat /\ e[i - 1] \in Nat
    BY <1>1, <2>0 DEF Tiles
  <2>2. Len(items[i].digits) \in Nat
    BY <1>2, ItemFacts
  <2>3. e[i - 1] + j \in 1..bb.mSize
    BY <1>2, <2>1, <2>2
  <2> QED
    BY <1>1, <2>3 DEF Holds
<1> QED
  BY <1>1, <1>3, <1>4 DEF BBInv

\* Where nothing lies in an empty buffer.
LEMMA BBInitInv == BBInit => BBInv
<1> SUFFICES ASSUME BBInit PROVE BBInv
  OBVIOUS
<1> DEFINE e == [i \in 0..0 |-> 0]
<1>1. BBTypeOK /\ Len(items) = 0
  BY EmptySeqFacts DEF BBInit, BBTypeOK
<1>2. e \in [0..Len(items) -> Nat] /\ Tiles(e) /\ Holds(e)
  BY <1>1 DEF BBInit, Tiles, Holds
<1> QED
  BY <1>1, <1>2 DEF BBInv

\* A buffer that is emptied.
LEMMA BBEmptied ==
    ASSUME BBTypeOK', items' = <<>>, itemsRead' = 0, bb'.mSize = 0, bb'.mReadPos = 0
    PROVE  BBInv'
<1> DEFINE e == [i \in 0..0 |-> 0]
<1>1. Len(items') = 0
  OBVIOUS
<1>2. e \in [0..Len(items') -> Nat] /\ Tiles(e)' /\ Holds(e)'
  BY <1>1 DEF Tiles, Holds
<1> QED
  BY <1>2 DEF BBInv

\* A number more.
LEMMA BBPutInv ==
    ASSUME BBInv, NEW d \in Numbers, BBPut(d)
    PROVE  BBInv'
<1> DEFINE n == Len(items)
           it == [digits |-> d, order |-> bb.mOrder]
           bytes == Encoded(d, bb.mOrder)
<1>0. /\ bb' = PutBytes(bb, bytes) /\ items' = Append(items, it) /\ itemsRead' = itemsRead
      /\ BBTypeOK /\ bb.mOrder \in {0, 1} /\ bb.mSize \in Nat
      /\ items \in Seq(Item) /\ itemsRead \in 0..n /\ n \in Nat
  BY DEF BBPut, BBInv, BBTypeOK
<1>1. /\ d \in Seq(0..255) /\ Len(d) \in Nat /\ it \in Item
      /\ bytes \in Seq(0..255) /\ Len(bytes) = Len(d)
  BY <1>0, NumberFacts, EncodedFacts, ZenonT(30) DEF Item
<1>2. /\ items' \in Seq(Item) /\ Len(items') = n + 1
      /\ \A i \in 1..n : items'[i] = items[i]
      /\ items'[n + 1] = it
  <2> HIDE DEF it
  <2> QED
    BY <1>0, <1>1, AppendFacts
<1>3. /\ bb' \in [mem : Seq(Int), mSize : Nat, mCapacity : Nat, mReadPos : Nat,
                  mOrder : {0, 1}]
      /\ Len(bb'.mem) = bb'.mCapacity /\ bb'.mSize <= bb'.mCapacity
      /\ bb'.mSize = bb.mSize + Len(d) /\ bb'.mReadPos = bb.mReadPos
      /\ \A i \in 1..bb.mSize : bb'.mem[i] = bb.mem[i]
      /\ \A j \in 1..Len(d) : bb'.mem[bb.mSize + j] = bytes[j]
  <2> HIDE DEF bytes
  <2> QED
    BY <1>0, <1>1, PutFacts
<1> HIDE DEF bytes
<1>4. BBTypeOK'
  BY <1>0, <1>2, <1>3 DEF BBTypeOK
<1>5. PICK e \in [0..n -> Nat] : Tiles(e) /\ Holds(e)
  BY DEF BBInv
<1>6. PICK f \in [0..n + 1 -> Nat] : f[n + 1] = bb.mSize + Len(d)
                                    /\ \A i \in 0..n : f[i] = e[i]
  <2> DEFINE g == [i \in 0..n + 1 |-> IF i <= n THEN e[i] ELSE bb.mSize + Len(d)]
  <2>1. /\ g \in [0..n + 1 -> Nat] /\ g[n + 1] = bb.mSize + Len(d)
        /\ \A i \in 0..n : g[i] = e[i]
    BY <1>0, <1>1, <1>5
  <2> QED
    BY <2>1
<1> HIDE DEF it, n
<1>7. Tiles(f)'
  <2>1. f[0] = 0 /\ f[itemsRead'] = bb'.mReadPos /\ f[Len(items')] = bb'.mSize
    BY <1>0, <1>2, <1>3, <1>5, <1>6 DEF Tiles, n
  <2>2. \A i \in 1..n + 1 : f[i] = f[i - 1] + Len(items'[i].digits)
    <3> SUFFICES ASSUME NEW i \in 1..n + 1
                 PROVE  f[i] = f[i - 1] + Len(items'[i].digits)
      OBVIOUS
    <3>1. CASE i = n + 1
      <4>1. f[n] = bb.mSize /\ (n + 1) - 1 = n
        BY <1>0, <1>5, <1>6 DEF Tiles, n
      <4>2. items'[n + 1].digits = d
        BY <1>2 DEF it
      <4> QED
        BY <1>6, <3>1, <4>1, <4>2
    <3>2. CASE i # n + 1
      <4>1. i \in 1..n /\ i - 1 \in 0..n /\ i \in 0..n
        BY <1>0, <3>2
      <4>2. e[i] = e[i - 1] + Len(items[i].digits)
        BY <1>5, <4>1 DEF Tiles, n
      <4> QED
        BY <1>2, <1>6, <4>1, <4>2
    <3> QED
      BY <3>1, <3>2
  <2>3. \A i \in 0..n + 1 : f[i] <= bb'.mSize
    <3> SUFFICES ASSUME NEW i \in 0..n + 1 PROVE f[i] <= bb'.mSize
      OBVIOUS
    <3>1. CASE i = n + 1
      BY <1>0, <1>1, <1>3, <1>6, <3>1
    <3>2. CASE i # n + 1
      <4>1. i \in 0..n
        BY <1>0, <3>2
      <4>2. e[i] <= bb.mSize /\ e[i] \in Nat /\ f[i] = e[i]
        BY <1>5, <1>6, <4>1 DEF Tiles, n
      <4>3. bb'.mSize = bb.mSize + Len(d) /\ bb.mSize \in Nat /\ Len(d) \in Nat
        BY <1>0, <1>1, <1>3
      <4> QED
        BY <4>2, <4>3
    <3> QED
      BY <3>1, <3>2
  <2> QED
    BY <1>2, <2>1, <2>2, <2>3 DEF Tiles
<1>8. Holds(f)'
  <2> SUFFICES ASSUME NEW i \in 1..n + 1, NEW j \in 1..Len(items'[i].digits)
               PROVE  bb'.mem[f[i - 1] + j] = Encoded(items'[i].digits, items'[i].order)[j]
    BY <1>2 DEF Holds
  <2>1. CASE i = n + 1
    <3>1. f[i - 1] = bb.mSize
      BY <1>0, <1>5, <1>6, <2>1 DEF Tiles, n
    <3>2. items'[i].digits = d /\ items'[i].order = bb.mOrder
      BY <1>2, <2>1 DEF it
    <3> QED
      BY <1>3, <3>1, <3>2 DEF bytes
  <2>2. CASE i # n + 1
    <3>1. i \in 1..n /\ i - 1 \in 0..n /\ i \in 0..n
      BY <1>0, <2>2
    <3>2. /\ e[i] = e[i - 1] + Len(items[i].digits) /\ e[i] <= bb.mSize
          /\ e[i] \in Nat /\ e[i - 1] \in Nat /\ items'[i] = items[i]
          /\ f[i - 1] = e[i - 1]
      BY <1>2, <1>5, <1>6, <3>1 DEF Tiles, n
    <3>3. Len(items[i].digits) \in Nat /\ j \in 1..Len(items[i].digits)
      BY <1>0, <3>1, <3>2, ItemFacts DEF n
    <3>4. e[i - 1] + j \in 1..bb.mSize
      <4>1. bb.mSize \in Nat /\ e[i - 1] + Len(items[i].digits) <= bb.mSize
        BY <1>0, <3>2
      <4> QED
        BY <3>2, <3>3, <4>1, InTile
    <3>5. bb.mem[e[i - 1] + j] = Encoded(items[i].digits, items[i].order)[j]
      BY <1>5, <3>1, <3>2 DEF Holds, n
    <3> QED
      BY <1>3, <3>2, <3>4, <3>5
  <2> QED
    BY <2>1, <2>2
<1> QED
  BY <1>2, <1>4, <1>6, <1>7, <1>8 DEF BBInv

\* The next number is read.
LEMMA BBGetInv ==
    ASSUME BBInv, BBGet
    PROVE  BBInv'
<1> DEFINE w == Len(items[itemsRead + 1].digits)
<1>0. /\ bb' = [bb EXCEPT !.mReadPos = @ + w] /\ itemsRead' = itemsRead + 1
      /\ items' = items /\ itemsRead < Len(items)
  BY DEF BBGet, NextWidth
<1>1. /\ items \in Seq(Item) /\ Len(items) \in Nat /\ itemsRead \in 0..Len(items)
      /\ itemsRead + 1 \in 1..Len(items)
  BY <1>0 DEF BBInv, BBTypeOK
<1>2. w \in Nat
  BY <1>1, ItemFacts
<1> HIDE DEF w
<1>3. bb'.mReadPos = bb.mReadPos + w /\ bb'.mSize = bb.mSize /\ bb'.mem = bb.mem
  BY <1>0 DEF BBInv, BBTypeOK
<1>4. BBTypeOK'
  <2>1. itemsRead' \in 0..Len(items')
    BY <1>0, <1>1
  <2>2. BBTypeOK /\ bb.mReadPos + w \in Nat
    BY <1>2 DEF BBInv, BBTypeOK
  <2> QED
    BY <1>0, <1>1, <2>1, <2>2 DEF BBTypeOK
<1>5. PICK e \in [0..Len(items) -> Nat] : Tiles(e) /\ Holds(e)
  BY DEF BBInv
<1>6. e[itemsRead + 1] = bb.mReadPos + w
  <2>1. (itemsRead + 1) - 1 = itemsRead
    BY <1>1
  <2> QED
    BY <1>1, <1>5, <2>1 DEF Tiles, w
<1>7. Tiles(e)'
  BY <1>0, <1>3, <1>5, <1>6 DEF Tiles
<1>8. Holds(e)'
  BY <1>0, <1>3, <1>5 DEF Holds
<1> QED
  BY <1>0, <1>4, <1>5, <1>7, <1>8 DEF BBInv

\* Memory from elsewhere, with one number in it.
LEMMA BBTakeBufferInv ==
    ASSUME BBInv, NEW d \in Numbers, NEW cap \in 1..MaxSize, BBTakeBuffer(d, cap)
    PROVE  BBInv'
<1> DEFINE it == [digits |-> d, order |-> bb.mOrder]
           bytes == Encoded(d, bb.mOrder)
           mem == Reallocated(bytes, cap)
<1>0. /\ cap >= Len(d) /\ cap \in Nat /\ bb.mOrder \in {0, 1}
      /\ bb' = [mem |-> mem, mSize |-> Len(d), mCapacity |-> cap, mReadPos |-> 0,
                mOrder |-> bb.mOrder]
      /\ items' = <<it>> /\ itemsRead' = 0
  BY MaxSizeAssumption DEF BBTakeBuffer, BBInv, BBTypeOK
<1>1. /\ d \in Seq(0..255) /\ Len(d) \in Nat /\ it \in Item
      /\ bytes \in Seq(0..255) /\ Len(bytes) = Len(d)
  BY <1>0, NumberFacts, EncodedFacts, ZenonT(30) DEF Item
<1>2. bytes \in Seq(Int)
  BY <1>1, ByteFacts
<1>3. mem \in Seq(Int) /\ Len(mem) = cap
      /\ \A i \in 1..cap : i <= Len(bytes) => mem[i] = bytes[i]
  BY <1>0, <1>2, ReallocatedFacts
<1> HIDE DEF mem, bytes
<1>4. items' \in Seq(Item) /\ Len(items') = 1 /\ items'[1] = it
  <2> HIDE DEF it
  <2> QED
    BY <1>0, <1>1
<1>5. BBTypeOK'
  BY <1>0, <1>1, <1>3, <1>4 DEF BBTypeOK
<1> DEFINE e == [i \in 0..1 |-> IF i = 0 THEN 0 ELSE Len(d)]
<1>6. e \in [0..1 -> Nat] /\ e[0] = 0 /\ e[1] = Len(d)
  BY <1>1
<1> HIDE DEF e
<1>7. Tiles(e)'
  BY <1>0, <1>1, <1>4, <1>6 DEF Tiles
<1>8. Holds(e)'
  <2> SUFFICES ASSUME NEW j \in 1..Len(d) PROVE bb'.mem[e[1 - 1] + j] = bytes[j]
    BY <1>4 DEF Holds, bytes
  <2>1. e[1 - 1] + j = j /\ j \in 1..cap /\ j <= Len(bytes)
    BY <1>0, <1>1, <1>6
  <2> QED
    BY <1>0, <1>3, <2>1
<1> QED
  BY <1>4, <1>5, <1>6, <1>7, <1>8 DEF BBInv

\* Every operation keeps the numbers where they were put.
LEMMA BBStep == BBInv /\ [BBNext]_bbVars => BBInv'
<1> SUFFICES ASSUME BBInv, [BBNext]_bbVars PROVE BBInv'
  OBVIOUS
<1>0. BBTypeOK
  BY DEF BBInv
<1>1. CASE UNCHANGED bbVars
  <2>1. BBTypeOK'
    BY <1>0, <1>1 DEF bbVars, BBTypeOK
  <2> QED
    BY <1>1, <2>1, BBFrame DEF bbVars
<1>2. CASE BBRewind
  <2>0. bb'.mSize = bb.mSize /\ bb'.mCapacity = bb.mCapacity /\ bb'.mem = bb.mem
    BY <1>0, <1>2 DEF BBRewind, BBTypeOK
  <2>1. BBTypeOK'
    <3>1. bb' \in [mem : Seq(Int), mSize : Nat, mCapacity : Nat, mReadPos : Nat, mOrder : {0, 1}]
      BY <1>0, <1>2 DEF BBRewind, BBTypeOK
    <3>2. items' = items /\ itemsRead' \in 0..Len(items)
      BY <1>0, <1>2 DEF BBRewind, BBTypeOK
    <3> QED
      BY <1>0, <2>0, <3>1, <3>2 DEF BBTypeOK
  <2> QED
    BY <1>0, <1>2, <2>1, BBFrame DEF BBRewind, BBTypeOK
<1>3. CASE BBClear \/ BBRelease
  <2>0. <<>> \in Seq(Int) /\ <<>> \in Seq(Item) /\ Len(<<>>) = 0
    BY EmptySeqFacts
  <2>1. CASE BBClear
    <3>1. /\ items' = <<>> /\ itemsRead' = 0 /\ bb'.mSize = 0 /\ bb'.mReadPos = 0
          /\ bb' = [bb EXCEPT !.mSize = 0, !.mReadPos = 0]
      BY <1>0, <2>1 DEF BBClear, BBTypeOK
    <3>2. /\ bb' \in [mem : Seq(Int), mSize : Nat, mCapacity : Nat, mReadPos : Nat,
                      mOrder : {0, 1}]
          /\ bb'.mem = bb.mem /\ bb'.mCapacity = bb.mCapacity /\ bb.mCapacity \in Nat
      BY <1>0, <3>1 DEF BBTypeOK
    <3>3. Len(bb'.mem) = bb'.mCapacity /\ bb'.mSize <= bb'.mCapacity
      BY <1>0, <3>1, <3>2 DEF BBTypeOK
    <3>4. BBTypeOK'
      BY <2>0, <3>1, <3>2, <3>3 DEF BBTypeOK
    <3> QED
      BY <3>1, <3>4, BBEmptied
  <2>2. CASE BBRelease
    <3>1. /\ items' = <<>> /\ itemsRead' = 0 /\ bb'.mSize = 0 /\ bb'.mReadPos = 0
          /\ bb' = [mem |-> <<>>, mSize |-> 0, mCapacity |-> 0, mReadPos |-> 0,
                    mOrder |-> bb.mOrder]
      BY <2>2 DEF BBRelease
    <3>2. BBTypeOK'
      BY <1>0, <2>0, <3>1 DEF BBTypeOK
    <3> QED
      BY <3>1, <3>2, BBEmptied
  <2> QED
    BY <1>3, <2>1, <2>2
<1>4. ASSUME NEW size \in 0..MaxSize, BBReserve(size) PROVE BBInv'
  <2>1. /\ size \in Nat /\ size >= bb.mSize /\ bb.mSize \in Nat
        /\ Len(bb.mem) = bb.mCapacity /\ bb.mSize <= bb.mCapacity /\ bb.mCapacity \in Nat
        /\ bb.mem \in Seq(Int)
    BY <1>0, <1>4, MaxSizeAssumption DEF BBReserve, BBTypeOK
  <2>2. /\ Reallocated(bb.mem, size) \in Seq(Int) /\ Len(Reallocated(bb.mem, size)) = size
        /\ \A i \in 1..size : i <= Len(bb.mem) => Reallocated(bb.mem, size)[i] = bb.mem[i]
    BY <2>1, ReallocatedFacts
  <2>3. /\ bb'.mem = Reallocated(bb.mem, size) /\ bb'.mSize = bb.mSize
        /\ bb'.mReadPos = bb.mReadPos /\ UNCHANGED <<items, itemsRead>>
    BY <1>0, <1>4 DEF BBReserve, BBTypeOK
  <2>4. BBTypeOK'
    BY <1>0, <1>4, <2>1, <2>2 DEF BBReserve, BBTypeOK
  <2>5. \A i \in 1..bb.mSize : i \in 1..size /\ i <= Len(bb.mem)
    BY <2>1
  <2>6. \A i \in 1..bb.mSize : bb'.mem[i] = bb.mem[i]
    BY <2>2, <2>3, <2>5
  <2> QED
    BY <2>3, <2>4, <2>6, BBFrame
<1>5. ASSUME NEW order \in {0, 1}, BBSetOrder(order) PROVE BBInv'
  <2>1. BBTypeOK'
    BY <1>0, <1>5 DEF BBSetOrder, BBTypeOK
  <2> QED
    BY <1>0, <1>5, <2>1, BBFrame DEF BBSetOrder, BBTypeOK
<1> QED
  BY <1>1, <1>2, <1>3, <1>4, <1>5, BBPutInv, BBGetInv, BBTakeBufferInv DEF BBNext

\* For numbers of any width and a memory of any size: put makes enough room,
\* and the next number is read back as it was put, through every growth, reserve,
\* clear, rewind, release and takeBuffer.
THEOREM NumbersReadBackThm == BBSpec => []NumbersReadBack
<1>1. BBInv => NumbersReadBack
  <2> SUFFICES ASSUME BBInv PROVE NumbersReadBack
    OBVIOUS
  <2> DEFINE n == Len(items)
  <2>1. /\ BBTypeOK /\ items \in Seq(Item) /\ n \in Nat /\ DOMAIN items = 1..n
        /\ bb.mem \in Seq(Int) /\ Len(bb.mem) = bb.mCapacity
        /\ bb.mSize \in Nat /\ bb.mReadPos \in Nat /\ bb.mCapacity \in Nat
        /\ bb.mSize <= bb.mCapacity /\ itemsRead \in 0..n
    BY DEF BBInv, BBTypeOK
  <2>2. PICK e \in [0..n -> Nat] : Tiles(e) /\ Holds(e)
    BY DEF BBInv
  <2>3. bb.mReadPos <= bb.mSize
    BY <2>1, <2>2 DEF Tiles
  <2>4. bb.mSize = Len(FlattenSeq([i \in DOMAIN items |-> items[i].digits]))
    <3> DEFINE q == [i \in DOMAIN items |-> items[i].digits]
    <3>1. q \in [1..n -> Seq(0..255)] /\ \A i \in 1..n : q[i] = items[i].digits
      BY <2>1, ItemFacts
    <3> HIDE DEF q, n
    <3>2. e[0] = 0 /\ e[n] = bb.mSize /\ \A i \in 1..n : e[i] = e[i - 1] + Len(q[i])
      BY <2>2, <3>1 DEF Tiles, n
    <3>3. Len(FlattenSeq(q)) = e[n]
      <4>1. n \in Nat /\ q \in [1..n -> Seq(0..255)]
        BY <2>1, <3>1
      <4> QED
        BY <3>2, <4>1, FlattenLength, ZenonT(30)
    <3> QED
      BY <3>2, <3>3 DEF q
  <2>5. ASSUME itemsRead < n
        PROVE  LET next == items[itemsRead + 1] IN
               /\ Remain >= NextWidth
               /\ bb.mOrder = next.order =>
                      /\ Decoded(NextBytesRead, bb.mOrder) = next.digits
                      /\ (\A i \in 2..NextWidth : next.digits[i] < 128) =>
                             DecodedNum(NextBytesRead, bb.mOrder) = next.digits
    <3> DEFINE k == itemsRead + 1
               d == items[k].digits
               w == Len(d)
               p == bb.mReadPos
    <3>1. k \in 1..n /\ k - 1 = itemsRead /\ k \in 0..n /\ itemsRead \in 0..n
      BY <2>1, <2>5
    <3>2. d \in Seq(0..255) /\ items[k].order \in {0, 1} /\ w \in Nat
      BY <2>1, <3>1, ItemFacts
    <3>3. e[itemsRead] = p /\ p + w <= bb.mSize
      BY <2>2, <3>1 DEF Tiles
    <3>4. NextWidth = w /\ Remain >= w
      BY <2>1, <3>2, <3>3 DEF NextWidth, Remain
    <3>5. NextBytesRead = Encoded(d, items[k].order)
      <4> DEFINE read == SubSeq(bb.mem, p + 1, p + w)
                 enc == Encoded(d, items[k].order)
      <4>1. p \in Nat /\ p + w <= Len(bb.mem)
        <5>1. /\ p \in Nat /\ w \in Nat /\ bb.mSize \in Nat /\ p + w <= bb.mSize
              /\ bb.mCapacity \in Nat /\ bb.mSize <= bb.mCapacity
              /\ Len(bb.mem) = bb.mCapacity
          BY <2>1, <3>2, <3>3
        <5> HIDE DEF p, w
        <5> QED
          BY <5>1
      <4>2. /\ read \in Seq(Int) /\ Len(read) = w
            /\ \A j \in 1..w : read[j] = bb.mem[p + j]
        BY <2>1, <3>2, <4>1, ReadAt, ZenonT(30)
      <4>3. enc \in Seq(0..255) /\ Len(enc) = w
        BY <3>2, EncodedFacts, ZenonT(30)
      <4>4. \A j \in 1..w : bb.mem[p + j] = enc[j]
        BY <2>2, <3>1, <3>3 DEF Holds
      <4>5. enc \in Seq(Int)
        BY <4>3, ByteFacts
      <4>6. read = enc
        <5>1. \A j \in 1..Len(read) : read[j] = enc[j]
          BY <4>2, <4>4
        <5> HIDE DEF read, enc, w
        <5> QED
          BY <4>2, <4>3, <4>5, <5>1, SeqEqual
      <4> QED
        BY <3>4, <4>6 DEF NextBytesRead
    <3> HIDE DEF d, k, w
    <3>6. Decoded(Encoded(d, items[k].order), items[k].order) = d
      BY <3>2, EncodedFacts
    <3>7. (\A i \in 2..w : d[i] < 128) => DecodedNum(Encoded(d, items[k].order), items[k].order) = d
      BY <3>2, DecodedNumFacts DEF w
    <3> QED
      BY <3>4, <3>5, <3>6, <3>7 DEF d, k
  <2> QED
    BY <2>1, <2>3, <2>4, <2>5 DEF NumbersReadBack
<1> QED
  BY <1>1, BBInitInv, BBStep, PTL DEF BBSpec

=============================================================================
