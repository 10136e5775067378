--------------------------- MODULE EdSocket_proofs ---------------------------
(***************************************************************************)
(* Proofs about the sockets of a task: that mStatus, the descriptor and    *)
(* the registration agree, and that OnDisconnected is called of a          *)
(* connection that has ended, and once.                                    *)
(***************************************************************************)
EXTENDS EdSocket, TLAPS

-----------------------------------------------------------------------------
(***************************************************************************)
(* The inductive invariant.                                                *)
(***************************************************************************)

\* Of a client: what StatusAgrees says of it.
StatusOK(r) ==
    /\ r.mStatus = "DISCONNECTED" => r.kst \in {"none", "fresh"} /\ r.mask = {}
    /\ r.mStatus = "CONNECTING"   => r.kst # "none" /\ r.mask = {"WRITE", "HANGUP"}
    /\ r.mStatus = "CONNECTED"    => r.kst \in Over \cup {"up"} /\ r.mask = {"READ", "HANGUP"}

\* Only an open socket is registered.
MaskOK(r) == r.mask # {} => r.kst # "none"

\* What an entry of the batch with flags f says of socket s is still so: a hangup
\* is one of a connection that ended or of a connect that failed at once, and a
\* client that is reported writable has a connection or will be closed first.
Fits(s, f, r) ==
    /\ r.kst # "none"
    /\ s \in Clients /\ "HANGUP" \in f =>
           r.kst \in Over \/ (r.kst = "fresh" /\ r.mStatus = "CONNECTING")
    /\ s \in Clients /\ "WRITE" \in f => "HANGUP" \in f \/ r.kst \in Over \cup {"up"}

SockInv == \A s \in Socks : (s \in Clients => StatusOK(sock[s])) /\ MaskOK(sock[s])

EntryOK(e) == e.s \in Socks /\ e.flags # {} => Fits(e.s, e.flags, sock[e.s])
BatchInv == \A i \in 1..Len(batch) : EntryOK(batch[i])

\* lastSockErrorNo is set only while OnEventRead is at work on a connection that
\* has ended and is still open.
ErrorInv ==
    lastSockErrorNo # "0" =>
        /\ cb.h \in {"read", "readDisc"} /\ cb.s \in Socks /\ sock[cb.s].kst \in Over
        /\ cb.h = "readDisc" => cb.s \in told

\* A socket whose program was told is closed, or about to be.
ToldInv ==
    \A s \in told :
        Open(s) => cb.h = "readDisc" /\ cb.s = s /\ lastSockErrorNo # "0"

\* The parts that hold whatever handlers do, and those that need handlers to keep
\* to their own socket.
CbInv == cb.h \in {"read", "readDisc"} => cb.s \in Socks
Inv == TypeOK /\ SockInv /\ BatchInv /\ CbInv
OwnInv == ErrorInv /\ ToldInv

-----------------------------------------------------------------------------
(***************************************************************************)
(* A step that changes the record of one socket and leaves the batch.      *)
(***************************************************************************)

\* Record r may take the place of the one of s: it agrees with itself, and with
\* whatever the batch still says of s.
MayBecome(s, r) ==
    /\ r \in SockRec /\ (s \in Clients => StatusOK(r)) /\ MaskOK(r)
    /\ \A f \in SUBSET FlagSet : f # {} /\ Fits(s, f, sock[s]) => Fits(s, f, r)

Entry == [s : Socks \cup {NoSock}, flags : SUBSET FlagSet]

(* The type of an entry of the batch. *)
LEMMA EntryType ==
    ASSUME Inv, NEW i \in 1..Len(batch)
    PROVE  batch[i] \in Entry /\ batch[i].s \in Socks \cup {NoSock} /\ batch[i].flags \in SUBSET FlagSet
<1>1. batch \in Seq(Entry)
  BY DEF Inv, TypeOK, Entry
<1>2. batch[i] \in Entry
  BY <1>1
<1> QED
  BY <1>2 DEF Entry

(* Replacing the record of one socket. *)
LEMMA OneSock ==
    ASSUME NEW sk \in [Socks -> SockRec], NEW s \in Socks, NEW r \in SockRec
    PROVE  LET new == [sk EXCEPT ![s] = r]
           IN  /\ new \in [Socks -> SockRec] /\ new[s] = r
               /\ \A x \in Socks : x # s => new[x] = sk[x]
OBVIOUS

\* What fitted a socket still does.
StillFits ==
    \A x \in Socks : \A f \in SUBSET FlagSet :
        f # {} /\ Fits(x, f, sock[x]) => Fits(x, f, sock'[x])

(* Sockets that change as MayBecome allows keep SockInv, and the batch still fits. *)
LEMMA SocksChange ==
    ASSUME Inv, sock' \in [Socks -> SockRec],
           \A x \in Socks : sock'[x] = sock[x] \/ MayBecome(x, sock'[x])
    PROVE  SockInv' /\ StillFits
<1>1. ASSUME NEW x \in Socks PROVE (x \in Clients => StatusOK(sock'[x])) /\ MaskOK(sock'[x])
  <2>1. CASE MayBecome(x, sock'[x])
    BY <2>1 DEF MayBecome
  <2>2. CASE sock'[x] = sock[x]
    BY <2>2 DEF Inv, SockInv
  <2> QED
    BY <2>1, <2>2
<1>2. SockInv'
  BY <1>1 DEF SockInv
<1>3. StillFits
  BY DEF StillFits, MayBecome
<1> QED
  BY <1>2, <1>3

(* The same when one socket changes. *)
LEMMA SockChanges ==
    ASSUME Inv, NEW s \in Socks, NEW r, MayBecome(s, r), sock' = [sock EXCEPT ![s] = r]
    PROVE  /\ sock' \in [Socks -> SockRec] /\ SockInv' /\ StillFits
           /\ sock'[s] = r /\ \A x \in Socks : x # s => sock'[x] = sock[x]
<1>1. r \in SockRec /\ sock \in [Socks -> SockRec]
  BY DEF MayBecome, Inv, TypeOK
<1>2. sock' \in [Socks -> SockRec] /\ sock'[s] = r /\ \A x \in Socks : x # s => sock'[x] = sock[x]
  BY <1>1, OneSock
<1>3. \A x \in Socks : sock'[x] = sock[x] \/ MayBecome(x, sock'[x])
  BY <1>2
<1> QED
  BY <1>2, <1>3, SocksChange

(* The same when none does. *)
LEMMA SocksSame ==
    ASSUME Inv, sock' = sock
    PROVE  sock' \in [Socks -> SockRec] /\ SockInv' /\ StillFits
BY DEF Inv, TypeOK, SockInv, StillFits

(* A batch that is left alone still fits the sockets. *)
LEMMA BatchSame ==
    ASSUME Inv, batch' = batch, StillFits
    PROVE  BatchInv'
<1>1. ASSUME NEW i \in 1..Len(batch), batch[i].s \in Socks, batch[i].flags # {}
      PROVE  Fits(batch[i].s, batch[i].flags, sock'[batch[i].s])
  <2>1. Fits(batch[i].s, batch[i].flags, sock[batch[i].s])
    BY <1>1 DEF Inv, BatchInv, EntryOK
  <2>2. batch[i].flags \in SUBSET FlagSet
    BY <1>1, EntryType
  <2> QED
    BY <1>1, <2>1, <2>2 DEF StillFits
<1> QED
  BY <1>1 DEF BatchInv, EntryOK

(* The types of the fields of a socket. *)
LEMMA RecType ==
    ASSUME Inv, NEW s \in Socks
    PROVE  /\ sock[s] \in SockRec
           /\ sock[s].kst \in Descriptor /\ sock[s].inq \in 0..MaxIn
           /\ sock[s].mStatus \in {"DISCONNECTED", "CONNECTING", "CONNECTED"}
           /\ sock[s].mIsListen \in BOOLEAN /\ sock[s].mIsBinded \in BOOLEAN
           /\ sock[s].mask \in SUBSET FlagSet
           /\ s \in Clients => StatusOK(sock[s])
           /\ MaskOK(sock[s])
<1>1. sock[s] \in SockRec
  BY DEF Inv, TypeOK
<1>2. (s \in Clients => StatusOK(sock[s])) /\ MaskOK(sock[s])
  BY DEF Inv, SockInv
<1> DEFINE r == sock[s]
<1> HIDE DEF r
<1>3. ASSUME r \in SockRec
      PROVE  /\ r.kst \in Descriptor /\ r.inq \in 0..MaxIn
             /\ r.mStatus \in {"DISCONNECTED", "CONNECTING", "CONNECTED"}
             /\ r.mIsListen \in BOOLEAN /\ r.mIsBinded \in BOOLEAN
             /\ r.mask \in SUBSET FlagSet
  BY <1>3 DEF SockRec
<1> QED
  BY <1>1, <1>2, <1>3 DEF r

\* The descriptor changes; nothing else does.
LEMMA NewDescriptor ==
    ASSUME Inv, NEW s \in Socks, NEW k \in Descriptor \ {"none"},
           \/ sock[s].kst \in {"connecting", "up", "fin", "err", "dead"}
              /\ k \in Over \cup {"up"} /\ (k = "up" => sock[s].kst \notin Over)
           \/ sock[s].kst = "none" /\ k = "fresh"
           \/ k = sock[s].kst
    PROVE  MayBecome(s, [sock[s] EXCEPT !.kst = k])
<1> DEFINE a == sock[s]
<1> DEFINE r == [a EXCEPT !.kst = k]
<1>1. /\ a \in SockRec /\ a.kst \in Descriptor /\ a.mask \in SUBSET FlagSet
      /\ a.mStatus \in {"DISCONNECTED", "CONNECTING", "CONNECTED"}
      /\ (s \in Clients => StatusOK(a)) /\ MaskOK(a)
  BY RecType
<1>2. \/ a.kst \in {"connecting", "up", "fin", "err", "dead"}
         /\ k \in Over \cup {"up"} /\ (k = "up" => a.kst \notin Over)
      \/ a.kst = "none" /\ k = "fresh"
      \/ k = a.kst
  OBVIOUS
<1> HIDE DEF a
<1>3. r \in SockRec /\ r.kst = k /\ r.mStatus = a.mStatus /\ r.mask = a.mask
  BY <1>1 DEF SockRec
<1> HIDE DEF r
<1>4. s \in Clients => StatusOK(r)
  BY <1>1, <1>2, <1>3 DEF StatusOK, Over
<1>5. MaskOK(r)
  BY <1>3 DEF MaskOK
<1>6. ASSUME NEW f \in SUBSET FlagSet, f # {}, Fits(s, f, a) PROVE Fits(s, f, r)
  BY <1>2, <1>3, <1>6 DEF Fits, Over
<1>7. MayBecome(s, r)
  BY <1>3, <1>4, <1>5, <1>6 DEF MayBecome, a
<1> QED
  BY <1>7 DEF r, a

\* Only what is unread changes.
LEMMA NewInq ==
    ASSUME Inv, NEW s \in Socks, NEW n \in 0..MaxIn
    PROVE  MayBecome(s, [sock[s] EXCEPT !.inq = n])
<1> DEFINE a == sock[s]
<1> DEFINE r == [a EXCEPT !.inq = n]
<1>1. a \in SockRec /\ (s \in Clients => StatusOK(a)) /\ MaskOK(a)
  BY RecType
<1> HIDE DEF a
<1>2. r \in SockRec /\ r.kst = a.kst /\ r.mStatus = a.mStatus /\ r.mask = a.mask
  BY <1>1 DEF SockRec
<1> HIDE DEF r
<1>3. (s \in Clients => StatusOK(r)) /\ MaskOK(r)
  BY <1>1, <1>2 DEF StatusOK, MaskOK
<1>4. ASSUME NEW f \in SUBSET FlagSet, f # {}, Fits(s, f, a) PROVE Fits(s, f, r)
  BY <1>2, <1>4 DEF Fits
<1>5. MayBecome(s, r)
  BY <1>2, <1>3, <1>4 DEF MayBecome, a
<1> QED
  BY <1>5 DEF r, a

\* A client that is not connected gets a connection, or starts to make one.  The
\* batch says nothing of it: it was not registered.
LEMMA NewConnection ==
    ASSUME Inv, NEW s \in Clients, sock[s].mStatus = "DISCONNECTED", NEW r \in SockRec,
           StatusOK(r), r.kst # "none"
    PROVE  MayBecome(s, r)
<1> DEFINE a == sock[s]
<1>0. s \in Socks
  BY DEF Socks
<1>1. a.kst \in {"none", "fresh"} /\ a.mStatus = "DISCONNECTED"
  BY <1>0, RecType DEF StatusOK
<1> HIDE DEF a
<1>2. MaskOK(r)
  BY DEF MaskOK
<1>3. ASSUME NEW f \in SUBSET FlagSet, f # {}, Fits(s, f, a) PROVE Fits(s, f, r)
  <2>1. "HANGUP" \notin f /\ "WRITE" \notin f
    BY <1>1, <1>3 DEF Fits, Over
  <2> QED
    BY <2>1 DEF Fits
<1> QED
  BY <1>2, <1>3 DEF MayBecome, a

\* A listener's record may be any that is open.
LEMMA NewListener ==
    ASSUME Inv, NEW s \in Listeners, NEW r \in SockRec, r.kst # "none"
    PROVE  MayBecome(s, r)
<1>1. s \notin Clients
  BY RolesAssumption
<1>2. MaskOK(r)
  BY DEF MaskOK
<1>3. \A f \in SUBSET FlagSet : Fits(s, f, r)
  BY <1>1 DEF Fits
<1> QED
  BY <1>1, <1>2, <1>3 DEF MayBecome

-----------------------------------------------------------------------------
(***************************************************************************)
(* Steps that change the batch.                                            *)
(***************************************************************************)

(* close: the socket is gone, with its entries in the batch. *)
LEMMA CloseFacts ==
    ASSUME Inv, NEW s \in Socks, Close(s)
    PROVE  /\ sock' \in [Socks -> SockRec] /\ SockInv' /\ BatchInv'
           /\ batch' \in Seq(Entry) /\ Len(batch') = Len(batch)
           /\ sock'[s].kst = "none" /\ \A x \in Socks : x # s => sock'[x] = sock[x]
           /\ lastSockErrorNo' = "0"
<1> DEFINE a == sock[s]
<1> DEFINE r == Closed(a)
<1>1. a \in SockRec
  BY RecType
<1>2. sock' = [sock EXCEPT ![s] = r] /\ sock \in [Socks -> SockRec] /\ lastSockErrorNo' = "0"
  BY DEF Close, Inv, TypeOK
<1> HIDE DEF a
<1>3. r \in SockRec /\ r.kst = "none" /\ r.mStatus = "DISCONNECTED" /\ r.mask = {}
  <2>1. 0 \in 0..MaxIn /\ {} \in SUBSET FlagSet /\ "none" \in Descriptor
    BY MaxInAssumption DEF Descriptor
  <2> QED
    BY <1>1, <2>1 DEF Closed, SockRec
<1> HIDE DEF r
<1>4. sock' \in [Socks -> SockRec] /\ sock'[s] = r /\ \A x \in Socks : x # s => sock'[x] = sock[x]
  BY <1>2, <1>3, OneSock
<1>5. SockInv'
  <2>1. StatusOK(r) /\ MaskOK(r)
    BY <1>3 DEF StatusOK, MaskOK
  <2>2. ASSUME NEW x \in Socks PROVE (x \in Clients => StatusOK(sock'[x])) /\ MaskOK(sock'[x])
    <3>1. CASE x = s
      BY <1>4, <2>1, <3>1
    <3>2. CASE x # s
      BY <1>4, <3>2 DEF Inv, SockInv
    <3> QED
      BY <3>1, <3>2
  <2> QED
    BY <2>2 DEF SockInv
<1>6. batch \in Seq(Entry) /\ Len(batch) \in Nat /\ DOMAIN batch = 1..Len(batch)
  BY DEF Inv, TypeOK, Entry
<1> DEFINE b == [i \in 1..Len(batch) |->
                    IF batch[i].s = s THEN [batch[i] EXCEPT !.flags = {}] ELSE batch[i]]
<1>7. batch' = b
  BY <1>6 DEF Close
<1>8. ASSUME NEW i \in 1..Len(batch)
      PROVE  b[i] \in Entry /\ b[i].s = batch[i].s
             /\ (batch[i].s = s => b[i].flags = {}) /\ (batch[i].s # s => b[i] = batch[i])
  <2>1. batch[i] \in Entry
    BY EntryType
  <2>2. CASE batch[i].s = s
    <3>1. b[i] = [batch[i] EXCEPT !.flags = {}]
      BY <2>2
    <3> QED
      BY <2>1, <2>2, <3>1 DEF Entry
  <2>3. CASE batch[i].s # s
    BY <2>1, <2>3
  <2> QED
    BY <2>2, <2>3
<1>9. b \in Seq(Entry) /\ Len(b) = Len(batch)
  <2>1. b \in [1..Len(batch) -> Entry]
    BY <1>8
  <2> HIDE DEF b
  <2> QED
    BY <1>6, <2>1
<1> HIDE DEF b
<1>10. BatchInv'
  <2>1. ASSUME NEW i \in 1..Len(batch), b[i].s \in Socks, b[i].flags # {}
        PROVE  Fits(b[i].s, b[i].flags, sock'[b[i].s])
    <3>1. b[i] = batch[i] /\ batch[i].s # s
      BY <1>8, <2>1
    <3>2. Fits(batch[i].s, batch[i].flags, sock[batch[i].s])
      BY <2>1, <3>1 DEF Inv, BatchInv, EntryOK
    <3> QED
      BY <1>4, <2>1, <3>1, <3>2
  <2> QED
    BY <1>7, <1>9, <2>1 DEF BatchInv, EntryOK
<1> QED
  BY <1>2, <1>3, <1>4, <1>5, <1>7, <1>9, <1>10

\* A flag of the first entry is dealt with.
LEMMA ConsumeFacts ==
    ASSUME Inv, batch # <<>>, NEW flag \in {"READ", "WRITE"}, Consume(flag), StillFits
    PROVE  batch' \in Seq(Entry) /\ Len(batch') = Len(batch) /\ BatchInv'
<1>1. batch \in Seq(Entry) /\ Len(batch) \in Nat /\ 1 \in 1..Len(batch)
  BY DEF Inv, TypeOK, Entry
<1> DEFINE e == batch[1]
<1> DEFINE d == [e EXCEPT !.flags = @ \ {flag}]
<1>2. e \in Entry
  BY <1>1
<1>3. batch' = [batch EXCEPT ![1] = d]
  BY DEF Consume
<1> HIDE DEF e
<1>4. d \in Entry /\ d.s = e.s /\ d.flags = e.flags \ {flag}
  BY <1>2 DEF Entry
<1> HIDE DEF d
<1>5. /\ batch' \in Seq(Entry) /\ Len(batch') = Len(batch) /\ batch'[1] = d
      /\ \A i \in 1..Len(batch) : i # 1 => batch'[i] = batch[i]
  BY <1>1, <1>3, <1>4
<1>6. ASSUME NEW i \in 1..Len(batch), batch'[i].s \in Socks, batch'[i].flags # {}
      PROVE  Fits(batch'[i].s, batch'[i].flags, sock'[batch'[i].s])
  <2>1. CASE i = 1
    <3>1. e.s \in Socks /\ e.flags # {} /\ d.flags = e.flags \ {flag} /\ batch'[i] = d /\ d.s = e.s
      BY <1>4, <1>5, <1>6, <2>1
    <3>2. Fits(e.s, e.flags, sock[e.s])
      BY <1>1, <3>1 DEF Inv, BatchInv, EntryOK, e
    <3>3. e.flags \ {flag} # {} /\ e.flags \ {flag} \in SUBSET FlagSet
      BY <1>2, <1>6, <3>1 DEF Entry
    <3>4. Fits(e.s, e.flags \ {flag}, sock[e.s])
      BY <3>2 DEF Fits
    <3>5. Fits(e.s, e.flags \ {flag}, sock'[e.s])
      BY <3>1, <3>3, <3>4 DEF StillFits
    <3> QED
      BY <3>1, <3>5
  <2>2. CASE i # 1
    <3>1. batch'[i] = batch[i] /\ batch[i].flags \in SUBSET FlagSet
      BY <1>5, <2>2, EntryType
    <3>2. Fits(batch[i].s, batch[i].flags, sock[batch[i].s])
      BY <1>6, <3>1 DEF Inv, BatchInv, EntryOK
    <3> QED
      BY <1>6, <3>1, <3>2 DEF StillFits
  <2> QED
    BY <2>1, <2>2
<1> QED
  BY <1>5, <1>6 DEF BatchInv, EntryOK

\* What epoll_wait returns fits.
LEMMA ReportedFits ==
    ASSUME Inv, NEW s \in Socks \cup {NoSock}, Reported(s) # {}
    PROVE  /\ Reported(s) \in SUBSET FlagSet
           /\ s \in Socks => Fits(s, Reported(s), sock[s])
<1>1. CASE s = NoSock
  BY <1>1, NoSockAssumption DEF Reported, FlagSet
<1>2. CASE s # NoSock
  <2> DEFINE r == sock[s]
  <2> DEFINE f == Reported(s)
  <2>0. s \in Socks
    BY <1>2
  <2>1. /\ r.kst \in Descriptor /\ r.mask \in SUBSET FlagSet
        /\ r.mStatus \in {"DISCONNECTED", "CONNECTING", "CONNECTED"}
        /\ (s \in Clients => StatusOK(r)) /\ MaskOK(r)
    BY <2>0, RecType
  <2>2. f = {x \in r.mask :
                \/ x = "READ"   /\ (r.inq > 0 \/ r.kst \in Over)
                \/ x = "WRITE"  /\ r.kst \in Over \cup {"fresh", "up"}
                \/ x = "HANGUP" /\ r.kst \in Over}
             \cup (IF r.mask # {} /\ r.kst \in {"fresh", "err", "dead"} THEN {"HANGUP"} ELSE {})
    BY <1>2 DEF Reported
  <2>3. f # {}
    OBVIOUS
  <2> HIDE DEF r, f
  <2>4. f \in SUBSET FlagSet
    BY <2>1, <2>2 DEF FlagSet
  <2>5. r.mask # {}
    BY <2>2, <2>3
  <2>6. r.kst # "none"
    BY <2>1, <2>5 DEF MaskOK
  <2>7. "HANGUP" \in f => r.kst \in Over \cup {"fresh"}
    BY <2>2 DEF Over
  <2>8. s \in Clients /\ r.kst = "fresh" => r.mStatus = "CONNECTING"
    BY <2>1, <2>5 DEF StatusOK, Over
  <2>9. "WRITE" \in f => "HANGUP" \in f \/ r.kst \in Over \cup {"up"}
    BY <2>2, <2>5
  <2>10. Fits(s, f, r)
    BY <2>6, <2>7, <2>8, <2>9 DEF Fits
  <2> QED
    BY <2>4, <2>10 DEF r, f
<1> QED
  BY <1>1, <1>2

(* epoll_wait reports only registered sockets, with events asked for. *)
LEMMA EpollWaitFacts ==
    ASSUME Inv, EpollWait
    PROVE  batch' \in Seq(Entry) /\ Len(batch') <= MAX_GET_EVENTS /\ BatchInv'
<1>1. PICK n \in BatchSizes : \E o \in [1..n -> Ready] :
          batch' = [i \in 1..n |-> [s |-> o[i], flags |-> Reported(o[i])]]
  BY DEF EpollWait
<1>2. PICK o \in [1..n -> Ready] : batch' = [i \in 1..n |-> [s |-> o[i], flags |-> Reported(o[i])]]
  BY <1>1
<1>3. n \in Nat /\ n <= MAX_GET_EVENTS
  BY BatchAssumption DEF BatchSizes
<1>4. ASSUME NEW i \in 1..n
      PROVE  /\ o[i] \in Socks \cup {NoSock} /\ Reported(o[i]) \in SUBSET FlagSet
             /\ o[i] \in Socks => Fits(o[i], Reported(o[i]), sock[o[i]])
             /\ batch'[i] \in Entry /\ batch'[i].s = o[i] /\ batch'[i].flags = Reported(o[i])
  <2>1. o[i] \in Ready
    OBVIOUS
  <2>2. o[i] \in Socks \cup {NoSock} /\ Reported(o[i]) # {}
    BY <2>1 DEF Ready
  <2>3. Reported(o[i]) \in SUBSET FlagSet /\ (o[i] \in Socks => Fits(o[i], Reported(o[i]), sock[o[i]]))
    BY <2>2, ReportedFits
  <2>4. batch'[i] = [s |-> o[i], flags |-> Reported(o[i])]
    BY <1>2
  <2> QED
    BY <2>2, <2>3, <2>4 DEF Entry
<1>5. batch' \in [1..n -> Entry]
  BY <1>2, <1>4
<1>6. batch' \in Seq(Entry) /\ Len(batch') = n
  BY <1>3, <1>5
<1>7. sock' = sock
  BY DEF EpollWait
<1>8. BatchInv'
  BY <1>4, <1>6, <1>7 DEF BatchInv, EntryOK
<1> QED
  BY <1>3, <1>6, <1>8

(* Going on to the next entry keeps the rest of the batch. *)
LEMMA NextEntryFacts ==
    ASSUME Inv, NextEntry
    PROVE  batch' \in Seq(Entry) /\ Len(batch') <= MAX_GET_EVENTS /\ BatchInv'
<1>1. batch \in Seq(Entry) /\ batch # <<>> /\ batch' = Tail(batch) /\ sock' = sock
      /\ Len(batch) <= MAX_GET_EVENTS
  BY DEF Inv, TypeOK, Entry, NextEntry
<1>2. /\ Len(batch) \in Nat /\ Len(batch) > 0 /\ Tail(batch) \in Seq(Entry)
      /\ Len(Tail(batch)) = Len(batch) - 1
      /\ \A i \in 1..Len(batch) - 1 : Tail(batch)[i] = batch[i + 1]
  BY <1>1
<1>3. ASSUME NEW i \in 1..Len(batch) - 1, batch'[i].s \in Socks, batch'[i].flags # {}
      PROVE  Fits(batch'[i].s, batch'[i].flags, sock[batch'[i].s])
  <2>1. batch'[i] = batch[i + 1] /\ i + 1 \in 1..Len(batch)
    BY <1>1, <1>2
  <2> QED
    BY <1>3, <2>1 DEF Inv, BatchInv, EntryOK
<1>4. BatchInv'
  BY <1>1, <1>2, <1>3 DEF BatchInv, EntryOK
<1> QED
  BY <1>1, <1>2, <1>4, BatchAssumption

\* The event that is dealt with is one of the first entry.
LEMMA DueFacts ==
    ASSUME Inv, NEW s \in Socks, NEW flag \in FlagSet, Due(s, flag)
    PROVE  /\ batch # <<>> /\ cb = Idle /\ sock[s].kst # "none"
           /\ s \in Clients /\ flag = "HANGUP" =>
                  sock[s].kst \in Over \/ (sock[s].kst = "fresh" /\ sock[s].mStatus = "CONNECTING")
           /\ s \in Clients /\ flag = "WRITE" => sock[s].kst \in Over \cup {"up"}
<1>1. batch # <<>> /\ cb = Idle /\ Head(batch).s = s /\ flag \in Head(batch).flags
      /\ (flag = "WRITE" => "HANGUP" \notin Head(batch).flags)
  BY DEF Due
<1>2. batch \in Seq(Entry) /\ 1 \in 1..Len(batch) /\ Head(batch) = batch[1]
  BY <1>1 DEF Inv, TypeOK, Entry
<1>3. Fits(s, batch[1].flags, sock[s])
  BY <1>1, <1>2 DEF Inv, BatchInv, EntryOK
<1> QED
  BY <1>1, <1>2, <1>3 DEF Fits

-----------------------------------------------------------------------------
(***************************************************************************)
(* The steps.                                                              *)
(***************************************************************************)

CbType == [h : Handlers, s : Socks \cup {NoSock}]

\* A call that changes one record, and perhaps what was told.
LEMMA CallKeeps ==
    ASSUME Inv, NEW s \in Socks, NEW r, MayBecome(s, r), sock' = [sock EXCEPT ![s] = r],
           batch' = batch, cb' = cb, told' \subseteq told,
           lastSockErrorNo' \in {"0", "EBADFD"}
    PROVE  Inv'
<1>1. sock' \in [Socks -> SockRec] /\ SockInv' /\ StillFits
  BY SockChanges
<1>2. BatchInv'
  BY <1>1, BatchSame
<1>3. TypeOK'
  BY <1>1 DEF Inv, TypeOK
<1>4. CbInv'
  BY DEF Inv, CbInv
<1> QED
  BY <1>1, <1>2, <1>3, <1>4 DEF Inv

(* What a peer does keeps the invariant. *)
LEMMA PeerKeeps ==
    ASSUME Inv, NEW s \in Socks, PeerStep(s)
    PROVE  Inv'
<1> USE DEF Descriptor, Over
<1>1. ASSUME NEW from, NEW to \in Over \cup {"up"}, Peer(s, from, to),
             from \subseteq {"connecting", "up", "fin"}, to = "up" => from = {"connecting"}
      PROVE  Inv'
  <2>1. sock[s].kst \in from
    BY <1>1 DEF Peer
  <2>2. MayBecome(s, [sock[s] EXCEPT !.kst = to])
    BY <1>1, <2>1, NewDescriptor
  <2>3. sock' = [sock EXCEPT ![s] = [sock[s] EXCEPT !.kst = to]]
        /\ UNCHANGED <<lastSockErrorNo, batch, cb, told>>
    BY <1>1 DEF Peer
  <2>4. lastSockErrorNo' \in {"0", "EBADFD"}
    BY <2>3 DEF Inv, TypeOK
  <2> QED
    BY <2>2, <2>3, <2>4, CallKeeps
<1>2. CASE Established(s)
  BY <1>1, <1>2 DEF Established
<1>3. CASE Refused(s)
  BY <1>1, <1>3 DEF Refused
<1>4. CASE PeerCloses(s)
  BY <1>1, <1>4 DEF PeerCloses
<1>5. CASE PeerResets(s)
  BY <1>1, <1>5 DEF PeerResets
<1>6. CASE Arrives(s)
  <2>1. sock[s].inq \in 0..MaxIn /\ sock[s].inq < MaxIn
    BY <1>6, RecType DEF Arrives
  <2>2. sock[s].inq + 1 \in 0..MaxIn
    BY <2>1, MaxInAssumption
  <2>3. MayBecome(s, [sock[s] EXCEPT !.inq = sock[s].inq + 1])
    BY <2>2, NewInq
  <2>4. sock' = [sock EXCEPT ![s] = [sock[s] EXCEPT !.inq = sock[s].inq + 1]]
        /\ UNCHANGED <<lastSockErrorNo, batch, cb, told>>
    BY <1>6 DEF Arrives
  <2>5. lastSockErrorNo' \in {"0", "EBADFD"}
    BY <2>4 DEF Inv, TypeOK
  <2> QED
    BY <2>3, <2>4, <2>5, CallKeeps
<1> QED
  BY <1>2, <1>3, <1>4, <1>5, <1>6 DEF PeerStep

\* The record of a client that connects, or is opened by accept.
LEMMA ConnectingRec ==
    ASSUME NEW a \in SockRec, a.mask = {}, NEW k \in Descriptor \ {"none"}
    PROVE  LET r == Connecting(a, k)
           IN  r \in SockRec /\ StatusOK(r) /\ r.kst # "none"
<1> DEFINE r == Connecting(a, k)
<1>1. r \in SockRec /\ r.kst = k /\ r.mStatus = "CONNECTING" /\ r.mask = {"WRITE", "HANGUP"}
  BY DEF Connecting, RegisterEvent, SockRec, FlagSet
<1> HIDE DEF r
<1>2. StatusOK(r)
  BY <1>1 DEF StatusOK
<1> QED
  BY <1>1, <1>2 DEF r

ConnectedRec(a) == [RegisterEvent(a, {"READ", "HANGUP"}) EXCEPT !.kst = "up", !.mStatus = "CONNECTED"]

(* The record of a socket just connected agrees with its descriptor. *)
LEMMA ConnectedRecFacts ==
    ASSUME NEW a \in SockRec, a.mask = {}
    PROVE  LET r == ConnectedRec(a)
           IN  r \in SockRec /\ StatusOK(r) /\ r.kst # "none"
<1> DEFINE r == ConnectedRec(a)
<1>1. r \in SockRec /\ r.kst = "up" /\ r.mStatus = "CONNECTED" /\ r.mask = {"READ", "HANGUP"}
  BY DEF ConnectedRec, RegisterEvent, SockRec, FlagSet, Descriptor
<1> HIDE DEF r
<1>2. StatusOK(r)
  BY <1>1 DEF StatusOK
<1> QED
  BY <1>1, <1>2 DEF r

(* The records of a socket that is bound, listens or was just opened. *)
LEMMA BoundRec ==
    ASSUME NEW a \in SockRec
    PROVE  /\ Bound(a) \in SockRec /\ Bound(a).kst = "fresh"
           /\ [Bound(a) EXCEPT !.kst = "listen"] \in SockRec
           /\ [Bound(a) EXCEPT !.kst = "listen"].kst = "listen"
           /\ [a EXCEPT !.kst = "fresh"] \in SockRec
           /\ [a EXCEPT !.kst = "fresh"].kst = "fresh"
           /\ [a EXCEPT !.mIsListen = TRUE] \in SockRec
<1>1. Bound(a) \in SockRec /\ Bound(a).kst = "fresh"
  BY DEF Bound, RegisterEvent, SockRec, FlagSet, Descriptor
<1>2. /\ [a EXCEPT !.kst = "fresh"] \in SockRec /\ [a EXCEPT !.kst = "fresh"].kst = "fresh"
      /\ [a EXCEPT !.mIsListen = TRUE] \in SockRec
  BY DEF SockRec, Descriptor
<1>3. /\ [Bound(a) EXCEPT !.kst = "listen"] \in SockRec
      /\ [Bound(a) EXCEPT !.kst = "listen"].kst = "listen"
  BY <1>1 DEF SockRec, Descriptor
<1> QED
  BY <1>1, <1>2, <1>3

(* accept keeps the invariant; the child is connected and no other socket changes state. *)
LEMMA AcceptKeeps ==
    ASSUME Inv, NEW s \in Socks, NEW c \in Clients, AcceptSock(s, c)
    PROVE  /\ Inv' /\ sock'[c].kst = "up"
           /\ \A x \in Socks : x # c => sock'[x].kst = sock[x].kst
<1> DEFINE rs == [sock[s] EXCEPT !.inq = sock[s].inq - 1]
<1> DEFINE rc == ConnectedRec(sock[c])
<1>0. c \in Socks /\ sock \in [Socks -> SockRec]
  BY DEF Socks, Inv, TypeOK
<1>1. /\ sock[s].kst = "listen" /\ sock[s].inq > 0 /\ sock[c].kst = "none" /\ s # c
      /\ UNCHANGED <<lastSockErrorNo, batch, cb>> /\ told' \subseteq told
  BY DEF AcceptSock, Open
<1>2. MayBecome(s, rs) /\ rs.kst = "listen"
  <2>1. sock[s].inq \in 0..MaxIn /\ sock[s] \in SockRec
    BY RecType
  <2>2. sock[s].inq - 1 \in 0..MaxIn
    BY <1>1, <2>1, MaxInAssumption
  <2>3. rs.kst = "listen"
    BY <1>1, <2>1 DEF SockRec
  <2> QED
    BY <2>2, <2>3, NewInq
<1>3. MayBecome(c, rc) /\ rc.kst = "up"
  <2>1. sock[c] \in SockRec /\ StatusOK(sock[c]) /\ sock[c].mask \in SUBSET FlagSet
        /\ sock[c].mStatus \in {"DISCONNECTED", "CONNECTING", "CONNECTED"}
    BY <1>0, RecType
  <2>2. sock[c].mStatus = "DISCONNECTED" /\ sock[c].mask = {}
    BY <1>1, <2>1 DEF StatusOK, Over
  <2>3. rc \in SockRec /\ StatusOK(rc) /\ rc.kst # "none"
    BY <2>1, <2>2, ConnectedRecFacts
  <2>4. rc.kst = "up"
    BY <2>1, <2>2 DEF ConnectedRec, RegisterEvent, SockRec
  <2> HIDE DEF rc
  <2> QED
    BY <2>2, <2>3, <2>4, NewConnection
<1>4. sock' = [sock EXCEPT ![s] = rs, ![c] = rc]
  <2>1. sock' = [sock EXCEPT ![s].inq = @ - 1,
                             ![c] = [RegisterEvent(@, {"READ", "HANGUP"}) EXCEPT
                                         !.kst = "up", !.mStatus = "CONNECTED"]]
    BY DEF AcceptSock
  <2> QED
    BY <1>0, <1>1, <2>1 DEF ConnectedRec
<1>5. rs \in SockRec /\ rc \in SockRec
  BY <1>2, <1>3 DEF MayBecome
<1> HIDE DEF rs, rc
<1>6. /\ sock' \in [Socks -> SockRec] /\ sock'[s] = rs /\ sock'[c] = rc
      /\ \A x \in Socks : x # s /\ x # c => sock'[x] = sock[x]
  BY <1>0, <1>1, <1>4, <1>5
<1>7. \A x \in Socks : sock'[x] = sock[x] \/ MayBecome(x, sock'[x])
  BY <1>2, <1>3, <1>6
<1>8. SockInv' /\ StillFits
  BY <1>6, <1>7, SocksChange
<1>9. BatchInv'
  BY <1>1, <1>8, BatchSame
<1>10. TypeOK'
  BY <1>1, <1>6 DEF Inv, TypeOK
<1>11. \A x \in Socks : x # c => sock'[x].kst = sock[x].kst
  BY <1>1, <1>2, <1>6
<1>12. CbInv'
  BY <1>1 DEF Inv, CbInv
<1> QED
  BY <1>3, <1>6, <1>8, <1>9, <1>10, <1>11, <1>12 DEF Inv

(* recv keeps the invariant and neither opens, closes nor revives a connection. *)
LEMMA RecvKeeps ==
    ASSUME Inv, NEW s \in Socks, Recv(s)
    PROVE  /\ Inv'
           /\ \A x \in Socks :
                  /\ sock'[x].kst # "none" <=> sock[x].kst # "none"
                  /\ sock'[x].kst \in Over <=> sock[x].kst \in Over
<1> DEFINE a == sock[s]
<1>1. /\ a \in SockRec /\ a.kst \in Descriptor /\ a.inq \in 0..MaxIn /\ a.kst # "none"
      /\ sock \in [Socks -> SockRec]
  BY RecType DEF Recv, Open, Inv, TypeOK
<1>2. /\ batch' = batch /\ cb' = cb /\ told' = told /\ lastSockErrorNo' \in {"0", "EBADFD"}
  BY DEF Recv, Inv, TypeOK
<1>3. CASE \E n \in 1..a.inq : sock' = [sock EXCEPT ![s].inq = @ - n]
  <2>1. PICK n \in 1..a.inq : sock' = [sock EXCEPT ![s].inq = @ - n]
    BY <1>3
  <2> DEFINE r == [a EXCEPT !.inq = a.inq - n]
  <2>2. a.inq - n \in 0..MaxIn
    BY <1>1, MaxInAssumption
  <2>3. sock' = [sock EXCEPT ![s] = r]
    BY <2>1
  <2>4. MayBecome(s, r) /\ r.kst = a.kst
    BY <1>1, <2>2, NewInq DEF SockRec
  <2> HIDE DEF r, a
  <2>5. Inv'
    BY <1>2, <2>3, <2>4, CallKeeps
  <2>6. sock'[s] = r /\ \A x \in Socks : x # s => sock'[x] = sock[x]
    BY <2>3, <2>4, SockChanges
  <2> QED
    BY <2>4, <2>5, <2>6 DEF a
<1>4. CASE sock' = [sock EXCEPT ![s].kst = IF @ = "err" THEN "dead" ELSE @]
  <2> DEFINE k == IF a.kst = "err" THEN "dead" ELSE a.kst
  <2> DEFINE r == [a EXCEPT !.kst = k]
  <2>1. sock' = [sock EXCEPT ![s] = r]
    BY <1>4
  <2>2. k \in Descriptor \ {"none"} /\ (k \in Over <=> a.kst \in Over)
        /\ ((a.kst = "err" /\ k = "dead") \/ k = a.kst)
    BY <1>1 DEF Descriptor, Over
  <2> HIDE DEF k
  <2>3. MayBecome(s, r)
    BY <2>2, NewDescriptor DEF Over
  <2>4. r.kst = k
    BY <1>1 DEF SockRec
  <2> HIDE DEF r, a
  <2>5. Inv'
    BY <1>2, <2>1, <2>3, CallKeeps
  <2>6. sock'[s] = r /\ \A x \in Socks : x # s => sock'[x] = sock[x]
    BY <2>1, <2>3, SockChanges
  <2> QED
    BY <1>1, <2>2, <2>4, <2>5, <2>6 DEF a
<1> QED
  BY <1>3, <1>4 DEF Recv

\* Calls that open, connect, bind or listen: of one socket, which ends up open.
Opens(s) == OpenSock(s) \/ Connect(s) \/ ConnectUnix(s) \/ BindSock(s) \/ ListenSock(s)

(* Calls that open or connect keep the invariant and touch no other socket. *)
LEMMA OpensKeeps ==
    ASSUME Inv, NEW s \in Socks, Opens(s)
    PROVE  /\ Inv' /\ UNCHANGED <<lastSockErrorNo, batch, cb>>
           /\ told' = told \/ told' = told \ {s}
           /\ ~Open(s) => told' = told \ {s}
           /\ sock[s].kst \notin Over
           /\ \A x \in Socks : x # s => sock'[x] = sock[x]
<1> DEFINE a == sock[s]
<1>1. /\ a \in SockRec /\ (s \in Clients => StatusOK(a)) /\ a.mask \in SUBSET FlagSet
      /\ lastSockErrorNo \in {"0", "EBADFD"}
  BY RecType DEF Inv, TypeOK
<1>2. ASSUME NEW r, MayBecome(s, r), sock' = [sock EXCEPT ![s] = r],
             UNCHANGED <<lastSockErrorNo, batch, cb>>, told' \subseteq told
      PROVE  Inv' /\ \A x \in Socks : x # s => sock'[x] = sock[x]
  BY <1>1, <1>2, CallKeeps, SockChanges
<1>3. CASE OpenSock(s)
  <2>1. a.kst = "none" /\ told' = told \ {s} /\ UNCHANGED <<lastSockErrorNo, batch, cb>>
        /\ sock' = [sock EXCEPT ![s] = [sock[s] EXCEPT !.kst = "fresh"]]
    BY <1>3 DEF OpenSock, Open
  <2>2. MayBecome(s, [sock[s] EXCEPT !.kst = "fresh"])
    BY <2>1, NewDescriptor DEF Descriptor
  <2> QED
    BY <1>2, <2>1, <2>2 DEF Over
<1>4. CASE Connect(s)
  <2>1. /\ s \in Clients /\ a.mStatus = "DISCONNECTED" /\ UNCHANGED <<lastSockErrorNo, batch, cb>>
        /\ told' = (IF Open(s) THEN told ELSE told \ {s})
    BY <1>4 DEF Connect
  <2>2. PICK k \in {"connecting", "fresh"} : sock' = [sock EXCEPT ![s] = Connecting(@, k)]
    BY <1>4 DEF Connect
  <2> DEFINE r == Connecting(a, k)
  <2>3. sock' = [sock EXCEPT ![s] = r]
    BY <2>2
  <2>4. a.mask = {} /\ a.kst \in {"none", "fresh"}
    BY <1>1, <2>1 DEF StatusOK
  <2>5. k \in Descriptor \ {"none"}
    BY DEF Descriptor
  <2>6. r \in SockRec /\ StatusOK(r) /\ r.kst # "none"
    BY <1>1, <2>4, <2>5, ConnectingRec
  <2> HIDE DEF r
  <2>7. MayBecome(s, r)
    BY <2>1, <2>6, NewConnection
  <2> QED
    BY <1>2, <2>1, <2>3, <2>4, <2>7 DEF Over, Open
<1>5. CASE ConnectUnix(s)
  <2>1. /\ s \in UnixClients /\ a.mStatus = "DISCONNECTED" /\ a.kst = "fresh"
        /\ UNCHANGED <<lastSockErrorNo, batch, cb, told>>
    BY <1>5 DEF ConnectUnix
  <2> DEFINE r == ConnectedRec(a)
  <2>2. sock' = [sock EXCEPT ![s] = r]
    BY <1>5 DEF ConnectUnix, ConnectedRec
  <2>3. s \in Clients /\ a.mask = {}
    BY <1>1, <2>1, RolesAssumption DEF StatusOK
  <2>4. r \in SockRec /\ StatusOK(r) /\ r.kst # "none"
    BY <1>1, <2>3, ConnectedRecFacts
  <2> HIDE DEF r
  <2>5. MayBecome(s, r)
    BY <2>1, <2>3, <2>4, NewConnection
  <2> QED
    BY <1>2, <2>1, <2>2, <2>5 DEF Over, Open
<1>6. CASE BindSock(s)
  <2>1. /\ s \in Listeners /\ a.kst \in {"none", "fresh"} /\ UNCHANGED <<lastSockErrorNo, batch, cb>>
        /\ told' = (IF Open(s) THEN told ELSE told \ {s})
        /\ sock' = [sock EXCEPT ![s] = Bound(a)]
    BY <1>6 DEF BindSock
  <2>2. Bound(a) \in SockRec /\ Bound(a).kst # "none"
    BY <1>1, BoundRec
  <2>3. MayBecome(s, Bound(a))
    BY <2>1, <2>2, NewListener
  <2> QED
    BY <1>2, <2>1, <2>3 DEF Over, Open
<1>7. CASE ListenSock(s)
  <2> DEFINE b == [a EXCEPT !.mIsListen = TRUE]
  <2> DEFINE r1 == [Bound(b) EXCEPT !.kst = "listen"]
  <2> DEFINE r2 == [b EXCEPT !.kst = "fresh"]
  <2>1. /\ s \in Listeners /\ a.kst \in {"none", "fresh"} /\ UNCHANGED <<lastSockErrorNo, batch, cb>>
        /\ told' = (IF Open(s) THEN told ELSE told \ {s})
    BY <1>7 DEF ListenSock
  <2>2. sock' = [sock EXCEPT ![s] = r1] \/ sock' = [sock EXCEPT ![s] = r2]
    BY <1>7 DEF ListenSock
  <2>3. b \in SockRec
    BY <1>1, BoundRec
  <2> HIDE DEF b
  <2>4. r1 \in SockRec /\ r1.kst # "none" /\ r2 \in SockRec /\ r2.kst # "none"
    BY <2>3, BoundRec
  <2> HIDE DEF r1, r2
  <2>5. MayBecome(s, r1) /\ MayBecome(s, r2)
    BY <2>1, <2>4, NewListener
  <2> QED
    BY <1>2, <2>1, <2>2, <2>5 DEF Over, Open
<1> QED
  BY <1>3, <1>4, <1>5, <1>6, <1>7 DEF Opens

\* The handler that runs.
LEMMA CbFacts ==
    ASSUME NEW h \in Handlers, NEW s \in Socks \cup {NoSock}
    PROVE  LET c == [h |-> h, s |-> s] IN c \in CbType /\ c.h = h /\ c.s = s
BY DEF CbType

(* The state of the loop between callbacks. *)
LEMMA IdleFacts == Idle \in CbType /\ Idle.h = "none" /\ Idle.s = NoSock
BY DEF CbType, Idle, Handlers

\* What the steps of the loop that do not close a socket do to the batch.
LEMMA LoopKeeps ==
    ASSUME Inv, sock' \in [Socks -> SockRec], SockInv', BatchInv',
           batch' \in Seq(Entry), Len(batch') <= MAX_GET_EVENTS,
           cb' \in CbType, cb'.h \in {"read", "readDisc"} => cb'.s \in Socks,
           told' \subseteq Socks, lastSockErrorNo' \in {"0", "EBADFD"}
    PROVE  Inv'
<1>1. TypeOK'
  BY DEF TypeOK, Entry, CbType
<1>2. CbInv'
  BY DEF CbInv
<1> QED
  BY <1>1, <1>2 DEF Inv

(* OnEventWrite keeps the invariant, whether the connection came up or failed. *)
LEMMA OnEventWriteKeeps ==
    ASSUME Inv, NEW s \in Socks, OnEventWrite(s)
    PROVE  Inv'
<1>0. /\ batch \in Seq(Entry) /\ Len(batch) <= MAX_GET_EVENTS /\ told \subseteq Socks
      /\ lastSockErrorNo \in {"0", "EBADFD"}
  BY DEF Inv, TypeOK, Entry
<1>1. /\ batch # <<>> /\ sock[s].kst # "none"
      /\ s \in Clients => sock[s].kst \in Over \cup {"up"}
  BY DueFacts DEF OnEventWrite, FlagSet
<1>2. CASE /\ Close(s) /\ cb' = [h |-> "disc", s |-> s] /\ told' = told \cup {s}
  <2>1. cb' \in CbType /\ cb'.h = "disc"
    BY <1>2, CbFacts DEF Handlers
  <2>2. told' \subseteq Socks
    BY <1>0, <1>2
  <2> QED
    BY <1>0, <1>2, <2>1, <2>2, CloseFacts, LoopKeeps
<1>3. CASE /\ sock[s].mStatus = "CONNECTING"
           /\ sock' = [sock EXCEPT ![s] = Connected(@)]
           /\ Consume("WRITE") /\ cb' = [h |-> "conn", s |-> s]
           /\ UNCHANGED <<lastSockErrorNo, told>>
  <2> DEFINE a == sock[s]
  <2> DEFINE r == Connected(a)
  <2>1. a \in SockRec
    BY RecType
  <2>2. sock' = [sock EXCEPT ![s] = r] /\ a.kst # "none" /\ (s \in Clients => a.kst \in Over \cup {"up"})
    BY <1>1, <1>3
  <2>3. r \in SockRec /\ r.kst = a.kst /\ r.mStatus = "CONNECTED" /\ r.mask = {"READ", "HANGUP"}
    BY <2>1 DEF Connected, SockRec, FlagSet
  <2>4. MayBecome(s, r)
    <3> HIDE DEF a, r
    <3>1. (s \in Clients => StatusOK(r)) /\ MaskOK(r)
      BY <2>2, <2>3 DEF StatusOK, MaskOK
    <3>2. \A f \in SUBSET FlagSet : f # {} /\ Fits(s, f, a) => Fits(s, f, r)
      BY <2>2, <2>3 DEF Fits, Over
    <3> QED
      BY <2>3, <3>1, <3>2 DEF MayBecome, a
  <2> HIDE DEF r
  <2>5. sock' \in [Socks -> SockRec] /\ SockInv' /\ StillFits
    BY <2>2, <2>4, SockChanges
  <2>6. batch' \in Seq(Entry) /\ Len(batch') = Len(batch) /\ BatchInv'
    BY <1>1, <1>3, <2>5, ConsumeFacts
  <2>7. cb' \in CbType /\ cb'.h = "conn"
    BY <1>3, CbFacts DEF Handlers
  <2> QED
    BY <1>0, <1>3, <2>5, <2>6, <2>7, LoopKeeps
<1>4. CASE /\ Consume("WRITE") /\ cb' = [h |-> "write", s |-> s]
           /\ UNCHANGED <<sock, lastSockErrorNo, told>>
  <2>1. sock' \in [Socks -> SockRec] /\ SockInv' /\ StillFits
    BY <1>4, SocksSame
  <2>2. batch' \in Seq(Entry) /\ Len(batch') = Len(batch) /\ BatchInv'
    BY <1>1, <1>4, <2>1, ConsumeFacts
  <2>3. cb' \in CbType /\ cb'.h = "write"
    BY <1>4, CbFacts DEF Handlers
  <2> QED
    BY <1>0, <1>4, <2>1, <2>2, <2>3, LoopKeeps
<1> QED
  BY <1>2, <1>3, <1>4 DEF OnEventWrite

(* Every step of the loop keeps the invariant. *)
LEMMA LoopStepKeeps ==
    ASSUME Inv, LoopStep
    PROVE  Inv'
<1>0. /\ batch \in Seq(Entry) /\ Len(batch) <= MAX_GET_EVENTS /\ told \subseteq Socks
      /\ lastSockErrorNo \in {"0", "EBADFD"} /\ cb \in CbType
  BY DEF Inv, TypeOK, Entry, CbType
<1>1. CASE NextEntry
  <2>1. UNCHANGED <<sock, lastSockErrorNo, cb, told>>
    BY <1>1 DEF NextEntry
  <2> QED
    BY <1>0, <1>1, <2>1, NextEntryFacts, SocksSame, LoopKeeps DEF Inv, CbInv
<1>2. CASE OtherCallback
  <2>1. batch # <<>> /\ Consume("READ") /\ UNCHANGED <<sock, lastSockErrorNo, told>>
        /\ cb' = [Idle EXCEPT !.h = "other"]
    BY <1>2 DEF OtherCallback, Due
  <2>2. sock' \in [Socks -> SockRec] /\ SockInv' /\ StillFits
    BY <2>1, SocksSame
  <2>3. batch' \in Seq(Entry) /\ Len(batch') = Len(batch) /\ BatchInv'
    BY <2>1, <2>2, ConsumeFacts
  <2>4. cb' \in CbType /\ cb'.h = "other"
    BY <2>1 DEF Idle, CbType, Handlers
  <2> QED
    BY <1>0, <2>1, <2>2, <2>3, <2>4, LoopKeeps
<1>3. CASE OnReadReturns
  <2>1. cb.h = "read" /\ UNCHANGED <<sock, lastSockErrorNo, batch>>
    BY <1>3 DEF OnReadReturns
  <2>2. cb.s \in Socks
    BY <2>1 DEF Inv, CbInv
  <2>3. sock' \in [Socks -> SockRec] /\ SockInv' /\ StillFits
    BY <2>1, SocksSame
  <2>4. BatchInv'
    BY <2>1, <2>3, BatchSame
  <2>5. cb' \in CbType /\ (cb'.h \in {"read", "readDisc"} => cb'.s \in Socks) /\ told' \subseteq Socks
    <3>1. CASE cb' = Idle /\ told' = told
      BY <1>0, <3>1, IdleFacts
    <3>2. CASE cb' = [cb EXCEPT !.h = "readDisc"] /\ told' = told \cup {cb.s}
      BY <1>0, <2>2, <3>2 DEF CbType, Handlers
    <3> QED
      BY <1>3, <3>1, <3>2 DEF OnReadReturns
  <2> QED
    BY <1>0, <2>1, <2>3, <2>4, <2>5, LoopKeeps
<1>4. CASE OnEventReadReturns
  <2>1. cb.h = "readDisc" /\ cb' = Idle /\ told' = told
    BY <1>4 DEF OnEventReadReturns
  <2>2. cb.s \in Socks
    BY <2>1 DEF Inv, CbInv
  <2>3. CASE Close(cb.s)
    BY <1>0, <2>1, <2>2, <2>3, IdleFacts, CloseFacts, LoopKeeps
  <2>4. CASE UNCHANGED <<sock, lastSockErrorNo, batch>>
    BY <1>0, <2>1, <2>4, IdleFacts, SocksSame, BatchSame, LoopKeeps
  <2> QED
    BY <1>4, <2>3, <2>4 DEF OnEventReadReturns
<1>5. CASE HandlerReturns
  <2>1. cb' = Idle /\ UNCHANGED <<sock, lastSockErrorNo, batch, told>>
    BY <1>5 DEF HandlerReturns
  <2> QED
    BY <1>0, <2>1, IdleFacts, SocksSame, BatchSame, LoopKeeps
<1>6. ASSUME NEW s \in Socks, OnEventRead(s) PROVE Inv'
  <2>1. batch # <<>> /\ Consume("READ") /\ UNCHANGED <<sock, lastSockErrorNo, told>>
        /\ cb' = [h |-> IF sock[s].mIsListen THEN "incoming" ELSE "read", s |-> s]
    BY <1>6 DEF OnEventRead, Due
  <2>2. sock' \in [Socks -> SockRec] /\ SockInv' /\ StillFits
    BY <2>1, SocksSame
  <2>3. batch' \in Seq(Entry) /\ Len(batch') = Len(batch) /\ BatchInv'
    BY <2>1, <2>2, ConsumeFacts
  <2>4. cb' \in CbType /\ cb'.s = s
    BY <2>1, CbFacts DEF Handlers
  <2> QED
    BY <1>0, <2>1, <2>2, <2>3, <2>4, LoopKeeps
<1>7. ASSUME NEW s \in Socks, OnEventHangup(s) PROVE Inv'
  <2>1. Close(s) /\ cb' = [h |-> "disc", s |-> s] /\ told' = told \cup {s}
    BY <1>7 DEF OnEventHangup
  <2>2. cb' \in CbType /\ cb'.h = "disc" /\ told' \subseteq Socks
    BY <1>0, <2>1, CbFacts DEF Handlers
  <2> QED
    BY <1>0, <2>1, <2>2, CloseFacts, LoopKeeps
<1> QED
  BY <1>1, <1>2, <1>3, <1>4, <1>5, <1>6, <1>7, OnEventWriteKeeps DEF LoopStep

(* Every call of the program keeps the invariant. *)
LEMMA CallStepKeeps ==
    ASSUME Inv, NEW s \in Socks, Call(s)
    PROVE  Inv'
<1>1. CASE Opens(s)
  BY <1>1, OpensKeeps
<1>2. ASSUME NEW c \in Clients, AcceptSock(s, c) PROVE Inv'
  BY <1>2, AcceptKeeps
<1>3. CASE RejectSock(s)
  <2>1. /\ sock[s].inq > 0 /\ UNCHANGED <<lastSockErrorNo, batch, cb, told>>
        /\ sock' = [sock EXCEPT ![s] = [sock[s] EXCEPT !.inq = sock[s].inq - 1]]
    BY <1>3 DEF RejectSock
  <2>2. sock[s].inq \in 0..MaxIn /\ lastSockErrorNo \in {"0", "EBADFD"}
    BY RecType DEF Inv, TypeOK
  <2>3. sock[s].inq - 1 \in 0..MaxIn
    BY <2>1, <2>2, MaxInAssumption
  <2>4. MayBecome(s, [sock[s] EXCEPT !.inq = sock[s].inq - 1])
    BY <2>3, NewInq
  <2> QED
    BY <2>1, <2>2, <2>4, CallKeeps
<1>4. CASE Recv(s)
  BY <1>4, RecvKeeps
<1>5. CASE CloseSock(s)
  <2>1. Close(s) /\ cb' = cb /\ told' = told
    BY <1>5 DEF CloseSock
  <2>2. told \subseteq Socks /\ cb \in CbType /\ Len(batch) <= MAX_GET_EVENTS
    BY DEF Inv, TypeOK, CbType
  <2> QED
    BY <2>1, <2>2, CloseFacts, LoopKeeps DEF Inv, CbInv
<1> QED
  BY <1>1, <1>2, <1>3, <1>4, <1>5 DEF Call, Opens

(* The initial state satisfies the invariant. *)
LEMMA InvInit == Init => Inv
<1> SUFFICES ASSUME Init PROVE Inv
  OBVIOUS
<1>1. Cleared \in SockRec /\ StatusOK(Cleared) /\ MaskOK(Cleared)
  <2>1. 0 \in 0..MaxIn
    BY MaxInAssumption
  <2> QED
    BY <2>1 DEF Cleared, SockRec, Descriptor, StatusOK, MaskOK
<1>2. sock \in [Socks -> SockRec] /\ \A s \in Socks : sock[s] = Cleared
  BY <1>1 DEF Init
<1>3. SockInv
  BY <1>1, <1>2 DEF SockInv
<1>4. batch = <<>> /\ batch \in Seq(Entry) /\ Len(batch) = 0
  BY DEF Init
<1>5. BatchInv /\ Len(batch) <= MAX_GET_EVENTS
  BY <1>4, BatchAssumption DEF BatchInv
<1>6. cb \in CbType /\ CbInv
  BY IdleFacts DEF Init, CbInv
<1>7. TypeOK
  BY <1>2, <1>4, <1>5, <1>6 DEF Init, TypeOK, Entry, CbType
<1> QED
  BY <1>3, <1>5, <1>6, <1>7 DEF Inv

(* Every step keeps the invariant. *)
LEMMA InvStep == Inv /\ [Next]_vars => Inv'
<1> SUFFICES ASSUME Inv, [Next]_vars PROVE Inv'
  OBVIOUS
<1>1. CASE LoopStep
  BY <1>1, LoopStepKeeps
<1>2. CASE EpollWait
  <2>1. UNCHANGED <<sock, lastSockErrorNo, cb, told>>
    BY <1>2 DEF EpollWait
  <2>2. cb \in CbType /\ told \subseteq Socks /\ lastSockErrorNo \in {"0", "EBADFD"}
    BY DEF Inv, TypeOK, CbType
  <2> QED
    BY <1>2, <2>1, <2>2, EpollWaitFacts, SocksSame, LoopKeeps DEF Inv, CbInv
<1>3. ASSUME NEW s \in Socks, Call(s) PROVE Inv'
  BY <1>3, CallStepKeeps
<1>4. ASSUME NEW s \in Socks, PeerStep(s) PROVE Inv'
  BY <1>4, PeerKeeps
<1>5. CASE UNCHANGED vars
  <2>1. UNCHANGED <<sock, lastSockErrorNo, batch, cb, told>>
    BY <1>5 DEF vars
  <2>2. StillFits /\ SockInv'
    BY <2>1, SocksSame
  <2>3. BatchInv'
    BY <2>1, <2>2, BatchSame
  <2> QED
    BY <2>1, <2>2, <2>3 DEF Inv, TypeOK, CbInv
<1> QED
  BY <1>1, <1>2, <1>3, <1>4, <1>5 DEF Next

(* The invariant holds always. *)
LEMMA InvSafe == Spec => []Inv
<1>1. Init => Inv
  BY InvInit
<1>2. Inv /\ [Next]_vars => Inv'
  BY InvStep
<1> QED
  BY <1>1, <1>2, PTL DEF Spec

\* mStatus, which connect tests, agrees with the descriptor of every client and
\* with what is registered for it, whatever handlers call, in whatever order the
\* kernel reports, and whether recv or a hangup found the end.
THEOREM StatusAgreesThm == Spec => []StatusAgrees
<1>1. Inv => StatusAgrees
  <2>1. Clients \subseteq Socks
    BY DEF Socks
  <2> QED
    BY <2>1 DEF Inv, SockInv, StatusOK, StatusAgrees
<1> QED
  BY <1>1, InvSafe, PTL

-----------------------------------------------------------------------------
(***************************************************************************)
(* The end of a connection, where handlers keep to their own socket.       *)
(***************************************************************************)

\* Outside OnEventRead no error is pending, and what was told is closed.
LEMMA NotReading ==
    ASSUME OwnInv, cb.h \notin {"read", "readDisc"}
    PROVE  lastSockErrorNo = "0" /\ \A s \in told : ~Open(s)
BY DEF OwnInv, ErrorInv, ToldInv

(* A peer neither opens nor closes a socket, nor revives a connection that is over. *)
LEMMA PeerEffect ==
    ASSUME Inv, NEW s \in Socks, PeerStep(s)
    PROVE  /\ UNCHANGED <<lastSockErrorNo, cb, told>>
           /\ \A x \in Socks : /\ sock[x].kst \in Over => sock'[x].kst \in Over
                               /\ sock'[x].kst # "none" => sock[x].kst # "none"
<1>0. sock \in [Socks -> SockRec] /\ sock[s] \in SockRec
  BY DEF Inv, TypeOK
<1>1. ASSUME NEW from, NEW to \in Over \cup {"up"}, Peer(s, from, to),
             from \subseteq {"connecting", "up", "fin"}, to = "up" => from = {"connecting"}
      PROVE  /\ UNCHANGED <<lastSockErrorNo, cb, told>>
             /\ \A x \in Socks : /\ sock[x].kst \in Over => sock'[x].kst \in Over
                                 /\ sock'[x].kst # "none" => sock[x].kst # "none"
  <2> DEFINE r == [sock[s] EXCEPT !.kst = to]
  <2>1. sock[s].kst \in from /\ sock' = [sock EXCEPT ![s] = r] /\ UNCHANGED <<lastSockErrorNo, cb, told>>
    BY <1>1 DEF Peer
  <2>2. r.kst = to
    BY <1>0 DEF SockRec
  <2> HIDE DEF r
  <2>3. sock'[s] = r /\ \A x \in Socks : x # s => sock'[x] = sock[x]
    BY <1>0, <2>1
  <2>4. (sock[s].kst \in Over => to \in Over) /\ sock[s].kst # "none"
    BY <1>1, <2>1 DEF Over
  <2> QED
    BY <2>1, <2>2, <2>3, <2>4
<1>2. CASE Established(s)
  BY <1>1, <1>2 DEF Established
<1>3. CASE Refused(s)
  BY <1>1, <1>3 DEF Refused, Over
<1>4. CASE PeerCloses(s)
  BY <1>1, <1>4 DEF PeerCloses, Over
<1>5. CASE PeerResets(s)
  BY <1>1, <1>5 DEF PeerResets, Over
<1>6. CASE Arrives(s)
  <2> DEFINE r == [sock[s] EXCEPT !.inq = sock[s].inq + 1]
  <2>1. sock' = [sock EXCEPT ![s] = r] /\ UNCHANGED <<lastSockErrorNo, cb, told>>
    BY <1>6 DEF Arrives
  <2>2. r.kst = sock[s].kst
    BY <1>0 DEF SockRec
  <2> HIDE DEF r
  <2>3. sock'[s] = r /\ \A x \in Socks : x # s => sock'[x] = sock[x]
    BY <1>0, <2>1
  <2> QED
    BY <2>1, <2>2, <2>3
<1> QED
  BY <1>2, <1>3, <1>4, <1>5, <1>6 DEF PeerStep

(* rejectSock leaves the state of every socket's descriptor. *)
LEMMA RejectEffect ==
    ASSUME Inv, NEW s \in Socks, RejectSock(s)
    PROVE  /\ UNCHANGED <<lastSockErrorNo, cb, told>>
           /\ \A x \in Socks : sock'[x].kst = sock[x].kst
<1> DEFINE r == [sock[s] EXCEPT !.inq = sock[s].inq - 1]
<1>1. sock \in [Socks -> SockRec] /\ sock[s] \in SockRec
  BY DEF Inv, TypeOK
<1>2. sock' = [sock EXCEPT ![s] = r] /\ UNCHANGED <<lastSockErrorNo, cb, told>>
  BY DEF RejectSock
<1>3. r.kst = sock[s].kst
  BY <1>1 DEF SockRec
<1> HIDE DEF r
<1>4. sock'[s] = r /\ \A x \in Socks : x # s => sock'[x] = sock[x]
  BY <1>1, <1>2
<1> QED
  BY <1>2, <1>3, <1>4

\* A step after which the connections that ended are those that had, and no
\* closed socket is open.
LEMMA OwnSame ==
    ASSUME Inv, OwnInv, UNCHANGED <<lastSockErrorNo, cb, told>>,
           \A x \in Socks : /\ sock[x].kst \in Over => sock'[x].kst \in Over
                            /\ sock'[x].kst # "none" => sock[x].kst # "none"
    PROVE  OwnInv'
<1>1. told \subseteq Socks
  BY DEF Inv, TypeOK
<1>2. ErrorInv'
  BY DEF OwnInv, ErrorInv
<1>3. ToldInv'
  BY <1>1 DEF OwnInv, ToldInv, Open
<1> QED
  BY <1>2, <1>3 DEF OwnInv

(* A call that keeps to its own socket keeps OwnInv. *)
LEMMA CallOwn ==
    ASSUME Inv, OwnInv, CrossCalls = FALSE, NEW s \in Socks, Call(s)
    PROVE  OwnInv'
<1>0. told \subseteq Socks
  BY DEF Inv, TypeOK
<1>1. CASE Opens(s)
  <2>1. /\ UNCHANGED <<lastSockErrorNo, batch, cb>> /\ (told' = told \/ told' = told \ {s})
        /\ (~Open(s) => told' = told \ {s}) /\ sock[s].kst \notin Over
        /\ \A x \in Socks : x # s => sock'[x] = sock[x]
    BY <1>1, OpensKeeps
  <2>2. ErrorInv'
    <3>1. SUFFICES ASSUME lastSockErrorNo # "0"
                   PROVE  /\ cb.h \in {"read", "readDisc"} /\ cb.s \in Socks /\ sock'[cb.s].kst \in Over
                          /\ cb.h = "readDisc" => cb.s \in told'
      BY <2>1 DEF ErrorInv
    <3>2. /\ cb.h \in {"read", "readDisc"} /\ cb.s \in Socks /\ sock[cb.s].kst \in Over
          /\ cb.h = "readDisc" => cb.s \in told
      BY <3>1 DEF OwnInv, ErrorInv
    <3>3. cb.s # s
      BY <2>1, <3>2
    <3> QED
      BY <2>1, <3>2, <3>3
  <2>3. ToldInv'
    <3>1. SUFFICES ASSUME NEW x \in told', sock'[x].kst # "none"
                   PROVE  cb.h = "readDisc" /\ cb.s = x /\ lastSockErrorNo # "0"
      BY <2>1 DEF ToldInv, Open
    <3>2. x \in told /\ x \in Socks /\ (x = s => Open(s))
      BY <1>0, <2>1
    <3>3. Open(x)
      BY <2>1, <3>1, <3>2 DEF Open
    <3> QED
      BY <3>2, <3>3 DEF OwnInv, ToldInv
  <2> QED
    BY <2>2, <2>3 DEF OwnInv
<1>2. ASSUME NEW c \in Clients, AcceptSock(s, c) PROVE OwnInv'
  <2>1. /\ sock'[c].kst = "up" /\ \A x \in Socks : x # c => sock'[x].kst = sock[x].kst
    BY <1>2, AcceptKeeps
  <2>2. sock[c].kst = "none" /\ UNCHANGED <<lastSockErrorNo, cb>> /\ told' = told \ {c}
    BY <1>2 DEF AcceptSock, Open
  <2>3. ErrorInv'
    BY <2>1, <2>2 DEF OwnInv, ErrorInv, Over
  <2>4. ToldInv'
    BY <1>0, <2>1, <2>2 DEF OwnInv, ToldInv, Open
  <2> QED
    BY <2>3, <2>4 DEF OwnInv
<1>3. CASE RejectSock(s)
  BY <1>3, RejectEffect, OwnSame
<1>4. CASE Recv(s)
  <2>1. \A x \in Socks : /\ sock'[x].kst # "none" <=> sock[x].kst # "none"
                         /\ sock'[x].kst \in Over <=> sock[x].kst \in Over
    BY <1>4, RecvKeeps
  <2>2. /\ cb' = cb /\ told' = told /\ cb = [h |-> "read", s |-> s]
        /\ lastSockErrorNo' = IF ReadNothing(s) THEN "EBADFD" ELSE lastSockErrorNo
    BY <1>4 DEF Recv, MayRecv
  <2>3. cb.h = "read" /\ cb.s = s
    BY <2>2
  <2>4. ErrorInv'
    <3>1. CASE ReadNothing(s)
      <4>1. sock[s].kst \in Over
        BY <3>1 DEF ReadNothing, Over
      <4> QED
        BY <2>1, <2>2, <2>3, <4>1 DEF ErrorInv
    <3>2. CASE ~ReadNothing(s)
      BY <2>1, <2>2, <2>3, <3>2 DEF OwnInv, ErrorInv
    <3> QED
      BY <3>1, <3>2
  <2>5. ToldInv'
    BY <1>0, <2>1, <2>2, <2>3 DEF OwnInv, ToldInv, Open
  <2> QED
    BY <2>4, <2>5 DEF OwnInv
<1>5. CASE CloseSock(s)
  <2>1. /\ sock'[s].kst = "none" /\ \A x \in Socks : x # s => sock'[x] = sock[x]
        /\ lastSockErrorNo' = "0"
    BY <1>5, CloseFacts DEF CloseSock
  <2>2. /\ cb' = cb /\ told' = told /\ (cb.s = s \/ cb.h \notin {"read", "readDisc"})
    BY <1>5 DEF CloseSock, MayClose
  <2>3. ErrorInv'
    BY <2>1 DEF ErrorInv
  <2>4. ToldInv'
    BY <1>0, <2>1, <2>2 DEF OwnInv, ToldInv, Open
  <2> QED
    BY <2>3, <2>4 DEF OwnInv
<1> QED
  BY <1>1, <1>2, <1>3, <1>4, <1>5 DEF Call, Opens

\* The steps of the loop, by what they do to the handler, to what was told, and to
\* the socket they may close.
LEMMA LoopOwn ==
    ASSUME Inv, OwnInv, LoopStep
    PROVE  OwnInv'
<1>0. told \subseteq Socks /\ cb \in CbType
  BY DEF Inv, TypeOK, CbType
<1>1. ASSUME cb.h \notin {"read", "readDisc"}, UNCHANGED <<lastSockErrorNo, told>>,
             \A x \in Socks : sock'[x].kst = sock[x].kst
      PROVE  OwnInv'
  BY <1>0, <1>1, NotReading DEF OwnInv, ErrorInv, ToldInv, Open
<1>2. ASSUME cb.h \notin {"read", "readDisc"}, NEW s \in Socks, Close(s), told' = told \cup {s}
      PROVE  OwnInv'
  <2>1. /\ sock'[s].kst = "none" /\ \A x \in Socks : x # s => sock'[x] = sock[x]
        /\ lastSockErrorNo' = "0"
    BY <1>2, CloseFacts
  <2>2. \A x \in told : ~Open(x)
    BY <1>2, NotReading
  <2>3. ErrorInv'
    BY <2>1 DEF ErrorInv
  <2>4. ToldInv'
    BY <1>0, <1>2, <2>1, <2>2 DEF ToldInv, Open
  <2> QED
    BY <2>3, <2>4 DEF OwnInv
<1>3. CASE NextEntry
  BY <1>3, OwnSame DEF NextEntry
<1>4. CASE OtherCallback
  <2>1. cb = Idle /\ UNCHANGED <<sock, lastSockErrorNo, told>>
    BY <1>4 DEF OtherCallback, Due
  <2> QED
    BY <1>1, <2>1, IdleFacts
<1>5. CASE OnReadReturns
  <2>1. cb.h = "read" /\ UNCHANGED <<sock, lastSockErrorNo>>
    BY <1>5 DEF OnReadReturns
  <2>2. \A x \in told : ~Open(x)
    BY <2>1 DEF OwnInv, ToldInv
  <2>3. CASE lastSockErrorNo = "0"
    <3>1. cb' = Idle /\ told' = told
      BY <1>5, <2>3 DEF OnReadReturns
    <3> QED
      BY <2>1, <2>2, <2>3, <3>1 DEF OwnInv, ErrorInv, ToldInv, Open
  <2>4. CASE lastSockErrorNo # "0"
    <3>1. cb' = [cb EXCEPT !.h = "readDisc"] /\ told' = told \cup {cb.s}
      BY <1>5, <2>4 DEF OnReadReturns
    <3>2. cb'.h = "readDisc" /\ cb'.s = cb.s
      BY <1>0, <3>1 DEF CbType
    <3>3. cb.s \in Socks /\ sock[cb.s].kst \in Over
      BY <2>4 DEF OwnInv, ErrorInv
    <3>4. ErrorInv'
      BY <2>1, <3>1, <3>2, <3>3 DEF ErrorInv
    <3>5. ToldInv'
      BY <2>1, <2>2, <2>4, <3>1, <3>2 DEF ToldInv, Open
    <3> QED
      BY <3>4, <3>5 DEF OwnInv
  <2> QED
    BY <2>3, <2>4
<1>6. CASE OnEventReadReturns
  <2>1. cb.h = "readDisc" /\ told' = told
    BY <1>6 DEF OnEventReadReturns
  <2>2. cb.s \in Socks
    BY <2>1 DEF Inv, CbInv
  <2>3. CASE lastSockErrorNo # "0" /\ Open(cb.s)
    <3>1. Close(cb.s)
      BY <1>6, <2>3 DEF OnEventReadReturns
    <3>2. /\ sock'[cb.s].kst = "none" /\ \A x \in Socks : x # cb.s => sock'[x] = sock[x]
          /\ lastSockErrorNo' = "0"
      BY <2>2, <3>1, CloseFacts
    <3>3. ErrorInv'
      BY <3>2 DEF ErrorInv
    <3>4. ToldInv'
      BY <1>0, <2>1, <3>2 DEF OwnInv, ToldInv, Open
    <3> QED
      BY <3>3, <3>4 DEF OwnInv
  <2>4. CASE ~(lastSockErrorNo # "0" /\ Open(cb.s))
    <3>1. UNCHANGED <<sock, lastSockErrorNo>>
      BY <1>6, <2>4 DEF OnEventReadReturns
    <3>2. lastSockErrorNo = "0"
      BY <2>4 DEF OwnInv, ErrorInv, Over, Open
    <3>3. ErrorInv'
      BY <3>1, <3>2 DEF ErrorInv
    <3>4. ToldInv'
      BY <2>1, <3>1, <3>2 DEF OwnInv, ToldInv, Open
    <3> QED
      BY <3>3, <3>4 DEF OwnInv
  <2> QED
    BY <2>3, <2>4
<1>7. CASE HandlerReturns
  BY <1>1, <1>7 DEF HandlerReturns
<1>8. ASSUME NEW s \in Socks, OnEventRead(s) PROVE OwnInv'
  <2>1. cb = Idle /\ UNCHANGED <<sock, lastSockErrorNo, told>>
    BY <1>8 DEF OnEventRead, Due
  <2> QED
    BY <1>1, <2>1, IdleFacts
<1>9. ASSUME NEW s \in Socks, OnEventHangup(s) PROVE OwnInv'
  <2>1. cb = Idle /\ Close(s) /\ told' = told \cup {s}
    BY <1>9 DEF OnEventHangup, Due
  <2> QED
    BY <1>2, <2>1, IdleFacts
<1>10. ASSUME NEW s \in Socks, OnEventWrite(s) PROVE OwnInv'
  <2>1. cb = Idle
    BY <1>10 DEF OnEventWrite, Due
  <2>2. CASE Close(s) /\ told' = told \cup {s}
    BY <1>2, <2>1, <2>2, IdleFacts
  <2>3. CASE sock' = [sock EXCEPT ![s] = Connected(@)] /\ UNCHANGED <<lastSockErrorNo, told>>
    <3> DEFINE r == Connected(sock[s])
    <3>1. sock' = [sock EXCEPT ![s] = r] /\ sock \in [Socks -> SockRec]
      BY <2>3 DEF Inv, TypeOK
    <3>2. r.kst = sock[s].kst
      BY <3>1 DEF Connected, SockRec
    <3> HIDE DEF r
    <3>3. \A x \in Socks : sock'[x].kst = sock[x].kst
      BY <3>1, <3>2
    <3> QED
      BY <1>1, <2>1, <2>3, <3>3, IdleFacts
  <2>4. CASE UNCHANGED <<sock, lastSockErrorNo, told>>
    BY <1>1, <2>1, <2>4, IdleFacts
  <2> QED
    BY <1>10, <2>2, <2>3, <2>4 DEF OnEventWrite
<1> QED
  BY <1>3, <1>4, <1>5, <1>6, <1>7, <1>8, <1>9, <1>10 DEF LoopStep

(* Without calls across sockets the invariant and OwnInv hold always. *)
LEMMA OwnSafe ==
    ASSUME CrossCalls = FALSE
    PROVE  Spec => [](Inv /\ OwnInv)
<1>1. Init => OwnInv
  BY DEF Init, OwnInv, ErrorInv, ToldInv
<1>2. Inv /\ OwnInv /\ [Next]_vars => OwnInv'
  <2> SUFFICES ASSUME Inv, OwnInv, [Next]_vars PROVE OwnInv'
    OBVIOUS
  <2>1. CASE LoopStep
    BY <2>1, LoopOwn
  <2>2. CASE EpollWait
    BY <2>2, OwnSame DEF EpollWait
  <2>3. ASSUME NEW s \in Socks, Call(s) PROVE OwnInv'
    BY <2>3, CallOwn
  <2>4. ASSUME NEW s \in Socks, PeerStep(s) PROVE OwnInv'
    BY <2>4, PeerEffect, OwnSame
  <2>5. CASE UNCHANGED vars
    BY <2>5, OwnSame DEF vars
  <2> QED
    BY <2>1, <2>2, <2>3, <2>4, <2>5 DEF Next
<1> QED
  BY <1>1, <1>2, InvSafe, PTL DEF Spec

\* The places where EdSocket calls OnDisconnected.
LEMMA WhoTells ==
    ASSUME Inv, Next, NEW s \in Socks, OnDisconnected(s)
    PROVE  \/ cb.h = "read" /\ cb.s = s /\ lastSockErrorNo # "0"
           \/ OnEventHangup(s)
           \/ Due(s, "WRITE") /\ sock[s].kst = "err"
<1>0. cb' # cb /\ cb'.s = s /\ cb'.h \in {"readDisc", "disc"} /\ cb \in CbType
  BY DEF OnDisconnected, Inv, TypeOK, CbType
<1>1. CASE LoopStep
  <2>1. CASE NextEntry
    BY <1>0, <2>1 DEF NextEntry
  <2>2. CASE OtherCallback
    <3>1. cb' = [Idle EXCEPT !.h = "other"]
      BY <2>2 DEF OtherCallback
    <3>2. cb'.h = "other"
      BY <3>1 DEF Idle
    <3> QED
      BY <1>0, <3>2
  <2>3. CASE OnReadReturns
    <3>1. cb' # Idle
      BY <1>0, IdleFacts
    <3>2. cb.h = "read" /\ lastSockErrorNo # "0" /\ cb' = [cb EXCEPT !.h = "readDisc"]
      BY <2>3, <3>1 DEF OnReadReturns
    <3>3. cb'.s = cb.s
      BY <1>0, <3>2 DEF CbType
    <3> QED
      BY <1>0, <3>2, <3>3
  <2>4. CASE OnEventReadReturns \/ HandlerReturns
    BY <1>0, <2>4, IdleFacts DEF OnEventReadReturns, HandlerReturns
  <2>5. ASSUME NEW x \in Socks, OnEventRead(x) PROVE FALSE
    <3>1. cb' = [h |-> IF sock[x].mIsListen THEN "incoming" ELSE "read", s |-> x]
      BY <2>5 DEF OnEventRead
    <3>2. cb'.h \in {"incoming", "read"}
      BY <3>1
    <3> QED
      BY <1>0, <3>2
  <2>6. ASSUME NEW x \in Socks, OnEventHangup(x) PROVE x = s
    <3>1. cb' = [h |-> "disc", s |-> x]
      BY <2>6 DEF OnEventHangup
    <3>2. cb'.s = x
      BY <3>1
    <3> QED
      BY <1>0, <3>2
  <2>7. ASSUME NEW x \in Socks, OnEventWrite(x) PROVE x = s /\ Due(s, "WRITE") /\ sock[s].kst = "err"
    <3>1. CASE cb' = [h |-> "conn", s |-> x]
      <4>1. cb'.h = "conn"
        BY <3>1
      <4> QED
        BY <1>0, <4>1
    <3>2. CASE cb' = [h |-> "write", s |-> x]
      <4>1. cb'.h = "write"
        BY <3>2
      <4> QED
        BY <1>0, <4>1
    <3>3. CASE cb' = [h |-> "disc", s |-> x] /\ sock[x].kst = "err"
      <4>1. cb'.s = x
        BY <3>3
      <4> QED
        BY <1>0, <2>7, <3>3, <4>1 DEF OnEventWrite
    <3> QED
      BY <2>7, <3>1, <3>2, <3>3 DEF OnEventWrite
  <2> QED
    BY <1>1, <2>1, <2>2, <2>3, <2>4, <2>5, <2>6, <2>7 DEF LoopStep
<1>2. CASE EpollWait
  BY <1>0, <1>2 DEF EpollWait
<1>3. ASSUME NEW x \in Socks, Call(x) PROVE FALSE
  <2>1. cb' = cb
    BY <1>3 DEF Call, OpenSock, Connect, ConnectUnix, BindSock, ListenSock, AcceptSock, RejectSock,
                Recv, CloseSock
  <2> QED
    BY <1>0, <2>1
<1>4. ASSUME NEW x \in Socks, PeerStep(x) PROVE FALSE
  <2>1. cb' = cb
    BY <1>4, PeerEffect
  <2> QED
    BY <1>0, <2>1
<1> QED
  BY <1>1, <1>2, <1>3, <1>4 DEF Next

\* Where handlers keep to their own socket, OnDisconnected is called only of a
\* connection that has ended or an attempt that failed: neither an error recv left
\* for another socket nor a hangup reported before makes it wrong.
THEOREM DisconnectTruthfulThm ==
    ASSUME CrossCalls = FALSE
    PROVE  Spec => DisconnectTruthful
<1>1. Inv /\ OwnInv /\ [Next]_vars =>
        [\A s \in Clients : OnDisconnected(s) => sock[s].kst \notin {"up", "connecting"}]_vars
  <2> SUFFICES ASSUME Inv, OwnInv, Next, NEW s \in Clients, OnDisconnected(s)
               PROVE  sock[s].kst \notin {"up", "connecting"}
    OBVIOUS
  <2>0. s \in Socks
    BY DEF Socks
  <2>1. CASE cb.h = "read" /\ cb.s = s /\ lastSockErrorNo # "0"
    BY <2>1 DEF OwnInv, ErrorInv, Over
  <2>2. CASE OnEventHangup(s)
    <3>1. Due(s, "HANGUP") /\ "HANGUP" \in FlagSet
      BY <2>2 DEF OnEventHangup, FlagSet
    <3>2. sock[s].kst \in Over \/ sock[s].kst = "fresh"
      BY <2>0, <3>1, DueFacts
    <3> QED
      BY <3>2 DEF Over
  <2>3. CASE sock[s].kst = "err"
    BY <2>3
  <2> QED
    BY <2>0, <2>1, <2>2, <2>3, WhoTells
<1> QED
  BY <1>1, OwnSafe, PTL DEF Spec, DisconnectTruthful

\* Where handlers keep to their own socket, OnDisconnected is called once of a
\* connection, though recv and a hangup in the same batch both find its end.
THEOREM DisconnectedOnceThm ==
    ASSUME CrossCalls = FALSE
    PROVE  Spec => DisconnectedOnce
<1>1. Inv /\ OwnInv /\ [Next]_vars => [\A s \in Socks : OnDisconnected(s) => s \notin told]_vars
  <2> SUFFICES ASSUME Inv, OwnInv, Next, NEW s \in Socks, OnDisconnected(s) PROVE s \notin told
    OBVIOUS
  <2>1. CASE cb.h = "read" /\ cb.s = s /\ lastSockErrorNo # "0"
    BY <2>1 DEF OwnInv, ErrorInv, ToldInv, Over, Open
  <2>2. CASE Due(s, "HANGUP") \/ Due(s, "WRITE")
    <3>1. cb = Idle /\ sock[s].kst # "none"
      BY <2>2, DueFacts DEF FlagSet
    <3> QED
      BY <3>1, IdleFacts, NotReading DEF Open
  <2> QED
    BY <2>1, <2>2, WhoTells DEF OnEventHangup
<1> QED
  BY <1>1, OwnSafe, PTL DEF Spec, DisconnectedOnce

\* Where handlers keep to their own socket, the socket that OnEventRead closes when
\* OnDisconnected has returned is the one whose end was reported: one the program
\* has closed and opened again in the handler is left alone.
THEOREM ClosesWhatEndedThm ==
    ASSUME CrossCalls = FALSE
    PROVE  Spec => ClosesWhatEnded
<1>1. Inv /\ OwnInv /\ [Next]_vars =>
        [cb.h = "readDisc" /\ cb' = Idle /\ sock' # sock => cb.s \in told]_vars
  <2> SUFFICES ASSUME Inv, OwnInv, Next, cb.h = "readDisc", cb' = Idle, sock' # sock
               PROVE  cb.s \in told
    OBVIOUS
  <2>0. cb' # cb /\ cb # Idle
    BY IdleFacts
  <2>1. OnEventReadReturns
    <3>1. CASE LoopStep
      BY <2>0, <3>1 DEF LoopStep, NextEntry, OtherCallback, OnReadReturns, HandlerReturns, Due,
                        OnEventRead, OnEventHangup, OnEventWrite
    <3>2. CASE EpollWait
      BY <2>0, <3>2 DEF EpollWait
    <3>3. ASSUME NEW x \in Socks, Call(x) PROVE FALSE
      BY <2>0, <3>3 DEF Call, OpenSock, Connect, ConnectUnix, BindSock, ListenSock, AcceptSock,
                        RejectSock, Recv, CloseSock
    <3>4. ASSUME NEW x \in Socks, PeerStep(x) PROVE FALSE
      BY <2>0, <3>4, PeerEffect
    <3> QED
      BY <3>1, <3>2, <3>3, <3>4 DEF Next
  <2>2. lastSockErrorNo # "0"
    BY <2>1 DEF OnEventReadReturns
  <2> QED
    BY <2>2 DEF OwnInv, ErrorInv
<1> QED
  BY <1>1, OwnSafe, PTL DEF Spec, ClosesWhatEnded

=============================================================================
