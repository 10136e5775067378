------------------------- MODULE SecureSocket_proofs -------------------------
(***************************************************************************)
(* Proofs about the writer of EdSmartSocket and about TLS over an EdSocket. *)
(***************************************************************************)
EXTENDS EdSmartSocket, EdSSL, TLAPS

LOCAL INSTANCE SequencesExt

-----------------------------------------------------------------------------
(***************************************************************************)
(* Sequences.                                                              *)
(***************************************************************************)

(* What concatenation gives, by index. *)
LEMMA ConcatFacts ==
    ASSUME NEW S, NEW s \in Seq(S), NEW t \in Seq(S)
    PROVE  /\ s \o t \in Seq(S) /\ Len(s) \in Nat /\ Len(t) \in Nat
           /\ Len(s \o t) = Len(s) + Len(t)
           /\ \A i \in 1..Len(s) : (s \o t)[i] = s[i]
           /\ \A i \in 1..Len(t) : (s \o t)[Len(s) + i] = t[i]
OBVIOUS

(* Sequences of the same length and elements are equal. *)
LEMMA SeqEqual ==
    ASSUME NEW S, NEW s \in Seq(S), NEW t \in Seq(S), Len(s) = Len(t),
           \A i \in 1..Len(s) : s[i] = t[i]
    PROVE  s = t
OBVIOUS

(* What SubSeq gives, by index. *)
LEMMA SubSeqFacts ==
    ASSUME NEW S, NEW s \in Seq(S), NEW k \in 0..Len(s), NEW n \in k..Len(s)
    PROVE  /\ SubSeq(s, k + 1, n) \in Seq(S) /\ Len(SubSeq(s, k + 1, n)) = n - k
           /\ \A i \in 1..n - k : SubSeq(s, k + 1, n)[i] = s[k + i]
OBVIOUS

(* The first n elements of a sequence, by index. *)
LEMMA HeadPart ==
    ASSUME NEW S, NEW s \in Seq(S), NEW n \in 0..Len(s)
    PROVE  /\ SubSeq(s, 1, n) \in Seq(S) /\ Len(SubSeq(s, 1, n)) = n
           /\ \A i \in 1..n : SubSeq(s, 1, n)[i] = s[i]
OBVIOUS

(* Concatenating nothing changes nothing. *)
LEMMA ConcatEmpty ==
    ASSUME NEW S, NEW s \in Seq(S)
    PROVE  s \o <<>> = s
OBVIOUS

(* A sequence is its first k elements and the rest. *)
LEMMA SplitSeq ==
    ASSUME NEW S, NEW s \in Seq(S), NEW k \in 0..Len(s)
    PROVE  SubSeq(s, 1, k) \o SubSeq(s, k + 1, Len(s)) = s
<1> DEFINE a == SubSeq(s, 1, k)
<1> DEFINE b == SubSeq(s, k + 1, Len(s))
<1>1. /\ a \in Seq(S) /\ Len(a) = k
      /\ \A i \in 1..k : a[i] = s[i]
  BY HeadPart
<1>2. /\ b \in Seq(S) /\ Len(b) = Len(s) - k
      /\ \A i \in 1..Len(s) - k : b[i] = s[k + i]
  <2>1. Len(s) \in k..Len(s)
    OBVIOUS
  <2> QED
    BY <2>1, SubSeqFacts
<1> HIDE DEF a, b
<1>3. /\ a \o b \in Seq(S) /\ Len(a \o b) = k + (Len(s) - k)
      /\ \A i \in 1..k : (a \o b)[i] = a[i]
      /\ \A i \in 1..Len(s) - k : (a \o b)[k + i] = b[i]
  BY <1>1, <1>2, ConcatFacts
<1>4. Len(s) \in Nat /\ k \in Nat /\ k <= Len(s) /\ Len(a \o b) = Len(s)
  BY <1>3
<1>5. ASSUME NEW i \in 1..Len(s) PROVE (a \o b)[i] = s[i]
  <2>1. CASE i <= k
    <3>1. i \in 1..k
      BY <1>4, <2>1
    <3> QED
      BY <1>1, <1>3, <3>1
  <2>2. CASE ~(i <= k)
    <3>1. i - k \in 1..Len(s) - k /\ k + (i - k) = i
      BY <1>4, <2>2
    <3> QED
      BY <1>2, <1>3, <3>1
  <2> QED
    BY <2>1, <2>2
<1>6. a \o b = s
  BY <1>3, <1>4, <1>5, SeqEqual
<1> QED
  BY <1>6 DEF a, b

(* A part of a part is a part. *)
LEMMA SubSub ==
    ASSUME NEW S, NEW s \in Seq(S), NEW c \in 0..Len(s), NEW k \in 0..Len(s) - c
    PROVE  SubSeq(SubSeq(s, c + 1, Len(s)), k + 1, Len(s) - c) = SubSeq(s, c + k + 1, Len(s))
<1> DEFINE b == SubSeq(s, c + 1, Len(s))
<1>0. Len(s) \in Nat /\ Len(s) \in c..Len(s) /\ c + k \in 0..Len(s) /\ Len(s) \in (c + k)..Len(s)
  OBVIOUS
<1>1. /\ b \in Seq(S) /\ Len(b) = Len(s) - c
      /\ \A i \in 1..Len(s) - c : b[i] = s[c + i]
  BY <1>0, SubSeqFacts
<1> DEFINE x == SubSeq(b, k + 1, Len(b))
<1> DEFINE y == SubSeq(s, (c + k) + 1, Len(s))
<1>2. /\ y \in Seq(S) /\ Len(y) = Len(s) - (c + k)
      /\ \A i \in 1..Len(s) - (c + k) : y[i] = s[(c + k) + i]
  BY <1>0, SubSeqFacts
<1> HIDE DEF b, y
<1>3. k \in 0..Len(b) /\ Len(b) \in k..Len(b)
  BY <1>0, <1>1
<1>4. /\ x \in Seq(S) /\ Len(x) = Len(b) - k
      /\ \A i \in 1..Len(b) - k : x[i] = b[k + i]
  BY <1>1, <1>3, SubSeqFacts
<1> HIDE DEF x
<1>5. Len(x) = Len(y)
  BY <1>0, <1>1, <1>2, <1>4
<1>6. ASSUME NEW i \in 1..Len(x) PROVE x[i] = y[i]
  <2>1. i \in 1..Len(b) - k /\ k + i \in 1..Len(s) - c /\ i \in 1..Len(s) - (c + k)
    BY <1>0, <1>1, <1>4
  <2>2. x[i] = s[c + (k + i)] /\ y[i] = s[(c + k) + i]
    BY <1>1, <1>2, <1>4, <2>1
  <2>3. c + (k + i) = (c + k) + i
    BY <1>0, <2>1
  <2> QED
    BY <2>2, <2>3
<1>7. x = y
  BY <1>2, <1>4, <1>5, <1>6, SeqEqual
<1> QED
  BY <1>1, <1>7 DEF b, x, y

(* Concatenation is associative. *)
LEMMA ConcatAssoc ==
    ASSUME NEW S, NEW a \in Seq(S), NEW b \in Seq(S), NEW c \in Seq(S)
    PROVE  (a \o b) \o c = a \o (b \o c)
OBVIOUS

(* A sequence is a prefix of any longer one built from it. *)
LEMMA PrefixConcat ==
    ASSUME NEW S, NEW s \in Seq(S), NEW t \in Seq(S)
    PROVE  IsPrefix(s, s \o t)
BY DEF IsPrefix

-----------------------------------------------------------------------------
(***************************************************************************)
(* TLS.  What the program was told follows from two things the code keeps: *)
(* a session has an SSL object, and on a connection that did not begin     *)
(* over an old SSL object, there is none before the connection is up.      *)
(***************************************************************************)

SslMasks == SUBSET {"READ", "WRITE", "HANGUP"}

SslTypeOK ==
    /\ sslCls \in {"smart", "ssl"}
    /\ tcp \in {"closed", "open", "connecting", "up", "fin", "reset"}
    /\ sslMask \in SslMasks
    /\ mSSL \in BOOLEAN /\ mSessionConencted \in BOOLEAN /\ sslPending \in BOOLEAN
    /\ mSSLWantEvent \in {"NONE", "READ", "WRITE"}
    /\ sslTold \in {"nothing", "connected", "disconnected", "wrong"}
    /\ sslCause \in SUBSET {"stale", "recv", "wantRead", "wantWrite", "failed"}
    /\ sslConns \in Nat

\* A pending write belongs to a session of EdSmartSocket, a session to an SSL
\* object.
SessionKept ==
    /\ sslPending => mSessionConencted /\ Smart
    /\ mSessionConencted => mSSL

\* What a connection that did not begin over an old SSL object has told.
Fresh ==
    "stale" \notin sslCause =>
        /\ sslTold # "wrong"
        /\ tcp # "closed" => sslTold = IF mSessionConencted THEN "connected" ELSE "nothing"
        /\ tcp \in {"open", "connecting"} => ~mSSL

SslInv == SslTypeOK /\ SessionKept /\ Fresh /\ SslPendingArmed

(* The orders in which a program may be told of events. *)
LEMMA ToldFacts ==
    /\ Told("nothing", "connected") = "connected"
    /\ Told("connected", "readable") = "connected"
    /\ Told("nothing", "disconnected") = "disconnected"
    /\ Told("connected", "disconnected") = "disconnected"
BY DEF Told

(* What a program can have been told. *)
LEMMA ToldType ==
    ASSUME NEW told, NEW ev
    PROVE  Told(told, ev) \in {"nothing", "connected", "disconnected", "wrong"}
BY DEF Told

(* The events asked for include the one OpenSSL wants. *)
LEMMA WantMaskFacts ==
    ASSUME NEW o
    PROVE  /\ WantMask(o) \in SslMasks
           /\ o = "wantWrite" => "WRITE" \in WantMask(o)
           /\ WantEvent(o) \in {"READ", "WRITE"}
BY DEF WantMask, WantEvent, SslMasks

(* The initial state satisfies the invariant. *)
LEMMA SslInitInv == SslInit => SslInv
<1> SUFFICES ASSUME SslInit PROVE SslInv
  OBVIOUS
<1>1. SslTypeOK
  BY SslClassesAssumption DEF SslInit, SslTypeOK, SslMasks
<1>2. SessionKept /\ Fresh /\ SslPendingArmed
  BY DEF SslInit, SessionKept, Fresh, SslPendingArmed
<1> QED
  BY <1>1, <1>2 DEF SslInv

\* The three ways in which procSSLConnect ends.
LEMMA SslProc ==
    ASSUME SslInv, NEW o \in Outcomes, NEW flags \in SslMasks, ProcSSLConnect(o, flags),
           tcp \in {"connecting", "up", "fin", "reset"}, ~mSessionConencted
    PROVE  SslInv'
<1>1. SslTypeOK'
  BY DEF SslInv, SslTypeOK, SslMasks, ProcSSLConnect, Told, ToldOfFailure, Closed, WantMask,
         WantEvent, Smart, IsOver, Outcomes
<1>2. SessionKept'
  BY DEF SslInv, SslTypeOK, SessionKept, ProcSSLConnect, Closed, Smart, Outcomes
<1>3. Fresh'
  <2>1. SUFFICES ASSUME "stale" \notin sslCause'
                 PROVE  /\ sslTold' # "wrong"
                        /\ tcp' # "closed" => sslTold' = IF mSessionConencted' THEN "connected" ELSE "nothing"
                        /\ tcp' \notin {"open", "connecting"}
    BY DEF Fresh
  <2>2. "stale" \notin sslCause
    BY <2>1 DEF ProcSSLConnect
  <2>3. sslTold = "nothing"
    BY <2>2 DEF SslInv, Fresh
  <2>4. CASE tcp' = "closed"
    <3>1. sslTold' = Told("nothing", "disconnected")
      BY <2>3, <2>4 DEF ProcSSLConnect, ToldOfFailure
    <3> QED
      BY <2>4, <3>1, ToldFacts
  <2> QED
    BY <2>3, ToldFacts DEF ProcSSLConnect, SslInv, SslTypeOK, Outcomes, Closed, ToldOfFailure
<1>4. SslPendingArmed'
  BY <1>2 DEF SslInv, SslTypeOK, SessionKept, SslPendingArmed, ProcSSLConnect, Closed, Outcomes
<1> QED
  BY <1>1, <1>2, <1>3, <1>4 DEF SslInv

(* Telling the program of the end of the connection keeps the invariant. *)
LEMMA SslEnds ==
    ASSUME SslInv, NEW told, SslDisconnected(told), tcp # "closed",
           mSSLWantEvent' \in {"NONE", "READ", "WRITE"},
           told \in {"nothing", "connected", "disconnected", "wrong"},
           "stale" \notin sslCause => told = sslTold
    PROVE  SslInv'
<1>0. /\ tcp' = "closed" /\ sslMask' = {}
      /\ \/ ~mSSL' /\ ~mSessionConencted' /\ ~sslPending'
         \/ UNCHANGED <<sessVars, sslPending>>
      /\ mSSL' \in BOOLEAN /\ mSessionConencted' \in BOOLEAN /\ sslPending' \in BOOLEAN
  <2>1. CASE Smart
    BY <2>1 DEF SslDisconnected, Closed, sessVars, SslInv, SslTypeOK
  <2>2. CASE ~Smart
    BY <2>2 DEF SslDisconnected, Closed
  <2> QED
    BY <2>1, <2>2
<1>1. SslTypeOK'
  <2>1. sslTold' \in {"nothing", "connected", "disconnected", "wrong"}
    BY ToldType DEF SslDisconnected
  <2>2. sslMask' \in SslMasks
    BY <1>0 DEF SslMasks
  <2> QED
    BY <1>0, <2>1, <2>2 DEF SslInv, SslTypeOK, SslDisconnected
<1>2. SessionKept'
  BY <1>0 DEF SslInv, SessionKept, SslDisconnected, Smart, sessVars
<1>3. Fresh'
  <2>1. SUFFICES ASSUME "stale" \notin sslCause' PROVE sslTold' # "wrong"
    BY DEF Fresh, SslDisconnected, Closed
  <2>2. "stale" \notin sslCause
    BY <2>1 DEF SslDisconnected
  <2>3. told \in {"nothing", "connected"}
    BY <2>2 DEF SslInv, Fresh
  <2> QED
    BY <2>3, ToldFacts DEF SslDisconnected
<1>4. SslPendingArmed'
  BY DEF SslPendingArmed, SslDisconnected, Closed
<1> QED
  BY <1>1, <1>2, <1>3, <1>4 DEF SslInv

(* A write of the pending buffer keeps the invariant, whatever OpenSSL answers. *)
LEMMA SslWrites ==
    ASSUME SslInv, NEW o \in Outcomes, WritePending(o), mSessionConencted, Smart,
           tcp \notin {"closed", "open", "connecting"} \/ "stale" \in sslCause,
           UNCHANGED <<sslCls, tcp, sessVars, sslTold, sslConns>>
    PROVE  SslInv'
<1> USE WantMaskFacts
<1>1. SslTypeOK'
  <2>1. sslMask' \in SslMasks
    <3>1. {"READ", "HANGUP"} \in SslMasks /\ sslMask \in SslMasks
      BY DEF SslMasks, SslInv, SslTypeOK
    <3> QED
      BY <3>1 DEF WritePending
  <2>2. mSSLWantEvent' \in {"NONE", "READ", "WRITE"} /\ sslPending' \in BOOLEAN
    BY DEF WritePending
  <2>3. sslCause' \in SUBSET {"stale", "recv", "wantRead", "wantWrite", "failed"}
    <3>1. sslCause' \in {sslCause, sslCause \cup {"wantRead"}, sslCause \cup {"failed"}}
      BY DEF WritePending
    <3> QED
      BY <3>1 DEF SslInv, SslTypeOK
  <2> QED
    BY <2>1, <2>2, <2>3 DEF SslInv, SslTypeOK, sessVars
<1>2. SessionKept'
  BY DEF SslInv, SessionKept, Smart, sessVars
<1>3. "stale" \in sslCause' <=> "stale" \in sslCause
  BY DEF WritePending
<1>4. Fresh'
  BY <1>3 DEF SslInv, Fresh, sessVars
<1>5. SslPendingArmed'
  <2>1. SUFFICES ASSUME sslPending', tcp = "up", sslCause' \cap {"stale", "recv", "wantRead", "failed"} = {}
                 PROVE  "WRITE" \in sslMask'
    BY DEF SslPendingArmed
  <2>2. o \in {"wantRead", "wantWrite"}
    BY <2>1 DEF WritePending, IsOver
  <2> QED
    BY <2>1, <2>2 DEF WritePending
<1> QED
  BY <1>1, <1>2, <1>4, <1>5 DEF SslInv

(* Every step of the SSL mode keeps the invariant. *)
LEMMA SslStep == SslInv /\ [SslNext]_sslVars => SslInv'
<1> SUFFICES ASSUME SslInv, [SslNext]_sslVars PROVE SslInv'
  OBVIOUS
<1>1. ASSUME NEW state \in {"open", "up"}, NEW flags \in SslMasks, NEW ssl \in BOOLEAN,
             Opened(state, flags, ssl), ssl = mSSL \/ (state = "up" /\ ssl)
      PROVE  SslInv'
  <2>1. SslTypeOK'
    BY <1>1 DEF SslInv, SslTypeOK, SslMasks, Opened
  <2>2. SessionKept'
    BY <1>1 DEF SslInv, SslTypeOK, SessionKept, Opened, Smart
  <2>3. Fresh'
    BY <1>1 DEF SslInv, SslTypeOK, SessionKept, Fresh, Opened
  <2>4. SslPendingArmed'
    BY <1>1 DEF SslInv, SslTypeOK, SessionKept, SslPendingArmed, Opened
  <2> QED
    BY <2>1, <2>2, <2>3, <2>4 DEF SslInv
<1>2. CASE OpenSSLClientSock
  BY <1>1, <1>2 DEF OpenSSLClientSock, SslMasks, SslInv, SslTypeOK
<1>3. CASE OpenSSLChildSock
  BY <1>1, <1>3 DEF OpenSSLChildSock, SslMasks
<1>4. CASE SslConnect
  BY <1>4 DEF SslConnect, SslInv, SslTypeOK, SslMasks, SessionKept, Fresh, SslPendingArmed, Smart,
              sessVars
<1>5. CASE SslClose
  BY <1>5 DEF SslClose, Closed, SslInv, SslTypeOK, SslMasks, SessionKept, Fresh, SslPendingArmed
<1>6. CASE PeerEnds
  BY <1>6 DEF PeerEnds, SslInv, SslTypeOK, SessionKept, Fresh, SslPendingArmed, Smart, sessVars
<1>7. CASE SslHangup
  <2>1. tcp # "closed" /\ mSSLWantEvent' = mSSLWantEvent /\ SslDisconnected(sslTold)
    BY <1>7 DEF SslHangup, IsOver
  <2> QED
    BY <2>1, SslEnds DEF SslInv, SslTypeOK
<1>8. CASE OnReadEnd
  <2>1. /\ tcp # "closed" /\ SslDisconnected(Told(sslTold, "readable"))
        /\ mSSLWantEvent' \in {"NONE", "READ", "WRITE"}
    BY <1>8 DEF OnReadEnd, SslReadEvent, SslInv, SslTypeOK
  <2>2. "stale" \notin sslCause => Told(sslTold, "readable") = sslTold
    BY <1>8, <2>1, ToldFacts DEF OnReadEnd, SslInv, Fresh
  <2> QED
    BY <2>1, <2>2, SslEnds, ToldType
<1>9. CASE SslReserveWrite
  BY <1>9 DEF SslReserveWrite, SslInv, SslTypeOK, SslMasks, SessionKept, Fresh, SslPendingArmed,
              Smart, sessVars
<1>10. CASE SslDone \/ UNCHANGED sslVars
  <2>1. UNCHANGED <<sslCls, tcp, sslMask, mSSL, mSessionConencted, mSSLWantEvent, sslPending,
                    sslTold, sslCause, sslConns>>
    BY <1>10 DEF SslDone, sslVars, sessVars
  <2>2. SslTypeOK'
    BY <2>1 DEF SslInv, SslTypeOK
  <2>3. SessionKept' /\ Fresh' /\ SslPendingArmed'
    BY <2>1 DEF SslInv, SessionKept, Fresh, SslPendingArmed, Smart
  <2> QED
    BY <2>2, <2>3 DEF SslInv
<1>11. ASSUME NEW o \in Outcomes, TcpConnected(o) PROVE SslInv'
  <2>1. CASE ~mSSL /\ ~mSessionConencted
    BY <1>11, <2>1, SslProc DEF TcpConnected, SslMasks
  <2>2. CASE mSSL \/ mSessionConencted
    <3>1. /\ tcp = "connecting" /\ tcp' = "up" /\ sslMask' = {"READ", "HANGUP"}
          /\ UNCHANGED <<sslCls, sessVars, mSSLWantEvent, sslPending, sslTold, sslCause, sslConns>>
      BY <1>11, <2>2 DEF TcpConnected
    <3>2. "stale" \in sslCause
      BY <2>2, <3>1 DEF SslInv, SessionKept, Fresh
    <3> QED
      BY <3>1, <3>2 DEF SslInv, SslTypeOK, SslMasks, SessionKept, Fresh, SslPendingArmed, Smart,
                        sessVars
  <2> QED
    BY <2>1, <2>2
<1>12. ASSUME NEW o \in Outcomes, SslAccept(o) \/ OnReadHandshake(o) \/ OnWriteHandshake(o)
       PROVE  SslInv'
  <2>1. ProcSSLConnect(o, sslMask) /\ tcp \in {"up", "fin", "reset"} /\ ~mSessionConencted
    BY <1>12 DEF SslAccept, OnReadHandshake, OnWriteHandshake, SslReadEvent, SslWriteEvent
  <2> QED
    BY <2>1, SslProc DEF SslInv, SslTypeOK
<1>13. ASSUME NEW o \in Outcomes, OnReadSession(o) PROVE SslInv'
  <2>1. /\ tcp \in {"up", "fin", "reset"} /\ mSessionConencted /\ sslTold' = Told(sslTold, "readable")
        /\ UNCHANGED <<sslCls, tcp, sessVars, sslPending, sslConns>>
    BY <1>13 DEF OnReadSession, SslReadEvent
  <2>2. SslTypeOK'
    <3>1. sslTold' \in {"nothing", "connected", "disconnected", "wrong"}
      BY <2>1, ToldType
    <3>2. sslMask' \in SslMasks
      BY <1>13, WantMaskFacts DEF OnReadSession, SslInv, SslTypeOK
    <3>3. mSSLWantEvent' \in {"NONE", "READ", "WRITE"}
      BY <1>13, WantMaskFacts DEF OnReadSession, SslInv, SslTypeOK
    <3>4. sslCause' \in SUBSET {"stale", "recv", "wantRead", "wantWrite", "failed"}
      BY <1>13 DEF OnReadSession, SslInv, SslTypeOK
    <3> QED
      BY <2>1, <3>1, <3>2, <3>3, <3>4 DEF SslInv, SslTypeOK, sessVars
  <2>3. "stale" \in sslCause' <=> "stale" \in sslCause
    BY <1>13 DEF OnReadSession
  <2>4. SessionKept' /\ Fresh'
    BY <2>1, <2>3, ToldFacts DEF SslInv, SessionKept, Fresh, Smart, sessVars
  <2>5. SslPendingArmed'
    BY <1>13, <2>1, WantMaskFacts DEF OnReadSession, SslInv, SslPendingArmed
  <2> QED
    BY <2>2, <2>4, <2>5 DEF SslInv
<1>14. ASSUME NEW o \in Outcomes, SendPacketSSL(o) PROVE SslInv'
  BY <1>14, SslWrites DEF SendPacketSSL, SslInv, SessionKept, Fresh, SslTypeOK
<1>15. ASSUME NEW o \in Outcomes, SslSend(o) PROVE SslInv'
  <2>1. ~Smart /\ UNCHANGED <<sslCls, tcp, sessVars, mSSLWantEvent, sslPending, sslTold, sslConns>>
    BY <1>15 DEF SslSend
  <2>2. SslTypeOK'
    BY <1>15, <2>1, WantMaskFacts DEF SslSend, SslInv, SslTypeOK, sessVars
  <2>3. "stale" \in sslCause' <=> "stale" \in sslCause
    BY <1>15 DEF SslSend
  <2>4. SessionKept' /\ Fresh' /\ SslPendingArmed'
    BY <2>1, <2>3 DEF SslInv, SessionKept, Fresh, SslPendingArmed, Smart, sessVars
  <2> QED
    BY <2>2, <2>4 DEF SslInv
<1>16. ASSUME NEW o \in Outcomes, OnWriteSession(o) PROVE SslInv'
  <2>1. /\ tcp \in {"up", "fin", "reset"} /\ Smart /\ mSessionConencted
        /\ UNCHANGED <<sslCls, tcp, sessVars, sslTold, sslConns>>
    BY <1>16 DEF OnWriteSession, SslWriteEvent
  <2>2. CASE sslPending
    BY <1>16, <2>1, <2>2, SslWrites DEF OnWriteSession
  <2>3. CASE ~sslPending
    <3>1. UNCHANGED <<sslPending, mSSLWantEvent, sslCause>>
      BY <1>16, <2>3 DEF OnWriteSession
    <3>2. sslMask' \in SslMasks
      BY <1>16, <2>3 DEF OnWriteSession, SslInv, SslTypeOK, SslMasks
    <3>3. SslTypeOK'
      BY <2>1, <3>1, <3>2 DEF SslInv, SslTypeOK, sessVars
    <3>4. SessionKept' /\ Fresh' /\ SslPendingArmed'
      BY <2>1, <2>3, <3>1 DEF SslInv, SessionKept, Fresh, SslPendingArmed, Smart, sessVars
    <3> QED
      BY <3>3, <3>4 DEF SslInv
  <2> QED
    BY <2>2, <2>3
<1> QED
  BY <1>2, <1>3, <1>4, <1>5, <1>6, <1>7, <1>8, <1>9, <1>10, <1>11, <1>12, <1>13, <1>14, <1>15,
     <1>16
  DEF SslNext

\* Whatever the order of handshake, reads, writes and the end of the connection,
\* and for both classes: NETEV_CONNECTED once and first, the end at most once and
\* last, on every connection that was not opened over an old SSL object.
THEOREM SslToldInOrderThm == SslSpec => []SslToldInOrder
<1>1. SslInv => SslToldInOrder
  BY DEF SslInv, Fresh, SslToldInOrder
<1> QED
  BY <1>1, SslInitInv, SslStep, PTL DEF SslSpec

\* A pending write of a session waits for write events, unless one of the named
\* causes has happened on the connection.
THEOREM SslPendingArmedThm == SslSpec => []SslPendingArmed
<1>1. SslInv => SslPendingArmed
  BY DEF SslInv
<1> QED
  BY <1>1, SslInitInv, SslStep, PTL DEF SslSpec

-----------------------------------------------------------------------------
(***************************************************************************)
(* The writer of EdSmartSocket, used as its comments ask for: a packet is  *)
(* copied (takebuffer FALSE), and the program calls close when it is told  *)
(* that the connection has ended.                                          *)
(*                                                                         *)
(* NothingDropped is not inductive: the bytes add up also while the        *)
(* connection is over but not yet closed, and a connection is up only      *)
(* after mPendingBuf was freed, or it would start with the bytes of the    *)
(* one before.                                                             *)
(***************************************************************************)

WriterUse == TakeModes \subseteq {FALSE} /\ ClosesAtEnd

Rest == IF mPendingBuf = NULL THEN <<>> ELSE Unwritten

PendingOfConn ==
    /\ conn # "closed" => conns >= 1
    /\ conn \in {"closed", "open", "connecting"} => mPendingBuf = NULL

BytesAddUp == conn # "closed" => sent = wire \o Rest

PendingArmed == conn = "up" /\ mPendingBuf # NULL => "WRITE" \in mask

WriterInv == TypeOK /\ PendingOfConn /\ BytesAddUp /\ PendingArmed

(* The initial state satisfies the invariant. *)
LEMMA WriterInitInv == Init => WriterInv
<1> SUFFICES ASSUME Init PROVE WriterInv
  OBVIOUS
<1>1. TypeOK
  BY MaxConnsAssumption, MaxBytesAssumption DEF Init, TypeOK, NULL, EVT_ALL
<1>2. PendingOfConn /\ BytesAddUp /\ PendingArmed
  BY DEF Init, PendingOfConn, BytesAddUp, PendingArmed
<1> QED
  BY <1>1, <1>2 DEF WriterInv

(* The next n bytes the program sends. *)
LEMMA NextBytesFacts ==
    ASSUME TypeOK, conns >= 1, NEW n \in Nat, Len(sent) + n <= MaxBytes
    PROVE  NextBytes(n) \in Seq(Bytes) /\ Len(NextBytes(n)) = n
<1>1. \A i \in 1..n : <<conns, Len(sent) + i>> \in Bytes
  <2>1. conns \in 1..MaxConns
    BY MaxConnsAssumption DEF TypeOK
  <2>2. \A i \in 1..n : Len(sent) + i \in 1..MaxBytes
    BY MaxBytesAssumption DEF TypeOK
  <2> QED
    BY <2>1, <2>2 DEF Bytes
<1> QED
  BY <1>1 DEF NextBytes

(* What is left of the pending buffer. *)
LEMMA UnwrittenFacts ==
    ASSUME TypeOK, mPendingBuf # NULL
    PROVE  /\ mPendingWriteCnt \in 0..Len(mPendingBuf) /\ mPendingSize = Len(mPendingBuf)
           /\ Len(mPendingBuf) \in Nat
           /\ Unwritten = SubSeq(mPendingBuf, mPendingWriteCnt + 1, Len(mPendingBuf))
           /\ Unwritten \in Seq(Bytes) /\ Len(Unwritten) = mPendingSize - mPendingWriteCnt
<1>1. /\ mPendingWriteCnt \in 0..Len(mPendingBuf) /\ mPendingSize = Len(mPendingBuf)
      /\ mPendingBuf \in Seq(Bytes) /\ Len(mPendingBuf) \in Nat
      /\ Len(mPendingBuf) \in mPendingWriteCnt..Len(mPendingBuf)
  BY DEF TypeOK
<1>2. Unwritten = SubSeq(mPendingBuf, mPendingWriteCnt + 1, Len(mPendingBuf))
  BY <1>1 DEF Unwritten
<1> QED
  BY <1>1, <1>2, SubSeqFacts

(* The part from the first to the last element is the sequence. *)
LEMMA WholeSeq ==
    ASSUME NEW S, NEW s \in Seq(S)
    PROVE  SubSeq(s, 1, Len(s)) = s
OBVIOUS

\* A packet is written in part, the rest copied.
LEMMA WriterSend ==
    ASSUME WriterInv, NEW n \in Sizes, SendPacket(n, FALSE)
    PROVE  WriterInv' /\ Stream!Write
<1>1. /\ conn = "up" /\ conn' = "up" /\ conns' = conns /\ mPendingBuf = NULL
      /\ Len(sent) + n <= MaxBytes /\ n \in Nat /\ n > 0
  BY SizesAssumption DEF SendPacket
<1> DEFINE buf == NextBytes(n)
<1>2. buf \in Seq(Bytes) /\ Len(buf) = n
  BY <1>1, NextBytesFacts DEF WriterInv, PendingOfConn
<1>3. PICK wret \in 0..n :
          /\ sent' = sent \o buf /\ wire' = wire \o SubSeq(buf, 1, wret)
          /\ IF wret = n THEN UNCHANGED <<pendVars, mask>> ELSE KeepCopy(buf, wret) /\ Arm
  BY <1>1 DEF SendPacket, Taken
<1> HIDE DEF buf
<1> DEFINE head == SubSeq(buf, 1, wret)
<1> DEFINE tail == SubSeq(buf, wret + 1, Len(buf))
<1>4. /\ head \in Seq(Bytes) /\ Len(head) = wret
      /\ tail \in Seq(Bytes) /\ Len(tail) = n - wret
      /\ head \o tail = buf
  <2>1. wret \in 0..Len(buf) /\ Len(buf) \in wret..Len(buf)
    BY <1>1, <1>2
  <2>2. head \in Seq(Bytes) /\ Len(head) = wret
    BY <1>2, <2>1, HeadPart
  <2>3. tail \in Seq(Bytes) /\ Len(tail) = n - wret
    BY <1>2, <2>1, SubSeqFacts
  <2> QED
    BY <1>2, <2>1, <2>2, <2>3, SplitSeq
<1>5. wire \in Seq(Bytes) /\ sent \in Seq(Bytes) /\ sent = wire
  BY <1>1, ConcatEmpty DEF WriterInv, TypeOK, BytesAddUp, Rest
<1>6. /\ sent' \in Seq(Bytes) /\ Len(sent') = Len(sent) + n /\ Len(sent) \in Nat
      /\ wire' \in Seq(Bytes)
      /\ wire' = wire \o head
      /\ sent' = wire' \o tail
  <2>1. /\ sent' \in Seq(Bytes) /\ Len(sent') = Len(sent) + n /\ Len(sent) \in Nat
    BY <1>2, <1>3, <1>5, ConcatFacts
  <2>2. wire' = wire \o head
    BY <1>3
  <2>3. wire' \in Seq(Bytes)
    BY <1>4, <1>5, <2>2, ConcatFacts
  <2>4. (wire \o head) \o tail = wire \o (head \o tail)
    <3> HIDE DEF head, tail
    <3>1. wire \in Seq(Bytes) /\ head \in Seq(Bytes) /\ tail \in Seq(Bytes)
      BY <1>4, <1>5
    <3> QED
      BY <3>1, ConcatAssoc
  <2> QED
    BY <1>3, <1>4, <1>5, <2>1, <2>2, <2>3, <2>4
<1>7. /\ mPendingBuf' = tail \/ (mPendingBuf' = NULL /\ tail = <<>>)
      /\ mPendingBuf' \in Seq(Bytes) /\ mPendingSize' \in Nat
      /\ mPendingWriteCnt' \in 0..mPendingSize'
      /\ mPendingBuf' # NULL => /\ Len(mPendingBuf') = mPendingSize' /\ mPendingWriteCnt' = 0
                                /\ mPendingBuf' = tail /\ mask' = EVT_ALL
      /\ mask' \subseteq EVT_ALL
  <2>1. CASE wret = n
    <3>1. UNCHANGED <<mPendingBuf, mPendingSize, mPendingWriteCnt, mask>>
      BY <1>3, <2>1 DEF pendVars
    <3>2. tail = <<>>
      BY <1>4, <2>1
    <3> QED
      BY <1>1, <3>1, <3>2 DEF WriterInv, TypeOK, NULL
  <2>2. CASE wret # n
    <3>1. KeepCopy(buf, wret) /\ Arm
      BY <1>3, <2>2
    <3>2. /\ mPendingBuf' = tail /\ mPendingSize' = n - wret /\ mPendingWriteCnt' = 0
          /\ mask' = EVT_ALL
      BY <1>2, <3>1 DEF KeepCopy, Arm
    <3>3. n - wret \in Nat /\ 0 \in 0..n - wret
      BY <1>1
    <3> HIDE DEF head, tail
    <3> QED
      BY <1>4, <3>2, <3>3
  <2> QED
    BY <2>1, <2>2
<1> HIDE DEF head, tail
<1>8. Rest' = tail
  <2>1. CASE mPendingBuf' = NULL
    BY <1>7, <2>1 DEF Rest, NULL
  <2>2. CASE mPendingBuf' # NULL
    <3>1. Rest' = SubSeq(mPendingBuf', 0 + 1, Len(mPendingBuf'))
      BY <1>7, <2>2 DEF Rest, Unwritten
    <3>2. SubSeq(tail, 1, Len(tail)) = tail
      BY <1>4, WholeSeq
    <3> QED
      BY <1>7, <2>2, <3>1, <3>2
  <2> QED
    BY <2>1, <2>2
<1>9. TypeOK'
  <2>1. Len(sent') <= MaxBytes
    BY <1>1, <1>6
  <2> QED
    BY <1>1, <1>6, <1>7, <2>1 DEF WriterInv, TypeOK
<1>10. PendingOfConn' /\ BytesAddUp'
  BY <1>1, <1>6, <1>8 DEF WriterInv, PendingOfConn, BytesAddUp
<1>11. PendingArmed'
  BY <1>7 DEF PendingArmed, EVT_ALL
<1>12. Stream!Write
  <2>1. IsPrefix(sent, sent')
    BY <1>2, <1>3, <1>5, PrefixConcat
  <2>2. IsPrefix(wire, wire') /\ IsPrefix(wire', sent')
    BY <1>4, <1>5, <1>6, PrefixConcat
  <2> QED
    BY <2>1, <2>2 DEF Stream!Write, Stream!IsPrefix, IsPrefix
<1> QED
  BY <1>9, <1>10, <1>11, <1>12 DEF WriterInv

\* A write event: a part of the pending buffer is written, or all of it.
LEMMA WriterOnWrite ==
    ASSUME WriterInv, NEW wret \in 0..MaxBytes, OnWritePending(wret)
    PROVE  WriterInv' /\ Stream!Write
<1>1. /\ conn = "up" /\ conn' = "up" /\ conns' = conns /\ sent' = sent
      /\ mPendingBuf # NULL /\ "WRITE" \in mask /\ Written(wret)
      /\ wire' = wire \o SubSeq(Unwritten, 1, wret)
      /\ TypeOK
  BY DEF OnWritePending, WriterInv
<1> DEFINE u == Unwritten
<1>2. /\ mPendingWriteCnt \in 0..Len(mPendingBuf) /\ mPendingSize = Len(mPendingBuf)
      /\ Len(mPendingBuf) \in Nat
      /\ u = SubSeq(mPendingBuf, mPendingWriteCnt + 1, Len(mPendingBuf))
      /\ u \in Seq(Bytes) /\ Len(u) = mPendingSize - mPendingWriteCnt
  BY <1>1, UnwrittenFacts
<1>3. wret \in 0..Len(u)
  BY <1>1 DEF OnWritePending, Taken
<1>4. sent = wire \o u /\ wire \in Seq(Bytes) /\ sent \in Seq(Bytes)
  BY <1>1 DEF WriterInv, TypeOK, BytesAddUp, Rest
<1> DEFINE head == SubSeq(u, 1, wret)
<1> DEFINE tail == SubSeq(u, wret + 1, Len(u))
<1>5. wire' = wire \o head
  BY <1>1
<1> HIDE DEF u
<1>6. /\ head \in Seq(Bytes) /\ Len(head) = wret
      /\ tail \in Seq(Bytes) /\ Len(tail) = Len(u) - wret
      /\ head \o tail = u
  <2>1. Len(u) \in wret..Len(u)
    BY <1>2, <1>3
  <2>2. head \in Seq(Bytes) /\ Len(head) = wret
    BY <1>2, <1>3, HeadPart
  <2>3. tail \in Seq(Bytes) /\ Len(tail) = Len(u) - wret
    BY <1>2, <1>3, <2>1, SubSeqFacts
  <2> QED
    BY <1>2, <1>3, <2>2, <2>3, SplitSeq
<1>7. wire' \in Seq(Bytes) /\ sent' = wire' \o tail
  <2>1. (wire \o head) \o tail = wire \o (head \o tail)
    <3> HIDE DEF head, tail
    <3>1. wire \in Seq(Bytes) /\ head \in Seq(Bytes) /\ tail \in Seq(Bytes)
      BY <1>4, <1>6
    <3> QED
      BY <3>1, ConcatAssoc, SMTT(30)
  <2>2. wire \o head \in Seq(Bytes)
    BY <1>4, <1>6, ConcatFacts
  <2> HIDE DEF head, tail
  <2> QED
    BY <1>1, <1>4, <1>5, <1>6, <2>1, <2>2
<1>10. Stream!Write
  <2>1. IsPrefix(sent, sent')
    BY <1>1, <1>4 DEF IsPrefix
  <2> HIDE DEF head, tail
  <2>2. IsPrefix(wire, wire') /\ IsPrefix(wire', sent')
    BY <1>4, <1>5, <1>6, <1>7, PrefixConcat
  <2> QED
    BY <2>1, <2>2 DEF Stream!Write, Stream!IsPrefix, IsPrefix
<1>8. CASE wret > 0 /\ mPendingWriteCnt + wret = mPendingSize
  <2>1. /\ mask' = {"READ", "HANGUP"} /\ mPendingBuf' = NULL
        /\ mPendingSize' = 0 /\ mPendingWriteCnt' = 0
    BY <1>1, <1>8 DEF Written
  <2>2. tail = <<>>
    BY <1>2, <1>3, <1>6, <1>8
  <2>3. Rest' = tail
    BY <2>1, <2>2 DEF Rest
  <2>4. TypeOK'
    <3>1. mPendingBuf' \in Seq(Bytes) /\ mPendingSize' \in Nat /\ mPendingWriteCnt' \in 0..mPendingSize'
      BY <2>1 DEF NULL
    <3>2. mask' \subseteq EVT_ALL
      BY <2>1 DEF EVT_ALL
    <3> QED
      BY <1>1, <1>7, <2>1, <3>1, <3>2 DEF TypeOK
  <2>5. PendingOfConn' /\ BytesAddUp' /\ PendingArmed'
    BY <1>1, <1>7, <2>1, <2>3 DEF WriterInv, PendingOfConn, BytesAddUp, PendingArmed
  <2> QED
    BY <1>10, <2>4, <2>5 DEF WriterInv
<1>9. CASE ~(wret > 0 /\ mPendingWriteCnt + wret = mPendingSize)
  <2>1. /\ mPendingWriteCnt' = mPendingWriteCnt + wret
        /\ mask' = mask /\ mPendingBuf' = mPendingBuf /\ mPendingSize' = mPendingSize
    BY <1>1, <1>9 DEF Written
  <2>2. wret \in 0..Len(mPendingBuf) - mPendingWriteCnt
    BY <1>2, <1>3
  <2>3. tail = SubSeq(mPendingBuf, mPendingWriteCnt + wret + 1, Len(mPendingBuf))
    <3>1. SubSeq(SubSeq(mPendingBuf, mPendingWriteCnt + 1, Len(mPendingBuf)), wret + 1,
                 Len(mPendingBuf) - mPendingWriteCnt)
            = SubSeq(mPendingBuf, mPendingWriteCnt + wret + 1, Len(mPendingBuf))
      BY <1>1, <1>2, <2>2, SubSub DEF TypeOK
    <3> QED
      BY <1>2, <3>1
  <2>4. Rest' = tail
    BY <1>1, <1>2, <2>1, <2>3 DEF Rest, Unwritten
  <2>5. TypeOK'
    <3>1. mPendingWriteCnt' \in 0..mPendingSize'
      BY <1>2, <2>1, <2>2
    <3> QED
      BY <1>1, <1>7, <2>1, <3>1 DEF TypeOK
  <2>6. PendingOfConn' /\ BytesAddUp' /\ PendingArmed'
    BY <1>1, <1>7, <2>1, <2>4 DEF WriterInv, PendingOfConn, BytesAddUp, PendingArmed
  <2> QED
    BY <1>10, <2>5, <2>6 DEF WriterInv
<1> QED
  BY <1>8, <1>9

\* The other actions write nothing: they leave the bytes and the pending buffer
\* as they are, or start a connection, or end one.
LEMMA WriterQuiet ==
    ASSUME WriterInv, UNCHANGED <<pendVars, streamVars>>,
           conn' \in {"closed", "open", "connecting", "up", "over"}, mask' \subseteq EVT_ALL,
           conn' # "closed" => conn # "closed",
           conn' \in {"closed", "open", "connecting"} => mPendingBuf = NULL,
           conn' = "up" /\ mPendingBuf # NULL => "WRITE" \in mask'
    PROVE  WriterInv'
<1>1. UNCHANGED <<mPendingBuf, mPendingSize, mPendingWriteCnt, conns, sent, wire>>
  BY DEF pendVars, streamVars
<1>2. TypeOK'
  BY <1>1 DEF WriterInv, TypeOK
<1>3. PendingOfConn' /\ BytesAddUp' /\ PendingArmed'
  BY <1>1 DEF WriterInv, PendingOfConn, BytesAddUp, Rest, Unwritten, PendingArmed
<1> QED
  BY <1>2, <1>3 DEF WriterInv

(* A new connection keeps the invariant and restarts the stream. *)
LEMMA WriterOpens ==
    ASSUME WriterInv, NEW state \in {"open", "up"}, NEW flags \in SUBSET EVT_ALL,
           NewConn(state, flags)
    PROVE  WriterInv' /\ Stream!Reopen
<1>1. /\ mPendingBuf = NULL /\ conn' = state /\ mask' = flags /\ conns' = conns + 1
      /\ conns < MaxConns /\ sent' = <<>> /\ wire' = <<>> /\ conns \in 0..MaxConns
      /\ UNCHANGED <<mPendingBuf, mPendingSize, mPendingWriteCnt>>
  BY DEF NewConn, pendVars, WriterInv, PendingOfConn, TypeOK
<1>2. TypeOK'
  <2>1. conns' \in 0..MaxConns
    BY <1>1, MaxConnsAssumption
  <2>2. sent' \in Seq(Bytes) /\ wire' \in Seq(Bytes) /\ Len(sent') = 0
    BY <1>1
  <2> QED
    BY <1>1, <2>1, <2>2, MaxBytesAssumption DEF WriterInv, TypeOK
<1>3. Rest' = <<>>
  BY <1>1 DEF Rest
<1>4. PendingOfConn' /\ BytesAddUp' /\ PendingArmed'
  BY <1>1, <1>3 DEF PendingOfConn, BytesAddUp, PendingArmed
<1> QED
  BY <1>1, <1>2, <1>4 DEF WriterInv, Stream!Reopen

(* Closing frees the pending buffer and keeps the invariant. *)
LEMMA WriterCloses ==
    ASSUME WriterInv, conn' = "closed", mask' = {}, FreePending, UNCHANGED streamVars
    PROVE  WriterInv'
<1>1. /\ mPendingBuf' = NULL /\ UNCHANGED <<mPendingSize, mPendingWriteCnt, conns, sent, wire>>
  BY DEF FreePending, streamVars
<1>2. TypeOK'
  <2>1. mPendingBuf' \in Seq(Bytes)
    BY <1>1 DEF NULL
  <2> QED
    BY <1>1, <2>1 DEF WriterInv, TypeOK
<1>3. PendingOfConn' /\ BytesAddUp' /\ PendingArmed'
  BY <1>1 DEF PendingOfConn, BytesAddUp, PendingArmed
<1> QED
  BY <1>2, <1>3 DEF WriterInv

(* Every step keeps the invariant and is a step of the stream, or none. *)
LEMMA WriterStep ==
    ASSUME WriterUse, WriterInv, [Next]_vars
    PROVE  WriterInv' /\ [Stream!Next]_<<sent, wire>>
<1>1. CASE OpenClient \/ OpenChild
  <2>1. {} \in SUBSET EVT_ALL /\ {"READ", "HANGUP"} \in SUBSET EVT_ALL
    BY DEF EVT_ALL
  <2> QED
    BY <1>1, <2>1, WriterOpens DEF OpenClient, OpenChild, Stream!Next
<1>2. CASE Connect \/ Connected \/ Ends \/ ReserveWrite \/ OnWriteReserved \/ Done \/ UNCHANGED vars
  <2>1. UNCHANGED <<pendVars, streamVars>> /\ sent' = sent /\ wire' = wire
    BY <1>2 DEF Connect, Connected, Ends, ReserveWrite, OnWriteReserved, Done, vars, streamVars
  <2>2. mask' \subseteq EVT_ALL
    BY <1>2 DEF Connect, Connected, Ends, ReserveWrite, OnWriteReserved, Done, vars, EVT_ALL,
                WriterInv, TypeOK
  <2>3. /\ conn' \in {"closed", "open", "connecting", "up", "over"}
        /\ conn' # "closed" => conn # "closed"
        /\ conn' \in {"closed", "open", "connecting"} => mPendingBuf = NULL
    BY <1>2 DEF Connect, Connected, Ends, ReserveWrite, OnWriteReserved, Done, vars,
                WriterInv, TypeOK, PendingOfConn
  <2>4. conn' = "up" /\ mPendingBuf # NULL => "WRITE" \in mask'
    BY <1>2 DEF Connect, Connected, Ends, ReserveWrite, OnWriteReserved, Done, vars, EVT_ALL,
                WriterInv, PendingOfConn, PendingArmed
  <2> QED
    BY <2>1, <2>2, <2>3, <2>4, WriterQuiet
<1>3. CASE Close \/ FireDisconnected
  <2>1. conn' = "closed" /\ mask' = {} /\ FreePending /\ UNCHANGED streamVars
    BY <1>3 DEF Close, FireDisconnected, WriterUse
  <2> QED
    BY <2>1, WriterCloses DEF streamVars
<1>4. ASSUME NEW n \in Sizes, NEW takebuffer \in TakeModes, SendPacket(n, takebuffer)
      PROVE  WriterInv' /\ Stream!Write
  <2>1. SendPacket(n, FALSE)
    BY <1>4 DEF WriterUse
  <2> QED
    BY <2>1, WriterSend
<1>5. CASE OnWrite
  BY <1>5, WriterOnWrite DEF OnWrite, Stream!Next
<1> QED
  BY <1>1, <1>2, <1>3, <1>4, <1>5 DEF Next, Stream!Next

\* For packets of any size, any number of connections and whatever parts write
\* takes: while the connection is up, the bytes accepted and not yet taken by
\* the kernel are in the pending buffer, and write events are asked for.
THEOREM NothingDroppedThm ==
    ASSUME WriterUse PROVE Spec => []NothingDropped
<1>1. WriterInv => NothingDropped
  BY DEF WriterInv, BytesAddUp, PendingArmed, Rest, NothingDropped
<1>2. WriterInv /\ [Next]_vars => WriterInv'
  BY WriterStep
<1> QED
  BY <1>1, <1>2, WriterInitInv, PTL DEF Spec

\* The writer implements ByteStream: the kernel gets the accepted bytes in order
\* and each once, and none of a former connection.
THEOREM WriterIsByteStream ==
    ASSUME WriterUse PROVE Spec => IsByteStream
<1>1. Init => Stream!Init
  BY DEF Init, Stream!Init
<1>2. WriterInv /\ [Next]_vars => WriterInv' /\ [Stream!Next]_<<sent, wire>>
  BY WriterStep
<1> QED
  BY <1>1, <1>2, WriterInitInv, PTL DEF Spec, IsByteStream, Stream!Spec

=============================================================================
