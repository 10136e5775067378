------------------------- MODULE EdTimerPool_proofs -------------------------
(***************************************************************************)
(* Proof that the timer pool keeps its deadlines.                          *)
(***************************************************************************)
EXTENDS EdTimerPool, FiniteSetTheorems, WellFoundedInduction, TLAPS

-----------------------------------------------------------------------------
(***************************************************************************)
(* Numbers.                                                                *)
(***************************************************************************)

\* A nonempty set of natural numbers has a least element.
LEMMA LeastNat ==
    ASSUME NEW T, T \subseteq Nat, T # {}
    PROVE  \E x \in T : \A y \in T : x <= y
<1> DEFINE R == {p \in Nat \X Nat : p[1] < p[2]}
<1>1. IsWellFoundedOn(R, Nat)
    BY NatLessThanWellFounded DEF OpToRel
<1>2. \A a, b \in Nat : a < b => <<a, b>> \in R
    OBVIOUS
<1> HIDE DEF R
<1>3. PICK x \in T : \A y \in T : ~ (<<y, x>> \in R)
    BY <1>1, WFMin
<1>4. \A y \in T : ~ (y < x)
    BY <1>2, <1>3
<1>5. \A y \in T : x \in Nat /\ y \in Nat
    OBVIOUS
<1> QED
    BY <1>4, <1>5

(* The minimum of a non-empty set of numbers is in it and is a lower bound. *)
LEMMA MinFacts ==
    ASSUME NEW T, T \subseteq Nat, T # {}
    PROVE  Min(T) \in T /\ \A y \in T : Min(T) <= y
<1>1. \E x \in T : \A y \in T : x <= y
    BY LeastNat
<1> QED
    BY <1>1 DEF Min

\* A finite set of natural numbers has a greatest element: a smallest set
\* without one would lose it with any of its elements.
LEMMA MaxFacts ==
    ASSUME NEW S, S \subseteq Nat, S # {}, IsFiniteSet(S)
    PROVE  Max(S) \in S /\ \A y \in S : y <= Max(S)
<1> DEFINE HasMax(X) == \E x \in X : \A y \in X : y <= x
           Bad == {X \in SUBSET S : X # {} /\ ~ HasMax(X)}
           Sizes == {Cardinality(X) : X \in Bad}
<1>1. ASSUME Bad # {} PROVE FALSE
    <2>1. \A X \in SUBSET S : IsFiniteSet(X) /\ Cardinality(X) \in Nat
        BY FS_Subset, FS_CardinalityType
    <2>2. Sizes \subseteq Nat /\ Sizes # {}
        BY <1>1, <2>1
    <2>3. PICK k \in Sizes : \A j \in Sizes : k <= j
        BY <2>2, LeastNat
    <2>4. PICK X \in Bad : k = Cardinality(X)
        BY <2>3
    <2>5. PICK x \in X : x \in Nat
        BY <2>4
    <2>6. /\ IsFiniteSet(X \ {x}) /\ Cardinality(X \ {x}) = k - 1
          /\ Cardinality(X \ {x}) \in Nat /\ k \in Nat
        BY <2>1, <2>4, <2>5, FS_RemoveElement, FS_CardinalityType
    <2>7. X \ {x} \notin Bad
        <3>1. ~ (k <= k - 1)
            BY <2>6
        <3> QED
            BY <2>3, <2>6, <3>1
    <2>8. CASE X \ {x} = {}
        <3>1. \A y \in X : y <= x
            BY <2>5, <2>8
        <3> QED
            BY <3>1, <2>4, <2>5
    <2>9. CASE X \ {x} # {}
        <3>1. HasMax(X \ {x})
            BY <2>4, <2>7, <2>9
        <3>2. PICK m \in X \ {x} : \A y \in X \ {x} : y <= m
            BY <3>1
        <3>3. m \in Nat /\ X \subseteq Nat
            BY <2>4, <3>2
        <3>4. CASE x <= m
            <4>1. \A y \in X : y <= m
                BY <3>2, <3>4
            <4> QED
                BY <4>1, <3>2, <2>4
        <3>5. CASE ~ (x <= m)
            <4>1. \A y \in X : y <= x
                BY <3>2, <3>3, <3>5, <2>5
            <4> QED
                BY <4>1, <2>4, <2>5
        <3> QED
            BY <3>4, <3>5
    <2> QED
        BY <2>8, <2>9
<1>2. PICK x \in S : \A y \in S : y <= x
    BY <1>1
<1>3. \A y \in S : x >= y
    BY <1>2
<1>4. Max(S) \in S /\ \A y \in S : Max(S) >= y
    BY <1>3 DEF Max
<1> QED
    BY <1>4

\* Reading a periodic timer that expired at a: its next expiry is the first one
\* after now, and at most one interval away.
LEMMA ReloadFacts ==
    ASSUME NEW a \in Nat, NEW n \in Nat, NEW e \in Nat \ {0}, a <= n
    PROVE  LET r == a + e * ((n - a) \div e + 1) IN
               r \in Nat /\ n < r /\ r <= n + e
<1> DEFINE q == (n - a) \div e
<1>1. q \in Nat /\ e * q <= n - a /\ n - a < e * q + e
    OBVIOUS
<1>2. e * (q + 1) = e * q + e
    BY <1>1
<1>3. e * q \in Nat
    BY <1>1
<1> QED
    BY <1>1, <1>2, <1>3

-----------------------------------------------------------------------------
(***************************************************************************)
(* The inductive invariant.  PoolDeadlinesKept speaks of the deadlines;    *)
(* the code compares with _nearTp alone, so that the invariant says that   *)
(* _nearTp is no later than any of them and _mainTimer no later than       *)
(* _nearTp.  That an expiry without timers leaves _mainTimer armed needs   *)
(* the bound on its interval.                                              *)
(***************************************************************************)

Longest == Max(Firsts \cup Periods)

Timer == [fireTp : Nat, period : 1..Longest]

PoolTypeOK ==
    /\ now \in 0..MaxTime
    /\ DOMAIN timerMap \subseteq Handles
    /\ timerMap \in [DOMAIN timerMap -> Timer]
    /\ nearTp \in Nat
    /\ mainTimer \in [at : Nat, every : Nat]
    /\ handleSeed \in 0..MaxHandle
    /\ poolPc \in {"idle", "fire"}
    /\ poolCause \subseteq {"zero", "late", "empty"}

\* _nearTp is no later than any deadline, and no deadline is further away than
\* the longest time a timer was set to.
NearInv ==
    /\ \A h \in DOMAIN timerMap :
           nearTp <= timerMap[h].fireTp /\ timerMap[h].fireTp <= now + Longest
    /\ nearTp = Infinity \/ nearTp <= now + Longest

\* An armed _mainTimer expires again within its interval.
MainInv ==
    mainTimer.at < Infinity =>
        /\ mainTimer.every \in 1..Longest
        /\ mainTimer.at <= now + mainTimer.every

\* A pool that is not open has no timers; one that is open and between two rounds
\* watches _nearTp unless one of the causes has happened.
WatchInv ==
    /\ ~ poolOpen => timerMap = <<>> /\ mainTimer = Killed /\ poolCause = {} /\ poolPc = "idle"
    /\ poolOpen /\ poolPc = "idle" =>
           /\ poolCause = {} => mainTimer.at <= nearTp
           /\ poolCause = {"empty"} => mainTimer.at < Infinity

PoolInv == PoolTypeOK /\ NearInv /\ MainInv /\ WatchInv

(* Every time given to a timer is at most Longest; Infinity is beyond every deadline. *)
LEMMA LongestFacts ==
    /\ Longest \in Nat \ {0} /\ Firsts \subseteq 0..Longest /\ Periods \subseteq 1..Longest
    /\ MaxTime \in Nat /\ Infinity = MaxTime + Longest + 1 /\ Infinity \in Nat
<1>1. Firsts \cup Periods \subseteq Nat /\ Firsts \cup Periods # {}
      /\ IsFiniteSet(Firsts \cup Periods)
    BY FirstsAssumption, PeriodsAssumption, FS_Union
<1>2. Longest \in Firsts \cup Periods /\ \A y \in Firsts \cup Periods : y <= Longest
    BY <1>1, MaxFacts DEF Longest
<1>3. Firsts \subseteq 0..Longest /\ Periods \subseteq 1..Longest
    BY <1>1, <1>2, FirstsAssumption, PeriodsAssumption
<1>4. Longest \in Nat \ {0}
    <2>1. PICK p \in Periods : p \in 1..Longest
        BY <1>3, PeriodsAssumption
    <2> QED
        BY <1>1, <1>2, <2>1
<1>5. Infinity = MaxTime + Longest + 1
    BY DEF Infinity, Longest
<1> QED
    BY <1>3, <1>4, <1>5, MaxTimeAssumption

\* A map without timers is the empty one.
LEMMA EmptyMap ==
    ASSUME NEW f, NEW S, f \in [DOMAIN f -> S], f # <<>>
    PROVE  DOMAIN f # {}
OBVIOUS

(* The initial state satisfies the invariant. *)
LEMMA PoolInitial == PoolInit => PoolInv
<1> SUFFICES ASSUME PoolInit PROVE PoolInv
    OBVIOUS
<1> USE DEF PoolInit
<1>1. DOMAIN timerMap = {} /\ timerMap \in [{} -> Timer]
    OBVIOUS
<1>2. PoolTypeOK
    BY <1>1, LongestFacts, MaxHandleAssumption DEF PoolTypeOK, Killed
<1>3. NearInv
    BY <1>1, LongestFacts DEF NearInv
<1>4. MainInv
    BY LongestFacts DEF MainInv, Killed
<1>5. WatchInv
    BY DEF WatchInv
<1> QED
    BY <1>2, <1>3, <1>4, <1>5 DEF PoolInv

\* What setting _mainTimer to us microseconds does.
LEMMA ProgrammedFacts ==
    ASSUME now \in Nat, NEW us \in Nat
    PROVE  /\ Programmed(us) \in [at : Nat, every : Nat]
           /\ us = 0 => Programmed(us).at = Infinity
           /\ us # 0 => Programmed(us).at = now + us /\ Programmed(us).every = us
BY LongestFacts DEF Programmed

(* open keeps the invariant. *)
LEMMA PoolOpenStep == PoolInv /\ PoolOpen => PoolInv'
<1> SUFFICES ASSUME PoolInv, PoolOpen PROVE PoolInv'
    OBVIOUS
<1> USE DEF PoolInv, PoolOpen
<1>0. DOMAIN timerMap = {} /\ mainTimer.at = Infinity /\ poolCause = {}
    BY DEF WatchInv, Killed
<1>1. PoolTypeOK'
    BY LongestFacts DEF PoolTypeOK
<1>2. NearInv'
    BY <1>0 DEF NearInv
<1>3. MainInv'
    BY DEF MainInv, Infinity
<1>4. WatchInv'
    BY <1>0, LongestFacts DEF WatchInv
<1> QED
    BY <1>1, <1>2, <1>3, <1>4

(* close keeps the invariant. *)
LEMMA PoolCloseStep == PoolInv /\ PoolClose => PoolInv'
<1> SUFFICES ASSUME PoolInv, PoolClose PROVE PoolInv'
    OBVIOUS
<1> USE DEF PoolInv, PoolClose
<1>0. DOMAIN timerMap' = {} /\ timerMap' \in [{} -> Timer]
    OBVIOUS
<1>1. PoolTypeOK'
    BY <1>0, LongestFacts DEF PoolTypeOK, Killed
<1>2. NearInv'
    BY <1>0 DEF NearInv
<1>3. MainInv'
    BY LongestFacts DEF MainInv, Killed
<1>4. WatchInv'
    BY DEF WatchInv
<1> QED
    BY <1>1, <1>2, <1>3, <1>4

\* A timer that is set becomes the nearest one, or _nearTp is no later than it.
LEMMA SetTimerStep ==
    ASSUME NEW handle \in 0..MaxHandle, NEW first \in Firsts, NEW period \in Periods,
           PoolInv, SetTimerUs(handle, first, period)
    PROVE  PoolInv'
<1> DEFINE h == IF handle = 0 THEN NextHandle ELSE handle
<1> DEFINE t == [fireTp |-> now + first, period |-> period]
<1>0. NextHandle \in Handles
    <2>1. handleSeed \in Nat
        BY MaxHandleAssumption DEF PoolInv, PoolTypeOK
    <2> QED
        BY <2>1, MaxHandleAssumption DEF NextHandle, Handles
<1>1. h \in Handles
    BY <1>0, MaxHandleAssumption DEF Handles
<1>2. /\ now' = now /\ poolOpen' = poolOpen /\ poolPc' = poolPc /\ poolOpen
      /\ timerMap' = [g \in DOMAIN timerMap \cup {h} |-> IF g = h THEN t ELSE timerMap[g]]
    BY DEF SetTimerUs, WithTimer
<1>3. /\ first \in Nat /\ first <= Longest /\ period \in 1..Longest
      /\ now \in Nat /\ now <= MaxTime /\ nearTp \in Nat
      /\ Longest \in Nat /\ MaxTime \in Nat /\ Infinity \in Nat
      /\ Infinity = MaxTime + Longest + 1
    BY LongestFacts DEF PoolInv, PoolTypeOK
<1>4. t \in Timer /\ t.fireTp = now + first
    BY <1>3 DEF Timer
<1> HIDE DEF h, t
<1>5. /\ DOMAIN timerMap' = DOMAIN timerMap \cup {h}
      /\ timerMap' \in [DOMAIN timerMap' -> Timer]
      /\ DOMAIN timerMap' \subseteq Handles
      /\ \A g \in DOMAIN timerMap' :
             (timerMap'[g] = t) \/ (g \in DOMAIN timerMap /\ timerMap'[g] = timerMap[g])
    BY <1>1, <1>2, <1>4 DEF PoolInv, PoolTypeOK
<1>6. handleSeed' \in 0..MaxHandle
    <2>1. NextHandle \in 0..MaxHandle
        BY <1>0, MaxHandleAssumption DEF Handles
    <2> QED
        BY <2>1 DEF SetTimerUs, PoolInv, PoolTypeOK
<1>7. CASE now + first < nearTp
    <2>1. /\ nearTp' = now + first /\ mainTimer' = Programmed(first)
          /\ poolCause' = IF first = 0 THEN poolCause \cup {"zero"} ELSE poolCause
        BY <1>7 DEF SetTimerUs, Nearer
    <2>2. /\ mainTimer' \in [at : Nat, every : Nat]
          /\ first = 0 => mainTimer'.at = Infinity
          /\ first # 0 => mainTimer'.at = now + first /\ mainTimer'.every = first
        BY <2>1, <1>3, ProgrammedFacts
    <2>3. PoolTypeOK'
        BY <1>2, <1>3, <1>5, <1>6, <2>1, <2>2 DEF PoolInv, PoolTypeOK
    <2>4. NearInv'
        <3>1. ASSUME NEW g \in DOMAIN timerMap'
              PROVE  /\ nearTp' <= timerMap'[g].fireTp
                     /\ timerMap'[g].fireTp <= now' + Longest
            <4>1. CASE timerMap'[g] = t
                BY <4>1, <1>2, <1>3, <1>4, <2>1
            <4>2. CASE g \in DOMAIN timerMap /\ timerMap'[g] = timerMap[g]
                <5>1. /\ timerMap[g].fireTp \in Nat /\ nearTp <= timerMap[g].fireTp
                      /\ timerMap[g].fireTp <= now + Longest
                    BY <4>2 DEF PoolInv, PoolTypeOK, NearInv, Timer
                <5> QED
                    BY <5>1, <4>2, <1>2, <1>3, <1>7, <2>1
            <4> QED
                BY <1>5, <4>1, <4>2
        <3> QED
            BY <3>1, <2>1, <1>2, <1>3 DEF NearInv
    <2>5. MainInv'
        BY <1>2, <1>3, <2>2 DEF MainInv, Infinity
    <2>6. WatchInv'
        <3>1. poolPc = "idle" /\ poolCause' = {} => mainTimer'.at <= nearTp'
            BY <1>3, <2>1, <2>2
        <3>2. poolPc = "idle" /\ poolCause' = {"empty"} => mainTimer'.at < Infinity
            BY <1>3, <2>1, <2>2
        <3> QED
            BY <1>2, <3>1, <3>2 DEF WatchInv, Infinity
    <2> QED
        BY <2>3, <2>4, <2>5, <2>6 DEF PoolInv
<1>8. CASE ~ (now + first < nearTp)
    <2>1. nearTp' = nearTp /\ mainTimer' = mainTimer /\ poolCause' = poolCause
        BY <1>8 DEF SetTimerUs, Nearer
    <2>3. PoolTypeOK'
        BY <1>2, <1>3, <1>5, <1>6, <2>1 DEF PoolInv, PoolTypeOK
    <2>4. NearInv'
        <3>1. ASSUME NEW g \in DOMAIN timerMap'
              PROVE  /\ nearTp' <= timerMap'[g].fireTp
                     /\ timerMap'[g].fireTp <= now' + Longest
            <4>1. CASE timerMap'[g] = t
                BY <4>1, <1>2, <1>3, <1>4, <1>8, <2>1
            <4>2. CASE g \in DOMAIN timerMap /\ timerMap'[g] = timerMap[g]
                BY <4>2, <1>2, <2>1 DEF PoolInv, NearInv
            <4> QED
                BY <1>5, <4>1, <4>2
        <3> QED
            BY <3>1, <2>1, <1>2 DEF PoolInv, NearInv, Infinity
    <2>5. MainInv'
        BY <1>2, <2>1 DEF PoolInv, MainInv, Infinity
    <2>6. WatchInv'
        BY <1>2, <2>1 DEF PoolInv, WatchInv, Infinity
    <2> QED
        BY <2>3, <2>4, <2>5, <2>6 DEF PoolInv
<1> QED
    BY <1>7, <1>8

(* killTimer keeps the invariant. *)
LEMMA KillTimerStep ==
    ASSUME NEW h \in Handles, PoolInv, PoolKillTimer(h)
    PROVE  PoolInv'
<1> USE DEF PoolInv, PoolKillTimer
<1>0. /\ DOMAIN timerMap' = DOMAIN timerMap \ {h}
      /\ timerMap' \in [DOMAIN timerMap' -> Timer]
      /\ \A g \in DOMAIN timerMap' : g \in DOMAIN timerMap /\ timerMap'[g] = timerMap[g]
    BY DEF PoolTypeOK
<1>1. PoolTypeOK'
    BY <1>0 DEF PoolTypeOK
<1>2. NearInv'
    BY <1>0 DEF NearInv, Infinity
<1>3. MainInv'
    BY DEF MainInv, Infinity
<1>4. WatchInv'
    BY DEF WatchInv, Infinity
<1> QED
    BY <1>1, <1>2, <1>3, <1>4

\* An expiry moves deadlines on, never past the longest time from now; without
\* timers _mainTimer stays armed.
LEMMA ScheduleStep == PoolInv /\ ScheduleTimer => PoolInv'
<1> SUFFICES ASSUME PoolInv, ScheduleTimer PROVE PoolInv'
    OBVIOUS
<1>1. /\ poolOpen /\ poolOpen' = poolOpen /\ poolPc = "idle"
      /\ now' = now /\ handleSeed' = handleSeed
      /\ mainTimer.at <= now /\ mainTimer' = Reloaded
    BY DEF ScheduleTimer
<1>2. /\ now \in Nat /\ now <= MaxTime /\ nearTp \in Nat
      /\ mainTimer \in [at : Nat, every : Nat] /\ mainTimer.at \in Nat
      /\ Longest \in Nat /\ MaxTime \in Nat /\ Infinity \in Nat
      /\ Infinity = MaxTime + Longest + 1
    BY LongestFacts DEF PoolInv, PoolTypeOK
<1>3. mainTimer.every \in Nat \ {0} /\ mainTimer.every <= Longest
    BY <1>1, <1>2 DEF PoolInv, MainInv
<1>4. /\ mainTimer' \in [at : Nat, every : Nat]
      /\ mainTimer'.every = mainTimer.every
      /\ mainTimer'.at \in Nat /\ mainTimer'.at <= now + mainTimer.every
    <2> DEFINE r == mainTimer.at
                      + mainTimer.every * ((now - mainTimer.at) \div mainTimer.every + 1)
    <2>1. r \in Nat /\ r <= now + mainTimer.every
        BY <1>1, <1>2, <1>3, ReloadFacts
    <2>2. mainTimer' = [mainTimer EXCEPT !.at = r]
        BY <1>1 DEF Reloaded
    <2> HIDE DEF r
    <2> QED
        BY <2>1, <2>2, <1>2
<1>5. mainTimer'.at < Infinity
    BY <1>2, <1>3, <1>4
<1>6. MainInv'
    BY <1>1, <1>2, <1>3, <1>4 DEF MainInv
<1>7. CASE timerMap = <<>>
    <2>1. /\ poolCause' = poolCause \cup {"empty"}
          /\ timerMap' = timerMap /\ nearTp' = nearTp /\ poolPc' = poolPc
        BY <1>7 DEF ScheduleTimer
    <2>2. PoolTypeOK'
        BY <2>1, <1>1, <1>4 DEF PoolInv, PoolTypeOK
    <2>3. NearInv'
        BY <2>1, <1>1 DEF PoolInv, NearInv, Infinity
    <2>4. WatchInv'
        BY <2>1, <1>1, <1>5 DEF WatchInv, Infinity
    <2> QED
        BY <2>2, <2>3, <2>4, <1>6 DEF PoolInv
<1>8. CASE timerMap # <<>>
    <2>1. /\ timerMap' = [h \in DOMAIN timerMap |-> Advanced(h)]
          /\ nearTp' = Min({timerMap'[h].fireTp : h \in DOMAIN timerMap})
          /\ poolPc' = "fire" /\ poolCause' = poolCause
        BY <1>8 DEF ScheduleTimer
    <2>2. ASSUME NEW h \in DOMAIN timerMap
          PROVE  Advanced(h) \in Timer /\ Advanced(h).fireTp <= now + Longest
        <3>1. /\ timerMap[h] \in Timer /\ timerMap[h].fireTp \in Nat
              /\ timerMap[h].period \in 1..Longest
              /\ timerMap[h].fireTp <= now + Longest
            BY DEF PoolInv, PoolTypeOK, NearInv, Timer
        <3>2. CASE Due(h)
            <4>1. Advanced(h) = [timerMap[h] EXCEPT
                                    !.fireTp = timerMap[h].fireTp + timerMap[h].period]
                BY <3>2 DEF Advanced
            <4>2. /\ timerMap[h].fireTp + timerMap[h].period \in Nat
                  /\ timerMap[h].fireTp + timerMap[h].period <= now + Longest
                BY <3>1, <3>2, <1>2 DEF Due
            <4> QED
                BY <4>1, <4>2, <3>1 DEF Timer
        <3>3. CASE ~ Due(h)
            BY <3>3, <3>1 DEF Advanced
        <3> QED
            BY <3>2, <3>3
    <2>3. /\ DOMAIN timerMap' = DOMAIN timerMap
          /\ timerMap' \in [DOMAIN timerMap' -> Timer]
          /\ \A h \in DOMAIN timerMap' :
                 timerMap'[h].fireTp \in Nat /\ timerMap'[h].fireTp <= now + Longest
        BY <2>1, <2>2 DEF Timer
    <2> DEFINE T == {timerMap'[h].fireTp : h \in DOMAIN timerMap}
    <2>4. DOMAIN timerMap # {}
        BY <1>8, EmptyMap DEF PoolInv, PoolTypeOK
    <2>5. T \subseteq Nat /\ T # {}
        BY <2>3, <2>4
    <2>6. nearTp' \in T /\ \A y \in T : nearTp' <= y
        BY <2>1, <2>5, MinFacts
    <2>7. nearTp' \in Nat /\ nearTp' <= now + Longest
        BY <2>3, <2>6
    <2>8. \A h \in DOMAIN timerMap' : nearTp' <= timerMap'[h].fireTp
        BY <2>3, <2>6
    <2> HIDE DEF T
    <2>9. PoolTypeOK'
        BY <2>1, <2>3, <2>7, <1>1, <1>4 DEF PoolInv, PoolTypeOK
    <2>10. NearInv'
        BY <2>3, <2>7, <2>8, <1>1 DEF NearInv
    <2>11. WatchInv'
        BY <2>1, <1>1 DEF WatchInv
    <2> QED
        BY <2>9, <2>10, <2>11, <1>6 DEF PoolInv
<1> QED
    BY <1>7, <1>8

(* The call of a listener keeps the invariant. *)
LEMMA FireStep == PoolInv /\ FireTimer => PoolInv'
BY DEF PoolInv, FireTimer, PoolTypeOK, NearInv, MainInv, WatchInv, Infinity, Killed

\* The end of a round sets _mainTimer to _nearTp, unless it has passed.
LEMMA ProgramStep == PoolInv /\ ProgramNext => PoolInv'
<1> SUFFICES ASSUME PoolInv, ProgramNext PROVE PoolInv'
    OBVIOUS
<1> DEFINE us == IF nearTp > now THEN nearTp - now ELSE 0
<1>1. /\ poolPc = "fire" /\ poolPc' = "idle" /\ now' = now /\ poolOpen' = poolOpen
      /\ timerMap' = timerMap /\ nearTp' = nearTp /\ handleSeed' = handleSeed
      /\ mainTimer' = Programmed(us)
      /\ poolCause' = IF nearTp > now THEN {} ELSE {"late"}
    BY DEF ProgramNext
<1>2. /\ now \in Nat /\ now <= MaxTime /\ nearTp \in Nat
      /\ Longest \in Nat /\ MaxTime \in Nat /\ Infinity \in Nat
      /\ Infinity = MaxTime + Longest + 1
    BY LongestFacts DEF PoolInv, PoolTypeOK
<1>3. us \in Nat
    BY <1>2
<1>4. poolOpen
    BY <1>1 DEF PoolInv, WatchInv
<1>5. /\ mainTimer' \in [at : Nat, every : Nat]
      /\ us = 0 => mainTimer'.at = Infinity
      /\ us # 0 => mainTimer'.at = now + us /\ mainTimer'.every = us
    <2> HIDE DEF us
    <2> QED
        BY <1>1, <1>2, <1>3, ProgrammedFacts
<1>6. PoolTypeOK'
    BY <1>1, <1>5 DEF PoolInv, PoolTypeOK
<1>7. NearInv'
    BY <1>1 DEF PoolInv, NearInv, Infinity
<1>8. nearTp > now => mainTimer'.at = nearTp /\ mainTimer'.every = nearTp - now
    BY <1>2, <1>5
<1>9. ~ (nearTp > now) => mainTimer'.at = Infinity
    BY <1>2, <1>5
<1> HIDE DEF us
<1>10. MainInv'
    BY <1>1, <1>2, <1>8, <1>9 DEF PoolInv, NearInv, MainInv, Infinity
<1>11. WatchInv'
    BY <1>1, <1>2, <1>4, <1>8 DEF WatchInv
<1> QED
    BY <1>6, <1>7, <1>10, <1>11 DEF PoolInv

(* Time that passes keeps the invariant. *)
LEMMA TickStep == PoolInv /\ Tick => PoolInv'
<1> SUFFICES ASSUME PoolInv, Tick PROVE PoolInv'
    OBVIOUS
<1>1. /\ now' = now + 1 /\ now < MaxTime
      /\ UNCHANGED <<poolOpen, timerMap, nearTp, mainTimer, handleSeed, poolPc, poolCause>>
    BY DEF Tick
<1>2. /\ now \in Nat /\ nearTp \in Nat /\ mainTimer.at \in Nat /\ mainTimer.every \in Nat
      /\ Longest \in Nat /\ MaxTime \in Nat /\ Infinity \in Nat
      /\ \A h \in DOMAIN timerMap : timerMap[h].fireTp \in Nat
    BY LongestFacts DEF PoolInv, PoolTypeOK, Timer
<1>3. PoolTypeOK'
    BY <1>1, <1>2 DEF PoolInv, PoolTypeOK
<1>4. NearInv'
    BY <1>1, <1>2 DEF PoolInv, NearInv, Infinity
<1>5. MainInv'
    BY <1>1, <1>2 DEF PoolInv, MainInv, Infinity
<1>6. WatchInv'
    BY <1>1 DEF PoolInv, WatchInv, Infinity, Killed
<1> QED
    BY <1>3, <1>4, <1>5, <1>6 DEF PoolInv

(* Steps of others keep the invariant. *)
LEMMA PoolStuttering == PoolInv /\ UNCHANGED poolVars => PoolInv'
BY DEF PoolInv, poolVars, PoolTypeOK, NearInv, MainInv, WatchInv, Infinity, Killed

(* Every step keeps the invariant. *)
LEMMA PoolInduction == PoolInv /\ [PoolNext]_poolVars => PoolInv'
<1> SUFFICES ASSUME PoolInv, [PoolNext]_poolVars PROVE PoolInv'
    OBVIOUS
<1>1. CASE PoolNext
    BY <1>1, PoolOpenStep, PoolCloseStep, ScheduleStep, FireStep, ProgramStep, TickStep,
       KillTimerStep, SetTimerStep DEF PoolNext
<1>2. CASE UNCHANGED poolVars
    BY <1>2, PoolStuttering
<1> QED
    BY <1>1, <1>2

-----------------------------------------------------------------------------
(***************************************************************************)
(* The theorem.                                                            *)
(***************************************************************************)

\* The pool's one timer covers the deadlines of all of them: between two rounds
\* _mainTimer (EdTimerPool::setTimerUs, scheduleTimer) expires no later than any
\* deadline unless one of the three causes has happened, and without "zero" and
\* "late" it stays armed, for any number of timers and any times.
THEOREM PoolDeadlinesKeptThm == PoolSpec => []PoolDeadlinesKept
<1>1. PoolInv => PoolDeadlinesKept
    <2> SUFFICES ASSUME PoolInv, poolPc = "idle", NEW h \in DOMAIN timerMap
                 PROVE  /\ poolCause = {} => mainTimer.at <= timerMap[h].fireTp
                        /\ poolCause \subseteq {"empty"} => mainTimer.at < Infinity
        BY DEF PoolDeadlinesKept
    <2>1. poolOpen
        BY DEF PoolInv, WatchInv
    <2>2. /\ timerMap[h].fireTp \in Nat /\ mainTimer.at \in Nat /\ nearTp \in Nat
          /\ now \in Nat /\ now <= MaxTime
          /\ Longest \in Nat /\ MaxTime \in Nat /\ Infinity = MaxTime + Longest + 1
        BY LongestFacts DEF PoolInv, PoolTypeOK, Timer
    <2>3. nearTp <= timerMap[h].fireTp /\ timerMap[h].fireTp <= now + Longest
        BY DEF PoolInv, NearInv
    <2>4. poolCause = {} => mainTimer.at <= nearTp
        BY <2>1 DEF PoolInv, WatchInv
    <2>5. poolCause = {} => mainTimer.at <= timerMap[h].fireTp
        BY <2>2, <2>3, <2>4
    <2>6. poolCause = {} => mainTimer.at < Infinity
        BY <2>2, <2>3, <2>5
    <2>7. poolCause = {"empty"} => mainTimer.at < Infinity
        BY <2>1 DEF PoolInv, WatchInv
    <2>8. poolCause \subseteq {"empty"} => poolCause = {} \/ poolCause = {"empty"}
        OBVIOUS
    <2> QED
        BY <2>5, <2>6, <2>7, <2>8
<1> QED
    BY <1>1, PoolInitial, PoolInduction, PTL DEF PoolSpec
=============================================================================
