----------------------------- MODULE EdTimerPool -----------------------------
(***************************************************************************)
(* Many timers over one EdTimer (src/ednio/EdTimerPool.cpp).  _mainTimer is *)
(* programmed for _nearTp, the nearest deadline; when it expires,          *)
(* scheduleTimer moves the deadlines that have passed on by one period,    *)
(* calls the listeners of those timers, which may set and kill timers, and *)
(* programs _mainTimer again.  Time passes at any point, also between the  *)
(* expiry and its handling, and while a listener runs.                     *)
(*                                                                         *)
(* _mainTimer is periodic, and setUsec(0) disarms it.  Three things make   *)
(* the pool lose a deadline; poolCause records which of them has happened  *)
(* since the deadlines were last computed:                                 *)
(*   "zero"  a timer set with a first time of 0 disarms _mainTimer;        *)
(*   "late"  the nearest deadline has passed when scheduleTimer ends, so   *)
(*           that it disarms _mainTimer;                                   *)
(*   "empty" _mainTimer expires without timers: _nearTp stays in the past. *)
(* The program does not kill a timer whose listener is still to be called  *)
(* in the same round (_fireList holds pointers into _timerMap), and gives  *)
(* no period of 0 (scheduleTimer divides by it).                           *)
(***************************************************************************)
EXTENDS Naturals, Sequences, FiniteSets, FiniteSetsExt, SequencesExt

CONSTANTS
    MaxHandle,    \* handles are 1..MaxHandle; the code has 2^32 - 1 of them
    Firsts,       \* first times, in microseconds
    Periods,
    MaxTime       \* bound on the clock

ASSUME MaxHandleAssumption == MaxHandle \in Nat \ {0}
ASSUME FirstsAssumption == Firsts \subseteq Nat /\ IsFiniteSet(Firsts)
ASSUME PeriodsAssumption ==
    Periods \subseteq Nat \ {0} /\ Periods # {} /\ IsFiniteSet(Periods)
ASSUME MaxTimeAssumption == MaxTime \in Nat

VARIABLES
    now,               \* steady_clock::now()
    poolOpen,
    timerMap,          \* handle -> [fireTp, period], for the timers that are set
    nearTp, mainTimer, \* mainTimer: the next expiry and the interval
    handleSeed,
    fireList, poolPc,  \* scheduleTimer: listeners still to call
    poolCause

poolVars ==
    <<now, poolOpen, timerMap, nearTp, mainTimer, handleSeed, fireList, poolPc, poolCause>>

Handles == 1..MaxHandle

\* steady_clock::time_point::max(): later than any deadline.
Infinity == MaxTime + Max(Firsts \cup Periods) + 1

\* EdTimer::setUsec: periodic, or disarmed by 0.
Programmed(us) == [at |-> IF us = 0 THEN Infinity ELSE now + us, every |-> us]
Killed == [at |-> Infinity, every |-> 0]

PoolInit ==
    /\ now = 0 /\ poolOpen = FALSE /\ timerMap = <<>> /\ nearTp = Infinity
    /\ mainTimer = Killed /\ handleSeed = 0
    /\ fireList = <<>> /\ poolPc = "idle" /\ poolCause = {}

PoolOpen ==
    /\ ~poolOpen
    /\ poolOpen' = TRUE /\ nearTp' = Infinity
    /\ UNCHANGED <<now, timerMap, mainTimer, handleSeed, fireList, poolPc, poolCause>>

PoolClose ==
    /\ poolOpen /\ poolPc = "idle"
    /\ poolOpen' = FALSE /\ mainTimer' = Killed /\ timerMap' = <<>>
    /\ poolCause' = {}
    /\ UNCHANGED <<now, nearTp, handleSeed, fireList, poolPc>>

\* if(++_handleSeed==0) ++_handleSeed: 0 is skipped when the seed wraps.
NextHandle == (handleSeed % MaxHandle) + 1

\* The timers once handle h has been given to a timer (a new one, or one that is
\* set already, whose place it takes).
WithTimer(h, first, period) ==
    [g \in DOMAIN timerMap \cup {h} |->
        IF g = h THEN [fireTp |-> now + first, period |-> period] ELSE timerMap[g]]

\* Mutation of Nearer: the deadline of the first timer is kept.
Nearer_Later(fireTp) == nearTp = Infinity

Nearer(fireTp) == fireTp < nearTp

\* setTimerUs: handle 0 asks for a new handle.
SetTimerUs(handle, first, period) ==
    /\ poolOpen
    /\ LET h == IF handle = 0 THEN NextHandle ELSE handle IN
           timerMap' = WithTimer(h, first, period)
    /\ handleSeed' = IF handle = 0 THEN NextHandle ELSE handleSeed
    /\ IF Nearer(now + first)
       THEN /\ nearTp' = now + first /\ mainTimer' = Programmed(first)
            /\ poolCause' = IF first = 0 THEN poolCause \cup {"zero"} ELSE poolCause
       ELSE UNCHANGED <<nearTp, mainTimer, poolCause>>
    /\ UNCHANGED <<now, poolOpen, fireList, poolPc>>

\* killTimer leaves _nearTp and _mainTimer as they are.
PoolKillTimer(h) ==
    /\ poolOpen /\ h \in DOMAIN timerMap /\ ~ Contains(fireList, h)
    /\ timerMap' = [g \in DOMAIN timerMap \ {h} |-> timerMap[g]]
    /\ UNCHANGED <<now, poolOpen, nearTp, mainTimer, handleSeed, fireList, poolPc, poolCause>>

\* Reading the timerfd: the next expiry is the first multiple after now.
Reloaded ==
    [mainTimer EXCEPT !.at = @ + mainTimer.every * ((now - @) \div mainTimer.every + 1)]

Due(h) == timerMap[h].fireTp <= now

\* The deadline of a timer that is called is moved on by one period.
Advanced(h) ==
    IF Due(h) THEN [timerMap[h] EXCEPT !.fireTp = @ + timerMap[h].period] ELSE timerMap[h]

\* scheduleTimer up to the first listener.  The order of the listeners is the one
\* of an unordered_map.
ScheduleTimer ==
    /\ poolOpen /\ poolPc = "idle" /\ mainTimer.at <= now
    /\ mainTimer' = Reloaded
    /\ IF timerMap = <<>>
       THEN /\ poolCause' = poolCause \cup {"empty"}
            /\ UNCHANGED <<timerMap, nearTp, fireList, poolPc>>
       ELSE /\ timerMap' = [h \in DOMAIN timerMap |-> Advanced(h)]
            /\ nearTp' = Min({timerMap'[h].fireTp : h \in DOMAIN timerMap})
            /\ \E s \in SetToSeqs({h \in DOMAIN timerMap : Due(h)}) : fireList' = s
            /\ poolPc' = "fire" /\ UNCHANGED poolCause
    /\ UNCHANGED <<now, poolOpen, handleSeed>>

\* A listener is called; what it does are actions of the program.
FireTimer ==
    /\ poolPc = "fire" /\ fireList # <<>>
    /\ fireList' = Tail(fireList)
    /\ UNCHANGED <<now, poolOpen, timerMap, nearTp, mainTimer, handleSeed, poolPc, poolCause>>

\* The end of scheduleTimer.
ProgramNext ==
    /\ poolPc = "fire" /\ fireList = <<>>
    /\ mainTimer' = Programmed(IF nearTp > now THEN nearTp - now ELSE 0)
    /\ poolCause' = IF nearTp > now THEN {} ELSE {"late"}
    /\ poolPc' = "idle"
    /\ UNCHANGED <<now, poolOpen, timerMap, nearTp, handleSeed, fireList>>

Tick ==
    /\ now < MaxTime /\ now' = now + 1
    /\ UNCHANGED <<poolOpen, timerMap, nearTp, mainTimer, handleSeed, fireList, poolPc, poolCause>>

PoolNext ==
    \/ PoolOpen \/ PoolClose \/ ScheduleTimer \/ FireTimer \/ ProgramNext \/ Tick
    \/ \E h \in Handles : PoolKillTimer(h)
    \/ \E h \in 0..MaxHandle, first \in Firsts, period \in Periods : SetTimerUs(h, first, period)

PoolSpec == PoolInit /\ [][PoolNext]_poolVars

-----------------------------------------------------------------------------
(***************************************************************************)
(* Properties.                                                             *)
(***************************************************************************)

\* Between two rounds _mainTimer expires no later than the nearest deadline, and
\* only the three causes above make a deadline late; without "zero" and "late"
\* _mainTimer at least stays armed, so that no timer is lost.
PoolDeadlinesKept ==
    poolPc = "idle" =>
        \A h \in DOMAIN timerMap :
            /\ poolCause = {} => mainTimer.at <= timerMap[h].fireTp
            /\ poolCause \subseteq {"empty"} => mainTimer.at < Infinity
=============================================================================
