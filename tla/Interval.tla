------------------------------ MODULE Interval ------------------------------
(***************************************************************************)
(* When a TimerAction fires and how long a buffered process lives: the     *)
(* clock arithmetic that module ShortRun leaves out.  The application is   *)
(* in order: NORMAL, in its range, and every spawn succeeds.               *)
(*                                                                         *)
(* Time is counted in ticks of which Second make a second; the code waits  *)
(* whole seconds.  The main thread may be late for a callback.             *)
(***************************************************************************)
EXTENDS Integers, FiniteSets

CONSTANTS
    Second,     \* ticks in a second
    Period,     \* m_startInterval, in seconds
    Extra,      \* m_bufferTime, in seconds
    Lateness,   \* bounds: ticks by which callbacks may be late
    Horizon,    \* bound: the last moment
    MaxMade     \* bound: TimerAction objects made

ASSUME IntervalAssumption ==
    /\ {Second, Period, MaxMade} \subseteq Nat \ {0}
    /\ {Extra, Horizon} \subseteq Nat /\ Lateness \subseteq Nat
    /\ Second <= Horizon

VARIABLES
    clock,
    late,       \* the bound that this host keeps
    startTime,  \* m_startTime
    first,      \* when the present TimerAction was made to fire first
    ahead,      \* was that before startTime?
    expires,    \* m_timer->expires_at()
    fired,      \* how often the present TimerAction has fired
    made,       \* TimerAction objects made so far
    kills       \* pending TimerActionKill: when it expires, and which TimerAction made it

ivars == <<clock, late, startTime, first, ahead, expires, fired, made, kills>>

Time == 0 .. Horizon + (Period + Extra + 1) * Second

IntervalTypeOK ==
    /\ clock \in 0 .. Horizon /\ late \in Lateness
    /\ startTime \in 0 .. Horizon
    /\ first \in Time /\ expires \in Time
    /\ ahead \in BOOLEAN /\ fired \in Nat
    /\ made \in 1 .. MaxMade
    /\ kills \subseteq [due : Time, by : 1 .. MaxMade]

\* duration_cast<seconds>
Seconds(ticks) == ticks \div Second

\* Mutants: the wait does not depend on the moment the timer is made at; a
\* start time in the past is treated like one in the future.
FirstSleepWhole(n, start) ==
    IF start > n THEN Seconds(start) * Second ELSE 0

FirstSleepSigned(n, start) == Second * Seconds(start - n)

\* TimerAction's constructor.
FirstSleep(n, start) ==
    Second * IF start > n THEN Seconds(start - n) ELSE Seconds(n - start) % Period

IntervalInit ==
    /\ startTime \in {s \in 0 .. Horizon : s % Second = 0}
    /\ clock \in 0 .. Second /\ late \in Lateness
    /\ first = clock + FirstSleep(clock, startTime)
    /\ expires = first
    /\ ahead = (startTime > clock)
    /\ fired = 0 /\ made = 1
    /\ kills = {}

\* The timers of the io_service are served in the order of their expiry.
Earliest(t) == t <= clock /\ t <= expires /\ \A k \in kills : t <= k.due

\* initTimer(): the application was started again.
Renew ==
    /\ made < MaxMade
    /\ made' = made + 1
    /\ first' = clock + FirstSleep(clock, startTime)
    /\ expires' = first'
    /\ ahead' = (startTime > clock)
    /\ fired' = 0
    /\ UNCHANGED <<clock, late, startTime, kills>>

\* Mutants: the next wait starts when the callback does; the old process is
\* given the interval instead of the extra time.
TimeOutFromNow ==
    /\ Earliest(expires)
    /\ kills' = IF Extra > 0 THEN kills \union {[due |-> clock + Extra * Second, by |-> made]} ELSE kills
    /\ expires' = clock + Period * Second
    /\ fired' = fired + 1
    /\ UNCHANGED <<clock, late, startTime, first, ahead, made>>

TimeOutWholePeriod ==
    /\ Earliest(expires)
    /\ kills' = kills \union {[due |-> clock + Period * Second, by |-> made]}
    /\ expires' = expires + Period * Second
    /\ fired' = fired + 1
    /\ UNCHANGED <<clock, late, startTime, first, ahead, made>>

\* onTimeOut(): invokeNow() and the next wait.
TimeOut ==
    /\ Earliest(expires)
    /\ kills' = IF Extra > 0 THEN kills \union {[due |-> clock + Extra * Second, by |-> made]} ELSE kills
    /\ expires' = expires + Period * Second
    /\ fired' = fired + 1
    /\ UNCHANGED <<clock, late, startTime, first, ahead, made>>

\* TimerActionKill::onTimeOut().
KillTimeOut(k) ==
    /\ k \in kills /\ Earliest(k.due)
    /\ kills' = kills \ {k}
    /\ UNCHANGED <<clock, late, startTime, first, ahead, expires, fired, made>>

\* Time passes; no callback is later than the host's bound.
Tick ==
    /\ clock < Horizon
    /\ clock < expires + late /\ \A k \in kills : clock < k.due + late
    /\ clock' = clock + 1
    /\ UNCHANGED <<late, startTime, first, ahead, expires, fired, made, kills>>

IntervalNext == Renew \/ TimeOut \/ (\E k \in kills : KillTimeOut(k)) \/ Tick

IntervalSpec == IntervalInit /\ [][IntervalNext]_ivars

-----------------------------------------------------------------------------
\* The points of the grid that the first invocation of a TimerAction begins.
Point(n) == first + n * (Period * Second)

(* However late callbacks run, invocations keep to the grid of the first    *)
(* one of their TimerAction: each point that is past by more than the       *)
(* lateness has had its invocation, those missed meanwhile included, so     *)
(* lateness does not add up and none is skipped; and none is early.         *)
OnGrid ==
    /\ clock - Point(fired) <= late
    /\ fired > 0 => Point(fired - 1) <= clock

(* A TimerAction made before the start time has its first invocation less   *)
(* than a second from it.                                                   *)
FutureStart == ahead => startTime - Second < first /\ first <= startTime

(* With an extra time below the interval (ArgumentParser.cpp:156, "The      *)
(* extraTime seconds must less than interval") and callbacks late by less   *)
(* than the difference, a TimerAction never has two processes living on     *)
(* their extra time.                                                        *)
OneBuffered ==
    Extra * Second + late < Period * Second =>
        \A g \in 1 .. made : Cardinality({k \in kills : k.by = g}) <= 1

(* README.md:164, "start date time for short running app": invocations are  *)
(* a whole number of intervals after the start time.                        *)
Aligned ==
    startTime <= clock /\ ~ahead => Seconds(first - startTime) % Period = 0

(* README.md:164 again: nothing is invoked before the start time.           *)
NotBeforeStart == [][TimeOut => startTime <= clock]_ivars
=============================================================================
