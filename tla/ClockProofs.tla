----------------------------- MODULE ClockProofs -----------------------------
(***************************************************************************)
(* The daily range is honoured, for every length of the day; invocations   *)
(* stay on their grid and extra times apart, for every interval.           *)
(***************************************************************************)
EXTENDS Daily, Interval, FiniteSetTheorems, TLAPS

(* What TimeOfDay returns is a time of day, and it leaves one alone.        *)
LEMMA TimeOfDayFacts ==
    /\ \A m \in Moment : TimeOfDay(m) = m /\ TimeOfDay(m + 1) \in Moment
    /\ \A m \in Moment, z \in Offsets : TimeOfDay(m - z) \in Moment /\ TimeOfDay(m + z) \in Moment
  BY DailyAssumption DEF TimeOfDay, Moment

(* The test the monitor makes on two ends of the same date is the cyclic    *)
(* one, whichever end comes first.                                          *)
LEMMA CyclicRange ==
    ASSUME NEW s \in Moment, NEW e \in Moment, NEW n \in Moment, NEW z \in Offsets,
           s - z \in Moment, e - z \in Moment
    PROVE  InDailyTimeRange([start |-> s - z, end |-> e - z], n)
             <=> Within([start |-> s, end |-> e, zone |-> z], n)
  <1> DEFINE m == TimeOfDay(n + z)
  <1>1. s \in Int /\ e \in Int /\ n \in Int /\ z \in Int /\ Day \in Int
    BY DailyAssumption DEF Moment
  <1>2. CASE n + z < 0
    BY <1>1, <1>2, DailyAssumption DEF Moment, TimeOfDay, InDailyTimeRange, Within, Since
  <1>3. CASE n + z >= Day
    BY <1>1, <1>3, DailyAssumption DEF Moment, TimeOfDay, InDailyTimeRange, Within, Since
  <1>4. CASE n + z \in Moment
    BY <1>1, <1>4, DailyAssumption DEF Moment, TimeOfDay, InDailyTimeRange, Within, Since
  <1> QED
    BY <1>1, <1>2, <1>3, <1>4, DailyAssumption DEF Moment

-----------------------------------------------------------------------------
(* The inductive invariant: what is in memory was read from a time of day,  *)
(* so a conversion takes it at most one date away.                          *)
FromMoments == \E r \in Limits : mem = FromJson(r, user.zone)

IInv == TypeOK /\ FromMoments

LEMMA LoadFacts ==
    ASSUME NEW r \in Limits, NEW z \in Offsets
    PROVE  FromJson(r, z) \in [start : Int, end : Int] /\ AsJson(FromJson(r, z)) \in Limits
  <1>1. r.start \in Moment /\ r.end \in Moment /\ z \in Int
    BY DailyAssumption DEF Limits
  <1>2. FromJson(r, z) = [start |-> r.start - z, end |-> r.end - z]
    BY DEF FromJson, Converted
  <1>3. r.start - z \in Int /\ r.end - z \in Int
    BY <1>1 DEF Moment
  <1>4. TimeOfDay(r.start - z) \in Moment /\ TimeOfDay(r.end - z) \in Moment
    BY <1>1, TimeOfDayFacts
  <1> QED
    BY <1>2, <1>3, <1>4 DEF AsJson, Limits

LEMMA InitIInv == Init => IInv
  <1> SUFFICES ASSUME Init PROVE IInv
    OBVIOUS
  <1>1. user.zone \in Offsets /\ file \in Limits
    BY DEF Init, Limits
  <1> QED
    BY <1>1, LoadFacts DEF Init, IInv, TypeOK, FromMoments

LEMMA NextIInv == IInv /\ [Next]_dvars => IInv'
  <1> SUFFICES ASSUME IInv, [Next]_dvars PROVE IInv'
    OBVIOUS
  <1> USE DEF IInv, TypeOK, FromMoments
  <1>1. user.zone \in Offsets
    OBVIOUS
  <1>2. CASE Register
    <2>1. user'.zone \in Offsets /\ user' \in [start : Moment, end : Moment, zone : Offsets]
      BY <1>2 DEF Register
    <2> DEFINE r == [start |-> user'.start, end |-> user'.end]
    <2>2. r \in Limits /\ FromJson(user', user'.zone) = FromJson(r, user'.zone)
      BY <2>1 DEF Limits, FromJson
    <2> QED
      BY <1>2, <2>1, <2>2, LoadFacts DEF Register
  <1>3. CASE Restart
    BY <1>1, <1>3, LoadFacts DEF Restart
  <1>4. CASE Save
    BY <1>1, <1>4, LoadFacts DEF Save
  <1>5. CASE Pass
    BY <1>5, TimeOfDayFacts DEF Pass
  <1>6. CASE UNCHANGED dvars
    BY <1>6 DEF dvars
  <1> QED
    BY <1>2, <1>3, <1>4, <1>5, <1>6 DEF Next

LEMMA Inductive == Spec => []IInv
  BY InitIInv, NextIInv, PTL DEF Spec

(* Type correctness.                                                        *)
THEOREM TypeCorrect == Spec => []TypeOK
  <1>1. IInv => TypeOK
    BY DEF IInv
  <1> QED
    BY <1>1, Inductive, PTL

(* Whatever the zone, a range whose ends stay on one date is honoured.      *)
THEOREM SameDate == Spec => []SameDateHonoured
  <1>1. IInv => SameDateHonoured
    <2> SUFFICES ASSUME IInv, mem = FromJson(user, user.zone),
                        mem.start \in Moment, mem.end \in Moment
                 PROVE  RangeHonoured
      BY DEF SameDateHonoured
    <2> DEFINE s == user.start
               e == user.end
               z == user.zone
    <2>1. s \in Moment /\ e \in Moment /\ z \in Offsets /\ now \in Moment
      BY DEF IInv, TypeOK
    <2>2. mem = [start |-> s - z, end |-> e - z]
      BY DEF FromJson, Converted
    <2>3. user = [start |-> s, end |-> e, zone |-> z]
      BY DEF IInv, TypeOK
    <2>4. s - z \in Moment /\ e - z \in Moment
      BY <2>2
    <2>5. InDailyTimeRange([start |-> s - z, end |-> e - z], now)
            <=> Within([start |-> s, end |-> e, zone |-> z], now)
      BY <2>1, <2>4, CyclicRange
    <2> QED
      BY <2>2, <2>3, <2>5 DEF RangeHonoured
  <1> QED
    BY <1>1, Inductive, PTL

-----------------------------------------------------------------------------
(* Without a zone file and memory both hold what the user registered.       *)
InStep ==
    user.zone = 0 => /\ mem = [start |-> user.start, end |-> user.end]
                     /\ file = mem

LEMMA NoZone ==
    ASSUME NEW r \in Limits
    PROVE  /\ FromJson(r, 0) = [start |-> r.start, end |-> r.end]
           /\ FromJson(r, 0) = r
           /\ AsJson(r) = r
  <1>1. r.start \in Moment /\ r.end \in Moment /\ r = [start |-> r.start, end |-> r.end]
    BY DEF Limits
  <1>2. TimeOfDay(r.start) = r.start /\ TimeOfDay(r.end) = r.end
    BY <1>1, TimeOfDayFacts
  <1>3. r.start - 0 = r.start /\ r.end - 0 = r.end
    BY <1>1 DEF Moment
  <1> QED
    BY <1>1, <1>2, <1>3 DEF FromJson, Converted, AsJson

LEMMA InitInStep == Init => InStep
  <1> SUFFICES ASSUME Init, user.zone = 0
               PROVE  mem = [start |-> user.start, end |-> user.end] /\ file = mem
    BY DEF InStep
  <1>1. file = [start |-> user.start, end |-> user.end] /\ file \in Limits
    BY DEF Init, Limits
  <1> QED
    BY <1>1, NoZone DEF Init

LEMMA NextInStep == IInv /\ InStep /\ [Next]_dvars => InStep'
  <1> SUFFICES ASSUME IInv, InStep, [Next]_dvars PROVE InStep'
    OBVIOUS
  <1>1. file \in Limits
    BY DEF IInv, TypeOK
  <1>2. CASE Register
    <2>1. user' \in [start : Moment, end : Moment, zone : Offsets]
      BY <1>2 DEF Register
    <2> DEFINE r == [start |-> user'.start, end |-> user'.end]
    <2>2. r \in Limits /\ FromJson(user', 0) = FromJson(r, 0)
      BY <2>1 DEF Limits, FromJson
    <2>3. FromJson(r, 0) = r /\ AsJson(r) = r
      BY <2>2, NoZone
    <2> QED
      BY <1>2, <2>2, <2>3 DEF Register, InStep
  <1>3. CASE Restart
    BY <1>1, <1>3, NoZone DEF Restart, InStep
  <1>4. CASE Save
    BY <1>1, <1>4, NoZone DEF Save, InStep
  <1>5. CASE Pass \/ UNCHANGED dvars
    BY <1>5 DEF Pass, dvars, InStep
  <1> QED
    BY <1>2, <1>3, <1>4, <1>5 DEF Next

(* Without a zone the range is honoured whatever is saved and restarted.    *)
THEOREM HostZone == Spec => []HostZoneHonoured
  <1>1. IInv /\ InStep => HostZoneHonoured
    <2> SUFFICES ASSUME IInv, InStep, user.zone = 0 PROVE RangeHonoured
      BY DEF HostZoneHonoured
    <2> DEFINE s == user.start
               e == user.end
    <2>1. s \in Moment /\ e \in Moment /\ now \in Moment /\ 0 \in Offsets
      BY DEF IInv, TypeOK
    <2>2. user = [start |-> s, end |-> e, zone |-> 0]
      BY DEF IInv, TypeOK
    <2>3. s - 0 = s /\ e - 0 = e
      BY <2>1 DEF Moment
    <2>4. InDailyTimeRange([start |-> s - 0, end |-> e - 0], now)
            <=> Within([start |-> s, end |-> e, zone |-> 0], now)
      BY <2>1, <2>3, CyclicRange
    <2>5. mem = [start |-> s, end |-> e]
      BY DEF InStep
    <2> QED
      BY <2>2, <2>3, <2>4, <2>5 DEF RangeHonoured
  <1>2. Spec => [](IInv /\ InStep)
    BY InitIInv, NextIInv, InitInStep, NextInStep, PTL DEF Spec
  <1> QED
    BY <1>1, <1>2, PTL

-----------------------------------------------------------------------------
(* Division, as duration_cast and the operator % use it: the quotient and   *)
(* the rest, and that a rest which is a multiple is none.                   *)
LEMMA Divided ==
    ASSUME NEW n \in Nat, NEW d \in Nat \ {0}
    PROVE  /\ n \div d \in Nat /\ n % d \in 0 .. d - 1
           /\ n = d * (n \div d) + (n % d)
  OBVIOUS

LEMMA NoRest ==
    ASSUME NEW d \in Nat \ {0}, NEW k \in Int, d * k \in 0 .. d - 1
    PROVE  d * k = 0
  <1>1. CASE k >= 1
    <2>1. d * k >= d * 1
      BY <1>1
    <2> QED
      BY <2>1
  <1>2. CASE k <= -1
    <2>1. d * k <= d * (-1)
      BY <1>2
    <2> QED
      BY <2>1
  <1> QED
    BY <1>1, <1>2

(* The next point of a grid.                                                *)
LEMMA Multiple ==
    ASSUME NEW a \in Nat, NEW d \in Nat \ {0}, a % d = 0
    PROVE  (a + d) % d = 0
  <1> DEFINE q == a \div d
             r == (a + d) \div d
             m == (a + d) % d
  <1>1. q \in Nat /\ a = d * q
    BY Divided
  <1>2. a + d \in Nat
    OBVIOUS
  <1>3. r \in Nat /\ m \in 0 .. d - 1 /\ a + d = d * r + m
    BY <1>2, Divided
  <1> HIDE DEF q, r, m
  <1>4. d * (q + 1 - r) = m
    BY <1>1, <1>3
  <1>5. m = 0
    BY <1>1, <1>3, <1>4, NoRest
  <1> QED
    BY <1>5 DEF m

(* The lengths the clock is advanced by.                                    *)
LEMMA Lengths ==
    /\ Second \in Nat \ {0} /\ Period \in Nat \ {0} /\ MaxMade \in Nat \ {0}
    /\ Extra \in Nat /\ Horizon \in Nat /\ \A l \in Lateness : l \in Nat
    /\ Period * Second \in Nat \ {0} /\ Extra * Second \in Nat
    /\ (Period + Extra + 1) * Second = Period * Second + Extra * Second + Second
  BY IntervalAssumption

(* The first wait ends less than a second before a start time to come, and  *)
(* within one interval otherwise.                                           *)
LEMMA FirstSleepFacts ==
    ASSUME NEW n \in Nat, NEW start \in Nat
    PROVE  /\ FirstSleep(n, start) \in Nat
           /\ start > n => /\ start - Second < n + FirstSleep(n, start)
                           /\ n + FirstSleep(n, start) <= start
           /\ start <= n => FirstSleep(n, start) <= Period * Second
  <1>1. CASE start > n
    <2> DEFINE d == start - n
    <2>1. d \in Nat
      BY <1>1
    <2>2. d \div Second \in Nat /\ d % Second \in 0 .. Second - 1
          /\ d = Second * (d \div Second) + (d % Second)
      BY <2>1, Lengths, Divided
    <2>3. FirstSleep(n, start) = Second * (d \div Second)
      BY <1>1 DEF FirstSleep, Seconds
    <2> HIDE DEF d
    <2>4. Second * (d \div Second) \in Nat
      BY <2>2, Lengths
    <2>5. start = n + d
      BY <1>1 DEF d
    <2> QED
      BY <1>1, <2>1, <2>2, <2>3, <2>4, <2>5, Lengths
  <1>2. CASE start <= n
    <2> DEFINE r == Seconds(n - start) % Period
    <2>1. n - start \in Nat
      BY <1>2
    <2>2. Seconds(n - start) \in Nat
      BY <2>1, Lengths, Divided DEF Seconds
    <2>3. r \in 0 .. Period - 1
      BY <2>2, Lengths, Divided
    <2>4. FirstSleep(n, start) = Second * r
      BY <1>2 DEF FirstSleep
    <2> HIDE DEF r
    <2>5. Second * r \in Nat /\ Second * r <= Second * Period
      BY <2>3, Lengths
    <2> QED
      BY <1>2, <2>4, <2>5, Lengths
  <1> QED
    BY <1>1, <1>2

-----------------------------------------------------------------------------
(* The inductive invariant of Interval.  A TimerActionKill of the present   *)
(* TimerAction was made at its latest invocation, one interval before       *)
(* expires_at(), and no later than the lateness; none is of a TimerAction   *)
(* to come.                                                                 *)
BeforeNext ==
    \A k \in kills :
        /\ k.by <= made
        /\ k.by = made => k.due + Period * Second <= expires + late + Extra * Second

\* What the next invocation is: the one that follows all those there were.
NextPoint == expires = Point(fired)

ClockInv == IntervalTypeOK /\ NextPoint /\ OnGrid /\ FutureStart /\ BeforeNext

(* From one point of the grid to the next.                                  *)
LEMMA Points ==
    ASSUME NEW P \in Nat, NEW f \in Nat, NEW n \in Nat
    PROVE  /\ f + 0 * P = f
           /\ f + (n + 1) * P = (f + n * P) + P
           /\ (n + 1) - 1 = n
  OBVIOUS

(* A TimerAction made at this moment.                                       *)
LEMMA Made ==
    ASSUME clock \in 0 .. Horizon, startTime \in 0 .. Horizon,
           NEW f, f = clock + FirstSleep(clock, startTime)
    PROVE  /\ f \in Time /\ clock <= f
           /\ startTime > clock => startTime - Second < f /\ f <= startTime
  <1>1. clock \in Nat /\ startTime \in Nat /\ clock <= Horizon /\ startTime <= Horizon
    BY Lengths
  <1>2. f \in Nat /\ clock <= f /\ f <= Horizon + Period * Second
    <2> DEFINE w == FirstSleep(clock, startTime)
               P == Period * Second
    <2>1. /\ w \in Nat
          /\ startTime > clock => clock + w <= startTime
          /\ startTime <= clock => w <= P
      BY <1>1, FirstSleepFacts
    <2>2. P \in Nat /\ Horizon \in Nat /\ f = clock + w
      BY Lengths
    <2> HIDE DEF w, P
    <2>3. f \in Nat /\ clock <= f /\ f <= Horizon + P
      BY <1>1, <2>1, <2>2
    <2> QED
      BY <2>3 DEF P
  <1>3. f \in Time
    BY <1>2, Lengths DEF Time
  <1>4. startTime > clock => startTime - Second < f /\ f <= startTime
    BY <1>1, FirstSleepFacts
  <1> QED
    BY <1>2, <1>3, <1>4

LEMMA IntervalInitInv == IntervalInit => ClockInv
  <1> SUFFICES ASSUME IntervalInit PROVE ClockInv
    OBVIOUS
  <1>1. clock \in 0 .. Horizon /\ startTime \in 0 .. Horizon
    BY IntervalAssumption, Lengths DEF IntervalInit
  <1>2. first = clock + FirstSleep(clock, startTime) /\ expires = first
    BY DEF IntervalInit
  <1>3. /\ first \in Time /\ clock <= first
        /\ startTime > clock => startTime - Second < first /\ first <= startTime
    BY <1>1, <1>2, Made
  <1>4. first \in Nat /\ clock \in Nat
    BY <1>1, <1>3, Lengths DEF Time
  <1>5. IntervalTypeOK
    BY <1>1, <1>2, <1>3, Lengths DEF IntervalInit, IntervalTypeOK
  <1>9. late \in Nat /\ fired = 0 /\ 0 \in Nat
    BY Lengths DEF IntervalInit
  <1>10. NextPoint
    BY <1>2, <1>4, <1>9, Points, Lengths DEF NextPoint, Point
  <1>6. OnGrid
    BY <1>2, <1>3, <1>4, <1>9, <1>10 DEF OnGrid, NextPoint
  <1>7. FutureStart
    BY <1>3 DEF IntervalInit, FutureStart
  <1>8. BeforeNext
    BY DEF IntervalInit, BeforeNext
  <1> QED
    BY <1>5, <1>6, <1>7, <1>8, <1>10 DEF ClockInv

LEMMA RenewInv == ClockInv /\ Renew => ClockInv'
  <1> SUFFICES ASSUME ClockInv, Renew PROVE ClockInv'
    OBVIOUS
  <1>1. clock \in 0 .. Horizon /\ startTime \in 0 .. Horizon /\ made \in 1 .. MaxMade
    BY DEF ClockInv, IntervalTypeOK
  <1>2. /\ first' = clock + FirstSleep(clock, startTime) /\ expires' = first'
        /\ ahead' = (startTime > clock) /\ made' = made + 1 /\ made < MaxMade
        /\ clock' = clock /\ startTime' = startTime /\ kills' = kills
        /\ fired' = 0 /\ late' = late
    BY DEF Renew
  <1>3. /\ first' \in Time /\ clock <= first'
        /\ startTime > clock => startTime - Second < first' /\ first' <= startTime
    BY <1>1, <1>2, Made
  <1>4. first' \in Nat /\ clock \in Nat
    BY <1>1, <1>3, Lengths DEF Time
  <1>5. made + 1 \in 1 .. MaxMade
    BY <1>1, <1>2, Lengths
  <1>6. IntervalTypeOK'
    BY <1>1, <1>2, <1>3, <1>5 DEF ClockInv, IntervalTypeOK
  <1>10. late \in Nat
    BY Lengths DEF ClockInv, IntervalTypeOK
  <1>11. NextPoint'
    BY <1>2, <1>4, Points, Lengths DEF NextPoint, Point
  <1>7. OnGrid'
    BY <1>2, <1>3, <1>4, <1>10, <1>11 DEF OnGrid, NextPoint
  <1>8. FutureStart'
    BY <1>2, <1>3 DEF FutureStart
  <1>9. BeforeNext'
    <2> SUFFICES ASSUME NEW k \in kills PROVE k.by <= made + 1 /\ k.by # made + 1
      BY <1>2 DEF BeforeNext
    <2>1. k.by \in 1 .. MaxMade /\ k.by <= made
      BY DEF ClockInv, IntervalTypeOK, BeforeNext
    <2> QED
      BY <1>1, <2>1, Lengths
  <1> QED
    BY <1>6, <1>7, <1>8, <1>9, <1>11 DEF ClockInv

LEMMA TimeOutInv == ClockInv /\ TimeOut => ClockInv'
  <1> SUFFICES ASSUME ClockInv, TimeOut PROVE ClockInv'
    OBVIOUS
  <1> DEFINE k == [due |-> clock + Extra * Second, by |-> made]
             P == Period * Second
             E == Extra * Second
  <1>1. /\ clock \in 0 .. Horizon /\ made \in 1 .. MaxMade
        /\ first \in Time /\ expires \in Time /\ kills \subseteq [due : Time, by : 1 .. MaxMade]
    BY DEF ClockInv, IntervalTypeOK
  <1>2. /\ kills' \subseteq kills \union {k}
        /\ expires' = expires + P /\ expires <= clock
        /\ fired' = fired + 1
        /\ UNCHANGED <<clock, late, startTime, first, ahead, made>>
    BY DEF TimeOut, Earliest
  <1>3. /\ clock \in Nat /\ clock <= Horizon /\ first \in Nat /\ expires \in Nat /\ made \in Nat
        /\ P \in Nat \ {0} /\ E \in Nat /\ Horizon \in Nat /\ Second \in Nat
        /\ late \in Nat /\ fired \in Nat
    BY <1>1, Lengths DEF Time, ClockInv, IntervalTypeOK
  <1>4. Time = 0 .. Horizon + P + E + Second
    BY Lengths DEF Time
  <1>5. expires = Point(fired) /\ clock - expires <= late
    BY DEF ClockInv, OnGrid, NextPoint
  <1> HIDE DEF P, E
  <1>6. expires' \in Time /\ clock + E \in Time
    BY <1>2, <1>3, <1>4
  <1>7. IntervalTypeOK'
    <2>1. k \in [due : Time, by : 1 .. MaxMade]
      BY <1>1, <1>6 DEF E
    <2>2. kills' \subseteq [due : Time, by : 1 .. MaxMade]
      BY <1>1, <1>2, <2>1
    <2> QED
      BY <1>2, <1>6, <2>2 DEF ClockInv, IntervalTypeOK
  <1>11. NextPoint'
    <2>1. Point(fired) = first + fired * P /\ Point(fired)' = first' + fired' * P
      BY DEF Point, P
    <2>2. first + (fired + 1) * P = (first + fired * P) + P
      BY <1>3, Points
    <2> QED
      BY <1>2, <1>5, <2>1, <2>2 DEF NextPoint
  <1>8. OnGrid'
    <2>1. Point(fired - 1)' = expires
      BY <1>2, <1>3, <1>5, Points DEF Point
    <2>2. clock' - expires' <= late'
      BY <1>2, <1>3, <1>5
    <2> QED
      BY <1>2, <1>11, <2>1, <2>2 DEF OnGrid, NextPoint
  <1>9. FutureStart'
    BY <1>2 DEF ClockInv, FutureStart
  <1>10. BeforeNext'
    <2> SUFFICES ASSUME NEW j \in kills'
                 PROVE  j.by <= made /\ (j.by = made => j.due + P <= expires + P + late + E)
      BY <1>2 DEF BeforeNext, P, E
    <2>1. CASE j = k
      <3>1. j.by = made /\ j.due = clock + E
        BY <2>1 DEF E
      <3> QED
        BY <1>3, <1>5, <3>1
    <2>2. CASE j \in kills
      <3>1. j.by <= made /\ (j.by = made => j.due + P <= expires + late + E)
        BY <2>2 DEF ClockInv, BeforeNext, P, E
      <3>2. j.due \in Int
        BY <1>1, <1>3, <1>4, <2>2
      <3> QED
        BY <1>3, <3>1, <3>2
    <2> QED
      BY <1>2, <2>1, <2>2
  <1> QED
    BY <1>7, <1>8, <1>9, <1>10, <1>11 DEF ClockInv

LEMMA TickInv == ClockInv /\ Tick => ClockInv'
  <1> SUFFICES ASSUME ClockInv, Tick PROVE ClockInv'
    OBVIOUS
  <1>1. /\ clock < Horizon /\ clock < expires + late /\ clock' = clock + 1
        /\ UNCHANGED <<late, startTime, first, ahead, expires, fired, made, kills>>
    BY DEF Tick
  <1>2. clock \in 0 .. Horizon /\ expires \in Nat /\ late \in Nat
    BY Lengths DEF ClockInv, IntervalTypeOK, Time
  <1>3. IntervalTypeOK'
    BY <1>1, <1>2, Lengths DEF ClockInv, IntervalTypeOK
  <1>4. OnGrid'
    <2>1. clock' - expires' <= late'
      BY <1>1, <1>2, Lengths
    <2>2. Point(fired)' = Point(fired) /\ Point(fired - 1)' = Point(fired - 1)
      BY <1>1 DEF Point
    <2>3. expires' = Point(fired)'
      BY <1>1, <2>2 DEF ClockInv, NextPoint
    <2>4. fired > 0 => Point(fired - 1) \in Int
      BY Lengths, Points DEF Point, ClockInv, IntervalTypeOK, Time
    <2>5. fired > 0 => Point(fired - 1) <= clock
      BY DEF ClockInv, OnGrid
    <2>6. fired' > 0 => Point(fired - 1)' <= clock'
      <3>1. fired > 0 => Point(fired - 1) <= clock + 1
        BY <1>2, Lengths, <2>4, <2>5
      <3> QED
        BY <1>1, <2>2, <3>1
    <2> QED
      BY <2>1, <2>3, <2>6 DEF OnGrid
  <1>6. NextPoint'
    BY <1>1 DEF ClockInv, NextPoint, Point
  <1>5. FutureStart' /\ BeforeNext'
    BY <1>1 DEF ClockInv, FutureStart, BeforeNext
  <1> QED
    BY <1>3, <1>4, <1>5, <1>6 DEF ClockInv

LEMMA IntervalNextInv == ClockInv /\ [IntervalNext]_ivars => ClockInv'
  <1> SUFFICES ASSUME ClockInv, [IntervalNext]_ivars PROVE ClockInv'
    OBVIOUS
  <1>1. ASSUME NEW k \in kills, KillTimeOut(k) PROVE ClockInv'
    BY <1>1 DEF KillTimeOut, ClockInv, IntervalTypeOK, NextPoint, OnGrid, Point, FutureStart, BeforeNext
  <1>2. CASE UNCHANGED ivars
    BY <1>2 DEF ivars, ClockInv, IntervalTypeOK, NextPoint, OnGrid, Point, FutureStart, BeforeNext
  <1> QED
    BY <1>1, <1>2, RenewInv, TimeOutInv, TickInv DEF IntervalNext

LEMMA IntervalInductive == IntervalSpec => []ClockInv
  BY IntervalInitInv, IntervalNextInv, PTL DEF IntervalSpec

(* The clock, the timers and the extra times keep their types.              *)
THEOREM IntervalTypeCorrect == IntervalSpec => []IntervalTypeOK
  <1>1. ClockInv => IntervalTypeOK
    BY DEF ClockInv
  <1> QED
    BY <1>1, IntervalInductive, PTL

(* TimerAction::onTimeOut adds the interval to expires_at() and not to the  *)
(* moment it runs at: however late, every point of the grid of the first    *)
(* invocation has its own, none more than the lateness overdue, none early. *)
THEOREM StaysOnGrid == IntervalSpec => []OnGrid
  <1>1. ClockInv => OnGrid
    BY DEF ClockInv
  <1> QED
    BY <1>1, IntervalInductive, PTL

(* TimerAction's constructor: the first invocation is less than a second    *)
(* before a start time to come, and never after it.                         *)
THEOREM MeetsFutureStart == IntervalSpec => []FutureStart
  <1>1. ClockInv => FutureStart
    BY DEF ClockInv
  <1> QED
    BY <1>1, IntervalInductive, PTL

-----------------------------------------------------------------------------
(* Two processes on their extra time are of two TimerActions.               *)
Apart ==
    Extra * Second + late < Period * Second => \A j, k \in kills : j.by = k.by => j = k

LEMMA ApartKept ==
    ASSUME ClockInv, Apart, [IntervalNext]_ivars
    PROVE  Apart'
  <1>0. late' = late
    BY DEF IntervalNext, Renew, TimeOut, KillTimeOut, Tick, ivars
  <1> SUFFICES ASSUME Extra * Second + late < Period * Second
               PROVE  \A j, k \in kills' : j.by = k.by => j = k
    BY <1>0 DEF Apart
  <1>1. CASE TimeOut
    <2> DEFINE P == Period * Second
               E == Extra * Second
    <2>1. kills' \subseteq kills \union {[due |-> clock + E, by |-> made]}
      BY <1>1 DEF TimeOut
    <2>2. ASSUME NEW k \in kills PROVE k.by # made
      <3>1. expires <= k.due
        BY <1>1 DEF TimeOut, Earliest
      <3>2. k.by = made => k.due + P <= expires + late + E
        BY DEF ClockInv, BeforeNext
      <3>3. expires \in Int /\ k.due \in Int
        BY Lengths DEF ClockInv, IntervalTypeOK, Time
      <3>4. P \in Nat /\ E \in Nat /\ late \in Nat /\ E + late < P
        BY Lengths DEF ClockInv, IntervalTypeOK
      <3> HIDE DEF P, E
      <3> QED
        BY <3>1, <3>2, <3>3, <3>4
    <2> QED
      BY <2>1, <2>2 DEF Apart
  <1>2. CASE Renew \/ (\E k \in kills : KillTimeOut(k)) \/ Tick \/ UNCHANGED ivars
    <2>1. kills' \subseteq kills
      BY <1>2 DEF Renew, KillTimeOut, Tick, ivars
    <2> QED
      BY <2>1 DEF Apart
  <1> QED
    BY <1>1, <1>2 DEF IntervalNext

(* ArgumentParser.cpp:156 asks for an extra time below the interval: with   *)
(* that, and callbacks late by less than the difference, a process is       *)
(* killed before its successor goes on its extra time (TimerActionKill).    *)
THEOREM ExtraTimesApart == IntervalSpec => []OneBuffered
  <1>1. IntervalInit => Apart
    BY DEF IntervalInit, Apart
  <1>2. ClockInv /\ Apart /\ [IntervalNext]_ivars => Apart'
    BY ApartKept
  <1>3. Apart => OneBuffered
    <2> SUFFICES ASSUME Apart, Extra * Second + late < Period * Second, NEW g \in 1 .. made
                 PROVE  Cardinality({k \in kills : k.by = g}) <= 1
      BY DEF OneBuffered
    <2>1. CASE {k \in kills : k.by = g} = {}
      BY <2>1, FS_EmptySet
    <2>2. ASSUME NEW x \in {k \in kills : k.by = g} PROVE Cardinality({k \in kills : k.by = g}) = 1
      <3>1. {k \in kills : k.by = g} = {x}
        BY DEF Apart
      <3> QED
        BY <3>1, FS_Singleton
    <2> QED
      BY <2>1, <2>2
  <1>4. IntervalSpec => []Apart
    BY <1>1, <1>2, IntervalInductive, PTL DEF IntervalSpec
  <1> QED
    BY <1>3, <1>4, PTL
=============================================================================
