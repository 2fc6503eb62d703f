-------------------------------- MODULE Daily --------------------------------
(***************************************************************************)
(* The daily range of an application: how it is read from JSON, converted  *)
(* from the application's time zone, asked for by the monitor, written to  *)
(* the configuration file and read again by the next daemon.               *)
(*                                                                         *)
(* A time of day is a number below Day.  In memory both ends are moments   *)
(* of one fixed date, counted from its midnight; the conversion may move   *)
(* one to the date before or after, which is a number outside 0..Day-1.    *)
(***************************************************************************)
EXTENDS Integers

CONSTANTS
    Day,        \* moments in a day
    Offsets     \* zone of an application less zone of the host; 0: no zone, or the same

ASSUME DailyAssumption ==
    /\ Day \in Nat \ {0}
    /\ Offsets \subseteq Int
    /\ \A z \in Offsets : -Day < z /\ z < Day

VARIABLES
    user,       \* what the user registered, in the application's zone
    file,       \* daily_limitation in the configuration file
    mem,        \* m_dailyLimit
    now         \* the host's time of day

dvars == <<user, file, mem, now>>

Moment == 0 .. Day - 1
Limits == [start : Moment, end : Moment]

TypeOK ==
    /\ user \in [start : Moment, end : Moment, zone : Offsets]
    /\ file \in Limits
    /\ mem \in [start : Int, end : Int]
    /\ now \in Moment

-----------------------------------------------------------------------------
\* convert2tzTime(): the fields are read as local time of the zone.
Converted(m, z) == m - z

\* Mutant: the two ends are swapped.
FromJsonSwapped(r, z) == [start |-> Converted(r.end, z), end |-> Converted(r.start, z)]

\* DailyLimitation::FromJson and the conversion in Application::FromJson.
FromJson(r, z) == [start |-> Converted(r.start, z), end |-> Converted(r.end, z)]

\* convertDayTime2Str() keeps the time of day and forgets the date.
TimeOfDay(m) == IF m < 0 THEN m + Day ELSE IF m >= Day THEN m - Day ELSE m

AsJson(r) == [start |-> TimeOfDay(r.start), end |-> TimeOfDay(r.end)]

\* Mutant: the last moment belongs to the range.
InDailyTimeRangeClosed(r, n) ==
    \/ r.start = r.end
    \/ r.start < r.end /\ r.start <= n /\ n <= r.end
    \/ r.start > r.end /\ ~(r.end <= n /\ n < r.start)

InDailyTimeRange(r, n) ==
    \/ r.start = r.end
    \/ r.start < r.end /\ r.start <= n /\ n < r.end
    \/ r.start > r.end /\ ~(r.end <= n /\ n < r.start)

-----------------------------------------------------------------------------
\* A configuration file written by hand has just been read.
Init ==
    /\ user \in [start : Moment, end : Moment, zone : Offsets]
    /\ file = [start |-> user.start, end |-> user.end]
    /\ mem = FromJson(file, user.zone)
    /\ now \in Moment

\* PUT of an application: addApp() saves what it has parsed.
Register ==
    /\ user' \in [start : Moment, end : Moment, zone : Offsets]
    /\ mem' = FromJson(user', user'.zone)
    /\ file' = AsJson(mem')
    /\ UNCHANGED now

Restart ==      \* readConfiguration(); the file still names the zone
    /\ mem' = FromJson(file, user.zone)
    /\ UNCHANGED <<user, file, now>>

Save ==         \* any request that ends in saveConfigToDisk()
    /\ file' = AsJson(mem)
    /\ UNCHANGED <<user, mem, now>>

Pass ==
    /\ now' = TimeOfDay(now + 1)
    /\ UNCHANGED <<user, file, mem>>

Next == Register \/ Restart \/ Save \/ Pass

Spec == Init /\ [][Next]_dvars

-----------------------------------------------------------------------------
\* Reference: how far the clock of the application's zone is past the start.
Since(from, to) == IF from <= to THEN to - from ELSE to - from + Day

Within(u, n) ==
    u.start = u.end \/ Since(u.start, TimeOfDay(n + u.zone)) < Since(u.start, u.end)

(* ArgumentParser.cpp:135, "posix timezone for the application, reflect     *)
(* [start_time|daily_start|daily_end]": the monitor starts and kills by     *)
(* exactly the range the user registered.                                   *)
RangeHonoured == InDailyTimeRange(mem, now) <=> Within(user, now)

(* It does for an application without a zone: also when the range spans     *)
(* midnight, after any number of saves and restarts.                        *)
HostZoneHonoured == user.zone = 0 => RangeHonoured

(* A range in another zone is honoured too as long as the conversion leaves *)
(* both ends on the same date and no converted file has been read again.    *)
SameDateHonoured ==
    mem = FromJson(user, user.zone) /\ mem.start \in Moment /\ mem.end \in Moment
        => RangeHonoured

(* A restart of the daemon does not move the range of an application, whose *)
(* zone the same help text says it reflects.                                *)
RangeSurvives ==
    [][Restart => \A n \in Moment : InDailyTimeRange(mem', n) <=> InDailyTimeRange(mem, n)]_dvars
=============================================================================
