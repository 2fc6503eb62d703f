---------------------------- MODULE Application ----------------------------
(***************************************************************************)
(* Long running applications (class Application).  The daemon's main       *)
(* thread walks over all applications every ScheduleIntervalSec            *)
(* (monitorAllApps) and REST threads call start() and stop().  Each        *)
(* application has a recursive mutex; an action is one section under it.   *)
(*                                                                         *)
(* invoke() takes the mutex twice: once to spawn or kill, and again inside *)
(* refreshPid(), so a REST thread may act between the two.  start() holds  *)
(* the mutex over both.                                                    *)
(***************************************************************************)
EXTENDS OsProcess

CONSTANT Limited    \* applications that have a daily_limitation

ASSUME LimitedAssumption == Limited \subseteq App

VARIABLES
    active,     \* m_active
    childId,    \* m_process->getpid(): the pid this object believes is its process
    mPid,       \* m_pid: the pid reported to clients
    inRange,    \* isInDailyTimeRange() at this moment
    todo,       \* applications monitorAllApps has still to invoke in this round
    owed,       \* the application whose invoke() is between its two sections
    starting    \* applications whose start() is between invoke's two halves

vars == <<proc, active, childId, mPid, inRange, todo, owed, starting>>

Status == {"NORMAL", "STOPPED"}

TypeOK ==
    /\ ProcTypeOK
    /\ active \in [App -> Status]
    /\ childId \in [App -> PidOrNone]
    /\ mPid \in [App -> PidOrNone]
    /\ inRange \in [App -> BOOLEAN]
    /\ todo \subseteq App
    /\ owed \in App \union {Nobody}
    /\ starting \subseteq App

Remembered == {childId[a] : a \in App}

\* m_mutex of a is held across steps only by start().
Unlocked(a) == a \notin starting

-----------------------------------------------------------------------------
(* Daemon start: every application is configured NORMAL or STOPPED, and     *)
(* attach() has given those whose process survived an earlier daemon its    *)
(* pid.  monitorAllApps is called at once.                                  *)

Attached(f) ==
    [p \in Pid |-> IF \E a \in App : f[a] = p
                   THEN [st |-> "alien", own |-> CHOOSE a \in App : f[a] = p]
                   ELSE Free]

Init ==
    /\ active \in [App -> Status]
    /\ childId \in [App -> PidOrNone]
    /\ \A a, b \in App : childId[a] = childId[b] /\ childId[a] # NoPid => a = b
    /\ \A a \in App : childId[a] # NoPid => active[a] = "NORMAL"
    /\ proc = Attached(childId)
    /\ mPid = childId
    /\ inRange \in [App -> BOOLEAN]
    /\ \A a \in App \ Limited : inRange[a]
    /\ todo = App
    /\ owed = Nobody
    /\ starting = {}

-----------------------------------------------------------------------------
(* The first section of invoke(), for an application that is NORMAL.        *)

\* Mutants: spawn whatever runs; spawn only when nothing was ever spawned;
\* forget m_pid when fork fails.
SpawnBlindly(a) ==
    /\ inRange[a]
    /\ \E p \in Fresh(proc, Remembered) \union {NoPid} :
        /\ proc' = Spawned(proc, a, p)
        /\ childId' = [childId EXCEPT ![a] = p]
        /\ mPid' = [mPid EXCEPT ![a] = p]

SpawnOnce(a) == childId[a] = NoPid /\ SpawnBlindly(a)

SpawnKeepsPid(a) ==
    /\ inRange[a] /\ ~Running(childId[a])
    /\ \E p \in Fresh(proc, Remembered) \union {NoPid} :
        /\ proc' = Spawned(proc, a, p)
        /\ childId' = [childId EXCEPT ![a] = p]
        /\ mPid' = IF p = NoPid THEN mPid ELSE [mPid EXCEPT ![a] = p]

SpawnIfDown(a) ==
    /\ inRange[a]
    /\ ~Running(childId[a])
    /\ \E p \in Fresh(proc, Remembered) \union {NoPid} :
        /\ proc' = Spawned(proc, a, p)
        /\ childId' = [childId EXCEPT ![a] = p]
        /\ mPid' = [mPid EXCEPT ![a] = p]

LeaveRunning(a) ==
    /\ inRange[a]
    /\ Running(childId[a])
    /\ UNCHANGED <<proc, childId, mPid>>

\* Mutants: kill inside the range too; do not kill.
KillInAnyRange(a) ==
    /\ proc' \in AfterKill(proc, childId[a])
    /\ UNCHANGED <<childId, mPid>>

LeaveOutOfRange(a) == ~inRange[a] /\ UNCHANGED <<proc, childId, mPid>>

KillOutOfRange(a) ==
    /\ ~inRange[a]
    /\ proc' \in AfterKill(proc, childId[a])
    /\ UNCHANGED <<childId, mPid>>

InvokeBody(a) == SpawnIfDown(a) \/ LeaveRunning(a) \/ KillOutOfRange(a)

\* Mutant: the pid is cleared to something that is not -1.
RefreshPidClears(a) ==
    /\ proc' = Reaped(proc, childId[a])
    /\ mPid' = [mPid EXCEPT ![a] = IF Running(childId[a]) THEN childId[a] ELSE Nobody]
    /\ UNCHANGED childId

(* The second: refreshPid().  running() is asked before wait() reaps, so a  *)
(* zombie's pid is reported once more and cleared by the next refresh.      *)
RefreshPid(a) ==
    /\ proc' = Reaped(proc, childId[a])
    /\ mPid' = [mPid EXCEPT ![a] = IF Running(childId[a]) THEN childId[a] ELSE NoPid]
    /\ UNCHANGED childId

-----------------------------------------------------------------------------
(* The main thread.                                                         *)

Tick ==
    /\ todo = {} /\ owed = Nobody
    /\ todo' = App
    /\ UNCHANGED <<proc, active, childId, mPid, inRange, owed, starting>>

\* Mutants: invoke() does not ask isNormal(), or refreshes NORMAL ones only.
MonitorInvokeAny(a) ==
    /\ owed = Nobody /\ a \in todo /\ Unlocked(a)
    /\ InvokeBody(a)
    /\ todo' = todo \ {a}
    /\ owed' = a
    /\ UNCHANGED <<active, inRange, starting>>

MonitorRefreshNormal(a) ==
    /\ owed = a /\ Unlocked(a)
    /\ IF active[a] = "NORMAL" THEN RefreshPid(a) ELSE UNCHANGED <<proc, mPid, childId>>
    /\ owed' = Nobody
    /\ UNCHANGED <<active, inRange, todo, starting>>

MonitorInvoke(a) ==
    /\ owed = Nobody /\ a \in todo /\ Unlocked(a)
    /\ \/ active[a] = "NORMAL" /\ InvokeBody(a)
       \/ active[a] = "STOPPED" /\ UNCHANGED <<proc, childId, mPid>>
    /\ todo' = todo \ {a}
    /\ owed' = a
    /\ UNCHANGED <<active, inRange, starting>>

MonitorRefresh(a) ==
    /\ owed = a /\ Unlocked(a)
    /\ RefreshPid(a)
    /\ owed' = Nobody
    /\ UNCHANGED <<active, inRange, todo, starting>>

-----------------------------------------------------------------------------
(* REST threads.  start() and stop() return at once in the other state.     *)

Start(a) ==
    /\ Unlocked(a)
    /\ active[a] = "STOPPED"
    /\ active' = [active EXCEPT ![a] = "NORMAL"]
    /\ InvokeBody(a)
    /\ starting' = starting \union {a}
    /\ UNCHANGED <<inRange, todo, owed>>

StartRefresh(a) ==
    /\ a \in starting
    /\ RefreshPid(a)
    /\ starting' = starting \ {a}
    /\ UNCHANGED <<active, inRange, todo, owed>>

\* Mutant: the state changes, the process stays.
StopWithoutKill(a) ==
    /\ Unlocked(a) /\ active[a] = "NORMAL"
    /\ active' = [active EXCEPT ![a] = "STOPPED"]
    /\ UNCHANGED <<proc, childId, mPid, inRange, todo, owed, starting>>

Stop(a) ==
    /\ Unlocked(a)
    /\ active[a] = "NORMAL"
    /\ active' = [active EXCEPT ![a] = "STOPPED"]
    /\ proc' \in AfterKill(proc, childId[a])
    /\ UNCHANGED <<childId, mPid, inRange, todo, owed, starting>>

-----------------------------------------------------------------------------
(* The environment.                                                         *)

Exit ==
    /\ \E p \in Pid : ProcessExit(p)
    /\ UNCHANGED <<active, childId, mPid, inRange, todo, owed, starting>>

Foreign ==
    /\ ForeignStart(Remembered)
    /\ UNCHANGED <<active, childId, mPid, inRange, todo, owed, starting>>

\* The time of day enters or leaves the application's daily range.
Clock(a) ==
    /\ a \in Limited
    /\ inRange' = [inRange EXCEPT ![a] = ~@]
    /\ UNCHANGED <<proc, active, childId, mPid, todo, owed, starting>>

Next ==
    \/ Tick
    \/ \E a \in App : MonitorInvoke(a)
    \/ \E a \in App : MonitorRefresh(a)
    \/ \E a \in App : Start(a)
    \/ \E a \in App : StartRefresh(a)
    \/ \E a \in App : Stop(a)
    \/ Exit
    \/ Foreign
    \/ \E a \in App : Clock(a)

Spec == Init /\ [][Next]_vars

(* The io_service runs its timers, a thread that holds a mutex goes on, and *)
(* fork() does not fail for ever.                                           *)
SpawnSucceeds(a) == MonitorInvoke(a) /\ childId[a] # childId'[a] /\ childId'[a] # NoPid

Fairness ==
    /\ WF_vars(Tick)
    /\ \A a \in App : /\ SF_vars(MonitorInvoke(a))
                      /\ SF_vars(MonitorRefresh(a))
                      /\ SF_vars(SpawnSucceeds(a))
                      /\ WF_vars(StartRefresh(a))

FairSpec == Spec /\ Fairness

-----------------------------------------------------------------------------
(* Every process of an application that is not yet reaped is the one its    *)
(* m_process holds: there is never a second instance, and never a process   *)
(* or a zombie that nobody will kill or wait for, whatever REST threads do  *)
(* between the halves of invoke().                                          *)
Supervised == \A a \in App : \A p \in Pid : proc[p].own = a => childId[a] = p

(* Once stop() has returned nothing of the application runs, and the        *)
(* monitor, wherever it was in its round, does not bring it back.           *)
StoppedNotRunning == \A a \in App : active[a] = "STOPPED" => Live(a) = {}

(* The pid shown to clients is never one of an earlier process: it is the   *)
(* supervised pid or none.                                                  *)
ReportedPid == \A a \in App : mPid[a] \in {NoPid, childId[a]}

(* Without pid recycling, the only way a child leaves the table without     *)
(* having exited first (killgroup) is for an application that is being      *)
(* stopped or is outside its daily range: no handler of another application *)
(* and no monitor round ever takes down a process that should be up.        *)
KillJustified ==
    [][\A a \in App, p \in Pid :
          proc[p] = [st |-> "child", own |-> a] /\ proc'[p].st = "free"
          => active'[a] = "STOPPED" \/ ~inRange[a]]_vars

(* These mutexes, threads and pids implement what supervision promises:     *)
(* every step is a step of Supervision or invisible to it.                  *)
Up == [a \in App |-> Live(a) # {}]

Promise == INSTANCE Supervision WITH up <- Up

ImplementsSupervision == Promise!Spec

(* An application left NORMAL and in range is restarted whenever its        *)
(* process is gone (README: long running applications are monitored and     *)
(* started again).                                                          *)
KeepsRunning ==
    \A a \in App : <>[](active[a] = "NORMAL" /\ inRange[a]) => []<>(Live(a) # {})

(* An application left outside its daily range is taken down and stays so.  *)
KeptOutOfRange ==
    \A a \in App : <>[](active[a] = "NORMAL" /\ ~inRange[a]) => <>[](Live(a) = {})

(* A stopped application's zombie is reaped and its stale pid is cleared.   *)
StopSettles ==
    \A a \in App : <>[](active[a] = "STOPPED")
                   => <>[](mPid[a] = NoPid /\ \A p \in Pid : proc[p].own # a)
=============================================================================
