------------------------------ MODULE ShortRun ------------------------------
(***************************************************************************)
(* One short running application (ApplicationShortRun) or periodic long    *)
(* running one (ApplicationPeriodRun), its TimerAction objects and its     *)
(* TimerActionKill objects, from parseApp() to its destructor.             *)
(*                                                                         *)
(* The main thread runs the io_service: one callback at a time, each made  *)
(* of sections under the application's mutex with gaps between them.  REST *)
(* threads call start(), stop() and removeApp() in those gaps.  The object *)
(* is reference counted: the registry, a REST thread and the main thread's *)
(* callback may each hold it, a TimerAction only points at it weakly.      *)
(***************************************************************************)
EXTENDS OsProcess

CONSTANTS
    Self,       \* the application; the only member of App that runs here
    Timer,      \* bound: TimerAction objects that exist at a time
    NoTimer,    \* NULL
    Kinds       \* kinds of application to start with

ASSUME ShortRunAssumption ==
    /\ Self \in App
    /\ NoTimer \notin Timer
    /\ Kinds \subseteq [buffered : BOOLEAN, period : BOOLEAN]
    /\ ~PidReuse    \* so that a pid names a Process object

VARIABLES
    active,     \* m_active
    reg,        \* "new", "parsed" by addApp, "registered", or "removed"
    cur,        \* pid of m_process
    buf,        \* pid of m_bufferProcess
    kills,      \* pids a pending TimerActionKill will kill
    timers,     \* the state of every TimerAction
    mTimer,     \* m_timer
    held,       \* what a REST thread that holds the object is about to call
    main,       \* the main thread: pc, TimerAction it runs, does it hold the object
    inRange,    \* isInDailyTimeRange()
    started,    \* now > m_startTime, which only periodic applications ask
    kind        \* [buffered: m_bufferTime > 0, period: an ApplicationPeriodRun?]

svars == <<proc, active, reg, cur, buf, kills, timers, mTimer, held, main, inRange, started, kind>>

(* "free": not allocated, or deleted.  "armed": waiting.  "due": expired,   *)
(* its handler is queued.  "aborted": cancelled, its handler is queued.     *)
(* "handling": its handler runs.  "idle": allocated with nothing pending.   *)
TimerState == {"free", "armed", "due", "aborted", "handling", "idle"}
Pc == {"idle", "walk", "buffer", "lookup", "restart", "decide", "invoke", "rearm"}

TypeOK ==
    /\ ProcTypeOK
    /\ active \in {"NORMAL", "STOPPED"}
    /\ reg \in {"new", "parsed", "registered", "removed"}
    /\ cur \in PidOrNone /\ buf \in PidOrNone /\ kills \subseteq Pid
    /\ timers \in [Timer -> TimerState]
    /\ mTimer \in Timer \union {NoTimer}
    /\ held \in {"none", "start", "stop"}
    /\ main \in [pc : Pc, timer : Timer \union {NoTimer}, ref : BOOLEAN]
    /\ inRange \in BOOLEAN /\ started \in BOOLEAN
    /\ kind \in Kinds

Remembered == {cur, buf} \union kills

AtRest == [pc |-> "idle", timer |-> NoTimer, ref |-> FALSE]
At(pc) == [main EXCEPT !.pc = pc]

\* Does anything but the thread that is now releasing it hold the object?
HeldByRegistry == reg \in {"parsed", "registered"}
HeldByRest == held # "none"

-----------------------------------------------------------------------------
(* TimerAction.  cancel() reaches only a wait that has not expired yet.     *)

Cancelled(ts, t) ==
    IF t \in Timer /\ ts[t] = "armed" THEN [ts EXCEPT ![t] = "aborted"] ELSE ts

\* Mutant: only the first call makes a TimerAction.
InitTimerOnce ==
    IF mTimer # NoTimer THEN UNCHANGED <<timers, mTimer>>
    ELSE \E t \in Timer : /\ timers[t] = "free"
                          /\ timers' = [timers EXCEPT ![t] = "armed"]
                          /\ mTimer' = t

\* initTimer(): cancel the present TimerAction, create another.
InitTimer ==
    \E t \in Timer :
        /\ timers[t] = "free"
        /\ timers' = [Cancelled(timers, mTimer) EXCEPT ![t] = "armed"]
        /\ mTimer' = t

\* When the last reference goes the destructor cancels m_timer.
Released(ts, stillHeld) == IF stillHeld THEN ts ELSE Cancelled(ts, mTimer)

-----------------------------------------------------------------------------
(* Load and attach: the object of the configuration file, registered, with  *)
(* a TimerAction and the process attach() found for it.  Or no object yet.  *)
Init ==
    /\ active \in {"NORMAL", "STOPPED"}
    /\ reg \in {"new", "registered"}
    /\ cur \in IF reg = "registered" /\ active = "NORMAL" THEN PidOrNone ELSE {NoPid}
    /\ proc = [p \in Pid |-> IF p = cur THEN [st |-> "alien", own |-> Self] ELSE Free]
    /\ buf = NoPid /\ kills = {}
    /\ mTimer \in IF reg = "registered" THEN Timer ELSE {NoTimer}
    /\ timers = [t \in Timer |-> IF t = mTimer THEN "armed" ELSE "free"]
    /\ held = "none"
    /\ main = AtRest
    /\ inRange \in BOOLEAN
    /\ kind \in Kinds
    /\ started \in IF kind.period THEN BOOLEAN ELSE {TRUE}

(* addApp(): parseApp() creates the object and, whatever "active" says, its *)
(* TimerAction, before the configuration lock is taken to register it.      *)
Parse ==
    /\ reg = "new"
    /\ reg' = "parsed"
    /\ InitTimer
    /\ UNCHANGED <<proc, active, cur, buf, kills, held, main, inRange, started, kind>>

Register ==
    /\ reg = "parsed"
    /\ reg' = "registered"
    /\ UNCHANGED <<proc, active, cur, buf, kills, timers, mTimer, held, main, inRange, started, kind>>

-----------------------------------------------------------------------------
(* REST threads.  stopApp() and startApp() fetch the object with getApp()   *)
(* and call it later, with no lock held in between.                         *)

GetApp ==
    /\ reg = "registered" /\ held = "none"
    /\ held' \in {"start", "stop"}
    /\ UNCHANGED <<proc, active, reg, cur, buf, kills, timers, mTimer, main, inRange, started, kind>>

\* Mutant: stop() kills the buffered process as well.
StopBodyAll ==
    IF active = "STOPPED" THEN UNCHANGED <<active, proc>>
    ELSE /\ active' = "STOPPED"
         /\ \E t \in AfterKill(proc, cur) : proc' \in AfterKill(t, buf)

StopBody ==     \* Application::stop()
    IF active = "STOPPED" THEN UNCHANGED <<active, proc>>
    ELSE active' = "STOPPED" /\ proc' \in AfterKill(proc, cur)

Stop ==
    /\ held = "stop"
    /\ held' = "none"
    /\ StopBody
    /\ timers' = Released(timers, HeldByRegistry \/ main.ref)
    /\ UNCHANGED <<reg, cur, buf, kills, mTimer, main, inRange, started, kind>>

Start ==        \* ApplicationShortRun::start()
    /\ held = "start" /\ active = "STOPPED"
    /\ held' = "none"
    /\ active' = "NORMAL"
    /\ IF HeldByRegistry \/ main.ref THEN InitTimer
       ELSE \E t \in Timer :    \* the new TimerAction dies with the object
            /\ timers[t] = "free"
            /\ timers' = [Cancelled(timers, mTimer) EXCEPT ![t] = "aborted"]
            /\ mTimer' = t
    /\ UNCHANGED <<proc, reg, cur, buf, kills, main, inRange, started, kind>>

StartAgain ==   \* ... of an application that is NORMAL
    /\ held = "start" /\ active = "NORMAL"
    /\ held' = "none"
    /\ timers' = Released(timers, HeldByRegistry \/ main.ref)
    /\ UNCHANGED <<proc, active, reg, cur, buf, kills, mTimer, main, inRange, started, kind>>

\* removeApp(), and addApp() when it replaces this object: stop and erase.
Remove ==
    /\ reg = "registered"
    /\ reg' = "removed"
    /\ StopBody
    /\ timers' = Released(timers, HeldByRest \/ main.ref)
    /\ UNCHANGED <<cur, buf, kills, mTimer, held, main, inRange, started, kind>>

-----------------------------------------------------------------------------
\* Mutant: no TimerActionKill.
InvokeNowKeepsOld ==
    /\ \E p \in (IF inRange THEN Fresh(proc, Remembered) ELSE {}) \union {NoPid} :
            proc' = Spawned(proc, Self, p) /\ cur' = p
    /\ buf' = cur
    /\ UNCHANGED kills

(* invokeNow(): one section under the mutex.  The old process is handed to  *)
(* a TimerActionKill or killed; a new Process object is spawned if allowed. *)
InvokeNow ==
    /\ \E t \in IF kind.buffered THEN {proc} ELSE AfterKill(proc, cur) :
       \E p \in (IF inRange THEN Fresh(t, Remembered) ELSE {}) \union {NoPid} :
            /\ proc' = Spawned(t, Self, p)
            /\ cur' = p
    /\ buf' = IF kind.buffered THEN cur ELSE buf
    /\ kills' = IF kind.buffered THEN kills \union ({cur} \ {NoPid}) ELSE kills

NoInvoke == UNCHANGED <<proc, cur, buf, kills>>

-----------------------------------------------------------------------------
(* Main thread: monitorAllApps.  It works on a copy of the list of          *)
(* applications, and invoke() of a short running one only refreshes.        *)

Walk ==
    /\ main.pc = "idle"
    /\ main' = [AtRest EXCEPT !.pc = "walk", !.ref = (reg = "registered")]
    /\ UNCHANGED <<proc, active, reg, cur, buf, kills, timers, mTimer, held, inRange, started, kind>>

WalkPast ==     \* the copy does not contain this object
    /\ main.pc = "walk" /\ ~main.ref
    /\ main' = AtRest
    /\ UNCHANGED <<proc, active, reg, cur, buf, kills, timers, mTimer, held, inRange, started, kind>>

RefreshCur ==   \* Application::refreshPid()
    /\ main.pc = "walk" /\ main.ref
    /\ proc' = Reaped(proc, cur)
    /\ main' = At("buffer")
    /\ UNCHANGED <<active, reg, cur, buf, kills, timers, mTimer, held, inRange, started, kind>>

RefreshBuf ==   \* the rest of ApplicationShortRun::refreshPid()
    /\ main.pc = "buffer"
    /\ proc' = Reaped(proc, buf)
    /\ IF kind.period THEN main' = At("lookup") /\ UNCHANGED timers
       ELSE main' = AtRest /\ timers' = Released(timers, HeldByRegistry \/ HeldByRest)
    /\ UNCHANGED <<active, reg, cur, buf, kills, mTimer, held, inRange, started, kind>>

(* ApplicationPeriodRun::refreshPid(): is an application of this name       *)
(* registered?  Once this one is removed, a replacement may be.             *)
LookupFound ==
    /\ main.pc = "lookup"
    /\ reg \in {"registered", "removed"}
    /\ main' = At("restart")
    /\ UNCHANGED <<proc, active, reg, cur, buf, kills, timers, mTimer, held, inRange, started, kind>>

LookupFails ==
    /\ main.pc = "lookup" /\ reg = "removed"
    /\ main' = AtRest
    /\ timers' = Released(timers, HeldByRest)
    /\ UNCHANGED <<proc, active, reg, cur, buf, kills, mTimer, held, inRange, started, kind>>

\* Mutant: the state is tested the wrong way round.
RestartInverted ==
    /\ main.pc = "restart"
    /\ IF ~Running(cur) /\ active = "STOPPED" /\ started THEN InvokeNow ELSE NoInvoke
    /\ main' = AtRest
    /\ timers' = Released(timers, HeldByRegistry \/ HeldByRest)
    /\ UNCHANGED <<active, reg, mTimer, held, inRange, started, kind>>

Restart ==
    /\ main.pc = "restart"
    /\ IF ~Running(cur) /\ active = "NORMAL" /\ started THEN InvokeNow ELSE NoInvoke
    /\ main' = AtRest
    /\ timers' = Released(timers, HeldByRegistry \/ HeldByRest)
    /\ UNCHANGED <<active, reg, mTimer, held, inRange, started, kind>>

-----------------------------------------------------------------------------
(* Main thread: TimerAction::onTimeOut.                                     *)

HandleAborted(t) ==     \* ec is set: delete this
    /\ main.pc = "idle" /\ timers[t] = "aborted"
    /\ timers' = [timers EXCEPT ![t] = "free"]
    /\ UNCHANGED <<proc, active, reg, cur, buf, kills, mTimer, held, main, inRange, started, kind>>

ObjectExists == HeldByRegistry \/ HeldByRest \/ main.ref

HandleGone(t) ==        \* m_app.lock() fails: cancelTimer(), with nothing pending
    /\ main.pc = "idle" /\ timers[t] = "due" /\ ~ObjectExists
    /\ timers' = [timers EXCEPT ![t] = "idle"]
    /\ UNCHANGED <<proc, active, reg, cur, buf, kills, mTimer, held, main, inRange, started, kind>>

HandleDue(t) ==         \* m_app.lock() succeeds
    /\ main.pc = "idle" /\ timers[t] = "due" /\ ObjectExists
    /\ timers' = [timers EXCEPT ![t] = "handling"]
    /\ main' = [pc |-> "decide", timer |-> t, ref |-> TRUE]
    /\ UNCHANGED <<proc, active, reg, cur, buf, kills, mTimer, held, inRange, started, kind>>

DecideGo ==             \* isNormal()
    /\ main.pc = "decide" /\ active = "NORMAL"
    /\ main' = At("invoke")
    /\ UNCHANGED <<proc, active, reg, cur, buf, kills, timers, mTimer, held, inRange, started, kind>>

\* Mutant: the handler that finds its application stopped deletes itself.
DecideDelete ==
    /\ main.pc = "decide" /\ active = "STOPPED"
    /\ main' = AtRest
    /\ timers' = [timers EXCEPT ![main.timer] = "free"]
    /\ UNCHANGED <<proc, active, reg, cur, buf, kills, mTimer, held, inRange, started, kind>>

DecideIdle ==           \* not NORMAL: the handler returns and nothing is pending
    /\ main.pc = "decide" /\ active = "STOPPED"
    /\ main' = AtRest
    /\ timers' = Released([timers EXCEPT ![main.timer] = "idle"], HeldByRegistry \/ HeldByRest)
    /\ UNCHANGED <<proc, active, reg, cur, buf, kills, mTimer, held, inRange, started, kind>>

HandlerInvoke ==        \* app->invokeNow(self)
    /\ main.pc = "invoke"
    /\ InvokeNow
    /\ main' = At("rearm")
    /\ UNCHANGED <<active, reg, timers, mTimer, held, inRange, started, kind>>

Rearm ==                \* expires_at, async_wait
    /\ main.pc = "rearm"
    /\ main' = AtRest
    /\ timers' = Released([timers EXCEPT ![main.timer] = "armed"], HeldByRegistry \/ HeldByRest)
    /\ UNCHANGED <<proc, active, reg, cur, buf, kills, mTimer, held, inRange, started, kind>>

\* TimerActionKill::onTimeOut: no mutex of the application is taken.
KillTimeOut(p) ==
    /\ main.pc = "idle" /\ p \in kills
    /\ proc' \in AfterKill(proc, p)
    /\ kills' = kills \ {p}
    /\ UNCHANGED <<active, reg, cur, buf, timers, mTimer, held, main, inRange, started, kind>>

-----------------------------------------------------------------------------
(* The environment: time and processes.                                     *)

Expire(t) ==
    /\ timers[t] = "armed"
    /\ timers' = [timers EXCEPT ![t] = "due"]
    /\ UNCHANGED <<proc, active, reg, cur, buf, kills, mTimer, held, main, inRange, started, kind>>

Clock ==
    /\ inRange' = ~inRange
    /\ UNCHANGED <<proc, active, reg, cur, buf, kills, timers, mTimer, held, main, started, kind>>

StartTimePasses ==
    /\ ~started /\ started' = TRUE
    /\ UNCHANGED <<proc, active, reg, cur, buf, kills, timers, mTimer, held, main, inRange, kind>>

Exit ==
    /\ \E p \in Pid : ProcessExit(p)
    /\ UNCHANGED <<active, reg, cur, buf, kills, timers, mTimer, held, main, inRange, started, kind>>

Rest == Parse \/ Register \/ GetApp \/ Stop \/ Start \/ StartAgain \/ Remove

Main ==
    \/ Walk \/ WalkPast \/ RefreshCur \/ RefreshBuf \/ LookupFound \/ LookupFails \/ Restart
    \/ DecideGo \/ DecideIdle \/ HandlerInvoke \/ Rearm
    \/ \E t \in Timer : HandleAborted(t) \/ HandleGone(t) \/ HandleDue(t)
    \/ \E p \in Pid : KillTimeOut(p)

Environment == Clock \/ StartTimePasses \/ Exit \/ \E t \in Timer : Expire(t)

Next == Rest \/ Main \/ Environment

Spec == Init /\ [][Next]_svars

(* The io_service is run by the main thread alone and lets it take every    *)
(* mutex it waits for; it serves what is queued; timers expire; and fork()  *)
(* does not fail for ever.  Nothing is assumed of clients and programs.     *)
(* A periodic application must be restarted by the monitor however long its *)
(* interval is, so its timers are not assumed to expire.                    *)
SpawnSucceeds == (HandlerInvoke \/ Restart) /\ cur' # cur /\ cur' # NoPid

Fairness ==
    /\ WF_svars(RefreshCur \/ RefreshBuf \/ WalkPast)
    /\ WF_svars(LookupFound \/ LookupFails \/ Restart)
    /\ WF_svars(DecideGo \/ DecideIdle)
    /\ WF_svars(HandlerInvoke \/ Rearm)
    /\ SF_svars(Walk)
    /\ SF_svars(SpawnSucceeds)
    /\ \A t \in Timer : /\ SF_svars(HandleAborted(t) \/ HandleGone(t) \/ HandleDue(t))
                        /\ WF_svars(~kind.period /\ Expire(t))
    /\ \A p \in Pid : SF_svars(KillTimeOut(p))
    /\ WF_svars(StartTimePasses)

FairSpec == Spec /\ Fairness

-----------------------------------------------------------------------------
(* As long as the object exists every live process of it is the current one *)
(* or has a TimerActionKill coming: a process is never dropped on the way   *)
(* from m_process to m_bufferProcess to the kill, whatever REST threads do  *)
(* between the sections of a callback.                                      *)
Supervised == ObjectExists => Live(Self) \subseteq {cur} \union kills

(* While the object exists m_timer, which initTimer() and the destructor    *)
(* dereference, is a TimerAction that has not deleted itself.               *)
TimerAlive == ObjectExists /\ mTimer # NoTimer => timers[mTimer] # "free"

(* A NORMAL application always has an invocation coming: a TimerAction that *)
(* waits, is queued, or is being handled.  Stopping lets the TimerAction    *)
(* run dry, so this is what start() must restore in every interleaving.     *)
Pending(t) == timers[t] \in {"armed", "due", "handling"}

NeverUnscheduled ==
    ObjectExists /\ active = "NORMAL" => \E t \in Timer : Pending(t)

(* The extra time of a buffered process is respected: neither stop() nor    *)
(* the next invokeNow() kills it, only its exit or its own TimerActionKill; *)
(* and when that has fired the process is down.                             *)
GraceRespected ==
    [][\A p \in kills :
          /\ proc[p].st = "child" /\ proc'[p].st = "free" => p \notin kills'
          /\ p \notin kills' => proc'[p].st \notin LiveState]_svars

(* A registered application left NORMAL and inside its range is up again    *)
(* and again, even when each process exits or is killed.                    *)
RunsAgain ==
    <>[](reg = "registered" /\ active = "NORMAL" /\ inRange) => []<>(Live(Self) # {})

(* ApplicationShortRun.cpp:120, "m_timer will be deleted itself": once the  *)
(* object is gone its TimerAction objects are deleted in the end.           *)
TimerDeleted ==
    \A t \in Timer : reg = "removed" /\ ~ObjectExists ~> timers[t] = "free"

(* README.md:43, "Stop an application": nothing of a stopped application is *)
(* running, but what still has its extra time, once the main thread is      *)
(* between two callbacks.                                                   *)
StopTakesEffect ==
    reg = "registered" /\ active = "STOPPED" /\ main.pc = "idle"
        => Live(Self) \subseteq kills

(* TimerAction.h:9, "Each timer action assotiate to a short running         *)
(* application": two of them never fire for the same application.           *)
OneTimer ==
    ObjectExists /\ active = "NORMAL" => Cardinality({t \in Timer : Pending(t)}) <= 1

(* TimerAction.cpp:57, "To handle the case when ApplicationShortRun was     *)
(* removed from Configuration": once a removed application's object is gone *)
(* none of its processes is left without a TimerActionKill.                 *)
RemovedNotRunning == reg = "removed" /\ ~ObjectExists => Live(Self) \subseteq kills
=============================================================================
