------------------------------- MODULE Startup -------------------------------
(***************************************************************************)
(* The daemon from one start to the next: main() reads the configuration   *)
(* file, opens the REST listener, lists the processes of the host, attaches*)
(* applications to the survivors of an earlier daemon by their command     *)
(* lines, and only then begins to monitor.  A crash at any moment leaves   *)
(* processes and file behind, and the watchdog starts the next daemon.     *)
(*                                                                         *)
(* What runs in between is module Application, whose REST threads are at   *)
(* work from the moment the listener is open.                              *)
(***************************************************************************)
EXTENDS Application

CONSTANTS
    Command,    \* command lines
    CommandOf,  \* m_commandLine of every application
    Lookalike   \* command lines that processes of others on the host may have

ASSUME StartupAssumption ==
    /\ CommandOf \in [App -> Command]
    /\ Lookalike \subseteq Command

VARIABLES
    phase,      \* where main() is: "listen", "attach" or "run"
    list,       \* the map of getSymProcessList(): command line to pid
    attaching,  \* applications whose attach() is still to come
    disk,       \* "active" of every application in the file
    touched     \* history: applications that were started or stopped before attach()

startup == <<phase, list, attaching, disk, touched>>
uvars == <<vars, startup>>

NoList == [c \in Command |-> NoPid]

StartupTypeOK ==
    /\ TypeOK
    /\ phase \in {"listen", "attach", "run"}
    /\ list \in [Command -> PidOrNone]
    /\ attaching \subseteq App
    /\ disk \in [App -> Status]
    /\ touched \subseteq App

-----------------------------------------------------------------------------
\* What a new daemon knows: the file.
Loaded ==
    /\ active' = disk
    /\ childId' = [a \in App |-> NoPid]
    /\ mPid' = childId'
    /\ todo' = {} /\ owed' = Nobody /\ starting' = {}
    /\ phase' = "listen" /\ list' = NoList /\ attaching' = App

(* The listener has just been opened by a daemon whose predecessor left at  *)
(* most one process of every application behind.                            *)
StartupInit ==
    /\ disk \in [App -> Status]
    /\ active = disk
    /\ \E f \in [App -> PidOrNone] :
        /\ \A a, b \in App : f[a] = f[b] /\ f[a] # NoPid => a = b
        /\ proc = Attached(f)
    /\ childId = [a \in App |-> NoPid]
    /\ mPid = childId
    /\ inRange \in [App -> BOOLEAN]
    /\ \A a \in App \ Limited : inRange[a]
    /\ todo = {} /\ owed = Nobody /\ starting = {}
    /\ phase = "listen" /\ list = NoList /\ attaching = App
    /\ touched = {}

\* The daemon dies; its children are the init process's now, which reaps.
Orphaned(e) ==
    IF e.st = "child" THEN [e EXCEPT !.st = "alien"]
    ELSE IF e.st = "zombie" THEN Free ELSE e

CrashRestart ==
    /\ proc' = [p \in Pid |-> Orphaned(proc[p])]
    /\ Loaded
    /\ UNCHANGED <<inRange, disk, touched>>

-----------------------------------------------------------------------------
(* main().                                                                  *)

Shown(c) ==
    {p \in Pid : /\ proc[p].st \in LiveState
                 /\ proc[p].own \in App
                 /\ CommandOf[proc[p].own] = c}

\* The tree of processes is walked and the last one with a command line wins.
ListProcesses ==
    /\ phase = "listen"
    /\ phase' = "attach"
    /\ list' \in {f \in [Command -> PidOrNone] :
                    \A c \in Command :
                        \/ f[c] \in Shown(c)
                        \/ c \in Lookalike /\ f[c] \in Live(Nobody)
                        \/ Shown(c) = {} /\ f[c] = NoPid}
    /\ UNCHANGED <<vars, attaching, disk, touched>>

\* Mutant: attach() looks up another key than the command line.
AttachNone(a) ==
    /\ phase = "attach" /\ a \in attaching /\ Unlocked(a)
    /\ attaching' = attaching \ {a}
    /\ UNCHANGED <<vars, phase, list, disk, touched>>

Attach(a) ==
    /\ phase = "attach" /\ a \in attaching /\ Unlocked(a)
    /\ LET p == list[CommandOf[a]]
       IN  IF p = NoPid THEN UNCHANGED <<childId, mPid, list>>
           ELSE /\ childId' = [childId EXCEPT ![a] = p]
                /\ mPid' = [mPid EXCEPT ![a] = p]
                /\ list' = [list EXCEPT ![CommandOf[a]] = NoPid]
    /\ attaching' = attaching \ {a}
    /\ UNCHANGED <<proc, active, inRange, todo, owed, starting, phase, disk, touched>>

\* Mutant: monitoring begins before the survivors are known.
FirstRoundEarly ==
    /\ phase # "run"
    /\ phase' = "run"
    /\ todo' = App
    /\ list' = NoList
    /\ UNCHANGED <<proc, active, childId, mPid, inRange, owed, starting, attaching, disk, touched>>

\* monitorAllApps for the first time; from now on main() runs the io_service.
FirstRound ==
    /\ phase = "attach" /\ attaching = {}
    /\ phase' = "run"
    /\ todo' = App
    /\ list' = NoList
    /\ UNCHANGED <<proc, active, childId, mPid, inRange, owed, starting, attaching, disk, touched>>

Monitor ==
    /\ phase = "run"
    /\ Tick \/ \E a \in App : MonitorInvoke(a) \/ MonitorRefresh(a)
    /\ UNCHANGED startup

-----------------------------------------------------------------------------
(* REST threads, from the moment the listener is open.                      *)

StartOrStop(a) ==
    /\ Start(a) \/ Stop(a)
    /\ touched' = IF a \in attaching THEN touched \union {a} ELSE touched
    /\ UNCHANGED <<phase, list, attaching, disk>>

FinishStart(a) == StartRefresh(a) /\ UNCHANGED startup

(* saveConfigToDisk(), which every start and stop request ends in, and also *)
(* one that changes nothing.  It waits for the mutex of every application.  *)
Save ==
    /\ starting = {}
    /\ disk' = active
    /\ UNCHANGED <<vars, phase, list, attaching, touched>>

Environment ==
    /\ Exit \/ Foreign \/ \E a \in App : Clock(a)
    /\ UNCHANGED startup

StartupNext ==
    \/ CrashRestart \/ ListProcesses \/ FirstRound \/ Monitor
    \/ \E a \in App : Attach(a) \/ StartOrStop(a) \/ FinishStart(a)
    \/ Save \/ Environment

StartupSpec == StartupInit /\ [][StartupNext]_uvars

-----------------------------------------------------------------------------
\* The command line names the application, and no request came too early.
Distinct(a) ==
    /\ CommandOf[a] \notin Lookalike
    /\ \A b \in App \ {a} : CommandOf[b] # CommandOf[a]

Undisturbed(a) == Distinct(a) /\ a \notin touched

(* However often the daemon crashes, wherever in its start-up or in a round *)
(* of the monitor, there are never two instances of an application: each    *)
(* daemon finds the survivor before it could start another.                 *)
OneInstance == \A a \in App : Undisturbed(a) => Cardinality(Live(a)) <= 1

(* Once attach() has been called every process of the application is held,  *)
(* so that stop() and the monitor reach it, whichever daemon started it and *)
(* whatever happened between listing the processes and attaching.           *)
Readopted ==
    \A a \in App \ attaching : Undisturbed(a) =>
        \A p \in Pid : proc[p].own = a => childId[a] = p

(* README.md:43, "Stop an application": a stopped application runs nothing. *)
(* Not so when attach() gives a survivor to an application saved as         *)
(* STOPPED, or stop() is called before attach().                            *)
StoppedRunsNothing ==
    \A a \in App \ attaching : active[a] = "STOPPED" => Live(a) = {}
=============================================================================
