----------------------------- MODULE OsProcess -----------------------------
(***************************************************************************)
(* The operating system as the daemon sees it: the process table, and what *)
(* ACE_Process (fork, kill, wait) and Process::killgroup do to it.  The    *)
(* application modules extend this module; every operator that changes the *)
(* table maps a table to the table, or the set of tables, it may become,   *)
(* so that a handler which kills and then spawns is one composition.       *)
(***************************************************************************)
EXTENDS Integers, FiniteSets

CONSTANTS
    Pid,        \* process ids the kernel may hand out; all greater than 1
    NoPid,      \* -1
    App,        \* application objects
    Nobody,     \* "no application"
    PidReuse,   \* may the kernel recycle a pid that the daemon still remembers?
    Interrupts, \* may signals interrupt both waits of a killgroup?
    MaxForeign  \* bound: how many processes of nobody's exist at a time

ASSUME OsAssumption ==
    /\ NoPid \notin Pid
    /\ Nobody \notin App
    /\ PidReuse \in BOOLEAN
    /\ Interrupts \in BOOLEAN
    /\ MaxForeign \in Nat

VARIABLE proc   \* the process table

PidOrNone == Pid \union {NoPid}

\* "child": running, forked by this daemon.  "zombie": such a child, exited
\* but not waited for.  "alien": running and somebody else's child, which is
\* what an attached process is (its forker was an earlier daemon).
LiveState == {"child", "alien"}
Entry == [st : LiveState \union {"zombie", "free"}, own : App \union {Nobody}]
Free == [st |-> "free", own |-> Nobody]

ProcTypeOK == proc \in [Pid -> Entry]

-----------------------------------------------------------------------------
(* ACE_Process::running() is kill(pid, 0): a zombie counts as running, and  *)
(* so does whoever holds a recycled pid.                                    *)
RunningIn(t, c) == c \in Pid /\ t[c].st # "free"
Running(c) == RunningIn(proc, c)

Live(a) == {p \in Pid : proc[p].own = a /\ proc[p].st \in LiveState}

(* wait(): a finished child is removed from the table; a process that is    *)
(* not a child is not waited for (ECHILD) and a running one times out.      *)
Reaped(t, c) ==
    IF c \in Pid /\ t[c].st = "zombie" THEN [t EXCEPT ![c] = Free] ELSE t

(* killgroup(): SIGKILL to the group and the process, then wait().  When    *)
(* both waits are interrupted a killed child is left behind as a zombie.    *)
Remains(e) ==
    {Free} \union IF Interrupts /\ e.st # "alien" THEN {[e EXCEPT !.st = "zombie"]} ELSE {}

AfterKill(t, c) ==
    IF RunningIn(t, c) THEN {[t EXCEPT ![c] = e] : e \in Remains(t[c])} ELSE {t}

(* fork(): the child gets a pid that is free; NoPid is a failed fork.       *)
Fresh(t, remembered) ==
    {p \in Pid : t[p].st = "free" /\ (PidReuse \/ p \notin remembered)}

Spawned(t, a, p) ==
    IF p \in Pid THEN [t EXCEPT ![p] = [st |-> "child", own |-> a]] ELSE t

-----------------------------------------------------------------------------
(* What happens without the daemon.                                         *)

\* A process exits: a child stays as a zombie, the rest is reaped elsewhere.
Exited(t, p) ==
    [t EXCEPT ![p] = IF t[p].st = "child" THEN [t[p] EXCEPT !.st = "zombie"] ELSE Free]

ProcessExit(p) ==
    /\ proc[p].st \in LiveState
    /\ proc' = Exited(proc, p)

\* Somebody else on the host starts a process.
ForeignStart(remembered) ==
    /\ Cardinality(Live(Nobody)) < MaxForeign
    /\ \E p \in Fresh(proc, remembered) :
           proc' = [proc EXCEPT ![p] = [st |-> "alien", own |-> Nobody]]
=============================================================================
