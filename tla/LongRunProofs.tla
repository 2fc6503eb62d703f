---------------------------- MODULE LongRunProofs ----------------------------
(***************************************************************************)
(* Long running applications, first under one daemon and then over any     *)
(* number of them.                                                         *)
(*                                                                         *)
(* Application: the safety of supervision for any number of applications   *)
(* and pids, with or without pid recycling, and that it implements         *)
(* Supervision.  Supervised and StoppedNotRunning rest on each other:      *)
(* stop() kills the process m_process holds, and only because that is      *)
(* every process of the application is nothing left; and a second instance *)
(* is impossible only because spawning is guarded by running() on that     *)
(* same pid.                                                               *)
(*                                                                         *)
(* Startup: for any applications, command lines and pids, and any number   *)
(* of crashes, an application whose command line is its own and that no    *)
(* request reached before its attach() never has two instances.  Until it  *)
(* is attached such an application has at most one survivor, and once the  *)
(* processes are listed the list names it; from then on whatever it has is *)
(* what it holds.  A survivor must not turn into a zombie of this daemon,  *)
(* or the list would not show it: Safe says it is an alien.                *)
(***************************************************************************)
EXTENDS Startup, OsProcessProofs, FiniteSetTheorems

\* A free entry of the table belongs to nobody.
FreeUnowned == \A p \in Pid : proc[p].st = "free" => proc[p].own = Nobody

IInv == TypeOK /\ FreeUnowned /\ Supervised /\ StoppedNotRunning /\ ReportedPid

-----------------------------------------------------------------------------
\* The processes that attach() found are the ones the applications hold.
LEMMA InitIInv == Init => IInv
<1> SUFFICES ASSUME Init PROVE IInv
  OBVIOUS
<1>1. \A p \in Pid : \/ proc[p] = Free /\ \A a \in App : childId[a] # p
                     \/ \E a \in App : childId[a] = p /\ proc[p] = [st |-> "alien", own |-> a]
  <2> SUFFICES ASSUME NEW p \in Pid, NEW a \in App, childId[a] = p
               PROVE  \E b \in App : childId[b] = p /\ proc[p] = [st |-> "alien", own |-> b]
    BY DEF Init, Attached
  <2> DEFINE owner == CHOOSE b \in App : childId[b] = p
  <2>1. owner \in App /\ childId[owner] = p
    OBVIOUS
  <2>2. proc[p] = [st |-> "alien", own |-> owner]
    BY DEF Init, Attached
  <2> QED
    BY <2>1, <2>2
<1>2. \A p \in Pid : /\ proc[p] \in Entry
                     /\ \A a \in App : proc[p].own = a => childId[a] = p
                     /\ proc[p].st = "free" => proc[p].own = Nobody
  <2> SUFFICES ASSUME NEW p \in Pid
               PROVE  /\ proc[p] \in Entry
                      /\ \A a \in App : proc[p].own = a => childId[a] = p
                      /\ proc[p].st = "free" => proc[p].own = Nobody
    OBVIOUS
  <2>1. CASE proc[p] = Free
    BY <2>1, OsAssumption DEF Entry, Free, LiveState
  <2>2. CASE proc[p] # Free
    <3>1. PICK a \in App : childId[a] = p /\ proc[p] = [st |-> "alien", own |-> a]
      BY <1>1, <2>2
    <3> QED
      BY <3>1 DEF Entry, LiveState
  <2> QED
    BY <2>1, <2>2
<1>3. TypeOK
  <2>1. proc = [p \in Pid |-> proc[p]]
    BY DEF Init, Attached
  <2>2. proc \in [Pid -> Entry]
    BY <1>2, <2>1
  <2> QED
    BY <2>2 DEF Init, TypeOK, ProcTypeOK, Status
<1>4. Supervised /\ FreeUnowned
  BY <1>2 DEF Supervised, FreeUnowned
<1>5. StoppedNotRunning
  BY <1>2, NoPidIsNone DEF StoppedNotRunning, Live, Init
<1>6. ReportedPid
  BY DEF ReportedPid, Init
<1> QED
  BY <1>3, <1>4, <1>5, <1>6 DEF IInv

-----------------------------------------------------------------------------
(* A section that ends with one more application possibly down, every       *)
(* process where it was: killgroup, refreshPid's wait, an exit.             *)
OnlyLess ==
    /\ proc' \in Table
    /\ \A p \in Pid : proc'[p].own \in {proc[p].own, Nobody}
    /\ \A p \in Pid : proc'[p].st \in LiveState => proc'[p] = proc[p]
    /\ \A p \in Pid : proc'[p].st = "free" => proc'[p].own = Nobody
    /\ childId' = childId

\* Removing processes disturbs neither supervision nor stopped applications.
LEMMA OnlyLessKeeps ==
    ASSUME IInv, OnlyLess
    PROVE  /\ ProcTypeOK' /\ FreeUnowned' /\ Supervised'
           /\ \A a \in App : active[a] = "STOPPED" => Live(a)' = {}
           /\ \A a \in App : Live(a)' \subseteq Live(a)
BY OsAssumption DEF IInv, OnlyLess, Table, ProcTypeOK, FreeUnowned, Supervised, StoppedNotRunning, Live

\* killgroup of what an application holds leaves nothing of it alive.
LEMMA KillHeld ==
    ASSUME IInv, NEW a \in App, proc' \in AfterKill(proc, childId[a]), UNCHANGED childId
    PROVE  OnlyLess /\ Live(a)' = {}
<1>1. proc \in Table /\ childId[a] \in PidOrNone
  BY DEF IInv, TypeOK, ProcTypeOK, Table
<1>2. OnlyLess
  BY <1>1, KillFacts DEF OnlyLess, IInv, FreeUnowned
<1>3. ASSUME NEW p \in Live(a)' PROVE FALSE
  <2>1. p \in Pid /\ p # childId[a] /\ proc'[p] = proc[p] /\ proc'[p].own = a
    BY <1>1, <1>3, KillFacts DEF Live
  <2> QED
    BY <2>1 DEF IInv, Supervised
<1> QED
  BY <1>2, <1>3

\* refreshPid reports the pid that is held, or none, and at most reaps.
LEMMA RefreshKeeps ==
    ASSUME IInv, NEW a \in App, RefreshPid(a)
    PROVE  OnlyLess /\ ReportedPid' /\ mPid' \in [App -> PidOrNone]
<1>1. proc \in Table /\ childId[a] \in PidOrNone /\ childId \in [App -> PidOrNone] /\ mPid \in [App -> PidOrNone]
  BY DEF IInv, TypeOK, ProcTypeOK, Table
<1>2. OnlyLess
  <2>1. proc' \in Table
    BY <1>1, ReapFacts DEF RefreshPid
  <2>2. \A p \in Pid : proc'[p] = proc[p] \/ proc'[p] = Free
    BY <1>1, ReapFacts DEF RefreshPid
  <2> QED
    BY <2>1, <2>2 DEF OnlyLess, IInv, FreeUnowned, RefreshPid, Free, LiveState
<1>3. mPid' \in [App -> PidOrNone]
  BY <1>1 DEF RefreshPid, PidOrNone
<1>4. ReportedPid'
  BY <1>1 DEF RefreshPid, ReportedPid, IInv
<1> QED
  BY <1>2, <1>3, <1>4

\* What the first section of invoke() does for a: it ends with a's process
\* the one a holds, and no other application with more than it had.
LEMMA InvokeKeeps ==
    ASSUME IInv, NEW a \in App, InvokeBody(a)
    PROVE  /\ ProcTypeOK' /\ FreeUnowned' /\ Supervised' /\ ReportedPid'
           /\ childId' \in [App -> PidOrNone] /\ mPid' \in [App -> PidOrNone]
           /\ \A b \in App \ {a} : Live(b)' \subseteq Live(b)
           /\ \/ \A b \in App : Live(b)' \subseteq Live(b)
              \/ /\ Live(a) = {} /\ Live(a)' # {}
                 /\ \A b \in App \ {a} : Live(b)' = Live(b)
<1>1. proc \in Table /\ childId \in [App -> PidOrNone] /\ mPid \in [App -> PidOrNone]
  BY DEF IInv, TypeOK, ProcTypeOK, Table
<1>2. CASE SpawnIfDown(a)
  <2> PICK p \in Fresh(proc, Remembered) \union {NoPid} :
             /\ proc' = Spawned(proc, a, p)
             /\ childId' = [childId EXCEPT ![a] = p]
             /\ mPid' = [mPid EXCEPT ![a] = p]
    BY <1>2 DEF SpawnIfDown
  <2>1. /\ p \in PidOrNone
        /\ proc' \in Table
        /\ \A q \in Pid : q # p => proc'[q] = proc[q]
        /\ p \in Pid => proc'[p] = [st |-> "child", own |-> a] /\ proc[p].st = "free"
    BY <1>1, SpawnFacts
  <2>2. \A q \in Pid : proc[q].own # a
    BY <1>2, OsAssumption DEF SpawnIfDown, Running, RunningIn, IInv, Supervised, FreeUnowned
  <2>3. ProcTypeOK' /\ childId' \in [App -> PidOrNone] /\ mPid' \in [App -> PidOrNone]
    BY <1>1, <2>1 DEF ProcTypeOK, Table
  <2>4. FreeUnowned'
    BY <2>1 DEF FreeUnowned, IInv
  <2>5. Supervised'
    BY <1>1, <2>1, <2>2 DEF Supervised, IInv
  <2>6. ReportedPid'
    BY <1>1, <2>1 DEF ReportedPid, IInv
  <2>7. \A b \in App \ {a} : Live(b)' = Live(b)
    <3> SUFFICES ASSUME NEW b \in App \ {a}, NEW q \in Pid
                 PROVE  q \in Live(b)' <=> q \in Live(b)
      BY DEF Live
    <3> QED
      BY <2>1 DEF Live, LiveState
  <2>8. Live(a) = {}
    BY <2>2 DEF Live
  <2>9. CASE p \in Pid
    BY <2>1, <2>3, <2>4, <2>5, <2>6, <2>7, <2>8, <2>9 DEF Live, LiveState
  <2>10. CASE p \notin Pid
    <3>1. Live(a)' = {}
      BY <2>1, <2>2, <2>10 DEF Live
    <3> QED
      BY <2>3, <2>4, <2>5, <2>6, <2>7, <2>8, <3>1
  <2> QED
    BY <2>9, <2>10
<1>3. CASE LeaveRunning(a)
  BY <1>1, <1>3 DEF LeaveRunning, IInv, ProcTypeOK, Table, FreeUnowned, Supervised, ReportedPid, Live
<1>4. CASE KillOutOfRange(a)
  <2>1. OnlyLess
    BY <1>4, KillHeld DEF KillOutOfRange
  <2>2. ReportedPid' /\ childId' \in [App -> PidOrNone] /\ mPid' \in [App -> PidOrNone]
    BY <1>1, <1>4 DEF KillOutOfRange, ReportedPid, IInv
  <2> QED
    BY <2>1, <2>2, OnlyLessKeeps
<1> QED
  BY <1>2, <1>3, <1>4 DEF InvokeBody

-----------------------------------------------------------------------------
\* An exit, and a process of nobody's, take nothing from what is held.
LEMMA EnvironmentKeeps ==
    ASSUME IInv, Exit \/ Foreign
    PROVE  /\ ProcTypeOK' /\ FreeUnowned' /\ Supervised'
           /\ \A a \in App : Live(a)' \subseteq Live(a)
<1>1. proc \in Table
  BY DEF IInv, TypeOK, ProcTypeOK, Table
<1>2. CASE Exit
  <2> PICK p \in Pid : proc[p].st \in LiveState /\ proc' = Exited(proc, p)
    BY <1>2 DEF Exit, ProcessExit
  <2>1. /\ proc' \in Table
        /\ \A q \in Pid : q # p => proc'[q] = proc[q]
        /\ proc'[p].st \notin LiveState
        /\ proc'[p].own \in {proc[p].own, Nobody}
        /\ proc'[p].st = "free" => proc'[p].own = Nobody
    BY <1>1, ExitFacts
  <2>2. OnlyLess
    BY <1>2, <2>1 DEF OnlyLess, Exit, IInv, FreeUnowned
  <2> QED
    BY <2>2, OnlyLessKeeps
<1>3. CASE Foreign
  <2> PICK p \in Fresh(proc, Remembered) :
             proc' = [proc EXCEPT ![p] = [st |-> "alien", own |-> Nobody]]
    BY <1>3 DEF Foreign, ForeignStart
  <2>1. p \in Pid
    BY DEF Fresh
  <2>2. ProcTypeOK'
    BY <1>1, <2>1 DEF ProcTypeOK, Table, Entry, LiveState
  <2>3. \A q \in Pid : \/ proc'[q] = proc[q]
                       \/ proc'[q].own = Nobody /\ proc'[q].st = "alien"
    BY <1>1, <2>1 DEF Table
  <2> QED
    BY <1>3, <2>2, <2>3, OsAssumption DEF IInv, FreeUnowned, Supervised, Live, Foreign
<1> QED
  BY <1>2, <1>3

\* stop() leaves nothing of the application alive and changes no other's.
LEMMA StopKeeps ==
    ASSUME IInv, NEW a \in App, Stop(a)
    PROVE  IInv' /\ Live(a)' = {} /\ \A b \in App : Live(b)' \subseteq Live(b)
<1>1. OnlyLess /\ Live(a)' = {}
  BY KillHeld DEF Stop
<1>2. ProcTypeOK' /\ FreeUnowned' /\ Supervised' /\ \A b \in App : Live(b)' \subseteq Live(b)
  BY <1>1, OnlyLessKeeps
<1>3. TypeOK'
  BY <1>2 DEF Stop, IInv, TypeOK, Status
<1>4. ReportedPid'
  BY DEF Stop, IInv, ReportedPid
<1>5. StoppedNotRunning'
  <2> SUFFICES ASSUME NEW b \in App, active'[b] = "STOPPED" PROVE Live(b)' = {}
    BY DEF StoppedNotRunning
  <2>1. CASE b = a
    BY <1>1, <2>1
  <2>2. CASE b # a
    BY <1>1, <2>2, OnlyLessKeeps DEF Stop, IInv, TypeOK
  <2> QED
    BY <2>1, <2>2
<1> QED
  BY <1>1, <1>2, <1>3, <1>4, <1>5 DEF IInv

\* start(): the application is NORMAL before invoke() looks.
LEMMA StartKeeps ==
    ASSUME IInv, NEW a \in App, Start(a)
    PROVE  IInv'
<1>1. InvokeBody(a) /\ active' = [active EXCEPT ![a] = "NORMAL"]
  BY DEF Start
<1>2. /\ ProcTypeOK' /\ FreeUnowned' /\ Supervised' /\ ReportedPid'
      /\ childId' \in [App -> PidOrNone] /\ mPid' \in [App -> PidOrNone]
      /\ \A b \in App \ {a} : Live(b)' \subseteq Live(b)
  BY <1>1, InvokeKeeps
<1>3. TypeOK'
  BY <1>2 DEF Start, IInv, TypeOK, Status
<1>4. StoppedNotRunning'
  BY <1>1, <1>2 DEF StoppedNotRunning, IInv, TypeOK, Status
<1> QED
  BY <1>2, <1>3, <1>4 DEF IInv

\* The monitor's half of invoke(), for an application in either state.
LEMMA MonitorKeeps ==
    ASSUME IInv, NEW a \in App, MonitorInvoke(a)
    PROVE  IInv'
<1>1. UNCHANGED <<active, inRange, starting>> /\ todo' \subseteq App /\ owed' \in App \union {Nobody}
  BY DEF MonitorInvoke, IInv, TypeOK
<1>2. CASE active[a] = "NORMAL" /\ InvokeBody(a)
  <2>1. /\ ProcTypeOK' /\ FreeUnowned' /\ Supervised' /\ ReportedPid'
        /\ childId' \in [App -> PidOrNone] /\ mPid' \in [App -> PidOrNone]
        /\ \A b \in App \ {a} : Live(b)' \subseteq Live(b)
    BY <1>2, InvokeKeeps
  <2>2. TypeOK'
    BY <1>1, <2>1 DEF IInv, TypeOK
  <2>3. StoppedNotRunning'
    BY <1>1, <1>2, <2>1 DEF StoppedNotRunning, IInv
  <2> QED
    BY <2>1, <2>2, <2>3 DEF IInv
<1>3. CASE UNCHANGED <<proc, childId, mPid>>
  BY <1>1, <1>3 DEF IInv, TypeOK, ProcTypeOK, FreeUnowned, Supervised, StoppedNotRunning, ReportedPid, Live
<1> QED
  BY <1>2, <1>3 DEF MonitorInvoke

\* Every step preserves the invariant.
LEMMA NextIInv == IInv /\ [Next]_vars => IInv'
<1> SUFFICES ASSUME IInv, [Next]_vars PROVE IInv'
  OBVIOUS
<1>1. CASE Tick
  BY <1>1 DEF Tick, IInv, TypeOK, ProcTypeOK, FreeUnowned, Supervised, StoppedNotRunning, ReportedPid, Live
<1>2. ASSUME NEW a \in App, MonitorInvoke(a) PROVE IInv'
  BY <1>2, MonitorKeeps
<1>3. ASSUME NEW a \in App, RefreshPid(a), UNCHANGED <<active, inRange>>,
             todo' \subseteq App, owed' \in App \union {Nobody}, starting' \subseteq App
      PROVE  IInv'
  <2>1. OnlyLess /\ ReportedPid' /\ mPid' \in [App -> PidOrNone]
    BY <1>3, RefreshKeeps
  <2>2. TypeOK'
    BY <1>3, <2>1, OnlyLessKeeps DEF IInv, TypeOK, OnlyLess
  <2>3. StoppedNotRunning'
    BY <1>3, <2>1, OnlyLessKeeps DEF StoppedNotRunning
  <2> QED
    BY <2>1, <2>2, <2>3, OnlyLessKeeps DEF IInv
<1>4. ASSUME NEW a \in App, MonitorRefresh(a) PROVE IInv'
  BY <1>3, <1>4 DEF MonitorRefresh, IInv, TypeOK
<1>5. ASSUME NEW a \in App, Start(a) PROVE IInv'
  BY <1>5, StartKeeps
<1>6. ASSUME NEW a \in App, StartRefresh(a) PROVE IInv'
  BY <1>3, <1>6 DEF StartRefresh, IInv, TypeOK
<1>7. ASSUME NEW a \in App, Stop(a) PROVE IInv'
  BY <1>7, StopKeeps
<1>8. CASE Exit \/ Foreign
  <2>1. /\ ProcTypeOK' /\ FreeUnowned' /\ Supervised'
        /\ \A a \in App : Live(a)' \subseteq Live(a)
    BY <1>8, EnvironmentKeeps
  <2>2. UNCHANGED <<active, childId, mPid, inRange, todo, owed, starting>>
    BY <1>8 DEF Exit, Foreign
  <2> QED
    BY <2>1, <2>2 DEF IInv, TypeOK, StoppedNotRunning, ReportedPid
<1>9. ASSUME NEW a \in App, Clock(a) PROVE IInv'
  BY <1>9 DEF Clock, IInv, TypeOK, ProcTypeOK, FreeUnowned, Supervised, StoppedNotRunning, ReportedPid, Live
<1>10. CASE UNCHANGED vars
  BY <1>10 DEF vars, IInv, TypeOK, ProcTypeOK, FreeUnowned, Supervised, StoppedNotRunning, ReportedPid, Live
<1> QED
  BY <1>1, <1>2, <1>4, <1>5, <1>6, <1>7, <1>8, <1>9, <1>10 DEF Next

-----------------------------------------------------------------------------
\* The pids of m_process, the reported pids and the process table stay well
\* typed, whatever order threads, exits and recycled pids come in.
THEOREM TypeCorrect == Spec => []TypeOK
<1>1. IInv => TypeOK
  BY DEF IInv
<1> QED
  BY InitIInv, NextIInv, <1>1, PTL DEF Spec

\* No application ever has a second instance or a process nobody will reap.
THEOREM SupervisedAlways == Spec => []Supervised
<1>1. IInv => Supervised
  BY DEF IInv
<1> QED
  BY InitIInv, NextIInv, <1>1, PTL DEF Spec

\* A stopped application has no live process, and the monitor, wherever it is
\* in its round, does not bring one back.
THEOREM StopIsEffective == Spec => []StoppedNotRunning
<1>1. IInv => StoppedNotRunning
  BY DEF IInv
<1> QED
  BY InitIInv, NextIInv, <1>1, PTL DEF Spec

\* What clients are shown is the supervised pid or none.
THEOREM ReportedPidAlways == Spec => []ReportedPid
<1>1. IInv => ReportedPid
  BY DEF IInv
<1> QED
  BY InitIInv, NextIInv, <1>1, PTL DEF Spec

-----------------------------------------------------------------------------
\* Steps that take no application up are invisible or an abstract GoDown.
LEMMA OnlyDownImplements ==
    ASSUME UNCHANGED active, \A a \in App : Live(a)' \subseteq Live(a)
    PROVE  Promise!Next
<1>1. Up' \in [App -> BOOLEAN]
  BY DEF Up
<1>2. \A b \in App : Up'[b] => Up[b]
  BY DEF Up
<1> QED
  BY <1>1, <1>2 DEF Promise!Next, Promise!GoDown, Promise!OnlyDownBut

\* The first section of invoke() for a NORMAL application is Bring or GoDown.
LEMMA InvokeImplements ==
    ASSUME IInv, NEW a \in App, active[a] = "NORMAL", InvokeBody(a), UNCHANGED active
    PROVE  Promise!Next
<1>1. CASE \A b \in App : Live(b)' \subseteq Live(b)
  BY <1>1, OnlyDownImplements
<1>2. CASE /\ Live(a) = {} /\ Live(a)' # {}
           /\ \A b \in App \ {a} : Live(b)' = Live(b)
  <2>1. Up' = [Up EXCEPT ![a] = TRUE] /\ ~Up[a]
    BY <1>2 DEF Up
  <2> QED
    BY <2>1 DEF Promise!Next, Promise!Bring
<1> QED
  BY <1>1, <1>2, InvokeKeeps

\* Every step of the threads is a step of Supervision or invisible to it.
LEMMA StepImplements == IInv /\ [Next]_vars => [Promise!Next]_(Promise!avars)
<1> SUFFICES ASSUME IInv, [Next]_vars PROVE Promise!Next \/ UNCHANGED Promise!avars
  OBVIOUS
<1>1. CASE Tick \/ UNCHANGED vars \/ \E a \in App : Clock(a)
  BY <1>1 DEF Tick, vars, Clock, Promise!avars, Up, Live
<1>2. ASSUME NEW a \in App, MonitorInvoke(a) PROVE Promise!Next
  <2>1. CASE active[a] = "NORMAL" /\ InvokeBody(a)
    BY <1>2, <2>1, InvokeImplements DEF MonitorInvoke
  <2>2. CASE UNCHANGED <<proc, childId, mPid>>
    BY <1>2, <2>2, OnlyDownImplements DEF MonitorInvoke, Live
  <2> QED
    BY <1>2, <2>1, <2>2 DEF MonitorInvoke
<1>3. ASSUME NEW a \in App, RefreshPid(a), UNCHANGED active PROVE Promise!Next
  BY <1>3, RefreshKeeps, OnlyLessKeeps, OnlyDownImplements
<1>4. ASSUME NEW a \in App, MonitorRefresh(a) \/ StartRefresh(a) PROVE Promise!Next
  BY <1>3, <1>4 DEF MonitorRefresh, StartRefresh
<1>5. ASSUME NEW a \in App, Start(a) PROVE Promise!Next
  <2>1. \A b \in App \ {a} : Live(b)' \subseteq Live(b)
    BY <1>5, InvokeKeeps DEF Start
  <2>2. Up' \in [App -> BOOLEAN] /\ \A b \in App \ {a} : Up'[b] => Up[b]
    BY <2>1 DEF Up
  <2>3. active[a] = "STOPPED" /\ active' = [active EXCEPT ![a] = "NORMAL"]
    BY <1>5 DEF Start
  <2> QED
    BY <2>2, <2>3 DEF Promise!Next, Promise!Start, Promise!OnlyDownBut
<1>6. ASSUME NEW a \in App, Stop(a) PROVE Promise!Next
  <2>1. Live(a)' = {} /\ \A b \in App : Live(b)' \subseteq Live(b)
    BY <1>6, StopKeeps
  <2>2. Up' \in [App -> BOOLEAN] /\ ~Up'[a] /\ \A b \in App : Up'[b] => Up[b]
    BY <2>1 DEF Up
  <2>3. active[a] = "NORMAL" /\ active' = [active EXCEPT ![a] = "STOPPED"]
    BY <1>6 DEF Stop
  <2> QED
    BY <2>2, <2>3 DEF Promise!Next, Promise!Stop, Promise!OnlyDownBut
<1>7. CASE Exit \/ Foreign
  BY <1>7, EnvironmentKeeps, OnlyDownImplements DEF Exit, Foreign
<1> QED
  BY <1>1, <1>2, <1>4, <1>5, <1>6, <1>7 DEF Next

\* Long running applications implement Supervision: the mutexes, the split
\* invoke(), zombies and pids add nothing a client could observe.
THEOREM Refinement == Spec => ImplementsSupervision
<1>1. Init => Promise!Init
  <2>1. Init => \A a \in App : Up[a] => active[a] = "NORMAL"
    BY InitIInv DEF IInv, StoppedNotRunning, Up, TypeOK, Status
  <2> QED
    BY <2>1 DEF Init, Promise!Init, Up, Status
<1> QED
  BY <1>1, InitIInv, NextIInv, StepImplements, PTL DEF Spec, ImplementsSupervision, Promise!Spec

-----------------------------------------------------------------------------
\* Two applications never hold the same pid, once pids are not recycled.
HeldApart ==
    \A a, b \in App : childId[a] = childId[b] /\ childId[a] # NoPid => a = b

\* A spawn is the only step that changes what is held; it takes a pid that
\* nobody remembers.
LEMMA HeldApartKept ==
    ASSUME ~PidReuse, IInv, HeldApart, [Next]_vars
    PROVE  HeldApart'
<1>1. ASSUME NEW a \in App, InvokeBody(a) PROVE HeldApart'
  <2>1. CASE SpawnIfDown(a)
    <3> PICK p \in Fresh(proc, Remembered) \union {NoPid} :
               childId' = [childId EXCEPT ![a] = p]
      BY <2>1 DEF SpawnIfDown
    <3>1. p = NoPid \/ \A b \in App : childId[b] # p
      BY DEF Fresh, Remembered
    <3> QED
      BY <3>1 DEF HeldApart, IInv, TypeOK
  <2> QED
    BY <1>1, <2>1 DEF InvokeBody, LeaveRunning, KillOutOfRange, HeldApart
<1>2. CASE UNCHANGED childId
  BY <1>2 DEF HeldApart
<1> QED
  BY <1>1, <1>2 DEF Next, vars, Tick, MonitorInvoke, MonitorRefresh, RefreshPid, Start,
                    StartRefresh, Stop, Exit, Foreign, Clock

\* killgroup of what b holds can free only a process of b.
LEMMA KillsOwn ==
    ASSUME IInv, HeldApart, NEW a \in App, NEW b \in App, NEW p \in Pid,
           proc[p] = [st |-> "child", own |-> a],
           proc' \in AfterKill(proc, childId[b]), proc'[p].st = "free"
    PROVE  a = b
<1>1. proc \in Table /\ childId[b] \in PidOrNone
  BY DEF IInv, TypeOK, ProcTypeOK, Table
<1>2. proc[p].own = a /\ proc[p].st # "free"
  OBVIOUS
<1>3. p = childId[b]
  BY <1>1, <1>2, KillFacts
<1> QED
  BY <1>2, <1>3, NoPidIsNone DEF IInv, Supervised, HeldApart

\* Without pid recycling no handler of one application and no monitor round
\* kills a process that should be up.
THEOREM KillsAreJustified == ASSUME ~PidReuse PROVE Spec => KillJustified
<1> DEFINE A(a, p) == proc[p] = [st |-> "child", own |-> a] /\ proc'[p].st = "free"
                      => active'[a] = "STOPPED" \/ ~inRange[a]
           Act == \A a \in App, p \in Pid : A(a, p)
<1>1. Init => HeldApart
  BY DEF Init, HeldApart
<1>2. IInv /\ HeldApart /\ [Next]_vars => [Act]_vars
  <2> SUFFICES ASSUME IInv, HeldApart, [Next]_vars, NEW a \in App, NEW p \in Pid,
                      proc[p] = [st |-> "child", own |-> a], proc'[p].st = "free"
               PROVE  active'[a] = "STOPPED" \/ ~inRange[a]
    OBVIOUS
  <2>1. proc[p].st = "child" /\ proc \in Table
    BY DEF IInv, TypeOK, ProcTypeOK, Table
  <2>2. ASSUME NEW b \in App, InvokeBody(b) PROVE ~inRange[a]
    <3>1. CASE KillOutOfRange(b)
      BY <3>1, KillsOwn DEF KillOutOfRange
    <3>2. CASE SpawnIfDown(b)
      <4> PICK q \in Fresh(proc, Remembered) \union {NoPid} : proc' = Spawned(proc, b, q)
        BY <3>2 DEF SpawnIfDown
      <4>1. proc'[p] = proc[p] \/ (p = q /\ proc'[p] = [st |-> "child", own |-> b])
        BY <2>1, SpawnFacts
      <4> QED
        BY <2>1, <4>1
    <3> QED
      BY <2>1, <2>2, <3>1, <3>2 DEF InvokeBody, LeaveRunning
  <2>3. ASSUME NEW b \in App, RefreshPid(b) PROVE FALSE
    <3>1. childId[b] \in PidOrNone
      BY DEF IInv, TypeOK
    <3> QED
      BY <2>1, <2>3, <3>1, ReapFacts DEF RefreshPid
  <2>4. ASSUME NEW b \in App, Stop(b) PROVE active'[a] = "STOPPED"
    BY <2>4, KillsOwn DEF Stop, IInv, TypeOK
  <2>5. CASE Exit
    <3> PICK q \in Pid : proc' = Exited(proc, q)
      BY <2>5 DEF Exit, ProcessExit
    <3> QED
      BY <2>1 DEF Exited, Table, Entry
  <2>6. CASE Foreign
    <3> PICK q \in Pid : proc' = [proc EXCEPT ![q] = [st |-> "alien", own |-> Nobody]]
      BY <2>6 DEF Foreign, ForeignStart, Fresh
    <3> QED
      BY <2>1 DEF Table
  <2>7. CASE UNCHANGED proc
    BY <2>1, <2>7
  <2> QED
    BY <2>2, <2>3, <2>4, <2>5, <2>6, <2>7
       DEF Next, vars, Tick, MonitorInvoke, MonitorRefresh, Start, StartRefresh, Clock
<1>3. IInv /\ HeldApart /\ [Next]_vars => HeldApart'
  BY HeldApartKept
<1> QED
  BY <1>1, <1>2, <1>3, InitIInv, NextIInv, PTL DEF Spec, KillJustified

-----------------------------------------------------------------------------
(* From one daemon to the next.                                             *)

\* Before attach(): one survivor, found by the list.
Awaited(b) ==
    /\ childId[b] = NoPid
    /\ \A p, q \in Pid : proc[p].own = b /\ proc[q].own = b => p = q
    /\ \A p \in Pid : proc[p].own = b => proc[p].st = "alien"
    /\ phase = "attach" => \A p \in Pid : proc[p].own = b => list[CommandOf[b]] = p

\* After it: every process is held.
Held(b) == \A p \in Pid : proc[p].own = b => childId[b] = p

Safe(b) == IF b \in attaching THEN Awaited(b) ELSE Held(b)

Phases ==
    /\ phase = "run" => attaching = {}
    /\ phase = "listen" => attaching = App

AllSafe == \A b \in App : Undisturbed(b) => Safe(b)

UInv == StartupTypeOK /\ FreeUnowned /\ Phases /\ AllSafe

\* The types, by hand: what every leaf about the table and the pids needs.
LEMMA Types ==
    ASSUME StartupTypeOK
    PROVE  /\ proc \in Table /\ childId \in [App -> PidOrNone] /\ mPid \in [App -> PidOrNone]
           /\ list \in [Command -> PidOrNone] /\ attaching \subseteq App /\ touched \subseteq App
           /\ \A a \in App : childId[a] \in PidOrNone /\ CommandOf[a] \in Command
  BY StartupAssumption DEF StartupTypeOK, TypeOK, ProcTypeOK, Table

-----------------------------------------------------------------------------
(* Steps that only take processes away, and leave an alien one as it is or  *)
(* nothing in its place.                                                    *)
Shrinks ==
    /\ proc' \in Table
    /\ \A p \in Pid : proc'[p].own \in {proc[p].own, Nobody}
    /\ \A p \in Pid : proc[p].st = "alien" => proc'[p] \in {proc[p], Free}
    /\ \A p \in Pid : proc'[p].st = "free" => proc'[p].own = Nobody

LEMMA KillShrinks ==
    ASSUME StartupTypeOK, FreeUnowned, NEW a \in App, proc' \in AfterKill(proc, childId[a])
    PROVE  Shrinks
<1>1. proc \in Table /\ childId[a] \in PidOrNone
  BY Types
<1>2. \A p \in Pid : proc[p].st = "alien" => proc'[p] \in {proc[p], Free}
  BY <1>1 DEF AfterKill, RunningIn, Remains, Table
<1> QED
  BY <1>1, <1>2, KillFacts DEF Shrinks, FreeUnowned

LEMMA RefreshShrinks ==
    ASSUME StartupTypeOK, FreeUnowned, NEW a \in App, RefreshPid(a)
    PROVE  Shrinks /\ childId' = childId /\ mPid' \in [App -> PidOrNone]
<1>1. proc \in Table /\ childId[a] \in PidOrNone /\ mPid \in [App -> PidOrNone]
  BY Types
<1>2. proc' \in Table /\ \A p \in Pid : proc'[p] = proc[p] \/ proc'[p] = Free
  BY <1>1, ReapFacts DEF RefreshPid
<1>3. Shrinks
  BY <1>2 DEF Shrinks, FreeUnowned, Free
<1> QED
  BY <1>1, <1>3 DEF RefreshPid, PidOrNone

LEMMA ExitShrinks ==
    ASSUME StartupTypeOK, FreeUnowned, Exit
    PROVE  Shrinks
<1>1. PICK p \in Pid : proc[p].st \in LiveState /\ proc' = Exited(proc, p)
  BY DEF Exit, ProcessExit
<1>2. proc \in Table
  BY Types
<1>3. \A q \in Pid : proc[q].st = "alien" => proc'[q] \in {proc[q], Free}
  BY <1>1, <1>2 DEF Exited, Table
<1>4. \A q \in Pid : q # p => proc'[q] = proc[q]
  BY <1>1, <1>2, ExitFacts
<1>5. /\ proc' \in Table
      /\ proc'[p].own \in {proc[p].own, Nobody}
      /\ proc'[p].st = "free" => proc'[p].own = Nobody
  BY <1>1, <1>2, ExitFacts
<1> QED
  BY <1>3, <1>4, <1>5 DEF Shrinks, FreeUnowned

\* Nobody loses sight of a process when processes disappear.
LEMMA ShrinksKeeps ==
    ASSUME UInv, Shrinks, UNCHANGED <<childId, phase, list, attaching>>, touched \subseteq touched'
    PROVE  ProcTypeOK' /\ FreeUnowned' /\ Phases' /\ AllSafe'
<1>1. ProcTypeOK' /\ FreeUnowned' /\ Phases'
  BY DEF Shrinks, ProcTypeOK, Table, FreeUnowned, Phases, UInv
<1>2. ASSUME NEW b \in App, Undisturbed(b)' PROVE Safe(b)'
  <2>1. Safe(b)
    BY <1>2 DEF UInv, AllSafe, Undisturbed, Distinct
  <2>2. \A p \in Pid : proc'[p].own = b => proc[p].own = b
    BY OsAssumption DEF Shrinks
  <2>3. CASE b \in attaching
    <3>1. \A p \in Pid : proc'[p].own = b => proc'[p].st = "alien"
      BY <2>1, <2>2, <2>3, OsAssumption DEF Safe, Awaited, Shrinks, Free
    <3> QED
      BY <2>1, <2>2, <2>3, <3>1 DEF Safe, Awaited
  <2>4. CASE b \notin attaching
    BY <2>1, <2>2, <2>4 DEF Safe, Held
  <2> QED
    BY <2>3, <2>4
<1> QED
  BY <1>1, <1>2 DEF AllSafe

-----------------------------------------------------------------------------
\* The first section of invoke(): the only step that adds a process of an
\* application, and it adds it where nothing of that application is left.
LEMMA InvokeSafe ==
    ASSUME UInv, NEW a \in App, InvokeBody(a), UNCHANGED <<phase, list, attaching>>,
           touched \subseteq touched', a \in attaching => a \in touched'
    PROVE  /\ ProcTypeOK' /\ FreeUnowned' /\ Phases' /\ AllSafe'
           /\ childId' \in [App -> PidOrNone] /\ mPid' \in [App -> PidOrNone]
<1>1. /\ proc \in Table /\ childId \in [App -> PidOrNone] /\ mPid \in [App -> PidOrNone]
      /\ StartupTypeOK /\ FreeUnowned
  BY Types DEF UInv
<1>2. CASE SpawnIfDown(a)
  <2> PICK p \in Fresh(proc, Remembered) \union {NoPid} :
             /\ proc' = Spawned(proc, a, p)
             /\ childId' = [childId EXCEPT ![a] = p]
             /\ mPid' = [mPid EXCEPT ![a] = p]
    BY <1>2 DEF SpawnIfDown
  <2>1. /\ p \in PidOrNone
        /\ proc' \in Table
        /\ \A q \in Pid : q # p => proc'[q] = proc[q]
        /\ p \in Pid => proc'[p] = [st |-> "child", own |-> a] /\ proc[p].st = "free"
    BY <1>1, SpawnFacts
  <2>2. ProcTypeOK' /\ childId' \in [App -> PidOrNone] /\ mPid' \in [App -> PidOrNone] /\ Phases'
    BY <1>1, <2>1 DEF ProcTypeOK, Table, Phases, UInv
  <2>3. FreeUnowned'
    BY <1>1, <2>1 DEF FreeUnowned
  <2>4. ASSUME NEW b \in App, Undisturbed(b)' PROVE Safe(b)'
    <3>1. Safe(b) /\ (b = a => b \notin attaching)
      BY <2>4 DEF UInv, AllSafe, Undisturbed, Distinct
    <3>2. CASE b = a
      <4>1. \A q \in Pid : proc[q].own # a
        BY <1>1, <1>2, <3>1, <3>2, OsAssumption
           DEF SpawnIfDown, Running, RunningIn, Safe, Held, FreeUnowned
      <4> QED
        BY <1>1, <2>1, <3>1, <3>2, <4>1 DEF Safe, Held
    <3>3. CASE b # a
      <4>1. \A q \in Pid : proc'[q].own = b => q # p /\ proc'[q] = proc[q]
        BY <2>1, <3>3
      <4>2. childId'[b] = childId[b]
        BY <1>1, <3>3
      <4> QED
        BY <3>1, <4>1, <4>2 DEF Safe, Awaited, Held
    <3> QED
      BY <3>2, <3>3
  <2> QED
    BY <2>2, <2>3, <2>4 DEF AllSafe
<1>3. CASE LeaveRunning(a) \/ KillOutOfRange(a)
  <2>1. UNCHANGED <<childId, mPid>>
    BY <1>3 DEF LeaveRunning, KillOutOfRange
  <2>2. Shrinks
    <3>1. CASE proc' = proc
      BY <1>1, <3>1 DEF Shrinks, FreeUnowned
    <3> QED
      BY <1>1, <1>3, <3>1, KillShrinks DEF LeaveRunning, KillOutOfRange
  <2> QED
    BY <1>1, <2>1, <2>2, ShrinksKeeps
<1> QED
  BY <1>2, <1>3 DEF InvokeBody

\* A handler of module Application, in any phase.
LEMMA HandlersSafe ==
    ASSUME UInv, NEW a \in App,
           Start(a) \/ Stop(a) \/ StartRefresh(a) \/ MonitorInvoke(a) \/ MonitorRefresh(a),
           UNCHANGED <<phase, list, attaching, disk>>,
           touched \subseteq touched', touched' \subseteq App,
           Start(a) \/ MonitorInvoke(a) => (a \in attaching => a \in touched')
    PROVE  UInv'
<1>1. StartupTypeOK /\ FreeUnowned /\ childId \in [App -> PidOrNone] /\ mPid \in [App -> PidOrNone]
  BY Types DEF UInv
<1>2. /\ active' \in [App -> Status] /\ inRange' \in [App -> BOOLEAN]
      /\ todo' \subseteq App /\ owed' \in App \union {Nobody} /\ starting' \subseteq App
  BY <1>1 DEF StartupTypeOK, TypeOK, Status, Start, Stop, StartRefresh, MonitorInvoke, MonitorRefresh
<1>3. /\ ProcTypeOK' /\ FreeUnowned' /\ Phases' /\ AllSafe'
      /\ childId' \in [App -> PidOrNone] /\ mPid' \in [App -> PidOrNone]
  <2>1. CASE InvokeBody(a) /\ (Start(a) \/ MonitorInvoke(a))
    BY <2>1, InvokeSafe
  <2>2. CASE RefreshPid(a)
    BY <1>1, <2>2, RefreshShrinks, ShrinksKeeps
  <2>3. CASE Stop(a)
    BY <1>1, <2>3, KillShrinks, ShrinksKeeps DEF Stop
  <2>4. CASE UNCHANGED <<proc, childId, mPid>>
    <3>1. Shrinks
      BY <1>1, <2>4, Types DEF Shrinks, FreeUnowned
    <3> QED
      BY <1>1, <2>4, <3>1, ShrinksKeeps
  <2> QED
    BY <2>1, <2>2, <2>3, <2>4 DEF Start, StartRefresh, MonitorInvoke, MonitorRefresh
<1> QED
  BY <1>1, <1>2, <1>3 DEF UInv, StartupTypeOK, TypeOK

-----------------------------------------------------------------------------
\* A daemon that has just opened its listener.
LEMMA InitUInv == StartupInit => UInv
<1> SUFFICES ASSUME StartupInit PROVE UInv
  OBVIOUS
<1> PICK f \in [App -> PidOrNone] :
           /\ \A a, b \in App : f[a] = f[b] /\ f[a] # NoPid => a = b
           /\ proc = Attached(f)
  BY DEF StartupInit
<1>1. \A p \in Pid : \/ proc[p] = Free /\ \A a \in App : f[a] # p
                     \/ \E a \in App : f[a] = p /\ proc[p] = [st |-> "alien", own |-> a]
  <2> SUFFICES ASSUME NEW p \in Pid, NEW a \in App, f[a] = p
               PROVE  \E b \in App : f[b] = p /\ proc[p] = [st |-> "alien", own |-> b]
    BY DEF Attached
  <2> DEFINE owner == CHOOSE b \in App : f[b] = p
  <2>1. owner \in App /\ f[owner] = p
    OBVIOUS
  <2>2. proc[p] = [st |-> "alien", own |-> owner]
    BY DEF Attached
  <2> QED
    BY <2>1, <2>2
<1>2. \A p \in Pid : /\ proc[p] \in Entry
                     /\ proc[p].st = "free" => proc[p].own = Nobody
                     /\ \A a \in App : proc[p].own = a => f[a] = p /\ proc[p].st = "alien"
  <2> SUFFICES ASSUME NEW p \in Pid
               PROVE  /\ proc[p] \in Entry
                      /\ proc[p].st = "free" => proc[p].own = Nobody
                      /\ \A a \in App : proc[p].own = a => f[a] = p /\ proc[p].st = "alien"
    OBVIOUS
  <2>1. CASE proc[p] = Free
    BY <2>1, OsAssumption DEF Entry, Free
  <2>2. CASE \E b \in App : f[b] = p /\ proc[p] = [st |-> "alien", own |-> b]
    BY <2>2 DEF Entry, LiveState
  <2> QED
    BY <1>1, <2>1, <2>2
<1>3. ProcTypeOK /\ FreeUnowned
  BY <1>2 DEF ProcTypeOK, FreeUnowned, Attached
<1>4. StartupTypeOK
  BY <1>3 DEF StartupInit, StartupTypeOK, TypeOK, PidOrNone, NoList, Status
<1>5. Phases
  BY DEF StartupInit, Phases
<1>6. AllSafe
  BY <1>2 DEF StartupInit, AllSafe, Safe, Awaited
<1> QED
  BY <1>3, <1>4, <1>5, <1>6 DEF UInv

-----------------------------------------------------------------------------
\* A crash: survivors become aliens, zombies go.
LEMMA CrashKeeps == ASSUME UInv, CrashRestart PROVE UInv'
<1>1. /\ proc \in Table /\ FreeUnowned /\ StartupTypeOK
      /\ proc' = [p \in Pid |-> Orphaned(proc[p])]
  BY Types DEF UInv, CrashRestart
<1>2. \A p \in Pid : /\ proc'[p] \in Entry
                     /\ proc'[p].st = "free" => proc'[p].own = Nobody
                     /\ proc'[p].st \in {"alien", "free"}
                     /\ proc'[p].own \in {proc[p].own, Nobody}
  <2> SUFFICES ASSUME NEW p \in Pid
               PROVE  /\ proc'[p] \in Entry
                      /\ proc'[p].st = "free" => proc'[p].own = Nobody
                      /\ proc'[p].st \in {"alien", "free"}
                      /\ proc'[p].own \in {proc[p].own, Nobody}
    OBVIOUS
  <2>1. proc[p] \in Entry /\ proc'[p] = Orphaned(proc[p])
    BY <1>1 DEF Table
  <2>2. CASE proc[p].st = "child"
    BY <2>1, <2>2 DEF Orphaned, Entry, LiveState
  <2>3. CASE proc[p].st = "zombie"
    BY <2>1, <2>3 DEF Orphaned, Entry, Free, LiveState
  <2>4. CASE proc[p].st \in {"alien", "free"}
    BY <1>1, <2>1, <2>4 DEF Orphaned, Entry, FreeUnowned
  <2> QED
    BY <2>1, <2>2, <2>3, <2>4 DEF Entry, LiveState
<1>3. ProcTypeOK' /\ FreeUnowned'
  BY <1>1, <1>2 DEF ProcTypeOK, FreeUnowned
<1>4. StartupTypeOK'
  BY <1>1, <1>3 DEF CrashRestart, Loaded, NoList, StartupTypeOK, TypeOK, PidOrNone
<1>5. Phases'
  BY DEF CrashRestart, Loaded, Phases
<1>6. ASSUME NEW b \in App, Undisturbed(b)' PROVE Safe(b)'
  <2>1. Safe(b)
    BY <1>6 DEF UInv, AllSafe, Undisturbed, Distinct, CrashRestart
  <2>2. \A p \in Pid : proc'[p].own = b => proc[p].own = b /\ proc'[p].st = "alien"
    BY <1>2, OsAssumption
  <2>3. \A p, q \in Pid : proc[p].own = b /\ proc[q].own = b => p = q
    BY <2>1 DEF Safe, Awaited, Held
  <2>4. childId'[b] = NoPid /\ b \in attaching' /\ phase' = "listen"
    BY DEF CrashRestart, Loaded
  <2> QED
    BY <2>2, <2>3, <2>4 DEF Safe, Awaited
<1> QED
  BY <1>3, <1>4, <1>5, <1>6 DEF UInv, AllSafe

\* The list names the survivor of every application of its own command line.
LEMMA ListKeeps == ASSUME UInv, ListProcesses PROVE UInv'
<1>1. /\ StartupTypeOK /\ attaching = App
      /\ list' \in [Command -> PidOrNone]
      /\ \A c \in Command : \/ list'[c] \in Shown(c)
                              \/ c \in Lookalike
                              \/ Shown(c) = {}
      /\ UNCHANGED <<vars, attaching, disk, touched>> /\ phase' = "attach"
  BY DEF ListProcesses, UInv, Phases
<1>2. StartupTypeOK' /\ FreeUnowned' /\ Phases'
  BY <1>1 DEF vars, UInv, StartupTypeOK, TypeOK, ProcTypeOK, FreeUnowned, Phases
<1>3. ASSUME NEW b \in App, Undisturbed(b)' PROVE Safe(b)'
  <2>1. Undisturbed(b) /\ Awaited(b) /\ b \in attaching'
    BY <1>1, <1>3 DEF UInv, AllSafe, Safe, Undisturbed, Distinct
  <2>2. ASSUME NEW p \in Pid, proc[p].own = b PROVE list'[CommandOf[b]] = p
    <3>1. p \in Shown(CommandOf[b])
      BY <2>1, <2>2 DEF Awaited, Shown, LiveState
    <3>2. list'[CommandOf[b]] \in Shown(CommandOf[b])
      BY <1>1, <2>1, <3>1, Types DEF Undisturbed, Distinct
    <3>3. \A q \in Shown(CommandOf[b]) : q \in Pid /\ proc[q].own = b
      BY <2>1 DEF Shown, Undisturbed, Distinct
    <3> QED
      BY <2>1, <2>2, <3>2, <3>3 DEF Awaited
  <2> QED
    BY <1>1, <2>1, <2>2 DEF vars, Safe, Awaited
<1> QED
  BY <1>2, <1>3 DEF UInv, AllSafe

\* attach() takes what the list names, and touches no other application's.
LEMMA AttachKeeps == ASSUME UInv, NEW a \in App, Attach(a) PROVE UInv'
<1>1. /\ StartupTypeOK /\ childId \in [App -> PidOrNone] /\ list \in [Command -> PidOrNone]
      /\ a \in attaching /\ phase = "attach" /\ attaching' = attaching \ {a} /\ attaching \subseteq App
      /\ mPid \in [App -> PidOrNone] /\ CommandOf[a] \in Command
      /\ UNCHANGED <<proc, active, inRange, todo, owed, starting, phase, disk, touched>>
  BY Types DEF Attach, UInv
<1> DEFINE p == list[CommandOf[a]]
<1>2. \/ p = NoPid /\ UNCHANGED <<childId, mPid, list>>
      \/ /\ childId' = [childId EXCEPT ![a] = p]
         /\ mPid' = [mPid EXCEPT ![a] = p]
         /\ list' = [list EXCEPT ![CommandOf[a]] = NoPid]
  BY DEF Attach
<1>3. p \in PidOrNone
  BY <1>1
<1>4. /\ childId' \in [App -> PidOrNone] /\ mPid' \in [App -> PidOrNone]
      /\ list' \in [Command -> PidOrNone]
  BY <1>1, <1>2, <1>3 DEF PidOrNone
<1>5. StartupTypeOK' /\ FreeUnowned' /\ Phases'
  BY <1>1, <1>4 DEF UInv, StartupTypeOK, TypeOK, ProcTypeOK, FreeUnowned, Phases
<1>6. ASSUME NEW b \in App, Undisturbed(b)' PROVE Safe(b)'
  <2>1. Undisturbed(b) /\ Safe(b)
    BY <1>1, <1>6 DEF UInv, AllSafe, Undisturbed, Distinct
  <2>2. CASE b = a
    <3>1. \A q \in Pid : proc[q].own = a => p = q
      BY <1>1, <2>1, <2>2 DEF Safe, Awaited
    <3>2. \A q \in Pid : proc[q].own = a => childId'[a] = q
      BY <1>1, <1>2, <3>1, NoPidIsNone
    <3> QED
      BY <1>1, <2>2, <3>2 DEF Safe, Held
  <2>3. CASE b # a
    <3>1. CommandOf[b] # CommandOf[a]
      BY <2>1, <2>3 DEF Undisturbed, Distinct
    <3>2. childId'[b] = childId[b] /\ list'[CommandOf[b]] = list[CommandOf[b]]
      BY <1>1, <1>2, <2>3, <3>1, Types
    <3> QED
      BY <1>1, <2>1, <2>3, <3>2 DEF Safe, Awaited, Held
  <2> QED
    BY <2>2, <2>3
<1> QED
  BY <1>5, <1>6 DEF UInv, AllSafe

\* Nothing outside the daemon adds a process of an application.
LEMMA OutsideKeeps == ASSUME UInv, Environment PROVE UInv'
<1>1. StartupTypeOK /\ FreeUnowned /\ proc \in Table /\ UNCHANGED startup
  BY Types DEF UInv, Environment
<1>2. /\ UNCHANGED <<active, childId, mPid, todo, owed, starting>>
      /\ inRange' \in [App -> BOOLEAN]
  BY <1>1 DEF Environment, Exit, Foreign, Clock, StartupTypeOK, TypeOK
<1>3. ProcTypeOK' /\ FreeUnowned' /\ Phases' /\ AllSafe'
  <2>1. CASE Exit
    BY <1>1, <1>2, <2>1, ExitShrinks, ShrinksKeeps DEF startup
  <2>2. CASE Foreign
    <3> PICK n \in Fresh(proc, Remembered) :
               proc' = [proc EXCEPT ![n] = [st |-> "alien", own |-> Nobody]]
      BY <2>2 DEF Foreign, ForeignStart
    <3>1. n \in Pid /\ proc[n].st = "free"
      BY DEF Fresh
    <3>2. ProcTypeOK' /\ FreeUnowned' /\ Phases'
      BY <1>1, <3>1 DEF ProcTypeOK, Table, Entry, LiveState, FreeUnowned, Phases, UInv, startup
    <3>3. \A p \in Pid : \A b \in App : proc'[p].own = b => proc'[p] = proc[p]
      BY <1>1, <3>1, OsAssumption DEF Table
    <3>4. ASSUME NEW b \in App, Undisturbed(b)' PROVE Safe(b)'
      <4>1. Safe(b)
        BY <1>1, <3>4 DEF UInv, AllSafe, Undisturbed, Distinct, startup
      <4> QED
        BY <1>1, <1>2, <3>3, <4>1 DEF Safe, Awaited, Held, startup
    <3> QED
      BY <3>2, <3>4 DEF AllSafe
  <2>3. CASE UNCHANGED proc
    BY <1>1, <1>2, <2>3
       DEF UInv, ProcTypeOK, Table, FreeUnowned, Phases, AllSafe, Safe, Awaited, Held,
           Undisturbed, Distinct, startup
  <2> QED
    BY <2>1, <2>2, <2>3 DEF Environment, Clock
<1> QED
  BY <1>1, <1>2, <1>3 DEF UInv, StartupTypeOK, TypeOK, startup

\* Saving, a new round of the monitor and the first one move no process.
LEMMA MainKeeps ==
    ASSUME UInv, Save \/ FirstRound \/ (Tick /\ UNCHANGED startup) \/ UNCHANGED uvars
    PROVE  UInv'
<1>1. StartupTypeOK'
  BY StartupAssumption
     DEF UInv, StartupTypeOK, TypeOK, ProcTypeOK, Save, FirstRound, Tick, NoList, PidOrNone,
         uvars, vars, startup
<1>2. /\ UNCHANGED <<proc, childId, attaching, touched>>
      /\ \/ UNCHANGED <<phase, list>>
         \/ phase' = "run" /\ attaching = {}
  BY DEF Save, FirstRound, Tick, uvars, vars, startup
<1>3. FreeUnowned' /\ Phases'
  BY <1>2 DEF UInv, FreeUnowned, Phases
<1>4. ASSUME NEW b \in App, Undisturbed(b)' PROVE Safe(b)'
  BY <1>2, <1>4 DEF UInv, AllSafe, Undisturbed, Distinct, Safe, Awaited, Held
<1> QED
  BY <1>1, <1>3, <1>4 DEF UInv, AllSafe

\* Once monitoring begins no attach() is still to come.
LEMMA NextUInv == UInv /\ [StartupNext]_uvars => UInv'
<1> SUFFICES ASSUME UInv, [StartupNext]_uvars PROVE UInv'
  OBVIOUS
<1> attaching \subseteq App /\ touched \subseteq App /\ Phases
  BY DEF UInv, StartupTypeOK
<1>1. CASE CrashRestart
  BY <1>1, CrashKeeps
<1>2. CASE ListProcesses
  BY <1>2, ListKeeps
<1>3. CASE FirstRound \/ Save \/ UNCHANGED uvars
  BY <1>3, MainKeeps
<1>4. CASE Monitor
  <2>1. CASE Tick
    BY <1>4, <2>1, MainKeeps DEF Monitor
  <2>2. ASSUME NEW a \in App, MonitorInvoke(a) \/ MonitorRefresh(a) PROVE UInv'
    <3>1. attaching = {} /\ UNCHANGED <<phase, list, attaching, disk, touched>>
      BY <1>4 DEF Monitor, Phases, startup
    <3> QED
      BY <2>2, <3>1, HandlersSafe
  <2> QED
    BY <1>4, <2>1, <2>2 DEF Monitor
<1>5. ASSUME NEW a \in App, Attach(a) PROVE UInv'
  BY <1>5, AttachKeeps
<1>6. ASSUME NEW a \in App, StartOrStop(a) PROVE UInv'
  <2>1. /\ Start(a) \/ Stop(a)
        /\ UNCHANGED <<phase, list, attaching, disk>>
        /\ touched \subseteq touched' /\ touched' \subseteq App
        /\ a \in attaching => a \in touched'
    BY <1>6 DEF StartOrStop
  <2> QED
    BY <2>1, HandlersSafe
<1>7. ASSUME NEW a \in App, FinishStart(a) PROVE UInv'
  <2>1. StartRefresh(a) /\ a \in starting /\ UNCHANGED <<phase, list, attaching, disk, touched>>
    BY <1>7 DEF FinishStart, StartRefresh, startup
  <2>2. ~Start(a) /\ ~MonitorInvoke(a)
    BY <2>1 DEF Start, MonitorInvoke, Unlocked
  <2> QED
    BY <2>1, <2>2, HandlersSafe
<1>8. CASE Environment
  BY <1>8, OutsideKeeps
<1> QED
  BY <1>1, <1>2, <1>3, <1>4, <1>5, <1>6, <1>7, <1>8 DEF StartupNext

LEMMA Inductive == StartupSpec => []UInv
<1> QED
  BY InitUInv, NextUInv, PTL DEF StartupSpec

-----------------------------------------------------------------------------
\* The variables of the start-up, and those of Application, keep their types
\* through every crash.
THEOREM StartupTypeCorrect == StartupSpec => []StartupTypeOK
<1>1. UInv => StartupTypeOK
  BY DEF UInv
<1> QED
  BY <1>1, Inductive, PTL

\* However often the daemon crashes and is started again, no application of
\* a command line of its own has two instances, whatever the pids, the
\* number of applications and the moment of the crash.
THEOREM NeverTwice == StartupSpec => []OneInstance
<1>1. UInv => OneInstance
  <2> SUFFICES ASSUME UInv, NEW a \in App, Undisturbed(a) PROVE Cardinality(Live(a)) <= 1
    BY DEF OneInstance
  <2>1. \A p, q \in Live(a) : p = q
    BY DEF UInv, AllSafe, Safe, Awaited, Held, Live
  <2>2. CASE Live(a) = {}
    BY <2>2, FS_EmptySet
  <2>3. CASE Live(a) # {}
    <3> PICK p : p \in Live(a)
      BY <2>3
    <3>1. Live(a) = {p}
      BY <2>1
    <3> QED
      BY <3>1, FS_Singleton
  <2> QED
    BY <2>2, <2>3
<1> QED
  BY <1>1, Inductive, PTL

\* attach() gives every survivor back to its application, in every daemon
\* after the first too: nothing of an attached application runs unheld.
THEOREM ReadoptedAlways == StartupSpec => []Readopted
<1>1. UInv => Readopted
  BY DEF UInv, AllSafe, Safe, Held, Readopted
<1> QED
  BY <1>1, Inductive, PTL
==============================================================================
