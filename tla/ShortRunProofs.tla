--------------------------- MODULE ShortRunProofs ---------------------------
(***************************************************************************)
(* Proofs about ShortRun, for any number of pids and TimerAction objects   *)
(* and every kind of application: no process is lost between m_process,    *)
(* m_bufferProcess and the kill, the extra time is respected, m_timer      *)
(* never dangles, and a NORMAL application has an invocation coming.       *)
(***************************************************************************)
EXTENDS ShortRun, OsProcessProofs

\* A callback that works on the object holds a reference to it.
HasRef == main.pc \notin {"idle", "walk"} => main.ref

\* Before it is made, nobody has the object and it has no process.
NewIsEmpty == reg = "new" => held = "none" /\ ~main.ref /\ Live(Self) = {}

\* m_process is not on its extra time.
CurApart == cur \notin kills

(* m_timer is a TimerAction that will not delete itself, and while the      *)
(* application is NORMAL one that waits, is queued or is being handled.     *)
TimerKept ==
    ObjectExists =>
        /\ mTimer # NoTimer => timers[mTimer] \notin {"free", "aborted"}
        /\ active = "NORMAL" => mTimer \in Timer /\ Pending(mTimer)

Inv == TypeOK /\ HasRef /\ NewIsEmpty /\ Supervised /\ CurApart /\ TimerKept

LEMMA InitInv == Init => Inv
  <1> SUFFICES ASSUME Init PROVE Inv
    OBVIOUS
  <1> USE ShortRunAssumption, NoPidIsNone DEF Init
  <1>1. cur \in PidOrNone /\ proc \in [Pid -> Entry]
    BY DEF PidOrNone, Entry, Free, LiveState
  <1>2. \A p \in Live(Self) : p = cur
    BY OsAssumption DEF Live, Free, LiveState
  <1>3. TypeOK
    BY <1>1 DEF TypeOK, ProcTypeOK, PidOrNone, TimerState, Pc, AtRest
  <1>4. HasRef /\ CurApart
    BY DEF HasRef, CurApart, AtRest
  <1>5. Supervised
    BY <1>2 DEF Supervised
  <1>6. NewIsEmpty
    BY <1>1, <1>2 DEF NewIsEmpty, AtRest, Live
  <1>7. TimerKept
    BY DEF TimerKept, ObjectExists, HeldByRegistry, HeldByRest, AtRest, Pending
  <1> QED
    BY <1>3, <1>4, <1>5, <1>6, <1>7 DEF Inv

-----------------------------------------------------------------------------
(* Processes.                                                               *)

\* What happens to processes in a step that invokes nothing.
Shrinks ==
    /\ cur' = cur /\ buf' = buf
    /\ proc' \in [Pid -> Entry]
    /\ kills' \subseteq kills
    /\ Live(Self)' \subseteq Live(Self) \ (kills \ kills')

\* The extra time of p is respected: the step of GraceRespected.
Grace ==
    \A p \in kills :
        /\ proc[p].st = "child" /\ proc'[p].st = "free" => p \notin kills'
        /\ p \notin kills' => proc'[p].st \notin LiveState

LEMMA UnchangedShrinks ==
    ASSUME TypeOK, UNCHANGED <<proc, cur, buf, kills>>
    PROVE  Shrinks /\ Grace
  BY DEF TypeOK, ProcTypeOK, Shrinks, Grace, Live

\* stop(): only the current process, which has no extra time.
LEMMA StopShrinks ==
    ASSUME TypeOK, CurApart, StopBody, UNCHANGED <<cur, buf, kills>>
    PROVE  Shrinks /\ Grace /\ active' \in {"NORMAL", "STOPPED"}
  <1>1. CASE active = "STOPPED"
    BY <1>1, UnchangedShrinks DEF StopBody, TypeOK
  <1>2. CASE active # "STOPPED"
    <2>1. proc \in Table /\ cur \in PidOrNone /\ proc' \in AfterKill(proc, cur)
      BY <1>2 DEF TypeOK, ProcTypeOK, Table, StopBody
    <2>2. /\ proc' \in Table
          /\ \A p \in Pid : p # cur => proc'[p] = proc[p]
          /\ \A p \in Pid : proc'[p].st \in LiveState => p # cur /\ proc'[p] = proc[p]
      BY <2>1, KillFacts
    <2> QED
      BY <1>2, <2>2 DEF TypeOK, CurApart, StopBody, Shrinks, Grace, Live, Table
  <1> QED
    BY <1>1, <1>2

\* TimerActionKill ends what it was made for, and nothing else.
LEMMA KillShrinks ==
    ASSUME TypeOK, NEW p \in Pid, KillTimeOut(p)
    PROVE  Shrinks /\ Grace
  <1>1. proc \in Table /\ p \in PidOrNone /\ proc' \in AfterKill(proc, p)
    BY DEF TypeOK, ProcTypeOK, Table, KillTimeOut, PidOrNone
  <1>2. /\ proc' \in Table
        /\ \A q \in Pid : q # p => proc'[q] = proc[q]
        /\ \A q \in Pid : proc'[q].st \in LiveState => q # p /\ proc'[q] = proc[q]
    BY <1>1, KillFacts
  <1> QED
    BY <1>2 DEF TypeOK, KillTimeOut, Shrinks, Grace, Live, Table

\* refreshPid() reaps zombies.
LEMMA ReapShrinks ==
    ASSUME TypeOK, NEW c \in PidOrNone, proc' = Reaped(proc, c), UNCHANGED <<cur, buf, kills>>
    PROVE  Shrinks /\ Grace
  <1>1. /\ proc' \in Table
        /\ \A p \in Pid : proc'[p] = proc[p] \/ (proc'[p] = Free /\ proc[p].st = "zombie")
    BY ReapFacts DEF TypeOK, ProcTypeOK, Table
  <1>2. Shrinks
    BY <1>1 DEF Shrinks, Live, Table, Free, LiveState
  <1>3. Grace
    BY <1>1 DEF Grace, TypeOK
  <1> QED
    BY <1>2, <1>3

LEMMA ExitShrinks ==
    ASSUME TypeOK, Exit
    PROVE  Shrinks /\ Grace
  <1>1. PICK p \in Pid : proc[p].st \in LiveState /\ proc' = Exited(proc, p)
    BY DEF Exit, ProcessExit
  <1>2. /\ proc' \in Table
        /\ \A q \in Pid : q # p => proc'[q] = proc[q]
        /\ proc'[p].st \notin LiveState
    BY <1>1, ExitFacts DEF TypeOK, ProcTypeOK, Table
  <1>3. Shrinks
    BY <1>2 DEF Exit, Shrinks, Live, Table
  <1>4. proc[p].st = "child" => proc'[p].st # "free"
    BY <1>1 DEF Exited, TypeOK, ProcTypeOK, Entry
  <1>5. Grace
    BY <1>2, <1>4 DEF Exit, Grace, TypeOK
  <1> QED
    BY <1>3, <1>5

LEMMA SpawnSelf ==
    ASSUME NEW t \in Table, NEW p \in Fresh(t, Remembered) \union {NoPid}
    PROVE  /\ p \in PidOrNone
           /\ Spawned(t, Self, p) \in Table
           /\ \A q \in Pid : q # p => Spawned(t, Self, p)[q] = t[q]
           /\ p \in Pid => t[p].st = "free"
  BY ShortRunAssumption, NoPidIsNone
  DEF Fresh, Spawned, Table, Entry, Free, LiveState, PidOrNone

(* invokeNow(): the process it takes over, or kills, is the current one;    *)
(* the one it spawns has a pid that nothing remembers.                      *)
LEMMA InvokeNowFacts ==
    ASSUME TypeOK, CurApart, InvokeNow, Live(Self) \subseteq {cur} \union kills
    PROVE  /\ proc' \in [Pid -> Entry] /\ cur' \in PidOrNone /\ buf' \in PidOrNone
           /\ kills' \subseteq Pid
           /\ Live(Self)' \subseteq {cur'} \union kills'
           /\ CurApart' /\ Grace
  <1>0. PICK t \in IF kind.buffered THEN {proc} ELSE AfterKill(proc, cur) :
            \E p \in (IF inRange THEN Fresh(t, Remembered) ELSE {}) \union {NoPid} :
                proc' = Spawned(t, Self, p) /\ cur' = p
    BY DEF InvokeNow
  <1>1. PICK p \in (IF inRange THEN Fresh(t, Remembered) ELSE {}) \union {NoPid} :
                proc' = Spawned(t, Self, p) /\ cur' = p
    BY <1>0
  <1>2. proc \in Table /\ cur \in PidOrNone /\ buf \in PidOrNone /\ kills \subseteq Pid
    BY DEF TypeOK, ProcTypeOK, Table
  <1>3. /\ t \in Table
        /\ \A q \in Pid : q # cur => t[q] = proc[q]
        /\ \A q \in Pid : t[q].st \in LiveState => t[q] = proc[q] /\ (q # cur \/ kind.buffered)
    <2>1. CASE kind.buffered
      BY <1>1, <1>2, <2>1
    <2>2. CASE ~kind.buffered
      BY <1>1, <1>2, <2>2, KillFacts
    <2> QED
      BY <2>1, <2>2
  <1>4. p \in Fresh(t, Remembered) \union {NoPid}
    BY <1>1
  <1>5. /\ p \in PidOrNone /\ proc' \in Table
        /\ \A q \in Pid : q # p => proc'[q] = t[q]
        /\ p \in Pid => t[p].st = "free"
    BY <1>1, <1>3, <1>4, SpawnSelf
  <1>6. p \notin kills /\ p \notin {cur} \ {NoPid}
    BY <1>2, <1>4, ShortRunAssumption, NoPidIsNone DEF Fresh, Remembered
  <1>7. /\ kills' = IF kind.buffered THEN kills \union ({cur} \ {NoPid}) ELSE kills
        /\ buf' = IF kind.buffered THEN cur ELSE buf
    BY DEF InvokeNow
  <1>8. ASSUME NEW q \in Pid, proc'[q].own = Self, proc'[q].st \in LiveState
        PROVE  q \in {p} \union kills'
    <2>1. CASE q = p
      BY <2>1
    <2>2. CASE q # p
      <3>1. t[q] = proc'[q]
        BY <1>5, <2>2
      <3>2. q \in Live(Self) /\ (q # cur \/ kind.buffered)
        BY <1>3, <1>8, <3>1 DEF Live
      <3>3. q \in {cur} \union kills /\ q # NoPid
        BY <3>2, NoPidIsNone
      <3> QED
        BY <1>7, <3>2, <3>3
    <2> QED
      BY <2>1, <2>2
  <1>9. Live(Self)' \subseteq {cur'} \union kills'
    BY <1>1, <1>8 DEF Live
  <1>10. CurApart'
    BY <1>1, <1>6, <1>7 DEF CurApart
  <1>11. Grace
    <2> SUFFICES ASSUME NEW q \in kills PROVE q \in kills' /\ proc'[q] = proc[q]
      BY DEF Grace
    <2>1. q # cur /\ q # p /\ q \in Pid
      BY <1>2, <1>6 DEF CurApart
    <2> QED
      BY <1>3, <1>5, <1>7, <2>1
  <1> QED
    BY <1>1, <1>2, <1>5, <1>7, <1>9, <1>10, <1>11 DEF Table, PidOrNone

-----------------------------------------------------------------------------
(* References and timers.                                                   *)

MainStates == [pc : Pc, timer : Timer \union {NoTimer}, ref : BOOLEAN]

LEMMA MainFacts ==
    ASSUME TypeOK
    PROVE  /\ AtRest \in MainStates /\ AtRest.pc = "idle" /\ ~AtRest.ref
           /\ \A c \in Pc : At(c) \in MainStates /\ At(c).pc = c /\ At(c).ref = main.ref
           /\ \A b \in BOOLEAN : [AtRest EXCEPT !.pc = "walk", !.ref = b] \in MainStates
           /\ \A t \in Timer : [pc |-> "decide", timer |-> t, ref |-> TRUE] \in MainStates
           /\ "buffer" \in Pc /\ "lookup" \in Pc /\ "restart" \in Pc /\ "invoke" \in Pc
           /\ "rearm" \in Pc
  BY DEF TypeOK, MainStates, AtRest, At, Pc

LEMMA InitTimerFacts ==
    ASSUME TypeOK, InitTimer
    PROVE  /\ timers' \in [Timer -> TimerState] /\ mTimer' \in Timer
           /\ timers'[mTimer'] = "armed"
  BY DEF TypeOK, InitTimer, Cancelled, TimerState

LEMMA ReleasedType ==
    ASSUME NEW ts \in [Timer -> TimerState], NEW b
    PROVE  /\ Released(ts, b) \in [Timer -> TimerState]
           /\ b => Released(ts, b) = ts
  BY DEF Released, Cancelled, TimerState

\* Nobody gets hold of an object that is gone.
NoNewHold == ObjectExists' => ObjectExists

\* What keeps TimerKept when m_timer is not replaced.
Keeps ==
    /\ active = active' \/ active' = "STOPPED"
    /\ mTimer' = mTimer
    /\ ObjectExists' /\ mTimer \in Timer =>
           \/ timers'[mTimer] = timers[mTimer]
           \/ timers[mTimer] \in {"armed", "due", "handling"} /\ timers'[mTimer] \in {"armed", "due", "handling"}
           \/ active = "STOPPED" /\ timers'[mTimer] = "idle"
           \/ timers'[mTimer] = "armed"

LEMMA KeepsTimer ==
    ASSUME TypeOK, TimerKept, NoNewHold, Keeps
    PROVE  TimerKept'
  BY DEF TypeOK, TimerKept, NoNewHold, Keeps, Pending

\* What a step that invokes nothing does to processes and references.
Quiet ==
    /\ Shrinks /\ Grace
    /\ NoNewHold \/ (reg = "new" /\ reg' = "parsed")
    /\ HasRef'
    /\ reg' = "new" => reg = "new" /\ held' = "none" /\ ~main'.ref
    /\ active' \in {"NORMAL", "STOPPED"}
    /\ TypeOK'
    /\ TimerKept'

LEMMA QuietInv ==
    ASSUME Inv, Quiet
    PROVE  Inv' /\ Grace
  <1> USE DEF Inv, Quiet, Shrinks
  <1>1. Supervised'
    <2>1. CASE NoNewHold
      BY <2>1 DEF Supervised, NoNewHold
    <2>2. CASE reg = "new"
      BY <2>2 DEF Supervised, NewIsEmpty
    <2> QED
      BY <2>1, <2>2
  <1>2. NewIsEmpty' /\ CurApart'
    BY DEF NewIsEmpty, CurApart
  <1> QED
    BY <1>1, <1>2

LEMMA RestQuiet ==
    ASSUME Inv, Rest
    PROVE  Quiet
  <1> USE ShortRunAssumption DEF Inv
  <1> USE DEF HasRef, NewIsEmpty, NoNewHold, ObjectExists, HeldByRegistry, HeldByRest
  <1>1. CASE Parse
    <2>1. Shrinks /\ Grace
      BY <1>1, UnchangedShrinks DEF Parse
    <2>2. TypeOK'
      BY <1>1, InitTimerFacts DEF Parse, TypeOK, ProcTypeOK
    <2>3. TimerKept'
      BY <1>1, InitTimerFacts DEF Parse, TimerKept, Pending
    <2> QED
      BY <1>1, <2>1, <2>2, <2>3 DEF Parse, Quiet, TypeOK
  <1>2. CASE Register \/ GetApp
    <2>1. Shrinks /\ Grace
      BY <1>2, UnchangedShrinks DEF Register, GetApp
    <2>2. TypeOK'
      BY <1>2 DEF Register, GetApp, TypeOK, ProcTypeOK
    <2>3. TimerKept'
      BY <1>2 DEF Register, GetApp, TimerKept, Pending
    <2> QED
      BY <1>2, <2>1, <2>2, <2>3 DEF Register, GetApp, Quiet, TypeOK
  <1>3. CASE Stop \/ Remove
    <2>1. Shrinks /\ Grace /\ active' \in {"NORMAL", "STOPPED"}
      BY <1>3, StopShrinks DEF Stop, Remove
    <2>2. timers' = Released(timers, ObjectExists')
      BY <1>3 DEF Stop, Remove
    <2>3. timers' \in [Timer -> TimerState] /\ (ObjectExists' => timers' = timers)
      BY <2>2, ReleasedType DEF TypeOK
    <2>4. TypeOK'
      BY <1>3, <2>1, <2>3 DEF Stop, Remove, TypeOK, ProcTypeOK, Shrinks
    <2>5. active = active' \/ active' = "STOPPED"
      BY <1>3 DEF Stop, Remove, StopBody
    <2>6. NoNewHold
      BY <1>3 DEF Stop, Remove
    <2>7. TimerKept'
      BY <1>3, <2>3, <2>5, <2>6, KeepsTimer DEF Stop, Remove, Keeps
    <2> QED
      BY <1>3, <2>1, <2>4, <2>6, <2>7 DEF Stop, Remove, Quiet
  <1>4. CASE Start
    <2>1. Shrinks /\ Grace
      BY <1>4, UnchangedShrinks DEF Start
    <2>2. CASE InitTimer
      <3>1. TypeOK'
        BY <1>4, <2>2, InitTimerFacts DEF Start, TypeOK, ProcTypeOK
      <3>2. TimerKept'
        BY <1>4, <2>2, InitTimerFacts DEF Start, TimerKept, Pending
      <3> QED
        BY <1>4, <2>1, <3>1, <3>2 DEF Start, Quiet
    <2>3. CASE ~(HeldByRegistry \/ main.ref)
      <3>1. PICK t \in Timer : /\ timers' = [Cancelled(timers, mTimer) EXCEPT ![t] = "aborted"]
                               /\ mTimer' = t
        BY <1>4, <2>3 DEF Start
      <3>2. TypeOK'
        BY <1>4, <3>1 DEF Start, TypeOK, ProcTypeOK, Cancelled, TimerState
      <3>3. ~ObjectExists'
        BY <1>4, <2>3 DEF Start
      <3>4. TimerKept'
        BY <3>3 DEF TimerKept
      <3> QED
        BY <1>4, <2>1, <3>2, <3>3, <3>4 DEF Start, Quiet
    <2> QED
      BY <1>4, <2>2, <2>3 DEF Start
  <1>5. CASE StartAgain
    <2>1. Shrinks /\ Grace
      BY <1>5, UnchangedShrinks DEF StartAgain
    <2>2. timers' = Released(timers, ObjectExists')
      BY <1>5 DEF StartAgain
    <2>3. timers' \in [Timer -> TimerState] /\ (ObjectExists' => timers' = timers)
      BY <2>2, ReleasedType DEF TypeOK
    <2>4. TypeOK'
      BY <1>5, <2>3 DEF StartAgain, TypeOK, ProcTypeOK
    <2>5. NoNewHold
      BY <1>5 DEF StartAgain
    <2>6. TimerKept'
      BY <1>5, <2>3, <2>5, KeepsTimer DEF StartAgain, Keeps
    <2> QED
      BY <1>5, <2>1, <2>4, <2>5, <2>6 DEF StartAgain, Quiet, TypeOK
  <1> QED
    BY <1>1, <1>2, <1>3, <1>4, <1>5 DEF Rest

LEMMA MainQuiet ==
    ASSUME Inv, Main,
           ~(Restart \/ HandlerInvoke)
    PROVE  Quiet
  <1> USE ShortRunAssumption DEF Inv
  <1> USE DEF HasRef, NewIsEmpty, NoNewHold, ObjectExists, HeldByRegistry, HeldByRest
  <1>1. ASSUME Walk \/ WalkPast \/ LookupFound \/ DecideGo PROVE Quiet
    <2>1. Shrinks /\ Grace
      BY <1>1, UnchangedShrinks DEF Walk, WalkPast, LookupFound, DecideGo
    <2>2. main' \in MainStates
      BY <1>1, MainFacts DEF Walk, WalkPast, LookupFound, DecideGo
    <2>3. TypeOK'
      BY <1>1, <2>2 DEF Walk, WalkPast, LookupFound, DecideGo, TypeOK, ProcTypeOK, MainStates
    <2>4. HasRef' /\ NoNewHold /\ (main'.ref => main.ref \/ reg = "registered")
      <3>1. CASE Walk
        BY <3>1 DEF Walk, AtRest
      <3>2. CASE WalkPast
        BY <3>2, MainFacts DEF WalkPast
      <3>3. CASE LookupFound \/ DecideGo
        BY <3>3, MainFacts DEF LookupFound, DecideGo
      <3> QED
        BY <1>1, <3>1, <3>2, <3>3
    <2>5. TimerKept'
      BY <1>1, <2>4, KeepsTimer DEF Walk, WalkPast, LookupFound, DecideGo, Keeps
    <2> QED
      BY <1>1, <2>1, <2>3, <2>4, <2>5
      DEF Walk, WalkPast, LookupFound, DecideGo, Quiet, TypeOK
  <1>2. CASE RefreshCur
    <2>1. Shrinks /\ Grace
      BY <1>2, ReapShrinks DEF RefreshCur, TypeOK
    <2>2. TypeOK'
      BY <1>2, <2>1, MainFacts DEF RefreshCur, TypeOK, ProcTypeOK, MainStates, Shrinks
    <2>3. HasRef' /\ NoNewHold /\ main'.ref = main.ref
      BY <1>2, MainFacts DEF RefreshCur
    <2>4. TimerKept'
      BY <1>2, <2>3, KeepsTimer DEF RefreshCur, Keeps
    <2> QED
      BY <1>2, <2>1, <2>2, <2>3, <2>4 DEF RefreshCur, Quiet, TypeOK
  <1>3. CASE RefreshBuf
    <2>1. Shrinks /\ Grace
      BY <1>3, ReapShrinks DEF RefreshBuf, TypeOK
    <2>2. timers' = timers \/ timers' = Released(timers, ObjectExists')
      BY <1>3, MainFacts DEF RefreshBuf
    <2>3. timers' \in [Timer -> TimerState] /\ (ObjectExists' => timers' = timers)
      <3>1. timers \in [Timer -> TimerState]
        BY DEF TypeOK
      <3>2. CASE timers' = timers
        BY <3>1, <3>2
      <3>3. CASE timers' = Released(timers, ObjectExists')
        BY <3>1, <3>3, ReleasedType
      <3> QED
        BY <2>2, <3>2, <3>3
    <2>7. main' \in MainStates
      BY <1>3, MainFacts DEF RefreshBuf
    <2>4. TypeOK'
      BY <1>3, <2>1, <2>3, <2>7 DEF RefreshBuf, TypeOK, ProcTypeOK, MainStates, Shrinks
    <2>5. HasRef' /\ NoNewHold /\ (main'.ref => main.ref)
      BY <1>3, MainFacts DEF RefreshBuf
    <2>6. TimerKept'
      BY <1>3, <2>3, <2>5, KeepsTimer DEF RefreshBuf, Keeps
    <2> QED
      BY <1>3, <2>1, <2>4, <2>5, <2>6 DEF RefreshBuf, Quiet, TypeOK
  <1>4. CASE LookupFails
    <2>1. Shrinks /\ Grace
      BY <1>4, UnchangedShrinks DEF LookupFails
    <2>2. timers' = Released(timers, ObjectExists')
      BY <1>4, MainFacts DEF LookupFails
    <2>3. timers' \in [Timer -> TimerState] /\ (ObjectExists' => timers' = timers)
      BY <2>2, ReleasedType DEF TypeOK
    <2>4. TypeOK'
      BY <1>4, <2>3, MainFacts DEF LookupFails, TypeOK, ProcTypeOK, MainStates
    <2>5. HasRef' /\ NoNewHold /\ ~main'.ref
      BY <1>4, MainFacts DEF LookupFails
    <2>6. TimerKept'
      BY <1>4, <2>3, <2>5, KeepsTimer DEF LookupFails, Keeps
    <2> QED
      BY <1>4, <2>1, <2>4, <2>5, <2>6 DEF LookupFails, Quiet, TypeOK
  <1>5. ASSUME DecideIdle \/ Rearm PROVE Quiet
    <2>1. Shrinks /\ Grace
      BY <1>5, UnchangedShrinks DEF DecideIdle, Rearm
    <2>2. PICK s \in {"idle", "armed"} :
              /\ timers' = Released([timers EXCEPT ![main.timer] = s], ObjectExists')
              /\ s = "idle" => active = "STOPPED"
      BY <1>5, MainFacts DEF DecideIdle, Rearm
    <2> DEFINE ts == [timers EXCEPT ![main.timer] = s]
    <2>3. ts \in [Timer -> TimerState] /\ \A t \in Timer : ts[t] \in {timers[t], s}
      BY DEF TypeOK, TimerState
    <2>4. timers' \in [Timer -> TimerState] /\ (ObjectExists' => timers' = ts)
      BY <2>2, <2>3, ReleasedType
    <2>9. main' \in MainStates
      BY <1>5, MainFacts DEF DecideIdle, Rearm
    <2>5. TypeOK'
      BY <1>5, <2>4, <2>9 DEF DecideIdle, Rearm, TypeOK, ProcTypeOK, MainStates
    <2>6. HasRef' /\ NoNewHold /\ active' = active /\ mTimer' = mTimer /\ ~main'.ref
      BY <1>5, MainFacts DEF DecideIdle, Rearm
    <2>7. ObjectExists' /\ mTimer \in Timer =>
              timers'[mTimer] = timers[mTimer] \/ timers'[mTimer] = s
      BY <2>3, <2>4
    <2>8. TimerKept'
      BY <2>2, <2>6, <2>7, KeepsTimer DEF Keeps
    <2> QED
      BY <1>5, <2>1, <2>5, <2>6, <2>8 DEF DecideIdle, Rearm, Quiet, TypeOK
  <1>6. ASSUME NEW t \in Timer, HandleAborted(t) \/ HandleGone(t) \/ HandleDue(t) PROVE Quiet
    <2>1. Shrinks /\ Grace
      BY <1>6, UnchangedShrinks DEF HandleAborted, HandleGone, HandleDue
    <2>2. main' \in MainStates /\ timers' \in [Timer -> TimerState]
      <3>1. main \in MainStates /\ timers \in [Timer -> TimerState]
        BY DEF TypeOK, MainStates
      <3>2. main' \in MainStates
        BY <1>6, <3>1, MainFacts DEF HandleAborted, HandleGone, HandleDue
      <3>3. \E s \in TimerState : timers' = [timers EXCEPT ![t] = s]
        BY <1>6 DEF HandleAborted, HandleGone, HandleDue, TimerState
      <3> QED
        BY <3>1, <3>2, <3>3
    <2>5. TypeOK'
      BY <1>6, <2>2 DEF HandleAborted, HandleGone, HandleDue, TypeOK, ProcTypeOK, MainStates
    <2>3. HasRef' /\ NoNewHold /\ active' = active /\ mTimer' = mTimer
      BY <1>6 DEF HandleAborted, HandleGone, HandleDue
    <2>4. TimerKept'
      BY <1>6, <2>3 DEF HandleAborted, HandleGone, HandleDue, TypeOK, TimerKept, Pending
    <2> QED
      BY <1>6, <2>1, <2>5, <2>3, <2>4 DEF HandleAborted, HandleGone, HandleDue, Quiet, TypeOK
  <1>7. ASSUME NEW p \in Pid, KillTimeOut(p) PROVE Quiet
    <2>1. Shrinks /\ Grace
      BY <1>7, KillShrinks
    <2>2. TypeOK'
      BY <1>7, <2>1 DEF KillTimeOut, TypeOK, ProcTypeOK, Shrinks
    <2>3. HasRef' /\ NoNewHold
      BY <1>7 DEF KillTimeOut
    <2>4. TimerKept'
      BY <1>7, <2>3, KeepsTimer DEF KillTimeOut, Keeps
    <2> QED
      BY <1>7, <2>1, <2>2, <2>3, <2>4 DEF KillTimeOut, Quiet, TypeOK
  <1> QED
    BY <1>1, <1>2, <1>3, <1>4, <1>5, <1>6, <1>7 DEF Main

LEMMA EnvironmentQuiet ==
    ASSUME Inv, Environment \/ UNCHANGED svars
    PROVE  Quiet
  <1> USE DEF Inv
  <1> USE DEF HasRef, NewIsEmpty, NoNewHold, ObjectExists, HeldByRegistry, HeldByRest
  <1>1. CASE Clock \/ StartTimePasses \/ UNCHANGED svars
    <2>1. Shrinks /\ Grace
      BY <1>1, UnchangedShrinks DEF Clock, StartTimePasses, svars
    <2>2. UNCHANGED <<active, reg, mTimer, timers, held, main, cur, buf, proc, kills, kind>>
      BY <1>1 DEF Clock, StartTimePasses, svars
    <2>3. inRange' \in BOOLEAN /\ started' \in BOOLEAN
      BY <1>1 DEF Clock, StartTimePasses, svars, TypeOK
    <2>4. TypeOK'
      BY <2>2, <2>3 DEF TypeOK, ProcTypeOK
    <2>5. TimerKept'
      BY <2>2 DEF TimerKept, Pending
    <2> QED
      BY <2>1, <2>2, <2>4, <2>5 DEF Quiet, TypeOK
  <1>2. CASE Exit
    <2>1. Shrinks /\ Grace
      BY <1>2, ExitShrinks
    <2>2. UNCHANGED <<active, reg, mTimer, timers, held, main, cur, buf, kills, inRange, started, kind>>
      BY <1>2 DEF Exit
    <2>3. TypeOK'
      BY <2>1, <2>2 DEF TypeOK, ProcTypeOK, Shrinks
    <2>4. TimerKept'
      BY <2>2 DEF TimerKept, Pending
    <2> QED
      BY <2>1, <2>2, <2>3, <2>4 DEF Quiet, TypeOK
  <1>3. ASSUME NEW t \in Timer, Expire(t) PROVE Quiet
    <2>1. Shrinks /\ Grace
      BY <1>3, UnchangedShrinks DEF Expire
    <2>2. TypeOK'
      BY <1>3 DEF Expire, TypeOK, ProcTypeOK, TimerState
    <2>3. TimerKept'
      BY <1>3 DEF Expire, TypeOK, TimerKept, Pending
    <2> QED
      BY <1>3, <2>1, <2>2, <2>3 DEF Expire, Quiet, TypeOK
  <1> QED
    BY <1>1, <1>2, <1>3 DEF Environment

-----------------------------------------------------------------------------
(* The steps that invoke: TimerAction's handler and the monitor.            *)

LEMMA InvokeInv ==
    ASSUME Inv, Restart \/ HandlerInvoke
    PROVE  Inv' /\ Grace
  <1> USE DEF Inv
  <1>1. main.ref /\ ObjectExists /\ reg # "new" /\ reg' = reg
    BY DEF Restart, HandlerInvoke, HasRef, NewIsEmpty, ObjectExists
  <1>2. /\ proc' \in [Pid -> Entry] /\ cur' \in PidOrNone /\ buf' \in PidOrNone
        /\ kills' \subseteq Pid
        /\ Live(Self)' \subseteq {cur'} \union kills'
        /\ CurApart' /\ Grace
    <2>1. CASE InvokeNow
      BY <1>1, <2>1, InvokeNowFacts DEF Supervised
    <2>2. CASE NoInvoke
      BY <1>1, <2>2 DEF NoInvoke, Supervised, TypeOK, ProcTypeOK, Grace, CurApart, Live
    <2> QED
      BY <2>1, <2>2 DEF Restart, HandlerInvoke
  <1>3. timers' = timers \/ timers' = Released(timers, ObjectExists')
    BY MainFacts DEF Restart, HandlerInvoke, ObjectExists, HeldByRegistry, HeldByRest
  <1>4. timers' \in [Timer -> TimerState] /\ (ObjectExists' => timers' = timers)
    BY <1>3, ReleasedType DEF TypeOK
  <1>5. UNCHANGED <<active, reg, mTimer, held, inRange, started, kind>>
    BY DEF Restart, HandlerInvoke
  <1>6. main' \in [pc : Pc, timer : Timer \union {NoTimer}, ref : BOOLEAN]
    BY MainFacts DEF Restart, HandlerInvoke, MainStates
  <1>7. TypeOK'
    BY <1>2, <1>4, <1>5, <1>6 DEF TypeOK, ProcTypeOK
  <1>8. HasRef'
    BY <1>1, MainFacts DEF Restart, HandlerInvoke, HasRef
  <1>9. TimerKept'
    BY <1>1, <1>4, <1>5, KeepsTimer DEF Keeps, NoNewHold
  <1>10. NewIsEmpty' /\ Supervised'
    BY <1>1, <1>2 DEF NewIsEmpty, Supervised
  <1> QED
    BY <1>2, <1>7, <1>8, <1>9, <1>10

LEMMA Inductive == Inv /\ [Next]_svars => Inv' /\ Grace
  <1> SUFFICES ASSUME Inv, [Next]_svars PROVE Inv' /\ Grace
    OBVIOUS
  <1>1. CASE Restart \/ HandlerInvoke
    BY <1>1, InvokeInv
  <1>2. CASE Rest
    BY <1>2, RestQuiet, QuietInv
  <1>3. CASE Main /\ ~(Restart \/ HandlerInvoke)
    BY <1>3, MainQuiet, QuietInv
  <1>4. CASE Environment \/ UNCHANGED svars
    BY <1>4, EnvironmentQuiet, QuietInv
  <1> QED
    BY <1>1, <1>2, <1>3, <1>4 DEF Next

LEMMA InvAlways == Spec => []Inv
  <1>1. Inv /\ [Next]_svars => Inv'
    BY Inductive
  <1> QED
    BY <1>1, InitInv, PTL DEF Spec

-----------------------------------------------------------------------------
(* Every reachable state is of its type, for any pids, TimerAction objects  *)
(* and kinds of application.                                                *)
THEOREM TypeCorrect == Spec => []TypeOK
  BY InvAlways, PTL DEF Inv

(* Whatever start(), stop() and removeApp() do between the sections of a    *)
(* callback, no process is lost: each is current or has its TimerActionKill.*)
THEOREM SupervisedAlways == Spec => []Supervised
  BY InvAlways, PTL DEF Inv

(* m_timer is never a TimerAction that has deleted itself.                  *)
THEOREM TimerNeverDangles == Spec => []TimerAlive
  <1>1. Inv => TimerAlive
    BY DEF Inv, TimerKept, TimerAlive
  <1> QED
    BY <1>1, InvAlways, PTL

(* A NORMAL application always has an invocation coming, however its starts *)
(* and stops meet the handler and a cancel that comes too late.             *)
THEOREM AlwaysScheduled == Spec => []NeverUnscheduled
  <1>1. Inv => NeverUnscheduled
    BY DEF Inv, TimerKept, NeverUnscheduled
  <1> QED
    BY <1>1, InvAlways, PTL

(* A buffered process runs until it exits or its own TimerActionKill fires, *)
(* which ends it.                                                           *)
THEOREM ExtraTimeRespected == Spec => GraceRespected
  <1>1. Inv /\ [Next]_svars =>
          [\A p \in kills :
              /\ proc[p].st = "child" /\ proc'[p].st = "free" => p \notin kills'
              /\ p \notin kills' => proc'[p].st \notin LiveState]_svars
    BY Inductive DEF Grace
  <1> QED
    BY <1>1, InvAlways, PTL DEF Spec, GraceRespected

=============================================================================
