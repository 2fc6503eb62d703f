-------------------------- MODULE OsProcessProofs --------------------------
(***************************************************************************)
(* Lemmas about the operators that change the process table.               *)
(***************************************************************************)
EXTENDS OsProcess, TLAPS

Table == [Pid -> Entry]

\* -1 is no process id, so a failed fork never names an entry of the table.
LEMMA NoPidIsNone == NoPid \notin Pid
BY OsAssumption

\* killgroup touches at most the entry it aims at, and nothing live is left
\* there: a live entry of the new table is another one, unchanged.
LEMMA KillFacts ==
    ASSUME NEW t \in Table, NEW c \in PidOrNone, NEW k \in AfterKill(t, c)
    PROVE  /\ k \in Table
           /\ \A p \in Pid : p # c => k[p] = t[p]
           /\ \A p \in Pid : k[p].own \in {t[p].own, Nobody}
           /\ \A p \in Pid : k[p].st \in LiveState => p # c /\ k[p] = t[p]
           /\ \A p \in Pid : k[p].st = "free" => k[p].own = Nobody \/ k[p] = t[p]
<1>1. CASE ~RunningIn(t, c)
  BY <1>1, NoPidIsNone DEF AfterKill, RunningIn, PidOrNone, Table, LiveState
<1>2. CASE RunningIn(t, c)
  <2>1. c \in Pid
    BY <1>2 DEF RunningIn
  <2>2. PICK e \in Remains(t[c]) : k = [t EXCEPT ![c] = e]
    BY <1>2 DEF AfterKill
  <2>3. e \in Entry /\ e.st \in {"free", "zombie"} /\ e.own \in {t[c].own, Nobody}
        /\ (e.st = "free" => e.own = Nobody)
    BY <2>1 DEF Remains, Table, Entry, Free, LiveState
  <2> QED
    BY <2>1, <2>2, <2>3 DEF Table, LiveState
<1> QED
  BY <1>1, <1>2

\* wait() only ever removes a zombie.
LEMMA ReapFacts ==
    ASSUME NEW t \in Table, NEW c \in PidOrNone
    PROVE  /\ Reaped(t, c) \in Table
           /\ \A p \in Pid : \/ Reaped(t, c)[p] = t[p]
                             \/ Reaped(t, c)[p] = Free /\ t[p].st = "zombie"
BY DEF Reaped, Table, Entry, Free, LiveState

\* A spawn fills one free entry, or none when fork fails.
LEMMA SpawnFacts ==
    ASSUME NEW t \in Table, NEW a \in App, NEW R,
           NEW p \in Fresh(t, R) \union {NoPid}
    PROVE  /\ p \in PidOrNone
           /\ Spawned(t, a, p) \in Table
           /\ \A q \in Pid : q # p => Spawned(t, a, p)[q] = t[q]
           /\ p \in Pid => /\ Spawned(t, a, p)[p] = [st |-> "child", own |-> a]
                           /\ t[p].st = "free"
BY NoPidIsNone DEF Fresh, Spawned, Table, Entry, Free, LiveState, PidOrNone

\* A process that exits leaves a zombie or nothing, under its own pid.
LEMMA ExitFacts ==
    ASSUME NEW t \in Table, NEW p \in Pid, t[p].st \in LiveState
    PROVE  /\ Exited(t, p) \in Table
           /\ \A q \in Pid : q # p => Exited(t, p)[q] = t[q]
           /\ Exited(t, p)[p].st \notin LiveState
           /\ Exited(t, p)[p].own \in {t[p].own, Nobody}
           /\ Exited(t, p)[p].st = "free" => Exited(t, p)[p].own = Nobody
BY DEF Exited, Table, Entry, Free, LiveState
=============================================================================
