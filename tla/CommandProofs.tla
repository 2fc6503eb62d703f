---------------------------- MODULE CommandProofs ----------------------------
(***************************************************************************)
(* Proofs about what the commands of appc lead to.                         *)
(*                                                                         *)
(* TestRun (test): its types and the output queue for any number of        *)
(* requests at a time; the timers and processes for one request at a time, *)
(* which is what they need.                                                *)
(*                                                                         *)
(* Client (reg, unreg, start, stop, restart), for any set of application   *)
(* names: its types, that a command which is over has done what it says,   *)
(* and that nothing is replaced or removed unasked.                        *)
(***************************************************************************)
EXTENDS Client, TestRun, FiniteSetTheorems, SequenceTheorems, TLAPS

-----------------------------------------------------------------------------
(* Consecutive lines.                                                       *)

\* q holds the last lines up to line s.
LastLines(q, s) == \A i \in 1..Len(q) : q[i] = s - Len(q) + i

LEMMA AppendLine ==
    ASSUME NEW S, NEW q \in Seq(S), NEW s \in Nat, s + 1 \in S, LastLines(q, s)
    PROVE  /\ Append(q, s + 1) \in Seq(S)
           /\ Len(Append(q, s + 1)) = Len(q) + 1
           /\ LastLines(Append(q, s + 1), s + 1)
  <1> DEFINE a == Append(q, s + 1)
             n == Len(q)
  <1>1. n \in Nat
    BY LenProperties
  <1>2. /\ a \in Seq(S) /\ Len(a) = n + 1 /\ a[n + 1] = s + 1
        /\ \A i \in 1..n : a[i] = q[i]
    BY AppendProperties
  <1> HIDE DEF a
  <1>3. ASSUME NEW i \in 1..(n + 1) PROVE a[i] = s + 1 - (n + 1) + i
    <2>1. CASE i = n + 1
      BY <1>1, <1>2, <2>1
    <2>2. CASE i # n + 1
      <3>1. i \in 1..n
        BY <1>1, <2>2
      <3>2. a[i] = s - n + i
        BY <1>2, <3>1 DEF LastLines
      <3> QED
        BY <1>1, <3>1, <3>2
    <2> QED
      BY <2>1, <2>2
  <1> QED
    BY <1>2, <1>3 DEF LastLines, a

LEMMA TailLines ==
    ASSUME NEW S, NEW q \in Seq(S), q # <<>>, NEW s \in Nat, LastLines(q, s)
    PROVE  Tail(q) \in Seq(S) /\ Len(Tail(q)) = Len(q) - 1 /\ LastLines(Tail(q), s)
  <1> DEFINE a == Tail(q)
             n == Len(q)
  <1>1. n \in Nat \ {0}
    BY EmptySeq
  <1>2. a \in Seq(S) /\ Len(a) = n - 1 /\ \A i \in 1..Len(a) : a[i] = q[i + 1]
    BY HeadTailProperties
  <1> HIDE DEF a
  <1>3. ASSUME NEW i \in 1..(n - 1) PROVE a[i] = s - (n - 1) + i
    <2>1. i + 1 \in 1..n /\ i \in 1..Len(a)
      BY <1>1, <1>2
    <2>2. a[i] = s - n + (i + 1)
      BY <1>2, <2>1 DEF LastLines
    <2> QED
      BY <1>1, <2>2
  <1> QED
    BY <1>2, <1>3 DEF LastLines, a

-----------------------------------------------------------------------------
(* Types and the queue.                                                     *)

\* A request that has made its test works on a test, and so does a poll.
HasTest ==
    /\ \A t \in Thread :
        /\ at[t] \in {"kill", "pass", "spawn", "timer", "answer"} => testProcess # None
        /\ at[t] = "spawn" => arg[t] # None
    /\ \A o \in Test : poll[o] # "none" => testProcess # None

Inv == TypeOK /\ HasTest /\ LinesKept

LEMMA InitInv == Init => Inv
  <1> SUFFICES ASSUME Init PROVE Inv
    OBVIOUS
  <1>1. queue \in [Test -> Seq(1..MaxLines)] /\ \A o \in Test : Len(queue[o]) = 0
    BY DEF Init
  <1>2. TypeOK
    <2>1. \A o \in Test : Len(queue[o]) <= QueueLimit
      BY <1>1, TestRunAssumption
    <2>2. wrote \in [Test -> 0..MaxLines]
      BY TestRunAssumption DEF Init
    <2> QED
      BY <1>1, <2>1, <2>2, TestRunAssumption DEF Init, TypeOK
  <1>3. HasTest
    BY DEF Init, HasTest
  <1>4. LinesKept
    BY <1>1 DEF Init, LinesKept
  <1> QED
    BY <1>2, <1>3, <1>4 DEF Inv

LEMMA KilledType ==
    ASSUME TypeOK, NEW o \in Test \union {None}, NEW s \in Killed(o)
    PROVE  /\ s \in [Test -> {"none", "running", "zombie", "gone"}]
           /\ \A p \in Test : p # o => s[p] = st[p]
           /\ o \in Test => s[o] # "running"
  <1>1. CASE Alive(o)
    <2>1. o \in Test
      BY <1>1 DEF Alive
    <2>2. PICK x \in {"gone", "zombie"} : s = [st EXCEPT ![o] = x]
      BY <1>1 DEF Killed
    <2> QED
      BY <2>1, <2>2 DEF TypeOK
  <1>2. CASE ~Alive(o)
    BY <1>2, TestRunAssumption DEF Killed, Alive, TypeOK
  <1> QED
    BY <1>1, <1>2

(* What leaves lines, queue and processes' readers alone keeps LinesKept.   *)
LEMMA SameLines == LinesKept /\ UNCHANGED <<got, seen, queue>> => LinesKept'
  BY DEF LinesKept

LEMMA RequestInv ==
    ASSUME Inv, NEW t \in Thread, Request(t)
    PROVE  Inv'
  <1> USE TestRunAssumption DEF Inv, Go, output
  <1>1. CASE Enter(t)
    BY <1>1, SameLines DEF Enter, TypeOK, HasTest, Alive
  <1>2. CASE KillOld(t)
    BY <1>2, SameLines, KilledType DEF KillOld, TypeOK, HasTest
  <1>3. CASE Make(t)
    <2>1. PICK o \in Test :
            /\ testProcess' = o
            /\ st' = [st EXCEPT ![o] = "none"]
            /\ reading' = reading \ {o}
            /\ wrote' = [wrote EXCEPT ![o] = 0] /\ got' = [got EXCEPT ![o] = 0]
            /\ seen' = [seen EXCEPT ![o] = 0] /\ queue' = [queue EXCEPT ![o] = <<>>]
      BY <1>3 DEF Make
    <2>2. queue' \in [Test -> Seq(1..MaxLines)] /\ \A p \in Test : Len(queue'[p]) <= QueueLimit
      BY <2>1 DEF TypeOK
    <2>3. /\ wrote' \in [Test -> 0..MaxLines] /\ got' \in [Test -> 0..MaxLines]
          /\ seen' \in [Test -> 0..MaxLines]
      BY <2>1 DEF TypeOK
    <2>4. st' \in [Test -> {"none", "running", "zombie", "gone"}]
      BY <2>1 DEF TypeOK
    <2>5. TypeOK'
      BY <1>3, <2>1, <2>2, <2>3, <2>4 DEF Make, TypeOK
    <2>6. HasTest'
      BY <1>3, <2>1 DEF Make, TypeOK, HasTest
    <2>7. ASSUME NEW p \in Test, p # o
          PROVE  queue'[p] = queue[p] /\ seen'[p] = seen[p] /\ got'[p] = got[p]
      BY <2>1, <2>7 DEF TypeOK
    <2>8. Len(queue'[o]) = 0 /\ seen'[o] = 0 /\ got'[o] = 0
      BY <2>1 DEF TypeOK
    <2>9. LinesKept'
      <3> SUFFICES ASSUME NEW p \in Test
                   PROVE  /\ LastLines(queue'[p], seen'[p])
                          /\ Len(queue'[p]) < QueueLimit => got'[p] + Len(queue'[p]) = seen'[p]
        BY DEF LinesKept, LastLines
      <3>1. CASE p = o
        BY <2>8, <3>1 DEF LastLines
      <3>2. CASE p # o
        BY <2>7, <3>2 DEF LinesKept, LastLines
      <3> QED
        BY <3>1, <3>2
    <2> QED
      BY <2>5, <2>6, <2>9
  <1>4. CASE Spawn(t)
    <2>1. arg[t] \in Test /\ testProcess \in Test
      BY <1>4 DEF Spawn, HasTest, TypeOK
    <2>2. st' \in [Test -> {"none", "running", "zombie", "gone"}]
      BY <1>4 DEF Spawn, TypeOK
    <2>3. at' \in [Thread -> {"idle", "kill", "make", "pass", "spawn", "timer", "answer"}]
      BY <1>4 DEF Spawn, TypeOK
    <2>4. TypeOK'
      <3>1. reading' \subseteq Test
        BY <1>4, <2>1 DEF Spawn, TypeOK
      <3>4. aborted' \in BOOLEAN
        <4>1. aborted' = aborted \/ aborted' = (arg[t] \in reading)
          BY <1>4 DEF Spawn
        <4>2. aborted \in BOOLEAN
          BY DEF TypeOK
        <4>3. (arg[t] \in reading) \in BOOLEAN
          OBVIOUS
        <4>4. CASE aborted' = aborted
          BY ONLY <4>2, <4>4
        <4>5. CASE aborted' = (arg[t] \in reading)
          BY ONLY <4>3, <4>5, Zenon
        <4> QED
          BY ONLY <4>1, <4>4, <4>5
      <3>2. arg' \in [Thread -> Test \union {None}]
        BY <1>4 DEF Spawn, TypeOK
      <3>3. UNCHANGED <<testProcess, timers, asks, output, poll>>
        BY <1>4 DEF Spawn
      <3> QED
        BY <2>2, <2>3, <3>1, <3>2, <3>3, <3>4 DEF TypeOK
    <2>5. HasTest'
      BY <1>4, <2>1 DEF Spawn, HasTest, TypeOK
    <2> QED
      BY <1>4, <2>4, <2>5, SameLines DEF Spawn
  <1>5. CASE SetTimer(t)
    BY <1>5, SameLines DEF SetTimer, TypeOK, HasTest
  <1>6. CASE Answer(t)
    BY <1>6, SameLines DEF Answer, TypeOK, HasTest
  <1>7. CASE Pass(t)
    BY <1>7, SameLines DEF Pass, TypeOK, HasTest
  <1> QED
    BY <1>1, <1>2, <1>3, <1>4, <1>5, <1>6, <1>7 DEF Request

(* Whichever client it serves, a fetch empties the queue of the test of     *)
(* m_testProcess.                                                           *)
LEMMA FetchInv ==
    ASSUME Inv, NEW c \in Test, Fetch(c)
    PROVE  Inv'
  <1> USE TestRunAssumption DEF Inv, Fetch, Poll
  <1> DEFINE o == testProcess
             n == Len(queue[o])
  <1>0. o \in Test
    BY DEF TypeOK, HasTest
  <1>1. n \in Nat /\ queue[o] \in Seq(1..MaxLines) /\ seen[o] \in Nat /\ got[o] \in Nat
    BY <1>0 DEF TypeOK
  <1>2. queue[o] = <<>> <=> n = 0
    BY <1>1
  <1>3. queue'[o] = <<>> /\ seen'[o] = seen[o] /\ got'[o] = seen[o]
    <2>1. got'[o] = IF n = 0 THEN got[o] ELSE queue[o][n]
      BY <1>0, <1>2 DEF TypeOK
    <2>2. n = 0 => got[o] = seen[o]
      BY <1>0, <1>1 DEF LinesKept
    <2>3. n # 0 => queue[o][n] = seen[o]
      <3> SUFFICES ASSUME n # 0 PROVE queue[o][n] = seen[o]
        OBVIOUS
      <3>1. n \in 1..n
        BY <1>1
      <3>2. queue[o][n] = seen[o] - n + n
        BY <1>0, <3>1 DEF LinesKept
      <3> QED
        BY <1>1, <3>2
    <2>4. queue'[o] = <<>> /\ seen' = seen
      BY <1>0 DEF TypeOK
    <2> QED
      BY <2>1, <2>2, <2>3, <2>4
  <1>4. ASSUME NEW p \in Test, p # o
        PROVE  queue'[p] = queue[p] /\ seen'[p] = seen[p] /\ got'[p] = got[p]
    BY <1>4 DEF TypeOK
  <1>5. Len(queue'[o]) = 0
    BY <1>3
  <1>6. LinesKept'
    <2> SUFFICES ASSUME NEW p \in Test
                 PROVE  /\ LastLines(queue'[p], seen'[p])
                        /\ Len(queue'[p]) < QueueLimit => got'[p] + Len(queue'[p]) = seen'[p]
      BY DEF LinesKept, LastLines
    <2>1. CASE p = o
      BY <1>1, <1>3, <1>5, <2>1 DEF LastLines
    <2>2. CASE p # o
      BY <1>4, <2>2 DEF LinesKept, LastLines
    <2> QED
      BY <2>1, <2>2
  <1>7. got' \in [Test -> 0..MaxLines]
    <2>1. seen[o] \in 0..MaxLines
      BY <1>0 DEF TypeOK
    <2>2. DOMAIN got' = Test /\ got' = [p \in Test |-> got'[p]]
      BY DEF TypeOK
    <2>3. ASSUME NEW p \in Test PROVE got'[p] \in 0..MaxLines
      BY <1>3, <1>4, <2>1 DEF TypeOK
    <2> QED
      BY <2>2, <2>3
  <1>8. queue' \in [Test -> Seq(1..MaxLines)] /\ \A p \in Test : Len(queue'[p]) <= QueueLimit
    <2>1. DOMAIN queue' = Test /\ queue' = [p \in Test |-> queue'[p]]
      BY DEF TypeOK
    <2>2. <<>> \in Seq(1..MaxLines)
      BY EmptySeq
    <2>3. ASSUME NEW p \in Test
          PROVE  queue'[p] \in Seq(1..MaxLines) /\ Len(queue'[p]) <= QueueLimit
      <3>1. CASE p = o
        <4>1. QueueLimit \in Nat
          OBVIOUS
        <4>2. queue'[p] = <<>> /\ Len(queue'[p]) = 0
          BY ONLY <1>3, <1>5, <3>1
        <4> QED
          BY ONLY <2>2, <4>1, <4>2
      <3>2. CASE p # o
        BY <1>4, <3>2 DEF TypeOK
      <3> QED
        BY <3>1, <3>2
    <2> QED
      BY <2>1, <2>3
  <1>9. poll' \in [Test -> {"none", "checked", "empty"}]
    BY DEF TypeOK
  <1>10. TypeOK' /\ HasTest'
    BY <1>0, <1>7, <1>8, <1>9 DEF TypeOK, HasTest
  <1> QED
    BY <1>6, <1>10

(* The queue is at its limit before anything is dropped, and what goes is   *)
(* the oldest line.                                                         *)
LEMMA ReadLineInv ==
    ASSUME Inv, NEW o \in Test, ReadLine(o)
    PROVE  Inv'
  <1> USE TestRunAssumption DEF Inv
  <1> DEFINE n == Len(queue[o])
             q == Append(queue[o], seen[o] + 1)
  <1>1. n \in Nat /\ queue[o] \in Seq(1..MaxLines) /\ seen[o] \in Nat /\ got[o] \in Nat
        /\ n <= QueueLimit /\ seen[o] + 1 \in 1..MaxLines
    BY DEF TypeOK, ReadLine
  <1>2. LastLines(queue[o], seen[o]) /\ (n < QueueLimit => got[o] + n = seen[o])
    BY DEF LinesKept, LastLines
  <1>3. q \in Seq(1..MaxLines) /\ Len(q) = n + 1 /\ LastLines(q, seen[o] + 1)
    BY <1>1, <1>2, AppendLine
  <1>4. seen'[o] = seen[o] + 1 /\ got' = got
    BY DEF ReadLine, TypeOK
  <1>5. /\ queue'[o] \in Seq(1..MaxLines) /\ Len(queue'[o]) <= QueueLimit
        /\ LastLines(queue'[o], seen[o] + 1)
        /\ Len(queue'[o]) < QueueLimit => Len(queue'[o]) = n + 1 /\ n < QueueLimit
    <2>1. queue'[o] = IF Len(q) > QueueLimit THEN Tail(q) ELSE q
      BY DEF ReadLine, TypeOK
    <2> HIDE DEF q
    <2>2. CASE Len(q) > QueueLimit
      <3>1. q # <<>>
        BY <1>1, <1>3, EmptySeq
      <3>2. Tail(q) \in Seq(1..MaxLines) /\ Len(Tail(q)) = n /\ LastLines(Tail(q), seen[o] + 1)
        BY <1>1, <1>3, <3>1, TailLines
      <3>3. n = QueueLimit
        BY <1>1, <1>3, <2>2
      <3> QED
        BY <1>1, <2>1, <2>2, <3>2, <3>3
    <2>3. CASE ~(Len(q) > QueueLimit)
      BY <1>1, <1>3, <2>1, <2>3
    <2> QED
      BY <2>2, <2>3
  <1>6. ASSUME NEW p \in Test, p # o
        PROVE  queue'[p] = queue[p] /\ seen'[p] = seen[p] /\ got'[p] = got[p]
    BY <1>4, <1>6 DEF TypeOK, ReadLine
  <1>7. LinesKept'
    <2> SUFFICES ASSUME NEW p \in Test
                 PROVE  /\ LastLines(queue'[p], seen'[p])
                        /\ Len(queue'[p]) < QueueLimit => got'[p] + Len(queue'[p]) = seen'[p]
      BY DEF LinesKept, LastLines
    <2>1. CASE p = o
      <3>1. LastLines(queue'[o], seen'[o])
        BY <1>4, <1>5
      <3>2. ASSUME Len(queue'[o]) < QueueLimit PROVE got[o] + Len(queue'[o]) = seen[o] + 1
        <4>1. Len(queue'[o]) = n + 1 /\ got[o] + n = seen[o]
          BY <1>2, <1>5, <3>2
        <4>2. n \in Nat /\ got[o] \in Nat
          BY <1>1
        <4> HIDE DEF n
        <4> QED
          BY <4>1, <4>2
      <3> QED
        BY <1>4, <2>1, <3>1, <3>2
    <2>2. CASE p # o
      BY <1>6, <2>2 DEF LinesKept, LastLines
    <2> QED
      BY <2>1, <2>2
  <1>8. queue' \in [Test -> Seq(1..MaxLines)] /\ \A p \in Test : Len(queue'[p]) <= QueueLimit
    <2>1. DOMAIN queue' = Test /\ queue' = [p \in Test |-> queue'[p]]
      BY DEF ReadLine, TypeOK
    <2>2. ASSUME NEW p \in Test
          PROVE  queue'[p] \in Seq(1..MaxLines) /\ Len(queue'[p]) <= QueueLimit
      BY <1>5, <1>6 DEF TypeOK
    <2> QED
      BY <2>1, <2>2
  <1>9. seen' \in [Test -> 0..MaxLines]
    BY <1>1 DEF ReadLine, TypeOK
  <1>10. TypeOK' /\ HasTest'
    BY <1>8, <1>9 DEF ReadLine, TypeOK, HasTest
  <1> QED
    BY <1>7, <1>10

LEMMA OtherInv ==
    ASSUME Inv, NEW o \in Test,
           Check(o) \/ Refuse(o) \/ Reply(o) \/ KillTimeOut(o) \/ Prints(o) \/ Exit(o)
    PROVE  Inv'
  <1> USE TestRunAssumption DEF Inv, output
  <1>1. CASE Refuse(o)
    BY <1>1, SameLines DEF Refuse, TypeOK, HasTest
  <1>2. CASE KillTimeOut(o)
    BY <1>2, SameLines, KilledType DEF KillTimeOut, TypeOK, HasTest
  <1>3. CASE Prints(o)
    BY <1>3, SameLines DEF Prints, TypeOK, HasTest
  <1>4. CASE Exit(o)
    BY <1>4, SameLines DEF Exit, TypeOK, HasTest
  <1>5. CASE Reply(o)
    BY <1>5, SameLines DEF Reply, Poll, TypeOK, HasTest
  <1>6. CASE Check(o)
    BY <1>6, SameLines DEF Check, Poll, TypeOK, HasTest
  <1> QED
    BY <1>1, <1>2, <1>3, <1>4, <1>5, <1>6

LEMMA Inductive == Inv /\ [Next]_tvars => Inv'
  <1> SUFFICES ASSUME Inv, [Next]_tvars PROVE Inv'
    OBVIOUS
  <1>1. CASE UNCHANGED tvars
    BY <1>1, SameLines DEF Inv, tvars, TypeOK, HasTest
  <1>2. ASSUME NEW t \in Thread, Request(t) PROVE Inv'
    BY <1>2, RequestInv
  <1>3. ASSUME NEW o \in Test,
               \/ Check(o) \/ Fetch(o) \/ Reply(o) \/ Refuse(o)
               \/ ReadLine(o) \/ KillTimeOut(o) \/ Prints(o) \/ Exit(o)
        PROVE  Inv'
    BY <1>3, FetchInv, ReadLineInv, OtherInv
  <1> QED
    BY <1>1, <1>2, <1>3 DEF Next

LEMMA InvAlways == Spec => []Inv
  BY InitInv, Inductive, PTL DEF Spec

(* Every reachable state is of its type, for any number of requests at a    *)
(* time.                                                                    *)
THEOREM TypeCorrect == Spec => []TypeOK
  BY InvAlways, PTL DEF Inv

(* For any number of requests, lines and clients, and any limit of the      *)
(* queue, only an overflow drops lines, and it drops the oldest; a poll     *)
(* that is served from another test's queue loses nothing of it either.     *)
THEOREM OutputKept == Spec => []LinesKept
  BY InvAlways, PTL DEF Inv

-----------------------------------------------------------------------------
(* One request at a time.                                                   *)

\* Only the test of m_testProcess may run, and none while it is replaced.
OnlyCurrent ==
    /\ \A o \in Test : st[o] = "running" =>
        o = testProcess /\ \A t \in Thread : at[t] \notin {"make", "pass", "spawn"}
    /\ \A t \in Thread : at[t] = "spawn" => arg[t] = testProcess

Alone == OnlyCurrent /\ TestKilled

LEMMA AloneStep ==
    ASSUME NEW u, Thread = {u}, Inv, Alone, Next
    PROVE  Alone'
  <1> USE TestRunAssumption DEF Inv, Alone, Go
  <1>1. ASSUME NEW t \in Thread, Enter(t) PROVE Alone'
    BY <1>1 DEF Enter, TypeOK, OnlyCurrent, TestKilled, Alive
  <1>2. ASSUME NEW t \in Thread, KillOld(t) PROVE Alone'
    <2>1. testProcess \in Test
      BY <1>2 DEF KillOld, HasTest, TypeOK
    <2>2. \A o \in Test : st'[o] # "running"
      BY <1>2, <2>1, KilledType DEF KillOld, OnlyCurrent
    <2> QED
      BY <1>2, <2>1, <2>2 DEF KillOld, TypeOK, OnlyCurrent, TestKilled
  <1>3. ASSUME NEW t \in Thread, Make(t) PROVE Alone'
    BY <1>3 DEF Make, TypeOK, OnlyCurrent, TestKilled
  <1>4. ASSUME NEW t \in Thread, Spawn(t) PROVE Alone'
    <2>1. testProcess \in Test /\ t = u /\ at[u] = "spawn" /\ arg[t] = testProcess
      BY <1>4 DEF Spawn, HasTest, TypeOK, OnlyCurrent
    <2>2. \A o \in Test : st[o] # "running"
      BY <2>1 DEF OnlyCurrent
    <2>3. CASE at' = [at EXCEPT ![t] = "timer"] /\ st' = [st EXCEPT ![arg[t]] = "running"]
      BY <1>4, <2>1, <2>2, <2>3 DEF Spawn, TypeOK, OnlyCurrent, TestKilled
    <2>4. CASE at' = [at EXCEPT ![t] = "idle"] /\ st' = st
      BY <1>4, <2>1, <2>2, <2>4 DEF Spawn, TypeOK, OnlyCurrent, TestKilled
    <2> QED
      BY <1>4, <2>3, <2>4 DEF Spawn
  <1>5. ASSUME NEW t \in Thread, Pass(t) \/ SetTimer(t) \/ Answer(t) PROVE Alone'
    BY <1>5 DEF Pass, SetTimer, Answer, TypeOK, OnlyCurrent, TestKilled
  <1>6. ASSUME NEW o \in Test, KillTimeOut(o) PROVE Alone'
    <2>1. st'[o] # "running" /\ \A p \in Test : p # o => st'[p] = st[p]
      BY <1>6, KilledType DEF KillTimeOut
    <2> QED
      BY <1>6, <2>1 DEF KillTimeOut, TypeOK, OnlyCurrent, TestKilled
  <1>7. ASSUME NEW o \in Test, Exit(o) PROVE Alone'
    BY <1>7 DEF Exit, TypeOK, OnlyCurrent, TestKilled
  <1>8. ASSUME UNCHANGED <<testProcess, st, timers, at, arg>> PROVE Alone'
    BY <1>8 DEF OnlyCurrent, TestKilled
  <1>9. ASSUME NEW o \in Test,
               Check(o) \/ Fetch(o) \/ Reply(o) \/ Refuse(o) \/ ReadLine(o) \/ Prints(o)
        PROVE  Alone'
    BY <1>8, <1>9 DEF Check, Fetch, Reply, Refuse, ReadLine, Prints
  <1> QED
    BY <1>1, <1>2, <1>3, <1>4, <1>5, <1>6, <1>7, <1>9 DEF Next, Request

LEMMA AloneAlways ==
    ASSUME NEW u, Thread = {u}
    PROVE  Spec => []Alone
  <1>1. Init => Alone
    BY DEF Init, Alone, OnlyCurrent, TestKilled
  <1>2. Inv /\ Alone /\ [Next]_tvars => Alone'
    <2>1. Inv /\ Alone /\ Next => Alone'
      BY AloneStep
    <2>2. Alone /\ UNCHANGED tvars => Alone'
      BY DEF Alone, OnlyCurrent, TestKilled, tvars
    <2> QED
      BY <2>1, <2>2
  <1> QED
    BY <1>1, <1>2, InvAlways, PTL DEF Spec

(* While requests come one at a time, a program under test has the timer    *)
(* that ends it, or is about to be given it, though waits be interrupted.   *)
THEOREM TestsAreKilled ==
    ASSUME NEW u, Thread = {u}
    PROVE  Spec => []TestKilled
  BY AloneAlways, PTL DEF Alone

(* While requests come one at a time, so do tests: a new one takes down the *)
(* one before it, whether that runs or is about to be killed, and leaves at *)
(* most a zombie of it.                                                     *)
THEOREM OneAtATime ==
    ASSUME NEW u, Thread = {u}
    PROVE  Spec => []OneTest
  <1>1. Alone => OneTest
    <2> SUFFICES ASSUME Alone PROVE OneTest
      OBVIOUS
    <2> DEFINE A == {o \in Test : st[o] = "running"}
    <2>1. A = {} \/ A = {testProcess}
      BY DEF Alone, OnlyCurrent
    <2>2. Cardinality({}) = 0 /\ Cardinality({testProcess}) = 1
      BY FS_EmptySet, FS_Singleton
    <2> QED
      BY <2>1, <2>2 DEF OneTest
  <1> QED
    BY <1>1, AloneAlways, PTL

-----------------------------------------------------------------------------
(* Client.                                                                  *)

\* Which commands take which way through the client.
Ways ==
    /\ where \in {"list", "post"} => do \notin {"reg", "unreg"}
    /\ where = "list" => on = All
    /\ where \in {"exist", "confirm", "send"} => on # All
    /\ where \in {"confirm", "send"} => do \in {"reg", "unreg"}
    /\ where = "exist" /\ do \in {"reg", "unreg"} => known = {}
    /\ where \in {"exist", "confirm", "send", "list", "done"} => todo = {}

\* Starting and stopping removes nothing.
StaysRegistered ==
    where # "idle" /\ do \notin {"reg", "unreg"} =>
        \A n \in Name \ touched : before[n] # "none" => apps[n] # "none"

\* What is not in todo has been seen to.
SeenTo ==
    where = "post" /\ clean => \A n \in Subject : n \in todo \/ apps[n] = way

\* What is about to be sent destroys nothing, or the user has agreed.
MaySend == where = "send" => force \/ apps[on] = "none" \/ on \in touched

ClientInv == ClientTypeOK /\ Ways /\ StaysRegistered /\ SeenTo /\ MaySend /\ DoneAsAsked

LEMMA ClientInitInv == ClientInit => ClientInv
  BY ClientAssumption
  DEF ClientInit, ClientInv, ClientTypeOK, Ways, StaysRegistered, SeenTo, MaySend, DoneAsAsked, State

LEMMA ListType == ASSUME ClientTypeOK PROVE List \subseteq Name
  BY DEF ClientTypeOK, List, Registered

LEMMA CommandInv == ClientInv /\ Command => ClientInv'
  <1> SUFFICES ASSUME ClientInv, Command PROVE ClientInv'
    OBVIOUS
  <1> USE ClientAssumption DEF ClientInv, Command, command
  <1>1. ClientTypeOK'
    BY DEF ClientTypeOK, State
  <1>2. Ways'
    BY DEF Ways, ClientTypeOK
  <1>3. StaysRegistered' /\ SeenTo' /\ MaySend' /\ DoneAsAsked'
    BY DEF ClientTypeOK, StaysRegistered, SeenTo, MaySend, DoneAsAsked
  <1> QED
    BY <1>1, <1>2, <1>3

LEMMA ExistInv == ClientInv /\ Exist => ClientInv'
  <1> SUFFICES ASSUME ClientInv, Exist PROVE ClientInv'
    OBVIOUS
  <1> USE DEF ClientInv, Exist, command
  <1>0. List \subseteq Name
    BY ListType
  <1>1. ClientTypeOK'
    BY <1>0 DEF ClientTypeOK, Ways, Ask
  <1>2. Ways'
    BY DEF Ways, ClientTypeOK, Ask
  <1>3. StaysRegistered'
    BY DEF StaysRegistered
  <1>4. SeenTo'
    BY DEF SeenTo, Subject, Ways, ClientTypeOK, Ask
  <1>5. MaySend'
    <2> SUFFICES ASSUME where' = "send", ~force PROVE apps[on] = "none"
      BY DEF MaySend
    <2>1. on \notin List /\ do = "reg"
      BY DEF Ask
    <2>2. List = Registered
      BY <2>1 DEF Ways, List
    <2> QED
      BY <2>1, <2>2 DEF Registered, ClientTypeOK, Ways
  <1>6. DoneAsAsked'
    BY DEF DoneAsAsked, Ask
  <1> QED
    BY <1>1, <1>2, <1>3, <1>4, <1>5, <1>6

LEMMA ConfirmInv == ClientInv /\ Confirm => ClientInv'
  BY DEF ClientInv, Confirm, ClientTypeOK, Ways, StaysRegistered, SeenTo, MaySend,
         DoneAsAsked, State, Subject

LEMMA SendInv == ClientInv /\ Send => ClientInv'
  <1> SUFFICES ASSUME ClientInv, Send PROVE ClientInv'
    OBVIOUS
  <1> USE DEF ClientInv, command
  <1>0. PICK s \in IF do = "reg" THEN {"start", "stop"} ELSE {"none"} :
            \/ Served(on, s) /\ where' = "done" /\ UNCHANGED todo
            \/ Refused /\ where' = "done" /\ UNCHANGED todo
            \/ Throws(on, s)
    BY DEF Send
  <1>1. on \in Name /\ s \in State /\ where = "send"
    BY DEF Send, ClientTypeOK, State
  <1>2. UNCHANGED <<summer, do, on, force, before, way, known, touched>>
    BY DEF Send
  <1>3. ClientTypeOK'
    BY <1>0, <1>1, <1>2 DEF ClientTypeOK, Served, Refused, Throws, Ways
  <1>4. Ways' /\ StaysRegistered' /\ SeenTo' /\ MaySend'
    BY <1>0, <1>1, <1>2 DEF Ways, StaysRegistered, SeenTo, MaySend, Throws
  <1>5. DoneAsAsked'
    <2> SUFFICES ASSUME where' = "done", clean'
                 PROVE  IF do = "reg" THEN apps'[on] # "none" ELSE apps'[on] = "none"
      BY <1>1, <1>2 DEF DoneAsAsked, Subject, Ways, ClientTypeOK
    <2>1. Served(on, s)
      BY <1>0 DEF Refused, Throws
    <2> QED
      BY <1>1, <2>1 DEF Served, ClientTypeOK
  <1> QED
    BY <1>3, <1>4, <1>5

LEMMA ListAllInv == ClientInv /\ ListAll => ClientInv'
  <1> SUFFICES ASSUME ClientInv, ListAll PROVE ClientInv'
    OBVIOUS
  <1> USE DEF ClientInv, ListAll, command
  <1>1. ClientTypeOK' /\ Ways' /\ StaysRegistered' /\ MaySend' /\ DoneAsAsked'
    BY DEF ClientTypeOK, Ways, StaysRegistered, MaySend, DoneAsAsked, Registered
  <1>2. SeenTo'
    BY DEF SeenTo, Subject, Registered, StaysRegistered, Ways, ClientTypeOK
  <1> QED
    BY <1>1, <1>2

LEMMA PostInv == ClientInv /\ Post => ClientInv'
  <1> SUFFICES ASSUME ClientInv, Post PROVE ClientInv'
    OBVIOUS
  <1> USE DEF ClientInv, command
  <1>0. PICK n \in todo :
        \/ apps[n] # "none" /\ Served(n, way) /\ todo' = todo \ {n} /\ UNCHANGED where
        \/ Refused /\ todo' = todo \ {n} /\ UNCHANGED where
        \/ /\ apps[n] = "none"
           /\ clean' = FALSE /\ todo' = todo \ {n}
           /\ UNCHANGED <<apps, where>>
        \/ Throws(n, IF apps[n] = "none" THEN "none" ELSE way)
    BY DEF Post
  <1>1. n \in Name /\ way \in {"start", "stop"} /\ where = "post"
    BY DEF Post, ClientTypeOK
  <1>2. UNCHANGED <<summer, do, on, force, before, way, known, touched>>
    BY DEF Post
  <1>3. ClientTypeOK'
    BY <1>0, <1>1, <1>2 DEF ClientTypeOK, State, Served, Refused, Throws
  <1>4. Ways' /\ MaySend' /\ DoneAsAsked'
    BY <1>0, <1>1, <1>2 DEF Ways, MaySend, DoneAsAsked, Throws
  <1>5. StaysRegistered'
    <2>1. CASE where' = "idle"
      BY <2>1 DEF StaysRegistered
    <2>2. CASE where' # "idle"
      BY <1>0, <1>1, <1>2, <2>2 DEF StaysRegistered, Served, Refused, Throws, ClientTypeOK
    <2> QED
      BY <2>1, <2>2
  <1>6. SeenTo'
    <2> SUFFICES ASSUME where' = "post", clean', NEW k \in Subject
                 PROVE  k \in todo' \/ apps'[k] = way
      BY <1>2 DEF SeenTo, Subject
    <2>1. Served(n, way) /\ todo' = todo \ {n} /\ clean
      BY <1>0, <1>1 DEF Refused, Throws, Served
    <2>2. k \in Name
      BY <1>1 DEF Subject, ClientTypeOK, Ways
    <2> QED
      BY <1>1, <2>1, <2>2 DEF SeenTo, Served, ClientTypeOK
  <1> QED
    BY <1>3, <1>4, <1>5, <1>6

LEMMA PostedInv == ClientInv /\ Posted => ClientInv'
  <1> SUFFICES ASSUME ClientInv, Posted PROVE ClientInv'
    OBVIOUS
  <1> USE DEF ClientInv, Posted, command
  <1>1. ClientTypeOK'
    BY DEF ClientTypeOK
  <1>2. Ways' /\ StaysRegistered' /\ SeenTo' /\ MaySend'
    BY DEF Ways, StaysRegistered, SeenTo, MaySend, ClientTypeOK
  <1>3. DoneAsAsked'
    BY DEF DoneAsAsked, Ways, SeenTo, Subject
  <1> QED
    BY <1>1, <1>2, <1>3

LEMMA ExitsInv == ClientInv /\ Exits => ClientInv'
  BY DEF ClientInv, Exits, command, ClientTypeOK, Ways, StaysRegistered, SeenTo, MaySend,
         DoneAsAsked

(* What another client does takes its name out of what is promised.         *)
LEMMA AnotherInv == ClientInv /\ Other => ClientInv'
  <1> SUFFICES ASSUME ClientInv, Other PROVE ClientInv'
    OBVIOUS
  <1> USE DEF ClientInv, command
  <1>0. PICK n \in Name, s \in State :
            apps' = [apps EXCEPT ![n] = s] /\ touched' = touched \union {n}
    BY DEF Other
  <1>1. UNCHANGED <<summer, where, do, on, force, before, way, known, todo, clean>>
    BY DEF Other
  <1>2. ClientTypeOK' /\ Ways'
    BY <1>0, <1>1 DEF ClientTypeOK, Ways
  <1>3. StaysRegistered' /\ MaySend'
    BY <1>0, <1>1 DEF StaysRegistered, MaySend, ClientTypeOK
  <1>4. \A k \in Subject' : k \in Subject /\ k \in Name /\ apps'[k] = apps[k]
    BY <1>0, <1>1 DEF Subject, ClientTypeOK
  <1>5. SeenTo' /\ DoneAsAsked'
    BY <1>1, <1>4 DEF SeenTo, DoneAsAsked
  <1> QED
    BY <1>2, <1>3, <1>5

LEMMA SeasonInv == ClientInv /\ (Season \/ UNCHANGED cvars) => ClientInv'
  <1> SUFFICES ASSUME ClientInv, Season \/ UNCHANGED cvars PROVE ClientInv'
    OBVIOUS
  <1> USE DEF ClientInv
  <1>1. UNCHANGED <<apps, where, do, on, force, before, way, known, todo, clean, touched>>
    BY DEF Season, cvars, command
  <1>2. summer' \in BOOLEAN
    BY DEF Season, cvars, ClientTypeOK
  <1>3. ClientTypeOK'
    BY <1>1, <1>2 DEF ClientTypeOK
  <1>4. Ways' /\ StaysRegistered' /\ SeenTo' /\ MaySend' /\ DoneAsAsked'
    BY <1>1 DEF Ways, StaysRegistered, SeenTo, MaySend, DoneAsAsked, Subject
  <1> QED
    BY <1>3, <1>4

LEMMA ClientInductive == ClientInv /\ [ClientNext]_cvars => ClientInv'
  BY CommandInv, ExistInv, ConfirmInv, SendInv, ListAllInv, PostInv, PostedInv, ExitsInv,
     AnotherInv, SeasonInv DEF ClientNext

LEMMA ClientInvAlways == ClientSpec => []ClientInv
  BY ClientInitInv, ClientInductive, PTL DEF ClientSpec

-----------------------------------------------------------------------------
(* Every reachable state of the client and the daemon's registry is of its  *)
(* type.                                                                    *)
THEOREM ClientTypeCorrect == ClientSpec => []ClientTypeOK
  BY ClientInvAlways, PTL DEF ClientInv

(* A command of appc that ends without a refusal or an exception has done   *)
(* what it says to every application no other client has changed meanwhile, *)
(* with --all to every application that was registered when it began.       *)
THEOREM CommandsDo == ClientSpec => []DoneAsAsked
  BY ClientInvAlways, PTL DEF ClientInv

(* Without --force or the user's yes, nothing registered is replaced or     *)
(* removed, but for what another client has registered since the question.  *)
THEOREM NothingUnasked == ClientSpec => AskedFirst
  <1>1. ClientInv /\ [ClientNext]_cvars =>
          [where = "send" /\ apps' # apps /\ where' # where =>
              force \/ apps[on] = "none" \/ on \in touched]_cvars
    BY DEF ClientInv, MaySend
  <1> QED
    BY <1>1, ClientInvAlways, PTL DEF ClientSpec, AskedFirst
=============================================================================
