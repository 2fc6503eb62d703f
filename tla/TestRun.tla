------------------------------ MODULE TestRun ------------------------------
(***************************************************************************)
(* Test runs of one application: Application::testRun, getTestOutput, the  *)
(* MonitoredProcess objects they make, the thread of each that reads the   *)
(* pipe, and the TimerActionKill that ends each test.                      *)
(*                                                                         *)
(* testRun() and getTestOutput() take no mutex and read m_testProcess anew  *)
(* at every step, so requests and polls interleave between those reads.    *)
(*                                                                         *)
(* The client that asks for a test polls its output until it is refused    *)
(* (ArgumentParser::processTest): that is the only way its command ends.   *)
(***************************************************************************)
EXTENDS Integers, Sequences, FiniteSets

CONSTANTS
    Thread,     \* bound: testrun requests served at a time
    Test,       \* bound: MonitoredProcess objects that exist at a time
    None,
    MaxLines,   \* bound: lines a program prints
    QueueLimit, \* stdoutQueueMaxLineCount
    Interrupts  \* may signals interrupt both waits of killgroup()?

ASSUME TestRunAssumption ==
    /\ None \notin Test \union Thread
    /\ MaxLines \in Nat /\ QueueLimit \in Nat \ {0}
    /\ Interrupts \in BOOLEAN

VARIABLES
    testProcess,    \* m_testProcess
    st,             \* the process of every MonitoredProcess
    reading,        \* those that have an m_thread
    timers,         \* those with a TimerActionKill
    at, arg,        \* where every testRun() is; what it gave to spawnProcess()
    asks,           \* uuids that a client polls with
    wrote, got,     \* lines printed so far; last line handed to a client
    seen, queue,    \* lines the m_thread has read; m_msgQueue
    poll,           \* how far the getTestOutput() of every uuid has come
    aborted         \* std::terminate() was called

tvars == <<testProcess, st, reading, timers, at, arg, asks, wrote, got, seen, queue, poll, aborted>>
output == <<wrote, got, seen, queue>>

TypeOK ==
    /\ testProcess \in Test \union {None}
    /\ st \in [Test -> {"none", "running", "zombie", "gone"}]
    /\ reading \subseteq Test /\ timers \subseteq Test
    /\ at \in [Thread -> {"idle", "kill", "make", "pass", "spawn", "timer", "answer"}]
    /\ arg \in [Thread -> Test \union {None}]
    /\ asks \subseteq Test
    /\ wrote \in [Test -> 0..MaxLines] /\ got \in [Test -> 0..MaxLines]
    /\ seen \in [Test -> 0..MaxLines]
    /\ queue \in [Test -> Seq(1..MaxLines)]
    /\ \A o \in Test : Len(queue[o]) <= QueueLimit
    /\ poll \in [Test -> {"none", "checked", "empty"}]
    /\ aborted \in BOOLEAN

\* kill(pid, 0): nobody but killgroup() waits for a test process.
Alive(o) == o # None /\ st[o] \in {"running", "zombie"}

Init ==
    /\ testProcess = None
    /\ st = [o \in Test |-> "none"]
    /\ reading = {} /\ timers = {}
    /\ at = [t \in Thread |-> "idle"] /\ arg = [t \in Thread |-> None]
    /\ asks = {}
    /\ wrote = [o \in Test |-> 0] /\ got = wrote /\ seen = wrote
    /\ queue = [o \in Test |-> <<>>]
    /\ poll = [o \in Test |-> "none"] /\ aborted = FALSE

Go(t, from, to) == at[t] = from /\ at' = [at EXCEPT ![t] = to]

(* killgroup(): SIGKILL and wait; when signals interrupt both waits, the    *)
(* zombie stays, and kill(pid, 0) succeeds for it as before.                *)
Killed(o) ==
    IF Alive(o) THEN { [st EXCEPT ![o] = x] : x \in {"gone"} \union (IF Interrupts THEN {"zombie"} ELSE {}) }
                ELSE {st}

-----------------------------------------------------------------------------
(* testRun().                                                               *)

\* Mutant: a test that still runs is not noticed.
EnterBlindly(t) ==
    /\ Go(t, "idle", "make")
    /\ UNCHANGED <<testProcess, st, reading, timers, arg, asks, output, poll, aborted>>

Enter(t) ==         \* m_testProcess->running()
    /\ Go(t, "idle", IF Alive(testProcess) THEN "kill" ELSE "make")
    /\ UNCHANGED <<testProcess, st, reading, timers, arg, asks, output, poll, aborted>>

KillOld(t) ==       \* m_testProcess->killgroup()
    /\ Go(t, "kill", "make")
    /\ st' \in Killed(testProcess)
    /\ UNCHANGED <<testProcess, reading, timers, arg, asks, output, poll, aborted>>

(* Nothing refers to the object any more, or it was never made. A zombie    *)
(* that nobody will wait for is forgotten with its object.                  *)
Unused(o) ==
    /\ o # testProcess /\ o \notin timers \union asks /\ st[o] # "running"
    /\ \A t \in Thread : arg[t] # o

Make(t) ==
    /\ Go(t, "make", "pass")
    /\ \E o \in Test :
        /\ Unused(o)
        /\ testProcess' = o
        /\ st' = [st EXCEPT ![o] = "none"]
        /\ reading' = reading \ {o}
        /\ wrote' = [wrote EXCEPT ![o] = 0] /\ got' = [got EXCEPT ![o] = 0]
        /\ seen' = [seen EXCEPT ![o] = 0] /\ queue' = [queue EXCEPT ![o] = <<>>]
    /\ UNCHANGED <<timers, arg, asks, poll, aborted>>

Pass(t) ==          \* the argument of spawnProcess(), which waits for m_mutex
    /\ Go(t, "pass", "spawn")
    /\ arg' = [arg EXCEPT ![t] = testProcess]
    /\ UNCHANGED <<testProcess, st, reading, timers, asks, output, poll, aborted>>

(* MonitoredProcess::spawn(): the pipe, fork, and the m_thread, which is    *)
(* started even if fork failed. The request fails when any of them does.    *)
(* A second spawn of the same object replaces an m_thread that was not      *)
(* joined, which terminates the daemon.                                     *)
Spawn(t) ==
    /\ \/ Go(t, "spawn", "idle") /\ UNCHANGED <<st, reading, aborted>>
       \/ /\ \/ Go(t, "spawn", "timer") /\ st' = [st EXCEPT ![arg[t]] = "running"]
             \/ Go(t, "spawn", "idle") /\ UNCHANGED st
          /\ reading' = reading \union {arg[t]}
          /\ aborted' = (arg[t] \in reading)
    /\ arg' = [arg EXCEPT ![t] = None]
    /\ UNCHANGED <<testProcess, timers, asks, output, poll>>

\* Mutant: no second timer while one is pending.
SetTimerFirst(t) ==
    /\ Go(t, "timer", "answer")
    /\ timers' = IF timers = {} THEN {testProcess} ELSE timers
    /\ UNCHANGED <<testProcess, st, reading, arg, asks, output, poll, aborted>>

SetTimer(t) ==      \* new TimerActionKill(m_testProcess, timeoutSeconds)
    /\ Go(t, "timer", "answer")
    /\ timers' = timers \union {testProcess}
    /\ UNCHANGED <<testProcess, st, reading, arg, asks, output, poll, aborted>>

Answer(t) ==        \* m_testProcess->getuuid()
    /\ Go(t, "answer", "idle")
    /\ asks' = asks \union {testProcess}
    /\ UNCHANGED <<testProcess, st, reading, timers, arg, output, poll, aborted>>

-----------------------------------------------------------------------------
(* The loop of the client of uuid o, and getTestOutput(), which serves it   *)
(* in three reads of m_testProcess.                                         *)

Poll(o, from, to) == poll[o] = from /\ poll' = [poll EXCEPT ![o] = to]

Check(o) ==         \* m_testProcess->getuuid() == processUuid
    /\ o \in asks /\ o = testProcess
    /\ Poll(o, "none", "checked")
    /\ UNCHANGED <<testProcess, st, reading, timers, at, arg, asks, output, aborted>>

Refuse(o) ==        \* "the given process uuid is wrong": it was replaced
    /\ o \in asks /\ o # testProcess /\ poll[o] = "none"
    /\ asks' = asks \ {o}
    /\ UNCHANGED <<testProcess, st, reading, timers, at, arg, output, poll, aborted>>

\* Mutant: the fetch leaves the first message in the queue.
FetchRest(o) ==
    LET q == queue[testProcess]
    IN  /\ Poll(o, "checked", IF q = <<>> THEN "empty" ELSE "none")
        /\ got' = [got EXCEPT ![testProcess] = IF q = <<>> THEN @ ELSE q[Len(q)]]
        /\ queue' = [queue EXCEPT ![testProcess] = IF q = <<>> THEN q ELSE <<Head(q)>>]
        /\ UNCHANGED <<testProcess, st, reading, timers, at, arg, asks, wrote, seen, aborted>>

(* fecthPipeMessages() of what is m_testProcess now: if the test was        *)
(* replaced since Check(o), the client of o is given the output of the      *)
(* new one.                                                                 *)
Fetch(o) ==
    LET q == queue[testProcess]
    IN  /\ Poll(o, "checked", IF q = <<>> THEN "empty" ELSE "none")
        /\ got' = [got EXCEPT ![testProcess] = IF q = <<>> THEN @ ELSE q[Len(q)]]
        /\ queue' = [queue EXCEPT ![testProcess] = <<>>]
        /\ UNCHANGED <<testProcess, st, reading, timers, at, arg, asks, wrote, seen, aborted>>

\* Mutant: the end of the process is not looked at.
ReplyEmpty(o) ==
    /\ Poll(o, "empty", "none")
    /\ UNCHANGED <<testProcess, st, reading, timers, at, arg, asks, output, aborted>>

Reply(o) ==         \* an empty answer, or "Process already finished"
    /\ Poll(o, "empty", "none")
    /\ IF Alive(testProcess)
       THEN UNCHANGED asks
       ELSE asks' = asks \ {o}
    /\ UNCHANGED <<testProcess, st, reading, timers, at, arg, output, aborted>>

-----------------------------------------------------------------------------
(* monitorThread(), the main thread, and the programs.                      *)

\* Mutant: nothing is ever popped.
ReadLineAll(o) ==
    /\ o \in reading /\ seen[o] < wrote[o]
    /\ seen' = [seen EXCEPT ![o] = @ + 1]
    /\ queue' = [queue EXCEPT ![o] = Append(@, seen[o] + 1)]
    /\ UNCHANGED <<testProcess, st, reading, timers, at, arg, asks, wrote, got, poll, aborted>>

ReadLine(o) ==
    /\ o \in reading /\ seen[o] < wrote[o]
    /\ seen' = [seen EXCEPT ![o] = @ + 1]
    /\ LET q == Append(queue[o], seen[o] + 1)
       IN  queue' = [queue EXCEPT ![o] = IF Len(q) > QueueLimit THEN Tail(q) ELSE q]
    /\ UNCHANGED <<testProcess, st, reading, timers, at, arg, asks, wrote, got, poll, aborted>>

KillTimeOut(o) ==
    /\ o \in timers
    /\ timers' = timers \ {o}
    /\ st' \in Killed(o)
    /\ UNCHANGED <<testProcess, reading, at, arg, asks, output, poll, aborted>>

Prints(o) ==
    /\ st[o] = "running" /\ wrote[o] < MaxLines
    /\ wrote' = [wrote EXCEPT ![o] = @ + 1]
    /\ UNCHANGED <<testProcess, st, reading, timers, at, arg, asks, got, seen, queue, poll, aborted>>

Exit(o) ==
    /\ st[o] = "running"
    /\ st' = [st EXCEPT ![o] = "zombie"]
    /\ UNCHANGED <<testProcess, reading, timers, at, arg, asks, output, poll, aborted>>

Request(t) ==
    \/ Enter(t) \/ KillOld(t) \/ Make(t) \/ Pass(t) \/ Spawn(t) \/ SetTimer(t) \/ Answer(t)

Next ==
    /\ ~aborted
    /\ \/ \E t \in Thread : Request(t)
       \/ \E o \in Test :
            \/ Check(o) \/ Fetch(o) \/ Reply(o) \/ Refuse(o)
            \/ ReadLine(o) \/ KillTimeOut(o) \/ Prints(o) \/ Exit(o)

Spec == Init /\ [][Next]_tvars

(* A request goes on once it was taken, the io_service runs its timers, and *)
(* a client polls on, each second, as long as it is not refused.            *)
Fairness ==
    /\ \A t \in Thread : WF_tvars(SetTimer(t))
    /\ \A o \in Test :
        /\ WF_tvars(KillTimeOut(o))
        /\ WF_tvars(Check(o)) /\ WF_tvars(Fetch(o)) /\ WF_tvars(Reply(o)) /\ WF_tvars(Refuse(o))

FairSpec == Spec /\ Fairness

-----------------------------------------------------------------------------
(* What is queued are the last lines read, in order, and as long as the     *)
(* queue is below its limit nothing between them and what was handed out    *)
(* is missing: only an overflow drops lines, and it drops the oldest.       *)
LinesKept ==
    \A o \in Test :
        LET n == Len(queue[o])
        IN  /\ \A i \in 1..n : queue[o][i] = seen[o] - n + i
            /\ n < QueueLimit => got[o] + n = seen[o]

(* ArgumentParser.cpp:384, "timeout seconds for the test run": a program    *)
(* under test has a TimerActionKill, or the request that spawned it is      *)
(* about to make it.                                                        *)
TestKilled ==
    \A o \in Test : st[o] = "running" =>
        o \in timers \/ (o = testProcess /\ \E t \in Thread : at[t] = "timer")

(* A new test run takes down the one before it, so at most one program is   *)
(* under test; an exited one may not have been waited for.                  *)
OneTest == Cardinality({o \in Test : st[o] = "running"}) <= 1

\* Its TimerActionKill has fired, and its waits were interrupted.
Left(o) == st[o] = "zombie" /\ o \notin timers

(* Every test is over in the end, and its process reaped if a wait for it   *)
(* is not interrupted, even if its program never exits.                     *)
TestEnds == \A o \in Test : Alive(o) ~> st[o] \in {"gone", "none"} \/ Left(o)

(* processTest(): the client's loop has no condition of its own; it ends    *)
(* with the test, or with the test that takes its place, whatever the       *)
(* program prints (at most MaxLines here). Only a zombie that killgroup()   *)
(* left unreaped keeps its client.                                          *)
ClientEnds == \A o \in Test : o \in asks ~> o \notin asks \/ Left(o)

(* README.md:37, "Get the stdout and stderr for the test run": a client is  *)
(* told that the test is finished only after what was printed was handed    *)
(* out.                                                                     *)
OutputBeforeEnd ==
    [][\A o \in asks \ asks' : poll[o] = "empty" => got[o] = wrote[o]]_tvars
=============================================================================
