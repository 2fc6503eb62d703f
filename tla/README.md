# A TLA+ model of application-manager

`application-manager` is a Linux daemon that starts, watches, restarts and stops
applications for its clients: long running programs, programs invoked at an
interval, and one-shot test runs. Clients use a REST interface; the set of
applications is kept in one JSON file. This directory holds TLA+ modules for the
parts of the daemon whose correctness depends on an order of steps, the TLC
instances that check them, and proofs of the main safety properties.

Paths below are relative to `src/`; `AM` is `src/ApplicationManager`.

## 1. Inventory

| component | state it keeps | operations | interacts with |
|---|---|---|---|
| long running application (`AM/Application.cpp`) | `m_active`, `m_process`, `m_pid`, daily range, return code | `attach`, `invoke`, `refreshPid`, `start`, `stop`, `testRun`, `getTestOutput`, `AsJson`, `FromJson` | the monitor (main thread) and REST threads call it; it forks and kills |
| processes (`AM/Process.cpp`, ACE) | the kernel's process table | `spawn`, `running`, `wait`, `killgroup`, `getSymProcessList` | every kind of application |
| short running and periodic applications (`AM/ApplicationShortRun.cpp`, `ApplicationPeriodRun.cpp`) | the above, `m_timer`, `m_bufferProcess`, interval, extra time, start time | `initTimer`, `invokeNow`, `invoke`, `refreshPid`, `start`, destructor | its TimerAction calls back; it makes TimerActionKill objects |
| timers (`AM/Timer.cpp`, `TimerAction.cpp`, `TimerActionKill.cpp`) | an asio timer, a weak pointer to the application, start and interval | `onTimeOut`, `cancelTimer`, self-deletion | run by the main thread's io_service; touch the application under its mutex (TimerActionKill: without) |
| registry and persistence (`AM/Configuration.cpp`) | `m_apps`, `m_mutex`, the file | `addApp`, `removeApp`, `startApp`, `stopApp`, `parseApp`, `saveConfigToDisk`, `FromJson` | REST threads call it; it calls applications, with its mutex held (`addApp`, `removeApp`, `AsJson`) or not (`startApp`, `stopApp`) |
| test runs (`AM/MonitoredProcess.cpp`, `Application::testRun`) | `m_testProcess`, a reader thread and message queue per test, a TimerActionKill per test | `testRun`, `getTestOutput`, `monitorThread` | REST threads request and poll, the reader thread fills the queue, the main thread kills |
| daily range and zones (`AM/DailyLimitation.cpp`, `common/TimeZoneHelper.cpp`, `common/Utility.cpp`) | start and end of the range | `FromJson`, conversion to host time, `AsJson`, `isInDailyTimeRange` | asked by `invoke` and `invokeNow`, saved with the registry |
| daemon start-up (`AM/main.cpp`) | none of its own | read the file, open the listener, list processes, `attach`, run the io_service | all of the above, once |
| REST interface (`AM/RestHandler.cpp`) | none | dispatch of GET, PUT, POST, DELETE, check of the token | calls the registry and the applications |
| resource limits (`AM/LinuxCgroup.cpp`, `ResourceLimitation.cpp`) | a cgroup directory per process, `m_processIndex`, the statics `retrieved` and `cgroupMemRootName` | `setCgroup`, `setPhysicalMemory`, `setSwapMemory`, destructor | called by `spawnProcess`, in any thread, without a mutex |
| resource collection (`AM/ResourceCollection.cpp`) | one object with the host's addresses and a mutex | `getHostResource`, `AsJson` | asked by REST threads |
| command line client (`CommandLine/ArgumentParser.cpp`) | a static list of names, the parsed options | reg, unreg, start, stop, restart, test; view, resource, config | several requests per command, among those of other clients |
| utilities, watchdog scripts, vendored `/proc` inspection | none that others depend on | read, format, restart | - |

### Threads and locks

* The **main thread** runs one io_service: `monitorAllApps` every
  `ScheduleIntervalSec`, `TimerAction::onTimeOut` and `TimerActionKill::onTimeOut`,
  one callback at a time.
* **REST threads** run the handlers, at any moment, several at once.
* Each application has a recursive mutex, taken *per section*: `invoke()` takes
  it, gives it back and takes it again in `refreshPid()`;
  `TimerAction::onTimeOut` takes it in `isNormal()` and again in `invokeNow()`.
* The configuration has a recursive mutex around the list; `startApp()` and
  `stopApp()` look up under it, act without it and take it again to save.
* ResourceCollection has one recursive mutex; LinuxCgroup's statics have none.
* Objects are reference counted: the registry, a REST thread and a callback may
  each hold one; a TimerAction points at it weakly and deletes itself. Whoever
  drops the last reference runs the destructor, and `~MonitoredProcess` joins a thread.

### What is hard, and what correctness means

* *Long running applications.* The gap inside `invoke()`, failing forks, `kill(pid, 0)`
  that cannot tell a zombie or a recycled pid from the process. Correct: never two
  instances, never a process nobody holds, nothing running once stopped, back up
  when it should be up, a reported pid that is the held one or none.
* *Short running applications and timers.* `cancel()` that comes too late, a TimerAction
  that runs dry when the application is stopped and must be replaced by `start()`, the
  hand-over from `m_process` to `m_bufferProcess` to a TimerActionKill, and objects
  that die while a callback is queued. Correct: `m_timer` never dangles, a NORMAL
  application always has an invocation coming, every process is current or has its kill,
  nothing cuts the extra time short.
* *Registry.* Lookup and call in two steps, objects made before the lock is taken,
  a save that reads applications one by one, failing and torn writes, crashes. Correct: one
  object per name, no acknowledged change lost from the file, nothing started that is registered as STOPPED but by a
  TimerAction callback that was under way when it was stopped.
* *Locks.* Application mutexes are taken inside the configuration's, by three threads in three
  ways; a destructor may wait for a thread, under any of them. Correct: no threads wait
  for each other, and no thread waits for a program to exit of itself.
* *Test runs.* `testRun()` and `getTestOutput()` take no mutex and read `m_testProcess` at every step; the reader
  thread, the pollers and the kill timer race, and an interrupted `wait()` leaves a zombie that still counts as
  running. Correct: every program under test has its kill, one runs at a time, the client's loop ends unless such a zombie
  is left, only the full queue drops lines.
* *Resource limits.* Statics that one thread tests, sets and fills while others do the same or read them, lookups and
  `mkdir()` that fail, the order of two limits, numbers that do not fit, directories that outlive their process. Correct: once the
  hierarchy is found a program runs under its application's limit, in a group of its own.
* *Client.* A command asks, confirms and acts in several requests, and others act in between. Correct:
  a command that reports no failure has done what it says, and nothing is replaced unasked.
* *Start-up.* Survivors of a crash are known by command line only, requests arrive before they have been found, and the
  next crash may come in between. Correct: every survivor is held again, and none is started twice.
* *Times.* Ranges over midnight, zones that move an end to another date, files that are
  read again after having been converted, whole-second waits, late callbacks.

`PROJECT.json` lists every one of these hazards at its line, with the property that
watches it or the reason why none does yet.

## 2. Modules

```
OsProcess            process table: spawn, kill, wait, running
  |-- Application    long running applications, monitor, REST  --implements-->  Supervision
  |     |-- Startup  the daemon from one start to the next: file, listener, attach, crash
  |-- ShortRun       short running and periodic applications with their timers
Configuration        list, locks, file, REST threads, crash and restart
Locks                every handler's mutexes, references, destructors and joins
TestRun              test runs, reader threads, the client that polls
Client               the client's commands among those of others
Limits               cgroups of processes, looked up and written by several threads
Daily                daily range through conversion, file and restart
Interval             clock arithmetic of TimerAction and TimerActionKill
OsProcessProofs <- LongRunProofs (Application, Startup), ShortRunProofs
ConfigurationProofs   LocksProofs   LimitsProofs
CommandProofs (TestRun, Client)   ClockProofs (Daily, Interval)
```

`OsProcess` is shared by EXTENDS, so an application handler that kills and then spawns
is one composition of functions on the table. The other modules are separate
machines: what one of them needs of another is reduced to the part its
properties see, and section 5 says what that leaves out. `Supervision` is the
abstract specification of the system's core promise; `Application` implements it
under `up <- Live(a) # {}`.

### OsProcess

`proc[p]` is `[st, own]`: *child* (ours, running), *zombie* (ours, exited, not
waited for), *alien* (running, not our child: an attached process or anybody else's)
or *free*. `Running` is ACE's `kill(pid, 0)`: it is true of zombies and of
recycled pids. `AfterKill` is `Process::killgroup`: SIGKILL and wait; when
signals interrupt both waits a zombie stays. `Fresh` gives the pids `fork` may return:
with `PidReuse` also those that the daemon still remembers.

### Application and Supervision

One action per section under the application's mutex:

| action | code |
|---|---|
| `MonitorInvoke(a)` then `MonitorRefresh(a)` | `Application::invoke()` in `monitorAllApps`: spawn or kill under the mutex, then `refreshPid()` under it again |
| `Start(a)` then `StartRefresh(a)` | `start()`, which holds the mutex over both halves (`starting`) |
| `Stop(a)` | `stop()`: STOPPED, `killgroup` |
| `Tick` | the monitor timer: a new round over all applications |
| `Exit`, `Foreign`, `Clock(a)` | a program exits, another host process starts, the time of day enters or leaves the range |

`childId` is `m_process->getpid()`, `mPid` is `m_pid`. Failed forks are the `NoPid`
choice of `SpawnIfDown`. Initially each application is NORMAL or STOPPED and NORMAL ones may have been
attached to a surviving process.

### Startup

Composes `main()` with all of `Application`: its monitor takes part from the first
round on (`phase = "run"`), its REST threads from the moment the listener is open
(`"listen"`), which is before the processes of the host are listed (`"attach"`) and before
each application is attached.

| action | code |
|---|---|
| `CrashRestart` | the daemon dies anywhere, the init process adopts its children, the watchdog starts another, which loads the file |
| `ListProcesses` | `getSymProcessList()`: command line to pid; of several processes with one command line any may be the one listed |
| `Attach(a)` | `Application::attach()`: looks up its command line, takes the pid and erases the entry |
| `FirstRound`, `Monitor` | `monitorAllApps`, from `main()` and then from its timer |
| `StartOrStop(a)`, `FinishStart(a)`, `Save` | requests, and the save they end in |

`disk` is the file, `touched` remembers the applications that a request reached before their `attach()`,
`Lookalike` are command lines that processes of others on the host may have.

### ShortRun

One object from `parseApp()` to its destructor, with every TimerAction it ever
makes. `main.pc` is where the main thread's callback is between two mutex
sections; a TimerAction is *armed*, *due* (expired, handler queued: `cancel()` comes too late), *aborted*
(cancelled, handler queued), *handling*, *idle* (allocated, nothing pending) or *free*.
`InvokeNow` is the whole of `invokeNow()`; `kills` are the pids of pending
TimerActionKill objects. `Released` is what happens when the last reference goes: the
destructor cancels `m_timer`. `kind` tells short running from periodic applications, and those with extra time
from those without.

### Configuration

`at[t]` is where a REST thread is: before the call on the object it fetched, before
`addApp` takes the lock, before the lock for the save, or in the save. A save is one
step per application read (`ReadApp`) and one for the file, with `m_mutex` held. `Delete` is the last
`shared_ptr` going: the process goes on running without an object (`stray`).
A write leaves the file whole, leaves none (it could not be opened or renamed) or leaves
a torn one (`TornWrite`: the stream is not checked before the rename). `running` is an application's current process; one on its
extra time is ShortRun's. `TimeOut(o)` and `InvokeNow` are the two mutex sections of `TimerAction::onTimeOut` (`isNormal()`, and
`invokeNow()` for `due`, whatever has become of it since); they exist if some applications are short running (`ShortRunning`). `CrashRestart` keeps processes
and file, loses all else, and loads the file; from a torn one no daemon comes up, so it waits for a
whole one.

### Locks

A handler is a program: `prog[t]` is the sequence of the operations thread `t` has still to do. Each says what it does, on what,
and under which mutexes (`in`); a thread has the mutexes of its next operation (`Held`), so that a recursive mutex needs no
count and giving it back no step. An operation that locks waits until no other thread has the mutex (`Free`), and then puts the operations of
the section in its place, under that mutex and those it was under itself (`Section`, `Under`). A walk over the
list (`Json`, `Find`, `Add`, `Remove1`) becomes one `Call` for each application it reads; a call is two steps, `Method` takes the application's mutex and
`Body` gives it back. `LetGo` is a `shared_ptr` going: the last one takes the object, and a test without
a TimerActionKill is joined on the spot. `writers` are the tests whose process group holds the pipe open, `keeper` those
held open by a descendant that left the group. Requests: `Get`, `Put`, `Post`, `Delete`; the main
thread: `Monitor`, `TimeOut`, `KillTimeOut`. The addresses of ResourceCollection are `Clear`, `Fill` and `Report`.

### TestRun

`testRun()` step by step: `Enter`, `KillOld`, `Make`, `Pass` (the argument of `spawnProcess()`, kept in `arg`
while it waits for the mutex), `SetTimer` and `Answer`, each a read of `m_testProcess`, with `Spawn` between them, which fails before or after the reader thread was started. `asks` are
the clients in the loop of `ArgumentParser::processTest()`; `Check` or `Refuse`, `Fetch` and `Reply` are the reads of `getTestOutput()` that serve one, and
`poll` is how far it has come. Each read finds whatever `m_testProcess` is by then, so that a poll of a replaced test drains the queue of the new one.
`ReadLine` is `monitorThread()` with its queue limit; `KillTimeOut` is TimerActionKill. `Killed` is `Process::killgroup`: with
`Interrupts`, signals may end both waits and leave a zombie, for which `kill(pid, 0)` succeeds. Lines are numbers, so a queue says which lines it holds.

### Client

`where` is where the client's command is: asking whether the application exists, asking the user, sending its one request,
fetching a list, posting to the applications in `todo`, or done. A request is served, refused for its token, or throws, with or without
having been served. `before` and `touched` remember the registry when the command began and what others changed since.
`Other` is another client's request.

### Limits

A Process with its LinuxCgroup goes, beside others that do the same, through

| action | code |
|---|---|
| `Spawn` | the fork, `++m_processIndex`, and what the constructor makes of its arguments |
| `Ask`, `SetRetrieved` | the test of the static `retrieved`, and its assignment: several threads may pass the test |
| `Find`, `CheckSwap`, `Base` | the lookup of the hierarchy, which may fail and then leaves `root` alone; the test for the swap file, done with what `root` is; the base directory appended to it |
| `Path`, `Mkdir`, `MkdirFails`, `WriteLimit`, `WriteSwap` | `setCgroup()` and the two limits, each with its directory |
| `Release` | the destructor, which removes the directory if nobody runs in it |

`Torn` is a string read or assigned while another thread assigns it. `held` is history: whether something on a process's way has cost it its limit (a path built while
somebody was still looking, a failed `mkdir()`), or the limit of memory and swap (lookups that overlap). `group` and `member` are the kernel's side: a limit below zero, above the limit of memory
and swap, or the latter below the former, is refused. `Printed` is `"%I64d"` of a number of bytes, in MB: its low 32 bits. A program that has exited may leave descendants (`left`).

### Daily and Interval

`Daily` counts moments of one date; a conversion subtracts the offset of the zone and may leave
`0..Day-1`, and `AsJson` keeps the time of day only, as `convertDayTime2Str` does.
`Interval` counts ticks, `Second` of them to a second, because TimerAction cuts its
first wait to whole seconds. `late` is the bound on the lateness of callbacks that the host keeps, any of `Lateness`; `fired` counts
the invocations of the present TimerAction and `Point(n)` is when its n-th is due.

## 3. Runs

All numbers are TLC's distinct states. Symmetry is used in runs without liveness only.

| run | question | bounds | states |
|---|---|---|---|
| `application` | Is there one supervised instance each, none when stopped, is every kill justified, does it all implement `Supervision`; are applications brought back, taken down out of range, do stopped ones settle? | 2 applications (one with a daily range), 3 pids, interrupted waits, 1 foreign process | 32,436 |
| `startup` | Is every survivor found again, and is there never a second instance, through crashes at any moment? | 2 applications with command lines of their own, one of which others use too, 3 pids, pids recycled, 1 foreign process | 1,116,356 |
| `short_run` | Do timers, buffered processes and objects stay consistent through start, stop, remove and every gap in a callback? | 3 pids, 2 TimerAction objects at a time, all four kinds of application, interrupted waits | 1,500,506 |
| `short_run_live` | Does a NORMAL application run again and again? | 2 pids, 2 TimerAction objects, no extra time | 70,764 |
| `configuration` | Are names unique, does the file follow the list, is nothing started that is STOPPED, through crashes, failing and torn writes? | 2 threads, 2 names, 2 objects, short running applications among them | 2,083,093 |
| `configuration_remove` | violation: is a removed application down? | 2 threads, 1 name, 3 objects | - |
| `locks` | Do threads ever wait for each other, does a join wait for a living test, are addresses reported half collected? | 2 REST threads (one asks for view, resources, test, put, start, the other for resources, output, delete), the main thread, 1 name, 2 objects, 2 tests | 588,176 |
| `test_run` | Is each test killed, one at a time, is its output kept, and does its client's command end? | 1 request at a time, 2 objects, 3 lines, queue of 2, interrupted waits | 576,906 |
| `client` | Does a command do what it says, and nothing that it does not ask? | 2 names | 42,394 |
| `limits` | Does a program run under its limit, in a group of its own? | 2 names, 2 objects, 2 processes, 2 limits, indexes up to 2 | 3,491,845 |
| `daily` | Is the range honoured at every moment? | a day of 6 moments, zones from -2 to 2, all ranges | 7,992 |
| `interval` | Do invocations stay on their grid, and buffered processes single? | seconds of 2 ticks, interval 3 s, extra 2 s, late by up to 1 or up to 13 ticks, horizon 26 | 360,341 |

Why the bounds are enough. *Application*: interference needs two applications, and the third pid lets
one of them have a new process, a zombie left behind, and somebody else a process. Its pids are not recycled, because `KillJustified`
fails if they are; the safety properties are proved with recycled pids as well, and *Startup* runs with them. *Startup*: the same, with a
command line that is unique and one that is not; the number of crashes is not bounded. *ShortRun*:
two TimerAction objects are the one cancelled too late and its
successor, and three pids are the current process and two with a
TimerActionKill. *Configuration*: two threads race for one name or for two; the second object is the one that
replaces an object another thread has fetched. *Locks*: a cycle of waiting needs two threads, and the main thread is
a third; every kind of section is asked for by one thread while another is in a walk over the list or in the resources, and two objects of
one name are the old one and its replacement, each with a test. A second name would only lengthen the walks. No thread asks for a stop in the
run, which does to the mutexes what a start does but for the order in which it saves and drops; the proofs have all requests in all threads. *TestRun*: a test, its
successor, which is also what a poll of the first may meet between two of its reads, and a program that prints one line more than the queue holds. *Client*: a restart of all needs an application that
is stopped and one that is not. *Limits*: two processes share a directory or the lookup; an index that restarts needs a second object or a
restart; of the limits, one is virtual memory alone, so that both files are written, and the other, of 2 MB with 4098 MB of virtual memory, is
below the smallest and needs a swap limit that does not fit. *Daily*: six
moments have room for a range on either side of midnight, moved by a zone in
either direction. *Interval*: an interval of three seconds is not a multiple of the extra time, and
two ticks to the second (`clock` counts ticks) are the least for which cutting to whole seconds loses
something; 26 ticks are four intervals, and a callback late by up to 13 may miss two invocations and a TimerActionKill in between, while one
late by 1 leaves room for `OneBuffered`. Deadlock is checked in every run except `interval`, where time stops at `Horizon`, and
`limits`, where indexes run out.

### What each property is for

* `Supervised` (Application): every unreaped process of an application is the one it holds.
  `StoppedNotRunning`: after `stop()` returned nothing runs, wherever the
  monitor was. `ReportedPid`: clients never see the pid of an earlier process.
  `KillJustified`: a running child is killed only because its application is stopped or out of range.
* `ImplementsSupervision`: whatever `Application` does, seen as up or
  down, is a step of `Supervision` - an instance only comes up for its own
  NORMAL application and is down in the step that stops it.
* `KeepsRunning`, `KeptOutOfRange`, `StopSettles`: under fairness an application that should be up comes
  up again and again, one out of range goes down for good, a stopped one is reaped and shows no pid.
* `OneInstance`, `Readopted` (Startup): an application whose command line no other process has, and that no
  request reached before `attach()`, has at most one process at any time and holds it once attached. Both
  conditions are needed: two applications with one command line exchange their processes, a lookalike is
  attached in place of the survivor, and a `start()` between the listener and `attach()` spawns a second
  instance, or a process that `attach()` then forgets (`AM/main.cpp:41-46`).
* `TimerAlive`: `m_timer` is never a TimerAction that has deleted itself.
  `NeverUnscheduled`: a NORMAL application has an invocation coming. `Supervised`
  (ShortRun): a live process is current or has its kill. `GraceRespected`: only
  its exit or its own TimerActionKill ends a process on its extra time, and the
  latter does end it. `RunsAgain`: see `short_run_live`.
* `UniqueNames`, `DiskCoherent` (Configuration): as in section 1. `DiskCoherent`
  excuses a name whose entry in the file is behind only while the request that changed it is unanswered, or after a failed write;
  requests for other names, and saves begun before the change, are no excuse.
  `StoppedStaysDown`: only a restarted daemon, which finds a survivor, and a TimerAction that had found the application NORMAL before it was
  stopped give a registered STOPPED application a process; no request and no round of the monitor does, whatever they had read before.
* `NoDeadlock` (Locks): of any set of waiting threads one waits for none of the others. `JoinsTheDead`: a thread waits for
  a test's reader only when the test's process group is gone. `ReportsWhole`: no answer shows addresses half collected.
* `Capped` (Limits): once the hierarchy has been found, a settled program has the limit its application asks for, and is in its own directory, unless its
  application's name was used before, the number does not fit, a `mkdir()` failed, or it built its path while another thread was still after the
  hierarchy. Having begun or ended among other lookups, with or without success, is no excuse otherwise. `OwnGroup`: two programs share a group only after a replacement or a restart.
* `DoneAsAsked` (Client): a command that ends without a refusal has done what it says to everything others left alone.
  `AskedFirst`: without `--force` nothing is replaced or removed unasked, except what others registered after the list was fetched.
* `LinesKept`: the queue holds the last lines read, in order, and below its limit nothing
  between client and queue is missing, whoever was handed it. `TestKilled`: a program under test has its timer, though waits for it be interrupted. `OneTest`: a new test
  takes down the program of the one before, of which a zombie at most is left.
  `ClientEnds`: the client's loop, which has no condition, ends, unless its test is a zombie that its TimerActionKill has left (`Left`):
  `kill(pid, 0)` succeeds for that until another test takes its place, and the client polls on. `TestEnds`, that every other test is reaped, holds too
  and is not among the runs.
* `HostZoneHonoured`, `SameDateHonoured`: the monitor's test agrees with an
  independent cyclic definition of "within the range". `OnGrid`: every point of the grid that is past by more than the host's lateness has had
  its invocation, and none was early; those missed by a late callback are made up for. `FutureStart`: the start time
  is met to a second. `OneBuffered`: extra times do not overlap, if the extra time and the lateness together are below the interval.

### Disagreements between code and documentation

The violation run shows behaviour that contradicts what the repository says: in `configuration_remove`, `startApp()` fetches an object, `removeApp()` stops
and drops it, and `start()` then spawns a process for an object about to be deleted.

Further properties are stated in the modules and violated, without a run of their own.

* ShortRun: `StopTakesEffect` (`TimerAction::onTimeOut` asks `isNormal()` and then calls `invokeNow()`, which does not ask
  again: a `stop()` between the two is followed by a spawn, and a second `stop()` does nothing), `OneTimer` (a TimerAction cancelled
  too late fires beside its successor), `RemovedNotRunning` (a process of a removed application whose TimerAction is gone),
  `TimerDeleted` (an idle TimerAction is never deleted).
* Configuration: `StopStops` (a STOPPED application with an attached or spawned process is not stopped by `stop()`).
* Startup: `StoppedRunsNothing` (a STOPPED application is given its survivor by `attach()`, and nothing stops it).
* TestRun: `OutputBeforeEnd` (the last lines may be lost when the test ends between the fetch and `running()`, or go to the client of the
  test before, whose poll had passed the test of the uuid). With two
  requests at a time `TestKilled` is violated too, since one request's test gets the other's timer, and so is
  `JoinsTheDead` in Locks (`Together = TRUE`): the test without a timer is one that a destructor waits for.
* Limits: `VirtualHeld` (`memory_virt_mb - memory_mb` is written as the limit of both together; for 200 and 300, the example of
  `README.md:129-130`, the kernel refuses it, and memory and swap together are not limited to the `virtual memory limit in MByte` of `CommandLine/ArgumentParser.cpp:129`).
* Client: `PromptIsServed` (`common/Utility.cpp:261` lets `mktime()` take the client's time as winter time, so that `AM/RestHandler.cpp:314` refuses every
  token in summer) and `RestartKeepsStopped` (`ArgumentParser.cpp:85`: the second half of a restart of all starts what was stopped before).
* Daily: `RangeHonoured` for zones that move an end to another date, and `RangeSurvives` (the range is saved converted, beside
  the zone, and converted again by the next daemon).
* Interval: `Aligned` and `NotBeforeStart` (remainder instead of the rest of the interval, and whole-second cuts).

## 4. Fairness

* The io_service is run by one thread that does nothing else: timers that expired are served (`Tick`,
  `HandleDue`, `KillTimeOut`), strongly fair where a callback may have to wait for another.
* A thread that holds or waits for a mutex gets on: weak fairness for steps in a
  section, strong fairness for taking a mutex that others take again and again.
* `fork()` does not fail for ever (`SpawnSucceeds`).
* In ShortRun timers expire (`Expire`), except for periodic applications: their restart must
  come from the monitor, which is what `RunsAgain` shows for them.
* In TestRun a request that was taken sets its timer (`SetTimer`), and the client polls each second until it is refused, as its loop
  does (`Check`, `Fetch`, `Reply`, `Refuse`). Nothing makes a wait succeed, so `ClientEnds` names the zombie. `MaxLines` bounds what a program prints: one that prints for ever keeps its client for ever, if a descendant survives the kill.
* Otherwise nothing is assumed of clients, programs, the daily range, or a request that has not taken effect yet.

## 5. Abstractions

* `m_return`, memory, users, directories, environment variables and versions do not influence any transition
  modelled here and are left out.
* Application starts with attached applications NORMAL. `attach()` does not look at `m_active`, so
  a STOPPED application can be given a process; that case is in Startup and in `CrashRestart` of Configuration.
* Startup has long running applications only, and a fixed set of them; the list of processes is one step, since a survivor that
  is there throughout is listed whenever it is read. A spawned process is assumed to show the command line it was started with.
  `Save` is one step: Configuration has the save in detail.
* Cgroups, which `spawnProcess` sets up through `setCgroup`, are in Limits only. CPU shares, written in the same way, are left out.
* A round of the monitor covers all applications; it works on a copy of the list, and Configuration
  and ShortRun show the copy (`walk`, `main.ref`) getting out of date.
* ShortRun takes pids that are not recycled (`~PidReuse`), so that a pid names a `Process` object, and one object;
  `LookupFound` and `LookupFails` are the two answers the list may give `ApplicationPeriodRun::refreshPid`.
* Configuration reduces an application to active and whether its current process runs; what `invoke` does in detail is Application's and
  ShortRun's. Any NORMAL application may be short running there (`ShortRunning`), and its TimerAction is due at any moment. A TimerAction that is due
  for an object that the list has dropped is held by `due` until it is through. `configuration_remove` is without TimerActions: the violation needs none.
* Crashes are whole-daemon crashes between steps; a file write is one step with three outcomes, since `rename()` is atomic.
* The run of TestRun has one request at a time: two are undefined behaviour of the shared `m_testProcess`. So is, strictly, a poll that reads the `shared_ptr` while
  a request assigns it; the model takes that read to give the old or the new object. The destructor's join and
  descendants that hold the pipe are in Locks.
* Locks makes every application periodic, because those lock most, and leaves out what handlers do to processes other than tests. A
  descendant that keeps a pipe open outside its process group blocks whoever joins, and all who wait for that thread's
  mutexes: `JoinsTheDead` has the group only, and `erase()` does join under the configuration's mutex. The second `fclose()` of a pipe's descriptor is not
  modelled, and neither are descriptor numbers.
* Client reduces the daemon to its registry, which a request changes in one step; tokens are their age and the season. The text of replies is left out,
  so the missing `else` in `handle_get` (`AM/RestHandler.cpp:96`), which replies twice, is not visible.
* Limits takes a string read or assigned while another thread assigns it to be what it should be or a path that leads nowhere; that the
  daemon may crash is left out. Files in a group that exists can be opened and written, unless the kernel refuses the number. Whether there is a swap file below the mount point
  (`depth > 0` in `FileExists`) depends on earlier directories and is a free choice. That an Application object goes is no step: it starts nothing more.
* Daily has one offset per zone: no daylight saving time. Interval is the undisturbed application, on a
  host that keeps one bound on lateness.

## 6. Proofs

TLAPS checks every statement below, for all values of the constants that satisfy the modules' ASSUMEs (which only
say that the null values are not members of the sets, that bounds are numbers and, in Limits, that objects are finitely many), and of those that a
theorem states itself.

* **OsProcessProofs** - what `AfterKill`, `Reaped`, `Spawned` and `Exited` do to a table. All later steps about processes cite these.
* **LongRunProofs** - of Application: `TypeCorrect`, `SupervisedAlways`, `StopIsEffective`, `ReportedPidAlways`. The inductive invariant is
  `TypeOK /\ FreeUnowned /\ Supervised /\ StoppedNotRunning /\ ReportedPid`. `StoppedNotRunning` needs `Supervised`, because `stop()` kills only the pid
  the object holds; `Supervised` needs the guard `~Running(childId[a])`, which refers to the same pid; `FreeUnowned` ties
  the table to both. `Refinement`: the initial states map to initial states of Supervision, and every step to a step or a stutter.
  `KillsAreJustified`, under `~PidReuse`: one more invariant, that no two applications hold one pid (`HeldApart`), which is what
  recycling breaks.
  Of Startup: `StartupTypeCorrect`, `NeverTwice`, `ReadoptedAlways`, with any number of crashes. The inductive invariant `UInv` says of
  every undisturbed application that, until it is attached, it has at most one process, which is not this daemon's child and which
  the list of processes names (`Awaited`), and that afterwards every process it has is the one it holds (`Held`); `Phases` says that the
  monitor starts when nobody is awaited any more. A survivor has to be an alien, because as this daemon's zombie it would not be
  listed. `Shrinks` gathers the steps that only take processes away; `InvokeSafe` is the one that adds one.
* **ShortRunProofs** - `TypeCorrect`, `SupervisedAlways`, `TimerNeverDangles`, `AlwaysScheduled`, `ExtraTimeRespected`, for any pids, TimerAction objects and kinds of
  application. The inductive invariant adds to the properties `HasRef` (a callback between two sections holds the object), `NewIsEmpty` (before `initTimer` there is no process),
  `CurApart` (the current process has no TimerActionKill, so that a kill never hits it) and `TimerKept`, which has both `TimerAlive` and `NeverUnscheduled`. `Shrinks` covers the steps
  that only take processes away, `Grace` the extra time, `Quiet` the steps that leave the timers alone.
* **ConfigurationProofs** - `TypeCorrect`, `NamesStayUnique`, `FileFollowsList`, `StoppedDownAlways`, with or without crashes, failing and torn writes. The
  invariant adds to `DiskCoherent` what a save has read so far: `LeftInList` (it reads the list it locked), `DraftCoherent` (what it has read, with what it will
  read, is what the list says of a name, unless somebody owes a save for that name), `DraftOnce` (a name is written once, so a restart can load the file), and what
  threads hold (`ThreadsHold`, `Allocated`, `RunAllocated`). `FilesKept` covers the steps that leave list and file alone, `OneName` those
  that change the list: of one name, whose request is then unanswered. `StoppedDownAlways` needs besides that an object not yet in
  the list is its maker's alone, except for its TimerAction, which may have started it as the NORMAL application it is (`OwnNew`).
* **LocksProofs** - `TypeCorrect`, `NeverDeadlocked`, `AlwaysReportsWhole`, for any threads, requests, names, objects and tests, and
  `AlwaysJoinsTheDead` while one test is requested at a time (`~Together`). What a program may look like does not depend on the state: `Sound` says that
  an operation that waits is under the configuration's mutex or none, that one section of the list has one change in it, and in which order the parts of a
  test and the drop of a reference come. A step puts other operations in the place of the first, which keeps the program sound if they
  fit it (`Fits`, `StaysSound`); every action is then one lemma about what it puts there. `Pending` relates programs and registry (what a section has in mind to
  do to the list can still be done), `NamedOnce` and `Tested` programs and tests (a test has an owner until it is joined, and is joined once), `OneAtATime`, under
  `~Together`, ties a living process group to its timer. `NoDeadlock` follows: a thread that waits has the configuration's mutex or
  none, so that of the threads that wait only one can keep others from going on, and that one waits for none of them.
* **LimitsProofs** - `TypeCorrect`, `LimitHolds`, `GroupsApart`, for any names, objects, processes, limits and bound of the index. `Counted` says
  that the indexes of an object's processes differ and that it has counted them, `Made` that directories have been made only for counted indexes, so that `++m_processIndex` always
  finds a new one (`NewDirectory`) as long as no second object has the name (`OnlyOne`); `Mine` and `Alone` that nobody else is in it. `Lookup` is about the statics:
  who has missed the hierarchy, or the file for the swap limit, without an excuse in `held` (`Short`), has missed it for good, because `retrieved` is set, nobody else is still looking and
  `root` leads nowhere (`NeverFound`); so once the hierarchy is found nobody is short. It holds through `Torn` reads because these happen only beside another who is looking
  (`TornFacts`), which is the excuse. `Stages` says how far each program is on its way,
  from a directory that is not there to both limits written: the limit of memory before that of memory and swap, which the kernel accepts in this order only.
  Each step moves one process on its way to the directory (`EarlyKeeps`) or in it (`MoveKeeps`), removes only what nobody is in (`Quiet`), or starts one.
* **CommandProofs** - of TestRun: `TypeCorrect` and `OutputKept` for any number of requests at a time, `TestsAreKilled` and `OneAtATime` for one at a time,
  which is where the code fails otherwise. `HasTest` says that whoever reads `m_testProcess` on its way finds an object, `OnlyCurrent` that only the program of the current object runs,
  and none while it is being replaced, with waits interrupted or not. Of Client: `ClientTypeCorrect`, `CommandsDo`, `NothingUnasked`, for any names. `Ways` ties the half of a restart to the command, `StaysRegistered` says that nobody but others
  removes what the command began with, `SeenTo` that what is no longer in `todo` is in the state asked for, `MaySend` that the user was asked.
* **ClockProofs** - of Daily: `TypeCorrect`, `SameDate`, `HostZone`, for every length of the day and every zone. `FromMoments` says that what
  is in memory came from times of day; `InStep`, that without a zone memory, file and user agree. Of Interval: `IntervalTypeCorrect`, `StaysOnGrid` and
  `MeetsFutureStart`, for any interval, extra time and lateness, from lemmas about quotient and remainder: the next invocation is due at the point of the grid whose number is that
  of the invocations so far (`NextPoint`), and time does not pass it by more than the lateness. `ExtraTimesApart`, also for all of them: if the extra time and the
  lateness together are below the interval, a kill is due at most both after its invocation (`BeforeNext`), which is before the next, and no two kills of one
  TimerAction are pending together (`Apart`).

Only model-checked, because they are liveness, which is out of TLAPS's reach: `KeepsRunning`, `KeptOutOfRange` and `StopSettles` of Application, `RunsAgain` of
ShortRun, `ClientEnds` of TestRun. Every other property of a passing run is stated by a theorem.

## 7. Not modelled, and the plan

Modelled so far, in this order: processes and long running applications with their abstract specification; short running
applications and timers; the registry with file, locks, torn writes and crashes; test runs with their clients; the two kinds of clock arithmetic; the start-up with
crashes and survivors; the mutexes, destructors and joins of all handlers; the cgroups; the client's commands.

Next, in the order of importance:

1. *REST dispatch*: one reply per request, and what a handler that throws replies.
2. Conversion of the start time on reload, and daylight saving time in Daily.
3. Abstract specifications for the timer of a short running application (one invocation per interval) and for the registry (a
   map that survives), with refinements.
4. Proofs of those refinements.
5. CPU shares in Limits.

Left out for good: view, resource and config of the client, which only print; logging and string helpers; the details of
the service scripts (a restart by the watchdog at any moment is `CrashRestart`) and of `/proc` inspection; TLS and the HTTP library.
