-------------------------------- MODULE Locks --------------------------------
(***************************************************************************)
(* Who waits for whom.  The daemon has a recursive mutex for the           *)
(* configuration, one for each application object and one for the host's   *)
(* resources; REST threads and the main thread take them one inside the    *)
(* other.  ~MonitoredProcess waits for the thread that reads the test's    *)
(* pipe, and runs wherever the last reference is dropped: in the main      *)
(* thread, in a REST thread, or under the configuration's mutex.           *)
(*                                                                         *)
(* A handler is a program: the sequence of the operations it has still to  *)
(* do, each with the mutexes it does it under.  A thread has a mutex while *)
(* the next of its operations is under it.  A walk over the list of        *)
(* applications is spelled out when the thread enters the section it is    *)
(* in.  Sections of one mutex that follow each other are one, and every    *)
(* application is a periodic one, whose handlers lock most.                *)
(***************************************************************************)
EXTENDS Integers, Sequences, FiniteSets

CONSTANTS
    Rest, Main,     \* threads: REST handlers (bound) and the main thread
    Conf, Res,      \* the two mutexes that are not an application's
    Name,
    Ask,            \* bound: the requests every REST thread may serve
    Obj,            \* bound: Application objects that exist at a time
    Test,           \* bound: MonitoredProcess objects that exist at a time
    None,
    Together        \* may two test runs be requested at once?

Thread == Rest \union {Main}
Mutex == Obj \union {Conf, Res}

ASSUME LocksAssumption ==
    /\ Main \notin Rest
    /\ None \notin Name \union Test
    /\ Conf # Res /\ {Conf, Res} \intersect Obj = {} /\ None \notin Obj
    /\ Ask \in [Rest -> SUBSET {"view", "resources", "get", "output", "test",
                               "put", "start", "stop", "delete"}]
    /\ Together \in BOOLEAN

VARIABLES
    prog,       \* what every thread has still to do
    list,       \* Configuration::m_apps
    name,       \* m_name of every object; None when it is not allocated
    test,       \* m_testProcess of every object
    tests,      \* MonitoredProcess objects that exist
    timers,     \* those with a TimerActionKill
    writers,    \* those whose process group holds the pipe open
    keeper,     \* those whose pipe a descendant outside the group holds open
    addresses   \* is ResourceCollection's m_ipaddress filled?

registry == <<list, name>>
testing == <<test, tests, timers, writers, keeper>>
lvars == <<prog, registry, testing, addresses>>

-----------------------------------------------------------------------------
(* Programs.                                                                *)

Op(d, x) == [do |-> d, on |-> x, in |-> {}]

\* The operations p under the mutexes M.
Under(M, p) == [i \in DOMAIN p |-> [p[i] EXCEPT !.in = M]]

\* A method of an application, which takes its mutex and no other.
Call(o) == Op("call", o)
CallAll(s) == [i \in DOMAIN s |-> Call(s[i])]

\* getConfigContentStr(), getApplicationJson() and AsJson(), a section of Conf.
ReadConfig == Op("json", None)

FindFor(r, n, self) == Op("find", [for |-> r, name |-> n, self |-> self])

Operation ==
    LET Of(d, on) == [do : d, on : on, in : SUBSET Mutex]
    IN  Of({"call", "body", "invoke", "drop", "add", "append", "kill", "renew"}, Obj)
        \union Of({"json", "copy", "clear", "fill", "report"}, {None})
        \union Of({"find"}, [for : {"get", "output", "test", "start", "stop"},
                             name : Name, self : {None}])
        \union Of({"find"}, [for : {"refresh"}, name : Name, self : Obj])
        \union Of({"remove"}, Name)
        \union Of({"erase"}, Nat)
        \union Of({"replace"}, [at : Nat, by : Obj])
        \union Of({"spawn", "leave", "arm"}, [app : Obj, test : Test])
        \union Of({"join"}, Test)

Doing(t, d) == prog[t] # <<>> /\ Head(prog[t]).do = d
It(t) == Head(prog[t]).on

Held(t) == IF prog[t] = <<>> THEN {} ELSE Head(prog[t]).in

\* The mutexes are recursive: a thread may take those that no other has.
\* Mutant: the guard locks nothing.
FreeToAll(t, m) == TRUE
Free(t, m) == \A u \in Thread \ {t} : m \notin Held(u)

\* A thread's shared_ptr to o lives until it drops it; a test is also kept by
\* the spawnProcess() that has it as an argument.
Holds(p, o) == \E t \in Thread : \E i \in DOMAIN p[t] : p[t][i].do = "drop" /\ p[t][i].on = o
Spawning(p, x) == \E t \in Thread : \E i \in DOMAIN p[t] :
                      p[t][i].do \in {"spawn", "leave"} /\ p[t][i].on.test = x

InList(l, o) == \E i \in DOMAIN l : l[i] = o

TypeOK ==
    /\ prog \in [Thread -> Seq(Operation)]
    /\ \A t, u \in Thread : t # u => Held(t) \intersect Held(u) = {}
    /\ name \in [Obj -> Name \union {None}]
    /\ list \in Seq(Obj)
    /\ \A i, j \in DOMAIN list : name[list[i]] = name[list[j]] => i = j
    /\ \A o \in Obj : name[o] # None <=> InList(list, o) \/ Holds(prog, o)
    /\ test \in [Obj -> tests \union {None}]
    /\ tests \subseteq Test /\ timers \union writers \union keeper \subseteq tests
    /\ addresses \in BOOLEAN

\* A daemon with an empty configuration.
Init ==
    /\ prog = [t \in Thread |-> <<>>]
    /\ list = <<>> /\ name = [o \in Obj |-> None]
    /\ test = [o \in Obj |-> None]
    /\ tests = {} /\ timers = {} /\ writers = {} /\ keeper = {}
    /\ addresses = TRUE

\* The first operation makes way for p.
Continue(t, p) == prog' = [prog EXCEPT ![t] = p \o Tail(@)]

-----------------------------------------------------------------------------
(* std::lock_guard<std::recursive_mutex>: a section p that m guards.        *)

Section(t, d, m, p) ==
    /\ Doing(t, d) /\ Free(t, m)
    /\ Continue(t, Under(Held(t) \union {m}, p))

\* Mutant: the configuration is saved inside a method of the application.
BodySaving(t) ==
    /\ Section(t, "call", It(t), <<ReadConfig>>)
    /\ UNCHANGED <<registry, testing, addresses>>

Method(t) ==
    /\ Section(t, "call", It(t), <<Op("body", It(t))>>)
    /\ UNCHANGED <<registry, testing, addresses>>

Body(t) ==
    /\ Doing(t, "body") /\ Continue(t, <<>>)
    /\ UNCHANGED <<registry, testing, addresses>>

-----------------------------------------------------------------------------
(* References and destructors.                                              *)

(* Thread t drops its reference to o while the list becomes l.  The last    *)
(* one takes the object along, and with it a test that has no               *)
(* TimerActionKill: ~MonitoredProcess joins.                                *)
LetGo(t, o, l) ==
    LET last == ~InList(l, o) /\ ~Holds([prog EXCEPT ![t] = Tail(@)], o)
        orphan == last /\ test[o] # None /\ test[o] \notin timers
    IN  /\ list' = l
        /\ name' = IF last THEN [name EXCEPT ![o] = None] ELSE name
        /\ test' = IF last THEN [test EXCEPT ![o] = None] ELSE test
        /\ Continue(t, IF orphan THEN Under(Held(t), <<Op("join", test[o])>>) ELSE <<>>)
        /\ UNCHANGED <<tests, timers, writers, keeper, addresses>>

Drop(t) == Doing(t, "drop") /\ LetGo(t, It(t), list)

(* fclose() and join() both wait for the reading thread, which comes to an  *)
(* end when nobody holds the other end of the pipe.                         *)
Join(t) ==
    /\ Doing(t, "join") /\ It(t) \notin writers \union keeper
    /\ tests' = tests \ {It(t)}
    /\ Continue(t, <<>>)
    /\ UNCHANGED <<registry, test, timers, writers, keeper, addresses>>

-----------------------------------------------------------------------------
(* Inside the configuration.                                                *)

\* AsJson() and getApplicationJson(): AsJson() of every application.
Json(t) ==
    /\ Section(t, "json", Conf, CallAll(list))
    /\ UNCHANGED <<registry, testing, addresses>>

\* What a handler does with the application it has found.
After(r, o, self) ==
    CASE r = "get" -> <<Call(o), Op("drop", o)>>
      [] r = "output" -> <<Op("drop", o)>>
      [] r = "start" -> <<Call(o), ReadConfig, Op("drop", o)>>
      [] r = "stop" -> <<Call(o), Op("drop", o), ReadConfig>>
      [] r = "test" -> <<Op("kill", o), Op("renew", o), Op("drop", o)>>
      [] r = "refresh" -> <<Call(self), Op("drop", o)>>

\* Where the list has an application of name n; names are read up to there.
At(n) == {i \in DOMAIN list : name[list[i]] = n}

(* getApp() and tryGetApp().  Without the application the former throws,    *)
(* which ends the handler, and the latter returns nullptr, which does too.  *)
Find(t) ==
    /\ Doing(t, "find")
    /\ LET q == It(t) IN
        \/ /\ At(q.name) = {}
           /\ Section(t, "find", Conf, CallAll(list))
        \/ \E i \in At(q.name) :
            /\ Free(t, Conf)
            /\ Continue(t, Under({Conf}, CallAll(SubSeq(list, 1, i)))
                           \o After(q.for, list[i], q.self))
    /\ UNCHANGED <<registry, testing, addresses>>

(* addApp(): stop and replace the application of the new one's name, or     *)
(* registerApp(), which walks once more.                                    *)
Add(t) ==
    /\ Doing(t, "add")
    /\ LET o == It(t) IN
        \/ /\ At(name[o]) = {}
           /\ Section(t, "add", Conf, CallAll(list) \o <<Op("append", o), ReadConfig>>)
        \/ \E i \in At(name[o]) :
              Section(t, "add", Conf, CallAll(SubSeq(list, 1, i))
                                      \o <<Op("replace", [at |-> i, by |-> o])>>
                                      \o CallAll(SubSeq(list, i + 1, Len(list))) \o <<ReadConfig>>)
    /\ UNCHANGED <<registry, testing, addresses>>

Append1(t) ==       \* push_back
    /\ Doing(t, "append")
    /\ list' = Append(list, It(t))
    /\ Continue(t, <<>>)
    /\ UNCHANGED <<name, testing, addresses>>

Replace(t) ==       \* mapApp = app
    /\ Doing(t, "replace")
    /\ LetGo(t, list[It(t).at], [list EXCEPT ![It(t).at] = It(t).by])

\* removeApp(): stop and erase, if there is one.
Remove1(t) ==
    /\ Doing(t, "remove")
    /\ \/ /\ At(It(t)) = {}
          /\ Section(t, "remove", Conf, CallAll(list) \o <<ReadConfig>>)
       \/ \E i \in At(It(t)) :
             Section(t, "remove", Conf, CallAll(SubSeq(list, 1, i)) \o <<Op("erase", i)>>
                                        \o CallAll(SubSeq(list, i + 1, Len(list))) \o <<ReadConfig>>)
    /\ UNCHANGED <<registry, testing, addresses>>

Without(s, k) == SubSeq(s, 1, k - 1) \o SubSeq(s, k + 1, Len(s))

Erase(t) == Doing(t, "erase") /\ LetGo(t, list[It(t)], Without(list, It(t)))

-----------------------------------------------------------------------------
(* testRun(), which takes no mutex but inside spawnProcess().               *)

KillOld(t) ==
    /\ Doing(t, "kill")
    /\ writers' = writers \ {test[It(t)]}
    /\ Continue(t, <<>>)
    /\ UNCHANGED <<registry, test, tests, timers, keeper, addresses>>

\* m_testProcess = std::make_shared<MonitoredProcess>() may drop the old one.
Renew(t) ==
    /\ Doing(t, "renew")
    /\ LET o == It(t)
           old == test[o]
           orphan == old # None /\ old \notin timers /\ ~Spawning(prog, old)
       IN  \E x \in Test \ tests :
            /\ test' = [test EXCEPT ![o] = x]
            /\ tests' = tests \union {x}
            /\ LET spawn == Op("spawn", [app |-> o, test |-> x])
               IN  Continue(t, IF orphan THEN <<Op("join", old), spawn>> ELSE <<spawn>>)
    /\ UNCHANGED <<registry, timers, writers, keeper, addresses>>

\* spawnProcess(): a request whose fork fails goes without a timer.
Spawn(t) ==
    /\ Doing(t, "spawn") /\ Free(t, It(t).app)
    /\ LET s == It(t)
       IN  \/ writers' = writers \union {s.test} /\ Continue(t, <<Op("leave", s), Op("arm", s)>>)
           \/ UNCHANGED writers /\ Continue(t, <<Op("leave", s)>>)
    /\ UNCHANGED <<registry, test, tests, timers, keeper, addresses>>

\* Its argument is gone; if m_testProcess is another by now, so is the object.
Leave(t) ==
    /\ Doing(t, "leave")
    /\ LET x == It(t).test
           lost == test[It(t).app] # x /\ x \notin timers
       IN  Continue(t, IF lost THEN <<Op("join", x)>> ELSE <<>>)
    /\ UNCHANGED <<registry, testing, addresses>>

\* Mutant: the timer is forgotten when another test has one.
ArmFirst(t) ==
    /\ Doing(t, "arm")
    /\ timers' = IF timers = {} THEN {test[It(t).app]} ELSE timers
    /\ Continue(t, <<>>)
    /\ UNCHANGED <<registry, test, tests, writers, keeper, addresses>>

Arm(t) ==           \* new TimerActionKill(m_testProcess, timeoutSeconds)
    /\ Doing(t, "arm")
    /\ timers' = timers \union {test[It(t).app]}
    /\ Continue(t, <<>>)
    /\ UNCHANGED <<registry, test, tests, writers, keeper, addresses>>

-----------------------------------------------------------------------------
(* Inside ResourceCollection: AsJson() calls getHostResource() first.       *)

\* Mutant: getHostResource() does not lock.
ClearUnlocked(t) ==
    /\ Doing(t, "clear") /\ Continue(t, <<Op("fill", None)>>)
    /\ addresses' = FALSE
    /\ UNCHANGED <<registry, testing>>

Clear(t) ==         \* m_ipaddress.clear()
    /\ Section(t, "clear", Res, <<Op("fill", None)>>)
    /\ addresses' = FALSE
    /\ UNCHANGED <<registry, testing>>

Fill(t) ==          \* the loop over the links
    /\ Doing(t, "fill") /\ Continue(t, <<>>)
    /\ addresses' = TRUE
    /\ UNCHANGED <<registry, testing>>

Report(t) ==
    /\ Section(t, "report", Res, <<>>)
    /\ UNCHANGED <<registry, testing, addresses>>

-----------------------------------------------------------------------------
(* Requests.                                                                *)

InTest(t) == \E i \in DOMAIN prog[t] :
    \/ prog[t][i].do \in {"kill", "renew", "spawn", "leave", "arm"}
    \/ prog[t][i].do = "find" /\ prog[t][i].on.for = "test"

Begin(t, p) ==
    /\ prog[t] = <<>> /\ prog' = [prog EXCEPT ![t] = p]
    /\ UNCHANGED <<list, testing, addresses>>

\* A test needs an object of its own, in time.
MayTest ==
    LET now == {u \in Thread : InTest(u)}
    IN  (Together \/ now = {}) /\ Cardinality(now) < Cardinality(Test \ tests)

Get(t) ==
    /\ \/ "view" \in Ask[t] /\ Begin(t, <<ReadConfig>>)
       \/ "resources" \in Ask[t] /\ Begin(t, <<Op("clear", None), Op("report", None)>>)
       \/ \E n \in Name, r \in {"get", "output", "test"} \intersect Ask[t] :
            /\ r = "test" => MayTest
            /\ Begin(t, <<FindFor(r, n, None)>>)
    /\ UNCHANGED name

\* parseApp() makes the object, which gets its timer under its mutex.
Put(t) ==
    /\ "put" \in Ask[t]
    /\ \E n \in Name, o \in {p \in Obj : name[p] = None} :
        /\ Begin(t, <<Call(o), Op("add", o), Call(o), Op("drop", o)>>)
        /\ name' = [name EXCEPT ![o] = n]

Post(t) ==
    /\ \E n \in Name, r \in {"start", "stop"} \intersect Ask[t] : Begin(t, <<FindFor(r, n, None)>>)
    /\ UNCHANGED name

Delete(t) ==
    /\ "delete" \in Ask[t]
    /\ \E n \in Name : Begin(t, <<Op("remove", n)>>)
    /\ UNCHANGED name

-----------------------------------------------------------------------------
(* The main thread.                                                         *)

Monitor ==          \* monitorAllApps: getApps()
    /\ Begin(Main, <<Op("copy", None)>>)
    /\ UNCHANGED name

Copy(t) ==
    /\ Doing(t, "copy") /\ Free(t, Conf)
    /\ Continue(t, [i \in DOMAIN list |-> Op("invoke", list[i])]
                   \o [i \in DOMAIN list |-> Op("drop", list[i])])
    /\ UNCHANGED <<registry, testing, addresses>>

\* invoke() of a periodic application: refreshPid(), and then tryGetApp(getName()).
Invoke(t) ==
    /\ Doing(t, "invoke") /\ Free(t, It(t))
    /\ Continue(t, Under({It(t)}, <<Op("body", It(t))>>) \o <<FindFor("refresh", name[It(t)], It(t))>>)
    /\ UNCHANGED <<registry, testing, addresses>>

\* TimerAction::onTimeOut: m_app.lock(), isNormal(), invokeNow().
TimeOut(o) ==
    /\ name[o] # None
    /\ Begin(Main, <<Call(o), Op("drop", o)>>)
    /\ UNCHANGED name

\* TimerActionKill::onTimeOut, and "delete this".
KillTimeOut(x) ==
    /\ prog[Main] = <<>> /\ x \in timers
    /\ timers' = timers \ {x}
    /\ writers' = writers \ {x}
    /\ prog' = [prog EXCEPT ![Main] =
                   IF Spawning(prog, x) \/ \E o \in Obj : test[o] = x
                   THEN <<>> ELSE <<Op("join", x)>>]
    /\ UNCHANGED <<registry, test, tests, keeper, addresses>>

-----------------------------------------------------------------------------
(* Test programs.                                                           *)

Detach(x) ==        \* a descendant leaves the process group, with the pipe
    /\ x \in writers /\ keeper' = keeper \union {x}
    /\ UNCHANGED <<prog, registry, test, tests, timers, writers, addresses>>

Exit(x) ==
    /\ \/ x \in writers /\ writers' = writers \ {x} /\ UNCHANGED keeper
       \/ x \in keeper /\ keeper' = keeper \ {x} /\ UNCHANGED writers
    /\ UNCHANGED <<prog, registry, test, tests, timers, addresses>>

Step(t) ==
    \/ Method(t) \/ Body(t) \/ Invoke(t) \/ Drop(t) \/ Join(t) \/ Json(t) \/ Find(t)
    \/ Add(t) \/ Append1(t) \/ Replace(t) \/ Remove1(t) \/ Erase(t)
    \/ KillOld(t) \/ Renew(t) \/ Spawn(t) \/ Leave(t) \/ Arm(t)
    \/ Clear(t) \/ Fill(t) \/ Report(t) \/ Copy(t)

Next ==
    \/ \E t \in Thread : Step(t)
    \/ \E t \in Rest : Get(t) \/ Put(t) \/ Post(t) \/ Delete(t)
    \/ Monitor
    \/ \E o \in Obj : TimeOut(o)
    \/ \E x \in Test : KillTimeOut(x) \/ Detach(x) \/ Exit(x)

Spec == Init /\ [][Next]_lvars

-----------------------------------------------------------------------------
(* Whatever requests meet whatever callbacks, there are never threads that  *)
(* wait for each other's mutexes: of any threads, one waits for no other    *)
(* of them.  A thread that waits for a program's pipe keeps its mutexes and *)
(* may keep the others waiting, but for nothing of theirs.                  *)
Wants(t) ==
    CASE Doing(t, "call") \/ Doing(t, "invoke") -> {It(t)}
      [] \E d \in {"json", "find", "add", "remove", "copy"} : Doing(t, d) -> {Conf}
      [] Doing(t, "clear") \/ Doing(t, "report") -> {Res}
      [] Doing(t, "spawn") -> {It(t).app}
      [] OTHER -> {}

NoDeadlock ==
    \A S \in (SUBSET {t \in Thread : Wants(t) # {}}) \ {{}} :
        \E t \in S : \A u \in S \ {t} : Wants(t) \intersect Held(u) = {}

(* A thread waits for the reader of a test's pipe only when the test's      *)
(* process group is gone: stopping, replacing or removing an application    *)
(* never waits for a program to exit of itself.                             *)
JoinsTheDead == \A t \in Thread : Doing(t, "join") => It(t) \notin writers

(* An answer about the host never shows addresses half collected, although  *)
(* every request collects them anew in the one object they share.           *)
ReportsWhole == \A t \in Thread : Doing(t, "report") /\ Free(t, Res) => addresses
=============================================================================
