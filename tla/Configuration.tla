--------------------------- MODULE Configuration ---------------------------
(***************************************************************************)
(* The registry of applications (class Configuration), its image on disk,  *)
(* and the REST threads that change both.  m_mutex of the configuration    *)
(* guards the list; startApp() and stopApp() look an object up under it,   *)
(* call the object without it, and take it again to save.  Saving reads    *)
(* the applications one at a time under their own mutexes.                 *)
(*                                                                         *)
(* What an application does is reduced to whether its current process      *)
(* runs; the modules Application and ShortRun have the rest.               *)
(***************************************************************************)
EXTENDS FiniteSets

CONSTANTS
    Thread,     \* bound: REST handlers at work at a time
    Name,       \* application names
    Obj,        \* bound: Application objects that exist at a time
    None,
    ShortRunning,   \* are there applications with a TimerAction?
    WriteFails, \* may writing the file fail?
    Crashes     \* may the daemon crash (and be restarted)?

ASSUME ConfigAssumption ==
    /\ None \notin Thread \union Name \union Obj
    /\ ShortRunning \in BOOLEAN /\ WriteFails \in BOOLEAN /\ Crashes \in BOOLEAN

VARIABLES
    apps,       \* m_apps
    name,       \* m_name of every object; None when it is not allocated
    active,     \* m_active
    running,    \* does the object's process run?
    stray,      \* names with a running process that no object holds
    at,         \* where every REST thread is
    obj,        \* the object it works on
    op,         \* what it is about to call on it
    lock,       \* the thread that holds m_mutex across steps
    left, draft,    \* AsJson() under way: objects to read, what has been read
    disk,       \* the configuration file, as it was when last written whole
    written,    \* how the last write of the file ended
    walk,       \* objects monitorAllApps has still to invoke
    due         \* the object whose TimerAction is about to invoke it

cvars == <<apps, name, active, running, stray, at, obj, op, lock, left, draft, disk, written, walk, due>>

Status == {"NORMAL", "STOPPED"}
Saved == [name : Name, active : Status]

TypeOK ==
    /\ apps \subseteq Obj
    /\ name \in [Obj -> Name \union {None}]
    /\ active \in [Obj -> Status]
    /\ running \in [Obj -> BOOLEAN]
    /\ stray \subseteq Name
    /\ at \in [Thread -> {"idle", "call", "add", "save", "write"}]
    /\ obj \in [Thread -> Obj \union {None}]
    /\ op \in [Thread -> {"start", "stop", "none"}]
    /\ lock \in Thread \union {None}
    /\ left \subseteq Obj /\ draft \subseteq Saved
    /\ disk \subseteq Saved
    /\ written \in {"whole", "none", "torn"}
    /\ walk \subseteq Obj
    /\ due \in Obj \union {None}

Entry(o) == [name |-> name[o], active |-> active[o]]
Image(S) == {Entry(o) : o \in S}

Unused(o) == name[o] = None

\* A daemon started with an empty configuration file and nothing left running.
Init ==
    /\ apps = {} /\ disk = {}
    /\ name = [o \in Obj |-> None]
    /\ active = [o \in Obj |-> "STOPPED"]
    /\ running = [o \in Obj |-> FALSE]
    /\ stray = {}
    /\ at = [t \in Thread |-> "idle"]
    /\ obj = [t \in Thread |-> None]
    /\ op = [t \in Thread |-> "none"]
    /\ lock = None /\ left = {} /\ draft = {}
    /\ written = "whole"
    /\ walk = {} /\ due = None

-----------------------------------------------------------------------------
(* startApp(), stopApp(): getApp(); an unknown name is an error reply.      *)
GetApp(t) ==
    /\ at[t] = "idle" /\ lock = None
    /\ \E o \in apps, f \in {"start", "stop"} :
        /\ obj' = [obj EXCEPT ![t] = o]
        /\ op' = [op EXCEPT ![t] = f]
    /\ at' = [at EXCEPT ![t] = "call"]
    /\ UNCHANGED <<apps, name, active, running, stray, lock, left, draft, disk, written, walk, due>>

(* Application::start(): the first invoke() may fail to spawn, or may be    *)
(* outside the daily range.  Nothing happens if it is NORMAL already.       *)
CallStart(t) ==
    /\ at[t] = "call" /\ op[t] = "start"
    /\ LET o == obj[t] IN
        /\ active' = [active EXCEPT ![o] = "NORMAL"]
        /\ IF active[o] = "STOPPED"
           THEN \E up \in BOOLEAN : running' = [running EXCEPT ![o] = running[o] \/ up]
           ELSE UNCHANGED running
    /\ at' = [at EXCEPT ![t] = "save"]
    /\ UNCHANGED <<apps, name, stray, obj, op, lock, left, draft, disk, written, walk, due>>

\* Mutant: stopApp() answers without saving.
CallStopOnly(t) ==
    /\ at[t] = "call" /\ op[t] = "stop"
    /\ active' = [active EXCEPT ![obj[t]] = "STOPPED"]
    /\ running' = [running EXCEPT ![obj[t]] = @ /\ active[obj[t]] = "STOPPED"]
    /\ at' = [at EXCEPT ![t] = "idle"]
    /\ obj' = [obj EXCEPT ![t] = None]
    /\ UNCHANGED <<apps, name, stray, op, lock, left, draft, disk, written, walk, due>>

\* Application::stop(), which does nothing to an application that is STOPPED.
CallStop(t) ==
    /\ at[t] = "call" /\ op[t] = "stop"
    /\ LET o == obj[t] IN
        /\ active' = [active EXCEPT ![o] = "STOPPED"]
        /\ running' = [running EXCEPT ![o] = @ /\ active[o] = "STOPPED"]
    /\ at' = [at EXCEPT ![t] = "save"]
    /\ UNCHANGED <<apps, name, stray, obj, op, lock, left, draft, disk, written, walk, due>>

\* Taking m_mutex and entering saveConfigToDisk() with the list S.
BeginSave(t, S) ==
    /\ lock = None
    /\ lock' = t
    /\ left' = S
    /\ draft' = {}
    /\ at' = [at EXCEPT ![t] = "write"]

LockToSave(t) ==
    /\ at[t] = "save"
    /\ BeginSave(t, apps)
    /\ UNCHANGED <<apps, name, active, running, stray, obj, op, disk, written, walk, due>>

-----------------------------------------------------------------------------
(* addApp(): parseApp() makes the object before the lock is taken.          *)
Parse(t) ==
    /\ at[t] = "idle"
    /\ \E o \in Obj, n \in Name, s \in Status :
        /\ Unused(o)
        /\ name' = [name EXCEPT ![o] = n]
        /\ active' = [active EXCEPT ![o] = s]
        /\ obj' = [obj EXCEPT ![t] = o]
    /\ at' = [at EXCEPT ![t] = "add"]
    /\ UNCHANGED <<apps, running, stray, op, lock, left, draft, disk, written, walk, due>>

\* Objects of name n are stopped and leave the list.
Named(n) == {o \in apps : name[o] = n}

StopAll(S) ==
    /\ active' = [o \in Obj |-> IF o \in S THEN "STOPPED" ELSE active[o]]
    /\ running' = [o \in Obj |-> running[o] /\ ~(o \in S /\ active[o] = "NORMAL")]

\* Mutant: register without looking for the name.
AddBlindly(t) ==
    /\ at[t] = "add"
    /\ apps' = apps \union {obj[t]}
    /\ BeginSave(t, apps \union {obj[t]})
    /\ UNCHANGED <<name, active, running, stray, obj, op, disk, written, walk, due>>

\* Under the lock: stop and replace an application of this name, or register.
Add(t) ==
    /\ at[t] = "add"
    /\ LET old == Named(name[obj[t]])
           new == (apps \ old) \union {obj[t]}
       IN  /\ StopAll(old)
           /\ apps' = new
           /\ BeginSave(t, new)
    /\ UNCHANGED <<name, stray, obj, op, disk, written, walk, due>>

Remove(t) ==
    /\ at[t] = "idle"
    /\ \E n \in Name :
        /\ StopAll(Named(n))
        /\ apps' = apps \ Named(n)
        /\ BeginSave(t, apps \ Named(n))
    /\ UNCHANGED <<name, stray, obj, op, disk, written, walk, due>>

-----------------------------------------------------------------------------
(* saveConfigToDisk(): Configuration::AsJson() and then the file.           *)

ReadApp(t, o) ==    \* m_apps[i]->AsJson()
    /\ lock = t /\ o \in left
    /\ draft' = draft \union {Entry(o)}
    /\ left' = left \ {o}
    /\ UNCHANGED <<apps, name, active, running, stray, at, obj, op, lock, disk, written, walk, due>>

Done(t) ==
    /\ lock = t /\ left = {}
    /\ lock' = None
    /\ at' = [at EXCEPT ![t] = "idle"]
    /\ obj' = [obj EXCEPT ![t] = None]
    /\ op' = [op EXCEPT ![t] = "none"]
    /\ UNCHANGED <<apps, name, active, running, stray, left, draft, walk, due>>

Write(t) ==         \* temporary file and rename(); the request is answered
    /\ Done(t)
    /\ disk' = draft
    /\ written' = "whole"

(* A write that fails is only logged, if that: the request is answered all  *)
(* the same.  The temporary file cannot be opened or renamed, ...           *)
WriteFailure(t) ==
    /\ WriteFails
    /\ Done(t)
    /\ written' = IF written = "torn" THEN "torn" ELSE "none"
    /\ UNCHANGED disk

\* ... or it is cut short, which nobody notices, and renamed over the good one.
TornWrite(t) ==
    /\ WriteFails
    /\ Done(t)
    /\ written' = "torn"
    /\ UNCHANGED disk

-----------------------------------------------------------------------------
(* monitorAllApps walks over a copy of the list.                            *)

Monitor ==
    /\ walk = {} /\ due = None /\ lock = None
    /\ walk' = apps
    /\ UNCHANGED <<apps, name, active, running, stray, at, obj, op, lock, left, draft, disk, written, due>>

\* Mutant: invoke() does not ask isNormal().
InvokeAny(o) ==
    /\ o \in walk
    /\ walk' = walk \ {o}
    /\ running' \in {running, [running EXCEPT ![o] = TRUE]}
    /\ UNCHANGED <<apps, name, active, stray, at, obj, op, lock, left, draft, disk, written, due>>

Invoke(o) ==
    /\ o \in walk
    /\ walk' = walk \ {o}
    /\ running' \in {running, [running EXCEPT ![o] = @ \/ active[o] = "NORMAL"]}
    /\ UNCHANGED <<apps, name, active, stray, at, obj, op, lock, left, draft, disk, written, due>>

(* TimerAction::onTimeOut(), in the same thread: the object is held and     *)
(* asked isNormal(), and then, under its mutex again, invokeNow() kills or  *)
(* hands over what runs and spawns, unless out of range, without asking.    *)
(* parseApp() has made the TimerAction, so it may be due before addApp()    *)
(* has the lock.                                                            *)
TimeOut(o) ==
    /\ ShortRunning /\ walk = {} /\ due = None
    /\ ~Unused(o) /\ active[o] = "NORMAL"
    /\ due' = o
    /\ UNCHANGED <<apps, name, active, running, stray, at, obj, op, lock, left, draft, disk, written, walk>>

InvokeNow ==
    /\ due # None
    /\ due' = None
    /\ \E up \in BOOLEAN : running' = [running EXCEPT ![due] = up]
    /\ UNCHANGED <<apps, name, active, stray, at, obj, op, lock, left, draft, disk, written, walk>>

\* Mutant: the name is read after it was cleared.
DeleteClears(o) ==
    /\ ~Unused(o) /\ o \notin apps \union walk \union {due}
    /\ \A t \in Thread : obj[t] # o
    /\ name' = [name EXCEPT ![o] = None]
    /\ active' = [active EXCEPT ![o] = "STOPPED"]
    /\ running' = [running EXCEPT ![o] = FALSE]
    /\ stray' = IF running[o] THEN stray \union {name'[o]} ELSE stray
    /\ UNCHANGED <<apps, at, obj, op, lock, left, draft, disk, written, walk, due>>

\* The last shared_ptr goes: the object is deleted, its process is not.
Delete(o) ==
    /\ ~Unused(o) /\ o \notin apps \union walk \union {due}
    /\ \A t \in Thread : obj[t] # o
    /\ name' = [name EXCEPT ![o] = None]
    /\ active' = [active EXCEPT ![o] = "STOPPED"]
    /\ running' = [running EXCEPT ![o] = FALSE]
    /\ stray' = IF running[o] THEN stray \union {name[o]} ELSE stray
    /\ UNCHANGED <<apps, at, obj, op, lock, left, draft, disk, written, walk, due>>

-----------------------------------------------------------------------------
(* The environment.                                                         *)

Exit ==
    /\ \/ \E o \in Obj : running[o] /\ running' = [running EXCEPT ![o] = FALSE] /\ UNCHANGED stray
       \/ \E n \in stray : stray' = stray \ {n} /\ UNCHANGED running
    /\ UNCHANGED <<apps, name, active, at, obj, op, lock, left, draft, disk, written, walk, due>>

(* A crash loses the threads and the objects, never a process.  The next    *)
(* daemon reads the file and attach()es by command line, which the name     *)
(* stands for: one of the survivors of a name goes to its application.  A   *)
(* file that was cut short cannot be parsed: no daemon comes up from it.    *)
CrashRestart ==
    LET up == {name[o] : o \in {x \in Obj : running[x]}}
        survivors == up \union stray
        twice == up \intersect stray
    IN  /\ Crashes /\ written # "torn"
        /\ \E home \in [disk -> Obj] :
            LET loaded == {home[d] : d \in disk}
                entry == [o \in loaded |-> CHOOSE d \in disk : home[d] = o]
            IN  /\ \A d, e \in disk : home[d] = home[e] => d = e
                /\ apps' = loaded
                /\ name' = [o \in Obj |-> IF o \in loaded THEN entry[o].name ELSE None]
                /\ active' = [o \in Obj |-> IF o \in loaded THEN entry[o].active ELSE "STOPPED"]
                /\ running' = [o \in Obj |-> o \in loaded /\ entry[o].name \in survivors]
        /\ stray' = (survivors \ {d.name : d \in disk}) \union twice
        /\ at' = [t \in Thread |-> "idle"]
        /\ obj' = [t \in Thread |-> None]
        /\ op' = [t \in Thread |-> "none"]
        /\ lock' = None /\ left' = {} /\ draft' = {}
        /\ written' = "whole"
        /\ walk' = {} /\ due' = None
        /\ UNCHANGED disk

Request(t) ==
    GetApp(t) \/ CallStart(t) \/ CallStop(t) \/ LockToSave(t) \/ Parse(t) \/ Add(t) \/ Remove(t)

Saving(t) == (\E o \in Obj : ReadApp(t, o)) \/ Write(t) \/ WriteFailure(t) \/ TornWrite(t)

Next ==
    \/ \E t \in Thread : Request(t) \/ Saving(t)
    \/ Monitor
    \/ \E o \in Obj : Invoke(o) \/ TimeOut(o) \/ Delete(o)
    \/ InvokeNow
    \/ Exit
    \/ CrashRestart

Spec == Init /\ [][Next]_cvars

-----------------------------------------------------------------------------
(* An application name denotes one object, although the new object is made  *)
(* before the lock is taken and threads register concurrently.              *)
UniqueNames == \A o1, o2 \in apps : name[o1] = name[o2] => o1 = o2

(* What the file says of a name is what the list says of it, unless the     *)
(* request that made the difference is not answered yet, or the last write  *)
(* failed: a save that reads applications one by one while they change, or  *)
(* that was begun before a change, never loses an acknowledged start, stop, *)
(* add or remove, whatever the requests for other names are doing.          *)
Of(S, n) == {e \in S : e.name = n}

Unanswered(n) ==    \* what is saved for removeApp() is a name that is gone
    \E t \in Thread :
        /\ at[t] \in {"save", "write"}
        /\ IF obj[t] = None THEN Named(n) = {} ELSE name[obj[t]] = n

DiskCoherent ==
    written = "whole" =>
        \A n \in Name : Unanswered(n) \/ Of(disk, n) = Of(Image(apps), n)

(* What is registered as STOPPED stays down: no step of a request, of the   *)
(* monitor or of a save starts a process of it, and none leaves behind one  *)
(* it had as NORMAL.  Only a TimerAction that had found it NORMAL before    *)
(* it was stopped invokes it still, and a restarted daemon hands it the     *)
(* survivor it finds.                                                       *)
StoppedStaysDown ==
    [][~CrashRestart =>
          \A o \in apps' : active'[o] = "STOPPED" /\ running'[o]
                         => \/ o \in apps /\ active[o] = "STOPPED" /\ running[o]
                            \/ o = due /\ InvokeNow]_cvars

(* Configuration.cpp:209, "Stop existing app and replace", and removeApp:   *)
(* an object that left the list runs nothing; one that addApp() has still   *)
(* to put into it may.                                                      *)
RemovedStaysDown ==
    \A o \in Obj \ apps : running[o] => \E t \in Thread : at[t] = "add" /\ obj[t] = o

(* README.md:43, "Stop an application": once stop() has been called the     *)
(* application runs nothing until it is started or removed.                 *)
StopStops ==
    [][\A t \in Thread : CallStop(t) => ~running'[obj[t]]]_cvars
=============================================================================
