------------------------------- MODULE Client -------------------------------
(***************************************************************************)
(* appc, the command line client: reg, unreg, start, stop and restart.     *)
(* Every command is several requests, and other clients may have theirs    *)
(* served in between.  The daemon is its registry, which a request changes *)
(* in one step; what its threads do to each other is in Configuration and  *)
(* Locks.                                                                  *)
(***************************************************************************)
EXTENDS Integers

CONSTANTS
    Name,
    All         \* the argument of --all

ASSUME ClientAssumption == All \notin Name

VARIABLES
    apps,       \* the daemon's applications: "start" or "stop", or "none"
    summer,     \* is it daylight saving time?
    where,      \* where the client is
    do, on,     \* its command and its argument
    way,        \* the argument of processStartStop(): "start" or "stop"
    force,      \* given, or confirmed
    known,      \* the static list of isAppExist(), once there is one
    todo,       \* appList
    clean,      \* no request was refused so far
    before,     \* history: apps when the command began
    touched     \* history: names other clients have changed since

command == <<do, on, force, before>>
cvars == <<apps, summer, where, command, way, known, todo, clean, touched>>

State == {"none", "start", "stop"}
Registered == {n \in Name : apps[n] # "none"}

ClientTypeOK ==
    /\ apps \in [Name -> State] /\ before \in [Name -> State]
    /\ where \in {"idle", "exist", "confirm", "send", "list", "post", "done"}
    /\ do \in {"reg", "unreg", "start", "stop", "restart"}
    /\ on \in Name \union {All} /\ (where = "send" => on # All)
    /\ way \in {"start", "stop"}
    /\ {summer, force, clean} \subseteq BOOLEAN
    /\ known \subseteq SUBSET Name
    /\ todo \subseteq Name /\ touched \subseteq Name
    /\ where = "done" => todo = {}

ClientInit ==
    /\ apps \in [Name -> State] /\ before = apps
    /\ summer \in BOOLEAN
    /\ where = "idle" /\ do = "start" /\ on = All /\ way = "start"
    /\ force = FALSE /\ clean = TRUE
    /\ known = {} /\ todo = {} /\ touched = {}

-----------------------------------------------------------------------------
(* The daemon.                                                              *)

(* checkToken(): the client's local time as text, which mktime() reads with *)
(* tm_isdst = 0, against the daemon's clock lag seconds later.              *)
CheckToken(lag) ==
    LET diff == lag - (IF summer THEN 3600 ELSE 0)
    IN  diff \in -15..15

(* A request that puts n into a state is served; or refused for its token;  *)
(* or it throws in the client, which loses the answer or the request and    *)
(* ends the command.                                                        *)
Served(n, state) ==
    /\ CheckToken(0)
    /\ apps' = [apps EXCEPT ![n] = state]
    /\ UNCHANGED clean

Refused ==
    /\ \E lag \in {0, 16} : ~CheckToken(lag)
    /\ clean' = FALSE
    /\ UNCHANGED apps

Throws(n, state) ==
    /\ apps' = apps \/ (CheckToken(0) /\ apps' = [apps EXCEPT ![n] = state])
    /\ where' = "idle"
    /\ UNCHANGED <<todo, clean>>

Other ==            \* another client's request
    /\ \E n \in Name, s \in State :
        /\ s # apps[n] /\ CheckToken(0)
        /\ apps' = [apps EXCEPT ![n] = s]
        /\ touched' = touched \union {n}
    /\ UNCHANGED <<summer, where, command, way, known, todo, clean>>

Season ==
    /\ summer' = ~summer
    /\ UNCHANGED <<apps, where, command, way, known, todo, clean, touched>>

-----------------------------------------------------------------------------
(* The client.                                                              *)

Command ==
    /\ where = "idle"
    /\ do' \in {"reg", "unreg", "start", "stop", "restart"}
    /\ on' \in Name \union {All} /\ force' \in BOOLEAN
    /\ IF do' \in {"reg", "unreg"} THEN on' # All ELSE ~force'
    /\ way' = IF do' = "start" THEN "start" ELSE "stop"
    /\ where' = IF on' = All THEN "list" ELSE "exist"
    /\ known' = {} /\ todo' = {} /\ clean' = TRUE
    /\ before' = apps /\ touched' = {}
    /\ UNCHANGED <<apps, summer>>

\* isAppExist(): the list is fetched once in the life of the client.
List == IF known = {} THEN Registered ELSE CHOOSE s \in known : TRUE

\* Mutant: a name that is taken is not asked about.
AskNobody(exists) == "send"

Ask(exists) == IF exists /\ ~force THEN "confirm" ELSE "send"

\* Only reg goes on without the application; else "no such application".
Exist ==
    /\ where = "exist"
    /\ known' = {List}
    /\ LET exists == on \in List
           posts == exists /\ do \notin {"reg", "unreg"}
       IN  /\ where' = IF posts THEN "post"
                       ELSE IF exists \/ do = "reg" THEN Ask(exists) ELSE "idle"
           /\ todo' = IF posts THEN {on} ELSE {}
    /\ UNCHANGED <<apps, summer, command, way, clean, touched>>

Confirm ==          \* confirmInput()
    /\ where = "confirm"
    /\ \/ where' = "send" /\ force' = TRUE
       \/ where' = "idle" /\ UNCHANGED force
    /\ UNCHANGED <<apps, summer, do, on, before, way, known, todo, clean, touched>>

Send ==             \* PUT, of a started or a stopped application, or DELETE
    /\ where = "send"
    /\ \E s \in IF do = "reg" THEN {"start", "stop"} ELSE {"none"} :
        \/ Served(on, s) /\ where' = "done" /\ UNCHANGED todo
        \/ Refused /\ where' = "done" /\ UNCHANGED todo
        \/ Throws(on, s)
    /\ UNCHANGED <<summer, command, way, known, touched>>

\* Mutant: the second list of a restart is the one its first half has fetched.
ListOnce ==
    /\ where = "list" /\ where' = "post"
    /\ todo' = {n \in Name : before[n] # "none" /\ before[n] # way}
    /\ UNCHANGED <<apps, summer, command, way, known, clean, touched>>

ListAll ==          \* getAppList(), of those in the other state
    /\ where = "list" /\ where' = "post"
    /\ todo' = {n \in Registered : apps[n] # way}
    /\ UNCHANGED <<apps, summer, command, way, known, clean, touched>>

\* POST to one after the other; whatever the answer, the loop goes on.
Post ==
    /\ where = "post"
    /\ \E n \in todo :
        \/ apps[n] # "none" /\ Served(n, way) /\ todo' = todo \ {n} /\ UNCHANGED where
        \/ Refused /\ todo' = todo \ {n} /\ UNCHANGED where
        \/ /\ apps[n] = "none"         \* "No such application"
           /\ clean' = FALSE /\ todo' = todo \ {n}
           /\ UNCHANGED <<apps, where>>
        \/ Throws(n, IF apps[n] = "none" THEN "none" ELSE way)
    /\ UNCHANGED <<summer, command, way, known, touched>>

\* The end of processStartStop(), and the other half of restart.
Posted ==
    /\ where = "post" /\ todo = {}
    /\ IF do = "restart" /\ way = "stop"
       THEN where' = (IF on = All THEN "list" ELSE "exist") /\ way' = "start"
       ELSE where' = "done" /\ UNCHANGED way
    /\ UNCHANGED <<apps, summer, command, known, todo, clean, touched>>

\* The command is over; a GET that throws ends it as well.
Exits ==
    /\ where \in {"exist", "list", "done"} /\ where' = "idle"
    /\ UNCHANGED <<apps, summer, command, way, known, todo, clean, touched>>

ClientNext ==
    \/ Command \/ Exist \/ Confirm \/ Send \/ ListAll \/ Post \/ Posted \/ Exits
    \/ Other \/ Season

ClientSpec == ClientInit /\ [][ClientNext]_cvars

-----------------------------------------------------------------------------
(* A command that ends without an exception or a refusal has done what it   *)
(* says: the application is registered, removed, started or stopped, all of *)
(* them with --all, but for those that other clients changed meanwhile.     *)
Subject == (IF on = All THEN {n \in Name : before[n] # "none"} ELSE {on}) \ touched

DoneAsAsked ==
    where = "done" /\ clean =>
        \A n \in Subject :
            CASE do = "reg" -> apps[n] # "none"
              [] do = "unreg" -> apps[n] = "none"
              [] OTHER -> apps[n] = way

(* Without --force an application is replaced or removed only after the     *)
(* user has said so, unless another client has registered it after the list *)
(* was fetched: the daemon itself asks nobody.                              *)
AskedFirst ==
    [][where = "send" /\ apps' # apps /\ where' # where =>
           force \/ apps[on] = "none" \/ on \in touched]_cvars

(* A request whose token is new is served.  Not so: during daylight saving  *)
(* time the daemon takes every token for one hour old, and refuses all.     *)
PromptIsServed == where \in {"send", "post"} => CheckToken(0)

(* restart starts nothing that was stopped.  Not so with --all: its second  *)
(* half starts every stopped application.                                   *)
RestartKeepsStopped ==
    where = "done" /\ do = "restart" /\ on = All =>
        \A n \in Subject : before[n] = "stop" => apps[n] = "stop"
=============================================================================
