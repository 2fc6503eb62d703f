------------------------------- MODULE Limits -------------------------------
(***************************************************************************)
(* The memory limits of applications.  spawnProcess() forks a program and  *)
(* then puts it into a cgroup: a directory                                 *)
(*     <hierarchy>/appmanager/<application>/<m_processIndex>               *)
(* made, filled and removed by a LinuxCgroup object that belongs to the    *)
(* Process.  Application objects have mutexes of their own, so several     *)
(* threads may be in spawnProcess() at a time; the hierarchy is looked up  *)
(* by the first of them, or by several that come early enough, and kept in *)
(* static members without a mutex.                                         *)
(* Memory is in MB, as it is configured.  CPU shares are written in the    *)
(* same way in a hierarchy of their own and left out.                      *)
(***************************************************************************)
EXTENDS Integers, FiniteSetsExt, Functions

CONSTANTS
    Name,
    Obj,        \* bound: Application objects that are ever made
    Proc,       \* bound: Process objects and programs that exist at a time
    Limit,      \* the configured limits: records of memory_mb, memory_virt_mb
    MaxIndex,   \* bound on m_processIndex
    None

Object == [name : Name, limit : Limit, index : 0..MaxIndex]

(* A root directory: in the memory hierarchy or not, and how often          *)
(* cgroupBaseDir has been appended to it.                                   *)
Root == [mounted : BOOLEAN, depth : Nat]
Nowhere == [mounted |-> FALSE, depth |-> 0]

(* A Process, with the thread that starts it.  held: what of its limits     *)
(* nothing on the way has cost it, both, only that of its memory, or none.  *)
Started ==
    [obj : Obj, index : 1..MaxIndex, mem : Nat, swap : Int,
     at : {"ask", "set", "find", "file", "base", "path",
           "mkdir", "limit", "swap", "memsw", "done"},
     root : Root \union {None}, held : {"both", "memory", "nothing"}]

ASSUME LimitsAssumption ==
    /\ Limit \subseteq [mem : Nat, virt : Nat]
    /\ MaxIndex \in Nat
    /\ IsFiniteSet(Obj)
    /\ None \notin Obj \union Proc \union Object \union Started \union Root

VARIABLES
    app,        \* the objects made so far: name, limit and m_processIndex
    alive,      \* those of this daemon
    proc,       \* Process objects, with the thread that starts them
    up,         \* programs that run
    left,       \* programs that have ended but for descendants
    group,      \* the kernel's groups: their two limits
    member,     \* the group every program is in
    retrieved,  \* the static of LinuxCgroup::LinuxCgroup()
    root,       \* cgroupMemRootName
    accounting  \* does the kernel limit swap?

kernel == <<group, member>>
lvars == <<app, alive, proc, up, left, kernel, retrieved, root, accounting>>

NoLimit == 4096 * 4096      \* more than is ever written

\* What "%I64d" prints of a number of bytes: its low 32 bits as an int.
Printed(mb) == LET low == mb % 4096 IN IF low < 2048 THEN low ELSE low - 4096

\* The directory of a Process.
Dir(p) == <<proc[p].root, app[proc[p].obj].name, proc[p].index>>
InHierarchy(d) == d[1].mounted

\* Names of which there has been more than one object.
Again == {n \in Name : Cardinality({o \in Obj : app[o] # None /\ app[o].name = n}) > 1}

Busy(o) == \E p \in Proc : proc[p] # None /\ proc[p].obj = o /\ proc[p].at # "done"

\* Threads that have found `retrieved` FALSE and are not through, and those that assign root.
Looking == {p \in Proc : proc[p] # None /\ proc[p].at \in {"set", "find", "file", "base"}}
Writing == {p \in Looking : proc[p].at \in {"find", "base"}}

TypeOK ==
    /\ app \in [Obj -> Object \union {None}]
    /\ proc \in [Proc -> Started \union {None}]
    /\ up \union left \subseteq Proc /\ up \intersect left = {}
    /\ \A d \in DOMAIN group : InHierarchy(d) /\ 0 <= group[d].limit
                               /\ group[d].limit <= group[d].memsw
    /\ member \in [Proc -> DOMAIN group \union {None}]
    /\ \A p \in Proc : member[p] # None => p \in up \union left
    /\ retrieved \in BOOLEAN /\ root \in Root
    /\ alive \subseteq {o \in Obj : app[o] # None}

Init ==
    /\ app = [o \in Obj |-> None] /\ alive = {} /\ proc = [p \in Proc |-> None]
    /\ up = {} /\ left = {}
    /\ group = <<>> /\ member = [p \in Proc |-> None]
    /\ retrieved = FALSE /\ root = Nowhere
    /\ accounting \in BOOLEAN

-----------------------------------------------------------------------------
(* Applications.                                                            *)

(* parseApp(): m_processIndex starts at 0.  That an object goes is no step: *)
(* it only starts nothing more, and its processes may outlive it, held by a *)
(* TimerActionKill.                                                         *)
Create(o) ==
    /\ app[o] = None
    /\ \E n \in Name, l \in Limit :
          app' = [app EXCEPT ![o] = [name |-> n, limit |-> l, index |-> 0]]
    /\ alive' = alive \union {o}
    /\ UNCHANGED <<proc, up, left, kernel, retrieved, root, accounting>>

-----------------------------------------------------------------------------
(* spawnProcess(), from the fork on.                                        *)

\* Mutant: memory_mb is taken as it is.
TakenAsIs(l) == [mem |-> l.mem, swap |-> l.virt - l.mem]

\* What the constructor makes of setCgroup()'s arguments.
Clamped(l) ==
    LET swap == l.virt - l.mem
        mem == IF l.mem > 0 THEN Max({l.mem, 4}) ELSE Max({swap, 0})
    IN  [mem |-> mem, swap |-> swap]

\* Mutant: every process of an application has the index 1.
SameIndex(o) == 1

\* Mutant: m_processIndex++.
OldIndex(o) == app[o].index

NextIndex(o) == app[o].index + 1

(* The fork, ++m_processIndex, and what the constructor makes of its        *)
(* arguments.                                                               *)
Spawn(o) ==
    /\ o \in alive /\ ~Busy(o) /\ app[o].index < MaxIndex
    /\ \E p \in Proc \ (up \union left) :
        LET c == Clamped(app[o].limit)
        IN  /\ proc[p] = None
            /\ app' = [app EXCEPT ![o].index = NextIndex(o)]
            /\ proc' = [proc EXCEPT ![p] =
                   [obj |-> o, index |-> NextIndex(o), mem |-> c.mem, swap |-> c.swap,
                    at |-> IF c.mem > 0 \/ c.swap > 0 THEN "ask" ELSE "done",
                    root |-> None, held |-> "both"]]
            /\ up' = up \union {p}
    /\ UNCHANGED <<alive, left, kernel, retrieved, root, accounting>>

At(p, a) == proc[p] # None /\ proc[p].at = a
Go(p, a) == proc' = [proc EXCEPT ![p].at = a]

Ask(p) ==           \* if (cgroupEnabled && !retrieved)
    /\ At(p, "ask") /\ Go(p, IF retrieved THEN "path" ELSE "set")
    /\ UNCHANGED <<app, alive, up, left, kernel, retrieved, root, accounting>>

SetRetrieved(p) ==
    /\ At(p, "set") /\ Go(p, "find")
    /\ retrieved' = TRUE
    /\ UNCHANGED <<app, alive, up, left, kernel, root, accounting>>

(* What a thread may read from root, or leave there, when it is r but for   *)
(* others that assign it at the same time: then it may also be a path that  *)
(* leads nowhere.                                                           *)
Torn(p, r) == IF Writing \ {p} = {} THEN {r} ELSE {r, Nowhere}

(* retrieveCgroupHeirarchy(): root stays as it is when the mounts cannot be *)
(* read or no memory hierarchy is among them.                               *)
Find(p) ==
    /\ At(p, "find") /\ Go(p, "file")
    /\ \/ root' \in Torn(p, [mounted |-> TRUE, depth |-> 0])
       \/ UNCHANGED root
    /\ UNCHANGED <<app, alive, up, left, kernel, retrieved, accounting>>

(* The swap limit is given up where root has no file for it: where the      *)
(* kernel has none, but also where root is not yet, or no longer, the mount *)
(* point.  Further down there is one once the directory has been made.      *)
FileExists(r) ==
    IF ~r.mounted THEN {FALSE} ELSE IF r.depth = 0 THEN {accounting} ELSE {accounting, FALSE}

CheckSwap(p) ==
    /\ At(p, "file")
    /\ \E r \in Torn(p, root) : \E exists \in FileExists(r) :
          proc' = [proc EXCEPT ![p].at = "base",
                      ![p].swap = IF @ > 0 /\ ~exists THEN 0 ELSE @,
                      ![p].held = IF r.depth > 0 \/ (~r.mounted /\ Looking # {p})
                                  THEN "memory" ELSE @]
    /\ UNCHANGED <<app, alive, up, left, kernel, retrieved, root, accounting>>

Base(p) ==          \* cgroupMemRootName += cgroupBaseDir
    /\ At(p, "base") /\ Go(p, "path")
    /\ root' \in Torn(p, [root EXCEPT !.depth = @ + 1])
    /\ UNCHANGED <<app, alive, up, left, kernel, retrieved, accounting>>

\* setCgroup(): cgroupMemoryPath.  Others may not have found the hierarchy yet.
Path(p) ==
    /\ At(p, "path")
    /\ \E r \in Torn(p, root) :
          proc' = [proc EXCEPT ![p].at = "mkdir", ![p].root = r,
                      ![p].held = IF ~r.mounted /\ Looking # {} THEN "nothing" ELSE @]
    /\ UNCHANGED <<app, alive, up, left, kernel, retrieved, root, accounting>>

\* createRecursiveDirectory(), which leaves a directory that is there as it is.
MadeDir(d) ==
    IF InHierarchy(d) /\ d \notin DOMAIN group
    THEN [e \in DOMAIN group \union {d} |->
             IF e = d THEN [limit |-> NoLimit, memsw |-> NoLimit] ELSE group[e]]
    ELSE group

Mkdir(p) ==
    /\ \/ At(p, "mkdir") /\ Go(p, "limit")
       \/ At(p, "swap") /\ Go(p, "memsw")
    /\ group' = MadeDir(Dir(p))
    /\ UNCHANGED <<app, alive, up, left, member, retrieved, root, accounting>>

(* mkdir() fails, for want of space or because another thread has just made *)
(* the directory above: that limit is not set.                              *)
MkdirFails(p) ==
    /\ At(p, "mkdir") \/ At(p, "swap")
    /\ Dir(p) \notin DOMAIN group
    /\ proc' = [proc EXCEPT
           ![p].at = IF @ = "mkdir" /\ proc[p].swap > 0 THEN "swap" ELSE "done",
           ![p].held = "nothing"]
    /\ UNCHANGED <<app, alive, up, left, kernel, retrieved, root, accounting>>

\* "tasks": the program joins, if it is still there.
Joins(p, d) == member' = IF p \in up \union left THEN [member EXCEPT ![p] = d] ELSE member

(* setPhysicalMemory().  The kernel refuses a number below 0 or above the   *)
(* limit of memory and swap.                                                *)
WriteLimit(p) ==
    /\ At(p, "limit")
    /\ Go(p, IF proc[p].swap > 0 THEN "swap" ELSE "done")
    /\ LET d == Dir(p)  v == Printed(proc[p].mem) IN
        IF d \in DOMAIN group
        THEN /\ group' = IF v \in 0..group[d].memsw THEN [group EXCEPT ![d].limit = v] ELSE group
             /\ Joins(p, d)
        ELSE UNCHANGED kernel
    /\ UNCHANGED <<app, alive, up, left, retrieved, root, accounting>>

(* setSwapMemory().  The kernel refuses a number below the memory limit;    *)
(* without accounting there is no such file.                                *)
WriteSwap(p) ==
    /\ At(p, "memsw") /\ Go(p, "done")
    /\ LET d == Dir(p)  v == Printed(proc[p].swap) IN
        IF d \in DOMAIN group
        THEN /\ group' = IF accounting /\ group[d].limit <= v
                         THEN [group EXCEPT ![d].memsw = v] ELSE group
             /\ Joins(p, d)
        ELSE UNCHANGED kernel
    /\ UNCHANGED <<app, alive, up, left, retrieved, root, accounting>>

-----------------------------------------------------------------------------
(* The end of a program, by itself or by a kill, and that of its Process:   *)
(* ~LinuxCgroup() removes the directory, which fails while anything runs in *)
(* it.  A Process is never released while its program runs.                 *)

Exit(p) ==
    /\ \/ p \in up /\ up' = up \ {p} /\ left' \in {left, left \union {p}}
       \/ p \in left /\ left' = left \ {p} /\ UNCHANGED up
    /\ member' = IF p \in left' THEN member ELSE [member EXCEPT ![p] = None]
    /\ UNCHANGED <<app, alive, proc, group, retrieved, root, accounting>>

Release(p) ==
    /\ At(p, "done") /\ p \notin up
    /\ proc' = [proc EXCEPT ![p] = None]
    /\ group' = IF \E q \in Proc : member[q] = Dir(p) THEN group
                ELSE Restrict(group, DOMAIN group \ {Dir(p)})
    /\ UNCHANGED <<app, alive, up, left, member, retrieved, root, accounting>>

\* The daemon is killed and starts again; programs and directories stay.
Restart ==
    /\ alive' = {} /\ proc' = [p \in Proc |-> None]
    /\ up' = {} /\ left' = left \union up
    /\ retrieved' = FALSE /\ root' = Nowhere
    /\ UNCHANGED <<app, kernel, accounting>>

Next ==
    \/ \E o \in Obj : Create(o) \/ Spawn(o)
    \/ \E p \in Proc : Ask(p) \/ SetRetrieved(p) \/ Find(p) \/ CheckSwap(p) \/ Base(p)
                       \/ Path(p) \/ Mkdir(p) \/ MkdirFails(p) \/ WriteLimit(p)
                       \/ WriteSwap(p) \/ Exit(p) \/ Release(p)
    \/ Restart

Spec == Init /\ [][Next]_lvars

-----------------------------------------------------------------------------
(* Once the hierarchy has been found, a program that was started with a     *)
(* memory limit below 2048 MB runs in a group of the hierarchy with that    *)
(* limit, as long as its application object is the only one of its name so  *)
(* far.  What may cost it the limit is a mkdir() that failed, or a path     *)
(* built while another thread was still after the hierarchy; that another   *)
(* had begun or ended its lookup before, that several looked it up, or that *)
(* some of them failed, does not, nor do other starts, ends and removals or *)
(* the order of the two limits.  Virtual memory alone limits both memory    *)
(* and the sum of memory and swap, unless several looked the hierarchy up.  *)
Asked(l) == IF l.mem = 0 THEN l.virt ELSE Max({l.mem, 4})
Printable(l) == Asked(l) \in 1..2047

Settled(p) ==
    At(p, "done") /\ root.mounted /\ proc[p].held # "nothing" /\ app[proc[p].obj].name \notin Again

Capped ==
    \A p \in up :
        Settled(p) =>
            LET l == app[proc[p].obj].limit
            IN  Printable(l) =>
                    /\ member[p] = Dir(p) /\ InHierarchy(Dir(p))
                    /\ group[Dir(p)].limit = Asked(l)
                    /\ l.mem = 0 /\ accounting /\ proc[p].held = "both" =>
                           group[Dir(p)].memsw = l.virt

(* Two programs share a group, and with it their limit, only if their       *)
(* application has been replaced or the daemon restarted in between: the    *)
(* index starts at 1 then, whoever is still in the group.                   *)
OwnGroup ==
    \A p, q \in up \union left :
        p # q /\ member[p] = member[q] /\ member[p] # None => member[p][2] \in Again

(* Memory and swap together are held to memory_virt_mb.  Not so: what is    *)
(* written is the difference of the two, which the kernel refuses when it   *)
(* is below memory_mb, as for 200 and 300.                                  *)
VirtualHeld ==
    \A p \in up :
        Settled(p) /\ accounting /\ proc[p].held = "both" =>
            LET l == app[proc[p].obj].limit
            IN  l.virt \in 4..2047 /\ l.mem < 2048 => group[member[p]].memsw = l.virt
=============================================================================
