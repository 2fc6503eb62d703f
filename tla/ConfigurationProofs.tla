------------------------ MODULE ConfigurationProofs ------------------------
(***************************************************************************)
(* Configuration: for any number of REST threads, names and objects, with  *)
(* or without crashes and failing writes, names stay unique and the file   *)
(* is never silently behind the list.                                      *)
(*                                                                         *)
(* DiskCoherent alone is not inductive.  What makes it true is that a save *)
(* holds the lock from its first read to its rename, so the list cannot    *)
(* change, and that whoever changes an application behind its back owes a  *)
(* save of its own: DraftCoherent says so, name by name, in the middle of  *)
(* a save.                                                                 *)
(***************************************************************************)
EXTENDS Configuration, TLAPS

\* Threads hold what they are about to use, or have changed; what they hold
\* exists; and only the thread that saves has the lock.
ThreadsHold ==
    \A t \in Thread :
        /\ at[t] = "idle" => obj[t] = None
        /\ at[t] \in {"call", "add", "save"} => obj[t] # None
        /\ obj[t] # None => obj[t] \in Obj /\ name[obj[t]] # None
        /\ at[t] = "write" <=> lock = t

\* The list holds allocated objects only.
Allocated == \A o \in apps : name[o] # None

\* Only an object that is allocated has a process, or is still to be invoked.
RunAllocated == \A o \in Obj : running[o] \/ o \in walk \/ o = due => name[o] # None

\* A save reads the list it locked.
LeftInList == lock # None => left \subseteq apps

\* Somebody has changed an application of this name and not begun to save it.
Owed(n) == \E t \in Thread : at[t] = "save" /\ name[obj[t]] = n

\* What a save has read, with what it will read, is what the list says of a
\* name, unless somebody owes another save for it.
DraftCoherent ==
    lock # None =>
        \A n \in Name :
            Owed(n) \/ Of(draft \union Image(left), n) = Of(Image(apps), n)

\* A name is read, and stored, once.
OneEntry(S) == \A d, e \in S : d.name = e.name => d = e

DraftOnce ==
    lock # None => /\ OneEntry(draft)
                   /\ \A d \in draft : \E o \in apps \ left : name[o] = d.name

IInv ==
    /\ TypeOK /\ ThreadsHold /\ Allocated /\ RunAllocated /\ UniqueNames
    /\ LeftInList /\ DraftCoherent /\ DraftOnce
    /\ OneEntry(disk) /\ DiskCoherent

-----------------------------------------------------------------------------
\* The empty daemon.
LEMMA InitIInv == Init => IInv
<1> SUFFICES ASSUME Init PROVE IInv
  OBVIOUS
<1>1. TypeOK
  BY DEF Init, TypeOK, Status
<1>2. ThreadsHold
  BY ConfigAssumption DEF Init, ThreadsHold
<1>3. /\ Allocated /\ RunAllocated /\ UniqueNames
      /\ LeftInList /\ DraftCoherent /\ DraftOnce /\ OneEntry(disk)
  BY ConfigAssumption DEF Init, Allocated, RunAllocated, UniqueNames, LeftInList, DraftCoherent, DraftOnce, OneEntry
<1>4. DiskCoherent
  BY DEF Init, DiskCoherent, Image, Of
<1> QED
  BY <1>1, <1>2, <1>3, <1>4 DEF IInv

\* What a list says of a name are the entries of the objects of that name.
LEMMA ImageOf ==
    ASSUME NEW S, NEW n
    PROVE  Of(Image(S), n) = Image({o \in S : name[o] = n})
BY DEF Of, Image, Entry

\* Steps that leave list, lock and file alone: whoever owes a save still does,
\* and an application changes only if its name is owed one.
LEMMA FilesKept ==
    ASSUME IInv,
           UNCHANGED <<apps, lock, left, draft, disk, written>>,
           \A o \in apps : name'[o] = name[o],
           \A u \in Thread : at[u] \in {"save", "write"} =>
               /\ at'[u] = at[u] /\ obj'[u] = obj[u]
               /\ obj[u] # None => name'[obj[u]] = name[obj[u]],
           \A n \in Name : Owed(n)' \/ \A o \in Named(n) : active'[o] = active[o],
           ThreadsHold'
    PROVE  DraftCoherent' /\ DiskCoherent'
<1>1. \A n \in Name : Named(n)' = Named(n)
  BY DEF Named
<1>2. \A n \in Name : Owed(n) => Owed(n)'
  BY DEF Owed, IInv, ThreadsHold
<1>3. \A n \in Name : Unanswered(n) => Unanswered(n)'
  BY <1>1 DEF Unanswered
<1>4. \A n \in Name : Owed(n)' => Unanswered(n)'
  BY DEF Owed, Unanswered, ThreadsHold
<1>5. ASSUME NEW n \in Name, \A o \in Named(n) : active'[o] = active[o]
      PROVE  Of(Image(apps), n)' = Of(Image(apps), n)
  BY <1>5 DEF Of, Image, Entry, Named
<1>6. ASSUME NEW n \in Name, \A o \in Named(n) : active'[o] = active[o], lock # None
      PROVE  Of(draft \union Image(left), n)' = Of(draft \union Image(left), n)
  <2>1. left \subseteq apps
    BY <1>6 DEF IInv, LeftInList
  <2> QED
    BY <1>6, <2>1 DEF Of, Image, Entry, Named
<1>7. DraftCoherent'
  BY <1>2, <1>5, <1>6 DEF IInv, DraftCoherent
<1>8. DiskCoherent'
  <2>1. \A n \in Name : Of(disk, n)' = Of(disk, n)
    BY DEF Of
  <2> QED
    BY <1>3, <1>4, <1>5, <2>1 DEF IInv, DiskCoherent
<1> QED
  BY <1>7, <1>8

\* Nothing the invariant speaks of has changed.
LEMMA Untouched ==
    ASSUME IInv, TypeOK', RunAllocated',
           UNCHANGED <<apps, name, active, at, obj, lock, left, draft, disk, written>>
    PROVE  IInv'
<1>1. ThreadsHold'
  BY DEF IInv, ThreadsHold
<1>2. DraftCoherent' /\ DiskCoherent'
  BY <1>1, FilesKept
<1> QED
  BY <1>1, <1>2 DEF IInv, Allocated, UniqueNames, LeftInList, DraftOnce, OneEntry

\* getApp() hands a thread an object and changes nothing else.
LEMMA GetAppKeeps == ASSUME IInv, NEW t \in Thread, GetApp(t) PROVE IInv'
<1>1. PICK o \in apps, f \in {"start", "stop"} :
          obj' = [obj EXCEPT ![t] = o] /\ op' = [op EXCEPT ![t] = f]
  BY DEF GetApp
<1>2. TypeOK'
  BY <1>1 DEF GetApp, IInv, TypeOK
<1>3. ThreadsHold'
  BY <1>1, ConfigAssumption DEF GetApp, IInv, TypeOK, ThreadsHold, Allocated
<1>4. \A u \in Thread : at[u] \in {"save", "write"} => at'[u] = at[u] /\ obj'[u] = obj[u]
  BY <1>1 DEF GetApp, IInv, TypeOK
<1>5. DraftCoherent' /\ DiskCoherent'
  BY <1>3, <1>4, FilesKept DEF GetApp
<1> QED
  BY <1>2, <1>3, <1>5 DEF GetApp, IInv, Allocated, RunAllocated, UniqueNames, LeftInList, DraftOnce, OneEntry

\* start() and stop() leave the file behind, and owe a save for it.
LEMMA CallKeeps == ASSUME IInv, NEW t \in Thread, CallStart(t) \/ CallStop(t) PROVE IInv'
<1>1. obj[t] \in Obj /\ name[obj[t]] # None /\ at[t] = "call"
  BY DEF IInv, ThreadsHold, CallStart, CallStop
<1>2. /\ active' \in [Obj -> Status] /\ running' \in [Obj -> BOOLEAN]
      /\ \A o \in Obj : o # obj[t] => active'[o] = active[o]
      /\ \A o \in Obj : running'[o] => running[o] \/ o = obj[t]
  <2>1. CASE CallStart(t)
    BY <1>1, <2>1 DEF CallStart, IInv, TypeOK, Status
  <2>2. CASE CallStop(t)
    BY <1>1, <2>2 DEF CallStop, IInv, TypeOK, Status
  <2> QED
    BY <2>1, <2>2
<1>3. /\ at' = [at EXCEPT ![t] = "save"]
      /\ UNCHANGED <<apps, name, stray, obj, op, lock, left, draft, disk, written, walk, due>>
  BY DEF CallStart, CallStop
<1>4. TypeOK'
  BY <1>2, <1>3 DEF IInv, TypeOK
<1>5. ThreadsHold' /\ RunAllocated'
  BY <1>1, <1>2, <1>3 DEF IInv, TypeOK, ThreadsHold, RunAllocated
<1>6. ASSUME NEW n \in Name PROVE Owed(n)' \/ \A o \in Named(n) : active'[o] = active[o]
  <2>1. CASE n = name[obj[t]]
    BY <1>3, <2>1 DEF Owed, IInv, TypeOK
  <2>2. CASE n # name[obj[t]]
    BY <1>2, <2>2 DEF Named, IInv, TypeOK
  <2> QED
    BY <2>1, <2>2
<1>7. \A u \in Thread : at[u] \in {"save", "write"} => at'[u] = at[u]
  BY <1>1, <1>3 DEF IInv, TypeOK
<1>8. DraftCoherent' /\ DiskCoherent'
  BY <1>3, <1>5, <1>6, <1>7, FilesKept
<1> QED
  BY <1>3, <1>4, <1>5, <1>8 DEF IInv, Allocated, UniqueNames, LeftInList, DraftOnce, OneEntry

\* A save starts from the list it has just locked, with nothing read.
LEMMA BeginKeeps ==
    ASSUME IInv, NEW t \in Thread, TypeOK', BeginSave(t, apps'), obj' = obj, name' = name,
           disk' = disk, Allocated', RunAllocated', UniqueNames', DiskCoherent'
    PROVE  IInv'
<1>1. lock' = t /\ lock' # None /\ left' = apps' /\ draft' = {} /\ lock = None
  BY ConfigAssumption DEF BeginSave
<1>2. ThreadsHold'
  BY <1>1, ConfigAssumption DEF BeginSave, ThreadsHold, IInv, TypeOK
<1>3. DraftCoherent'
  BY <1>1 DEF DraftCoherent
<1> QED
  BY <1>1, <1>2, <1>3 DEF IInv, LeftInList, DraftOnce, OneEntry

\* A thread that takes the lock has changed the applications of one name at
\* most, and is not finished with that name.
LEMMA OneName ==
    ASSUME IInv, NEW t \in Thread, NEW n, BeginSave(t, apps'),
           at[t] = "save" => name[obj[t]] = n,
           UNCHANGED <<name, obj, disk, written>>,
           Unanswered(n)',
           \A m \in Name \ {n} : /\ Named(m)' = Named(m)
                                 /\ \A o \in Named(m) : active'[o] = active[o]
    PROVE  DiskCoherent'
<1> SUFFICES ASSUME written = "whole", NEW m \in Name, m # n
             PROVE  Unanswered(m)' \/ Of(disk, m)' = Of(Image(apps), m)'
  BY DEF DiskCoherent
<1>1. Unanswered(m) \/ Of(disk, m) = Of(Image(apps), m)
  BY DEF IInv, DiskCoherent
<1>2. ASSUME Unanswered(m) PROVE Unanswered(m)'
  <2>1. PICK u \in Thread : at[u] = "save" /\ obj[u] # None /\ name[obj[u]] = m
    BY <1>2, ConfigAssumption DEF Unanswered, IInv, ThreadsHold, BeginSave
  <2>2. at'[u] = "save"
    BY <2>1 DEF BeginSave, IInv, TypeOK
  <2> QED
    BY <2>1, <2>2 DEF Unanswered
<1>3. Of(Image(apps), m)' = Of(Image(apps), m)
  BY DEF Of, Image, Entry, Named
<1>4. Of(disk, m)' = Of(disk, m)
  BY DEF Of
<1> QED
  BY <1>1, <1>2, <1>3, <1>4

\* parseApp() uses an object that is in nobody's hands.
LEMMA ParseKeeps == ASSUME IInv, NEW t \in Thread, Parse(t) PROVE IInv'
<1>1. PICK o \in Obj, n \in Name, s \in Status :
          /\ Unused(o)
          /\ name' = [name EXCEPT ![o] = n]
          /\ active' = [active EXCEPT ![o] = s]
          /\ obj' = [obj EXCEPT ![t] = o]
  BY DEF Parse
<1>2. TypeOK'
  BY <1>1 DEF Parse, IInv, TypeOK
<1>3. n # None /\ o \notin apps
  BY <1>1, ConfigAssumption DEF IInv, Allocated, Unused
<1>4. \A x \in apps : name'[x] = name[x] /\ active'[x] = active[x]
  BY <1>1, <1>3 DEF IInv, TypeOK
<1>5. apps' = apps /\ left' = left /\ draft' = draft /\ disk' = disk /\ lock' = lock /\ written' = written
  BY DEF Parse
<1>6. ThreadsHold' /\ RunAllocated'
  BY <1>1, <1>3, <1>5, ConfigAssumption DEF Parse, IInv, TypeOK, ThreadsHold, RunAllocated, Unused
<1>7. \A u \in Thread : at[u] \in {"save", "write"} =>
          /\ at'[u] = at[u] /\ obj'[u] = obj[u]
          /\ obj[u] # None => name'[obj[u]] = name[obj[u]]
  BY <1>1 DEF Parse, IInv, TypeOK, ThreadsHold, Unused
<1>8. DraftCoherent' /\ DiskCoherent'
  BY <1>4, <1>5, <1>6, <1>7, FilesKept DEF Named
<1>9. Allocated' /\ UniqueNames' /\ LeftInList'
  BY <1>4, <1>5 DEF IInv, Allocated, UniqueNames, LeftInList
<1>10. DraftOnce' /\ OneEntry(disk)'
  BY <1>4, <1>5 DEF IInv, DraftOnce, OneEntry
<1> QED
  BY <1>2, <1>6, <1>8, <1>9, <1>10 DEF IInv

\* addApp() and removeApp() take out every application of the name first.
LEMMA ChangeListKeeps ==
    ASSUME IInv, NEW t \in Thread, LockToSave(t) \/ Add(t) \/ Remove(t)
    PROVE  IInv'
<1>1. CASE LockToSave(t)
  <2>1. TypeOK' /\ Allocated' /\ RunAllocated' /\ UniqueNames'
    BY <1>1 DEF LockToSave, BeginSave, IInv, TypeOK, Allocated, RunAllocated, UniqueNames
  <2>2. Unanswered(name[obj[t]])'
    BY <1>1 DEF LockToSave, BeginSave, Unanswered, IInv, TypeOK, ThreadsHold
  <2>3. DiskCoherent'
    BY <1>1, <2>2, OneName DEF LockToSave, Named
  <2> QED
    BY <1>1, <2>1, <2>3, BeginKeeps DEF LockToSave
<1>2. CASE Add(t)
  <2> DEFINE new == (apps \ Named(name[obj[t]])) \union {obj[t]}
  <2>1. obj[t] \in Obj /\ obj[t] # None /\ name[obj[t]] # None
    BY <1>2 DEF Add, IInv, ThreadsHold
  <2>2. apps' = new /\ BeginSave(t, new) /\ StopAll(Named(name[obj[t]]))
    BY <1>2 DEF Add
  <2>3. TypeOK'
    BY <1>2, <2>1, <2>2 DEF Add, BeginSave, StopAll, IInv, TypeOK, Status
  <2>4. Allocated' /\ RunAllocated'
    BY <1>2, <2>1, <2>2 DEF Add, StopAll, IInv, Allocated, RunAllocated
  <2>5. UniqueNames'
    BY <1>2, <2>2 DEF Add, IInv, UniqueNames, Named
  <2>6. Unanswered(name[obj[t]])'
    BY <1>2, <2>1, <2>2 DEF Add, BeginSave, Unanswered, IInv, TypeOK
  <2>7. ASSUME NEW m \in Name \ {name[obj[t]]}
        PROVE  Named(m)' = Named(m) /\ \A o \in Named(m) : active'[o] = active[o]
    BY <1>2, <2>2 DEF Add, StopAll, Named, IInv, TypeOK
  <2>8. DiskCoherent'
    BY <1>2, <2>2, <2>6, <2>7, OneName DEF Add
  <2> QED
    BY <1>2, <2>2, <2>3, <2>4, <2>5, <2>8, BeginKeeps DEF Add
<1>3. CASE Remove(t)
  <2> PICK n \in Name : /\ StopAll(Named(n)) /\ apps' = apps \ Named(n)
                        /\ BeginSave(t, apps \ Named(n))
    BY <1>3 DEF Remove
  <2>1. TypeOK'
    BY <1>3 DEF Remove, BeginSave, StopAll, IInv, TypeOK, Status
  <2>2. Allocated' /\ RunAllocated' /\ UniqueNames'
    BY <1>3 DEF Remove, StopAll, IInv, Allocated, RunAllocated, UniqueNames
  <2>3. Unanswered(n)'
    BY <1>3 DEF Remove, BeginSave, Unanswered, Named, IInv, TypeOK, ThreadsHold
  <2>4. ASSUME NEW m \in Name \ {n}
        PROVE  Named(m)' = Named(m) /\ \A o \in Named(m) : active'[o] = active[o]
    BY <1>3 DEF Remove, StopAll, Named, IInv, TypeOK
  <2>5. DiskCoherent'
    BY <1>3, <2>3, <2>4, OneName DEF Remove
  <2> QED
    BY <1>3, <2>1, <2>2, <2>5, BeginKeeps DEF Remove
<1> QED
  BY <1>1, <1>2, <1>3

\* One more application read: still a faithful, unrepeated draft.
LEMMA ReadKeeps == ASSUME IInv, NEW t \in Thread, NEW o \in Obj, ReadApp(t, o) PROVE IInv'
<1>1. /\ lock = t /\ lock # None /\ o \in left /\ o \in apps /\ name[o] \in Name
      /\ draft' = draft \union {Entry(o)} /\ left' = left \ {o}
  BY ConfigAssumption DEF ReadApp, IInv, LeftInList, Allocated, TypeOK
<1>2. UNCHANGED <<apps, name, active, running, stray, at, obj, op, lock, disk, written, walk, due>>
  BY DEF ReadApp
<1>3. Entry(o) \in Saved /\ Entry(o).name = name[o]
  BY <1>1 DEF Entry, Saved, IInv, TypeOK
<1>4. TypeOK'
  BY <1>1, <1>2, <1>3 DEF IInv, TypeOK
<1>5. DraftCoherent'
  <2>1. (draft \union Image(left))' = draft \union Image(left)
    BY <1>1, <1>2 DEF Image, Entry
  <2> QED
    BY <1>1, <1>2, <2>1 DEF IInv, DraftCoherent, Owed, Of, Image, Entry
<1>6. DraftOnce'
  <2>1. \A d \in draft : d.name # name[o]
    BY <1>1 DEF IInv, DraftOnce, UniqueNames
  <2>2. OneEntry(draft')
    BY <1>1, <1>3, <2>1 DEF IInv, DraftOnce, OneEntry
  <2>3. \A d \in draft' : \E x \in apps \ left' : name[x] = d.name
    BY <1>1, <1>3 DEF IInv, DraftOnce
  <2> QED
    BY <1>2, <2>2, <2>3 DEF DraftOnce, OneEntry
<1>7. DiskCoherent'
  BY <1>2 DEF IInv, DiskCoherent, Unanswered, Named, Of, Image, Entry
<1> QED
  BY <1>1, <1>2, <1>4, <1>5, <1>6, <1>7 DEF IInv, ThreadsHold, Allocated, RunAllocated, UniqueNames,
     LeftInList, OneEntry

\* The rename puts the draft on disk, and only a thread that writes is done.
LEMMA WriteKeeps == ASSUME IInv, NEW t \in Thread, Write(t) \/ WriteFailure(t) \/ TornWrite(t) PROVE IInv'
<1>1. /\ Done(t) /\ lock = t /\ left = {} /\ lock # None /\ at[t] = "write"
      /\ lock' = None /\ at' = [at EXCEPT ![t] = "idle"]
      /\ UNCHANGED <<apps, name, active, running, stray, left, draft, walk, due>>
  BY ConfigAssumption DEF Write, WriteFailure, TornWrite, Done, IInv, ThreadsHold
<1>2. OneEntry(draft)
  BY <1>1 DEF IInv, DraftOnce
<1>3. OneEntry(disk)' /\ disk' \subseteq Saved /\ written' \in {"whole", "none", "torn"}
  BY <1>2 DEF Write, WriteFailure, TornWrite, IInv, OneEntry, TypeOK
<1>4. TypeOK'
  BY <1>1, <1>3 DEF Done, IInv, TypeOK
<1>5. ThreadsHold'
  BY <1>1, ConfigAssumption DEF Done, IInv, ThreadsHold, TypeOK
<1>6. ASSUME NEW n \in Name, Owed(n) PROVE Unanswered(n)'
  <2>1. PICK u \in Thread : at[u] = "save" /\ obj[u] # None /\ name[obj[u]] = n
    BY <1>6 DEF Owed, IInv, ThreadsHold
  <2>2. at'[u] = "save" /\ obj'[u] = obj[u]
    BY <1>1, <2>1 DEF Done, IInv, TypeOK
  <2> QED
    BY <1>1, <2>1, <2>2 DEF Unanswered
<1>7. DiskCoherent'
  <2>1. CASE Write(t)
    <3>1. draft \union Image(left) = draft /\ Image(apps)' = Image(apps)
      BY <1>1 DEF Image, Entry
    <3>2. \A n \in Name : Owed(n) \/ Of(draft, n) = Of(Image(apps), n)
      BY <1>1, <3>1 DEF IInv, DraftCoherent
    <3> QED
      BY <1>1, <1>6, <2>1, <3>1, <3>2 DEF Write, DiskCoherent, Of
  <2>2. CASE WriteFailure(t)
    BY <2>2 DEF WriteFailure, DiskCoherent
  <2>3. CASE TornWrite(t)
    BY <2>3 DEF TornWrite, DiskCoherent
  <2> QED
    BY <2>1, <2>2, <2>3
<1> QED
  BY <1>1, <1>3, <1>4, <1>5, <1>7 DEF IInv, Allocated, RunAllocated, UniqueNames, LeftInList, DraftCoherent, DraftOnce

\* An object is deleted only when no list and no thread holds it.
LEMMA DeleteKeeps == ASSUME IInv, NEW o \in Obj, Delete(o) PROVE IInv'
<1>1. o \notin apps /\ (\A t \in Thread : obj[t] # o) /\ name[o] \in Name
  BY DEF Delete, IInv, TypeOK, Unused
<1>2. TypeOK'
  BY <1>1 DEF Delete, IInv, TypeOK, Status
<1>3. /\ \A x \in apps : name'[x] = name[x] /\ active'[x] = active[x]
      /\ UNCHANGED <<apps, at, obj, lock, left, draft, disk, written>>
  BY <1>1 DEF Delete, IInv, TypeOK
<1>5. ThreadsHold' /\ RunAllocated'
  BY <1>1 DEF Delete, IInv, TypeOK, ThreadsHold, RunAllocated
<1>6. Allocated' /\ UniqueNames' /\ LeftInList' /\ DraftOnce' /\ OneEntry(disk)'
  BY <1>3 DEF IInv, Allocated, UniqueNames, LeftInList, DraftOnce, OneEntry
<1>7. DraftCoherent' /\ DiskCoherent'
  <2>1. \A u \in Thread : obj[u] # None => name'[obj[u]] = name[obj[u]]
    BY <1>1 DEF Delete, IInv, TypeOK, ThreadsHold
  <2> QED
    BY <1>3, <1>5, <2>1, FilesKept DEF Named
<1> QED
  BY <1>2, <1>5, <1>6, <1>7 DEF IInv

\* After a restart the list is the file.
LEMMA CrashKeeps == ASSUME IInv, CrashRestart PROVE IInv'
<1> DEFINE up == {name[o] : o \in {x \in Obj : running[x]}}
           survivors == up \union stray
           twice == up \intersect stray
<1>1. PICK home, loaded, entry :
        /\ home \in [disk -> Obj] /\ loaded \in SUBSET Obj
        /\ entry \in [loaded -> disk]
        /\ \A d \in disk : home[d] \in loaded /\ entry[home[d]] = d
        /\ \A o \in loaded : home[entry[o]] = o
        /\ apps' = loaded
        /\ name' = [o \in Obj |-> IF o \in loaded THEN entry[o].name ELSE None]
        /\ active' = [o \in Obj |-> IF o \in loaded THEN entry[o].active ELSE "STOPPED"]
        /\ running' = [o \in Obj |-> o \in loaded /\ entry[o].name \in survivors]
  <2>1. PICK home \in [disk -> Obj] :
          LET L == {home[d] : d \in disk}
              E == [o \in L |-> CHOOSE d \in disk : home[d] = o]
          IN  /\ \A d, e \in disk : home[d] = home[e] => d = e
              /\ apps' = L
              /\ name' = [o \in Obj |-> IF o \in L THEN E[o].name ELSE None]
              /\ active' = [o \in Obj |-> IF o \in L THEN E[o].active ELSE "STOPPED"]
              /\ running' = [o \in Obj |-> o \in L /\ E[o].name \in survivors]
    BY DEF CrashRestart
  <2> DEFINE L == {home[d] : d \in disk}
             E == [o \in L |-> CHOOSE d \in disk : home[d] = o]
  <2>2. L \in SUBSET Obj
    OBVIOUS
  <2>3. \A o \in L : E[o] \in disk /\ home[E[o]] = o
    OBVIOUS
  <2>4. \A d \in disk : home[d] \in L /\ E[home[d]] = d
    BY <2>1, <2>3
  <2>5. E \in [L -> disk]
    BY <2>3
  <2>6. /\ apps' = L
        /\ name' = [o \in Obj |-> IF o \in L THEN E[o].name ELSE None]
        /\ active' = [o \in Obj |-> IF o \in L THEN E[o].active ELSE "STOPPED"]
        /\ running' = [o \in Obj |-> o \in L /\ E[o].name \in survivors]
    BY <2>1
  <2> HIDE DEF L, E, survivors
  <2> QED
    BY <2>2, <2>3, <2>4, <2>5, <2>6
<1>2. \A o \in loaded : name'[o] = entry[o].name /\ active'[o] = entry[o].active
  BY <1>1
<1>3. \A d \in disk : d.name \in Name /\ d.active \in Status /\ d = [name |-> d.name, active |-> d.active]
  BY DEF IInv, TypeOK, Saved
<1>4. /\ stray' = (survivors \ {d.name : d \in disk}) \union twice
      /\ at' = [t \in Thread |-> "idle"] /\ obj' = [t \in Thread |-> None]
      /\ op' = [t \in Thread |-> "none"] /\ lock' = None /\ left' = {} /\ draft' = {}
      /\ written' = "whole" /\ walk' = {} /\ due' = None /\ disk' = disk
  BY DEF CrashRestart
<1>5. stray' \subseteq Name
  <2>1. stray \subseteq Name
    BY DEF IInv, TypeOK
  <2>2. up \subseteq Name
    BY DEF IInv, TypeOK, RunAllocated
  <2> QED
    BY <1>4, <2>1, <2>2
<1> HIDE DEF up, survivors, twice
<1>6. TypeOK'
  <2>1. \A o \in Obj : o \in loaded => entry[o] \in disk
    BY <1>1
  <2>2. name' \in [Obj -> Name \union {None}]
    BY <1>1, <1>3, <2>1
  <2>3. active' \in [Obj -> Status]
    BY <1>1, <1>3, <2>1 DEF Status
  <2>4. running' \in [Obj -> BOOLEAN]
    BY <1>1
  <2> QED
    BY <1>1, <1>4, <1>5, <2>2, <2>3, <2>4 DEF IInv, TypeOK
<1>7. ThreadsHold'
  BY <1>4, ConfigAssumption DEF ThreadsHold
<1>8. Allocated' /\ RunAllocated'
  <2>1. \A o \in loaded : name'[o] \in Name
    BY <1>1, <1>2, <1>3
  <2>2. \A o \in Obj : running'[o] => o \in loaded
    BY <1>1
  <2>3. apps' = loaded /\ walk' = {} /\ due' \notin Obj /\ None \notin Name
    BY <1>1, <1>4, ConfigAssumption
  <2>4. Allocated'
    BY <2>1, <2>3 DEF Allocated
  <2> QED
    BY <2>1, <2>2, <2>3, <2>4 DEF RunAllocated
<1>9. UniqueNames'
  <2> SUFFICES ASSUME NEW o1 \in loaded, NEW o2 \in loaded, entry[o1].name = entry[o2].name
               PROVE  o1 = o2
    BY <1>1, <1>2 DEF UniqueNames
  <2>1. entry[o1] = entry[o2]
    BY <1>1 DEF IInv, OneEntry
  <2> QED
    BY <1>1, <2>1
<1>10. DiskCoherent'
  <2>1. \A o \in loaded : Entry(o)' = entry[o]
    BY <1>1, <1>2, <1>3 DEF Entry
  <2>2. ASSUME NEW d PROVE d \in Image(apps)' <=> d \in disk
    <3>1. d \in Image(apps)' <=> \E o \in loaded : d = Entry(o)'
      BY <1>1 DEF Image
    <3> QED
      BY <1>1, <2>1, <3>1
  <2> QED
    BY <1>4, <2>2 DEF DiskCoherent, Of
<1>11. LeftInList' /\ DraftCoherent' /\ DraftOnce' /\ OneEntry(disk)'
  BY <1>4 DEF LeftInList, DraftCoherent, DraftOnce, IInv, OneEntry
<1> QED
  BY <1>6, <1>7, <1>8, <1>9, <1>10, <1>11 DEF IInv

-----------------------------------------------------------------------------
\* Every step preserves the invariant.
LEMMA NextIInv == IInv /\ [Next]_cvars => IInv'
<1> SUFFICES ASSUME IInv, [Next]_cvars PROVE IInv'
  OBVIOUS
<1>1. ASSUME NEW t \in Thread, Request(t) PROVE IInv'
  BY <1>1, GetAppKeeps, CallKeeps, ParseKeeps, ChangeListKeeps DEF Request
<1>2. ASSUME NEW t \in Thread, Saving(t) PROVE IInv'
  BY <1>2, ReadKeeps, WriteKeeps DEF Saving
<1>3. CASE Monitor
  <2>1. TypeOK' /\ RunAllocated'
    BY <1>3 DEF Monitor, IInv, TypeOK, RunAllocated, Allocated
  <2> QED
    BY <1>3, <2>1, Untouched DEF Monitor
<1>4. ASSUME NEW o \in Obj, Invoke(o) PROVE IInv'
  <2>1. /\ running' \in [Obj -> BOOLEAN]
        /\ \A x \in Obj : running'[x] => running[x] \/ x = o
    BY <1>4 DEF Invoke, IInv, TypeOK
  <2>2. TypeOK' /\ RunAllocated'
    BY <1>4, <2>1 DEF Invoke, IInv, TypeOK, RunAllocated
  <2> QED
    BY <1>4, <2>2, Untouched DEF Invoke
<1>5. ASSUME NEW o \in Obj, Delete(o) PROVE IInv'
  BY <1>5, DeleteKeeps
<1>6. CASE Exit
  <2>1. TypeOK' /\ RunAllocated'
    BY <1>6 DEF Exit, IInv, TypeOK, RunAllocated
  <2> QED
    BY <1>6, <2>1, Untouched DEF Exit
<1>7. CASE CrashRestart
  BY <1>7, CrashKeeps
<1>8. CASE UNCHANGED cvars
  <2>1. TypeOK' /\ RunAllocated'
    BY <1>8 DEF cvars, IInv, TypeOK, RunAllocated
  <2> QED
    BY <1>8, <2>1, Untouched DEF cvars
<1>9. ASSUME NEW o \in Obj, TimeOut(o) PROVE IInv'
  <2>1. TypeOK' /\ RunAllocated'
    BY <1>9 DEF TimeOut, Unused, IInv, TypeOK, RunAllocated
  <2> QED
    BY <1>9, <2>1, Untouched DEF TimeOut
<1>10. CASE InvokeNow
  <2>1. due \in Obj /\ due' = None /\ None \notin Obj
    BY <1>10, ConfigAssumption DEF InvokeNow, IInv, TypeOK
  <2>2. /\ running' \in [Obj -> BOOLEAN]
        /\ \A x \in Obj : running'[x] => running[x] \/ x = due
    BY <1>10, <2>1 DEF InvokeNow, IInv, TypeOK
  <2>3. TypeOK' /\ RunAllocated'
    BY <1>10, <2>1, <2>2 DEF InvokeNow, IInv, TypeOK, RunAllocated
  <2> QED
    BY <1>10, <2>3, Untouched DEF InvokeNow
<1> QED
  BY <1>1, <1>2, <1>3, <1>4, <1>5, <1>6, <1>7, <1>8, <1>9, <1>10 DEF Next

\* Registry, threads, file and lock stay well typed through crashes.
THEOREM TypeCorrect == Spec => []TypeOK
<1>1. IInv => TypeOK
  BY DEF IInv
<1> QED
  BY InitIInv, NextIInv, <1>1, PTL DEF Spec

\* No two applications of one name are ever registered, although the new
\* object is parsed before the lock is taken, and across crashes.
THEOREM NamesStayUnique == Spec => []UniqueNames
<1>1. IInv => UniqueNames
  BY DEF IInv
<1> QED
  BY InitIInv, NextIInv, <1>1, PTL DEF Spec

\* The file never falls behind the list unnoticed: a difference means a save
\* under way, a save owed, or a failed write.
THEOREM FileFollowsList == Spec => []DiskCoherent
<1>1. IInv => DiskCoherent
  BY DEF IInv
<1> QED
  BY InitIInv, NextIInv, <1>1, PTL DEF Spec

-----------------------------------------------------------------------------
(* The object that addApp() has made is its own until it is in the list:    *)
(* only its TimerAction can have started it, and nobody can have stopped it.*)
OwnNew ==
    \A t \in Thread :
        at[t] = "add" => /\ obj[t] \notin apps \union walk
                         /\ running[obj[t]] \/ due = obj[t] => active[obj[t]] = "NORMAL"
                         /\ \A u \in Thread \ {t} : obj[u] # obj[t]

HInv == IInv /\ OwnNew

\* stop() never starts anything, and what it leaves running was STOPPED before.
LEMMA StopAllStops ==
    ASSUME TypeOK, NEW S \in SUBSET Obj, StopAll(S), NEW o \in Obj, running'[o]
    PROVE  running[o] /\ (active'[o] = "STOPPED" => active[o] = "STOPPED")
BY DEF StopAll, TypeOK, Status

LEMMA InitHInv == Init => HInv
BY InitIInv DEF HInv, Init, OwnNew

\* Threads that look up, make, drop or remove objects keep them apart.
LEMMA RequestHInv == ASSUME HInv, NEW t \in Thread, Request(t) PROVE OwnNew'
<1> USE ConfigAssumption DEF HInv, IInv, TypeOK
<1>1. CASE GetApp(t)
  BY <1>1 DEF GetApp, OwnNew, Allocated
<1>2. CASE CallStart(t)
  BY <1>2 DEF CallStart, OwnNew, ThreadsHold
<1>3. CASE CallStop(t)
  BY <1>3 DEF CallStop, OwnNew, ThreadsHold
<1>4. CASE LockToSave(t)
  BY <1>4 DEF LockToSave, BeginSave, OwnNew
<1>5. CASE Parse(t)
  <2>1. PICK o \in Obj : /\ Unused(o) /\ obj' = [obj EXCEPT ![t] = o]
                         /\ \E n \in Name : name' = [name EXCEPT ![o] = n]
    BY <1>5 DEF Parse
  <2>2. o \notin apps \union walk /\ ~running[o] /\ due # o /\ \A u \in Thread : obj[u] # o
    BY <2>1 DEF Unused, Allocated, RunAllocated, ThreadsHold
  <2> QED
    BY <1>5, <2>1, <2>2 DEF Parse, OwnNew
<1>6. CASE Add(t)
  BY <1>6 DEF Add, StopAll, Named, BeginSave, OwnNew, ThreadsHold
<1>7. CASE Remove(t)
  <2>1. PICK n \in Name : StopAll(Named(n)) /\ apps' = apps \ Named(n)
                          /\ at' = [at EXCEPT ![t] = "write"] /\ UNCHANGED <<name, obj, walk, due>>
    BY <1>7 DEF Remove, BeginSave
  <2>2. \A o \in Obj : running'[o] => running[o]
    <3>1. Named(n) \in SUBSET Obj
      BY DEF Named
    <3> QED
      BY <2>1, <3>1, StopAllStops
  <2>5. \A o \in Obj \ apps : active'[o] = active[o]
    BY <2>1 DEF StopAll, Named
  <2>3. /\ apps' \subseteq apps /\ UNCHANGED <<name, obj, walk, due>>
        /\ \A u \in Thread : at'[u] = "add" => at[u] = "add"
    BY <2>1
  <2>4. \A u \in Thread : at[u] = "add" => obj[u] \in Obj
    BY DEF ThreadsHold
  <2> HIDE DEF IInv, TypeOK
  <2> QED
    BY <2>2, <2>3, <2>4, <2>5 DEF OwnNew
<1> QED
  BY <1>1, <1>2, <1>3, <1>4, <1>5, <1>6, <1>7 DEF Request

\* Everybody else calls objects that are not a new one, or changes nothing of them.
LEMMA NextHInv == HInv /\ [Next]_cvars => HInv'
<1> SUFFICES ASSUME HInv, [Next]_cvars PROVE OwnNew'
  BY NextIInv DEF HInv
<1> USE ConfigAssumption DEF HInv, IInv, TypeOK
<1>1. ASSUME NEW t \in Thread, Request(t) PROVE OwnNew'
  BY <1>1, RequestHInv
<1>2. ASSUME NEW t \in Thread, Saving(t) PROVE OwnNew'
  <2>1. /\ UNCHANGED <<apps, name, active, running, walk, due>>
        /\ at' = at \/ at' = [at EXCEPT ![t] = "idle"]
        /\ obj' = obj \/ obj' = [obj EXCEPT ![t] = None]
    BY <1>2 DEF Saving, ReadApp, Write, WriteFailure, TornWrite, Done
  <2>2. ASSUME NEW u \in Thread PROVE /\ at'[u] = "add" => at[u] = "add"
                                      /\ obj'[u] \in {obj[u], None}
    BY <2>1
  <2>3. ASSUME NEW u \in Thread, at[u] = "add" PROVE at'[u] = "add" => obj'[u] = obj[u]
    BY <1>2, <2>3 DEF Saving, ReadApp, Write, WriteFailure, TornWrite, Done
  <2>4. \A u \in Thread : at[u] = "add" => obj[u] # None
    BY DEF ThreadsHold
  <2> QED
    BY <2>1, <2>2, <2>3, <2>4 DEF OwnNew
<1>3. CASE Monitor
  BY <1>3 DEF Monitor, OwnNew
<1>4. ASSUME NEW o \in Obj, Invoke(o) PROVE OwnNew'
  BY <1>4 DEF Invoke, OwnNew, ThreadsHold
<1>5. ASSUME NEW o \in Obj, Delete(o) PROVE OwnNew'
  BY <1>5 DEF Delete, OwnNew, ThreadsHold
<1>6. CASE Exit
  BY <1>6 DEF Exit, OwnNew, ThreadsHold
<1>7. CASE CrashRestart
  BY <1>7 DEF CrashRestart, OwnNew
<1>8. CASE UNCHANGED cvars
  BY <1>8 DEF cvars, OwnNew
<1>9. ASSUME NEW o \in Obj, TimeOut(o) PROVE OwnNew'
  BY <1>9 DEF TimeOut, OwnNew
<1>10. CASE InvokeNow
  BY <1>10 DEF InvokeNow, OwnNew, ThreadsHold
<1> QED
  BY <1>1, <1>2, <1>3, <1>4, <1>5, <1>6, <1>7, <1>8, <1>9, <1>10 DEF Next

\* No step but a restart, or a callback under way, makes a registered STOPPED
\* application run.
StaysDown ==
    \A o \in apps' : active'[o] = "STOPPED" /\ running'[o]
                    => \/ o \in apps /\ active[o] = "STOPPED" /\ running[o]
                       \/ o = due /\ InvokeNow

LEMMA StepStaysDown == ASSUME HInv, [Next]_cvars, ~CrashRestart PROVE StaysDown
<1> USE DEF HInv, IInv, TypeOK, StaysDown
<1>1. ASSUME NEW t \in Thread, Request(t) PROVE StaysDown
  <2>1. CASE GetApp(t) \/ LockToSave(t)
    BY <2>1 DEF GetApp, LockToSave
  <2>2. CASE CallStart(t)
    BY <2>2, <1>1 DEF CallStart, ThreadsHold
  <2>3. CASE CallStop(t)
    BY <2>3, <1>1 DEF CallStop, ThreadsHold
  <2>4. CASE Parse(t)
    BY <2>4 DEF Parse, Unused, Allocated
  <2>5. CASE Add(t)
    <3>1. /\ StopAll(Named(name[obj[t]])) /\ apps' \subseteq apps \union {obj[t]}
          /\ obj[t] \notin Named(name[obj[t]]) /\ obj[t] \in Obj
          /\ running[obj[t]] => active[obj[t]] = "NORMAL"
      BY <2>5 DEF Add, OwnNew, Named, ThreadsHold
    <3>3. running'[obj[t]] => active'[obj[t]] = "NORMAL"
      BY <3>1 DEF StopAll
    <3>2. apps' \subseteq Obj /\ Named(name[obj[t]]) \subseteq Obj
      BY <1>1, NextIInv DEF Named, Next
    <3> QED
      BY <3>1, <3>2, <3>3, StopAllStops
  <2>6. CASE Remove(t)
    <3>1. PICK n \in Name : StopAll(Named(n)) /\ apps' = apps \ Named(n)
      BY <2>6 DEF Remove
    <3>2. Named(n) \subseteq Obj
      BY DEF Named
    <3> QED
      BY <3>1, <3>2, StopAllStops
  <2> QED
    BY <1>1, <2>1, <2>2, <2>3, <2>4, <2>5, <2>6 DEF Request
<1>2. ASSUME NEW t \in Thread, Saving(t) PROVE StaysDown
  BY <1>2 DEF Saving, ReadApp, Write, WriteFailure, TornWrite, Done
<1>3. CASE Monitor \/ UNCHANGED cvars
  BY <1>3 DEF Monitor, cvars
<1>4. ASSUME NEW o \in Obj, Invoke(o) PROVE StaysDown
  BY <1>4 DEF Invoke
<1>5. ASSUME NEW o \in Obj, Delete(o) PROVE StaysDown
  BY <1>5 DEF Delete
<1>6. CASE Exit
  BY <1>6 DEF Exit
<1>7. ASSUME NEW o \in Obj, TimeOut(o) PROVE StaysDown
  BY <1>7 DEF TimeOut
<1>8. CASE InvokeNow
  <2>1. \A o \in Obj : o # due => running'[o] = running[o]
    BY <1>8 DEF InvokeNow
  <2> QED
    BY <1>8, <2>1 DEF InvokeNow
<1> QED
  BY <1>1, <1>2, <1>3, <1>4, <1>5, <1>6, <1>7, <1>8 DEF Next

(* A registered STOPPED application gets a process from a restart, from a   *)
(* TimerAction that found it NORMAL before it was stopped, or not at all.   *)
THEOREM StoppedDownAlways == Spec => StoppedStaysDown
<1>1. HInv /\ [Next]_cvars => [~CrashRestart => StaysDown]_cvars
  BY StepStaysDown
<1>2. StoppedStaysDown <=> [][~CrashRestart => StaysDown]_cvars
  BY PTL DEF StoppedStaysDown, StaysDown
<1> QED
  BY InitHInv, NextHInv, <1>1, <1>2, PTL DEF Spec
=============================================================================
