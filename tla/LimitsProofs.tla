---------------------------- MODULE LimitsProofs ----------------------------
(***************************************************************************)
(* Proofs about Limits, for any names, objects, processes and limits.      *)
(***************************************************************************)
EXTENDS Limits, FiniteSetTheorems, TLAPS

\* Limits!Again by objects instead of their number.
OnlyOne(n) ==
    \A o, u \in Obj :
        app[o] # None /\ app[u] # None /\ app[o].name = n /\ app[u].name = n => o = u

NameOf(p) == app[proc[p].obj].name
LimitOf(p) == app[proc[p].obj].limit

\* The constructor is at work; it has not looked at the swap limit; setCgroup() is at work.
Early == {"ask", "set", "find", "file", "base", "path"}
First == {"ask", "set", "find", "file"}
Working == {"mkdir", "limit", "swap", "memsw"}

\* The indexes of an object's processes differ and are those it has counted.
Counted ==
    /\ \A p \in Proc : proc[p] # None =>
           app[proc[p].obj] # None /\ proc[p].index <= app[proc[p].obj].index
    /\ \A p, q \in Proc :
           /\ proc[p] # None /\ proc[q] # None /\ p # q /\ proc[p].obj = proc[q].obj
           => proc[p].index # proc[q].index

\* The directories that have been made are of indexes that were counted.
Known(d) == \E o \in Obj : app[o] # None /\ app[o].name = d[2] /\ d[3] <= app[o].index

Made ==
    /\ \A d \in DOMAIN group : /\ Known(d)
                               /\ d \in Root \X Name \X (1..MaxIndex)
                               /\ group[d] \in [limit : Nat, memsw : Nat]
    /\ \A p \in Proc : proc[p] # None =>
           /\ proc[p].at \in Early => proc[p].root = None
           /\ proc[p].at \in Working => proc[p].root \in Root

\* p has missed the hierarchy, or its file for the swap limit, without an excuse ...
Short(p) ==
    \/ proc[p].held # "nothing" /\ proc[p].root \in Root /\ ~proc[p].root.mounted
    \/ /\ proc[p].held = "both" /\ LimitOf(p).mem = 0 /\ accounting
       /\ proc[p].swap # LimitOf(p).virt

\* ... which means that nobody finds it any more.
NeverFound(p) == retrieved /\ Looking \subseteq {p} /\ ~root.mounted

FirstOf(p) == proc[p].held = "both" /\ (LimitOf(p).mem = 0 => proc[p].swap = LimitOf(p).virt)

Lookup ==
    \A p \in Proc : proc[p] # None =>
        /\ proc[p].at \in {"find", "file", "base", "path"} => retrieved
        /\ proc[p].at \in First => FirstOf(p)
        /\ proc[p].at \notin First /\ Short(p) => NeverFound(p)

\* Nobody is in the directory of a process, in whatever hierarchy, but itself.
Mine ==
    \A p, q \in Proc :
        /\ proc[p] # None /\ member[q] # None /\ OnlyOne(NameOf(p))
        /\ member[q][2] = NameOf(p) /\ member[q][3] = proc[p].index
        => q = p

Alone ==
    \A p, q \in Proc :
        member[p] # None /\ member[p] = member[q] /\ OnlyOne(member[p][2]) => p = q

\* How far a program is on its way into its group.
Place(p, r) == <<r, NameOf(p), proc[p].index>>

Plain(p) ==
    /\ proc[p] # None /\ proc[p].held # "nothing"
    /\ OnlyOne(NameOf(p)) /\ Printable(LimitOf(p))

\* p is in its directory d.
Inside(p, d) ==
    /\ d \in DOMAIN group
    /\ proc[p].at = "limit" => group[d].memsw = NoLimit
    /\ proc[p].at # "limit" => member[p] = d /\ group[d].limit = Asked(LimitOf(p))
    /\ proc[p].at = "done" /\ LimitOf(p).mem = 0 /\ accounting
       /\ proc[p].swap = LimitOf(p).virt => group[d].memsw = LimitOf(p).virt

Stage(p) ==
    /\ proc[p].mem = Asked(LimitOf(p))
    /\ proc[p].at \in Early \union {"mkdir"} => \A r : Place(p, r) \notin DOMAIN group
    /\ proc[p].at \notin Early \union {"mkdir"} =>
           proc[p].root \in Root /\ (InHierarchy(Dir(p)) => Inside(p, Dir(p)))

Stages == \A p \in up : Plain(p) => Stage(p)

IInv == TypeOK /\ Counted /\ Made /\ Lookup /\ Mine /\ Alone /\ Stages

-----------------------------------------------------------------------------
(* The operators.                                                           *)

LEMMA MaxOfTwo ==
    ASSUME NEW a \in Int, NEW b \in Int
    PROVE  Max({a, b}) = IF a >= b THEN a ELSE b
<1> DEFINE m == IF a >= b THEN a ELSE b
<1>1. m \in {a, b} /\ \A y \in {a, b} : m >= y
  OBVIOUS
<1>2. ASSUME NEW x \in {a, b}, \A y \in {a, b} : x >= y PROVE x = m
  BY <1>2
<1> QED
  BY <1>1, <1>2 DEF Max

(* LinuxCgroup's constructor keeps the limit the application asks for.      *)
LEMMA ClampedFacts ==
    ASSUME NEW l \in Limit
    PROVE  /\ Clamped(l).mem \in Nat /\ Clamped(l).swap \in Int
           /\ Clamped(l).mem = Asked(l)
           /\ l.mem = 0 => Clamped(l).swap = l.virt
<1>1. l.mem \in Nat /\ l.virt \in Nat
  BY LimitsAssumption
<1> DEFINE s == l.virt - l.mem
<1>2. Clamped(l) = [mem |-> IF l.mem > 0 THEN Max({l.mem, 4}) ELSE Max({s, 0}), swap |-> s]
  BY DEF Clamped
<1>3. Asked(l) = IF l.mem = 0 THEN l.virt ELSE Max({l.mem, 4})
  BY DEF Asked
<1>4. Max({l.mem, 4}) = IF l.mem >= 4 THEN l.mem ELSE 4
  BY <1>1, MaxOfTwo
<1>5. Max({s, 0}) = IF s >= 0 THEN s ELSE 0
  BY <1>1, MaxOfTwo
<1> QED
  BY <1>1, <1>2, <1>3, <1>4, <1>5

LEMMA PrintedFacts ==
    /\ \A n \in Int : Printed(n) \in Int
    /\ \A n \in Int : 1 <= n /\ n <= 2047 => Printed(n) = n
  BY DEF Printed

(* More than one object of a name.                                          *)
LEMMA AgainFacts ==
    ASSUME NEW n \in Name, n \notin Again
    PROVE  OnlyOne(n)
<1> DEFINE S == {o \in Obj : app[o] # None /\ app[o].name = n}
<1>1. IsFiniteSet(S)
  BY LimitsAssumption, FS_Subset
<1>2. ~(Cardinality(S) > 1) /\ Cardinality(S) \in Nat
  BY <1>1, FS_CardinalityType DEF Again
<1> SUFFICES ASSUME NEW o \in S, NEW u \in S, o # u PROVE FALSE
  BY DEF OnlyOne
<1>3. IsFiniteSet({o, u}) /\ Cardinality({o, u}) <= Cardinality(S)
  BY <1>1, FS_Subset
<1>4. Cardinality({o, u}) = 2
  <2>1. IsFiniteSet({o}) /\ Cardinality({o}) = 1
    BY FS_Singleton
  <2>2. {o, u} = {o} \union {u}
    OBVIOUS
  <2>3. Cardinality({o} \union {u}) = Cardinality({o}) + 1
    BY <2>1, FS_AddElement
  <2> QED
    BY <2>1, <2>2, <2>3
<1> QED
  BY <1>2, <1>3, <1>4

-----------------------------------------------------------------------------
(* What steps have in common.  Objects are made and count further.          *)
Grows ==
    \A o \in Obj : app[o] # None =>
        /\ app'[o] # None /\ app'[o].name = app[o].name /\ app'[o].limit = app[o].limit
        /\ app[o].index <= app'[o].index

\* A Process stays with its object and its index.
Follows(p) ==
    /\ proc[p] # None
    /\ proc'[p].obj = proc[p].obj /\ proc'[p].index = proc[p].index
    /\ proc'[p].mem = proc[p].mem
    /\ proc'[p].held # "nothing" => proc[p].held # "nothing"
    /\ proc'[p].held = "both" => proc[p].held = "both"

\* Only directory d changes.
ChangesAt(d) ==
    \A e : e # d => /\ e \in DOMAIN group <=> e \in DOMAIN group'
                    /\ e \in DOMAIN group => group'[e] = group[e]

LEMMA AppTyped ==
    ASSUME TypeOK, NEW o \in Obj, app[o] # None
    PROVE  app[o] \in Object /\ app[o].name \in Name /\ app[o].limit \in Limit
           /\ app[o].index \in 0..MaxIndex
  BY DEF TypeOK, Object

LEMMA ProcTyped ==
    ASSUME TypeOK, NEW p \in Proc, proc[p] # None
    PROVE  /\ proc[p] \in Started /\ proc[p].obj \in Obj /\ proc[p].index \in 1..MaxIndex
           /\ proc[p].mem \in Nat /\ proc[p].swap \in Int
           /\ proc[p].root \in Root \union {None}
  BY DEF TypeOK, Started

LEMMA KnownKept ==
    ASSUME TypeOK, TypeOK', Grows, NEW d, d[3] \in Int, Known(d)
    PROVE  Known(d)'
<1>1. PICK o \in Obj : app[o] # None /\ app[o].name = d[2] /\ d[3] <= app[o].index
  BY DEF Known
<1>2. app'[o] # None /\ app'[o].name = d[2] /\ app[o].index <= app'[o].index
  BY <1>1 DEF Grows
<1>3. app[o].index \in Int /\ app'[o].index \in Int
  BY <1>1, <1>2, LimitsAssumption DEF TypeOK, Object
<1>4. d[3] <= app'[o].index
  BY <1>1, <1>2, <1>3
<1> QED
  BY <1>2, <1>4 DEF Known

LEMMA OnlyBefore ==
    ASSUME Grows, NEW n, OnlyOne(n)'
    PROVE  OnlyOne(n)
  BY DEF Grows, OnlyOne

LEMMA NamesKept ==
    ASSUME TypeOK, Counted, Grows, NEW p \in Proc, proc'[p] # None, Follows(p)
    PROVE  /\ proc[p].obj \in Obj /\ app[proc[p].obj] # None
           /\ NameOf(p)' = NameOf(p) /\ LimitOf(p)' = LimitOf(p)
           /\ Asked(LimitOf(p))' = Asked(LimitOf(p)) /\ Printable(LimitOf(p))' = Printable(LimitOf(p))
           /\ \A r : Place(p, r)' = Place(p, r)
           /\ proc'[p].root = proc[p].root => Dir(p)' = Dir(p)
<1>1. proc[p].obj \in Obj /\ app[proc[p].obj] # None
  BY ProcTyped DEF Counted, Follows
<1>2. NameOf(p)' = NameOf(p) /\ LimitOf(p)' = LimitOf(p)
  BY <1>1 DEF Grows, Follows, NameOf, LimitOf
<1>3. Asked(LimitOf(p))' = Asked(LimitOf(p))
  BY <1>2 DEF Asked
<1>4. Printable(LimitOf(p))' = Printable(LimitOf(p))
  BY <1>2, <1>3 DEF Printable
<1>5. proc'[p].root = proc[p].root => Dir(p)' = Dir(p)
  BY <1>1 DEF Grows, Follows, Dir
<1> QED
  BY <1>1, <1>2, <1>3, <1>4, <1>5 DEF Follows, Place

LEMMA CountedKept ==
    ASSUME TypeOK, TypeOK', Counted, Grows, \A p \in Proc : proc'[p] # None => Follows(p)
    PROVE  Counted'
<1>1. ASSUME NEW p \in Proc, proc'[p] # None
      PROVE  app'[proc'[p].obj] # None /\ proc'[p].index <= app'[proc'[p].obj].index
  <2> DEFINE o == proc[p].obj
  <2>1. proc[p] # None /\ proc'[p].obj = o /\ proc'[p].index = proc[p].index
    BY <1>1 DEF Follows
  <2>2. o \in Obj /\ proc[p].index \in Int /\ app[o] # None /\ proc[p].index <= app[o].index
    BY <2>1, ProcTyped DEF Counted
  <2>3. app'[o] # None /\ app[o].index <= app'[o].index
    BY <2>2 DEF Grows
  <2>4. app[o].index \in Int /\ app'[o].index \in Int
    BY <2>2, <2>3, LimitsAssumption DEF TypeOK, Object
  <2> HIDE DEF o
  <2> QED
    BY <2>1, <2>2, <2>3, <2>4
<1>2. ASSUME NEW p \in Proc, NEW q \in Proc, proc'[p] # None, proc'[q] # None, p # q,
             proc'[p].obj = proc'[q].obj
      PROVE  proc'[p].index # proc'[q].index
  BY <1>2 DEF Counted, Follows
<1> QED
  BY <1>1, <1>2 DEF Counted

(* Two processes of an object that has its name for itself have different   *)
(* directories, in whatever hierarchies.                                    *)
LEMMA Apart ==
    ASSUME TypeOK, Counted, NEW p \in Proc, NEW q \in Proc, proc[p] # None, proc[q] # None,
           OnlyOne(NameOf(p)), NameOf(q) = NameOf(p), proc[q].index = proc[p].index
    PROVE  p = q
<1>1. proc[p].obj \in Obj /\ app[proc[p].obj] # None /\ proc[q].obj \in Obj /\ app[proc[q].obj] # None
  BY ProcTyped DEF Counted
<1>2. proc[p].obj = proc[q].obj
  BY <1>1 DEF OnlyOne, NameOf
<1> QED
  BY <1>2 DEF Counted

LEMMA DirParts ==
    ASSUME NEW p
    PROVE  Dir(p)[1] = proc[p].root /\ Dir(p)[2] = NameOf(p) /\ Dir(p)[3] = proc[p].index
  BY DEF Dir, NameOf

(* Programs join the directories of their own processes.                    *)
LEMMA MembersKept ==
    ASSUME TypeOK, TypeOK', Counted, Mine, Alone, Grows,
           \A p \in Proc : proc'[p] # None => Follows(p),
           \A p \in Proc : \/ member'[p] \in {member[p], None}
                           \/ proc[p] # None /\ member'[p] = Dir(p)
    PROVE  Mine' /\ Alone'
<1>1. ASSUME NEW p \in Proc, NEW q \in Proc, proc'[p] # None, member'[q] # None,
             OnlyOne(NameOf(p))', member'[q][2] = NameOf(p)', member'[q][3] = proc'[p].index
      PROVE  q = p
  <2>1. /\ proc[p] # None /\ NameOf(p)' = NameOf(p) /\ proc'[p].index = proc[p].index
        /\ OnlyOne(NameOf(p))
    BY <1>1, NamesKept, OnlyBefore DEF Follows
  <2>2. CASE member'[q] = member[q]
    BY <1>1, <2>1, <2>2 DEF Mine
  <2>3. CASE proc[q] # None /\ member'[q] = Dir(q)
    BY <1>1, <2>1, <2>3, DirParts, Apart
  <2> QED
    BY <1>1, <2>2, <2>3
<1>2. ASSUME NEW p \in Proc, NEW q \in Proc, member'[p] # None, member'[p] = member'[q],
             \A o, u \in Obj : /\ app'[o] # None /\ app'[o].name = member'[p][2]
                               /\ app'[u] # None /\ app'[u].name = member'[p][2]
                               => o = u
      PROVE  p = q
  <2>1. OnlyOne(member'[p][2])
    BY <1>2 DEF Grows, OnlyOne
  <2>2. CASE member'[p] = member[p] /\ member'[q] = member[q]
    BY <1>2, <2>1, <2>2 DEF Alone
  <2>3. CASE proc[p] # None /\ member'[p] = Dir(p) /\ member'[q] = member[q]
    <3>1. member[q] = Dir(p) /\ member[q] # None /\ OnlyOne(Dir(p)[2])
      BY <1>2, <2>1, <2>3 DEF OnlyOne
    <3>2. member[q][2] = NameOf(p) /\ member[q][3] = proc[p].index /\ OnlyOne(NameOf(p))
      BY <3>1, DirParts
    <3> QED
      BY <2>3, <3>1, <3>2 DEF Mine
  <2>4. CASE proc[q] # None /\ member'[q] = Dir(q) /\ member'[p] = member[p]
    <3>1. member[p] = Dir(q) /\ member[p] # None /\ OnlyOne(Dir(q)[2])
      BY <1>2, <2>1, <2>4 DEF OnlyOne
    <3>2. member[p][2] = NameOf(q) /\ member[p][3] = proc[q].index /\ OnlyOne(NameOf(q))
      BY <3>1, DirParts
    <3> QED
      BY <2>4, <3>1, <3>2 DEF Mine
  <2>5. CASE proc[p] # None /\ member'[p] = Dir(p) /\ proc[q] # None /\ member'[q] = Dir(q)
    <3>1. Dir(q) = Dir(p) /\ OnlyOne(Dir(p)[2])
      BY <1>2, <2>1, <2>5 DEF OnlyOne
    <3>2. NameOf(q) = NameOf(p) /\ proc[q].index = proc[p].index /\ OnlyOne(NameOf(p))
      BY <3>1, DirParts
    <3> QED
      BY <2>5, <3>2, Apart
  <2>6. /\ member'[p] = member[p] \/ (proc[p] # None /\ member'[p] = Dir(p))
        /\ member'[q] = member[q] \/ (proc[q] # None /\ member'[q] = Dir(q))
    BY <1>2
  <2> QED
    BY <2>2, <2>3, <2>4, <2>5, <2>6
<1> QED
  <2>1. Mine'
    BY <1>1 DEF Mine
  <2>2. Alone'
    BY <1>2 DEF Alone, OnlyOne
  <2> QED
    BY <2>1, <2>2

(* A program is as far as before while nothing of its own changes.          *)
LEMMA StageKept ==
    ASSUME IInv, Grows, NEW p \in up, proc'[p] = proc[p], Plain(p)',
           member'[p] = member[p], accounting' = accounting,
           \A r : Place(p, r) \in DOMAIN group <=> Place(p, r) \in DOMAIN group',
           \A r : Place(p, r) \in DOMAIN group => group'[Place(p, r)] = group[Place(p, r)]
    PROVE  Stage(p)'
<1>1. p \in Proc /\ proc[p] # None /\ proc'[p] # None
  BY DEF IInv, TypeOK, Plain
<1>2. /\ NameOf(p)' = NameOf(p) /\ LimitOf(p)' = LimitOf(p) /\ Dir(p)' = Dir(p)
      /\ Asked(LimitOf(p))' = Asked(LimitOf(p)) /\ Printable(LimitOf(p))' = Printable(LimitOf(p))
      /\ \A r : Place(p, r)' = Place(p, r)
  BY <1>1, NamesKept DEF IInv, Follows
<1>3. Plain(p)
  BY <1>1, <1>2, OnlyBefore DEF Plain
<1>4. Stage(p)
  BY <1>3 DEF IInv, Stages
<1>5. Dir(p) = Place(p, proc[p].root)
  BY DEF Dir, Place, NameOf
<1>6. Inside(p, Dir(p)) => Inside(p, Dir(p))'
  BY <1>1, <1>2, <1>5 DEF Inside
<1>7. InHierarchy(Dir(p))' = InHierarchy(Dir(p))
  BY <1>2 DEF InHierarchy
<1> QED
  BY <1>1, <1>2, <1>4, <1>6, <1>7 DEF Stage

LEMMA OthersStage ==
    ASSUME IInv, Grows, NEW q \in Proc, proc[q] # None, ChangesAt(Dir(q)),
           NEW p \in up, p # q, proc'[p] = proc[p], Plain(p)', member'[p] = member[p],
           accounting' = accounting
    PROVE  Stage(p)'
<1>1. p \in Proc /\ proc[p] # None /\ proc'[p] # None
  BY DEF IInv, TypeOK, Plain
<1>2. NameOf(p)' = NameOf(p) /\ OnlyOne(NameOf(p))
  BY <1>1, NamesKept, OnlyBefore DEF IInv, Follows, Plain
<1>3. ASSUME NEW r PROVE Dir(q) # Place(p, r)
  <2> SUFFICES ASSUME Dir(q) = Place(p, r) PROVE FALSE
    OBVIOUS
  <2>1. NameOf(q) = NameOf(p) /\ proc[q].index = proc[p].index
    BY DirParts DEF Place
  <2> QED
    BY <1>1, <1>2, <2>1, Apart DEF IInv
<1>4. ASSUME NEW r
      PROVE  /\ Place(p, r) \in DOMAIN group <=> Place(p, r) \in DOMAIN group'
             /\ Place(p, r) \in DOMAIN group => group'[Place(p, r)] = group[Place(p, r)]
  BY <1>3 DEF ChangesAt
<1> QED
  BY <1>4, StageKept

(* Once p is NeverFound it stays so, whatever another thread does.          *)
LEMMA FoundKept ==
    ASSUME NEW p, NeverFound(p), retrieved => retrieved',
           \A q \in Looking' \ {p} : retrieved => q \in Looking,
           Looking \subseteq {p} => root' = root
    PROVE  NeverFound(p)'
  BY DEF NeverFound

(* A process that is as it was keeps its part of Lookup.                    *)
LEMMA SameLookup ==
    ASSUME TypeOK, Counted, Grows, Lookup, NEW p \in Proc, proc'[p] = proc[p], proc[p] # None,
           accounting' = accounting, retrieved => retrieved',
           proc[p].at \notin First /\ NeverFound(p) => NeverFound(p)'
    PROVE  /\ proc'[p].at \in {"find", "file", "base", "path"} => retrieved'
           /\ proc'[p].at \in First => FirstOf(p)'
           /\ proc'[p].at \notin First /\ Short(p)' => NeverFound(p)'
<1>1. LimitOf(p)' = LimitOf(p)
  BY NamesKept DEF Follows
<1>2. Short(p)' => Short(p)
  BY <1>1 DEF Short
<1>3. FirstOf(p) => FirstOf(p)'
  BY <1>1 DEF FirstOf
<1> QED
  BY <1>2, <1>3 DEF Lookup

LEMMA GrowsIfSame == ASSUME TypeOK, app' = app PROVE Grows
<1>1. ASSUME NEW o \in Obj, app[o] # None PROVE app[o].index <= app[o].index
  BY <1>1, AppTyped, LimitsAssumption
<1> QED
  BY <1>1 DEF Grows

(* Steps that start nothing and add no directory.                           *)
LEMMA Quiet ==
    ASSUME IInv, TypeOK', Grows, UNCHANGED <<retrieved, root, accounting>>,
           \A p \in Proc : proc'[p] \in {proc[p], None}, \A p \in Looking : proc'[p] = proc[p],
           \A p \in Proc : member'[p] \in {member[p], None},
           up' \subseteq up, \A p \in up' : member'[p] = member[p],
           \/ group' = group
           \/ \E q \in Proc \ up' :
                 /\ proc[q] # None /\ ChangesAt(Dir(q))
                 /\ DOMAIN group' \subseteq DOMAIN group \ {Dir(q)}
    PROVE  IInv'
<1> USE DEF IInv
<1>1. \A p \in Proc : proc'[p] # None => proc'[p] = proc[p] /\ Follows(p)
  BY DEF Follows
<1>2. Counted' /\ Mine' /\ Alone'
  <2>1. Counted'
    BY <1>1, CountedKept
  <2>2. Mine' /\ Alone'
    BY <1>1, MembersKept
  <2> QED
    BY <2>1, <2>2
<1>3. Lookup'
  <2>1. Looking' = Looking
    BY DEF Looking
  <2>2. ASSUME NEW p \in Proc, proc'[p] # None
        PROVE  /\ proc'[p].at \in {"find", "file", "base", "path"} => retrieved'
               /\ proc'[p].at \in First => FirstOf(p)'
               /\ proc'[p].at \notin First /\ Short(p)' => NeverFound(p)'
    <3>1. NeverFound(p) => NeverFound(p)'
      BY <2>1 DEF NeverFound
    <3> QED
      BY <1>1, <2>2, <3>1, SameLookup
  <2> QED
    BY <2>2 DEF Lookup
<1>4. Made'
  <2>1. \A d \in DOMAIN group' : d \in DOMAIN group /\ group'[d] = group[d]
    BY DEF ChangesAt
  <2>2. ASSUME NEW d \in DOMAIN group'
        PROVE  /\ Known(d)' /\ d \in Root \X Name \X (1..MaxIndex)
               /\ group'[d] \in [limit : Nat, memsw : Nat]
    <3>1. /\ Known(d) /\ d \in Root \X Name \X (1..MaxIndex)
          /\ group[d] \in [limit : Nat, memsw : Nat]
      BY <2>1, <2>2 DEF Made
    <3>2. d[3] \in Int
      BY <3>1
    <3> QED
      BY <2>1, <2>2, <3>1, <3>2, KnownKept
  <2>3. ASSUME NEW p \in Proc, proc'[p] # None
        PROVE  /\ proc'[p].at \in Early => proc'[p].root = None
               /\ proc'[p].at \in Working => proc'[p].root \in Root
    BY <1>1, <2>3 DEF Made
  <2> QED
    BY <2>2, <2>3 DEF Made
<1>5. Stages'
  <2> SUFFICES ASSUME NEW p \in up', Plain(p)' PROVE Stage(p)'
    BY DEF Stages
  <2>1. p \in up /\ p \in Proc /\ proc'[p] = proc[p] /\ member'[p] = member[p]
    BY <1>1 DEF TypeOK, Plain
  <2>2. CASE group' = group
    BY <2>1, <2>2, StageKept
  <2>3. CASE group' # group
    BY <2>1, <2>3, OthersStage
  <2> QED
    BY <2>2, <2>3
<1> QED
  BY <1>2, <1>3, <1>4, <1>5

-----------------------------------------------------------------------------
(* The initial states and the actions.                                      *)

LEMMA InitIInv == Init => IInv
<1> SUFFICES ASSUME Init PROVE IInv
  OBVIOUS
<1>1. /\ \A o \in Obj : app[o] = None
      /\ \A p \in Proc : proc[p] = None /\ member[p] = None
      /\ DOMAIN group = {} /\ up = {} /\ left = {} /\ alive = {}
      /\ root = Nowhere /\ retrieved = FALSE /\ accounting \in BOOLEAN
  BY DEF Init
<1>4. root \in Root
  BY <1>1 DEF Root, Nowhere
<1>2. TypeOK
  BY <1>1, <1>4 DEF Init, TypeOK
<1>3. Looking = {}
  BY <1>1 DEF Looking
<1> QED
  BY <1>1, <1>2, <1>3 DEF IInv, Counted, Made, Lookup, Mine, Alone, Stages

LEMMA CreateStep == ASSUME IInv, NEW o \in Obj, Create(o) PROVE IInv'
<1>1. PICK n \in Name, l \in Limit : app' = [app EXCEPT ![o] = [name |-> n, limit |-> l, index |-> 0]]
  BY DEF Create
<1>2. /\ app[o] = None /\ alive' = alive \union {o}
      /\ UNCHANGED <<proc, up, left, group, member, retrieved, root, accounting>>
  BY DEF Create, kernel
<1>3. [name |-> n, limit |-> l, index |-> 0] \in Object
  BY LimitsAssumption DEF Object
<1>4. TypeOK'
  BY <1>1, <1>2, <1>3, LimitsAssumption DEF IInv, TypeOK, InHierarchy
<1>5. \A u \in Obj : app[u] # None => app'[u] = app[u] /\ app[u].index <= app[u].index
  BY <1>1, <1>2, AppTyped, LimitsAssumption DEF IInv, TypeOK
<1>6. Grows
  BY <1>5 DEF Grows
<1> QED
  BY <1>2, <1>4, <1>6, Quiet

LEMMA ExitStep == ASSUME IInv, NEW p \in Proc, Exit(p) PROVE IInv'
<1>1. /\ UNCHANGED <<app, alive, proc, group, retrieved, root, accounting>>
      /\ up' \subseteq up /\ up' \union left' \subseteq up \union left /\ up' \intersect left' = {}
      /\ (up \union left) \ {p} \subseteq up' \union left'
      /\ p \notin up'
      /\ member' = IF p \in left' THEN member ELSE [member EXCEPT ![p] = None]
  BY DEF Exit, IInv, TypeOK
<1>2. TypeOK'
  BY <1>1 DEF IInv, TypeOK, InHierarchy
<1>3. Grows
  BY <1>1, GrowsIfSame DEF IInv
<1>4. \A q \in Proc : member'[q] \in {member[q], None} /\ (q # p => member'[q] = member[q])
  BY <1>1 DEF IInv, TypeOK
<1> QED
  BY <1>1, <1>2, <1>3, <1>4, Quiet DEF IInv, TypeOK

LEMMA ReleaseStep == ASSUME IInv, NEW p \in Proc, Release(p) PROVE IInv'
<1>1. /\ UNCHANGED <<app, alive, up, left, member, retrieved, root, accounting>>
      /\ proc[p] # None /\ proc[p].at = "done" /\ p \notin up
      /\ proc' = [proc EXCEPT ![p] = None]
  BY DEF Release, At
<1>2. CASE \E q \in Proc : member[q] = Dir(p)
  <2>1. group' = group
    BY <1>2 DEF Release
  <2>2. TypeOK'
    BY <1>1, <2>1 DEF IInv, TypeOK, InHierarchy
  <2>3. Grows
    BY <1>1, GrowsIfSame DEF IInv
  <2>4. /\ \A q \in Proc : proc'[q] \in {proc[q], None}
        /\ \A q \in Looking : proc'[q] = proc[q]
    BY <1>1 DEF IInv, TypeOK, Looking
  <2> QED
    BY <1>1, <2>1, <2>2, <2>3, <2>4, Quiet
<1>3. CASE \A q \in Proc : member[q] # Dir(p)
  <2>1. /\ DOMAIN group' = DOMAIN group \ {Dir(p)}
        /\ \A d \in DOMAIN group' : group'[d] = group[d]
    BY <1>3 DEF Release, Restrict
  <2>2. member' \in [Proc -> DOMAIN group' \union {None}]
    BY <1>1, <1>3, <2>1 DEF IInv, TypeOK
  <2>3. TypeOK'
    BY <1>1, <2>1, <2>2 DEF IInv, TypeOK, InHierarchy
  <2>4. Grows
    BY <1>1, GrowsIfSame DEF IInv
  <2>5. /\ \A q \in Proc : proc'[q] \in {proc[q], None}
        /\ \A q \in Looking : proc'[q] = proc[q]
    BY <1>1 DEF IInv, TypeOK, Looking
  <2>6. ChangesAt(Dir(p))
    BY <2>1 DEF ChangesAt
  <2> QED
    BY <1>1, <2>1, <2>3, <2>4, <2>5, <2>6, Quiet
<1> QED
  BY <1>2, <1>3

LEMMA RestartStep == ASSUME IInv, Restart PROVE IInv'
<1>1. /\ UNCHANGED <<app, group, member, accounting>> /\ alive' = {}
      /\ up' = {} /\ left' = left \union up /\ retrieved' = FALSE /\ root' = Nowhere
      /\ proc' = [p \in Proc |-> None]
  BY DEF Restart, kernel
<1>2. TypeOK'
  BY <1>1 DEF IInv, TypeOK, InHierarchy, Root, Nowhere
<1>3. Grows
  BY <1>1, GrowsIfSame DEF IInv
<1>4. \A p \in Proc : proc'[p] = None
  BY <1>1
<1>5. Counted' /\ Mine' /\ Stages'
  BY <1>1, <1>4 DEF Counted, Mine, Stages
<1>6. Alone'
  BY <1>1 DEF IInv, Alone, OnlyOne
<1>8. Lookup'
  BY <1>4 DEF Lookup
<1>9. Made'
  BY <1>1, <1>4 DEF IInv, Made, Known
<1> QED
  BY <1>2, <1>5, <1>6, <1>8, <1>9 DEF IInv

-----------------------------------------------------------------------------
(* Process p goes on.                                                       *)

Moves(p, a) ==
    /\ proc' \in [Proc -> Started \union {None}]
    /\ proc'[p] # None /\ Follows(p) /\ proc'[p].at = a
    /\ \A q \in Proc \ {p} : proc'[q] = proc[q]

LEMMA GoMoves ==
    ASSUME TypeOK, NEW p \in Proc, proc[p] # None, NEW a, Go(p, a),
           a \in Early \union Working \union {"done"}
    PROVE  /\ Moves(p, a) /\ proc'[p].root = proc[p].root /\ proc'[p].swap = proc[p].swap
           /\ proc'[p].held = proc[p].held
<1>1. proc[p] \in Started
  BY ProcTyped
<1>2. [proc[p] EXCEPT !.at = a] \in Started /\ [proc[p] EXCEPT !.at = a] # None
  BY <1>1, LimitsAssumption DEF Started, Early, Working
<1>3. proc' = [proc EXCEPT ![p] = [proc[p] EXCEPT !.at = a]]
  BY DEF Go
<1> QED
  BY <1>1, <1>2, <1>3 DEF Moves, Follows, TypeOK, Started

LEMMA MoveKeeps ==
    ASSUME IInv, TypeOK', NEW p \in Proc, proc[p] # None, NEW a, Moves(p, a),
           UNCHANGED <<app, up, accounting>>, ChangesAt(Dir(p)),
           Dir(p) \in DOMAIN group' =>
               /\ Dir(p) \in Root \X Name \X (1..MaxIndex)
               /\ group'[Dir(p)] \in [limit : Nat, memsw : Nat],
           a \in Early => proc'[p].root = None, a \in Working => proc'[p].root \in Root,
           \A q \in Proc \ {p} : member'[q] = member[q],
           member'[p] \in {member[p], Dir(p)},
           Lookup',
           p \in up /\ Plain(p)' => Stage(p)'
    PROVE  IInv'
<1>1. Grows
  BY GrowsIfSame DEF IInv
<1>2. \A q \in Proc : proc'[q] # None => Follows(q)
  BY DEF Moves, Follows
<1>3. Counted'
  BY <1>1, <1>2, CountedKept DEF IInv
<1>4. Mine' /\ Alone'
  <2>1. \A q \in Proc : \/ member'[q] \in {member[q], None}
                        \/ proc[q] # None /\ member'[q] = Dir(q)
    OBVIOUS
  <2> QED
    BY <1>1, <1>2, <2>1, MembersKept DEF IInv
<1>5. Made'
  <2>1. ASSUME NEW d \in DOMAIN group'
        PROVE  /\ Known(d)' /\ d \in Root \X Name \X (1..MaxIndex)
               /\ group'[d] \in [limit : Nat, memsw : Nat]
    <3>1. CASE d = Dir(p)
      <4>1. proc[p].obj \in Obj /\ app[proc[p].obj] # None /\ proc[p].index <= app[proc[p].obj].index
        BY ProcTyped DEF IInv, Counted
      <4>2. Known(Dir(p))
        BY <4>1, DirParts DEF Known, NameOf
      <4>3. Known(d)'
        BY <3>1, <4>2 DEF Known
      <4> QED
        BY <2>1, <3>1, <4>3
    <3>2. CASE d # Dir(p)
      <4>1. d \in DOMAIN group /\ group'[d] = group[d]
        BY <2>1, <3>2 DEF ChangesAt
      <4> QED
        BY <4>1 DEF IInv, Made, Known
    <3> QED
      BY <3>1, <3>2
  <2>2. ASSUME NEW q \in Proc, proc'[q] # None
        PROVE  /\ proc'[q].at \in Early => proc'[q].root = None
               /\ proc'[q].at \in Working => proc'[q].root \in Root
    BY <2>2 DEF IInv, Made, Moves
  <2> QED
    BY <2>1, <2>2 DEF Made
<1>6. Stages'
  <2> SUFFICES ASSUME NEW q \in up, q # p, Plain(q)' PROVE Stage(q)'
    BY DEF Stages
  <2>1. q \in Proc \ {p}
    BY DEF IInv, TypeOK
  <2> QED
    BY <1>1, <2>1, OthersStage DEF Moves
<1> QED
  BY <1>3, <1>4, <1>5, <1>6 DEF IInv

(* What p's own part of Stages is about, before and after.                  *)
LEMMA PlainBefore ==
    ASSUME IInv, NEW p \in up, proc[p] # None, NEW a, Moves(p, a), app' = app, Plain(p)'
    PROVE  /\ Plain(p) /\ Stage(p) /\ p \in Proc
           /\ NameOf(p)' = NameOf(p) /\ LimitOf(p)' = LimitOf(p)
           /\ Asked(LimitOf(p))' = Asked(LimitOf(p))
           /\ Asked(LimitOf(p)) \in Int /\ 1 <= Asked(LimitOf(p)) /\ Asked(LimitOf(p)) <= 2047
           /\ proc'[p].mem = proc[p].mem /\ LimitOf(p) \in Limit
           /\ \A r : Place(p, r)' = Place(p, r)
           /\ proc'[p].root = proc[p].root => Dir(p)' = Dir(p)
<1>1. p \in Proc
  BY DEF IInv, TypeOK
<1>2. Grows
  BY GrowsIfSame DEF IInv
<1>3. /\ proc[p].obj \in Obj /\ app[proc[p].obj] # None
      /\ NameOf(p)' = NameOf(p) /\ LimitOf(p)' = LimitOf(p)
      /\ Asked(LimitOf(p))' = Asked(LimitOf(p)) /\ Printable(LimitOf(p))' = Printable(LimitOf(p))
      /\ \A r : Place(p, r)' = Place(p, r)
      /\ proc'[p].root = proc[p].root => Dir(p)' = Dir(p)
  BY <1>1, <1>2, NamesKept DEF IInv, Moves
<1>5. Plain(p)
  BY <1>2, <1>3, OnlyBefore DEF Plain, Moves, Follows
<1>6. LimitOf(p) \in Limit
  BY <1>3, AppTyped DEF IInv, LimitOf
<1>7. Asked(LimitOf(p)) \in Int /\ 1 <= Asked(LimitOf(p)) /\ Asked(LimitOf(p)) <= 2047
  <2> DEFINE n == Asked(LimitOf(p))
  <2>1. n \in 1..2047
    BY <1>5 DEF Plain, Printable
  <2> HIDE DEF n
  <2>2. n \in Int /\ 1 <= n /\ n <= 2047
    BY <2>1
  <2> QED
    BY <2>2 DEF n
<1>8. proc'[p].mem = proc[p].mem
  BY DEF Moves, Follows
<1> QED
  BY <1>1, <1>3, <1>5, <1>6, <1>7, <1>8 DEF IInv, Stages

LEMMA NothingChanges == ASSUME group' = group, NEW d PROVE ChangesAt(d)
  BY DEF ChangesAt

LEMMA DirMade ==
    ASSUME IInv, NEW p, Dir(p) \in DOMAIN group
    PROVE  /\ Dir(p) \in Root \X Name \X (1..MaxIndex)
           /\ group[Dir(p)] \in [limit : Nat, memsw : Nat]
  BY DEF IInv, Made

(* A step of the constructor, or of setCgroup() up to its directory.        *)
LEMMA EarlyKeeps ==
    ASSUME IInv, NEW p \in Proc, proc[p] # None, proc[p].at \in Early,
           NEW a \in Early \union {"mkdir"}, Moves(p, a),
           UNCHANGED <<app, alive, up, left, group, member, accounting>>,
           retrieved' \in BOOLEAN, root' \in Root,
           a \in Early => proc'[p].root = None, a = "mkdir" => proc'[p].root \in Root,
           retrieved => retrieved',
           retrieved /\ p \in Looking' => p \in Looking,
           p \notin Looking => root' = root,
           a \in {"find", "file", "base", "path"} => retrieved',
           a \in First => /\ proc[p].at \in First
                          /\ proc'[p].swap = proc[p].swap /\ proc'[p].held = proc[p].held,
           a \notin First /\ Short(p)' => NeverFound(p)'
    PROVE  IInv'
<1>1. TypeOK'
  BY DEF IInv, TypeOK, InHierarchy, Moves
<1>2. Grows
  BY GrowsIfSame DEF IInv
<1>3. Lookup'
  <2>1. ASSUME NEW q \in Proc, q # p, NeverFound(q) PROVE NeverFound(q)'
    <3>1. retrieved /\ p \notin Looking
      BY <2>1 DEF NeverFound
    <3>2. ASSUME NEW r \in Looking' \ {q} PROVE r \in Looking
      BY <3>1, <3>2 DEF Looking, Moves
    <3> QED
      BY <2>1, <3>1, <3>2, FoundKept
  <2>2. ASSUME NEW q \in Proc, proc'[q] # None, q # p
        PROVE  /\ proc'[q].at \in {"find", "file", "base", "path"} => retrieved'
               /\ proc'[q].at \in First => FirstOf(q)'
               /\ proc'[q].at \notin First /\ Short(q)' => NeverFound(q)'
    BY <1>2, <2>1, <2>2, SameLookup DEF IInv, Moves
  <2>3. LimitOf(p)' = LimitOf(p)
    BY <1>2, NamesKept DEF IInv, Moves
  <2>4. /\ proc'[p].at \in {"find", "file", "base", "path"} => retrieved'
        /\ proc'[p].at \in First => FirstOf(p)'
        /\ proc'[p].at \notin First /\ Short(p)' => NeverFound(p)'
    BY <2>3 DEF IInv, Lookup, FirstOf, Moves
  <2> QED
    BY <2>2, <2>4 DEF Lookup
<1>4. ASSUME p \in up, Plain(p)' PROVE Stage(p)'
  <2>1. /\ Stage(p) /\ Asked(LimitOf(p))' = Asked(LimitOf(p)) /\ proc'[p].mem = proc[p].mem
        /\ \A r : Place(p, r)' = Place(p, r)
    BY <1>4, PlainBefore
  <2>2. proc'[p].at = a
    BY DEF Moves
  <2>3. \A r : Place(p, r) \notin DOMAIN group
    BY <2>1 DEF Stage
  <2> QED
    BY <2>1, <2>2, <2>3 DEF Stage
<1>5. \A d : ChangesAt(d)
  BY NothingChanges
<1>6. a \in Working => a = "mkdir"
  BY DEF Early, Working
<1> QED
  BY <1>1, <1>3, <1>4, <1>5, <1>6, DirMade, MoveKeeps

LEMMA AskStep == ASSUME IInv, NEW p \in Proc, Ask(p) PROVE IInv'
<1> DEFINE a == IF retrieved THEN "path" ELSE "set"
<1>1. /\ proc[p] # None /\ proc[p].at = "ask" /\ Go(p, a)
      /\ UNCHANGED <<app, alive, up, left, group, member, retrieved, root, accounting>>
  BY DEF Ask, At, kernel
<1>2. a \in Early /\ a \in Early \union {"mkdir"} /\ a \in Early \union Working \union {"done"}
  BY DEF Early
<1>3. a = "path" \/ (a = "set" /\ ~retrieved)
  OBVIOUS
<1>4. a = "path" => retrieved
  OBVIOUS
<1> HIDE DEF a
<1>5. /\ Moves(p, a) /\ proc'[p].root = proc[p].root
      /\ proc'[p].swap = proc[p].swap /\ proc'[p].held = proc[p].held
  BY <1>1, <1>2, GoMoves DEF IInv
<1>6. proc[p].root = None /\ (LimitOf(p).mem = 0 => proc[p].swap = LimitOf(p).virt)
  BY <1>1 DEF IInv, Made, Lookup, FirstOf, Early, First
<1>7. LimitOf(p)' = LimitOf(p)
  BY <1>1, <1>5, GrowsIfSame, NamesKept DEF IInv, Moves
<1>8. ~Short(p)'
  BY <1>5, <1>6, <1>7, LimitsAssumption DEF Short
<1>9. retrieved /\ p \in Looking' => p \in Looking
  BY <1>3, <1>5 DEF Looking, Moves
<1> QED
  BY <1>1, <1>2, <1>3, <1>4, <1>5, <1>6, <1>8, <1>9, EarlyKeeps DEF IInv, TypeOK, Early, First

LEMMA SetRetrievedStep == ASSUME IInv, NEW p \in Proc, SetRetrieved(p) PROVE IInv'
<1>1. /\ proc[p] # None /\ proc[p].at = "set" /\ Go(p, "find") /\ retrieved' = TRUE
      /\ UNCHANGED <<app, alive, up, left, group, member, root, accounting>>
  BY DEF SetRetrieved, At, kernel
<1>2. /\ Moves(p, "find") /\ proc'[p].root = proc[p].root
      /\ proc'[p].swap = proc[p].swap /\ proc'[p].held = proc[p].held
  BY <1>1, GoMoves DEF IInv, Early
<1>3. proc[p].root = None
  BY <1>1 DEF IInv, Made, Early
<1>4. p \in Looking
  BY <1>1 DEF Looking
<1> QED
  BY <1>1, <1>2, <1>3, <1>4, EarlyKeeps DEF IInv, TypeOK, Early, First

LEMMA TornFacts ==
    ASSUME NEW p, NEW r \in Root
    PROVE  Torn(p, r) \subseteq Root /\ (Looking \subseteq {p} => Torn(p, r) = {r})
<1>1. Looking \subseteq {p} => Writing \ {p} = {}
  BY DEF Writing
<1>2. Nowhere \in Root
  BY DEF Root, Nowhere
<1>3. Torn(p, r) \subseteq Root
  BY <1>2 DEF Torn
<1>4. Looking \subseteq {p} => Torn(p, r) = {r}
  BY <1>1 DEF Torn
<1> QED
  BY <1>3, <1>4

LEMMA FindStep == ASSUME IInv, NEW p \in Proc, Find(p) PROVE IInv'
<1>1. /\ proc[p] # None /\ proc[p].at = "find" /\ Go(p, "file")
      /\ root' \in Torn(p, [mounted |-> TRUE, depth |-> 0]) \/ root' = root
      /\ UNCHANGED <<app, alive, up, left, group, member, retrieved, accounting>>
  BY DEF Find, At, kernel
<1>2. /\ Moves(p, "file") /\ proc'[p].root = proc[p].root
      /\ proc'[p].swap = proc[p].swap /\ proc'[p].held = proc[p].held
  BY <1>1, GoMoves DEF IInv, Early
<1>3. proc[p].root = None /\ retrieved
  BY <1>1 DEF IInv, Made, Lookup, Early
<1>4. p \in Looking
  BY <1>1 DEF Looking
<1>5. root' \in Root
  <2>1. [mounted |-> TRUE, depth |-> 0] \in Root /\ root \in Root
    BY DEF Root, IInv, TypeOK
  <2> QED
    BY <1>1, <2>1, TornFacts
<1> QED
  BY <1>1, <1>2, <1>3, <1>4, <1>5, EarlyKeeps DEF IInv, TypeOK, Early, First

LEMMA CheckSwapStep == ASSUME IInv, NEW p \in Proc, CheckSwap(p) PROVE IInv'
<1>1. /\ proc[p] # None /\ proc[p].at = "file"
      /\ UNCHANGED <<app, alive, up, left, group, member, retrieved, root, accounting>>
  BY DEF CheckSwap, At, kernel
<1> DEFINE Checked(r, exists) ==
          proc' = [proc EXCEPT ![p].at = "base",
                      ![p].swap = IF @ > 0 /\ ~exists THEN 0 ELSE @,
                      ![p].held = IF r.depth > 0 \/ (~r.mounted /\ Looking # {p})
                                  THEN "memory" ELSE @]
<1>a. PICK r \in Torn(p, root) : \E exists \in FileExists(r) : Checked(r, exists)
  BY DEF CheckSwap
<1>2. PICK exists \in FileExists(r) : Checked(r, exists)
  BY <1>a
<1> DEFINE w == IF proc[p].swap > 0 /\ ~exists THEN 0 ELSE proc[p].swap
           h == IF r.depth > 0 \/ (~r.mounted /\ Looking # {p}) THEN "memory" ELSE proc[p].held
<1>3. proc[p] \in Started /\ proc[p].swap \in Int /\ proc[p].held = "both"
  BY <1>1, ProcTyped DEF IInv, Lookup, FirstOf, First
<1>4. w \in Int /\ h \in {"memory", "both"}
  BY <1>3
<1>5. h = "both" => ~(r.depth > 0) /\ (r.mounted \/ Looking = {p})
  OBVIOUS
<1>6. w = proc[p].swap \/ ~exists
  OBVIOUS
<1>7. proc' = [proc EXCEPT ![p] = [proc[p] EXCEPT !.at = "base", !.swap = w, !.held = h]]
  BY <1>2, <1>3 DEF Started
<1> HIDE DEF w, h
<1>8. /\ Moves(p, "base") /\ proc'[p].root = proc[p].root
      /\ proc'[p].swap = w /\ proc'[p].held = h
  <2> DEFINE s == [proc[p] EXCEPT !.at = "base", !.swap = w, !.held = h]
  <2>1. s \in Started /\ s # None
    BY <1>3, <1>4, LimitsAssumption DEF Started
  <2>2. /\ s.obj = proc[p].obj /\ s.index = proc[p].index /\ s.mem = proc[p].mem
        /\ s.root = proc[p].root /\ s.at = "base" /\ s.swap = w /\ s.held = h
    BY <1>3 DEF Started
  <2>3. proc' = [proc EXCEPT ![p] = s]
    BY <1>7
  <2> HIDE DEF s
  <2>4. /\ proc' \in [Proc -> Started \union {None}] /\ proc'[p] = s
        /\ \A q \in Proc \ {p} : proc'[q] = proc[q]
    BY <2>1, <2>3 DEF IInv, TypeOK
  <2>5. /\ h # "nothing" => proc[p].held # "nothing"
        /\ h = "both" => proc[p].held = "both"
    BY <1>3, <1>4
  <2> QED
    BY <1>1, <2>1, <2>2, <2>4, <2>5 DEF Moves, Follows
<1>9. proc[p].root = None /\ retrieved /\ (LimitOf(p).mem = 0 => proc[p].swap = LimitOf(p).virt)
  BY <1>1 DEF IInv, Made, Lookup, FirstOf, Early, First
<1>10. LimitOf(p)' = LimitOf(p)
  BY <1>1, <1>8, GrowsIfSame, NamesKept DEF IInv, Moves
<1>11. p \in Looking /\ Looking' = Looking
  BY <1>1, <1>8 DEF Looking, Moves
<1>12. ASSUME Short(p)' PROVE NeverFound(p)'
  <2>1. h = "both" /\ accounting /\ ~exists
    BY <1>1, <1>6, <1>8, <1>9, <1>10, <1>12, LimitsAssumption DEF Short
  <2>2. r \in Root
    BY TornFacts DEF IInv, TypeOK
  <2>3. ~(r.depth > 0) /\ (r.mounted \/ Looking = {p})
    BY <1>4, <1>5, <2>1
  <2>4. ~r.mounted
    <3> SUFFICES ASSUME r.mounted PROVE FALSE
      OBVIOUS
    <3>1. r.depth \in Nat
      BY <2>2 DEF Root
    <3>2. r.depth = 0
      BY <2>3, <3>1
    <3>3. FileExists(r) = {accounting}
      BY <3>2 DEF FileExists
    <3> QED
      BY <2>1, <3>3
  <2>5. r = root
    BY <2>3, <2>4, TornFacts DEF IInv, TypeOK
  <2> QED
    BY <1>1, <1>9, <1>11, <2>3, <2>4, <2>5 DEF NeverFound
<1> QED
  BY <1>1, <1>8, <1>9, <1>11, <1>12, EarlyKeeps DEF IInv, TypeOK, Early, First

LEMMA BaseStep == ASSUME IInv, NEW p \in Proc, Base(p) PROVE IInv'
<1> DEFINE r == [root EXCEPT !.depth = @ + 1]
<1>1. /\ proc[p] # None /\ proc[p].at = "base" /\ root' \in Torn(p, r) /\ Go(p, "path")
      /\ UNCHANGED <<app, alive, up, left, group, member, retrieved, accounting>>
  BY DEF Base, At, kernel
<1>2. r \in Root /\ (r.mounted <=> root.mounted)
  BY DEF IInv, TypeOK, Root
<1> HIDE DEF r
<1>3. root' \in Root
  BY <1>1, <1>2, TornFacts
<1>4. /\ Moves(p, "path") /\ proc'[p].root = proc[p].root
      /\ proc'[p].swap = proc[p].swap /\ proc'[p].held = proc[p].held
  BY <1>1, GoMoves DEF IInv, Early
<1>5. proc[p].root = None /\ retrieved
  BY <1>1 DEF IInv, Made, Lookup, Early
<1>6. p \in Looking /\ Looking' \subseteq Looking
  BY <1>1, <1>4 DEF Looking, Moves
<1>7. ASSUME Short(p)' PROVE NeverFound(p)'
  <2>1. LimitOf(p)' = LimitOf(p)
    BY <1>1, <1>4, GrowsIfSame, NamesKept DEF IInv, Moves
  <2>2. NeverFound(p)
    BY <1>1, <1>4, <1>7, <2>1 DEF Short, IInv, Lookup, First
  <2>3. root' = r
    BY <1>1, <1>2, <2>2, TornFacts DEF NeverFound
  <2> QED
    BY <1>1, <1>2, <1>6, <2>2, <2>3 DEF NeverFound
<1> QED
  BY <1>1, <1>3, <1>4, <1>5, <1>6, <1>7, EarlyKeeps DEF IInv, TypeOK, Early, First

LEMMA PathStep == ASSUME IInv, NEW p \in Proc, Path(p) PROVE IInv'
<1>1. /\ proc[p] # None /\ proc[p].at = "path"
      /\ UNCHANGED <<app, alive, up, left, group, member, retrieved, root, accounting>>
  BY DEF Path, At, kernel
<1>2. PICK r \in Torn(p, root) :
          proc' = [proc EXCEPT ![p].at = "mkdir", ![p].root = r,
                      ![p].held = IF ~r.mounted /\ Looking # {} THEN "nothing" ELSE @]
  BY DEF Path
<1>3. proc[p] \in Started /\ r \in Root
  BY <1>1, ProcTyped, TornFacts DEF IInv, TypeOK
<1> DEFINE h == IF ~r.mounted /\ Looking # {} THEN "nothing" ELSE proc[p].held
<1>4. h \in {"nothing", proc[p].held} /\ (h # "nothing" => r.mounted \/ Looking = {})
  OBVIOUS
<1>5. proc' = [proc EXCEPT ![p] = [proc[p] EXCEPT !.at = "mkdir", !.root = r, !.held = h]]
  BY <1>2, <1>3 DEF Started
<1> HIDE DEF h
<1>6. /\ Moves(p, "mkdir") /\ proc'[p].root = r
      /\ proc'[p].swap = proc[p].swap /\ proc'[p].held = h
  <2> DEFINE s == [proc[p] EXCEPT !.at = "mkdir", !.root = r, !.held = h]
  <2>1. s \in Started /\ s # None
    BY <1>3, <1>4, LimitsAssumption DEF Started
  <2>2. /\ s.obj = proc[p].obj /\ s.index = proc[p].index /\ s.mem = proc[p].mem
        /\ s.root = r /\ s.at = "mkdir" /\ s.swap = proc[p].swap /\ s.held = h
    BY <1>3 DEF Started
  <2>3. proc' = [proc EXCEPT ![p] = s]
    BY <1>5
  <2> HIDE DEF s
  <2>4. /\ proc' \in [Proc -> Started \union {None}] /\ proc'[p] = s
        /\ \A q \in Proc \ {p} : proc'[q] = proc[q]
    BY <2>1, <2>3 DEF IInv, TypeOK
  <2> QED
    BY <1>1, <1>4, <2>1, <2>2, <2>4 DEF Moves, Follows
<1>7. Looking' = Looking /\ p \notin Looking
  BY <1>1, <1>6 DEF Looking, Moves
<1>8. ASSUME Short(p)' PROVE NeverFound(p)'
  <2>1. LimitOf(p)' = LimitOf(p)
    BY <1>1, <1>6, GrowsIfSame, NamesKept DEF IInv, Moves
  <2>2. retrieved
    BY <1>1 DEF IInv, Lookup
  <2>3. CASE h # "nothing" /\ ~r.mounted
    <3>1. Looking = {} /\ r = root
      BY <1>4, <2>3, TornFacts DEF IInv, TypeOK
    <3> QED
      BY <1>1, <1>7, <2>2, <2>3, <3>1 DEF NeverFound
  <2>4. CASE ~(h # "nothing" /\ ~r.mounted)
    <3>1. Short(p)
      BY <1>1, <1>4, <1>6, <1>8, <2>1, <2>4 DEF Short
    <3>2. NeverFound(p)
      BY <1>1, <3>1 DEF IInv, Lookup, First
    <3> QED
      BY <1>1, <1>7, <3>2 DEF NeverFound
  <2> QED
    BY <2>3, <2>4
<1> QED
  BY <1>1, <1>3, <1>6, <1>7, <1>8, EarlyKeeps DEF IInv, TypeOK, Early, First

(* The steps of setCgroup() do nothing to the lookup.                       *)
LEMMA LookupKept ==
    ASSUME IInv, NEW p \in Proc, proc[p] # None, proc[p].at \in Working,
           NEW a \in Working \union {"done"}, Moves(p, a),
           UNCHANGED <<app, retrieved, root, accounting>>,
           proc'[p].root = proc[p].root, proc'[p].swap = proc[p].swap
    PROVE  Lookup'
<1>1. Grows
  BY GrowsIfSame DEF IInv
<1>2. Looking' = Looking
  BY DEF Looking, Moves, Working
<1>3. \A q : NeverFound(q) => NeverFound(q)'
  BY <1>2 DEF NeverFound
<1>4. ASSUME NEW q \in Proc, proc'[q] # None, q # p
      PROVE  /\ proc'[q].at \in {"find", "file", "base", "path"} => retrieved'
             /\ proc'[q].at \in First => FirstOf(q)'
             /\ proc'[q].at \notin First /\ Short(q)' => NeverFound(q)'
  BY <1>1, <1>3, <1>4, SameLookup DEF IInv, Moves
<1>5. LimitOf(p)' = LimitOf(p)
  BY <1>1, NamesKept DEF IInv, Moves
<1>6. Short(p)' => Short(p)
  BY <1>5 DEF Short, Moves, Follows
<1>7. /\ proc'[p].at \notin {"find", "file", "base", "path"}
      /\ proc'[p].at \notin First
      /\ Short(p)' => NeverFound(p)'
  BY <1>3, <1>6 DEF IInv, Lookup, Moves, Working, First
<1> QED
  BY <1>4, <1>7 DEF Lookup

(* createRecursiveDirectory() touches nothing that is there.                *)
LEMMA MadeDirFacts ==
    ASSUME IInv, NEW d, group' = MadeDir(d)
    PROVE  /\ ChangesAt(d) /\ DOMAIN group \subseteq DOMAIN group'
           /\ \A e \in DOMAIN group : group'[e] = group[e]
           /\ InHierarchy(d) => d \in DOMAIN group'
           /\ d \in DOMAIN group' \ DOMAIN group =>
                  InHierarchy(d) /\ group'[d] = [limit |-> NoLimit, memsw |-> NoLimit]
  BY DEF MadeDir, ChangesAt

LEMMA NoLimitFacts == NoLimit \in Nat /\ NoLimit >= 2047
  BY DEF NoLimit

LEMMA MkdirStep == ASSUME IInv, NEW p \in Proc, Mkdir(p) PROVE IInv'
<1>1. PICK a \in {"limit", "memsw"} :
          /\ Go(p, a)
          /\ proc[p].at = IF a = "limit" THEN "mkdir" ELSE "swap"
          /\ proc[p] # None
  BY DEF Mkdir, At
<1>2. /\ group' = MadeDir(Dir(p))
      /\ UNCHANGED <<app, alive, up, left, member, retrieved, root, accounting>>
  BY DEF Mkdir
<1>3. Moves(p, a) /\ proc'[p].root = proc[p].root /\ proc'[p].swap = proc[p].swap
  BY <1>1, GoMoves DEF IInv, Working
<1>4. proc[p].root \in Root /\ proc[p].at \in Working /\ a \in Working
  BY <1>1 DEF IInv, Made, Working
<1>5. Dir(p) \in DOMAIN group' =>
          /\ Dir(p) \in Root \X Name \X (1..MaxIndex)
          /\ group'[Dir(p)] \in [limit : Nat, memsw : Nat]
  <2>1. CASE Dir(p) \in DOMAIN group
    BY <1>2, <2>1, MadeDirFacts, DirMade
  <2>2. CASE Dir(p) \in DOMAIN group' \ DOMAIN group
    <3>1. InHierarchy(Dir(p)) /\ group'[Dir(p)] = [limit |-> NoLimit, memsw |-> NoLimit]
      BY <1>2, <2>2, MadeDirFacts
    <3>2. proc[p].obj \in Obj /\ app[proc[p].obj] # None /\ proc[p].index \in 1..MaxIndex
      BY <1>1, ProcTyped DEF IInv, Counted
    <3>3. app[proc[p].obj].name \in Name
      BY <3>2, AppTyped DEF IInv
    <3> QED
      BY <1>4, <3>1, <3>2, <3>3, NoLimitFacts DEF Dir
  <2> QED
    BY <2>1, <2>2
<1>6. TypeOK'
  <2>1. ASSUME NEW d \in DOMAIN group'
        PROVE  InHierarchy(d)' /\ 0 <= group'[d].limit /\ group'[d].limit <= group'[d].memsw
    <3>1. CASE d \in DOMAIN group
      BY <1>2, <3>1, MadeDirFacts DEF IInv, TypeOK, InHierarchy
    <3>2. CASE d \notin DOMAIN group
      <4>1. d = Dir(p)
        BY <1>2, <2>1, <3>2, MadeDirFacts DEF ChangesAt
      <4> QED
        BY <1>2, <2>1, <3>2, <4>1, MadeDirFacts, NoLimitFacts DEF InHierarchy
    <3> QED
      BY <3>1, <3>2
  <2>2. member' \in [Proc -> DOMAIN group' \union {None}]
    BY <1>2, MadeDirFacts DEF IInv, TypeOK
  <2> QED
    BY <1>2, <1>3, <2>1, <2>2 DEF IInv, TypeOK, Moves
<1>7. Lookup'
  BY <1>1, <1>2, <1>3, <1>4, LookupKept
<1>8. ASSUME p \in up, Plain(p)' PROVE Stage(p)'
  <2>1. /\ Plain(p) /\ Stage(p) /\ Dir(p)' = Dir(p)
        /\ LimitOf(p)' = LimitOf(p) /\ Asked(LimitOf(p))' = Asked(LimitOf(p))
        /\ proc'[p].mem = proc[p].mem
    BY <1>1, <1>2, <1>3, <1>8, PlainBefore
  <2>2. Dir(p) = Place(p, proc[p].root)
    BY DEF Dir, Place, NameOf
  <2>3. proc'[p].at = a /\ a \notin Early \union {"mkdir"} /\ proc'[p].root \in Root
    BY <1>1, <1>3, <1>4 DEF Moves, Early
  <2>4. ASSUME InHierarchy(Dir(p)) PROVE Inside(p, Dir(p))'
    <3>1. Dir(p) \in DOMAIN group'
      BY <1>2, <2>4, MadeDirFacts
    <3>2. CASE a = "limit"
      <4>1. Dir(p) \notin DOMAIN group
        BY <1>1, <2>1, <2>2, <3>2 DEF Stage
      <4>2. group'[Dir(p)].memsw = NoLimit
        BY <1>2, <3>1, <4>1, MadeDirFacts
      <4> QED
        BY <2>1, <2>3, <3>1, <3>2, <4>2 DEF Inside
    <3>3. CASE a = "memsw"
      <4>1. /\ Dir(p) \in DOMAIN group /\ member[p] = Dir(p)
            /\ group[Dir(p)].limit = Asked(LimitOf(p))
        BY <1>1, <2>1, <2>4, <3>3 DEF Stage, Inside, Early
      <4>2. group'[Dir(p)] = group[Dir(p)]
        BY <1>2, <4>1, MadeDirFacts
      <4> QED
        BY <1>2, <2>1, <2>3, <3>1, <3>3, <4>1, <4>2 DEF Inside
    <3> QED
      BY <1>1, <3>2, <3>3
  <2>5. InHierarchy(Dir(p))' = InHierarchy(Dir(p))
    BY <2>1 DEF InHierarchy
  <2> QED
    BY <1>1, <1>3, <2>1, <2>3, <2>4, <2>5 DEF Stage, Early
<1>9. ChangesAt(Dir(p))
  BY <1>2, MadeDirFacts
<1>10. a \notin Early
  BY <1>1 DEF Early
<1> QED
  BY <1>1, <1>2, <1>3, <1>4, <1>5, <1>6, <1>7, <1>8, <1>9, <1>10, MoveKeeps

LEMMA MkdirFailsStep == ASSUME IInv, NEW p \in Proc, MkdirFails(p) PROVE IInv'
<1> DEFINE a == IF proc[p].at = "mkdir" /\ proc[p].swap > 0 THEN "swap" ELSE "done"
<1>1. /\ proc[p] # None /\ proc[p].at \in {"mkdir", "swap"}
      /\ proc' = [proc EXCEPT
             ![p].at = IF @ = "mkdir" /\ proc[p].swap > 0 THEN "swap" ELSE "done",
             ![p].held = "nothing"]
      /\ UNCHANGED <<app, alive, up, left, group, member, retrieved, root, accounting>>
  BY DEF MkdirFails, At, kernel
<1>2. proc[p] \in Started
  BY <1>1, ProcTyped DEF IInv
<1>3. a \in {"swap", "done"}
  OBVIOUS
<1>4. proc' = [proc EXCEPT ![p] = [proc[p] EXCEPT !.at = a, !.held = "nothing"]]
  BY <1>1, <1>2 DEF Started
<1> HIDE DEF a
<1>5. /\ Moves(p, a) /\ proc'[p].root = proc[p].root
      /\ proc'[p].swap = proc[p].swap /\ proc'[p].held = "nothing"
  <2> DEFINE s == [proc[p] EXCEPT !.at = a, !.held = "nothing"]
  <2>1. s \in Started /\ s # None
    BY <1>2, <1>3, LimitsAssumption DEF Started
  <2>2. /\ s.obj = proc[p].obj /\ s.index = proc[p].index /\ s.mem = proc[p].mem
        /\ s.root = proc[p].root /\ s.at = a /\ s.swap = proc[p].swap /\ s.held = "nothing"
    BY <1>2 DEF Started
  <2>3. proc' = [proc EXCEPT ![p] = s]
    BY <1>4
  <2> HIDE DEF s
  <2>4. /\ proc' \in [Proc -> Started \union {None}] /\ proc'[p] = s
        /\ \A q \in Proc \ {p} : proc'[q] = proc[q]
    BY <2>1, <2>3 DEF IInv, TypeOK
  <2> QED
    BY <1>1, <2>1, <2>2, <2>4 DEF Moves, Follows
<1>6. /\ proc[p].at \in Working /\ a \in Working \union {"done"} /\ a \notin Early
      /\ proc'[p].root \in Root
  BY <1>1, <1>3, <1>5 DEF IInv, Made, Working, Early
<1>7. TypeOK'
  BY <1>1, <1>5 DEF IInv, TypeOK, InHierarchy, Moves
<1>8. Lookup'
  BY <1>1, <1>5, <1>6, LookupKept
<1>9. ~Plain(p)'
  BY <1>5 DEF Plain
<1>10. \A d : ChangesAt(d)
  BY <1>1, NothingChanges
<1> QED
  BY <1>1, <1>5, <1>6, <1>7, <1>8, <1>9, <1>10, DirMade, MoveKeeps

(* Joins: p is in its directory now, if its program is still there.         *)
LEMMA JoinsFacts ==
    ASSUME IInv, NEW p \in Proc, NEW d, Joins(p, d)
    PROVE  /\ \A q \in Proc \ {p} : member'[q] = member[q]
           /\ member'[p] \in {member[p], d}
           /\ p \in up => member'[p] = d
           /\ member' \in [Proc -> DOMAIN group \union {None, d}]
           /\ \A q \in Proc : member'[q] # None => q \in up \union left
  BY DEF IInv, TypeOK, Joins

LEMMA WriteLimitStep == ASSUME IInv, NEW p \in Proc, WriteLimit(p) PROVE IInv'
<1> DEFINE d == Dir(p)
           v == Printed(proc[p].mem)
<1>1. PICK a \in {"swap", "done"} : Go(p, a) /\ a = (IF proc[p].swap > 0 THEN "swap" ELSE "done")
  BY DEF WriteLimit
<1>2. /\ proc[p] # None /\ proc[p].at = "limit"
      /\ UNCHANGED <<app, alive, up, left, retrieved, root, accounting>>
  BY DEF WriteLimit, At
<1>3. Moves(p, a) /\ proc'[p].root = proc[p].root /\ proc'[p].swap = proc[p].swap
  BY <1>1, <1>2, GoMoves DEF IInv, Working
<1>4. /\ d \in DOMAIN group =>
             /\ group' = IF v \in 0..group[d].memsw THEN [group EXCEPT ![d].limit = v] ELSE group
             /\ Joins(p, d)
      /\ d \notin DOMAIN group => group' = group /\ member' = member
  BY DEF WriteLimit, kernel
<1>5. v \in Int /\ proc[p].mem \in Nat
  BY <1>2, ProcTyped, PrintedFacts DEF IInv
<1> HIDE DEF d, v
<1>6. /\ DOMAIN group' = DOMAIN group
      /\ \A e \in DOMAIN group : e # d => group'[e] = group[e]
  BY <1>4
<1>7. d \in DOMAIN group =>
          /\ group'[d] \in [limit : Nat, memsw : Nat]
          /\ group'[d].limit <= group'[d].memsw /\ group'[d].memsw = group[d].memsw
          /\ v \in 0..group[d].memsw => group'[d].limit = v
  <2> SUFFICES ASSUME d \in DOMAIN group
               PROVE  /\ group'[d] \in [limit : Nat, memsw : Nat]
                      /\ group'[d].limit <= group'[d].memsw /\ group'[d].memsw = group[d].memsw
                      /\ v \in 0..group[d].memsw => group'[d].limit = v
    OBVIOUS
  <2>1. group[d] \in [limit : Nat, memsw : Nat] /\ group[d].limit <= group[d].memsw
    BY DEF IInv, Made, TypeOK
  <2>2. CASE v \in 0..group[d].memsw
    <3>1. group'[d] = [group[d] EXCEPT !.limit = v]
      BY <1>4, <2>2
    <3> QED
      BY <1>5, <2>1, <2>2, <3>1
  <2>3. CASE v \notin 0..group[d].memsw
    BY <1>4, <2>1, <2>3
  <2> QED
    BY <2>2, <2>3
<1>8. /\ \A q \in Proc \ {p} : member'[q] = member[q]
      /\ member'[p] \in {member[p], d}
      /\ member' \in [Proc -> DOMAIN group' \union {None}]
      /\ \A q \in Proc : member'[q] # None => q \in up \union left
  BY <1>4, <1>6, JoinsFacts DEF IInv, TypeOK
<1>9. TypeOK'
  <2>1. ASSUME NEW e \in DOMAIN group'
        PROVE  InHierarchy(e)' /\ 0 <= group'[e].limit /\ group'[e].limit <= group'[e].memsw
    BY <1>6, <1>7, <2>1 DEF IInv, TypeOK, InHierarchy
  <2> QED
    BY <1>2, <1>3, <1>8, <2>1 DEF IInv, TypeOK, Moves
<1>10. Lookup'
  BY <1>1, <1>2, <1>3, LookupKept DEF Working
<1>11. ASSUME p \in up, Plain(p)' PROVE Stage(p)'
  <2>1. /\ Plain(p) /\ Stage(p) /\ Dir(p)' = Dir(p)
        /\ LimitOf(p)' = LimitOf(p) /\ Asked(LimitOf(p))' = Asked(LimitOf(p))
        /\ Asked(LimitOf(p)) \in Int /\ 1 <= Asked(LimitOf(p)) /\ Asked(LimitOf(p)) <= 2047
        /\ proc'[p].mem = proc[p].mem
    <3>1. app' = app
      BY <1>2
    <3> QED
      BY <1>2, <1>3, <1>11, <3>1, PlainBefore
  <2>2. proc'[p].at = a /\ a \notin Early \union {"mkdir"} /\ proc'[p].root \in Root
    BY <1>1, <1>2, <1>3 DEF Moves, Early, IInv, Made, Working
  <2>3. proc[p].mem = Asked(LimitOf(p))
    BY <2>1 DEF Stage
  <2>6. d' = d
    BY <2>1 DEF d
  <2>4. ASSUME InHierarchy(d) PROVE Inside(p, d)'
    <3>1. d \in DOMAIN group /\ group[d].memsw = NoLimit
      BY <1>2, <2>1, <2>4 DEF Stage, Inside, Early, d
    <3>2. v = Asked(LimitOf(p))
      BY <2>1, <2>3, PrintedFacts DEF v
    <3>3. v \in 0..group[d].memsw
      BY <2>1, <3>1, <3>2, NoLimitFacts
    <3>4. group'[d].limit = Asked(LimitOf(p)) /\ d \in DOMAIN group' /\ member'[p] = d
      BY <1>4, <1>6, <1>7, <1>11, <3>1, <3>2, <3>3, JoinsFacts
    <3>5. LimitOf(p).mem = 0 /\ proc[p].swap = LimitOf(p).virt => a = "swap"
      <4> SUFFICES ASSUME LimitOf(p).mem = 0, proc[p].swap = LimitOf(p).virt PROVE a = "swap"
        OBVIOUS
      <4>1. Asked(LimitOf(p)) = LimitOf(p).virt
        BY DEF Asked
      <4>2. proc[p].swap > 0
        BY <2>1, <4>1
      <4> QED
        BY <1>1, <4>2
    <3> QED
      BY <1>1, <1>2, <1>3, <2>1, <2>2, <2>6, <3>4, <3>5 DEF Inside
  <2>5. InHierarchy(Dir(p))' => InHierarchy(d)
    BY <2>1 DEF InHierarchy, d
  <2>7. Inside(p, d)' => Inside(p, Dir(p))'
    BY DEF d
  <2> QED
    BY <1>2, <2>1, <2>2, <2>3, <2>4, <2>5, <2>7 DEF Stage, Early
<1>12. ChangesAt(d)
  BY <1>6 DEF ChangesAt
<1>13. d \in DOMAIN group' =>
           /\ d \in Root \X Name \X (1..MaxIndex)
           /\ group'[d] \in [limit : Nat, memsw : Nat]
  BY <1>6, <1>7, DirMade DEF d
<1>14. a \notin Early /\ (a \in Working => proc'[p].root \in Root)
  BY <1>1, <1>2, <1>3 DEF IInv, Made, Early, Working
<1> QED
  BY <1>2, <1>3, <1>8, <1>9, <1>10, <1>11, <1>12, <1>13, <1>14, MoveKeeps DEF d

LEMMA WriteSwapStep == ASSUME IInv, NEW p \in Proc, WriteSwap(p) PROVE IInv'
<1> DEFINE d == Dir(p)
           v == Printed(proc[p].swap)
<1>1. /\ proc[p] # None /\ proc[p].at = "memsw" /\ Go(p, "done")
      /\ UNCHANGED <<app, alive, up, left, retrieved, root, accounting>>
  BY DEF WriteSwap, At
<1>2. Moves(p, "done") /\ proc'[p].root = proc[p].root /\ proc'[p].swap = proc[p].swap
  BY <1>1, GoMoves DEF IInv, Working
<1>3. /\ d \in DOMAIN group =>
             /\ group' = IF accounting /\ group[d].limit <= v
                         THEN [group EXCEPT ![d].memsw = v] ELSE group
             /\ Joins(p, d)
      /\ d \notin DOMAIN group => group' = group /\ member' = member
  BY DEF WriteSwap, kernel
<1>4. v \in Int
  BY <1>1, ProcTyped, PrintedFacts DEF IInv
<1> HIDE DEF d, v
<1>5. /\ DOMAIN group' = DOMAIN group
      /\ \A e \in DOMAIN group : e # d => group'[e] = group[e]
  BY <1>3
<1>6. d \in DOMAIN group =>
          /\ group'[d] \in [limit : Nat, memsw : Nat]
          /\ group'[d].limit <= group'[d].memsw /\ group'[d].limit = group[d].limit
          /\ accounting /\ group[d].limit <= v => group'[d].memsw = v
  <2> SUFFICES ASSUME d \in DOMAIN group
               PROVE  /\ group'[d] \in [limit : Nat, memsw : Nat]
                      /\ group'[d].limit <= group'[d].memsw /\ group'[d].limit = group[d].limit
                      /\ accounting /\ group[d].limit <= v => group'[d].memsw = v
    OBVIOUS
  <2>1. group[d] \in [limit : Nat, memsw : Nat] /\ group[d].limit <= group[d].memsw
    BY DEF IInv, Made, TypeOK
  <2>2. CASE accounting /\ group[d].limit <= v
    <3>1. group'[d] = [group[d] EXCEPT !.memsw = v]
      BY <1>3, <2>2
    <3> QED
      BY <1>4, <2>1, <2>2, <3>1
  <2>3. CASE ~(accounting /\ group[d].limit <= v)
    BY <1>3, <2>1, <2>3
  <2> QED
    BY <2>2, <2>3
<1>7. /\ \A q \in Proc \ {p} : member'[q] = member[q]
      /\ member'[p] \in {member[p], d}
      /\ member' \in [Proc -> DOMAIN group' \union {None}]
      /\ \A q \in Proc : member'[q] # None => q \in up \union left
  BY <1>3, <1>5, JoinsFacts DEF IInv, TypeOK
<1>8. TypeOK'
  <2>1. ASSUME NEW e \in DOMAIN group'
        PROVE  InHierarchy(e)' /\ 0 <= group'[e].limit /\ group'[e].limit <= group'[e].memsw
    BY <1>5, <1>6, <2>1 DEF IInv, TypeOK, InHierarchy
  <2> QED
    BY <1>1, <1>2, <1>7, <2>1 DEF IInv, TypeOK, Moves
<1>9. Lookup'
  BY <1>1, <1>2, LookupKept DEF Working
<1>10. ASSUME p \in up, Plain(p)' PROVE Stage(p)'
  <2>1. /\ Plain(p) /\ Stage(p) /\ Dir(p)' = Dir(p)
        /\ LimitOf(p)' = LimitOf(p) /\ Asked(LimitOf(p))' = Asked(LimitOf(p))
        /\ Asked(LimitOf(p)) \in Int /\ 1 <= Asked(LimitOf(p)) /\ Asked(LimitOf(p)) <= 2047
        /\ proc'[p].mem = proc[p].mem
    <3>1. app' = app
      BY <1>1
    <3> QED
      BY <1>1, <1>2, <1>10, <3>1, PlainBefore
  <2>2. proc'[p].at = "done" /\ proc'[p].root \in Root
    BY <1>1, <1>2 DEF Moves, IInv, Made, Working
  <2>3. proc[p].mem = Asked(LimitOf(p))
    BY <2>1 DEF Stage
  <2>6. d' = d
    BY <2>1 DEF d
  <2>4. ASSUME InHierarchy(d) PROVE Inside(p, d)'
    <3>1. d \in DOMAIN group /\ group[d].limit = Asked(LimitOf(p))
      BY <1>1, <2>1, <2>4 DEF Stage, Inside, Early, d
    <3>2. ASSUME LimitOf(p).mem = 0, accounting, proc[p].swap = LimitOf(p).virt
          PROVE  group'[d].memsw = LimitOf(p).virt
      <4>1. Asked(LimitOf(p)) = LimitOf(p).virt
        BY <3>2 DEF Asked
      <4>2. v = LimitOf(p).virt
        BY <2>1, <3>2, <4>1, PrintedFacts DEF v
      <4>3. group[d].limit <= v
        BY <2>1, <3>1, <4>1, <4>2
      <4> QED
        BY <1>6, <3>1, <3>2, <4>2, <4>3
    <3>3. group'[d].limit = Asked(LimitOf(p)) /\ d \in DOMAIN group' /\ member'[p] = d
      BY <1>3, <1>5, <1>6, <1>10, <3>1, JoinsFacts
    <3> QED
      BY <1>1, <1>2, <2>1, <2>2, <2>6, <3>2, <3>3 DEF Inside
  <2>5. InHierarchy(Dir(p))' => InHierarchy(d)
    BY <2>1 DEF InHierarchy, d
  <2>7. Inside(p, d)' => Inside(p, Dir(p))'
    BY DEF d
  <2> QED
    BY <2>1, <2>2, <2>3, <2>4, <2>5, <2>7 DEF Stage, Early
<1>11. ChangesAt(d)
  BY <1>5 DEF ChangesAt
<1>12. d \in DOMAIN group' =>
           /\ d \in Root \X Name \X (1..MaxIndex)
           /\ group'[d] \in [limit : Nat, memsw : Nat]
  BY <1>5, <1>6, DirMade DEF d
<1> QED
  BY <1>1, <1>2, <1>7, <1>8, <1>9, <1>10, <1>11, <1>12, MoveKeeps DEF d, Early, Working

(* A new process: its index, and so its directory, has not been used by an  *)
(* object of that name.                                                     *)
LEMMA NewDirectory ==
    ASSUME IInv, NEW o \in Obj, app[o] # None, OnlyOne(app[o].name),
           NEW d \in DOMAIN group, d[2] = app[o].name, d[3] = app[o].index + 1
    PROVE  FALSE
<1>1. PICK u \in Obj : app[u] # None /\ app[u].name = d[2] /\ d[3] <= app[u].index
  BY DEF IInv, Made, Known
<1>2. u = o
  BY <1>1 DEF OnlyOne
<1>3. app[o].index \in Int
  BY AppTyped, LimitsAssumption DEF IInv
<1> QED
  BY <1>1, <1>2, <1>3

LEMMA SpawnStep == ASSUME IInv, NEW o \in Obj, Spawn(o) PROVE IInv'
<1> DEFINE c == Clamped(app[o].limit)
           i == app[o].index + 1
           enabled == c.mem > 0 \/ c.swap > 0
           a == IF enabled THEN "ask" ELSE "done"
           s == [obj |-> o, index |-> i, mem |-> c.mem, swap |-> c.swap, at |-> a,
                 root |-> None, held |-> "both"]
<1>1. PICK p \in Proc \ (up \union left) :
          /\ proc[p] = None /\ proc' = [proc EXCEPT ![p] = s]
          /\ app' = [app EXCEPT ![o].index = i]
          /\ up' = up \union {p}
  BY DEF Spawn, NextIndex
<1>2. /\ o \in alive /\ app[o].index < MaxIndex
      /\ UNCHANGED <<alive, left, group, member, retrieved, root, accounting>>
  BY DEF Spawn, kernel
<1>3. /\ app[o] # None /\ app[o] \in Object /\ app[o].limit \in Limit
      /\ app[o].index \in 0..MaxIndex /\ i \in 1..MaxIndex
  <2>1. app[o] # None
    BY <1>2 DEF IInv, TypeOK
  <2>2. app[o] \in Object /\ app[o].limit \in Limit /\ app[o].index \in 0..MaxIndex
    BY <2>1, AppTyped DEF IInv
  <2> DEFINE n == app[o].index
  <2>3. n \in 0..MaxIndex /\ n < MaxIndex
    BY <1>2, <2>2
  <2> HIDE DEF n
  <2>4. n + 1 \in 1..MaxIndex
    BY <2>3, LimitsAssumption
  <2> QED
    BY <2>1, <2>2, <2>4 DEF n
<1>4. /\ c.mem \in Nat /\ c.swap \in Int /\ c.mem = Asked(app[o].limit)
      /\ app[o].limit.mem = 0 => c.swap = app[o].limit.virt
  BY <1>3, ClampedFacts
<1>5. a \in {"ask", "done"} /\ (enabled <=> a = "ask")
  OBVIOUS
<1> HIDE DEF c, i, enabled, a
<1>6. s \in Started /\ s # None
  <2> DEFINE m == c.mem
             w == c.swap
  <2>1. m \in Nat /\ w \in Int
    BY <1>4
  <2>2. s = [obj |-> o, index |-> i, mem |-> m, swap |-> w, at |-> a, root |-> None, held |-> "both"]
    OBVIOUS
  <2> HIDE DEF m, w, s
  <2>3. s \in Started
    BY <1>3, <1>5, <2>1, <2>2 DEF Started
  <2> QED
    BY <2>3, LimitsAssumption
<1>7. /\ proc' \in [Proc -> Started \union {None}] /\ proc'[p] = s
      /\ \A q \in Proc \ {p} : proc'[q] = proc[q]
  BY <1>1, <1>6 DEF IInv, TypeOK
<1>8. /\ [app[o] EXCEPT !.index = i] \in Object /\ [app[o] EXCEPT !.index = i] # None
      /\ app' = [app EXCEPT ![o] = [app[o] EXCEPT !.index = i]]
  BY <1>1, <1>3, LimitsAssumption DEF Object
<1>9. /\ app' \in [Obj -> Object \union {None}]
      /\ app'[o] # None /\ app'[o].index = i
      /\ app'[o].name = app[o].name /\ app'[o].limit = app[o].limit
      /\ \A u \in Obj \ {o} : app'[u] = app[u]
  BY <1>3, <1>8 DEF IInv, TypeOK, Object
<1>10. TypeOK'
  BY <1>1, <1>2, <1>7, <1>9 DEF IInv, TypeOK, InHierarchy
<1>11. Grows
  <2>1. app[o].index <= i
    BY <1>3, LimitsAssumption DEF i
  <2>2. ASSUME NEW u \in Obj, app[u] # None PROVE app[u].index <= app[u].index
    BY <2>2, AppTyped, LimitsAssumption DEF IInv
  <2> QED
    BY <1>9, <2>1, <2>2 DEF Grows
<1>12. Counted'
  <2>1. ASSUME NEW q \in Proc, proc[q] # None
        PROVE  /\ proc[q].obj \in Obj /\ app'[proc[q].obj] # None
               /\ proc[q].index <= app'[proc[q].obj].index
               /\ proc[q].obj = o => proc[q].index # i
    <3> DEFINE u == proc[q].obj
    <3>1. u \in Obj /\ app[u] # None /\ proc[q].index \in Int /\ proc[q].index <= app[u].index
      BY <2>1, ProcTyped DEF IInv, Counted
    <3>2. app'[u] # None /\ app[u].index <= app'[u].index
      BY <1>11, <3>1 DEF Grows
    <3>3. app[u].index \in Int /\ app'[u].index \in Int
      BY <1>10, <3>1, <3>2, LimitsAssumption DEF IInv, TypeOK, Object
    <3>4. u = o => proc[q].index # i
      BY <3>1, <3>3 DEF i
    <3> HIDE DEF u
    <3>5. proc[q].index <= app'[u].index
      BY <3>1, <3>2, <3>3
    <3> QED
      BY <3>1, <3>2, <3>4, <3>5 DEF u
  <2>2. i <= i
    BY <1>3, LimitsAssumption
  <2>3. ASSUME NEW q \in Proc, proc'[q] # None
        PROVE  app'[proc'[q].obj] # None /\ proc'[q].index <= app'[proc'[q].obj].index
    BY <1>7, <1>9, <2>1, <2>2, <2>3
  <2>4. ASSUME NEW q \in Proc, NEW r \in Proc, proc'[q] # None, proc'[r] # None, q # r,
               proc'[q].obj = proc'[r].obj
        PROVE  proc'[q].index # proc'[r].index
    BY <1>7, <2>1, <2>4 DEF IInv, Counted
  <2> QED
    BY <2>3, <2>4 DEF Counted
<1>13. \A q \in Proc \ {p} : proc'[q] # None => Follows(q)
  BY <1>7 DEF Follows
<1>14. NameOf(p)' = app[o].name /\ LimitOf(p)' = app[o].limit
  BY <1>7, <1>9 DEF NameOf, LimitOf
<1>15. Mine'
  <2> SUFFICES ASSUME NEW q \in Proc, NEW r \in Proc, proc'[q] # None, member'[r] # None,
                      OnlyOne(NameOf(q))', member'[r][2] = NameOf(q)',
                      member'[r][3] = proc'[q].index
               PROVE  r = q
    BY DEF Mine
  <2>1. CASE q = p
    <3>1. OnlyOne(app[o].name)
      BY <1>11, <1>14, <2>1, OnlyBefore
    <3>2. /\ member[r] \in DOMAIN group /\ member[r][2] = app[o].name
          /\ member[r][3] = app[o].index + 1
      BY <1>2, <1>7, <1>14, <2>1 DEF IInv, TypeOK, i
    <3> QED
      BY <1>3, <3>1, <3>2, NewDirectory
  <2>2. CASE q # p
    <3>1. NameOf(q)' = NameOf(q) /\ Follows(q) /\ proc[q] # None
      BY <1>11, <1>13, <2>2, NamesKept DEF IInv, Follows
    <3>2. OnlyOne(NameOf(q))
      BY <1>11, <3>1, OnlyBefore
    <3> QED
      BY <1>2, <3>1, <3>2 DEF IInv, Mine, Follows
  <2> QED
    BY <2>1, <2>2
<1>16. Alone'
  <2> SUFFICES ASSUME NEW q \in Proc, NEW r \in Proc, member'[q] # None, member'[q] = member'[r],
                      OnlyOne(member[q][2])'
               PROVE  q = r
    BY <1>2 DEF Alone, OnlyOne
  <2>1. OnlyOne(member[q][2])
    BY <1>2, <1>11 DEF OnlyOne, Grows
  <2> QED
    BY <1>2, <2>1 DEF IInv, Alone
<1>17. Made'
  <2>1. ASSUME NEW d \in DOMAIN group PROVE Known(d)'
    <3>1. Known(d) /\ d \in Root \X Name \X (1..MaxIndex)
      BY DEF IInv, Made
    <3>2. d[3] \in Int
      BY <3>1
    <3> QED
      BY <1>10, <1>11, <3>1, <3>2, KnownKept DEF IInv
  <2>2. ASSUME NEW q \in Proc, proc'[q] # None
        PROVE  /\ proc'[q].at \in Early => proc'[q].root = None
               /\ proc'[q].at \in Working => proc'[q].root \in Root
    BY <1>5, <1>7, <2>2 DEF IInv, Made, Working
  <2> QED
    BY <1>2, <2>1, <2>2 DEF IInv, Made
<1>18. Lookup'
  <2>1. Looking' = Looking
    BY <1>1, <1>5, <1>7 DEF Looking
  <2>2. ASSUME NEW q \in Proc, proc'[q] # None, q # p
        PROVE  /\ proc'[q].at \in {"find", "file", "base", "path"} => retrieved'
               /\ proc'[q].at \in First => FirstOf(q)'
               /\ proc'[q].at \notin First /\ Short(q)' => NeverFound(q)'
    <3>1. NeverFound(q) => NeverFound(q)'
      BY <1>2, <2>1 DEF NeverFound
    <3> QED
      BY <1>2, <1>7, <1>11, <2>2, <3>1, SameLookup DEF IInv
  <2>3. FirstOf(p)'
    BY <1>4, <1>7, <1>14 DEF FirstOf
  <2>4. ~Short(p)'
    BY <1>4, <1>7, <1>14, LimitsAssumption DEF Short
  <2>5. proc'[p].at \notin {"find", "file", "base", "path"}
    BY <1>5, <1>7
  <2> QED
    BY <2>2, <2>3, <2>4, <2>5 DEF Lookup
<1>19. Stages'
  <2>1. ASSUME NEW q \in up, Plain(q)' PROVE Stage(q)'
    <3>1. q # p /\ q \in Proc /\ proc'[q] = proc[q]
      BY <1>1, <1>7 DEF IInv, TypeOK
    <3> QED
      BY <1>2, <1>11, <2>1, <3>1, StageKept
  <2>2. ASSUME Plain(p)' PROVE Stage(p)'
    <3>1. OnlyOne(app[o].name)
      BY <1>11, <1>14, <2>2, OnlyBefore DEF Plain
    <3>3. ASSUME NEW r PROVE Place(p, r)' \notin DOMAIN group'
      <4>1. Place(p, r)' = <<r, app[o].name, app[o].index + 1>>
        BY <1>7, <1>14 DEF Place, i
      <4> QED
        BY <1>2, <1>3, <3>1, <4>1, NewDirectory
    <3>4. Asked(LimitOf(p))' = c.mem
      BY <1>4, <1>14 DEF Asked
    <3>5. c.mem > 0
      <4>1. c.mem \in 1..2047
        BY <2>2, <3>4 DEF Plain, Printable
      <4> DEFINE n == c.mem
      <4>2. n \in 1..2047
        BY <4>1
      <4> HIDE DEF n
      <4>3. n > 0
        BY <4>2
      <4> QED
        BY <4>3 DEF n
    <3>6. a = "ask"
      BY <1>5, <3>5 DEF enabled
    <3> QED
      BY <1>2, <1>4, <1>7, <1>14, <3>3, <3>4, <3>6 DEF Stage, Early
  <2> QED
    BY <1>1, <2>1, <2>2 DEF Stages
<1> QED
  BY <1>10, <1>12, <1>15, <1>16, <1>17, <1>18, <1>19 DEF IInv

-----------------------------------------------------------------------------
(* The theorems.                                                            *)

LEMMA NextIInv == IInv /\ [Next]_lvars => IInv'
<1> SUFFICES ASSUME IInv, [Next]_lvars PROVE IInv'
  OBVIOUS
<1>1. CASE \E o \in Obj : Create(o) \/ Spawn(o)
  BY <1>1, CreateStep, SpawnStep
<1>2. CASE \E p \in Proc : \/ Ask(p) \/ SetRetrieved(p) \/ Find(p) \/ CheckSwap(p)
                           \/ Base(p) \/ Path(p) \/ Mkdir(p) \/ MkdirFails(p)
  BY <1>2, AskStep, SetRetrievedStep, FindStep, CheckSwapStep, BaseStep, PathStep, MkdirStep,
     MkdirFailsStep
<1>3. CASE \E p \in Proc : WriteLimit(p) \/ WriteSwap(p) \/ Exit(p) \/ Release(p)
  BY <1>3, WriteLimitStep, WriteSwapStep, ExitStep, ReleaseStep
<1>4. CASE Restart
  BY <1>4, RestartStep
<1>5. CASE UNCHANGED lvars
  <2>1. /\ UNCHANGED <<app, alive, proc, up, left, retrieved, root, accounting>>
        /\ UNCHANGED <<group, member>>
    BY <1>5 DEF lvars, kernel
  <2>2. TypeOK'
    BY <2>1 DEF IInv, TypeOK, InHierarchy
  <2>3. Grows
    BY <2>1, GrowsIfSame DEF IInv
  <2> QED
    BY <2>1, <2>2, <2>3, Quiet
<1> QED
  BY <1>1, <1>2, <1>3, <1>4, <1>5 DEF Next

(* What holds in every state LinuxCgroup and Application::spawnProcess()    *)
(* can reach: directories, indexes, and how far each program is.            *)
THEOREM Invariant == Spec => []IInv
<1> QED
  BY InitIInv, NextIInv, PTL DEF Spec

(* The variables keep their types, the kernel never has a limit of memory   *)
(* and swap below that of memory, whatever "%I64d" made of the numbers, and *)
(* only programs that have not ended, or left something behind, are in a    *)
(* group.                                                                   *)
THEOREM TypeCorrect == Spec => []TypeOK
<1>1. IInv => TypeOK
  BY DEF IInv
<1> QED
  BY <1>1, Invariant, PTL

(* spawnProcess() and LinuxCgroup, for any applications and limits and any  *)
(* number of threads that look the hierarchy up, in any order and with any  *)
(* failures: once the hierarchy is known, a program whose application has   *)
(* its name for itself runs in a directory of its own with the limit it was *)
(* configured with, and stays there, unless a mkdir() failed or its path    *)
(* was built while a lookup was under way.                                  *)
THEOREM LimitHolds == Spec => []Capped
<1>1. ASSUME IInv, NEW p \in up, Settled(p), Printable(LimitOf(p))
      PROVE  /\ member[p] = Dir(p) /\ InHierarchy(Dir(p))
             /\ group[Dir(p)].limit = Asked(LimitOf(p))
             /\ LimitOf(p).mem = 0 /\ accounting /\ proc[p].held = "both" =>
                    group[Dir(p)].memsw = LimitOf(p).virt
  <2>1. /\ p \in Proc /\ proc[p] # None /\ proc[p].at = "done"
        /\ proc[p].held # "nothing" /\ root.mounted
    BY <1>1 DEF Settled, At, IInv, TypeOK
  <2>2. proc[p].obj \in Obj /\ app[proc[p].obj] # None
    BY <1>1, <2>1, ProcTyped DEF IInv, Counted
  <2>3. NameOf(p) \in Name /\ NameOf(p) \notin Again
    BY <1>1, <2>2, AppTyped DEF IInv, Settled, NameOf
  <2>4. Plain(p)
    BY <1>1, <2>1, <2>3, AgainFacts DEF Plain
  <2>5. Stage(p)
    BY <1>1, <2>4 DEF IInv, Stages
  <2>6. ~Short(p)
    BY <1>1, <2>1 DEF IInv, Lookup, First, NeverFound
  <2>7. proc[p].root \in Root /\ (InHierarchy(Dir(p)) => Inside(p, Dir(p)))
    BY <2>1, <2>5 DEF Stage, Early
  <2>8. proc[p].root.mounted
    BY <2>1, <2>6, <2>7 DEF Short
  <2>9. InHierarchy(Dir(p))
    BY <2>8, DirParts DEF InHierarchy
  <2> QED
    BY <2>1, <2>6, <2>7, <2>9 DEF Inside, Short
<1>2. ASSUME IInv PROVE Capped
  <2>1. ASSUME NEW p \in up
        PROVE  Settled(p) =>
                 (Printable(LimitOf(p)) =>
                    /\ member[p] = Dir(p) /\ InHierarchy(Dir(p))
                    /\ group[Dir(p)].limit = Asked(LimitOf(p))
                    /\ LimitOf(p).mem = 0 /\ accounting /\ proc[p].held = "both" =>
                           group[Dir(p)].memsw = LimitOf(p).virt)
    BY <1>1, <1>2
  <2> QED
    BY <2>1 DEF Capped, LimitOf
<1> QED
  BY <1>2, Invariant, PTL

(* Directories are named after the application and m_processIndex: two      *)
(* programs are in one only if that name has been given to a second object, *)
(* which a reload does, or to the same one by a daemon that came back.      *)
THEOREM GroupsApart == Spec => []OwnGroup
<1>1. ASSUME IInv PROVE OwnGroup
  <2> SUFFICES ASSUME NEW p \in up \union left, NEW q \in up \union left, p # q,
                      member[p] = member[q], member[p] # None, member[p][2] \notin Again
               PROVE  FALSE
    BY DEF OwnGroup
  <2>1. p \in Proc /\ q \in Proc /\ member[p] \in DOMAIN group
    BY <1>1 DEF IInv, TypeOK
  <2>2. member[p] \in Root \X Name \X (1..MaxIndex)
    BY <1>1, <2>1 DEF IInv, Made
  <2>3. member[p][2] \in Name
    BY <2>2
  <2>4. OnlyOne(member[p][2])
    BY <2>3, AgainFacts
  <2> QED
    BY <1>1, <2>1, <2>4 DEF IInv, Alone
<1> QED
  BY <1>1, Invariant, PTL
=============================================================================
