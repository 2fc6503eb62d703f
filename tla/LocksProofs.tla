----------------------------- MODULE LocksProofs -----------------------------
(***************************************************************************)
(* Locks: for any threads, requests, names, objects and tests, no threads  *)
(* ever wait for each other's mutexes, an answer about the host is whole,  *)
(* and, while one test is requested at a time, a thread waits only for the *)
(* pipe of a dead process group.                                           *)
(*                                                                         *)
(* What a program may look like does not depend on the state: Sound.  A    *)
(* step takes the first operation off and puts others in its place, which  *)
(* keeps the program sound when these fit it: Fits.  The rest of the       *)
(* invariant relates the programs to the registry and to the tests.        *)
(***************************************************************************)
EXTENDS Locks, SequenceTheorems, TLAPS

-----------------------------------------------------------------------------
(* Sound programs.                                                          *)

Waiting == {"call", "invoke", "json", "find", "add", "remove", "copy", "clear", "report", "spawn"}
Change == {"append", "replace", "erase"}

\* An operation that waits is done under the configuration's mutex or none.
Lawful(op) ==
    /\ op.do \in {"call", "json", "join"} => op.in \subseteq {Conf}
    /\ op.do \in Change => op.in = {Conf}
    /\ op.do = "fill" => op.in = {Res}
    /\ op.do \notin {"call", "json", "join", "body", "fill"} \union Change => op.in = {}

IsTest(op) == \/ op.do \in {"kill", "renew", "spawn", "leave", "arm"}
              \/ op.do = "find" /\ op.on.for = "test"

\* x may be done before y in one program.
Before(x, y) ==
    /\ y.in \subseteq x.in
    /\ ~(x.do \in Change /\ y.do \in Change)
    /\ IsTest(x) /\ IsTest(y) => \/ x.do = "kill" /\ y.do = "renew"
                                 \/ x.do = "leave" /\ y.do = "arm"

Ordered(p) == \A i, j \in DOMAIN p : i < j => Before(p[i], p[j])

\* The operation is on an object the thread must have a reference to.
Needs(op, o) ==
    \/ op.do \in {"add", "append", "kill", "renew", "invoke"} /\ op.on = o
    \/ op.do = "replace" /\ op.on.by = o
    \/ op.do \in {"spawn", "leave", "arm"} /\ op.on.app = o

Drops(op, o) == op.do = "drop" /\ op.on = o

Follows(p) == \A i \in DOMAIN p, o \in Obj :
    Needs(p[i], o) => \E j \in DOMAIN p : i < j /\ Drops(p[j], o)

Sound(p) ==
    /\ p \in Seq(Operation)
    /\ \A i \in DOMAIN p : Lawful(p[i])
    /\ Ordered(p) /\ Follows(p)

Programs == prog \in [Thread -> Seq(Operation)] /\ \A t \in Thread : Sound(prog[t])

Excluded == \A t, u \in Thread : t # u => Held(t) \intersect Held(u) = {}

-----------------------------------------------------------------------------
(* Programs and the registry.                                               *)

Registered ==
    /\ name \in [Obj -> Name \union {None}]
    /\ list \in Seq(Obj)
    /\ \A i, j \in DOMAIN list : name[list[i]] = name[list[j]] => i = j
    /\ \A o \in Obj : name[o] # None <=> InList(list, o) \/ Holds(prog, o)

\* What is about to be done to the list can still be done.
CanChange(op) ==
    /\ op.do = "append" => \A i \in DOMAIN list : name[list[i]] # name[op.on]
    /\ op.do = "replace" => op.on.at \in DOMAIN list /\ name[list[op.on.at]] = name[op.on.by]
    /\ op.do = "erase" => op.on \in DOMAIN list

Pending == \A t \in Thread : \A i \in DOMAIN prog[t] : CanChange(prog[t][i])

-----------------------------------------------------------------------------
(* Programs and tests.                                                      *)

Names(op, x) == \/ op.do \in {"spawn", "leave"} /\ op.on.test = x
                \/ op.do = "join" /\ op.on = x

NamedOnce == \A t, u \in Thread : \A i \in DOMAIN prog[t], j \in DOMAIN prog[u] : \A x \in Test :
    Names(prog[t][i], x) /\ Names(prog[u][j], x) => t = u /\ i = j

\* A test has an owner until it is joined: an object, a spawnProcess() or a timer.
Owned(op) ==
    /\ \A x \in Test : Names(op, x) => x \in tests
    /\ op.do = "join" => op.on \notin timers /\ \A o \in Obj : test[o] # op.on
    /\ op.do \in {"spawn", "leave"} => \A o \in Obj : test[o] = op.on.test => o = op.on.app
    /\ op.do \in {"spawn", "leave", "arm"} => test[op.on.app] # None

Tested ==
    /\ test \in [Obj -> tests \union {None}]
    /\ tests \subseteq Test /\ timers \union writers \union keeper \subseteq tests
    /\ \A o, p \in Obj : test[o] = test[p] /\ test[o] # None => o = p
    /\ \A t \in Thread : \A i \in DOMAIN prog[t] : Owned(prog[t][i])

-----------------------------------------------------------------------------
(* One test requested at a time.                                            *)

OneTester == \A t, u \in Thread : \A i \in DOMAIN prog[t], j \in DOMAIN prog[u] :
    IsTest(prog[t][i]) /\ IsTest(prog[u][j]) => t = u

\* The program's object has still the test the operation is about.
Same(op) == op.do \in {"spawn", "leave"} => test[op.on.app] = op.on.test

\* A process group that lives has a timer, or is about to.
Timed == \A x \in writers :
    \/ x \in timers
    \/ \E t \in Thread : \E i \in DOMAIN prog[t] : prog[t][i].do = "arm" /\ test[prog[t][i].on.app] = x

Dead(op) == op.do = "join" => op.on \notin writers

OneAtATime ==
    /\ OneTester /\ Timed
    /\ \A t \in Thread : \A i \in DOMAIN prog[t] : Same(prog[t][i]) /\ Dead(prog[t][i])

Collected ==
    /\ addresses \in BOOLEAN
    /\ addresses \/ \E t \in Thread : Doing(t, "fill")

IInv ==
    /\ Programs /\ Excluded /\ Registered /\ Pending /\ NamedOnce /\ Tested /\ Collected
    /\ ~Together => OneAtATime
-----------------------------------------------------------------------------
(* Operations.                                                              *)

LEMMA Kinds ==
    ASSUME NEW op \in Operation
    PROVE  /\ op.in \subseteq Mutex
           /\ op.do \in {"call", "body", "invoke", "drop", "add", "append", "kill", "renew"} => op.on \in Obj
           /\ op.do = "find" =>
                /\ op.on.for \in {"get", "output", "test", "start", "stop", "refresh"}
                /\ op.on.name \in Name
                /\ op.on.for = "refresh" => op.on.self \in Obj
           /\ op.do = "remove" => op.on \in Name
           /\ op.do = "erase" => op.on \in Nat
           /\ op.do = "replace" => op.on.at \in Nat /\ op.on.by \in Obj
           /\ op.do \in {"spawn", "leave", "arm"} =>
                op.on.app \in Obj /\ op.on.test \in Test /\ op.on \in [app : Obj, test : Test]
           /\ op.do = "join" => op.on \in Test
  BY DEF Operation

\* The operations there are, under any mutexes.
LEMMA Made ==
    ASSUME NEW M \in SUBSET Mutex
    PROVE  /\ \A o \in Obj, d \in {"call", "body", "invoke", "drop", "add", "append", "kill", "renew"} :
                [do |-> d, on |-> o, in |-> M] \in Operation
           /\ \A d \in {"json", "copy", "clear", "fill", "report"} :
                [do |-> d, on |-> None, in |-> M] \in Operation
           /\ \A r \in {"get", "output", "test", "start", "stop"}, n \in Name :
                [do |-> "find", on |-> [for |-> r, name |-> n, self |-> None], in |-> M] \in Operation
           /\ \A n \in Name, o \in Obj :
                [do |-> "find", on |-> [for |-> "refresh", name |-> n, self |-> o], in |-> M] \in Operation
           /\ \A n \in Name : [do |-> "remove", on |-> n, in |-> M] \in Operation
           /\ \A i \in Nat : [do |-> "erase", on |-> i, in |-> M] \in Operation
           /\ \A i \in Nat, o \in Obj :
                [do |-> "replace", on |-> [at |-> i, by |-> o], in |-> M] \in Operation
           /\ \A d \in {"spawn", "leave", "arm"}, s \in [app : Obj, test : Test] :
                [do |-> d, on |-> s, in |-> M] \in Operation
           /\ \A x \in Test : [do |-> "join", on |-> x, in |-> M] \in Operation
<1>1. /\ \A o \in Obj, d \in {"call", "body", "invoke", "drop", "add", "append", "kill", "renew"} :
                [do |-> d, on |-> o, in |-> M] \in Operation
      /\ \A d \in {"json", "copy", "clear", "fill", "report"} :
                [do |-> d, on |-> None, in |-> M] \in Operation
  BY DEF Operation
<1>2. /\ \A r \in {"get", "output", "test", "start", "stop"}, n \in Name :
                [do |-> "find", on |-> [for |-> r, name |-> n, self |-> None], in |-> M] \in Operation
      /\ \A n \in Name, o \in Obj :
                [do |-> "find", on |-> [for |-> "refresh", name |-> n, self |-> o], in |-> M] \in Operation
  BY DEF Operation
<1>3. /\ \A n \in Name : [do |-> "remove", on |-> n, in |-> M] \in Operation
      /\ \A i \in Nat : [do |-> "erase", on |-> i, in |-> M] \in Operation
      /\ \A i \in Nat, o \in Obj :
                [do |-> "replace", on |-> [at |-> i, by |-> o], in |-> M] \in Operation
      /\ \A x \in Test : [do |-> "join", on |-> x, in |-> M] \in Operation
  BY DEF Operation
<1>4. \A d \in {"spawn", "leave", "arm"}, s \in [app : Obj, test : Test] :
                [do |-> d, on |-> s, in |-> M] \in Operation
  BY DEF Operation
<1> QED
  BY <1>1, <1>2, <1>3, <1>4

LEMMA Again ==
    ASSUME NEW op \in Operation, NEW M \in SUBSET Mutex
    PROVE  /\ [op EXCEPT !.in = M] \in Operation
           /\ [op EXCEPT !.in = M].do = op.do
           /\ [op EXCEPT !.in = M].on = op.on
           /\ [op EXCEPT !.in = M].in = M
  BY DEF Operation

LEMMA UnderFacts ==
    ASSUME NEW p \in Seq(Operation), NEW M \in SUBSET Mutex
    PROVE  /\ Under(M, p) \in Seq(Operation) /\ DOMAIN Under(M, p) = DOMAIN p
           /\ \A i \in DOMAIN p : /\ Under(M, p)[i].do = p[i].do
                                  /\ Under(M, p)[i].on = p[i].on
                                  /\ Under(M, p)[i].in = M
<1>1. DOMAIN p = 1..Len(p) /\ Len(p) \in Nat
  BY LenProperties
<1>2. \A i \in DOMAIN p : p[i] \in Operation
  BY <1>1, ElementOfSeq
<1>3. Under(M, p) \in [1..Len(p) -> Operation]
  BY <1>1, <1>2, Again DEF Under
<1>4. Under(M, p) \in Seq(Operation)
  BY <1>1, <1>3, SeqDef
<1> QED
  BY <1>1, <1>2, <1>4, Again DEF Under

LEMMA CallAllFacts ==
    ASSUME NEW s \in Seq(Obj)
    PROVE  /\ CallAll(s) \in Seq(Operation) /\ DOMAIN CallAll(s) = DOMAIN s
           /\ \A i \in DOMAIN s : CallAll(s)[i].do = "call" /\ CallAll(s)[i].in = {}
<1>1. DOMAIN s = 1..Len(s) /\ Len(s) \in Nat
  BY LenProperties
<1>2. \A i \in DOMAIN s : s[i] \in Obj
  BY <1>1, ElementOfSeq
<1>3. CallAll(s) \in [1..Len(s) -> Operation]
  BY <1>1, <1>2, Made DEF CallAll, Call, Op
<1>4. CallAll(s) \in Seq(Operation)
  BY <1>1, <1>3, SeqDef
<1> QED
  BY <1>1, <1>2, <1>4 DEF CallAll, Call, Op

-----------------------------------------------------------------------------
(* Steps.                                                                   *)

\* pre may take the place of the first operation, op.
Fits(op, pre) ==
    /\ pre \in Seq(Operation)
    /\ \A i \in DOMAIN pre : Lawful(pre[i]) /\ op.in \subseteq pre[i].in
    /\ Ordered(pre)
    /\ \A i \in DOMAIN pre :
        /\ pre[i].do \in Change => op.in = {}
        /\ IsTest(pre[i]) => IsTest(op) /\ op.do \notin {"kill", "leave"}
        /\ \A o \in Obj : Needs(pre[i], o) =>
                Needs(op, o) \/ \E j \in DOMAIN pre : i < j /\ Drops(pre[j], o)

\* Where the operations of pre \o Tail(p) come from.
LEMMA Spliced ==
    ASSUME NEW p \in Seq(Operation), p # <<>>, NEW pre \in Seq(Operation)
    PROVE  LET q == pre \o Tail(p)
               n == Len(pre)
           IN  /\ q \in Seq(Operation) /\ n \in Nat /\ DOMAIN pre = 1..n /\ DOMAIN p = 1..Len(p)
               /\ DOMAIN q = 1..(n + Len(p) - 1) /\ Len(p) \in Nat \ {0} /\ 1 \in DOMAIN p
               /\ Head(p) = p[1] /\ p[1] \in Operation
               /\ \A i \in DOMAIN q : i <= n => i \in DOMAIN pre /\ q[i] = pre[i]
               /\ \A i \in DOMAIN q : i > n => /\ i - n + 1 \in DOMAIN p /\ i - n + 1 > 1
                                               /\ q[i] = p[i - n + 1]
               /\ \A i \in DOMAIN pre : i \in DOMAIN q /\ q[i] = pre[i]
               /\ \A i \in DOMAIN p : i > 1 => n + i - 1 \in DOMAIN q /\ q[n + i - 1] = p[i]
<1> DEFINE q == pre \o Tail(p)
           n == Len(pre)
<1>1. /\ Tail(p) \in Seq(Operation) /\ Len(Tail(p)) = Len(p) - 1
      /\ \A i \in 1..Len(Tail(p)) : Tail(p)[i] = p[i + 1]
  BY HeadTailProperties
<1>2. n \in Nat /\ DOMAIN pre = 1..n /\ DOMAIN p = 1..Len(p) /\ Len(p) \in Nat \ {0}
  BY LenProperties, EmptySeq
<1>3. /\ q \in Seq(Operation) /\ Len(q) = n + (Len(p) - 1)
      /\ \A i \in 1..(n + (Len(p) - 1)) : q[i] = IF i <= n THEN pre[i] ELSE Tail(p)[i - n]
  BY <1>1, ConcatProperties
<1>4. DOMAIN q = 1..(n + Len(p) - 1)
  BY <1>2, <1>3, LenProperties
<1>5. \A i \in DOMAIN q : i > n => /\ i - n + 1 \in DOMAIN p /\ i - n + 1 > 1
                                   /\ q[i] = p[i - n + 1]
  <2> TAKE i \in DOMAIN q
  <2> HAVE i > n
  <2>1. i - n \in 1..Len(Tail(p)) /\ i \in 1..(n + (Len(p) - 1)) /\ ~(i <= n)
    BY <1>1, <1>2, <1>4
  <2>2. q[i] = Tail(p)[i - n]
    BY <1>3, <2>1
  <2> QED
    BY <1>1, <1>2, <2>1, <2>2
<1>6. \A i \in DOMAIN p : i > 1 => n + i - 1 \in DOMAIN q /\ q[n + i - 1] = p[i]
  <2> TAKE i \in DOMAIN p
  <2> HAVE i > 1
  <2>1. n + i - 1 \in DOMAIN q /\ n + i - 1 > n /\ (n + i - 1) - n + 1 = i
    BY <1>2, <1>4
  <2> QED
    BY <1>5, <2>1
<1>7. \A i \in DOMAIN pre : i \in DOMAIN q /\ q[i] = pre[i]
  BY <1>2, <1>3, <1>4
<1>8. \A i \in DOMAIN q : i <= n => i \in DOMAIN pre /\ q[i] = pre[i]
  BY <1>2, <1>4, <1>7
<1>9. Head(p) = p[1] /\ 1 \in DOMAIN p /\ p[1] \in Operation
  BY <1>2, ElementOfSeq
<1> QED
  BY <1>2, <1>3, <1>4, <1>5, <1>6, <1>7, <1>8, <1>9

LEMMA StaysSound ==
    ASSUME NEW p, Sound(p), p # <<>>, NEW pre, Fits(Head(p), pre)
    PROVE  Sound(pre \o Tail(p))
<1> DEFINE q == pre \o Tail(p)
           n == Len(pre)
<1>0. p \in Seq(Operation) /\ pre \in Seq(Operation)
  BY DEF Sound, Fits
<1>1. /\ q \in Seq(Operation) /\ n \in Nat /\ DOMAIN pre = 1..n /\ DOMAIN p = 1..Len(p)
      /\ DOMAIN q = 1..(n + Len(p) - 1) /\ Len(p) \in Nat \ {0} /\ 1 \in DOMAIN p
      /\ Head(p) = p[1] /\ p[1] \in Operation
  BY <1>0, Spliced
<1>2. /\ \A i \in DOMAIN q : i <= n => i \in DOMAIN pre /\ q[i] = pre[i]
      /\ \A i \in DOMAIN q : i > n => i - n + 1 \in DOMAIN p /\ i - n + 1 > 1 /\ q[i] = p[i - n + 1]
  BY <1>0, Spliced
<1>3. /\ \A i \in DOMAIN pre : i \in DOMAIN q /\ q[i] = pre[i]
      /\ \A i \in DOMAIN p : i > 1 => n + i - 1 \in DOMAIN q /\ q[n + i - 1] = p[i]
  BY <1>0, Spliced
<1> HIDE DEF q, n
<1>4. \A i \in DOMAIN q : Lawful(q[i])
  <2> TAKE i \in DOMAIN q
  <2>1. i \in Nat
    BY <1>1
  <2>2. CASE i <= n
    BY <1>2, <2>2 DEF Fits
  <2>3. CASE i > n
    BY <1>2, <2>3 DEF Sound
  <2> QED
    BY <1>1, <2>1, <2>2, <2>3
<1>5. Ordered(q)
  <2> SUFFICES ASSUME NEW i \in DOMAIN q, NEW j \in DOMAIN q, i < j PROVE Before(q[i], q[j])
    BY DEF Ordered
  <2>1. i \in Nat /\ j \in Nat
    BY <1>1
  <2>2. CASE j <= n
    <3>1. i <= n
      BY <1>1, <2>1, <2>2
    <3>2. i \in DOMAIN pre /\ j \in DOMAIN pre /\ q[i] = pre[i] /\ q[j] = pre[j]
      BY <1>2, <2>2, <3>1
    <3> QED
      BY <3>2 DEF Fits, Ordered
  <2>3. CASE i > n
    <3> DEFINE a == i - n + 1
               b == j - n + 1
    <3>1. j > n
      BY <1>1, <2>1, <2>3
    <3>2. a \in DOMAIN p /\ b \in DOMAIN p /\ q[i] = p[a] /\ q[j] = p[b]
      BY <1>2, <2>3, <3>1
    <3>3. a < b
      BY <1>1, <2>1
    <3> QED
      BY <3>2, <3>3 DEF Sound, Ordered
  <2>4. CASE i <= n /\ j > n
    <3> DEFINE b == j - n + 1
    <3>1. i \in DOMAIN pre /\ q[i] = pre[i] /\ b \in DOMAIN p /\ 1 < b /\ q[j] = p[b]
      BY <1>2, <2>4
    <3>2. Before(p[1], p[b]) /\ Lawful(p[b])
      BY <1>1, <3>1 DEF Sound, Ordered
    <3>3. /\ p[1].in \subseteq pre[i].in
          /\ pre[i].do \in Change => p[1].in = {}
          /\ IsTest(pre[i]) => IsTest(p[1]) /\ p[1].do \notin {"kill", "leave"}
      BY <1>1, <3>1 DEF Fits
    <3>4. p[b].in \subseteq pre[i].in
      BY <3>2, <3>3 DEF Before
    <3>5. ~(pre[i].do \in Change /\ p[b].do \in Change)
      BY <3>2, <3>3 DEF Before, Lawful
    <3>6. ~(IsTest(pre[i]) /\ IsTest(p[b]))
      BY <3>2, <3>3 DEF Before
    <3> QED
      BY <3>1, <3>4, <3>5, <3>6 DEF Before
  <2> QED
    BY <1>1, <2>1, <2>2, <2>3, <2>4
<1>6. \A k \in DOMAIN p, o \in Obj : Needs(p[k], o) => \E j \in DOMAIN q : n + k - 1 < j /\ Drops(q[j], o)
  <2> TAKE k \in DOMAIN p, o \in Obj
  <2> HAVE Needs(p[k], o)
  <2>1. PICK j \in DOMAIN p : k < j /\ Drops(p[j], o)
    BY DEF Sound, Follows
  <2>2. k \in Nat /\ j \in Nat /\ k >= 1 /\ j > 1
    BY <1>1, <2>1
  <2>3. n + j - 1 \in DOMAIN q /\ Drops(q[n + j - 1], o)
    BY <1>3, <2>1, <2>2
  <2>4. n + k - 1 < n + j - 1
    BY <1>1, <2>1, <2>2
  <2> QED
    BY <2>3, <2>4
<1>7. Follows(q)
  <2> SUFFICES ASSUME NEW i \in DOMAIN q, NEW o \in Obj, Needs(q[i], o)
               PROVE  \E j \in DOMAIN q : i < j /\ Drops(q[j], o)
    BY DEF Follows
  <2>1. i \in Nat
    BY <1>1
  <2>2. CASE i <= n
    <3>1. i \in DOMAIN pre /\ Needs(pre[i], o)
      BY <1>2, <2>2
    <3>2. CASE Needs(p[1], o)
      <4>1. PICK j \in DOMAIN q : n + 1 - 1 < j /\ Drops(q[j], o)
        BY <1>1, <1>6, <3>2
      <4>2. i < j
        BY <1>1, <2>1, <2>2, <4>1
      <4> QED
        BY <4>1, <4>2
    <3>3. CASE \E j \in DOMAIN pre : i < j /\ Drops(pre[j], o)
      BY <1>3, <3>3
    <3> QED
      BY <1>1, <3>1, <3>2, <3>3 DEF Fits
  <2>3. CASE i > n
    <3> DEFINE a == i - n + 1
    <3>1. a \in DOMAIN p /\ Needs(p[a], o)
      BY <1>2, <2>3
    <3>2. PICK j \in DOMAIN q : n + a - 1 < j /\ Drops(q[j], o)
      BY <1>6, <3>1
    <3>3. i < j
      BY <1>1, <2>1, <3>2
    <3> QED
      BY <3>2, <3>3
  <2> QED
    BY <1>1, <2>1, <2>2, <2>3
<1>8. q \in Seq(Operation)
  BY <1>1
<1>9. Sound(q)
  BY <1>4, <1>5, <1>7, <1>8 DEF Sound
<1> QED
  BY <1>9 DEF q

-----------------------------------------------------------------------------
(* What the actions put in the place of an operation fits it.               *)

LEMMA NothingFits == ASSUME NEW op PROVE Fits(op, <<>>)
  BY EmptySeq DEF Fits, Ordered

\* One operation that is no change, no part of a test and needs no reference.
LEMMA OneFits ==
    ASSUME NEW op, NEW x \in Operation, Lawful(x), op.in \subseteq x.in,
           x.do \in {"body", "join", "fill", "call"}
    PROVE  Fits(op, <<x>>)
<1>1. <<x>> \in Seq(Operation) /\ DOMAIN <<x>> = {1} /\ <<x>>[1] = x
  OBVIOUS
<1>2. ~IsTest(x) /\ x.do \notin Change /\ \A o : ~Needs(x, o)
  BY DEF IsTest, Change, Needs
<1> QED
  BY <1>1, <1>2 DEF Fits, Ordered

\* A walk over the list: calls of applications, and x at k.
Walk(w, k, x) ==
    /\ w \in Seq(Operation) /\ k \in 0..Len(w)
    /\ \A i \in DOMAIN w : IF i = k THEN w[i] = x ELSE w[i].do \in {"call", "json"}

LEMMA Walks ==
    ASSUME NEW x
    PROVE  /\ \A s \in Seq(Obj) : Walk(CallAll(s), 0, x)
           /\ Walk(<<ReadConfig>>, 0, x)
           /\ x \in Operation => Walk(<<x>>, 1, x) /\ Walk(<<x, ReadConfig>>, 1, x)
<1>1. \A s \in Seq(Obj) : Walk(CallAll(s), 0, x)
  <2> TAKE s \in Seq(Obj)
  <2>1. /\ CallAll(s) \in Seq(Operation) /\ DOMAIN CallAll(s) = DOMAIN s
        /\ \A i \in DOMAIN s : CallAll(s)[i].do = "call"
        /\ DOMAIN s = 1..Len(s)
    BY CallAllFacts, LenProperties
  <2> QED
    BY <2>1, LenProperties DEF Walk
<1>2. Walk(<<ReadConfig>>, 0, x)
  <2>1. ReadConfig \in Operation /\ ReadConfig.do = "json"
    BY Made DEF ReadConfig, Op
  <2> QED
    BY <2>1 DEF Walk
<1>3. x \in Operation => Walk(<<x>>, 1, x) /\ Walk(<<x, ReadConfig>>, 1, x)
  <2>1. ReadConfig \in Operation /\ ReadConfig.do = "json"
    BY Made DEF ReadConfig, Op
  <2> QED
    BY <2>1 DEF Walk
<1> QED
  BY <1>1, <1>2, <1>3

LEMMA WalkOn ==
    ASSUME NEW v, NEW w, NEW x, NEW k, NEW l, Walk(v, k, x), Walk(w, l, x), k = 0 \/ l = 0
    PROVE  (l = 0 => Walk(v \o w, k, x)) /\ (l # 0 => Walk(v \o w, Len(v) + l, x))
<1>1. /\ v \o w \in Seq(Operation) /\ Len(v \o w) = Len(v) + Len(w)
      /\ \A i \in 1..Len(v) + Len(w) : (v \o w)[i] = IF i <= Len(v) THEN v[i] ELSE w[i - Len(v)]
      /\ Len(v) \in Nat /\ Len(w) \in Nat /\ DOMAIN v = 1..Len(v) /\ DOMAIN w = 1..Len(w)
      /\ DOMAIN (v \o w) = 1..Len(v) + Len(w)
  BY ConcatProperties, LenProperties DEF Walk
<1> DEFINE u == v \o w
           m == IF l = 0 THEN k ELSE Len(v) + l
<1>2. k \in 0..Len(v) /\ l \in 0..Len(w)
  BY DEF Walk
<1>3. m \in 0..Len(u)
  BY <1>1, <1>2
<1>4. ASSUME NEW i \in DOMAIN u PROVE IF i = m THEN u[i] = x ELSE u[i].do \in {"call", "json"}
  <2>1. CASE i <= Len(v)
    <3>1. i \in DOMAIN v /\ u[i] = v[i] /\ (i = m <=> i = k)
      BY <1>1, <1>2, <2>1
    <3> QED
      BY <3>1 DEF Walk
  <2>2. CASE ~(i <= Len(v))
    <3>1. i - Len(v) \in DOMAIN w /\ u[i] = w[i - Len(v)] /\ (i = m <=> i - Len(v) = l)
      BY <1>1, <1>2, <2>2
    <3> QED
      BY <3>1 DEF Walk
  <2> QED
    BY <2>1, <2>2
<1>5. Walk(u, m, x)
  BY <1>1, <1>3, <1>4 DEF Walk
<1> QED
  BY <1>5

LEMMA WalkFits ==
    ASSUME NEW op, op.in \subseteq {Conf},
           NEW w, NEW k, NEW x, Walk(w, k, x), x.do \in Change, k # 0 => op.in = {},
           \A o \in Obj : Needs(x, o) => Needs(op, o)
    PROVE  Fits(op, Under({Conf}, w))
<1> DEFINE u == Under({Conf}, w)
<1>1. /\ u \in Seq(Operation) /\ DOMAIN u = DOMAIN w /\ DOMAIN w = 1..Len(w) /\ Len(w) \in Nat
      /\ \A i \in DOMAIN w : u[i].do = w[i].do /\ u[i].on = w[i].on /\ u[i].in = {Conf}
  BY UnderFacts, LenProperties DEF Walk, Mutex
<1> HIDE DEF u
<1>2. \A i \in DOMAIN u : IF i = k THEN u[i].do = x.do /\ u[i].on = x.on /\ k # 0
                                   ELSE u[i].do \in {"call", "json"}
  <2> TAKE i \in DOMAIN u
  <2>1. IF i = k THEN w[i] = x ELSE w[i].do \in {"call", "json"}
    BY <1>1 DEF Walk
  <2> QED
    BY <1>1, <2>1
<1>3. \A i \in DOMAIN u : /\ Lawful(u[i]) /\ op.in \subseteq u[i].in /\ ~IsTest(u[i])
                          /\ u[i].do \in Change => i = k /\ op.in = {}
  BY <1>1, <1>2 DEF Lawful, IsTest, Change
<1>4. \A i \in DOMAIN u, o \in Obj : Needs(u[i], o) => Needs(op, o)
  BY <1>1, <1>2 DEF Needs, Change
<1>5. Ordered(u)
  <2> SUFFICES ASSUME NEW i \in DOMAIN u, NEW j \in DOMAIN u, i < j PROVE Before(u[i], u[j])
    BY DEF Ordered
  <2>1. i \in DOMAIN w /\ j \in DOMAIN w /\ i # j
    BY <1>1
  <2>2. u[i].in = {Conf} /\ u[j].in = {Conf}
    BY <1>1, <2>1
  <2>3. ~IsTest(u[i])
    BY <1>3
  <2> QED
    BY <1>3, <2>1, <2>2, <2>3 DEF Before
<1>6. Fits(op, u)
  BY <1>1, <1>3, <1>4, <1>5 DEF Fits
<1> QED
  BY <1>6 DEF u

\* What follows a walk that changes nothing.
LEMMA FitsAfterWalk ==
    ASSUME NEW op, op.in = {}, NEW w, Walk(w, 0, Op("erase", 0)), NEW b, Fits(op, b),
           \A i \in DOMAIN b : b[i].in = {}
    PROVE  Fits(op, Under({Conf}, w) \o b)
<1> DEFINE a == Under({Conf}, w)
           q == a \o b
           n == Len(a)
<1>1. /\ a \in Seq(Operation) /\ n \in Nat /\ DOMAIN a = 1..n
      /\ \A i \in DOMAIN a : a[i].do \in {"call", "json"} /\ a[i].in = {Conf}
  BY UnderFacts, LenProperties DEF Walk, Mutex
<1>2. b \in Seq(Operation) /\ DOMAIN b = 1..Len(b) /\ Len(b) \in Nat
  BY LenProperties DEF Fits
<1>3. /\ q \in Seq(Operation) /\ DOMAIN q = 1..n + Len(b)
      /\ \A i \in 1..n + Len(b) : q[i] = IF i <= n THEN a[i] ELSE b[i - n]
  BY <1>1, <1>2, ConcatProperties, LenProperties
<1> HIDE DEF a, q, n
<1>4. \A i \in DOMAIN q : \/ i <= n /\ q[i].do \in {"call", "json"} /\ q[i].in = {Conf}
                          \/ i > n /\ i - n \in DOMAIN b /\ q[i] = b[i - n] /\ q[i].in = {}
  BY <1>1, <1>2, <1>3
<1>5. ASSUME NEW j \in DOMAIN b PROVE n + j \in DOMAIN q /\ q[n + j] = b[j]
  <2>1. n + j \in 1..n + Len(b) /\ ~(n + j <= n) /\ (n + j) - n = j
    BY <1>1, <1>2
  <2> QED
    BY <1>3, <2>1
<1>6. \A i \in DOMAIN q : /\ Lawful(q[i]) /\ op.in \subseteq q[i].in
                          /\ q[i].do \in Change => op.in = {}
                          /\ IsTest(q[i]) => IsTest(op) /\ op.do \notin {"kill", "leave"}
  BY <1>4 DEF Fits, Lawful, IsTest, Change
<1>7. Ordered(q)
  <2> SUFFICES ASSUME NEW i \in DOMAIN q, NEW j \in DOMAIN q, i < j PROVE Before(q[i], q[j])
    BY DEF Ordered
  <2>1. CASE q[i].do \in {"call", "json"} /\ q[i].in = {Conf}
    BY <1>4, <2>1 DEF Before, IsTest, Change
  <2>2. CASE i > n
    <3>1. j > n /\ i - n < j - n
      BY <1>1, <1>2, <1>3, <2>2
    <3>2. i - n \in DOMAIN b /\ q[i] = b[i - n] /\ j - n \in DOMAIN b /\ q[j] = b[j - n]
      BY <1>1, <1>3, <1>4, <2>2, <3>1
    <3> QED
      BY <3>1, <3>2 DEF Fits, Ordered
  <2> QED
    BY <1>4, <2>1, <2>2
<1>8. \A i \in DOMAIN q, o \in Obj : Needs(q[i], o) =>
          Needs(op, o) \/ \E j \in DOMAIN q : i < j /\ Drops(q[j], o)
  <2> SUFFICES ASSUME NEW i \in DOMAIN q, NEW o \in Obj, Needs(q[i], o), ~Needs(op, o)
               PROVE  \E j \in DOMAIN q : i < j /\ Drops(q[j], o)
    OBVIOUS
  <2>1. i - n \in DOMAIN b /\ q[i] = b[i - n]
    BY <1>4 DEF Needs
  <2>2. PICK j \in DOMAIN b : i - n < j /\ Drops(b[j], o)
    BY <2>1 DEF Fits
  <2>3. n + j \in DOMAIN q /\ i < n + j /\ Drops(q[n + j], o)
    BY <1>1, <1>2, <1>3, <1>5, <2>2
  <2> QED
    BY <2>3
<1>9. Fits(op, q)
  BY <1>3, <1>6, <1>7, <1>8 DEF Fits
<1> QED
  BY <1>9 DEF q, a

-----------------------------------------------------------------------------
(* A step of thread t puts pre before what it has left to do.               *)

Rest1(p) == IF p = <<>> THEN <<>> ELSE Tail(p)
Turn(t, pre) == prog' = [prog EXCEPT ![t] = pre \o Rest1(@)]

LEMMA Turns ==
    ASSUME NEW t \in Thread, NEW pre \in Seq(Operation), prog \in [Thread -> Seq(Operation)]
    PROVE  /\ prog[t] # <<>> /\ Continue(t, pre) => Turn(t, pre)
           /\ prog[t] = <<>> /\ prog' = [prog EXCEPT ![t] = pre] => Turn(t, pre)
<1>1. pre \o <<>> = pre
  BY ConcatEmptySeq
<1> QED
  BY <1>1 DEF Turn, Continue, Rest1

LEMMA TurnFacts ==
    ASSUME prog \in [Thread -> Seq(Operation)], NEW t \in Thread, NEW pre \in Seq(Operation), Turn(t, pre)
    PROVE  LET n == Len(pre)
           IN  /\ prog' \in [Thread -> Seq(Operation)] /\ n \in Nat /\ DOMAIN pre = 1..n
               /\ \A u \in Thread \ {t} : prog'[u] = prog[u]
               /\ \A i \in DOMAIN prog'[t] : i <= n => i \in DOMAIN pre /\ prog'[t][i] = pre[i]
               /\ \A i \in DOMAIN prog'[t] : i > n => /\ i - n + 1 \in DOMAIN prog[t] /\ i - n + 1 > 1
                                                      /\ prog'[t][i] = prog[t][i - n + 1]
               /\ \A i \in DOMAIN pre : i \in DOMAIN prog'[t] /\ prog'[t][i] = pre[i]
               /\ \A i \in DOMAIN prog[t] : i > 1 => n + i - 1 \in DOMAIN prog'[t]
                                                     /\ prog'[t][n + i - 1] = prog[t][i]
               /\ \A u \in Thread : DOMAIN prog[u] = 1..Len(prog[u]) /\ Len(prog[u]) \in Nat
               /\ \A u \in Thread : DOMAIN prog'[u] = 1..Len(prog'[u]) /\ Len(prog'[u]) \in Nat
<1> DEFINE p == prog[t]
           n == Len(pre)
           q == pre \o Rest1(p)
<1>1. p \in Seq(Operation)
  OBVIOUS
<1>2. q \in Seq(Operation) /\ n \in Nat /\ DOMAIN pre = 1..n
  BY ConcatProperties, LenProperties, HeadTailProperties, EmptySeq DEF Rest1
<1>3. prog' = [prog EXCEPT ![t] = q]
  BY DEF Turn
<1>4. prog' \in [Thread -> Seq(Operation)] /\ prog'[t] = q /\ \A u \in Thread \ {t} : prog'[u] = prog[u]
  BY <1>2, <1>3
<1>5. /\ \A i \in DOMAIN q : i <= n => i \in DOMAIN pre /\ q[i] = pre[i]
      /\ \A i \in DOMAIN q : i > n => i - n + 1 \in DOMAIN p /\ i - n + 1 > 1 /\ q[i] = p[i - n + 1]
      /\ \A i \in DOMAIN pre : i \in DOMAIN q /\ q[i] = pre[i]
      /\ \A i \in DOMAIN p : i > 1 => n + i - 1 \in DOMAIN q /\ q[n + i - 1] = p[i]
  <2>1. CASE p = <<>>
    <3>1. q = pre
      BY <2>1, ConcatEmptySeq DEF Rest1
    <3>2. DOMAIN p = {}
      BY <2>1
    <3>3. \A i \in DOMAIN pre : i <= n /\ ~(i > n)
      BY <1>2
    <3> QED
      BY <3>1, <3>2, <3>3
  <2>2. CASE p # <<>>
    <3> DEFINE r == pre \o Tail(p)
    <3>1. q = r
      BY <2>2 DEF Rest1
    <3>2. /\ \A i \in DOMAIN r : i <= n => i \in DOMAIN pre /\ r[i] = pre[i]
          /\ \A i \in DOMAIN r : i > n => i - n + 1 \in DOMAIN p /\ i - n + 1 > 1 /\ r[i] = p[i - n + 1]
          /\ \A i \in DOMAIN pre : i \in DOMAIN r /\ r[i] = pre[i]
          /\ \A i \in DOMAIN p : i > 1 => n + i - 1 \in DOMAIN r /\ r[n + i - 1] = p[i]
      <4> HIDE DEF p
      <4> QED
        BY <1>1, <2>2, Spliced
    <3> HIDE DEF q, r, p, n
    <3> QED
      BY <3>1, <3>2
  <2> QED
    BY <2>1, <2>2
<1>6. /\ \A u \in Thread : DOMAIN prog[u] = 1..Len(prog[u]) /\ Len(prog[u]) \in Nat
      /\ \A u \in Thread : DOMAIN prog'[u] = 1..Len(prog'[u]) /\ Len(prog'[u]) \in Nat
  BY <1>4, LenProperties
<1> QED
  BY <1>2, <1>4, <1>5, <1>6

\* Every operation to do was to be done before the step, or is in pre.
LEMMA Origin ==
    ASSUME prog \in [Thread -> Seq(Operation)], NEW t \in Thread, NEW pre \in Seq(Operation), Turn(t, pre)
    PROVE  /\ \A u \in Thread : \A i \in DOMAIN prog'[u] :
                \/ \E j \in DOMAIN prog[u] : prog'[u][i] = prog[u][j] /\ (u = t => j > 1)
                \/ u = t /\ \E j \in DOMAIN pre : prog'[u][i] = pre[j]
           /\ \A u \in Thread : \A j \in DOMAIN prog[u] :
                (u = t => j > 1) => \E i \in DOMAIN prog'[u] : prog'[u][i] = prog[u][j]
           /\ \A j \in DOMAIN pre : \E i \in DOMAIN prog'[t] : prog'[t][i] = pre[j]
<1> DEFINE n == Len(pre)
<1>1. ASSUME NEW u \in Thread, NEW i \in DOMAIN prog'[u]
      PROVE  \/ \E j \in DOMAIN prog[u] : prog'[u][i] = prog[u][j] /\ (u = t => j > 1)
             \/ u = t /\ \E j \in DOMAIN pre : prog'[u][i] = pre[j]
  <2>1. CASE u # t
    <3>1. prog'[u] = prog[u]
      BY <2>1, TurnFacts
    <3> QED
      BY <2>1, <3>1
  <2>2. CASE u = t
    <3>1. i \in Nat /\ n \in Nat
      BY <2>2, TurnFacts
    <3>2. CASE i <= n
      BY <2>2, <3>2, TurnFacts
    <3>3. CASE i > n
      <4>1. i - n + 1 \in DOMAIN prog[t] /\ i - n + 1 > 1 /\ prog'[t][i] = prog[t][i - n + 1]
        BY <2>2, <3>3, TurnFacts
      <4> QED
        BY <2>2, <4>1
    <3> QED
      BY <3>1, <3>2, <3>3
  <2> QED
    BY <2>1, <2>2
<1>2. ASSUME NEW u \in Thread, NEW j \in DOMAIN prog[u], u = t => j > 1
      PROVE  \E i \in DOMAIN prog'[u] : prog'[u][i] = prog[u][j]
  <2>1. CASE u # t
    <3>1. prog'[u] = prog[u]
      BY <2>1, TurnFacts
    <3> QED
      BY <3>1
  <2>2. CASE u = t
    <3>1. n + j - 1 \in DOMAIN prog'[t] /\ prog'[t][n + j - 1] = prog[t][j]
      BY <1>2, <2>2, TurnFacts
    <3> QED
      BY <2>2, <3>1
  <2> QED
    BY <2>1, <2>2
<1>3. \A j \in DOMAIN pre : \E i \in DOMAIN prog'[t] : prog'[t][i] = pre[j]
  <2>1. \A j \in DOMAIN pre : j \in DOMAIN prog'[t] /\ prog'[t][j] = pre[j]
    BY TurnFacts
  <2> QED
    BY <2>1
<1> QED
  BY <1>1, <1>2, <1>3

\* A thread that has something to do has a first operation, a lawful one.
LEMMA First ==
    ASSUME Programs, NEW t \in Thread, prog[t] # <<>>
    PROVE  /\ 1 \in DOMAIN prog[t] /\ Head(prog[t]) = prog[t][1]
           /\ Head(prog[t]) \in Operation /\ Lawful(Head(prog[t]))
           /\ Held(t) = Head(prog[t]).in /\ Held(t) \subseteq Mutex
<1>1. prog[t] \in Seq(Operation) /\ \A i \in DOMAIN prog[t] : Lawful(prog[t][i])
  BY DEF Programs, Sound
<1>2. 1 \in DOMAIN prog[t] /\ Head(prog[t]) = prog[t][1] /\ prog[t][1] \in Operation
  BY <1>1, Spliced, EmptySeq
<1> QED
  BY <1>1, <1>2, Kinds DEF Held

LEMMA ProgramsKept ==
    ASSUME Programs, NEW t \in Thread, prog[t] # <<>>, NEW pre, Fits(Head(prog[t]), pre), Turn(t, pre)
    PROVE  Programs'
<1>1. prog'[t] = pre \o Tail(prog[t]) /\ Sound(prog[t])
  BY DEF Programs, Turn, Rest1
<1>2. Sound(prog'[t])
  BY <1>1, StaysSound
<1>3. \A u \in Thread \ {t} : prog'[u] = prog[u]
  BY DEF Programs, Turn
<1>4. prog' \in [Thread -> Seq(Operation)]
  BY TurnFacts DEF Programs, Fits
<1> QED
  BY <1>2, <1>3, <1>4 DEF Programs, Sound, Ordered, Follows

LEMMA ProgramsBegun ==
    ASSUME Programs, NEW t \in Thread, NEW p, Sound(p), prog' = [prog EXCEPT ![t] = p]
    PROVE  Programs'
<1>1. prog' \in [Thread -> Seq(Operation)] /\ \A u \in Thread : Sound(prog'[u])
  BY DEF Programs, Sound
<1> QED
  BY <1>1 DEF Programs, Sound, Ordered, Follows

\* A thread goes on under the mutexes it had and others that were free.
LEMMA ExcludedKept ==
    ASSUME Programs, Excluded, NEW t \in Thread, NEW pre \in Seq(Operation), Turn(t, pre),
           pre # <<>> => \A m \in pre[1].in \ Held(t) : Free(t, m)
    PROVE  Excluded'
<1>0. prog \in [Thread -> Seq(Operation)]
  BY DEF Programs
<1>1. \A m \in Held(t)' \ Held(t) : Free(t, m)
  <2> SUFFICES ASSUME NEW m \in Held(t)', m \notin Held(t) PROVE Free(t, m)
    OBVIOUS
  <2>1. prog'[t] # <<>> /\ m \in Head(prog'[t]).in
    BY DEF Held
  <2>2. prog'[t] \in Seq(Operation)
    BY <1>0, TurnFacts
  <2>3. 1 \in DOMAIN prog'[t] /\ m \in prog'[t][1].in
    BY <2>1, <2>2, Spliced, EmptySeq
  <2>4. CASE pre = <<>>
    <3>1. Len(pre) = 0
      BY <2>4
    <3>2. 1 > Len(pre) /\ 1 - Len(pre) + 1 = 2
      BY <3>1
    <3>3. 2 \in DOMAIN prog[t] /\ prog'[t][1] = prog[t][2]
      BY <1>0, <2>3, <3>2, TurnFacts
    <3>4. prog[t] # <<>>
      BY <3>3
    <3>5. 1 \in DOMAIN prog[t] /\ Held(t) = prog[t][1].in
      BY <3>4, First
    <3>6. Before(prog[t][1], prog[t][2])
      BY <3>3, <3>5 DEF Programs, Sound, Ordered
    <3> QED
      BY <2>3, <3>3, <3>5, <3>6 DEF Before
  <2>5. CASE pre # <<>>
    <3>1. 1 \in DOMAIN pre
      BY <2>5, LenProperties, EmptySeq
    <3>2. prog'[t][1] = pre[1]
      BY <1>0, <3>1, TurnFacts
    <3> QED
      BY <2>3, <2>5, <3>2
  <2> QED
    BY <2>4, <2>5
<1>2. \A u \in Thread \ {t} : Held(u)' = Held(u)
  BY <1>0, TurnFacts DEF Held
<1>3. ASSUME NEW u \in Thread \ {t} PROVE Held(t)' \intersect Held(u)' = {}
  BY <1>1, <1>2, <1>3 DEF Excluded, Free
<1>4. ASSUME NEW u \in Thread, NEW v \in Thread, u # v PROVE Held(u)' \intersect Held(v)' = {}
  BY <1>2, <1>3, <1>4 DEF Excluded
<1> QED
  BY <1>4 DEF Excluded

\* References come from pre only.
LEMMA HoldsTurned ==
    ASSUME Programs, NEW t \in Thread, NEW pre \in Seq(Operation), Turn(t, pre), NEW o \in Obj
    PROVE  /\ Holds(prog', o) => Holds(prog, o) \/ \E i \in DOMAIN pre : Drops(pre[i], o)
           /\ (\E i \in DOMAIN pre : Drops(pre[i], o)) => Holds(prog', o)
           /\ Holds(prog, o) => Holds(prog', o) \/ (prog[t] # <<>> /\ Drops(Head(prog[t]), o))
<1>0. prog \in [Thread -> Seq(Operation)]
  BY DEF Programs
<1>1. Holds(prog', o) => Holds(prog, o) \/ \E i \in DOMAIN pre : Drops(pre[i], o)
  <2> SUFFICES ASSUME NEW u \in Thread, NEW i \in DOMAIN prog'[u], Drops(prog'[u][i], o)
               PROVE  Holds(prog, o) \/ \E k \in DOMAIN pre : Drops(pre[k], o)
    BY DEF Holds, Drops
  <2>1. CASE \E j \in DOMAIN prog[u] : prog'[u][i] = prog[u][j]
    BY <2>1 DEF Holds, Drops
  <2>2. CASE \E j \in DOMAIN pre : prog'[u][i] = pre[j]
    BY <2>2
  <2> QED
    BY <1>0, <2>1, <2>2, Origin
<1>2. (\E i \in DOMAIN pre : Drops(pre[i], o)) => Holds(prog', o)
  BY <1>0, Origin DEF Holds, Drops
<1>3. Holds(prog, o) => Holds(prog', o) \/ (prog[t] # <<>> /\ Drops(Head(prog[t]), o))
  <2> SUFFICES ASSUME NEW u \in Thread, NEW j \in DOMAIN prog[u], Drops(prog[u][j], o)
               PROVE  Holds(prog', o) \/ (prog[t] # <<>> /\ Drops(Head(prog[t]), o))
    BY DEF Holds, Drops
  <2>1. CASE u = t => j > 1
    <3>1. \E i \in DOMAIN prog'[u] : prog'[u][i] = prog[u][j]
      BY <1>0, <2>1, Origin
    <3> QED
      BY <3>1 DEF Holds, Drops
  <2>2. CASE u = t /\ ~(j > 1)
    <3>1. prog[t] # <<>>
      BY <2>2
    <3>2. j = 1 /\ Head(prog[t]) = prog[t][1]
      BY <1>0, <2>2, <3>1, First, TurnFacts
    <3> QED
      BY <2>2, <3>1, <3>2
  <2> QED
    BY <2>1, <2>2
<1> QED
  BY <1>1, <1>2, <1>3

LEMMA RegisteredKept ==
    ASSUME Programs, Registered, NEW t \in Thread, NEW pre \in Seq(Operation), Turn(t, pre),
           prog[t] # <<>> => Head(prog[t]).do # "drop",
           \A i \in DOMAIN pre, o \in Obj : Drops(pre[i], o) => name[o] # None,
           UNCHANGED registry
    PROVE  Registered'
<1>1. \A o \in Obj : Holds(prog', o) \/ InList(list, o) <=> Holds(prog, o) \/ InList(list, o)
  BY HoldsTurned DEF Drops, Registered
<1> QED
  BY <1>1 DEF Registered, registry, InList

LEMMA PendingKept ==
    ASSUME Programs, Pending, NEW t \in Thread, NEW pre \in Seq(Operation), Turn(t, pre),
           \A i \in DOMAIN pre : CanChange(pre[i]),
           UNCHANGED registry
    PROVE  Pending'
<1>1. ASSUME NEW u \in Thread, NEW i \in DOMAIN prog'[u] PROVE CanChange(prog'[u][i])
  BY Origin DEF Pending, Programs
<1> QED
  BY <1>1 DEF Pending, CanChange, registry

\* No test is named twice, if pre names only what the first operation did and others did not.
LEMMA NamedOnceKept ==
    ASSUME Programs, NamedOnce, NEW t \in Thread, NEW pre \in Seq(Operation), Turn(t, pre),
           \A i, j \in DOMAIN pre : \A x \in Test : Names(pre[i], x) /\ Names(pre[j], x) => i = j,
           \A i \in DOMAIN pre : \A x \in Test : Names(pre[i], x) =>
               \A u \in Thread : \A j \in DOMAIN prog[u] : Names(prog[u][j], x) => u = t /\ j = 1
    PROVE  NamedOnce'
<1>0. prog \in [Thread -> Seq(Operation)]
  BY DEF Programs
<1> DEFINE n == Len(pre)
<1>1. ASSUME NEW i \in DOMAIN prog'[t], NEW j \in DOMAIN prog'[t], NEW x \in Test,
             Names(prog'[t][i], x), Names(prog'[t][j], x)
      PROVE  i = j
  <2>1. i \in Nat /\ j \in Nat /\ n \in Nat
    BY <1>0, TurnFacts
  <2>2. CASE i <= n /\ j <= n
    BY <1>0, <1>1, <2>2, TurnFacts
  <2>3. CASE i > n /\ j > n
    <3>1. i - n + 1 \in DOMAIN prog[t] /\ prog'[t][i] = prog[t][i - n + 1]
      BY <1>0, <2>3, TurnFacts
    <3>2. j - n + 1 \in DOMAIN prog[t] /\ prog'[t][j] = prog[t][j - n + 1]
      BY <1>0, <2>3, TurnFacts
    <3>3. i - n + 1 = j - n + 1
      BY <1>1, <3>1, <3>2 DEF NamedOnce
    <3> QED
      BY <2>1, <3>3
  <2>4. ASSUME NEW k \in DOMAIN prog'[t], NEW l \in DOMAIN prog'[t], k <= n, l > n,
               Names(prog'[t][k], x), Names(prog'[t][l], x)
        PROVE  FALSE
    <3>1. k \in DOMAIN pre /\ prog'[t][k] = pre[k]
      BY <1>0, <2>4, TurnFacts
    <3>2. l - n + 1 \in DOMAIN prog[t] /\ l - n + 1 > 1 /\ prog'[t][l] = prog[t][l - n + 1]
      BY <1>0, <2>4, TurnFacts
    <3>3. l - n + 1 = 1
      BY <2>4, <3>1, <3>2
    <3> QED
      BY <3>2, <3>3
  <2> QED
    BY <1>1, <2>1, <2>2, <2>3, <2>4
<1>2. ASSUME NEW u \in Thread \ {t}, NEW i \in DOMAIN prog'[t], NEW j \in DOMAIN prog'[u], NEW x \in Test,
             Names(prog'[t][i], x), Names(prog'[u][j], x)
      PROVE  FALSE
  <2>1. j \in DOMAIN prog[u] /\ Names(prog[u][j], x)
    BY <1>0, <1>2, TurnFacts
  <2>2. CASE \E k \in DOMAIN prog[t] : prog'[t][i] = prog[t][k]
    BY <1>2, <2>1, <2>2 DEF NamedOnce
  <2>3. CASE \E k \in DOMAIN pre : prog'[t][i] = pre[k]
    BY <1>2, <2>1, <2>3
  <2> QED
    BY <1>0, <2>2, <2>3, Origin
<1>3. ASSUME NEW u \in Thread \ {t}, NEW v \in Thread \ {t}, NEW i \in DOMAIN prog'[u], NEW j \in DOMAIN prog'[v],
             NEW x \in Test, Names(prog'[u][i], x), Names(prog'[v][j], x)
      PROVE  u = v /\ i = j
  <2>1. prog'[u] = prog[u] /\ prog'[v] = prog[v]
    BY <1>0, TurnFacts
  <2> QED
    BY <1>3, <2>1 DEF NamedOnce
<1>4. ASSUME NEW u \in Thread, NEW v \in Thread, NEW i \in DOMAIN prog'[u], NEW j \in DOMAIN prog'[v],
             NEW x \in Test, Names(prog'[u][i], x), Names(prog'[v][j], x)
      PROVE  u = v /\ i = j
  <2>1. CASE u = t /\ v = t
    BY <1>1, <1>4, <2>1
  <2>2. CASE u # t /\ v # t
    BY <1>3, <1>4, <2>2
  <2>3. CASE u = t /\ v # t
    BY <1>2, <1>4, <2>3
  <2>4. CASE u # t /\ v = t
    BY <1>2, <1>4, <2>4
  <2> QED
    BY <2>1, <2>2, <2>3, <2>4
<1> QED
  BY <1>4 DEF NamedOnce, Names

LEMMA TestedKept ==
    ASSUME Programs, Tested, NEW t \in Thread, NEW pre \in Seq(Operation), Turn(t, pre),
           \A i \in DOMAIN pre : Owned(pre[i]), UNCHANGED testing
    PROVE  Tested'
<1>1. ASSUME NEW u \in Thread, NEW i \in DOMAIN prog'[u] PROVE Owned(prog'[u][i])
  <2>1. CASE \E j \in DOMAIN prog[u] : prog'[u][i] = prog[u][j]
    BY <2>1 DEF Tested
  <2>2. CASE \E j \in DOMAIN pre : prog'[u][i] = pre[j]
    BY <2>2
  <2> QED
    BY <2>1, <2>2, Origin DEF Programs
<1> QED
  BY <1>1 DEF Tested, Owned, testing, Names

\* Only a thread that tests goes on testing, or all can begin when nobody does.
LEMMA OneTesterKept ==
    ASSUME Programs, OneTester, NEW t \in Thread, NEW pre \in Seq(Operation), Turn(t, pre),
           \A i \in DOMAIN pre : IsTest(pre[i]) =>
               \/ prog[t] # <<>> /\ IsTest(Head(prog[t]))
               \/ \A u \in Thread : \A j \in DOMAIN prog[u] : ~IsTest(prog[u][j])
    PROVE  OneTester'
<1>0. prog \in [Thread -> Seq(Operation)]
  BY DEF Programs
<1>1. ASSUME NEW i \in DOMAIN prog'[t], IsTest(prog'[t][i]),
             NEW u \in Thread \ {t}, NEW j \in DOMAIN prog'[u], IsTest(prog'[u][j])
      PROVE  FALSE
  <2>1. j \in DOMAIN prog[u] /\ IsTest(prog[u][j])
    BY <1>0, <1>1, TurnFacts
  <2>2. \A k \in DOMAIN prog[t] : ~IsTest(prog[t][k])
    BY <2>1 DEF OneTester
  <2>3. ~(prog[t] # <<>> /\ IsTest(Head(prog[t])))
    BY <2>2, First
  <2>4. \A k \in DOMAIN pre : ~IsTest(pre[k])
    BY <2>1, <2>3
  <2> QED
    BY <1>0, <1>1, <2>2, <2>4, Origin
<1>2. ASSUME NEW u \in Thread \ {t}, NEW v \in Thread \ {t}, NEW i \in DOMAIN prog'[u], NEW j \in DOMAIN prog'[v],
             IsTest(prog'[u][i]), IsTest(prog'[v][j])
      PROVE  u = v
  <2>1. prog'[u] = prog[u] /\ prog'[v] = prog[v]
    BY <1>0, TurnFacts
  <2> QED
    BY <1>2, <2>1 DEF OneTester
<1>3. ASSUME NEW u \in Thread, NEW v \in Thread, NEW i \in DOMAIN prog'[u], NEW j \in DOMAIN prog'[v],
             IsTest(prog'[u][i]), IsTest(prog'[v][j])
      PROVE  u = v
  <2>1. CASE u # t /\ v # t
    BY <1>2, <1>3, <2>1
  <2>2. CASE u = t /\ v # t
    BY <1>1, <1>3, <2>2
  <2>3. CASE u # t /\ v = t
    BY <1>1, <1>3, <2>3
  <2> QED
    BY <2>1, <2>2, <2>3
<1> QED
  BY <1>3 DEF OneTester, IsTest

LEMMA OneAtATimeKept ==
    ASSUME Programs, OneAtATime, NEW t \in Thread, NEW pre \in Seq(Operation), Turn(t, pre),
           \A i \in DOMAIN pre : IsTest(pre[i]) =>
               \/ prog[t] # <<>> /\ IsTest(Head(prog[t]))
               \/ \A u \in Thread : \A j \in DOMAIN prog[u] : ~IsTest(prog[u][j]),
           prog[t] # <<>> => Head(prog[t]).do # "arm",
           \A i \in DOMAIN pre : Same(pre[i]) /\ Dead(pre[i]),
           UNCHANGED testing
    PROVE  OneAtATime'
<1>0. prog \in [Thread -> Seq(Operation)]
  BY DEF Programs
<1>1. OneTester'
  BY OneTesterKept DEF OneAtATime
<1>2. Timed'
  <2> SUFFICES ASSUME NEW x \in writers, x \notin timers
               PROVE  \E u \in Thread : \E i \in DOMAIN prog'[u] :
                          prog'[u][i].do = "arm" /\ test[prog'[u][i].on.app] = x
    BY DEF Timed, testing
  <2>0. PICK u \in Thread : \E j \in DOMAIN prog[u] : prog[u][j].do = "arm" /\ test[prog[u][j].on.app] = x
    BY DEF OneAtATime, Timed
  <2>1. PICK j \in DOMAIN prog[u] : prog[u][j].do = "arm" /\ test[prog[u][j].on.app] = x
    BY <2>0
  <2>2. u = t => j > 1
    <3> SUFFICES ASSUME u = t PROVE j > 1
      OBVIOUS
    <3>1. prog[t] # <<>>
      BY <2>1
    <3>2. j \in Nat \ {0} /\ j # 1
      BY <1>0, <2>1, <3>1, First, TurnFacts
    <3> QED
      BY <3>2
  <2>3. PICK i \in DOMAIN prog'[u] : prog'[u][i] = prog[u][j]
    BY <1>0, <2>2, Origin
  <2> QED
    BY <2>1, <2>3
<1>3. ASSUME NEW u \in Thread, NEW i \in DOMAIN prog'[u] PROVE Same(prog'[u][i]) /\ Dead(prog'[u][i])
  <2>1. CASE \E j \in DOMAIN prog[u] : prog'[u][i] = prog[u][j]
    BY <2>1 DEF OneAtATime
  <2>2. CASE \E j \in DOMAIN pre : prog'[u][i] = pre[j]
    BY <2>2
  <2> QED
    BY <1>0, <2>1, <2>2, Origin
<1> QED
  BY <1>1, <1>2, <1>3 DEF OneAtATime, Same, Dead, testing

LEMMA CollectedKept ==
    ASSUME Programs, Collected, NEW t \in Thread, NEW pre \in Seq(Operation), Turn(t, pre),
           ~Doing(t, "fill"), UNCHANGED addresses
    PROVE  Collected'
<1>1. \A u \in Thread \ {t} : prog'[u] = prog[u]
  BY TurnFacts DEF Programs
<1> QED
  BY <1>1 DEF Collected, Doing

-----------------------------------------------------------------------------
(* Steps that change nothing but what a thread has to do.                   *)

Quiet(op) ==
    /\ op.do \notin {"spawn", "leave", "join", "arm"}
    /\ CanChange(op)
    /\ \A o \in Obj : Drops(op, o) => name[o] # None

LEMMA QuietParts ==
    ASSUME IInv, NEW t \in Thread, prog[t] # <<>>, NEW pre, Fits(Head(prog[t]), pre), Continue(t, pre),
           pre # <<>> => \A m \in pre[1].in \ Held(t) : Free(t, m),
           Head(prog[t]).do \notin {"drop", "arm"},
           \A i \in DOMAIN pre : Quiet(pre[i]),
           UNCHANGED <<registry, testing>>, Collected'
    PROVE  IInv'
<1>1. pre \in Seq(Operation) /\ prog \in [Thread -> Seq(Operation)]
  BY DEF Fits, IInv, Programs
<1>2. Turn(t, pre)
  BY <1>1, Turns
<1>3. \A i \in DOMAIN pre : /\ CanChange(pre[i]) /\ Owned(pre[i]) /\ Same(pre[i]) /\ Dead(pre[i])
                            /\ \A x \in Test : ~Names(pre[i], x)
                            /\ \A o \in Obj : Drops(pre[i], o) => name[o] # None
                            /\ IsTest(pre[i]) => IsTest(Head(prog[t]))
  BY DEF Quiet, Owned, Same, Dead, Names, Fits
<1>4. UNCHANGED registry /\ UNCHANGED testing
  OBVIOUS
<1>5. Programs'
  BY <1>2, ProgramsKept DEF IInv
<1>6. Excluded'
  BY <1>1, <1>2, ExcludedKept DEF IInv
<1>7. Registered'
  BY <1>1, <1>2, <1>3, <1>4, RegisteredKept DEF IInv
<1>8. Pending'
  BY <1>1, <1>2, <1>3, <1>4, PendingKept DEF IInv
<1>9. NamedOnce'
  BY <1>1, <1>2, <1>3, NamedOnceKept DEF IInv
<1>10. Tested'
  BY <1>1, <1>2, <1>3, <1>4, TestedKept DEF IInv
<1>11. OneAtATime => OneAtATime'
  BY <1>1, <1>2, <1>3, <1>4, OneAtATimeKept DEF IInv
<1> QED
  BY <1>5, <1>6, <1>7, <1>8, <1>9, <1>10, <1>11 DEF IInv

LEMMA QuietStep ==
    ASSUME IInv, NEW t \in Thread, prog[t] # <<>>, NEW pre, Fits(Head(prog[t]), pre), Continue(t, pre),
           pre # <<>> => \A m \in pre[1].in \ Held(t) : Free(t, m),
           Head(prog[t]).do \notin {"drop", "fill", "arm"},
           \A i \in DOMAIN pre : Quiet(pre[i]),
           UNCHANGED <<registry, testing, addresses>>
    PROVE  IInv'
<1>1. Turn(t, pre) /\ pre \in Seq(Operation)
  BY Turns DEF Fits, IInv, Programs
<1>2. Collected'
  BY <1>1, CollectedKept DEF IInv, Doing
<1> QED
  BY <1>2, QuietParts

LEMMA WalkStep ==
    ASSUME IInv, NEW t \in Thread, NEW d \in {"json", "find", "add", "remove"},
           NEW w, NEW k, NEW x, Section(t, d, Conf, w), Walk(w, k, x), x.do \in Change,
           k # 0 => d # "json" /\ CanChange(x),
           \A o \in Obj : Needs(x, o) => Needs(Head(prog[t]), o),
           UNCHANGED <<registry, testing, addresses>>
    PROVE  IInv'
<1> DEFINE op == Head(prog[t])
           pre == Under({Conf}, w)
<1>1. prog[t] # <<>> /\ op.do = d /\ Free(t, Conf)
  BY DEF Section, Doing
<1>2. op \in Operation /\ Lawful(op) /\ Held(t) = op.in
  BY <1>1, First DEF IInv
<1>3. op.in \subseteq {Conf} /\ (d # "json" => op.in = {})
  BY <1>1, <1>2 DEF Lawful, Change
<1>4. Fits(op, pre)
  BY <1>3, WalkFits
<1>5. Continue(t, pre)
  <2>1. Held(t) \union {Conf} = {Conf}
    BY <1>2, <1>3
  <2> QED
    BY <2>1 DEF Section
<1>6. /\ DOMAIN pre = DOMAIN w /\ DOMAIN w = 1..Len(w) /\ pre \in Seq(Operation)
      /\ \A i \in DOMAIN w : pre[i].do = w[i].do /\ pre[i].on = w[i].on /\ pre[i].in = {Conf}
  BY UnderFacts, LenProperties DEF Walk, Mutex
<1> HIDE DEF pre
<1>7. ASSUME NEW i \in DOMAIN pre PROVE Quiet(pre[i])
  <2>1. CASE i = k
    <3>1. w[i] = x /\ k # 0
      BY <1>6, <2>1 DEF Walk
    <3>2. pre[i].do = x.do /\ pre[i].on = x.on /\ CanChange(x)
      BY <1>6, <3>1
    <3> QED
      BY <3>2 DEF Quiet, CanChange, Drops, Change
  <2>2. CASE i # k
    <3>1. w[i].do \in {"call", "json"}
      BY <1>6, <2>2 DEF Walk
    <3>2. pre[i].do \in {"call", "json"}
      BY <1>6, <3>1
    <3> QED
      BY <3>2 DEF Quiet, CanChange, Drops
  <2> QED
    BY <2>1, <2>2
<1>8. pre # <<>> => \A m \in pre[1].in \ Held(t) : Free(t, m)
  <2>1. pre # <<>> => 1 \in DOMAIN pre
    BY <1>6, LenProperties, EmptySeq
  <2> QED
    BY <1>1, <1>6, <2>1
<1> QED
  BY <1>1, <1>4, <1>5, <1>7, <1>8, QuietStep

\* Operations without a mutex, that a handler may begin with.
Bare(x) == x \in Operation /\ x.in = {} /\ Lawful(x) /\ x.do \notin Change /\ Quiet(x)

LEMMA BareOps ==
    ASSUME NEW o \in Obj
    PROVE  /\ Bare(Call(o)) /\ Bare(ReadConfig) /\ Bare(Op("kill", o)) /\ Bare(Op("renew", o))
           /\ Bare(Op("add", o)) /\ Bare(Op("invoke", o))
           /\ name[o] # None => Bare(Op("drop", o))
           /\ \A n \in Name : Bare(Op("remove", n))
           /\ \A d \in {"copy", "clear", "report"} : Bare(Op(d, None))
           /\ \A n \in Name, r \in {"get", "output", "test", "start", "stop"} : Bare(FindFor(r, n, None))
           /\ \A n \in Name : Bare(FindFor("refresh", n, o))
           /\ ~IsTest(Call(o)) /\ ~IsTest(ReadConfig) /\ ~IsTest(Op("drop", o))
           /\ \A p \in Obj : /\ ~Needs(Call(o), p) /\ ~Needs(ReadConfig, p) /\ ~Needs(Op("drop", o), p)
                             /\ \A d \in {"kill", "renew", "add", "invoke"} : Needs(Op(d, o), p) => p = o
           /\ Drops(Op("drop", o), o)
<1>1. /\ Call(o) \in Operation /\ ReadConfig \in Operation
      /\ \A d \in {"kill", "renew", "add", "invoke", "drop"} : Op(d, o) \in Operation
      /\ \A n \in Name : Op("remove", n) \in Operation
      /\ \A d \in {"copy", "clear", "report"} : Op(d, None) \in Operation
      /\ \A n \in Name, r \in {"get", "output", "test", "start", "stop"} : FindFor(r, n, None) \in Operation
      /\ \A n \in Name : FindFor("refresh", n, o) \in Operation
  BY Made DEF Op, Call, ReadConfig, FindFor
<1>2. /\ Call(o).do = "call" /\ Call(o).in = {} /\ ReadConfig.do = "json" /\ ReadConfig.in = {}
      /\ \A r, n, p : FindFor(r, n, p).do = "find" /\ FindFor(r, n, p).in = {}
      /\ \A d, y : Op(d, y).do = d /\ Op(d, y).in = {} /\ Op(d, y).on = y
  BY DEF Op, Call, ReadConfig, FindFor
<1> USE DEF Bare, Lawful, Change, Quiet, CanChange, Drops
<1>3. /\ Bare(Call(o)) /\ Bare(ReadConfig) /\ Bare(Op("kill", o)) /\ Bare(Op("renew", o))
      /\ Bare(Op("add", o)) /\ Bare(Op("invoke", o))
  BY <1>1, <1>2
<1>4. name[o] # None => Bare(Op("drop", o))
  BY <1>1, <1>2
<1>5. /\ \A n \in Name : Bare(Op("remove", n))
      /\ \A d \in {"copy", "clear", "report"} : Bare(Op(d, None))
  BY <1>1, <1>2
<1>6. /\ \A n \in Name, r \in {"get", "output", "test", "start", "stop"} : Bare(FindFor(r, n, None))
      /\ \A n \in Name : Bare(FindFor("refresh", n, o))
  BY <1>1, <1>2
<1>7. ~IsTest(Call(o)) /\ ~IsTest(ReadConfig) /\ ~IsTest(Op("drop", o))
  BY <1>2 DEF IsTest
<1>8. /\ \A p \in Obj : /\ ~Needs(Call(o), p) /\ ~Needs(ReadConfig, p) /\ ~Needs(Op("drop", o), p)
                        /\ \A d \in {"kill", "renew", "add", "invoke"} : Needs(Op(d, o), p) => p = o
      /\ Drops(Op("drop", o), o)
  BY <1>2 DEF Needs
<1> QED
  BY <1>3, <1>4, <1>5, <1>6, <1>7, <1>8

\* The programs of up to three bare operations.
LEMMA ShortFits ==
    ASSUME NEW op, op.in = {}, NEW b \in Seq(Operation), DOMAIN b = 1..Len(b),
           \A i \in DOMAIN b : Bare(b[i]) /\ (IsTest(b[i]) => IsTest(op) /\ op.do = "find"),
           \A i, j \in DOMAIN b : i < j /\ IsTest(b[i]) /\ IsTest(b[j]) => b[i].do = "kill" /\ b[j].do = "renew",
           \A i \in DOMAIN b, o \in Obj : Needs(b[i], o) =>
               Needs(op, o) \/ \E j \in DOMAIN b : i < j /\ Drops(b[j], o)
    PROVE  Fits(op, b)
<1>1. Ordered(b)
  BY DEF Ordered, Before, Bare
<1> QED
  BY <1>1 DEF Fits, Bare

LEMMA AfterFits ==
    ASSUME NEW op \in Operation, op.do = "find", NEW o \in Obj, name[o] # None, Lawful(op),
           NEW b, b = After(op.on.for, o, op.on.self)
    PROVE  Fits(op, b) /\ \A i \in DOMAIN b : Bare(b[i])
<1>1. op.in = {}
  BY DEF Lawful, Change
<1> SUFFICES /\ b \in Seq(Operation) /\ DOMAIN b = 1..Len(b)
             /\ \A i \in DOMAIN b : Bare(b[i]) /\ (IsTest(b[i]) => IsTest(op) /\ op.do = "find")
             /\ \A i, j \in DOMAIN b : i < j /\ IsTest(b[i]) /\ IsTest(b[j]) =>
                    b[i].do = "kill" /\ b[j].do = "renew"
             /\ \A i \in DOMAIN b, p \in Obj : Needs(b[i], p) => \E j \in DOMAIN b : i < j /\ Drops(b[j], p)
  BY <1>1, ShortFits
<1>2. \A p \in Obj : Bare(Call(p)) /\ ~IsTest(Call(p)) /\ \A q \in Obj : ~Needs(Call(p), q)
  BY BareOps
<1>3. /\ Bare(Op("drop", o)) /\ ~IsTest(Op("drop", o)) /\ Drops(Op("drop", o), o)
      /\ \A q \in Obj : ~Needs(Op("drop", o), q)
  BY BareOps
<1>4. Bare(ReadConfig) /\ ~IsTest(ReadConfig) /\ \A q \in Obj : ~Needs(ReadConfig, q)
  BY BareOps
<1>5. \A d \in {"kill", "renew"} : Bare(Op(d, o)) /\ Op(d, o).do = d /\ \A q \in Obj : Needs(Op(d, o), q) => q = o
  BY BareOps DEF Op
<1>6. \A x : Bare(x) => x \in Operation
  BY DEF Bare
<1>7. CASE op.on.for = "get"
  <2>1. b = <<Call(o), Op("drop", o)>>
    BY <1>7 DEF After
  <2> QED
    BY <1>2, <1>3, <1>6, <2>1
<1>8. CASE op.on.for = "output"
  <2>1. b = <<Op("drop", o)>>
    BY <1>8 DEF After
  <2> QED
    BY <1>3, <1>6, <2>1
<1>9. CASE op.on.for = "start"
  <2>1. b = <<Call(o), ReadConfig, Op("drop", o)>>
    BY <1>9 DEF After
  <2> QED
    BY <1>2, <1>3, <1>4, <1>6, <2>1
<1>10. CASE op.on.for = "stop"
  <2>1. b = <<Call(o), Op("drop", o), ReadConfig>>
    BY <1>10 DEF After
  <2> QED
    BY <1>2, <1>3, <1>4, <1>6, <2>1
<1>11. CASE op.on.for = "test"
  <2>1. b = <<Op("kill", o), Op("renew", o), Op("drop", o)>>
    BY <1>11 DEF After
  <2>2. IsTest(op)
    BY <1>11 DEF IsTest
  <2> QED
    BY <1>3, <1>5, <1>6, <2>1, <2>2
<1>12. CASE op.on.for = "refresh"
  <2>1. op.on.self \in Obj
    BY <1>12, Kinds
  <2>2. b = <<Call(op.on.self), Op("drop", o)>>
    BY <1>12 DEF After
  <2> QED
    BY <1>2, <1>3, <1>6, <2>1, <2>2
<1> QED
  BY <1>7, <1>8, <1>9, <1>10, <1>11, <1>12, Kinds

LEMMA MethodStep == ASSUME IInv, NEW t \in Thread, Method(t) PROVE IInv'
<1> DEFINE op == Head(prog[t])
           x == [do |-> "body", on |-> op.on, in |-> Held(t) \union {op.on}]
<1>1. prog[t] # <<>> /\ op.do = "call" /\ Free(t, op.on) /\ UNCHANGED <<registry, testing, addresses>>
  BY DEF Method, Section, Doing, It
<1>2. op \in Operation /\ Held(t) = op.in /\ Held(t) \subseteq Mutex
  BY <1>1, First DEF IInv
<1>3. op.on \in Obj
  BY <1>1, <1>2, Kinds
<1>4. Held(t) \union {op.on} \subseteq Mutex
  BY <1>2, <1>3 DEF Mutex
<1>5. x \in Operation
  BY <1>3, <1>4, Made
<1>6. Continue(t, <<x>>)
  <2>1. Under(Held(t) \union {op.on}, <<Op("body", op.on)>>) = <<x>>
    BY DEF Under, Op
  <2> QED
    BY <2>1 DEF Method, Section, It
<1>7. Fits(op, <<x>>)
  <2>1. Lawful(x) /\ op.in \subseteq x.in /\ x.do = "body"
    BY <1>2 DEF Lawful, Change
  <2> QED
    BY <1>5, <2>1, OneFits
<1>8. \A i \in DOMAIN <<x>> : Quiet(<<x>>[i])
  BY DEF Quiet, CanChange, Drops
<1>9. \A m \in <<x>>[1].in \ Held(t) : Free(t, m)
  BY <1>1
<1> HIDE DEF x
<1> QED
  BY <1>1, <1>6, <1>7, <1>8, <1>9, QuietStep

LEMMA BodyReportStep == ASSUME IInv, NEW t \in Thread, Body(t) \/ Report(t) PROVE IInv'
<1>1. Continue(t, <<>>)
  <2>1. \A M : Under(M, <<>>) = <<>>
    BY DEF Under
  <2> QED
    BY <2>1 DEF Body, Report, Section
<1>2. prog[t] # <<>> /\ Head(prog[t]).do \in {"body", "report"} /\ UNCHANGED <<registry, testing, addresses>>
  BY DEF Body, Report, Section, Doing
<1>3. \A i \in DOMAIN <<>> : Quiet(<<>>[i])
  OBVIOUS
<1> QED
  BY <1>1, <1>2, <1>3, NothingFits, QuietStep

LEMMA NoChange == Op("erase", 0).do \in Change /\ \A o \in Obj : ~Needs(Op("erase", 0), o)
  BY DEF Op, Change, Needs

LEMMA ListFacts ==
    ASSUME list \in Seq(Obj)
    PROVE  /\ DOMAIN list = 1..Len(list) /\ Len(list) \in Nat
           /\ \A i \in DOMAIN list : /\ list[i] \in Obj
                                     /\ SubSeq(list, 1, i) \in Seq(Obj)
                                     /\ SubSeq(list, i + 1, Len(list)) \in Seq(Obj)
<1>1. DOMAIN list = 1..Len(list) /\ Len(list) \in Nat /\ \A i \in DOMAIN list : list[i] \in Obj
  BY LenProperties, ElementOfSeq
<1>2. ASSUME NEW i \in DOMAIN list
      PROVE  SubSeq(list, 1, i) \in Seq(Obj) /\ SubSeq(list, i + 1, Len(list)) \in Seq(Obj)
  <2>1. i \in Int /\ i + 1 \in Int /\ Len(list) \in Int /\ 1 \in Int
    BY <1>1
  <2>2. (\A j \in 1..i : list[j] \in Obj) /\ (\A j \in (i + 1)..Len(list) : list[j] \in Obj)
    BY <1>1
  <2> QED
    BY <2>1, <2>2, SubSeqProperties
<1> QED
  BY <1>1, <1>2

LEMMA JsonStep == ASSUME IInv, NEW t \in Thread, Json(t) PROVE IInv'
<1>1. Walk(CallAll(list), 0, Op("erase", 0))
  BY Walks DEF IInv, Registered
<1> QED
  BY <1>1, NoChange, WalkStep DEF Json

LEMMA FindStep == ASSUME IInv, NEW t \in Thread, Find(t) PROVE IInv'
<1> DEFINE op == Head(prog[t])
<1>1. prog[t] # <<>> /\ op.do = "find" /\ UNCHANGED <<registry, testing, addresses>>
  BY DEF Find, Doing
<1>2. op \in Operation /\ Lawful(op) /\ Held(t) = op.in
  BY <1>1, First DEF IInv
<1>3. list \in Seq(Obj)
  BY DEF IInv, Registered
<1>4. CASE Section(t, "find", Conf, CallAll(list))
  <2>1. Walk(CallAll(list), 0, Op("erase", 0))
    BY <1>3, Walks
  <2> QED
    BY <1>1, <1>4, <2>1, NoChange, WalkStep
<1>5. ASSUME NEW i \in At(It(t).name), Free(t, Conf),
             Continue(t, Under({Conf}, CallAll(SubSeq(list, 1, i))) \o After(It(t).for, list[i], It(t).self))
      PROVE  IInv'
  <2> DEFINE w == CallAll(SubSeq(list, 1, i))
             a == Under({Conf}, w)
             b == After(op.on.for, list[i], op.on.self)
             pre == a \o b
  <2>1. i \in DOMAIN list /\ list[i] \in Obj /\ SubSeq(list, 1, i) \in Seq(Obj)
    BY <1>3, ListFacts DEF At
  <2>2. name[list[i]] # None
    BY <2>1 DEF IInv, Registered, InList
  <2>3. Walk(w, 0, Op("erase", 0))
    BY <2>1, Walks
  <2>4. Fits(op, b) /\ \A j \in DOMAIN b : Bare(b[j])
    BY <1>1, <1>2, <2>1, <2>2, AfterFits
  <2>5. op.in = {}
    BY <1>1, <1>2 DEF Lawful, Change
  <2>6. Fits(op, pre)
    <3> HIDE DEF b, w
    <3> QED
      BY <2>3, <2>4, <2>5, FitsAfterWalk DEF Bare
  <2>7. /\ a \in Seq(Operation) /\ \A j \in DOMAIN a : a[j].do \in {"call", "json"} /\ a[j].in = {Conf}
    BY <2>3, UnderFacts DEF Walk, Mutex
  <2>8. b \in Seq(Operation)
    BY <2>4 DEF Fits
  <2>9. Continue(t, pre)
    BY <1>5 DEF It
  <2> HIDE DEF a, b, w
  <2>10. ASSUME NEW j \in DOMAIN pre
         PROVE  pre[j].in \subseteq {Conf} /\ Quiet(pre[j])
    <3>1. \/ \E k \in DOMAIN a : pre[j] = a[k]
          \/ \E k \in DOMAIN b : pre[j] = b[k]
      BY <2>7, <2>8, ConcatProperties, LenProperties
    <3>2. CASE \E k \in DOMAIN a : pre[j] = a[k]
      BY <2>7, <3>2 DEF Quiet, CanChange, Drops
    <3>3. CASE \E k \in DOMAIN b : pre[j] = b[k]
      BY <2>4, <3>3 DEF Bare
    <3> QED
      BY <3>1, <3>2, <3>3
  <2>11. pre # <<>> => \A m \in pre[1].in \ Held(t) : Free(t, m)
    <3>1. pre \in Seq(Operation)
      BY <2>6 DEF Fits
    <3>2. pre # <<>> => 1 \in DOMAIN pre
      BY <3>1, LenProperties, EmptySeq
    <3> QED
      BY <1>5, <2>10, <3>2
  <2> HIDE DEF pre
  <2> QED
    BY <1>1, <2>6, <2>9, <2>10, <2>11, QuietStep
<1> QED
  BY <1>4, <1>5 DEF Find

LEMMA AddStep == ASSUME IInv, NEW t \in Thread, Add(t) PROVE IInv'
<1> DEFINE o == It(t)
<1>1. prog[t] # <<>> /\ Head(prog[t]).do = "add" /\ UNCHANGED <<registry, testing, addresses>>
  BY DEF Add, Doing
<1>2. o \in Obj /\ Needs(Head(prog[t]), o) /\ list \in Seq(Obj)
  BY <1>1, First, Kinds DEF IInv, Registered, It, Needs
<1>3. CASE At(name[o]) = {} /\ Section(t, "add", Conf, CallAll(list) \o <<Op("append", o), ReadConfig>>)
  <2> DEFINE x == Op("append", o)
             v == CallAll(list)
             w == <<x, ReadConfig>>
  <2>1. x \in Operation /\ x.do \in Change /\ CanChange(x) /\ \A p \in Obj : Needs(x, p) => p = o
    BY <1>2, <1>3, Made DEF Op, Change, CanChange, Needs, At
  <2>2. Walk(v, 0, x) /\ Walk(w, 1, x)
    BY <1>2, <2>1, Walks
  <2> HIDE DEF v, w, x
  <2>3. Walk(v \o w, Len(v) + 1, x)
    <3>1. 1 # 0
      OBVIOUS
    <3> QED
      BY <2>2, <3>1, WalkOn
  <2>4. Section(t, "add", Conf, v \o w)
    BY <1>3 DEF v, w, x
  <2> QED
    BY <1>1, <1>2, <2>1, <2>3, <2>4, WalkStep
<1>4. ASSUME NEW i \in At(name[o]),
             Section(t, "add", Conf, CallAll(SubSeq(list, 1, i)) \o <<Op("replace", [at |-> i, by |-> o])>>
                                     \o CallAll(SubSeq(list, i + 1, Len(list))) \o <<ReadConfig>>)
      PROVE  IInv'
  <2> DEFINE x == Op("replace", [at |-> i, by |-> o])
             u == CallAll(SubSeq(list, 1, i))
             v == CallAll(SubSeq(list, i + 1, Len(list)))
             q == u \o <<x>>
  <2>1. i \in DOMAIN list /\ i \in Nat /\ SubSeq(list, 1, i) \in Seq(Obj)
        /\ SubSeq(list, i + 1, Len(list)) \in Seq(Obj) /\ name[list[i]] = name[o]
    BY <1>2, ListFacts DEF At
  <2>2. x \in Operation /\ x.do \in Change /\ CanChange(x) /\ \A p \in Obj : Needs(x, p) => p = o
    BY <1>2, <2>1, Made DEF Op, Change, CanChange, Needs
  <2>3. Walk(u, 0, x) /\ Walk(v, 0, x) /\ Walk(<<x>>, 1, x) /\ Walk(<<ReadConfig>>, 0, x)
    BY <2>1, <2>2, Walks
  <2>4. Section(t, "add", Conf, (q \o v) \o <<ReadConfig>>)
    BY <1>4
  <2> HIDE DEF u, v, x
  <2>5. Walk(q, Len(u) + 1, x)
    <3>1. 1 # 0 /\ Walk(u, 0, x) /\ Walk(<<x>>, 1, x)
      BY <2>3
    <3>2. Walk(u \o <<x>>, Len(u) + 1, x)
      BY <3>1, WalkOn
    <3> QED
      BY <3>2
  <2> HIDE DEF q
  <2>6. Walk(q \o v, Len(u) + 1, x)
    BY <2>3, <2>5, WalkOn
  <2>7. Walk((q \o v) \o <<ReadConfig>>, Len(u) + 1, x)
    BY <2>3, <2>6, WalkOn
  <2> QED
    BY <1>1, <1>2, <2>2, <2>4, <2>7, WalkStep
<1> QED
  BY <1>3, <1>4 DEF Add

LEMMA RemoveStep == ASSUME IInv, NEW t \in Thread, Remove1(t) PROVE IInv'
<1>1. UNCHANGED <<registry, testing, addresses>> /\ list \in Seq(Obj)
  BY DEF Remove1, IInv, Registered
<1>2. CASE Section(t, "remove", Conf, CallAll(list) \o <<ReadConfig>>)
  <2> DEFINE v == CallAll(list)
             x == Op("erase", 0)
  <2>1. Walk(v, 0, x) /\ Walk(<<ReadConfig>>, 0, x)
    BY <1>1, Walks
  <2>2. Section(t, "remove", Conf, v \o <<ReadConfig>>)
    BY <1>2
  <2>3. x.do \in Change /\ \A o \in Obj : ~Needs(x, o)
    BY NoChange
  <2> HIDE DEF v, x
  <2>4. Walk(v \o <<ReadConfig>>, 0, x)
    BY <2>1, WalkOn
  <2> QED
    BY <1>1, <2>2, <2>3, <2>4, WalkStep
<1>3. ASSUME NEW i \in At(It(t)),
             Section(t, "remove", Conf, CallAll(SubSeq(list, 1, i)) \o <<Op("erase", i)>>
                                        \o CallAll(SubSeq(list, i + 1, Len(list))) \o <<ReadConfig>>)
      PROVE  IInv'
  <2> DEFINE x == Op("erase", i)
             u == CallAll(SubSeq(list, 1, i))
             v == CallAll(SubSeq(list, i + 1, Len(list)))
             q == u \o <<x>>
  <2>1. i \in DOMAIN list /\ i \in Nat /\ SubSeq(list, 1, i) \in Seq(Obj)
        /\ SubSeq(list, i + 1, Len(list)) \in Seq(Obj)
    BY <1>1, ListFacts DEF At
  <2>2. x \in Operation /\ x.do \in Change /\ CanChange(x) /\ \A p \in Obj : ~Needs(x, p)
    BY <2>1, Made DEF Op, Change, CanChange, Needs
  <2>3. Walk(u, 0, x) /\ Walk(v, 0, x) /\ Walk(<<x>>, 1, x) /\ Walk(<<ReadConfig>>, 0, x)
    BY <2>1, <2>2, Walks
  <2>4. Section(t, "remove", Conf, (q \o v) \o <<ReadConfig>>)
    BY <1>3
  <2> HIDE DEF u, v, x
  <2>5. Walk(q, Len(u) + 1, x)
    <3>1. 1 # 0 /\ Walk(u, 0, x) /\ Walk(<<x>>, 1, x)
      BY <2>3
    <3>2. Walk(u \o <<x>>, Len(u) + 1, x)
      BY <3>1, WalkOn
    <3> QED
      BY <3>2
  <2> HIDE DEF q
  <2>6. Walk(q \o v, Len(u) + 1, x)
    BY <2>3, <2>5, WalkOn
  <2>7. Walk((q \o v) \o <<ReadConfig>>, Len(u) + 1, x)
    BY <2>3, <2>6, WalkOn
  <2> QED
    BY <1>1, <2>2, <2>4, <2>7, WalkStep
<1> QED
  BY <1>2, <1>3 DEF Remove1

\* What an operation needs is allocated, and dropped only later.
LEMMA Needed ==
    ASSUME IInv, NEW t \in Thread, NEW i \in DOMAIN prog[t], NEW o \in Obj, Needs(prog[t][i], o)
    PROVE  /\ \E j \in DOMAIN prog[t] : i < j /\ Drops(prog[t][j], o)
           /\ Holds(prog, o) /\ name[o] \in Name
<1>1. \E j \in DOMAIN prog[t] : i < j /\ Drops(prog[t][j], o)
  BY DEF IInv, Programs, Sound, Follows
<1>2. Holds(prog, o)
  BY <1>1 DEF Holds, Drops
<1> QED
  BY <1>1, <1>2 DEF IInv, Registered

LEMMA CopyStep == ASSUME IInv, NEW t \in Thread, Copy(t) PROVE IInv'
<1> DEFINE op == Head(prog[t])
           a == [i \in DOMAIN list |-> Op("invoke", list[i])]
           b == [i \in DOMAIN list |-> Op("drop", list[i])]
           pre == a \o b
           n == Len(list)
<1>1. prog[t] # <<>> /\ op.do = "copy" /\ Continue(t, pre) /\ UNCHANGED <<registry, testing, addresses>>
  BY DEF Copy, Doing
<1>2. list \in Seq(Obj) /\ DOMAIN list = 1..n /\ n \in Nat /\ \A i \in DOMAIN list : list[i] \in Obj
  BY ListFacts DEF IInv, Registered
<1>3. \A i \in DOMAIN list : name[list[i]] # None
  BY <1>2 DEF IInv, Registered, InList
<1>4. \A i \in DOMAIN list : Bare(a[i]) /\ Bare(b[i]) /\ a[i].do = "invoke" /\ a[i].on = list[i]
                             /\ b[i].do = "drop" /\ Drops(b[i], list[i])
  BY <1>2, <1>3, BareOps DEF Op
<1>5. a \in Seq(Operation) /\ b \in Seq(Operation) /\ Len(a) = n /\ Len(b) = n
  <2>1. a \in [1..n -> Operation] /\ b \in [1..n -> Operation]
    BY <1>2, <1>4 DEF Bare
  <2>2. a \in Seq(Operation) /\ b \in Seq(Operation)
    BY <1>2, <2>1, SeqDef
  <2>3. 1..Len(a) = 1..n /\ 1..Len(b) = 1..n /\ Len(a) \in Nat /\ Len(b) \in Nat
    BY <1>2, <2>2, LenProperties
  <2> QED
    BY <1>2, <2>2, <2>3
<1> HIDE DEF a, b
<1>6. /\ pre \in Seq(Operation) /\ DOMAIN pre = 1..(n + n) /\ Len(pre) = n + n
      /\ \A i \in 1..(n + n) : pre[i] = IF i <= n THEN a[i] ELSE b[i - n]
  <2>1. /\ pre \in Seq(Operation) /\ Len(pre) = Len(a) + Len(b)
        /\ \A i \in 1..(Len(a) + Len(b)) : pre[i] = IF i <= Len(a) THEN a[i] ELSE b[i - Len(a)]
    BY <1>5, ConcatProperties
  <2> QED
    BY <1>5, <2>1, LenProperties
<1> HIDE DEF pre
<1>7. \A i \in DOMAIN pre : \/ i \in DOMAIN list /\ pre[i] = a[i]
                            \/ i - n \in DOMAIN list /\ pre[i] = b[i - n]
  BY <1>2, <1>6
<1>8. \A i \in DOMAIN pre : Bare(pre[i]) /\ pre[i].do \in {"invoke", "drop"} /\ ~IsTest(pre[i])
  BY <1>4, <1>7 DEF IsTest
<1>9. ASSUME NEW i \in DOMAIN pre, NEW o \in Obj, Needs(pre[i], o)
      PROVE  \E j \in DOMAIN pre : i < j /\ Drops(pre[j], o)
  <2>1. i \in DOMAIN list /\ pre[i] = a[i] /\ o = list[i]
    BY <1>4, <1>7, <1>9 DEF Needs
  <2>2. i + n \in DOMAIN pre /\ pre[i + n] = b[i] /\ i < i + n
    BY <1>2, <1>6, <2>1
  <2> QED
    BY <1>4, <2>1, <2>2
<1>10. op.in = {} /\ Held(t) = {}
  BY <1>1, First DEF Lawful, Change, IInv
<1>11. Fits(op, pre)
  BY <1>6, <1>8, <1>9, <1>10, ShortFits
<1>12. \A i \in DOMAIN pre : Quiet(pre[i]) /\ pre[i].in = {}
  BY <1>8 DEF Bare
<1>13. pre # <<>> => \A m \in pre[1].in \ Held(t) : Free(t, m)
  <2>1. pre # <<>> => 1 \in DOMAIN pre
    BY <1>6, LenProperties, EmptySeq
  <2> QED
    BY <1>12, <2>1
<1> QED
  BY <1>1, <1>11, <1>12, <1>13, QuietStep

LEMMA InvokeStep == ASSUME IInv, NEW t \in Thread, Invoke(t) PROVE IInv'
<1> DEFINE op == Head(prog[t])
           o == op.on
           x == [do |-> "body", on |-> o, in |-> {o}]
           y == FindFor("refresh", name[o], o)
           pre == <<x, y>>
<1>1. prog[t] # <<>> /\ op.do = "invoke" /\ Free(t, o) /\ UNCHANGED <<registry, testing, addresses>>
  BY DEF Invoke, Doing, It
<1>2. o \in Obj /\ op.in = {} /\ Held(t) = {} /\ 1 \in DOMAIN prog[t] /\ op = prog[t][1]
  BY <1>1, First, Kinds DEF Lawful, Change, IInv
<1>3. Needs(prog[t][1], o) /\ name[o] \in Name
  <2>1. Needs(prog[t][1], o)
    BY <1>1, <1>2 DEF Needs
  <2> QED
    BY <1>2, <2>1, Needed
<1>4. Bare(y) /\ y.do = "find" /\ y.on.for = "refresh"
  BY <1>2, <1>3, BareOps DEF FindFor, Op
<1>5. x \in Operation
  BY <1>2, Made DEF Mutex
<1>6. Continue(t, pre)
  <2>1. Under({o}, <<Op("body", o)>>) = <<x>>
    BY DEF Under, Op
  <2>2. <<x>> \o <<y>> = <<x, y>>
    <3>1. /\ <<x>> \in Seq(Operation) /\ <<y>> \in Seq(Operation) /\ <<x, y>> \in Seq(Operation)
          /\ Len(<<x>>) = 1 /\ Len(<<y>>) = 1 /\ Len(<<x, y>>) = 2
      BY <1>4, <1>5 DEF Bare
    <3>2. /\ <<x>> \o <<y>> \in Seq(Operation) /\ Len(<<x>> \o <<y>>) = 2
          /\ \A i \in 1..2 : (<<x>> \o <<y>>)[i] = IF i <= 1 THEN <<x>>[i] ELSE <<y>>[i - 1]
      BY <3>1, ConcatProperties
    <3>3. (<<x>> \o <<y>>)[1] = x /\ (<<x>> \o <<y>>)[2] = y
      BY <3>2
    <3>4. \A i \in 1..2 : i = 1 \/ i = 2
      OBVIOUS
    <3>5. \A i \in 1..2 : (<<x>> \o <<y>>)[i] = <<x, y>>[i]
      BY <3>3, <3>4
    <3> QED
      BY <3>1, <3>2, <3>5, SeqEqual
  <2> QED
    BY <2>1, <2>2 DEF Invoke, It
<1>7. Lawful(x) /\ x.in = {o} /\ Quiet(x) /\ ~IsTest(x) /\ x.do \notin Change /\ \A p \in Obj : ~Needs(x, p)
  BY DEF Lawful, Change, Quiet, CanChange, Drops, IsTest, Needs
<1>8. Lawful(y) /\ y.in = {} /\ Quiet(y) /\ ~IsTest(y) /\ y.do \notin Change /\ \A p \in Obj : ~Needs(y, p)
  BY <1>4 DEF Bare, IsTest, Needs
<1> HIDE DEF x, y
<1>9. Fits(op, pre)
  <2>1. Before(x, y)
    BY <1>7, <1>8 DEF Before
  <2>2. pre \in Seq(Operation) /\ DOMAIN pre = 1..2 /\ pre[1] = x /\ pre[2] = y
    BY <1>4, <1>5 DEF Bare
  <2>3. Ordered(pre)
    BY <2>1, <2>2 DEF Ordered
  <2>4. \A i \in DOMAIN pre : pre[i] = x \/ pre[i] = y
    BY <2>2
  <2> QED
    BY <1>2, <1>7, <1>8, <2>2, <2>3, <2>4 DEF Fits
<1>10. \A i \in DOMAIN pre : Quiet(pre[i])
  BY <1>7, <1>8
<1>11. \A m \in pre[1].in \ Held(t) : Free(t, m)
  BY <1>1, <1>7
<1> QED
  BY <1>1, <1>6, <1>9, <1>10, <1>11, QuietStep

LEMMA ClearStep == ASSUME IInv, NEW t \in Thread, Clear(t) PROVE IInv'
<1> DEFINE x == [do |-> "fill", on |-> None, in |-> {Res}]
<1>1. prog[t] # <<>> /\ Head(prog[t]).do = "clear" /\ Free(t, Res) /\ UNCHANGED <<registry, testing>>
  BY DEF Clear, Section, Doing
<1>2. Head(prog[t]).in = {} /\ Held(t) = {}
  BY <1>1, First DEF Lawful, Change, IInv
<1>3. x \in Operation
  BY Made DEF Mutex
<1>4. Continue(t, <<x>>)
  <2>1. Under({Res}, <<Op("fill", None)>>) = <<x>>
    BY DEF Under, Op
  <2> QED
    BY <1>2, <2>1 DEF Clear, Section
<1>5. Lawful(x) /\ Quiet(x) /\ x.do = "fill" /\ x.in = {Res}
  BY DEF Lawful, Change, Quiet, CanChange, Drops
<1> HIDE DEF x
<1>6. Fits(Head(prog[t]), <<x>>)
  BY <1>2, <1>3, <1>5, OneFits
<1>7. Collected'
  <2>1. Turn(t, <<x>>) /\ <<x>> \in Seq(Operation) /\ prog \in [Thread -> Seq(Operation)]
    <3>1. <<x>> \in Seq(Operation)
      BY <1>3
    <3> QED
      BY <1>1, <1>4, <3>1, Turns DEF IInv, Programs
  <2>2. 1 \in DOMAIN <<x>> /\ <<x>>[1] = x
    OBVIOUS
  <2>3. 1 \in DOMAIN prog'[t] /\ prog'[t][1] = x /\ prog'[t] \in Seq(Operation)
    BY <2>1, <2>2, TurnFacts
  <2>4. prog'[t] # <<>> /\ Head(prog'[t]) = x
    BY <2>3
  <2>5. Doing(t, "fill")'
    BY <1>5, <2>4 DEF Doing
  <2>6. addresses' = FALSE
    BY DEF Clear
  <2> QED
    BY <2>5, <2>6 DEF Collected
<1>8. (\A i \in DOMAIN <<x>> : Quiet(<<x>>[i])) /\ <<x>>[1].in = {Res}
  BY <1>5
<1> QED
  BY <1>1, <1>4, <1>6, <1>7, <1>8, QuietParts

LEMMA FillStep == ASSUME IInv, NEW t \in Thread, Fill(t) PROVE IInv'
<1>1. /\ prog[t] # <<>> /\ Head(prog[t]).do = "fill" /\ Continue(t, <<>>)
      /\ UNCHANGED <<registry, testing>> /\ Collected'
  BY DEF Fill, Doing, Collected
<1>2. \A i \in DOMAIN <<>> : Quiet(<<>>[i])
  OBVIOUS
<1> QED
  BY <1>1, <1>2, NothingFits, QuietParts

-----------------------------------------------------------------------------
(* Steps that change the registry.                                          *)

\* What a step leaves of the programs, whatever it does to the rest.
LEMMA Basics ==
    ASSUME IInv, NEW t \in Thread, prog[t] # <<>>, NEW pre, Fits(Head(prog[t]), pre), Continue(t, pre),
           pre # <<>> => pre[1].in \subseteq Held(t),
           Head(prog[t]).do # "fill", UNCHANGED addresses
    PROVE  /\ Turn(t, pre) /\ pre \in Seq(Operation) /\ prog \in [Thread -> Seq(Operation)]
           /\ Programs' /\ Excluded' /\ Collected'
<1>1. pre \in Seq(Operation) /\ prog \in [Thread -> Seq(Operation)]
  BY DEF Fits, IInv, Programs
<1>2. Turn(t, pre)
  BY <1>1, Turns
<1>3. Programs'
  BY <1>2, ProgramsKept DEF IInv
<1>4. Excluded'
  BY <1>1, <1>2, ExcludedKept DEF IInv
<1>5. Collected'
  BY <1>1, <1>2, CollectedKept DEF IInv, Doing
<1> QED
  BY <1>1, <1>2, <1>3, <1>4, <1>5

\* Who changes the list is the only one to have that in mind.
LEMMA OneChange ==
    ASSUME Programs, Excluded, NEW t \in Thread, prog[t] # <<>>, Head(prog[t]).do \in Change,
           NEW u \in Thread, NEW i \in DOMAIN prog[u], prog[u][i].do \in Change
    PROVE  u = t /\ i = 1
<1>1. 1 \in DOMAIN prog[t] /\ Head(prog[t]) = prog[t][1] /\ Held(t) = {Conf}
  BY First DEF Lawful
<1>2. prog[u] # <<>> /\ i \in Nat /\ i >= 1
  BY LenProperties DEF Programs
<1>3. 1 \in DOMAIN prog[u] /\ Held(u) = prog[u][1].in
  BY <1>2, First
<1>4. prog[u][i].in = {Conf}
  BY DEF Programs, Sound, Lawful
<1>5. i = 1 \/ Before(prog[u][1], prog[u][i])
  BY <1>2, <1>3 DEF Programs, Sound, Ordered
<1>6. Conf \in Held(u)
  BY <1>3, <1>4, <1>5 DEF Before
<1>7. u = t
  BY <1>1, <1>6 DEF Excluded
<1> QED
  BY <1>1, <1>5, <1>7 DEF Before

LEMMA AppendStep == ASSUME IInv, NEW t \in Thread, Append1(t) PROVE IInv'
<1> DEFINE o == It(t)
           pre == <<>>
<1>1. /\ prog[t] # <<>> /\ Head(prog[t]).do = "append" /\ list' = Append(list, o) /\ Continue(t, <<>>)
      /\ UNCHANGED <<name, testing, addresses>>
  BY DEF Append1, Doing
<1>2. 1 \in DOMAIN prog[t] /\ Head(prog[t]) = prog[t][1] /\ Head(prog[t]) \in Operation
  BY <1>1, First DEF IInv
<1>3. o \in Obj /\ Needs(prog[t][1], o) /\ CanChange(prog[t][1])
  BY <1>1, <1>2, Kinds DEF It, Needs, IInv, Pending
<1>4. name[o] \in Name
  BY <1>2, <1>3, Needed
<1>5. /\ Turn(t, pre) /\ pre \in Seq(Operation) /\ \A i \in DOMAIN pre : FALSE
      /\ prog \in [Thread -> Seq(Operation)] /\ Programs' /\ Excluded' /\ Collected'
  BY <1>1, NothingFits, Basics
<1> HIDE DEF pre
<1>6. list \in Seq(Obj) /\ name \in [Obj -> Name \union {None}]
  BY DEF IInv, Registered
<1>7. /\ list' \in Seq(Obj) /\ Len(list') = Len(list) + 1 /\ Len(list) \in Nat
      /\ \A i \in 1..Len(list) : list'[i] = list[i]
      /\ list'[Len(list) + 1] = o /\ DOMAIN list' = 1..(Len(list) + 1) /\ DOMAIN list = 1..Len(list)
  BY <1>1, <1>3, <1>6, AppendProperties, LenProperties
<1>8. \A p \in Obj : InList(list', p) <=> InList(list, p) \/ p = o
  BY <1>7 DEF InList
<1>9. \A p \in Obj : Holds(prog', p) <=> Holds(prog, p)
  BY <1>1, <1>5, HoldsTurned DEF IInv, Drops
<1>10. Registered'
  <2>1. \A i \in DOMAIN list : name[list[i]] # name[o]
    BY <1>1, <1>2, <1>3 DEF CanChange, It
  <2>2. \A i, j \in DOMAIN list' : name[list'[i]] = name[list'[j]] => i = j
    BY <1>7, <2>1 DEF IInv, Registered
  <2>3. \A p \in Obj : name[p] # None <=> InList(list', p) \/ Holds(prog', p)
    BY <1>4, <1>8, <1>9, LocksAssumption DEF IInv, Registered
  <2> QED
    BY <1>1, <1>6, <1>7, <2>2, <2>3 DEF Registered
<1>11. Pending'
  <2>1. ASSUME NEW u \in Thread, NEW i \in DOMAIN prog'[u] PROVE prog'[u][i].do \notin Change
    <3>1. PICK j \in DOMAIN prog[u] : prog'[u][i] = prog[u][j] /\ (u = t => j > 1)
      BY <1>5, Origin
    <3> QED
      BY <1>1, <3>1, OneChange DEF Change, IInv
  <2> QED
    BY <2>1 DEF Pending, CanChange, Change
<1>12. NamedOnce'
  BY <1>5, NamedOnceKept DEF IInv
<1>13. Tested'
  BY <1>1, <1>5, TestedKept DEF IInv
<1>14. OneAtATime => OneAtATime'
  BY <1>1, <1>5, OneAtATimeKept DEF IInv
<1> QED
  BY <1>5, <1>10, <1>11, <1>12, <1>13, <1>14 DEF IInv

\* The references that the rest of the program keeps are those of the next state.
LEMMA HoldsLeft ==
    ASSUME Programs, NEW t \in Thread, prog[t] # <<>>, NEW pre \in Seq(Operation), Continue(t, pre),
           NEW o \in Obj, \A i \in DOMAIN pre : ~Drops(pre[i], o)
    PROVE  Holds(prog', o) <=> Holds([prog EXCEPT ![t] = Tail(@)], o)
<1> DEFINE p == prog[t]
           q == pre \o Tail(p)
           n == Len(pre)
<1>1. p \in Seq(Operation) /\ prog \in [Thread -> Seq(Operation)]
  BY DEF Programs
<1>2. /\ DOMAIN p = 1..Len(p) /\ Len(p) \in Nat \ {0} /\ n \in Nat /\ DOMAIN q = 1..(n + Len(p) - 1)
      /\ \A i \in DOMAIN q : i <= n => i \in DOMAIN pre /\ q[i] = pre[i]
      /\ \A i \in DOMAIN q : i > n => i - n + 1 \in DOMAIN p /\ i - n + 1 > 1 /\ q[i] = p[i - n + 1]
      /\ \A i \in DOMAIN p : i > 1 => n + i - 1 \in DOMAIN q /\ q[n + i - 1] = p[i]
  BY <1>1, Spliced
<1>3. /\ Tail(p) \in Seq(Operation) /\ Len(Tail(p)) = Len(p) - 1 /\ DOMAIN Tail(p) = 1..(Len(p) - 1)
      /\ \A i \in 1..(Len(p) - 1) : Tail(p)[i] = p[i + 1]
  BY <1>1, HeadTailProperties, LenProperties
<1>4. prog'[t] = q /\ \A u \in Thread \ {t} : prog'[u] = prog[u]
  BY <1>1 DEF Continue
<1> HIDE DEF q, p, n
<1>5. (\E i \in DOMAIN q : Drops(q[i], o)) <=> \E i \in DOMAIN Tail(p) : Drops(Tail(p)[i], o)
  <2>1. ASSUME NEW i \in DOMAIN q, Drops(q[i], o) PROVE \E j \in DOMAIN Tail(p) : Drops(Tail(p)[j], o)
    <3>1. i > n
      BY <1>2, <2>1
    <3>2. i - n + 1 \in DOMAIN p /\ i - n + 1 > 1 /\ q[i] = p[i - n + 1]
      BY <1>2, <3>1
    <3>3. i - n \in DOMAIN Tail(p) /\ Tail(p)[i - n] = p[(i - n) + 1]
      BY <1>2, <1>3, <3>2
    <3> QED
      BY <2>1, <3>2, <3>3
  <2>2. ASSUME NEW j \in DOMAIN Tail(p), Drops(Tail(p)[j], o) PROVE \E i \in DOMAIN q : Drops(q[i], o)
    <3>1. j + 1 \in DOMAIN p /\ j + 1 > 1 /\ Tail(p)[j] = p[j + 1]
      BY <1>2, <1>3
    <3>2. n + (j + 1) - 1 \in DOMAIN q /\ q[n + (j + 1) - 1] = p[j + 1]
      BY <1>2, <3>1
    <3> QED
      BY <2>2, <3>1, <3>2
  <2> QED
    BY <2>1, <2>2
<1> DEFINE P == [prog EXCEPT ![t] = Tail(@)]
<1>6. P[t] = Tail(p) /\ \A u \in Thread \ {t} : P[u] = prog[u]
  BY <1>1 DEF p
<1> HIDE DEF P
<1>7. Holds(prog', o) <=> \/ \E i \in DOMAIN q : Drops(q[i], o)
                         \/ \E u \in Thread \ {t} : \E i \in DOMAIN prog[u] : Drops(prog[u][i], o)
  BY <1>4 DEF Holds, Drops
<1>8. Holds(P, o) <=> \/ \E i \in DOMAIN Tail(p) : Drops(Tail(p)[i], o)
                     \/ \E u \in Thread \ {t} : \E i \in DOMAIN prog[u] : Drops(prog[u][i], o)
  BY <1>6 DEF Holds, Drops
<1>9. Holds(prog', o) <=> Holds(P, o)
  BY <1>5, <1>7, <1>8
<1> QED
  BY <1>9 DEF P

LEMMA LetGoStep ==
    ASSUME IInv, NEW t \in Thread, prog[t] # <<>>, Head(prog[t]).do \in {"drop", "replace", "erase"},
           NEW o \in Obj, NEW l \in Seq(Obj), LetGo(t, o, l), name[o] # None,
           \A p \in Obj : Drops(Head(prog[t]), p) => p = o,
           \A i, j \in DOMAIN l : name[l[i]] = name[l[j]] => i = j,
           \A p \in Obj \ {o} : /\ InList(l, p) => InList(list, p) \/ Holds(prog, p)
                                /\ InList(list, p) => InList(l, p),
           l = list \/ Head(prog[t]).do \in Change
    PROVE  IInv'
<1> DEFINE last == ~InList(l, o) /\ ~Holds([prog EXCEPT ![t] = Tail(@)], o)
           orphan == last /\ test[o] # None /\ test[o] \notin timers
           x == [do |-> "join", on |-> test[o], in |-> Held(t)]
           pre == IF orphan THEN <<x>> ELSE <<>>
<1>1. /\ list' = l
      /\ name' = IF last THEN [name EXCEPT ![o] = None] ELSE name
      /\ test' = IF last THEN [test EXCEPT ![o] = None] ELSE test
      /\ Continue(t, pre)
      /\ UNCHANGED <<tests, timers, writers, keeper, addresses>>
  <2>1. Under(Held(t), <<Op("join", test[o])>>) = <<x>>
    BY DEF Under, Op
  <2> QED
    BY <2>1 DEF LetGo
<1>2. /\ 1 \in DOMAIN prog[t] /\ Head(prog[t]) = prog[t][1] /\ Held(t) = Head(prog[t]).in
      /\ Held(t) \subseteq {Conf} /\ Held(t) \subseteq Mutex
  BY First DEF Lawful, Change, IInv
<1>3. /\ name \in [Obj -> Name \union {None}] /\ test \in [Obj -> tests \union {None}] /\ tests \subseteq Test
      /\ None \notin Test /\ None \notin Name
  BY LocksAssumption DEF IInv, Registered, Tested
<1>4. orphan => test[o] \in Test /\ x \in Operation
  BY <1>2, <1>3, Made
<1>5. Fits(Head(prog[t]), pre)
  <2>1. CASE orphan
    <3>1. x \in Operation /\ Lawful(x) /\ Head(prog[t]).in \subseteq x.in /\ x.do = "join"
      BY <1>2, <1>4, <2>1 DEF Lawful, Change
    <3>2. Fits(Head(prog[t]), <<x>>)
      BY <3>1, OneFits
    <3> QED
      BY <2>1, <3>2
  <2>2. CASE ~orphan
    BY <2>2, NothingFits
  <2> QED
    BY <2>1, <2>2
<1>6. /\ \A i \in DOMAIN pre : orphan /\ i = 1 /\ pre[i] = x
      /\ pre # <<>> => pre[1].in \subseteq Held(t)
  OBVIOUS
<1>7. x.do = "join" /\ x.on = test[o]
  OBVIOUS
<1> HIDE DEF x, pre
<1>8. /\ Turn(t, pre) /\ pre \in Seq(Operation) /\ prog \in [Thread -> Seq(Operation)]
      /\ Programs' /\ Excluded' /\ Collected'
  BY <1>1, <1>5, <1>6, Basics
\* The object is taken along when nobody refers to it any more.
<1>9. last <=> ~InList(l, o) /\ ~Holds(prog', o)
  <2>1. \A i \in DOMAIN pre : ~Drops(pre[i], o)
    BY <1>6, <1>7 DEF Drops
  <2>2. Holds(prog', o) <=> Holds([prog EXCEPT ![t] = Tail(@)], o)
    BY <1>1, <1>8, <2>1, HoldsLeft DEF IInv
  <2> QED
    BY <2>2
<1> HIDE DEF last
<1>10. \A p \in Obj : InList(l, p) \/ Holds(prog', p) => name'[p] = name[p] /\ test'[p] = test[p]
  BY <1>1, <1>3, <1>9
<1>11. \A p \in Obj \ {o} : name'[p] = name[p] /\ test'[p] = test[p]
  BY <1>1, <1>3
<1>12. last => name'[o] = None /\ test'[o] = None
  BY <1>1, <1>3
<1>13. ASSUME NEW u \in Thread, NEW i \in DOMAIN prog'[u], NEW p \in Obj, Needs(prog'[u][i], p)
       PROVE  Holds(prog', p) /\ name'[p] = name[p] /\ test'[p] = test[p]
  <2>1. \E j \in DOMAIN prog'[u] : Drops(prog'[u][j], p)
    BY <1>8, <1>13 DEF Programs, Sound, Follows
  <2>2. Holds(prog', p)
    BY <2>1 DEF Holds, Drops
  <2> QED
    BY <1>10, <2>2
<1>14. Registered'
  <2>1. name' \in [Obj -> Name \union {None}] /\ list' \in Seq(Obj)
    BY <1>1, <1>3
  <2>2. \A i \in DOMAIN l : l[i] \in Obj /\ name'[l[i]] = name[l[i]]
    BY <1>10, LenProperties, ElementOfSeq DEF InList
  <2>3. \A i, j \in DOMAIN list' : name'[list'[i]] = name'[list'[j]] => i = j
    BY <1>1, <2>2
  <2>4. name'[o] # None <=> InList(list', o) \/ Holds(prog', o)
    BY <1>1, <1>9, <1>10, <1>12
  <2>5. ASSUME NEW p \in Obj \ {o} PROVE name'[p] # None <=> InList(list', p) \/ Holds(prog', p)
    <3>1. \A i \in DOMAIN pre : ~Drops(pre[i], p)
      BY <1>6, <1>7 DEF Drops
    <3>2. ~Drops(Head(prog[t]), p)
      BY <2>5
    <3>3. Holds(prog', p) <=> Holds(prog, p)
      BY <1>8, <3>1, <3>2, HoldsTurned DEF IInv
    <3>4. name[p] # None <=> InList(list, p) \/ Holds(prog, p)
      BY DEF IInv, Registered
    <3> QED
      BY <1>1, <1>11, <3>3, <3>4
  <2> QED
    BY <2>1, <2>3, <2>4, <2>5 DEF Registered
<1>15. ASSUME NEW u \in Thread, NEW i \in DOMAIN prog'[u]
       PROVE  \/ \E j \in DOMAIN prog[u] : prog'[u][i] = prog[u][j] /\ (u = t => j > 1)
              \/ orphan /\ prog'[u][i] = x
  BY <1>6, <1>8, Origin
<1>16. Pending'
  <2>1. ASSUME NEW u \in Thread, NEW i \in DOMAIN prog'[u], NEW op, op = prog'[u][i] PROVE CanChange(op)'
    <3>1. CASE op.do \notin Change
      BY <3>1 DEF CanChange, Change
    <3>2. CASE op.do \in Change
      <4>1. PICK j \in DOMAIN prog[u] : op = prog[u][j] /\ (u = t => j > 1)
        BY <1>7, <1>15, <2>1, <3>2 DEF Change
      <4>2. Head(prog[t]).do \notin Change
        BY <3>2, <4>1, OneChange DEF IInv
      <4>3. l = list
        BY <4>2
      <4>4. CanChange(op)
        BY <4>1 DEF IInv, Pending
      <4>5. \A k \in DOMAIN list : name'[list[k]] = name[list[k]]
        BY <1>10, <4>3, LenProperties, ElementOfSeq DEF InList
      <4>6. op \in Operation
        BY <1>8, <2>1, ElementOfSeq, LenProperties DEF Programs
      <4>7. op.do = "append" => name'[op.on] = name[op.on]
        BY <1>13, <2>1, <4>6, Kinds DEF Needs
      <4>8. op.do = "replace" => name'[op.on.by] = name[op.on.by]
        BY <1>13, <2>1, <4>6, Kinds DEF Needs
      <4> QED
        BY <1>1, <4>3, <4>4, <4>5, <4>7, <4>8 DEF CanChange
    <3> QED
      BY <3>1, <3>2
  <2> QED
    BY <2>1 DEF Pending, CanChange
\* A test whose object goes is in nobody else's hands.
<1>17. last => \A u \in Thread : \A i \in DOMAIN prog[u] :
           /\ prog[u][i].do \in {"spawn", "leave", "arm"} => prog[u][i].on.app # o
           /\ test[o] # None => ~Names(prog[u][i], test[o])
  <2> SUFFICES ASSUME last, NEW u \in Thread, NEW i \in DOMAIN prog[u]
               PROVE  /\ prog[u][i].do \in {"spawn", "leave", "arm"} => prog[u][i].on.app # o
                      /\ test[o] # None => ~Names(prog[u][i], test[o])
    OBVIOUS
  <2>1. prog[u][i].do \in {"spawn", "leave", "arm"} => prog[u][i].on.app # o
    <3> SUFFICES ASSUME prog[u][i].do \in {"spawn", "leave", "arm"}, prog[u][i].on.app = o PROVE FALSE
      OBVIOUS
    <3>1. i > 1 \/ u # t
      <4>1. i \in Nat /\ i >= 1
        BY LenProperties, <1>8
      <4>2. u = t => i # 1
        BY <1>2
      <4> QED
        BY <4>1, <4>2
    <3>2. u = t => i > 1
      BY <3>1
    <3>3. PICK k \in DOMAIN prog'[u] : prog'[u][k] = prog[u][i]
      <4>1. \A v \in Thread : \A j \in DOMAIN prog[v] :
                (v = t => j > 1) => \E k \in DOMAIN prog'[v] : prog'[v][k] = prog[v][j]
        BY <1>8, Origin
      <4> QED
        BY <3>2, <4>1
    <3>4. Needs(prog'[u][k], o)
      BY <3>3 DEF Needs
    <3>5. Holds(prog', o)
      BY <1>13, <3>4
    <3> QED
      BY <1>9, <3>5
  <2>2. ASSUME test[o] # None, Names(prog[u][i], test[o]) PROVE FALSE
    <3>1. Owned(prog[u][i])
      BY DEF IInv, Tested
    <3> QED
      BY <2>1, <2>2, <3>1 DEF Owned, Names
  <2> QED
    BY <2>1, <2>2
<1>18. NamedOnce'
  <2>1. \A i \in DOMAIN pre : \A y \in Test : Names(pre[i], y) => last /\ y = test[o] /\ test[o] # None
    BY <1>6, <1>7 DEF Names
  <2>2. \A i, j \in DOMAIN pre : i = j
    BY <1>6
  <2>3. \A i \in DOMAIN pre : \A y \in Test : Names(pre[i], y) =>
            \A u \in Thread : \A j \in DOMAIN prog[u] : ~Names(prog[u][j], y)
    BY <1>17, <2>1
  <2> QED
    BY <1>8, <2>2, <2>3, NamedOnceKept DEF IInv
<1>19. Tested'
  <2>1. test' \in [Obj -> tests' \union {None}]
    BY <1>1, <1>3
  <2>2. \A p, q \in Obj : test'[p] = test'[q] /\ test'[p] # None => p = q
    BY <1>1, <1>3 DEF IInv, Tested
  <2>3. ASSUME NEW u \in Thread, NEW i \in DOMAIN prog'[u], NEW op, op = prog'[u][i] PROVE Owned(op)'
    <3>1. CASE orphan /\ op = x
      <4>1. \A p \in Obj : test'[p] # test[o]
        BY <1>3, <1>11, <1>12, <3>1 DEF IInv, Tested
      <4> QED
        BY <1>1, <1>3, <1>7, <3>1, <4>1 DEF Owned, Names
    <3>2. CASE \E j \in DOMAIN prog[u] : op = prog[u][j] /\ (u = t => j > 1)
      <4>1. Owned(op)
        BY <3>2 DEF IInv, Tested
      <4>2. \A p \in Obj : test'[p] = test[p] \/ test'[p] = None
        BY <1>1, <1>3
      <4>3. op \in Operation
        BY <1>8, <2>3, ElementOfSeq, LenProperties DEF Programs
      <4>4. op.do \in {"spawn", "leave", "arm"} => test'[op.on.app] = test[op.on.app]
        BY <1>13, <2>3, <4>3, Kinds DEF Needs
      <4>5. op.do = "join" => op.on # None
        BY <1>3, <4>3, Kinds
      <4>6. op.do \in {"spawn", "leave"} => op.on.test # None
        BY <1>3, <4>3, Kinds
      <4> QED
        BY <1>1, <4>1, <4>2, <4>4, <4>5, <4>6 DEF Owned, Names
    <3> QED
      BY <1>15, <2>3, <3>1, <3>2
  <2> QED
    BY <1>1, <2>1, <2>2, <2>3 DEF IInv, Tested, Owned, Names
<1>20. ASSUME OneAtATime PROVE OneAtATime'
  <2>1. OneTester'
    <3>1. \A i \in DOMAIN pre : ~IsTest(pre[i])
      BY <1>6, <1>7 DEF IsTest
    <3> QED
      BY <1>8, <1>20, <3>1, OneTesterKept DEF IInv, OneAtATime
  <2>2. Timed'
    <3> SUFFICES ASSUME NEW y \in writers, y \notin timers
                 PROVE  \E u \in Thread : \E i \in DOMAIN prog'[u] :
                            prog'[u][i].do = "arm" /\ test'[prog'[u][i].on.app] = y
      BY <1>1 DEF Timed
    <3>1. PICK u \in Thread : \E j \in DOMAIN prog[u] : prog[u][j].do = "arm" /\ test[prog[u][j].on.app] = y
      BY <1>20 DEF OneAtATime, Timed
    <3>2. PICK j \in DOMAIN prog[u] : prog[u][j].do = "arm" /\ test[prog[u][j].on.app] = y
      BY <3>1
    <3>3. u = t => j > 1
      <4>1. j \in Nat /\ j >= 1
        BY LenProperties, <1>8
      <4>2. u = t => j # 1
        BY <1>2, <3>2
      <4> QED
        BY <4>1, <4>2
    <3>4. PICK i \in DOMAIN prog'[u] : prog'[u][i] = prog[u][j]
      BY <1>8, <3>3, Origin
    <3>5. prog'[u][i].on.app \in Obj
      <4>1. prog'[u][i] \in Operation
        BY <1>8, ElementOfSeq, LenProperties DEF Programs
      <4> QED
        BY <3>2, <3>4, <4>1, Kinds
    <3>6. test'[prog'[u][i].on.app] = test[prog'[u][i].on.app]
      BY <1>13, <3>2, <3>4, <3>5 DEF Needs
    <3> QED
      BY <3>2, <3>4, <3>6
  <2>3. ASSUME NEW u \in Thread, NEW i \in DOMAIN prog'[u], NEW op, op = prog'[u][i]
        PROVE  (Same(op) /\ Dead(op))'
    <3>1. CASE orphan /\ op = x
      <4>1. test[o] \notin writers
        <5> SUFFICES ASSUME test[o] \in writers PROVE FALSE
          OBVIOUS
        <5>1. PICK v \in Thread : \E j \in DOMAIN prog[v] :
                  prog[v][j].do = "arm" /\ test[prog[v][j].on.app] = test[o]
          BY <1>20, <3>1 DEF OneAtATime, Timed
        <5>2. PICK j \in DOMAIN prog[v] : prog[v][j].do = "arm" /\ test[prog[v][j].on.app] = test[o]
          BY <5>1
        <5>3. prog[v][j] \in Operation
          BY <1>8, ElementOfSeq, LenProperties
        <5>4. prog[v][j].on.app = o
          BY <3>1, <5>2, <5>3, Kinds DEF IInv, Tested
        <5> QED
          BY <1>17, <3>1, <5>2, <5>4
      <4> QED
        BY <1>1, <1>7, <3>1, <4>1 DEF Same, Dead
    <3>2. CASE \E j \in DOMAIN prog[u] : op = prog[u][j] /\ (u = t => j > 1)
      <4>1. Same(op) /\ Dead(op)
        BY <1>20, <3>2 DEF OneAtATime
      <4>2. op \in Operation
        BY <1>8, <2>3, ElementOfSeq, LenProperties DEF Programs
      <4>3. op.do \in {"spawn", "leave"} => test'[op.on.app] = test[op.on.app]
        BY <1>13, <2>3, <4>2, Kinds DEF Needs
      <4> QED
        BY <1>1, <4>1, <4>3 DEF Same, Dead
    <3> QED
      BY <1>15, <2>3, <3>1, <3>2
  <2> QED
    BY <2>1, <2>2, <2>3 DEF OneAtATime, Same, Dead
<1> QED
  BY <1>8, <1>14, <1>16, <1>18, <1>19, <1>20 DEF IInv

LEMMA DropStep == ASSUME IInv, NEW t \in Thread, Drop(t) PROVE IInv'
<1> DEFINE o == It(t)
<1>1. prog[t] # <<>> /\ Head(prog[t]).do = "drop" /\ LetGo(t, o, list)
  BY DEF Drop, Doing
<1>2. 1 \in DOMAIN prog[t] /\ Head(prog[t]) = prog[t][1] /\ o \in Obj
  BY <1>1, First, Kinds DEF IInv, It
<1>3. Holds(prog, o)
  BY <1>1, <1>2 DEF Holds, It
<1>4. name[o] # None /\ list \in Seq(Obj) /\ \A i, j \in DOMAIN list : name[list[i]] = name[list[j]] => i = j
  BY <1>2, <1>3 DEF IInv, Registered
<1>5. \A p \in Obj : Drops(Head(prog[t]), p) => p = o
  BY DEF Drops, It
<1> QED
  BY <1>1, <1>2, <1>4, <1>5, LetGoStep

LEMMA ReplaceStep == ASSUME IInv, NEW t \in Thread, Replace(t) PROVE IInv'
<1> DEFINE k == It(t).at
           new == It(t).by
           o == list[k]
           l == [list EXCEPT ![k] = new]
<1>1. prog[t] # <<>> /\ Head(prog[t]).do = "replace" /\ LetGo(t, o, l)
  BY DEF Replace, Doing
<1>2. /\ 1 \in DOMAIN prog[t] /\ Head(prog[t]) = prog[t][1] /\ Head(prog[t]) \in Operation /\ new \in Obj
      /\ CanChange(prog[t][1]) /\ Needs(prog[t][1], new)
  BY <1>1, First, Kinds DEF IInv, It, Pending, Needs
<1>3. k \in DOMAIN list /\ name[o] = name[new]
  BY <1>1, <1>2 DEF CanChange, It
<1>4. Holds(prog, new) /\ name[new] \in Name
  BY <1>2, Needed
<1>5. list \in Seq(Obj) /\ DOMAIN list = 1..Len(list) /\ \A i \in DOMAIN list : list[i] \in Obj
  BY ListFacts DEF IInv, Registered
<1>6. l \in Seq(Obj) /\ DOMAIN l = DOMAIN list /\ \A i \in DOMAIN list : l[i] = IF i = k THEN new ELSE list[i]
  BY <1>2, <1>3, <1>5, ExceptSeq
<1> HIDE DEF l
<1>7. \A i \in DOMAIN list : name[l[i]] = name[list[i]]
  BY <1>3, <1>6
<1>8. \A i, j \in DOMAIN l : name[l[i]] = name[l[j]] => i = j
  BY <1>6, <1>7 DEF IInv, Registered
<1>9. ASSUME NEW p \in Obj \ {o}
      PROVE  (InList(l, p) => InList(list, p) \/ Holds(prog, p)) /\ (InList(list, p) => InList(l, p))
  BY <1>3, <1>4, <1>6, <1>9 DEF InList
<1>10. name[o] # None /\ o \in Obj
  BY <1>3, <1>4, <1>5, LocksAssumption
<1>11. \A p \in Obj : ~Drops(Head(prog[t]), p)
  BY <1>1 DEF Drops
<1>12. Head(prog[t]).do \in Change
  BY <1>1 DEF Change
<1> HIDE DEF o
<1> QED
  BY <1>1, <1>6, <1>8, <1>9, <1>10, <1>11, <1>12, LetGoStep

LEMMA WithoutFacts ==
    ASSUME NEW s \in Seq(Obj), NEW k \in DOMAIN s
    PROVE  LET l == Without(s, k)
           IN  /\ l \in Seq(Obj) /\ DOMAIN l = 1..(Len(s) - 1)
               /\ \A i \in DOMAIN l : l[i] = IF i < k THEN s[i] ELSE s[i + 1]
<1> DEFINE a == SubSeq(s, 1, k - 1)
           b == SubSeq(s, k + 1, Len(s))
           n == Len(s)
<1>1. n \in Nat /\ DOMAIN s = 1..n /\ k \in 1..n /\ \A i \in 1..n : s[i] \in Obj
  BY LenProperties, ElementOfSeq
<1>2. 1 \in Int /\ k - 1 \in Int /\ k + 1 \in Int /\ n \in Int
  BY <1>1
<1>3. /\ a \in Seq(Obj) /\ Len(a) = (IF 1 <= k - 1 THEN k - 1 - 1 + 1 ELSE 0)
      /\ \A i \in 1..(k - 1 - 1 + 1) : a[i] = s[1 + i - 1]
  <2>1. \A i \in 1..(k - 1) : s[i] \in Obj
    BY <1>1
  <2> QED
    BY <1>2, <2>1, SubSeqProperties
<1>4. /\ b \in Seq(Obj) /\ Len(b) = (IF k + 1 <= n THEN n - (k + 1) + 1 ELSE 0)
      /\ \A i \in 1..(n - (k + 1) + 1) : b[i] = s[(k + 1) + i - 1]
  <2>1. \A i \in (k + 1)..n : s[i] \in Obj
    BY <1>1
  <2> QED
    BY <1>2, <2>1, SubSeqProperties
<1> HIDE DEF a, b, n
<1>5. Len(a) = k - 1 /\ Len(b) = n - k
  BY <1>1, <1>3, <1>4
<1>6. /\ a \o b \in Seq(Obj) /\ Len(a \o b) = Len(a) + Len(b)
      /\ \A i \in 1..(Len(a) + Len(b)) : (a \o b)[i] = IF i <= Len(a) THEN a[i] ELSE b[i - Len(a)]
  BY <1>3, <1>4, ConcatProperties
<1>7. DOMAIN (a \o b) = 1..(n - 1)
  <2>1. DOMAIN (a \o b) = 1..Len(a \o b)
    BY <1>6, LenProperties
  <2>2. Len(a \o b) = n - 1
    BY <1>1, <1>5, <1>6
  <2> QED
    BY <2>1, <2>2
<1>8. ASSUME NEW i \in 1..(n - 1) PROVE (a \o b)[i] = IF i < k THEN s[i] ELSE s[i + 1]
  <2>1. i \in 1..(Len(a) + Len(b))
    BY <1>1, <1>5
  <2>2. CASE i < k
    <3>1. i <= Len(a) /\ i \in 1..(k - 1 - 1 + 1)
      BY <1>1, <1>5, <2>2
    <3>2. (a \o b)[i] = a[i] /\ a[i] = s[1 + i - 1] /\ 1 + i - 1 = i
      BY <1>3, <1>6, <2>1, <3>1
    <3> QED
      BY <2>2, <3>2
  <2>3. CASE ~(i < k)
    <3>1. ~(i <= Len(a)) /\ i - Len(a) = i - k + 1 /\ i - k + 1 \in 1..(n - (k + 1) + 1)
      BY <1>1, <1>5, <2>3
    <3>2. (a \o b)[i] = b[i - k + 1]
      BY <1>6, <2>1, <3>1
    <3>3. b[i - k + 1] = s[(k + 1) + (i - k + 1) - 1]
      BY <1>4, <3>1
    <3>4. (k + 1) + (i - k + 1) - 1 = i + 1
      BY <1>1
    <3> QED
      BY <2>3, <3>2, <3>3, <3>4
  <2> QED
    BY <2>2, <2>3
<1> QED
  BY <1>6, <1>7, <1>8 DEF Without, a, b, n

LEMMA EraseStep == ASSUME IInv, NEW t \in Thread, Erase(t) PROVE IInv'
<1> DEFINE k == It(t)
           o == list[k]
           l == Without(list, k)
           n == Len(list)
<1>1. prog[t] # <<>> /\ Head(prog[t]).do = "erase" /\ LetGo(t, o, l)
  BY DEF Erase, Doing
<1>2. 1 \in DOMAIN prog[t] /\ Head(prog[t]) = prog[t][1] /\ CanChange(prog[t][1])
  BY <1>1, First DEF IInv, Pending
<1>3. k \in DOMAIN list
  BY <1>1, <1>2 DEF CanChange, It
<1>4. list \in Seq(Obj) /\ n \in Nat /\ DOMAIN list = 1..n /\ \A i \in DOMAIN list : list[i] \in Obj
  BY ListFacts DEF IInv, Registered
<1>5. /\ l \in Seq(Obj) /\ DOMAIN l = 1..(n - 1)
      /\ \A i \in DOMAIN l : l[i] = IF i < k THEN list[i] ELSE list[i + 1]
  BY <1>3, <1>4, WithoutFacts
<1> HIDE DEF l, n
<1>6. ASSUME NEW i \in DOMAIN l, NEW j \in DOMAIN l, name[l[i]] = name[l[j]] PROVE i = j
  <2> DEFINE a == IF i < k THEN i ELSE i + 1
             b == IF j < k THEN j ELSE j + 1
  <2>1. a \in DOMAIN list /\ b \in DOMAIN list /\ l[i] = list[a] /\ l[j] = list[b]
    BY <1>3, <1>4, <1>5
  <2>2. a = b
    BY <1>6, <2>1 DEF IInv, Registered
  <2> QED
    BY <1>3, <1>4, <1>5, <2>2
<1>7. ASSUME NEW p \in Obj \ {o}, InList(l, p) PROVE InList(list, p)
  <2>1. PICK i \in DOMAIN l : l[i] = p
    BY <1>7 DEF InList
  <2>2. i \in DOMAIN list /\ i + 1 \in DOMAIN list
    BY <1>4, <1>5
  <2> QED
    BY <1>5, <2>1, <2>2 DEF InList
<1>8. ASSUME NEW p \in Obj \ {o}, InList(list, p) PROVE InList(l, p)
  <2>1. PICK i \in DOMAIN list : list[i] = p
    BY <1>8 DEF InList
  <2>2. i # k
    BY <2>1
  <2>3. CASE i < k
    <3>1. i \in DOMAIN l /\ l[i] = p
      BY <1>3, <1>4, <1>5, <2>1, <2>3
    <3> QED
      BY <3>1 DEF InList
  <2>4. CASE i > k
    <3>1. i - 1 \in DOMAIN l /\ ~(i - 1 < k) /\ (i - 1) + 1 = i
      BY <1>3, <1>4, <1>5, <2>4
    <3>2. l[i - 1] = p
      BY <1>5, <2>1, <3>1
    <3> QED
      BY <3>1, <3>2 DEF InList
  <2> QED
    BY <1>3, <1>4, <2>2, <2>3, <2>4
<1>9. o \in Obj /\ name[o] # None
  BY <1>3, <1>4 DEF IInv, Registered, InList
<1>10. \A p \in Obj : ~Drops(Head(prog[t]), p)
  BY <1>1 DEF Drops
<1>11. Head(prog[t]).do \in Change
  BY <1>1 DEF Change
<1> HIDE DEF o
<1> QED
  BY <1>1, <1>5, <1>6, <1>7, <1>8, <1>9, <1>10, <1>11, LetGoStep

-----------------------------------------------------------------------------
(* Steps that change the tests.                                             *)

\* What a step of a test run leaves of the programs and of the registry.
LEMMA TestBasics ==
    ASSUME IInv, NEW t \in Thread, prog[t] # <<>>, NEW pre, Fits(Head(prog[t]), pre), Continue(t, pre),
           \A i \in DOMAIN pre : pre[i].do \in {"join", "spawn", "leave", "arm"} /\ pre[i].in \subseteq Held(t),
           Head(prog[t]).do \notin {"drop", "fill"}, UNCHANGED <<registry, addresses>>
    PROVE  /\ Turn(t, pre) /\ pre \in Seq(Operation) /\ prog \in [Thread -> Seq(Operation)]
           /\ Programs' /\ Excluded' /\ Collected' /\ Registered' /\ Pending'
<1>1. pre # <<>> => pre[1].in \subseteq Held(t)
  <2>1. pre # <<>> => 1 \in DOMAIN pre
    BY LenProperties, EmptySeq DEF Fits
  <2> QED
    BY <2>1
<1>2. /\ Turn(t, pre) /\ pre \in Seq(Operation) /\ prog \in [Thread -> Seq(Operation)]
      /\ Programs' /\ Excluded' /\ Collected'
  BY <1>1, Basics
<1>3. \A i \in DOMAIN pre : CanChange(pre[i]) /\ \A o \in Obj : ~Drops(pre[i], o)
  BY DEF CanChange, Drops
<1>4. Registered'
  BY <1>2, <1>3, RegisteredKept DEF IInv
<1>5. Pending'
  BY <1>2, <1>3, PendingKept DEF IInv
<1> QED
  BY <1>2, <1>4, <1>5

\* The tests are owned still when no test begins or ends and no timer is made.
LEMMA StillTested ==
    ASSUME Programs, Tested, NEW t \in Thread, NEW pre \in Seq(Operation), Turn(t, pre),
           \A i \in DOMAIN pre : Owned(pre[i])', UNCHANGED <<test, tests>>,
           timers' \subseteq timers, writers' \union keeper' \subseteq tests
    PROVE  Tested'
<1>1. ASSUME NEW u \in Thread, NEW i \in DOMAIN prog'[u], NEW op, op = prog'[u][i] PROVE Owned(op)'
  <2>1. CASE \E j \in DOMAIN prog[u] : op = prog[u][j]
    <3>1. Owned(op)
      BY <2>1 DEF Tested
    <3> QED
      BY <3>1 DEF Owned, Names
  <2>2. CASE \E j \in DOMAIN pre : op = pre[j]
    BY <2>2
  <2> QED
    BY <1>1, <2>1, <2>2, Origin DEF Programs
<1> QED
  BY <1>1 DEF Tested, Owned, Names

\* Fewer programs that live need fewer timers.
LEMMA StillOneAtATime ==
    ASSUME Programs, OneAtATime, NEW t \in Thread, NEW pre \in Seq(Operation), Turn(t, pre),
           \A i \in DOMAIN pre : IsTest(pre[i]) =>
               \/ prog[t] # <<>> /\ IsTest(Head(prog[t]))
               \/ \A u \in Thread : \A j \in DOMAIN prog[u] : ~IsTest(prog[u][j]),
           prog[t] # <<>> => Head(prog[t]).do # "arm",
           \A i \in DOMAIN pre : Same(pre[i])' /\ Dead(pre[i])',
           UNCHANGED test, writers' \subseteq writers, writers' \intersect timers \subseteq timers'
    PROVE  OneAtATime'
<1>0. prog \in [Thread -> Seq(Operation)]
  BY DEF Programs
<1>1. OneTester'
  BY OneTesterKept DEF OneAtATime
<1>2. Timed'
  <2> SUFFICES ASSUME NEW x \in writers', x \notin timers'
               PROVE  \E u \in Thread : \E i \in DOMAIN prog'[u] :
                          prog'[u][i].do = "arm" /\ test[prog'[u][i].on.app] = x
    BY DEF Timed
  <2>0. PICK u \in Thread : \E j \in DOMAIN prog[u] : prog[u][j].do = "arm" /\ test[prog[u][j].on.app] = x
    BY DEF OneAtATime, Timed
  <2>1. PICK j \in DOMAIN prog[u] : prog[u][j].do = "arm" /\ test[prog[u][j].on.app] = x
    BY <2>0
  <2>2. u = t => j > 1
    <3> SUFFICES ASSUME u = t PROVE j > 1
      OBVIOUS
    <3>1. prog[t] # <<>>
      BY <2>1
    <3>2. j \in Nat \ {0} /\ j # 1
      BY <1>0, <2>1, <3>1, First, TurnFacts
    <3> QED
      BY <3>2
  <2>3. PICK i \in DOMAIN prog'[u] : prog'[u][i] = prog[u][j]
    BY <1>0, <2>2, Origin
  <2> QED
    BY <2>1, <2>3
<1>3. ASSUME NEW u \in Thread, NEW i \in DOMAIN prog'[u], NEW op, op = prog'[u][i]
      PROVE  (Same(op) /\ Dead(op))'
  <2>1. CASE \E j \in DOMAIN prog[u] : op = prog[u][j]
    <3>1. Same(op) /\ Dead(op)
      BY <2>1 DEF OneAtATime
    <3> QED
      BY <3>1 DEF Same, Dead
  <2>2. CASE \E j \in DOMAIN pre : op = pre[j]
    BY <2>2
  <2> QED
    BY <1>0, <1>3, <2>1, <2>2, Origin
<1> QED
  BY <1>1, <1>2, <1>3 DEF OneAtATime, Same, Dead

\* What the first operation names nobody else does.
LEMMA NamedHere ==
    ASSUME IInv, NEW t \in Thread, prog[t] # <<>>, NEW x \in Test, Names(Head(prog[t]), x)
    PROVE  /\ x \in tests
           /\ \A u \in Thread : \A j \in DOMAIN prog[u] : Names(prog[u][j], x) => u = t /\ j = 1
<1>1. 1 \in DOMAIN prog[t] /\ Head(prog[t]) = prog[t][1]
  BY First DEF IInv
<1> QED
  BY <1>1 DEF IInv, NamedOnce, Tested, Owned

\* Who renews, spawns or arms is the only one to test, and has one operation of it to do.
LEMMA NoLaterTest ==
    ASSUME Programs, OneTester, NEW t \in Thread, prog[t] # <<>>,
           Head(prog[t]).do \in {"renew", "spawn", "arm"},
           NEW u \in Thread, NEW j \in DOMAIN prog[u], IsTest(prog[u][j])
    PROVE  u = t /\ j = 1
<1>1. 1 \in DOMAIN prog[t] /\ Head(prog[t]) = prog[t][1]
  BY First
<1>2. IsTest(prog[t][1])
  BY <1>1 DEF IsTest
<1>3. u = t
  BY <1>1, <1>2 DEF OneTester
<1>4. j \in Nat /\ j >= 1
  BY LenProperties DEF Programs
<1>5. j > 1 => Before(prog[t][1], prog[t][j])
  BY <1>1, <1>3 DEF Programs, Sound, Ordered
<1> QED
  BY <1>1, <1>2, <1>3, <1>4, <1>5 DEF Before

LEMMA JoinStep == ASSUME IInv, NEW t \in Thread, Join(t) PROVE IInv'
<1> DEFINE x == It(t)
           pre == <<>>
<1>1. /\ prog[t] # <<>> /\ Head(prog[t]).do = "join" /\ x \notin writers \union keeper
      /\ tests' = tests \ {x} /\ Continue(t, pre)
      /\ UNCHANGED <<registry, test, timers, writers, keeper, addresses>>
  BY DEF Join, Doing
<1>2. 1 \in DOMAIN prog[t] /\ Head(prog[t]) = prog[t][1] /\ Head(prog[t]) \in Operation /\ x = Head(prog[t]).on
  BY <1>1, First DEF IInv, It
<1>3. x \in Test /\ Names(Head(prog[t]), x)
  BY <1>1, <1>2, Kinds DEF Names
<1>4. Owned(Head(prog[t]))
  BY <1>2 DEF IInv, Tested
<1>5. x \notin timers /\ \A o \in Obj : test[o] # x
  BY <1>1, <1>2, <1>4 DEF Owned
<1>6. Fits(Head(prog[t]), pre) /\ pre \in Seq(Operation) /\ \A i \in DOMAIN pre : FALSE
  BY NothingFits
<1> HIDE DEF pre, x
<1>7. /\ Turn(t, pre) /\ prog \in [Thread -> Seq(Operation)]
      /\ Programs' /\ Excluded' /\ Collected' /\ Registered' /\ Pending'
  BY <1>1, <1>6, TestBasics
<1>8. NamedOnce'
  BY <1>6, <1>7, NamedOnceKept DEF IInv
<1>9. Tested'
  <2>1. ASSUME NEW u \in Thread, NEW i \in DOMAIN prog'[u], NEW op, op = prog'[u][i] PROVE Owned(op)'
    <3>1. \E j \in DOMAIN prog[u] : op = prog[u][j] /\ (u = t => j > 1)
      BY <1>6, <1>7, <2>1, Origin
    <3>2. Owned(op) /\ ~Names(op, x)
      BY <1>1, <1>3, <3>1, NamedHere DEF IInv, Tested
    <3> QED
      BY <1>1, <3>2 DEF Owned, Names
  <2>2. test' \in [Obj -> tests' \union {None}]
    BY <1>1, <1>5 DEF IInv, Tested
  <2> QED
    BY <1>1, <1>5, <2>1, <2>2 DEF IInv, Tested, Owned, Names
<1>10. OneAtATime => OneAtATime'
  BY <1>1, <1>6, <1>7, StillOneAtATime DEF IInv
<1> QED
  BY <1>7, <1>8, <1>9, <1>10 DEF IInv

LEMMA KillOldStep == ASSUME IInv, NEW t \in Thread, KillOld(t) PROVE IInv'
<1> DEFINE pre == <<>>
<1>1. /\ prog[t] # <<>> /\ Head(prog[t]).do = "kill" /\ writers' \subseteq writers /\ Continue(t, pre)
      /\ UNCHANGED <<registry, test, tests, timers, keeper, addresses>>
  BY DEF KillOld, Doing
<1>2. Fits(Head(prog[t]), pre) /\ pre \in Seq(Operation) /\ \A i \in DOMAIN pre : FALSE
  BY NothingFits
<1> HIDE DEF pre
<1>3. Turn(t, pre) /\ Programs' /\ Excluded' /\ Collected' /\ Registered' /\ Pending'
  BY <1>1, <1>2, TestBasics
<1>4. NamedOnce'
  BY <1>2, <1>3, NamedOnceKept DEF IInv
<1>5. writers' \union keeper' \subseteq tests
  BY <1>1 DEF IInv, Tested
<1>6. Tested'
  BY <1>1, <1>2, <1>3, <1>5, StillTested DEF IInv
<1>7. OneAtATime => OneAtATime'
  BY <1>1, <1>2, <1>3, StillOneAtATime DEF IInv
<1> QED
  BY <1>3, <1>4, <1>6, <1>7 DEF IInv

\* A new test is spawned, once the old one's reader has come to its end.
LEMMA RenewFits ==
    ASSUME NEW op \in Operation, op.do = "renew", op.in = {}, NEW old \in Test,
           NEW s \in [app : Obj, test : Test], s.app = op.on
    PROVE  /\ Fits(op, <<Op("join", old), Op("spawn", s)>>)
           /\ Fits(op, <<Op("spawn", s)>>)
<1> DEFINE x == Op("join", old)
           y == Op("spawn", s)
<1>1. /\ x \in Operation /\ x.do = "join" /\ x.on = old /\ x.in = {}
      /\ y \in Operation /\ y.do = "spawn" /\ y.on = s /\ y.in = {}
  BY Made DEF Op
<1> HIDE DEF x, y
<1>2. /\ Lawful(x) /\ Lawful(y) /\ Before(x, y) /\ IsTest(op) /\ ~IsTest(x)
      /\ \A o \in Obj : ~Needs(x, o) /\ (Needs(y, o) => Needs(op, o))
  BY <1>1 DEF Lawful, Change, Before, IsTest, Needs
<1>3. Fits(op, <<x, y>>)
  <2> DEFINE q == <<x, y>>
  <2>1. q \in Seq(Operation) /\ \A i \in DOMAIN q : i \in {1, 2} /\ q[i] \in {x, y}
    BY <1>1
  <2>2. \A i, j \in DOMAIN q : i < j => q[i] = x /\ q[j] = y
    OBVIOUS
  <2> HIDE DEF q
  <2>3. Ordered(q)
    BY <1>2, <2>2 DEF Ordered
  <2>4. \A i \in DOMAIN q : /\ Lawful(q[i]) /\ op.in \subseteq q[i].in /\ q[i].do \notin Change
                            /\ IsTest(op) /\ op.do \notin {"kill", "leave"}
                            /\ \A o \in Obj : Needs(q[i], o) => Needs(op, o)
    BY <1>1, <1>2, <2>1 DEF Change
  <2>5. Fits(op, q)
    BY <2>1, <2>3, <2>4 DEF Fits
  <2> QED
    BY <2>5 DEF q
<1>4. Fits(op, <<y>>)
  <2> DEFINE q == <<y>>
  <2>1. q \in Seq(Operation) /\ \A i \in DOMAIN q : q[i] = y
    BY <1>1
  <2>2. \A i, j \in DOMAIN q : ~(i < j)
    OBVIOUS
  <2> HIDE DEF q
  <2>3. Ordered(q)
    BY <2>2 DEF Ordered
  <2>4. \A i \in DOMAIN q : /\ Lawful(q[i]) /\ op.in \subseteq q[i].in /\ q[i].do \notin Change
                            /\ IsTest(op) /\ op.do \notin {"kill", "leave"}
                            /\ \A o \in Obj : Needs(q[i], o) => Needs(op, o)
    BY <1>1, <1>2, <2>1 DEF Change
  <2>5. Fits(op, q)
    BY <2>1, <2>3, <2>4 DEF Fits
  <2> QED
    BY <2>5 DEF q
<1> QED
  BY <1>3, <1>4 DEF x, y

LEMMA RenewStep == ASSUME IInv, NEW t \in Thread, Renew(t) PROVE IInv'
<1> DEFINE o == It(t)
           old == test[o]
           orphan == old # None /\ old \notin timers /\ ~Spawning(prog, old)
<1>1. PICK x \in Test \ tests :
        /\ test' = [test EXCEPT ![o] = x]
        /\ tests' = tests \union {x}
        /\ Continue(t, IF orphan THEN <<Op("join", old), Op("spawn", [app |-> o, test |-> x])>>
                       ELSE <<Op("spawn", [app |-> o, test |-> x])>>)
  BY DEF Renew
<1>2. /\ prog[t] # <<>> /\ Head(prog[t]).do = "renew"
      /\ UNCHANGED <<registry, timers, writers, keeper, addresses>>
  BY DEF Renew, Doing
<1>3. /\ 1 \in DOMAIN prog[t] /\ Head(prog[t]) = prog[t][1] /\ Head(prog[t]) \in Operation
      /\ Head(prog[t]).in = {} /\ o = Head(prog[t]).on /\ o \in Obj /\ Held(t) = {}
  BY <1>2, First, Kinds DEF IInv, It, Lawful, Change
<1>4. /\ test \in [Obj -> tests \union {None}] /\ tests \subseteq Test /\ None \notin Test
      /\ timers \union writers \union keeper \subseteq tests
      /\ \A p, q \in Obj : test[p] = test[q] /\ test[p] # None => p = q
  BY LocksAssumption DEF IInv, Tested
<1> DEFINE a == Op("join", old)
           s == [app |-> o, test |-> x]
           b == Op("spawn", s)
           pre == IF orphan THEN <<a, b>> ELSE <<b>>
<1>5. /\ a.do = "join" /\ a.on = old /\ a.in = {}
      /\ b.do = "spawn" /\ b.on.app = o /\ b.on.test = x /\ b.in = {}
  BY DEF Op
<1>6. /\ \A i \in DOMAIN pre : (orphan /\ i = 1 /\ pre[i] = a) \/ pre[i] = b
      /\ \A i, j \in DOMAIN pre : pre[i] = b /\ pre[j] = b /\ a # b => i = j
  <2> HIDE DEF a, b, orphan
  <2>1. CASE orphan
    BY <2>1
  <2>2. CASE ~orphan
    BY <2>2
  <2> QED
    BY <2>1, <2>2
<1>7. Fits(Head(prog[t]), pre)
  <2>1. s \in [app : Obj, test : Test] /\ s.app = o
    BY <1>3
  <2>2. orphan => old \in Test
    BY <1>3, <1>4
  <2> HIDE DEF s, o
  <2>3. Fits(Head(prog[t]), <<b>>)
    BY <1>2, <1>3, <2>1, RenewFits
  <2>4. orphan => Fits(Head(prog[t]), <<a, b>>)
    BY <1>2, <1>3, <2>1, <2>2, RenewFits
  <2> QED
    BY <2>3, <2>4
<1>8. Continue(t, pre)
  BY <1>1
<1> HIDE DEF pre, a, b, s
<1>9. /\ Turn(t, pre) /\ pre \in Seq(Operation) /\ prog \in [Thread -> Seq(Operation)]
      /\ Programs' /\ Excluded' /\ Collected' /\ Registered' /\ Pending'
  BY <1>2, <1>3, <1>5, <1>6, <1>7, <1>8, TestBasics
\* Nobody names the new test, or the old one when nobody has it.
<1>10. ASSUME NEW u \in Thread, NEW i \in DOMAIN prog[u]
       PROVE  ~Names(prog[u][i], x) /\ (orphan => ~Names(prog[u][i], old))
  <2>1. Owned(prog[u][i])
    BY DEF IInv, Tested
  <2>2. ~Names(prog[u][i], x)
    BY <2>1 DEF Owned
  <2>3. orphan => ~(prog[u][i].do \in {"spawn", "leave"} /\ prog[u][i].on.test = old)
    BY DEF Spawning
  <2>4. ~(prog[u][i].do = "join" /\ prog[u][i].on = old)
    BY <1>3, <2>1 DEF Owned
  <2> QED
    BY <2>2, <2>3, <2>4 DEF Names
<1>11. orphan => old \in tests /\ old # x
  BY <1>3, <1>4
<1>12. NamedOnce'
  <2>1. \A i \in DOMAIN pre : \A y \in Test : Names(pre[i], y) =>
            (pre[i] = b /\ y = x) \/ (orphan /\ i = 1 /\ y = old)
    BY <1>5, <1>6 DEF Names
  <2>2. a # b
    BY <1>5
  <2>3. \A i, j \in DOMAIN pre : \A y \in Test : Names(pre[i], y) /\ Names(pre[j], y) => i = j
    BY <1>6, <1>11, <2>1, <2>2
  <2>4. \A i \in DOMAIN pre : \A y \in Test : Names(pre[i], y) =>
            \A u \in Thread : \A j \in DOMAIN prog[u] : ~Names(prog[u][j], y)
    BY <1>10, <2>1
  <2> QED
    BY <1>9, <2>3, <2>4, NamedOnceKept DEF IInv
<1>13. Tested'
  <2>1. test' \in [Obj -> tests' \union {None}] /\ tests' \subseteq Test
    BY <1>1, <1>4
  <2>2. \A p \in Obj : test'[p] = IF p = o THEN x ELSE test[p]
    BY <1>1, <1>4
  <2>3. \A p, q \in Obj : test'[p] = test'[q] /\ test'[p] # None => p = q
    BY <1>4, <2>2
  <2>4. ASSUME NEW u \in Thread, NEW i \in DOMAIN prog'[u], NEW op, op = prog'[u][i] PROVE Owned(op)'
    <3>1. CASE orphan /\ op = a
      BY <1>1, <1>2, <1>3, <1>4, <1>5, <1>11, <2>2, <3>1 DEF Owned, Names
    <3>2. CASE op = b
      BY <1>1, <1>3, <1>4, <1>5, <2>2, <3>2 DEF Owned, Names
    <3>3. CASE \E j \in DOMAIN prog[u] : op = prog[u][j]
      <4>1. Owned(op)
        BY <3>3 DEF IInv, Tested
      <4>2. op \in Operation
        BY <1>9, <2>4, ElementOfSeq, LenProperties DEF Programs
      <4>3. op.do \in {"spawn", "leave", "arm"} => op.on.app \in Obj /\ op.on.test \in Test
        BY <4>2, Kinds
      <4>4. op.do \in {"spawn", "leave"} => op.on.test \in tests
        BY <4>1, <4>3 DEF Owned, Names
      <4>5. op.do = "join" => op.on \in tests
        BY <4>1, <4>2, Kinds DEF Owned, Names
      <4>6. op.do \in {"spawn", "leave", "arm"} => test'[op.on.app] # None
        BY <1>4, <2>2, <4>1, <4>3 DEF Owned
      <4> QED
        BY <1>1, <1>2, <2>2, <4>1, <4>4, <4>5, <4>6 DEF Owned, Names
    <3> QED
      BY <1>6, <1>9, <2>4, <3>1, <3>2, <3>3, Origin
  <2> QED
    BY <1>1, <1>2, <1>4, <2>1, <2>3, <2>4 DEF Tested, Owned, Names
<1>14. ASSUME OneAtATime PROVE OneAtATime'
  <2>0. OneTester
    BY <1>14 DEF OneAtATime
  <2>1. OneTester'
    <3>1. IsTest(Head(prog[t]))
      BY <1>2 DEF IsTest
    <3> QED
      BY <1>2, <1>9, <2>0, <3>1, OneTesterKept DEF IInv
  <2>2. ASSUME NEW u \in Thread, NEW i \in DOMAIN prog[u], u = t => i > 1 PROVE ~IsTest(prog[u][i])
    BY <1>2, <2>0, <2>2, NoLaterTest DEF IInv
  <2>3. writers \subseteq timers
    <3>1. \A u \in Thread : \A i \in DOMAIN prog[u] : prog[u][i].do # "arm"
      BY <1>2, <2>0, NoLaterTest DEF IInv, IsTest
    <3> QED
      BY <1>14, <3>1 DEF OneAtATime, Timed
  <2>4. Timed'
    BY <1>2, <2>3 DEF Timed
  <2>5. ASSUME NEW u \in Thread, NEW i \in DOMAIN prog'[u], NEW op, op = prog'[u][i]
        PROVE  (Same(op) /\ Dead(op))'
    <3>1. CASE orphan /\ op = a
      BY <1>2, <1>5, <2>3, <3>1 DEF Same, Dead
    <3>2. CASE op = b
      BY <1>1, <1>3, <1>4, <1>5, <3>2 DEF Same, Dead
    <3>3. CASE \E j \in DOMAIN prog[u] : op = prog[u][j] /\ (u = t => j > 1)
      <4>1. Dead(op) /\ ~IsTest(op)
        BY <1>14, <2>2, <3>3 DEF OneAtATime
      <4> QED
        BY <1>2, <4>1 DEF Same, Dead, IsTest
    <3> QED
      BY <1>6, <1>9, <2>5, <3>1, <3>2, <3>3, Origin
  <2> QED
    BY <2>1, <2>4, <2>5 DEF OneAtATime, Same, Dead
<1> QED
  BY <1>9, <1>12, <1>13, <1>14 DEF IInv

LEMMA SpawnFits ==
    ASSUME NEW op \in Operation, op.do = "spawn", op.in = {}
    PROVE  /\ Fits(op, <<Op("leave", op.on), Op("arm", op.on)>>)
           /\ Fits(op, <<Op("leave", op.on)>>)
<1> DEFINE x == Op("leave", op.on)
           y == Op("arm", op.on)
<1>0. op.on \in [app : Obj, test : Test]
  BY Kinds
<1>1. /\ x \in Operation /\ x.do = "leave" /\ x.on = op.on /\ x.in = {}
      /\ y \in Operation /\ y.do = "arm" /\ y.on = op.on /\ y.in = {}
  BY <1>0, Made DEF Op
<1> HIDE DEF x, y
<1>2. /\ Lawful(x) /\ Lawful(y) /\ Before(x, y) /\ IsTest(op)
      /\ \A o \in Obj : (Needs(x, o) => Needs(op, o)) /\ (Needs(y, o) => Needs(op, o))
  BY <1>1 DEF Lawful, Change, Before, IsTest, Needs
<1>3. ASSUME NEW q \in Seq(Operation), \A i \in DOMAIN q : q[i] \in {x, y}, Ordered(q)
      PROVE  Fits(op, q)
  <2>1. \A i \in DOMAIN q : /\ Lawful(q[i]) /\ op.in \subseteq q[i].in /\ q[i].do \notin Change
                            /\ IsTest(op) /\ op.do \notin {"kill", "leave"}
                            /\ \A o \in Obj : Needs(q[i], o) => Needs(op, o)
    BY <1>1, <1>2, <1>3 DEF Change
  <2> QED
    BY <1>3, <2>1 DEF Fits
<1>4. Fits(op, <<x, y>>)
  <2> DEFINE q == <<x, y>>
  <2>1. q \in Seq(Operation) /\ \A i \in DOMAIN q : q[i] \in {x, y}
    BY <1>1
  <2>2. \A i, j \in DOMAIN q : i < j => q[i] = x /\ q[j] = y
    OBVIOUS
  <2> HIDE DEF q
  <2>3. Ordered(q)
    BY <1>2, <2>2 DEF Ordered
  <2>4. Fits(op, q)
    BY <1>3, <2>1, <2>3
  <2> QED
    BY <2>4 DEF q
<1>5. Fits(op, <<x>>)
  <2> DEFINE q == <<x>>
  <2>1. q \in Seq(Operation) /\ \A i \in DOMAIN q : q[i] \in {x, y}
    BY <1>1
  <2>2. \A i, j \in DOMAIN q : ~(i < j)
    OBVIOUS
  <2> HIDE DEF q
  <2>3. Ordered(q)
    BY <2>2 DEF Ordered
  <2>4. Fits(op, q)
    BY <1>3, <2>1, <2>3
  <2> QED
    BY <2>4 DEF q
<1> QED
  BY <1>4, <1>5 DEF x, y

\* Whether the fork succeeds or not.
LEMMA SpawnedStep ==
    ASSUME IInv, NEW t \in Thread, prog[t] # <<>>, Head(prog[t]).do = "spawn", NEW pre \in Seq(Operation),
           Fits(Head(prog[t]), pre), Continue(t, pre),
           \A i \in DOMAIN pre : /\ pre[i].do = "arm" \/ (pre[i].do = "leave" /\ i = 1)
                                 /\ pre[i].on = It(t) /\ pre[i].in = {},
           \/ writers' = writers
           \/ writers' = writers \union {It(t).test} /\ \E i \in DOMAIN pre : pre[i].do = "arm",
           UNCHANGED <<registry, test, tests, timers, keeper, addresses>>
    PROVE  IInv'
<1> DEFINE s == It(t)
           x == s.test
<1>1. /\ 1 \in DOMAIN prog[t] /\ Head(prog[t]) = prog[t][1] /\ Head(prog[t]) \in Operation
      /\ s = Head(prog[t]).on /\ s.app \in Obj /\ x \in Test /\ Names(Head(prog[t]), x)
  BY First, Kinds DEF IInv, It, Names
<1>2. /\ Turn(t, pre) /\ prog \in [Thread -> Seq(Operation)]
      /\ Programs' /\ Excluded' /\ Collected' /\ Registered' /\ Pending'
  <2>1. \A i \in DOMAIN pre : pre[i].do \in {"join", "spawn", "leave", "arm"} /\ pre[i].in \subseteq Held(t)
    OBVIOUS
  <2>2. UNCHANGED <<registry, addresses>>
    OBVIOUS
  <2> QED
    BY <2>1, <2>2, TestBasics
<1>3. /\ x \in tests
      /\ \A u \in Thread : \A j \in DOMAIN prog[u] : Names(prog[u][j], x) => u = t /\ j = 1
  BY <1>1, NamedHere
<1>4. Owned(Head(prog[t]))
  BY <1>1 DEF IInv, Tested
<1>5. \A i \in DOMAIN pre : \A y \in Test : Names(pre[i], y) => i = 1 /\ y = x
  BY DEF Names
<1>6. NamedOnce'
  BY <1>2, <1>3, <1>5, NamedOnceKept DEF IInv
<1>7. Tested'
  <2>1. \A i \in DOMAIN pre : Owned(pre[i])'
    BY <1>1, <1>3, <1>4 DEF Owned, Names
  <2>2. writers' \union keeper' \subseteq tests
    BY <1>3 DEF IInv, Tested
  <2> QED
    BY <1>2, <2>1, <2>2, StillTested DEF IInv
<1>8. ASSUME OneAtATime PROVE OneAtATime'
  <2>1. OneTester' /\ OneTester
    <3>1. IsTest(Head(prog[t]))
      BY DEF IsTest
    <3> QED
      BY <1>2, <1>8, <3>1, OneTesterKept DEF IInv, OneAtATime
  <2>2. test[s.app] = x
    BY <1>1, <1>8 DEF OneAtATime, Same
  <2>3. writers \subseteq timers
    <3>1. \A u \in Thread : \A i \in DOMAIN prog[u] : prog[u][i].do # "arm"
      BY <1>1, <2>1, NoLaterTest DEF IInv, IsTest
    <3> QED
      BY <1>8, <3>1 DEF OneAtATime, Timed
  <2>4. ASSUME NEW y \in writers', y \notin timers
        PROVE  \E i \in DOMAIN prog'[t] : prog'[t][i].do = "arm" /\ test[prog'[t][i].on.app] = y
    <3>1. y = x /\ \E i \in DOMAIN pre : pre[i].do = "arm"
      BY <2>3, <2>4
    <3>2. PICK i \in DOMAIN pre : pre[i].do = "arm" /\ pre[i].on = s
      BY <3>1
    <3>3. \A j \in DOMAIN pre : \E i_1 \in DOMAIN prog'[t] : prog'[t][i_1] = pre[j]
      BY <1>2, Origin
    <3> QED
      BY <2>2, <3>1, <3>2, <3>3
  <2>5. Timed'
    BY <2>4 DEF Timed
  <2>6. ASSUME NEW u \in Thread, NEW i \in DOMAIN prog'[u], NEW op, op = prog'[u][i]
        PROVE  (Same(op) /\ Dead(op))'
    <3>1. CASE \E j \in DOMAIN pre : op = pre[j]
      BY <2>2, <3>1 DEF Same, Dead
    <3>2. CASE \E j \in DOMAIN prog[u] : op = prog[u][j] /\ (u = t => j > 1)
      <4>1. Same(op) /\ Dead(op) /\ ~Names(op, x)
        BY <1>3, <1>8, <3>2 DEF OneAtATime
      <4>2. writers' \subseteq writers \union {x}
        OBVIOUS
      <4> QED
        BY <4>1, <4>2 DEF Same, Dead, Names
    <3> QED
      BY <1>2, <2>6, <3>1, <3>2, Origin
  <2> QED
    BY <2>1, <2>5, <2>6 DEF OneAtATime, Same, Dead
<1> QED
  BY <1>2, <1>6, <1>7, <1>8 DEF IInv

LEMMA SpawnStep == ASSUME IInv, NEW t \in Thread, Spawn(t) PROVE IInv'
<1> DEFINE s == It(t)
           x == Op("leave", s)
           y == Op("arm", s)
<1>1. /\ prog[t] # <<>> /\ Head(prog[t]).do = "spawn"
      /\ \/ writers' = writers \union {s.test} /\ Continue(t, <<x, y>>)
         \/ writers' = writers /\ Continue(t, <<x>>)
      /\ UNCHANGED <<registry, test, tests, timers, keeper, addresses>>
  BY DEF Spawn, Doing
<1>2. Head(prog[t]) \in Operation /\ Head(prog[t]).in = {} /\ s = Head(prog[t]).on
  BY <1>1, First DEF IInv, It, Lawful, Change
<1>3. x.do = "leave" /\ x.on = s /\ x.in = {} /\ y.do = "arm" /\ y.on = s /\ y.in = {}
  BY DEF Op
<1>4. Fits(Head(prog[t]), <<x, y>>) /\ Fits(Head(prog[t]), <<x>>)
  BY <1>1, <1>2, SpawnFits
<1> HIDE DEF x, y, s
<1>5. CASE writers' = writers \union {s.test} /\ Continue(t, <<x, y>>)
  <2> DEFINE pre == <<x, y>>
  <2>1. /\ \A i \in DOMAIN pre : (i = 1 /\ pre[i] = x) \/ pre[i] = y
        /\ \E i \in DOMAIN pre : pre[i] = y
    OBVIOUS
  <2>2. Fits(Head(prog[t]), pre) /\ Continue(t, pre) /\ pre \in Seq(Operation)
    BY <1>4, <1>5 DEF Fits
  <2> HIDE DEF pre
  <2> QED
    BY <1>1, <1>3, <1>5, <2>1, <2>2, SpawnedStep DEF s
<1>6. CASE writers' = writers /\ Continue(t, <<x>>)
  <2> DEFINE pre == <<x>>
  <2>1. \A i \in DOMAIN pre : i = 1 /\ pre[i] = x
    OBVIOUS
  <2>2. Fits(Head(prog[t]), pre) /\ Continue(t, pre) /\ pre \in Seq(Operation)
    BY <1>4, <1>6 DEF Fits
  <2> HIDE DEF pre
  <2> QED
    BY <1>1, <1>3, <1>6, <2>1, <2>2, SpawnedStep DEF s
<1> QED
  BY <1>1, <1>5, <1>6

LEMMA LeaveStep == ASSUME IInv, NEW t \in Thread, Leave(t) PROVE IInv'
<1> DEFINE x == It(t).test
           o == It(t).app
           lost == test[o] # x /\ x \notin timers
           a == Op("join", x)
           pre == IF lost THEN <<a>> ELSE <<>>
<1>1. /\ prog[t] # <<>> /\ Head(prog[t]).do = "leave" /\ Continue(t, pre)
      /\ UNCHANGED <<registry, testing, addresses>>
  BY DEF Leave, Doing
<1>2. /\ 1 \in DOMAIN prog[t] /\ Head(prog[t]) = prog[t][1] /\ Head(prog[t]) \in Operation
      /\ Head(prog[t]).in = {} /\ It(t) = Head(prog[t]).on /\ o \in Obj /\ x \in Test
  BY <1>1, First, Kinds DEF IInv, It, Lawful, Change
<1>3. Names(Head(prog[t]), x)
  BY <1>1, <1>2 DEF Names
<1>4. /\ x \in tests
      /\ \A u \in Thread : \A j \in DOMAIN prog[u] : Names(prog[u][j], x) => u = t /\ j = 1
  BY <1>1, <1>2, <1>3, NamedHere
<1>5. Owned(Head(prog[t]))
  BY <1>2 DEF IInv, Tested
<1>6. a \in Operation /\ a.do = "join" /\ a.on = x /\ a.in = {}
  BY <1>2, Made DEF Op
<1>7. Fits(Head(prog[t]), pre)
  <2>1. Lawful(a)
    BY <1>6 DEF Lawful, Change
  <2> HIDE DEF a
  <2>2. Fits(Head(prog[t]), <<a>>)
    BY <1>2, <1>6, <2>1, OneFits
  <2> QED
    BY <2>2, NothingFits
<1>8. \A i \in DOMAIN pre : lost /\ i = 1 /\ pre[i] = a
  OBVIOUS
<1> HIDE DEF pre, a
<1>9. /\ Turn(t, pre) /\ pre \in Seq(Operation) /\ prog \in [Thread -> Seq(Operation)]
      /\ Programs' /\ Excluded' /\ Collected' /\ Registered' /\ Pending'
  BY <1>1, <1>6, <1>7, <1>8, TestBasics
<1>10. NamedOnce'
  <2>1. \A i \in DOMAIN pre : \A y \in Test : Names(pre[i], y) => i = 1 /\ y = x
    BY <1>6, <1>8 DEF Names
  <2> QED
    BY <1>4, <1>9, <2>1, NamedOnceKept DEF IInv
<1>11. Tested'
  <2>1. lost => \A p \in Obj : test[p] # x
    BY <1>1, <1>2, <1>5 DEF Owned
  <2>2. \A i \in DOMAIN pre : Owned(pre[i])
    BY <1>4, <1>6, <1>8, <2>1 DEF Owned, Names
  <2> QED
    BY <1>1, <1>9, <2>2, TestedKept DEF IInv
<1>12. ASSUME OneAtATime PROVE OneAtATime'
  <2>1. ~lost
    BY <1>1, <1>2, <1>12 DEF OneAtATime, Same
  <2> QED
    BY <1>1, <1>8, <1>9, <1>12, <2>1, OneAtATimeKept DEF IInv
<1> QED
  BY <1>9, <1>10, <1>11, <1>12 DEF IInv

LEMMA ArmStep == ASSUME IInv, NEW t \in Thread, Arm(t) PROVE IInv'
<1> DEFINE o == It(t).app
           pre == <<>>
<1>1. /\ prog[t] # <<>> /\ Head(prog[t]).do = "arm" /\ timers' = timers \union {test[o]} /\ Continue(t, pre)
      /\ UNCHANGED <<registry, test, tests, writers, keeper, addresses>>
  BY DEF Arm, Doing
<1>2. /\ 1 \in DOMAIN prog[t] /\ Head(prog[t]) = prog[t][1] /\ Head(prog[t]) \in Operation
      /\ o = Head(prog[t]).on.app /\ o \in Obj
  BY <1>1, First, Kinds DEF IInv, It
<1>3. test[o] # None /\ test[o] \in tests
  BY <1>1, <1>2 DEF IInv, Tested, Owned
<1>4. Fits(Head(prog[t]), pre) /\ pre \in Seq(Operation) /\ \A i \in DOMAIN pre : FALSE
  BY NothingFits
<1> HIDE DEF pre, o
<1>5. /\ Turn(t, pre) /\ prog \in [Thread -> Seq(Operation)]
      /\ Programs' /\ Excluded' /\ Collected' /\ Registered' /\ Pending'
  BY <1>1, <1>4, TestBasics
<1>6. NamedOnce'
  BY <1>4, <1>5, NamedOnceKept DEF IInv
<1>7. ASSUME NEW u \in Thread, NEW i \in DOMAIN prog'[u]
      PROVE  \E j \in DOMAIN prog[u] : prog'[u][i] = prog[u][j]
  <2>1. \/ \E j \in DOMAIN prog[u] : prog'[u][i] = prog[u][j] /\ (u = t => j > 1)
        \/ u = t /\ \E j \in DOMAIN pre : prog'[u][i] = pre[j]
    BY <1>4, <1>5, Origin
  <2> QED
    BY <1>4, <2>1
<1>8. Tested'
  <2>1. ASSUME NEW u \in Thread, NEW i \in DOMAIN prog'[u], NEW op, op = prog'[u][i] PROVE Owned(op)'
    <3>1. Owned(op)
      BY <1>7, <2>1 DEF IInv, Tested
    <3> QED
      BY <1>1, <1>2, <3>1 DEF Owned, Names
  <2> QED
    BY <1>1, <1>3, <2>1 DEF IInv, Tested, Owned, Names
<1>9. ASSUME OneAtATime PROVE OneAtATime'
  <2>1. OneTester /\ OneTester'
    BY <1>4, <1>5, <1>9, OneTesterKept DEF IInv, OneAtATime
  <2>2. \A u \in Thread : \A j \in DOMAIN prog[u] : prog[u][j].do = "arm" => u = t /\ j = 1
    BY <1>1, <2>1, NoLaterTest DEF IInv, IsTest
  <2>3. writers \subseteq timers'
    BY <1>1, <1>2, <1>9, <2>2 DEF OneAtATime, Timed
  <2>4. Timed'
    BY <1>1, <2>3 DEF Timed
  <2>5. ASSUME NEW u \in Thread, NEW i \in DOMAIN prog'[u], NEW op, op = prog'[u][i]
        PROVE  (Same(op) /\ Dead(op))'
    <3>1. Same(op) /\ Dead(op)
      BY <1>7, <1>9, <2>5 DEF OneAtATime
    <3> QED
      BY <1>1, <3>1 DEF Same, Dead
  <2> QED
    BY <2>1, <2>4, <2>5 DEF OneAtATime, Same, Dead
<1> QED
  BY <1>5, <1>6, <1>8, <1>9 DEF IInv

-----------------------------------------------------------------------------
(* Steps that begin a program.                                              *)

LEMMA ShortSound ==
    ASSUME NEW b \in Seq(Operation), \A i \in DOMAIN b : Bare(b[i]),
           \A i, j \in DOMAIN b : i < j => ~(IsTest(b[i]) /\ IsTest(b[j])),
           \A i \in DOMAIN b, o \in Obj : Needs(b[i], o) => \E j \in DOMAIN b : i < j /\ Drops(b[j], o)
    PROVE  Sound(b)
<1>1. Ordered(b)
  BY DEF Ordered, Before, Bare
<1> QED
  BY <1>1 DEF Sound, Follows, Bare

\* A thread that has nothing to do begins a program of operations that concern no test yet.
LEMMA BeginStep ==
    ASSUME IInv, NEW t \in Thread, NEW p, Begin(t, p), Sound(p), \A i \in DOMAIN p : Bare(p[i]),
           \A i \in DOMAIN p : IsTest(p[i]) => MayTest, UNCHANGED name
    PROVE  IInv'
<1>1. /\ prog[t] = <<>> /\ prog' = [prog EXCEPT ![t] = p] /\ prog \in [Thread -> Seq(Operation)]
      /\ UNCHANGED registry /\ UNCHANGED testing /\ UNCHANGED addresses /\ p \in Seq(Operation)
  BY DEF Begin, registry, Sound, IInv, Programs
<1>2. Turn(t, p)
  BY <1>1, Turns
<1>3. Programs'
  BY <1>1, ProgramsBegun DEF IInv
<1>4. \A i \in DOMAIN p : /\ CanChange(p[i]) /\ Owned(p[i]) /\ Same(p[i]) /\ Dead(p[i])
                          /\ \A x \in Test : ~Names(p[i], x)
                          /\ \A o \in Obj : Drops(p[i], o) => name[o] # None
  BY DEF Bare, Quiet, Owned, Same, Dead, Names
<1>5. Excluded'
  <2>1. p # <<>> => 1 \in DOMAIN p
    BY <1>1, LenProperties, EmptySeq
  <2>2. p # <<>> => p[1].in = {}
    BY <2>1 DEF Bare
  <2> QED
    BY <1>1, <1>2, <2>2, ExcludedKept DEF IInv
<1>6. Registered'
  BY <1>1, <1>2, <1>4, RegisteredKept DEF IInv
<1>7. Pending'
  BY <1>1, <1>2, <1>4, PendingKept DEF IInv
<1>8. NamedOnce'
  BY <1>1, <1>2, <1>4, NamedOnceKept DEF IInv
<1>9. Tested'
  BY <1>1, <1>2, <1>4, TestedKept DEF IInv
<1>10. Collected'
  BY <1>1, <1>2, CollectedKept DEF IInv, Doing
<1>11. ~Together => OneAtATime'
  <2> SUFFICES ASSUME ~Together PROVE OneAtATime'
    OBVIOUS
  <2>1. \A u \in Thread : \A j \in DOMAIN prog[u] : IsTest(prog[u][j]) => InTest(u)
    BY DEF IsTest, InTest
  <2>2. MayTest => \A u \in Thread : ~InTest(u)
    BY DEF MayTest
  <2> QED
    BY <1>1, <1>2, <1>4, <2>1, <2>2, OneAtATimeKept DEF IInv
<1> QED
  BY <1>3, <1>5, <1>6, <1>7, <1>8, <1>9, <1>10, <1>11 DEF IInv

\* A program of a single operation.
LEMMA BeginOne ==
    ASSUME IInv, NEW t \in Thread, NEW x, Begin(t, <<x>>), Bare(x), \A o \in Obj : ~Needs(x, o),
           IsTest(x) => MayTest, UNCHANGED name
    PROVE  IInv'
<1> DEFINE p == <<x>>
<1>1. p \in Seq(Operation) /\ \A i \in DOMAIN p : p[i] = x
  BY DEF Bare
<1>2. \A i, j \in DOMAIN p : ~(i < j)
  OBVIOUS
<1>3. Begin(t, p)
  OBVIOUS
<1> HIDE DEF p
<1>4. Sound(p)
  BY <1>1, <1>2, ShortSound
<1> QED
  BY <1>1, <1>3, <1>4, BeginStep

\* Operations that need no reference.
LEMMA NeedsNone ==
    /\ \A o \in Obj : ~Needs(ReadConfig, o)
    /\ \A r, n, s : \A o \in Obj : ~Needs(FindFor(r, n, s), o)
    /\ \A d \in {"remove", "copy", "clear", "report"} : \A y : \A o \in Obj : ~Needs(Op(d, y), o)
  BY DEF Needs, ReadConfig, FindFor, Op

LEMMA GetStep == ASSUME IInv, NEW t \in Thread, Get(t) PROVE IInv'
<1>0. UNCHANGED name
  BY DEF Get
<1>1. ReadConfig \in Operation /\ Op("clear", None) \in Operation /\ Op("report", None) \in Operation
  BY Made DEF ReadConfig, Op
<1>2. /\ Bare(ReadConfig) /\ Bare(Op("clear", None)) /\ Bare(Op("report", None))
      /\ ~IsTest(ReadConfig) /\ ~IsTest(Op("clear", None)) /\ ~IsTest(Op("report", None))
  <2>1. /\ ReadConfig.do = "json" /\ ReadConfig.in = {}
        /\ \A d : Op(d, None).do = d /\ Op(d, None).in = {}
    BY DEF ReadConfig, Op
  <2> QED
    BY <1>1, <2>1 DEF Bare, Lawful, Change, Quiet, CanChange, Drops, IsTest
<1>3. CASE Begin(t, <<ReadConfig>>)
  BY <1>0, <1>2, <1>3, NeedsNone, BeginOne
<1>4. CASE Begin(t, <<Op("clear", None), Op("report", None)>>)
  <2> DEFINE a == Op("clear", None)
             b == Op("report", None)
             p == <<a, b>>
  <2>1. Begin(t, p) /\ Bare(a) /\ Bare(b) /\ ~IsTest(a) /\ ~IsTest(b) /\ \A o \in Obj : ~Needs(a, o) /\ ~Needs(b, o)
    BY <1>2, <1>4, NeedsNone
  <2> HIDE DEF a, b
  <2>2. p \in Seq(Operation) /\ \A i \in DOMAIN p : p[i] \in {a, b}
    BY <2>1 DEF Bare
  <2> HIDE DEF p
  <2>3. Sound(p)
    BY <2>1, <2>2, ShortSound
  <2> QED
    BY <1>0, <2>1, <2>2, <2>3, BeginStep
<1>5. ASSUME NEW n \in Name, NEW r \in {"get", "output", "test"}, r = "test" => MayTest,
             Begin(t, <<FindFor(r, n, None)>>)
      PROVE  IInv'
  <2> DEFINE x == FindFor(r, n, None)
  <2>1. x \in Operation
    BY Made DEF FindFor, Op
  <2>2. x.do = "find" /\ x.in = {} /\ x.on.for = r
    BY DEF FindFor, Op
  <2>3. Begin(t, <<x>>) /\ \A o \in Obj : ~Needs(x, o)
    BY <1>5, NeedsNone
  <2> HIDE DEF x
  <2>4. Bare(x) /\ (IsTest(x) => MayTest)
    BY <1>5, <2>1, <2>2 DEF Bare, Lawful, Change, Quiet, CanChange, Drops, IsTest
  <2> QED
    BY <1>0, <2>3, <2>4, BeginOne
<1> QED
  BY <1>3, <1>4, <1>5 DEF Get

LEMMA PostStep == ASSUME IInv, NEW t \in Thread, Post(t) PROVE IInv'
<1>1. PICK n \in Name, r \in {"start", "stop"} : Begin(t, <<FindFor(r, n, None)>>)
  BY DEF Post
<1> DEFINE x == FindFor(r, n, None)
<1>2. x \in Operation
  BY Made DEF FindFor, Op
<1>3. x.do = "find" /\ x.in = {} /\ x.on.for # "test"
  BY DEF FindFor, Op
<1>4. Begin(t, <<x>>) /\ UNCHANGED name /\ \A o \in Obj : ~Needs(x, o)
  BY <1>1, NeedsNone DEF Post
<1> HIDE DEF x
<1>5. Bare(x) /\ ~IsTest(x)
  BY <1>2, <1>3 DEF Bare, Lawful, Change, Quiet, CanChange, Drops, IsTest
<1> QED
  BY <1>4, <1>5, BeginOne

LEMMA DeleteStep == ASSUME IInv, NEW t \in Thread, Delete(t) PROVE IInv'
<1>1. PICK n \in Name : Begin(t, <<Op("remove", n)>>)
  BY DEF Delete
<1> DEFINE x == Op("remove", n)
<1>2. x \in Operation /\ x.do = "remove" /\ x.in = {}
  BY Made DEF Op
<1>3. Begin(t, <<x>>) /\ UNCHANGED name /\ \A o \in Obj : ~Needs(x, o)
  BY <1>1, NeedsNone DEF Delete
<1> HIDE DEF x
<1>4. Bare(x) /\ ~IsTest(x)
  BY <1>2 DEF Bare, Lawful, Change, Quiet, CanChange, Drops, IsTest
<1> QED
  BY <1>3, <1>4, BeginOne

LEMMA MonitorStep == ASSUME IInv, Monitor PROVE IInv'
<1> DEFINE x == Op("copy", None)
<1>1. x \in Operation /\ x.do = "copy" /\ x.in = {}
  BY Made DEF Op
<1>2. Begin(Main, <<x>>) /\ UNCHANGED name /\ Main \in Thread /\ \A o \in Obj : ~Needs(x, o)
  BY NeedsNone DEF Monitor, Thread
<1> HIDE DEF x
<1>3. Bare(x) /\ ~IsTest(x)
  BY <1>1 DEF Bare, Lawful, Change, Quiet, CanChange, Drops, IsTest
<1> QED
  BY <1>2, <1>3, BeginOne

LEMMA TimeOutStep == ASSUME IInv, NEW o \in Obj, TimeOut(o) PROVE IInv'
<1> DEFINE a == Call(o)
           b == Op("drop", o)
           p == <<a, b>>
<1>1. Begin(Main, p) /\ UNCHANGED name /\ Main \in Thread /\ name[o] # None
  BY DEF TimeOut, Thread
<1>2. /\ Bare(a) /\ Bare(b) /\ ~IsTest(a) /\ ~IsTest(b) /\ \A q \in Obj : ~Needs(a, q) /\ ~Needs(b, q)
  BY <1>1, BareOps
<1> HIDE DEF a, b
<1>3. p \in Seq(Operation) /\ \A i \in DOMAIN p : p[i] \in {a, b}
  BY <1>2 DEF Bare
<1> HIDE DEF p
<1>4. Sound(p)
  BY <1>2, <1>3, ShortSound
<1> QED
  BY <1>1, <1>2, <1>3, <1>4, BeginStep

\* The new object is in nobody's list or program yet.
LEMMA PutStep == ASSUME IInv, NEW t \in Thread, Put(t) PROVE IInv'
<1>1. PICK n \in Name, o \in {p \in Obj : name[p] = None} :
        /\ Begin(t, <<Call(o), Op("add", o), Call(o), Op("drop", o)>>)
        /\ name' = [name EXCEPT ![o] = n]
  BY DEF Put
<1> DEFINE a == Call(o)
           b == Op("add", o)
           c == Op("drop", o)
           p == <<a, b, a, c>>
<1>2. /\ prog[t] = <<>> /\ prog' = [prog EXCEPT ![t] = p] /\ prog \in [Thread -> Seq(Operation)]
      /\ UNCHANGED <<list, testing, addresses>> /\ o \in Obj /\ name[o] = None /\ n # None
      /\ name \in [Obj -> Name \union {None}] /\ list \in Seq(Obj)
  BY <1>1, LocksAssumption DEF Begin, IInv, Programs, Registered
<1>3. /\ a \in Operation /\ a.do = "call" /\ a.in = {} /\ a.on = o
      /\ b \in Operation /\ b.do = "add" /\ b.in = {} /\ b.on = o
      /\ c \in Operation /\ c.do = "drop" /\ c.in = {} /\ c.on = o
  BY <1>2, Made DEF Call, Op
<1> HIDE DEF a, b, c
<1>4. /\ p \in Seq(Operation) /\ DOMAIN p = 1..4 /\ p[1] = a /\ p[2] = b /\ p[3] = a /\ p[4] = c
      /\ \A i \in DOMAIN p : p[i] \in {a, b, c}
  BY <1>3
<1> HIDE DEF p
<1>5. Sound(p)
  <2>1. \A i \in DOMAIN p : p[i].in = {} /\ Lawful(p[i]) /\ p[i].do \notin Change /\ ~IsTest(p[i])
    BY <1>3, <1>4 DEF Lawful, Change, IsTest
  <2>2. Ordered(p)
    BY <2>1 DEF Ordered, Before
  <2>3. Follows(p)
    <3> SUFFICES ASSUME NEW i \in DOMAIN p, NEW q \in Obj, Needs(p[i], q)
                 PROVE  i < 4 /\ Drops(p[4], q)
      BY <1>4 DEF Follows
    <3>1. p[i] = b /\ q = o
      BY <1>3, <1>4 DEF Needs
    <3>2. Drops(p[4], q)
      BY <1>3, <1>4, <3>1 DEF Drops
    <3>3. i # 4
      BY <1>3, <1>4, <3>1
    <3> QED
      BY <1>4, <3>2, <3>3
  <2> QED
    BY <1>4, <2>1, <2>2, <2>3 DEF Sound
<1>6. Turn(t, p)
  BY <1>2, <1>4, Turns
<1>7. Programs'
  BY <1>2, <1>5, ProgramsBegun DEF IInv
<1>8. Excluded'
  <2>1. p[1].in = {}
    BY <1>3, <1>4
  <2> QED
    BY <1>4, <1>6, <2>1, ExcludedKept DEF IInv
<1>9. \A i \in DOMAIN p : /\ p[i].do \notin Change /\ Owned(p[i]) /\ Same(p[i]) /\ Dead(p[i])
                          /\ ~IsTest(p[i]) /\ \A x \in Test : ~Names(p[i], x)
  BY <1>3, <1>4 DEF Change, Owned, Same, Dead, Names, IsTest
<1>10. UNCHANGED testing /\ UNCHANGED addresses
  BY <1>2
<1>11. \A q \in Obj : name'[q] = IF q = o THEN n ELSE name[q]
  BY <1>1, <1>2
<1>12. ~InList(list, o) /\ ~Holds(prog, o)
  BY <1>2 DEF IInv, Registered
<1>13. \A i \in DOMAIN list : list[i] \in Obj /\ list[i] # o /\ name'[list[i]] = name[list[i]]
  <2>1. \A i \in DOMAIN list : list[i] \in Obj /\ list[i] # o
    BY <1>2, <1>12, LenProperties, ElementOfSeq DEF InList
  <2> QED
    BY <1>11, <2>1
<1>14. Registered'
  <2>1. ASSUME NEW q \in Obj PROVE name'[q] # None <=> InList(list', q) \/ Holds(prog', q)
    <3>1. Holds(prog', q) <=> Holds(prog, q) \/ q = o
      <4>1. Holds(prog', q) => Holds(prog, q) \/ \E i \in DOMAIN p : Drops(p[i], q)
        BY <1>4, <1>6, HoldsTurned DEF IInv
      <4>2. (\E i \in DOMAIN p : Drops(p[i], q)) => Holds(prog', q)
        BY <1>4, <1>6, HoldsTurned DEF IInv
      <4>3. Holds(prog, q) => Holds(prog', q)
        BY <1>2, <1>4, <1>6, HoldsTurned DEF IInv
      <4>4. (\E i \in DOMAIN p : Drops(p[i], q)) <=> q = o
        <5>1. \A i \in DOMAIN p : Drops(p[i], q) => q = o
          BY <1>3, <1>4 DEF Drops
        <5>2. 4 \in DOMAIN p /\ (q = o => Drops(p[4], q))
          BY <1>3, <1>4 DEF Drops
        <5> QED
          BY <5>1, <5>2
      <4> QED
        BY <4>1, <4>2, <4>3, <4>4
    <3>2. name[q] # None <=> InList(list, q) \/ Holds(prog, q)
      BY DEF IInv, Registered
    <3>3. list' = list
      BY <1>2
    <3> QED
      BY <1>2, <1>11, <3>1, <3>2, <3>3
  <2>2. name' \in [Obj -> Name \union {None}]
    BY <1>1, <1>2
  <2>3. \A i, j \in DOMAIN list' : name'[list'[i]] = name'[list'[j]] => i = j
    <3>1. list' = list
      BY <1>2
    <3> QED
      BY <1>13, <3>1 DEF IInv, Registered
  <2> QED
    BY <1>2, <2>1, <2>2, <2>3 DEF Registered
<1>15. Pending'
  <2>1. ASSUME NEW u \in Thread, NEW i \in DOMAIN prog'[u], NEW op, op = prog'[u][i] PROVE CanChange(op)'
    <3>1. CASE \E j \in DOMAIN p : op = p[j]
      BY <1>9, <3>1 DEF CanChange, Change
    <3>2. CASE \E j \in DOMAIN prog[u] : op = prog[u][j]
      <4>1. PICK j \in DOMAIN prog[u] : op = prog[u][j]
        BY <3>2
      <4>2. CanChange(op)
        BY <4>1 DEF IInv, Pending
      <4>3. op \in Operation
        BY <1>2, <4>1, ElementOfSeq, LenProperties
      <4>4. \A q \in Obj : Needs(op, q) => name'[q] = name[q]
        BY <1>2, <1>11, <1>12, <4>1, Needed
      <4>5. op.do = "append" => name'[op.on] = name[op.on]
        BY <4>3, <4>4, Kinds DEF Needs
      <4>6. op.do = "replace" => name'[op.on.by] = name[op.on.by]
        BY <4>3, <4>4, Kinds DEF Needs
      <4>7. list' = list
        BY <1>2
      <4> QED
        BY <1>13, <4>2, <4>5, <4>6, <4>7 DEF CanChange
    <3> QED
      BY <1>2, <1>4, <1>6, <2>1, <3>1, <3>2, Origin
  <2> QED
    BY <2>1 DEF Pending, CanChange
<1>16. NamedOnce'
  BY <1>4, <1>6, <1>9, NamedOnceKept DEF IInv
<1>17. Tested'
  BY <1>4, <1>6, <1>9, <1>10, TestedKept DEF IInv
<1>18. Collected'
  BY <1>2, <1>4, <1>6, <1>10, CollectedKept DEF IInv, Doing
<1>19. OneAtATime => OneAtATime'
  BY <1>2, <1>4, <1>6, <1>9, <1>10, OneAtATimeKept DEF IInv
<1> QED
  BY <1>7, <1>8, <1>14, <1>15, <1>16, <1>17, <1>18, <1>19 DEF IInv

-----------------------------------------------------------------------------
(* The timer of a test, and the test programs.                              *)

LEMMA KillTimeOutStep == ASSUME IInv, NEW x \in Test, KillTimeOut(x) PROVE IInv'
<1> DEFINE kept == Spawning(prog, x) \/ \E o \in Obj : test[o] = x
           a == Op("join", x)
<1>0. PICK pre : pre = IF kept THEN <<>> ELSE <<a>>
  OBVIOUS
<1>1. /\ prog[Main] = <<>> /\ prog' = [prog EXCEPT ![Main] = pre] /\ x \in timers
      /\ timers' = timers \ {x} /\ writers' = writers \ {x}
      /\ UNCHANGED registry /\ UNCHANGED <<test, tests, keeper, addresses>>
  BY <1>0 DEF KillTimeOut
<1>2. a \in Operation /\ a.do = "join" /\ a.on = x /\ a.in = {}
  BY Made DEF Op
<1>3. Main \in Thread /\ prog \in [Thread -> Seq(Operation)]
  BY DEF Thread, IInv, Programs
<1>4. \A i \in DOMAIN pre : ~kept /\ i = 1 /\ pre[i] = a
  BY <1>0
<1>5. Sound(pre)
  <2>1. Lawful(a) /\ \A o \in Obj : ~Needs(a, o)
    BY <1>2 DEF Lawful, Change, Needs
  <2>2. pre \in Seq(Operation)
    BY <1>0, <1>2
  <2>3. Ordered(pre) /\ Follows(pre)
    <3>1. \A i, j \in DOMAIN pre : ~(i < j)
      BY <1>4
    <3> QED
      BY <1>4, <2>1, <3>1 DEF Ordered, Follows
  <2> QED
    BY <1>4, <2>1, <2>2, <2>3 DEF Sound
<1>6. Programs'
  BY <1>1, <1>3, <1>5, ProgramsBegun DEF IInv
<1> HIDE DEF a
<1>7. pre \in Seq(Operation) /\ Turn(Main, pre)
  BY <1>1, <1>3, <1>5, Turns DEF Sound
<1>8. Excluded'
  <2>1. pre # <<>> => pre[1].in = {}
    BY <1>2, <1>4, <1>7, LenProperties, EmptySeq
  <2> QED
    BY <1>3, <1>7, <2>1, ExcludedKept DEF IInv
<1>9. Registered' /\ Pending'
  <2>1. \A i \in DOMAIN pre : CanChange(pre[i]) /\ \A o \in Obj : ~Drops(pre[i], o)
    BY <1>2, <1>4 DEF CanChange, Drops
  <2>2. Registered'
    BY <1>1, <1>3, <1>7, <2>1, RegisteredKept DEF IInv
  <2>3. Pending'
    BY <1>1, <1>3, <1>7, <2>1, PendingKept DEF IInv
  <2> QED
    BY <2>2, <2>3
\* Who still has a timer is not being joined.
<1>10. ~kept => \A u \in Thread : \A i \in DOMAIN prog[u] : ~Names(prog[u][i], x)
  <2> SUFFICES ASSUME ~kept, NEW u \in Thread, NEW i \in DOMAIN prog[u] PROVE ~Names(prog[u][i], x)
    OBVIOUS
  <2>1. Owned(prog[u][i])
    BY DEF IInv, Tested
  <2> QED
    BY <1>1, <2>1 DEF Owned, Names, Spawning
<1>11. NamedOnce'
  <2>1. \A i \in DOMAIN pre : \A y \in Test : Names(pre[i], y) => ~kept /\ i = 1 /\ y = x
    BY <1>2, <1>4 DEF Names
  <2>2. \A i \in DOMAIN pre : \A y \in Test : Names(pre[i], y) =>
            \A u \in Thread : \A j \in DOMAIN prog[u] : ~Names(prog[u][j], y)
    BY <1>10, <2>1
  <2> QED
    BY <1>3, <1>7, <2>1, <2>2, NamedOnceKept DEF IInv
<1>12. Tested'
  <2>1. x \in tests /\ writers' \union keeper' \subseteq tests
    BY <1>1 DEF IInv, Tested
  <2>2. \A i \in DOMAIN pre : Owned(pre[i])'
    BY <1>1, <1>2, <1>4, <2>1 DEF Owned, Names
  <2> QED
    BY <1>1, <1>3, <1>7, <2>1, <2>2, StillTested DEF IInv
<1>13. Collected'
  BY <1>1, <1>3, <1>7, CollectedKept DEF IInv, Doing
<1>14. OneAtATime => OneAtATime'
  <2>1. \A i \in DOMAIN pre : Same(pre[i])' /\ Dead(pre[i])' /\ ~IsTest(pre[i])
    BY <1>1, <1>2, <1>4 DEF Same, Dead, IsTest
  <2>2. writers' \subseteq writers /\ writers' \intersect timers \subseteq timers'
    BY <1>1
  <2> QED
    BY <1>1, <1>3, <1>7, <2>1, <2>2, StillOneAtATime DEF IInv
<1> QED
  BY <1>6, <1>8, <1>9, <1>11, <1>12, <1>13, <1>14 DEF IInv

\* A program's own steps: the pipe passes from the group to a descendant or is closed.
LEMMA OutsideStep ==
    ASSUME IInv, NEW x \in Test, Detach(x) \/ Exit(x)
    PROVE  IInv'
<1>1. /\ UNCHANGED <<prog, list, name, test, tests, timers, addresses>>
      /\ writers' \subseteq writers /\ keeper' \subseteq writers \union keeper
  BY DEF Detach, Exit, registry
<1>2. Programs' /\ Excluded' /\ Registered' /\ Pending' /\ NamedOnce' /\ Collected'
  BY <1>1 DEF IInv, Programs, Excluded, Held, Registered, InList, Holds, Pending, CanChange,
              NamedOnce, Names, Collected, Doing
<1>3. Tested'
  BY <1>1 DEF IInv, Tested, Owned, Names
<1>4. OneAtATime => OneAtATime'
  <2> SUFFICES ASSUME OneAtATime PROVE OneAtATime'
    OBVIOUS
  <2>1. OneTester' /\ Timed'
    BY <1>1 DEF OneAtATime, OneTester, IsTest, Timed
  <2>2. ASSUME NEW u \in Thread, NEW i \in DOMAIN prog[u] PROVE (Same(prog[u][i]) /\ Dead(prog[u][i]))'
    <3>1. Same(prog[u][i]) /\ Dead(prog[u][i])
      BY DEF OneAtATime
    <3> QED
      BY <1>1, <3>1 DEF Same, Dead
  <2> QED
    BY <1>1, <2>1, <2>2 DEF OneAtATime
<1> QED
  BY <1>2, <1>3, <1>4 DEF IInv

-----------------------------------------------------------------------------
(* The invariant, and what it means.                                        *)

LEMMA IInvInitially == ASSUME Init PROVE IInv
<1>1. \A t \in Thread : prog[t] = <<>> /\ DOMAIN prog[t] = {}
  BY DEF Init
<1>2. prog \in [Thread -> Seq(Operation)] /\ list \in Seq(Obj) /\ DOMAIN list = {}
  BY EmptySeq DEF Init
<1>3. \A t \in Thread : Sound(prog[t])
  BY <1>1, <1>2 DEF Sound, Ordered, Follows
<1>4. Programs /\ Excluded /\ Pending /\ NamedOnce /\ Collected
  BY <1>1, <1>2, <1>3 DEF Programs, Excluded, Held, Pending, NamedOnce, Collected, Init
<1>5. Registered
  BY <1>1, <1>2 DEF Registered, InList, Holds, Init
<1>6. Tested /\ OneAtATime
  BY <1>1 DEF Tested, OneAtATime, OneTester, Timed, Init
<1> QED
  BY <1>4, <1>5, <1>6 DEF IInv

LEMMA StepKeeps == ASSUME IInv, NEW t \in Thread, Step(t) PROVE IInv'
<1>1. CASE Method(t) \/ Body(t) \/ Report(t) \/ Invoke(t) \/ Json(t) \/ Find(t)
  BY <1>1, MethodStep, BodyReportStep, InvokeStep, JsonStep, FindStep
<1>2. CASE Drop(t) \/ Add(t) \/ Append1(t) \/ Replace(t) \/ Remove1(t) \/ Erase(t) \/ Copy(t)
  BY <1>2, DropStep, AddStep, AppendStep, ReplaceStep, RemoveStep, EraseStep, CopyStep
<1>3. CASE Join(t) \/ KillOld(t) \/ Renew(t) \/ Spawn(t) \/ Leave(t) \/ Arm(t)
  BY <1>3, JoinStep, KillOldStep, RenewStep, SpawnStep, LeaveStep, ArmStep
<1>4. CASE Clear(t) \/ Fill(t)
  BY <1>4, ClearStep, FillStep
<1> QED
  BY <1>1, <1>2, <1>3, <1>4 DEF Step

LEMMA IInvKept == ASSUME IInv, [Next]_lvars PROVE IInv'
<1>1. ASSUME NEW t \in Thread, Step(t) PROVE IInv'
  BY <1>1, StepKeeps
<1>2. ASSUME NEW t \in Rest, Get(t) \/ Put(t) \/ Post(t) \/ Delete(t) PROVE IInv'
  BY <1>2, GetStep, PutStep, PostStep, DeleteStep DEF Thread
<1>3. CASE UNCHANGED lvars
  BY <1>3 DEF lvars, registry, testing, IInv, Programs, Excluded, Held, Registered, InList, Holds,
              Pending, CanChange, NamedOnce, Names, Tested, Owned, Collected, Doing,
              OneAtATime, OneTester, IsTest, Timed, Same, Dead
<1> QED
  BY <1>1, <1>2, <1>3, MonitorStep, TimeOutStep, KillTimeOutStep, OutsideStep DEF Next

(* No handler, callback or destructor leads the daemon out of IInv: what a  *)
(* thread has still to do always fits the mutexes it is under, the objects  *)
(* it refers to and the tests that exist.                                   *)
THEOREM Invariance == Spec => []IInv
  BY IInvInitially, IInvKept, PTL DEF Spec

LEMMA IInvTyped == IInv => TypeOK
<1> SUFFICES ASSUME IInv PROVE TypeOK
  OBVIOUS
<1>1. /\ prog \in [Thread -> Seq(Operation)]
      /\ \A t, u \in Thread : t # u => Held(t) \intersect Held(u) = {}
  BY DEF IInv, Programs, Excluded
<1>2. /\ name \in [Obj -> Name \union {None}] /\ list \in Seq(Obj)
      /\ \A i, j \in DOMAIN list : name[list[i]] = name[list[j]] => i = j
      /\ \A o \in Obj : name[o] # None <=> InList(list, o) \/ Holds(prog, o)
  BY DEF IInv, Registered
<1>3. /\ test \in [Obj -> tests \union {None}]
      /\ tests \subseteq Test /\ timers \union writers \union keeper \subseteq tests
  BY DEF IInv, Tested
<1>4. addresses \in BOOLEAN
  BY DEF IInv, Collected
<1> QED
  BY <1>1, <1>2, <1>3, <1>4 DEF TypeOK

\* Who waits for the pipe of a test has no part in it.
LEMMA IInvNoDeadlock == IInv => NoDeadlock
<1> SUFFICES ASSUME IInv, NEW S \in (SUBSET {t \in Thread : Wants(t) # {}}) \ {{}}
             PROVE  \E t \in S : \A u \in S \ {t} : Wants(t) \intersect Held(u) = {}
  BY DEF NoDeadlock
\* A thread that wants a mutex has none, but perhaps the configuration's.
<1>1. ASSUME NEW t \in S PROVE Held(t) \subseteq {Conf}
  <2>1. t \in Thread /\ Wants(t) # {}
    OBVIOUS
  <2>2. prog[t] # <<>> /\ Head(prog[t]).do \in Waiting
    BY <2>1 DEF Wants, Doing, Waiting
  <2> QED
    BY <2>1, <2>2, First DEF Waiting, Lawful, Change, IInv
<1>2. CASE \E t \in S : Conf \in Held(t)
  <2>1. PICK t \in S : Conf \in Held(t)
    BY <1>2
  <2>2. \A u \in S \ {t} : Held(u) = {}
    BY <1>1, <2>1 DEF IInv, Excluded
  <2> QED
    BY <2>1, <2>2
<1>3. CASE \A t \in S : Conf \notin Held(t)
  <2>1. \A t \in S : Held(t) = {}
    BY <1>1, <1>3
  <2>2. S # {}
    OBVIOUS
  <2>3. PICK t : t \in S
    BY <2>2
  <2> QED
    BY <2>1, <2>3
<1> QED
  BY <1>2, <1>3

LEMMA IInvReportsWhole == IInv => ReportsWhole
<1> SUFFICES ASSUME IInv, NEW t \in Thread, Doing(t, "report"), Free(t, Res), ~addresses PROVE FALSE
  BY DEF ReportsWhole
<1>1. PICK u \in Thread : Doing(u, "fill")
  BY DEF IInv, Collected
<1>2. Held(u) = {Res}
  BY <1>1, First DEF IInv, Doing, Lawful, Change
<1>3. u # t
  BY <1>1 DEF Doing
<1> QED
  BY <1>2, <1>3 DEF Free

LEMMA IInvJoinsTheDead == IInv /\ ~Together => JoinsTheDead
<1> SUFFICES ASSUME IInv, OneAtATime, NEW t \in Thread, Doing(t, "join") PROVE It(t) \notin writers
  BY DEF IInv, JoinsTheDead
<1>1. 1 \in DOMAIN prog[t] /\ Head(prog[t]) = prog[t][1]
  BY First DEF IInv, Doing
<1> QED
  BY <1>1 DEF OneAtATime, Dead, Doing, It

(* A mutex has one owner; an object lives as long as it is listed or a      *)
(* thread refers to it, its name is unique in the list and it has a test    *)
(* that exists, however the handlers and the callbacks interleave.          *)
THEOREM TypeCorrect == Spec => []TypeOK
  BY Invariance, IInvTyped, PTL

(* For any threads and requests, none of the waits for the daemon's mutexes *)
(* is a circle: ~MonitoredProcess waits under the configuration's mutex,    *)
(* but for no thread that wants one.                                        *)
THEOREM NeverDeadlocked == Spec => []NoDeadlock
  BY Invariance, IInvNoDeadlock, PTL

(* getHostResource() and AsJson() of ResourceCollection: every answer shows *)
(* all the addresses.                                                       *)
THEOREM AlwaysReportsWhole == Spec => []ReportsWhole
  BY Invariance, IInvReportsWhole, PTL

(* While one test run is requested at a time, fclose() and join() wait for  *)
(* the reader of a test's pipe only when its process group is gone.         *)
THEOREM AlwaysJoinsTheDead == ASSUME ~Together PROVE Spec => []JoinsTheDead
<1>1. IInv => JoinsTheDead
  BY IInvJoinsTheDead
<1> QED
  BY <1>1, Invariance, PTL
=============================================================================
