------------------------ MODULE LanguageServer_proofs ------------------------
(***************************************************************************)
(* Proofs, for any documents, slots, imports and bounds, that the guards   *)
(* in the two locks of the language server are those of its handlers, that *)
(* the handlers take the locks in one order, that results come in the      *)
(* order of the texts they were computed from, and that the server is up   *)
(* to date when it is quiet.                                               *)
(***************************************************************************)
EXTENDS LanguageServer, SequenceTheorems, TLAPS

-----------------------------------------------------------------------------
(* What a lock is to those who use it: who has a guard in it, and whose    *)
(* guard is before whose.                                                  *)
In(lock, g) == \E i \in 1 .. Len(lock) : lock[i] = g

Before(lock, g, h) ==
    \E i, j \in 1 .. Len(lock) : i < j /\ lock[i] = g /\ lock[j] = h

Unique(lock) == \A i, j \in 1 .. Len(lock) : lock[i] = lock[j] => i = j

(* A handler that publishes with both locks held.                          *)
Publishes(t) == t.pc = "publish" /\ t.kind # "didClose"

(* The handlers with a guard of each lock, and those that hold the files   *)
(* across an await.                                                        *)
UsesFiles(t) ==
    \/ t.pc \in {"write", "snapshot", "store", "extend", "remove", "read",
                 "collect", "suggest"}
    \/ Publishes(t)
UsesCache(t) == t.pc \in {"extend", "resolve", "suggest"} \/ Publishes(t)
HoldsFiles(t) == t.pc \in {"extend", "suggest"} \/ Publishes(t) \/ Stuck(t)

(* A handler that runs is about a document, one that writes has a text,    *)
(* and did_close is the one that does not parse.                           *)
ForDocument(t) ==
    /\ t.pc # "idle" => t.uri \in Uris
    /\ t.pc = "write" => t.arg \in Versions
    /\ t.pc \in {"write", "snapshot", "store", "extend"} => t.kind # "didClose"
    /\ t.pc = "remove" => t.kind = "didClose"
Typed == TypeOK /\ \A s \in Slots : ForDocument(task[s])

(* The guards in the locks are those of the handlers, each there once.     *)
Guards ==
    /\ Unique(filesLock) /\ Unique(cacheLock)
    /\ \A s \in Slots :
          /\ In(filesLock, <<s, 1>>) <=> UsesFiles(task[s])
          /\ In(filesLock, <<s, 2>>) <=> Stuck(task[s])
          /\ In(cacheLock, <<s, 1>>) <=> UsesCache(task[s])
          /\ ~In(cacheLock, <<s, 2>>)
          /\ HoldsFiles(task[s]) => Holds(filesLock, s, 1)
          /\ Publishes(task[s]) => Holds(cacheLock, s, 1)

-----------------------------------------------------------------------------
(* Asking for a lock puts a guard behind all others.                       *)
LEMMA AskLock ==
    ASSUME NEW lock \in Seq(Guard), Unique(lock), NEW s \in Slots, NEW n \in {1, 2},
           ~In(lock, <<s, n>>)
    PROVE  /\ Ask(lock, s, n) \in Seq(Guard)
           /\ Unique(Ask(lock, s, n))
           /\ \A g : In(Ask(lock, s, n), g) <=> In(lock, g) \/ g = <<s, n>>
           /\ \A t, m : Holds(lock, t, m) => Holds(Ask(lock, s, n), t, m)
           /\ \A g, h : Before(Ask(lock, s, n), g, h) <=>
                           Before(lock, g, h) \/ (In(lock, g) /\ h = <<s, n>>)
<1> DEFINE a == Ask(lock, s, n)
           k == Len(lock) + 1
<1>1. <<s, n>> \in Guard
  BY DEF Guard
<1>2. /\ a \in Seq(Guard) /\ a # <<>>
      /\ Len(a) = k /\ Len(lock) \in Nat /\ k \in Nat \ {0}
      /\ \A i \in 1 .. Len(lock) : a[i] = lock[i]
      /\ a[k] = <<s, n>>
  BY <1>1, AppendProperties, LenProperties DEF Ask
<1>3. \A t, m : Holds(lock, t, m) => Holds(a, t, m)
  BY <1>1, HeadTailAppend DEF Ask, Holds
<1> HIDE DEF a, k
<1>4. Unique(a)
  <2> SUFFICES ASSUME NEW i \in 1 .. k, NEW j \in 1 .. k, a[i] = a[j]
               PROVE  i = j
    BY <1>2 DEF Unique
  <2>1. CASE i = k /\ j # k
    BY <1>2, <2>1 DEF In, k
  <2>2. CASE i # k /\ j = k
    BY <1>2, <2>2 DEF In, k
  <2>3. CASE i # k /\ j # k
    BY <1>2, <2>3 DEF Unique, k
  <2> QED
    BY <2>1, <2>2, <2>3
<1>5. ASSUME NEW g
      PROVE  In(a, g) <=> In(lock, g) \/ g = <<s, n>>
  <2>1. ASSUME NEW i \in 1 .. k, a[i] = g
        PROVE  In(lock, g) \/ g = <<s, n>>
    <3>1. i = k \/ i \in 1 .. Len(lock)
      BY <1>2 DEF k
    <3> QED
      BY <1>2, <2>1, <3>1 DEF In
  <2>2. In(lock, g) \/ g = <<s, n>> => In(a, g)
    BY <1>2 DEF In, k
  <2> QED
    BY <1>2, <2>1, <2>2 DEF In
<1>6. ASSUME NEW g, NEW h
      PROVE  Before(a, g, h) <=> Before(lock, g, h) \/ (In(lock, g) /\ h = <<s, n>>)
  <2>1. ASSUME NEW i \in 1 .. k, NEW j \in 1 .. k, i < j, a[i] = g, a[j] = h
        PROVE  Before(lock, g, h) \/ (In(lock, g) /\ h = <<s, n>>)
    <3>1. i \in 1 .. Len(lock) /\ (j = k \/ j \in 1 .. Len(lock))
      BY <1>2, <2>1 DEF k
    <3>2. lock[i] = g
      BY <1>2, <2>1, <3>1
    <3>3. CASE j = k
      BY <1>2, <2>1, <3>1, <3>2, <3>3 DEF In
    <3>4. CASE j \in 1 .. Len(lock)
      BY <1>2, <2>1, <3>1, <3>2, <3>4 DEF Before
    <3> QED
      BY <3>1, <3>3, <3>4
  <2>2. Before(lock, g, h) => Before(a, g, h)
    BY <1>2 DEF Before, k
  <2>3. In(lock, g) /\ h = <<s, n>> => Before(a, g, h)
    BY <1>2 DEF Before, In, k
  <2> QED
    BY <1>2, <2>1, <2>2, <2>3 DEF Before
<1> QED
  BY <1>2, <1>3, <1>4, <1>5, <1>6 DEF a

(* Dropping the guard at the head leaves the others as they were.          *)
LEMMA DropLock ==
    ASSUME NEW lock \in Seq(Guard), Unique(lock), lock # <<>>
    PROVE  /\ Drop(lock) \in Seq(Guard)
           /\ Unique(Drop(lock))
           /\ In(lock, Head(lock))
           /\ \A g : In(Drop(lock), g) <=> In(lock, g) /\ g # Head(lock)
           /\ \A g, h : Before(Drop(lock), g, h) <=> Before(lock, g, h) /\ g # Head(lock)
           /\ \A g : In(lock, g) /\ g # Head(lock) => Before(lock, Head(lock), g)
           /\ \A g : ~Before(lock, g, Head(lock))
<1> DEFINE d == Drop(lock)
<1>1. /\ d \in Seq(Guard) /\ Len(d) = Len(lock) - 1
      /\ Len(lock) \in Nat \ {0} /\ Len(d) \in Nat
      /\ \A i \in 1 .. Len(d) : d[i] = lock[i + 1]
      /\ lock[1] = Head(lock)
  BY HeadTailProperties, EmptySeq, LenProperties DEF Drop
<1> HIDE DEF d
<1>2. Unique(d)
  BY <1>1 DEF Unique
<1>3. ASSUME NEW g
      PROVE  In(d, g) <=> In(lock, g) /\ g # Head(lock)
  <2>1. ASSUME NEW i \in 1 .. Len(d), d[i] = g
        PROVE  In(lock, g) /\ g # Head(lock)
    <3>1. i + 1 \in 1 .. Len(lock) /\ lock[i + 1] = g /\ 1 \in 1 .. Len(lock) /\ i + 1 # 1
      BY <1>1, <2>1
    <3> QED
      BY <1>1, <3>1 DEF In, Unique
  <2>2. ASSUME NEW i \in 1 .. Len(lock), lock[i] = g, g # Head(lock)
        PROVE  In(d, g)
    <3>1. i # 1
      BY <1>1, <2>2
    <3>2. i - 1 \in 1 .. Len(d)
      BY <1>1, <3>1
    <3>3. d[i - 1] = lock[(i - 1) + 1] /\ (i - 1) + 1 = i
      BY <1>1, <3>2
    <3> QED
      BY <2>2, <3>2, <3>3 DEF In
  <2> QED
    BY <2>1, <2>2 DEF In
<1>4. ASSUME NEW g, NEW h
      PROVE  Before(d, g, h) <=> Before(lock, g, h) /\ g # Head(lock)
  <2>1. ASSUME NEW i \in 1 .. Len(d), NEW j \in 1 .. Len(d), i < j, d[i] = g, d[j] = h
        PROVE  Before(lock, g, h) /\ g # Head(lock)
    <3>1. /\ i + 1 \in 1 .. Len(lock) /\ lock[i + 1] = g
          /\ j + 1 \in 1 .. Len(lock) /\ lock[j + 1] = h
          /\ i + 1 < j + 1 /\ 1 \in 1 .. Len(lock) /\ i + 1 # 1
      BY <1>1, <2>1
    <3> QED
      BY <1>1, <3>1 DEF Before, Unique
  <2>2. ASSUME NEW i \in 1 .. Len(lock), NEW j \in 1 .. Len(lock), i < j,
               lock[i] = g, lock[j] = h, g # Head(lock)
        PROVE  Before(d, g, h)
    <3>0. i # 1
      BY <1>1, <2>2
    <3>1. i # 1 /\ j # 1
      BY <1>1, <2>2, <3>0
    <3>2. i - 1 \in 1 .. Len(d) /\ j - 1 \in 1 .. Len(d) /\ i - 1 < j - 1
      BY <1>1, <2>2, <3>1
    <3>3. /\ d[i - 1] = lock[(i - 1) + 1] /\ (i - 1) + 1 = i
          /\ d[j - 1] = lock[(j - 1) + 1] /\ (j - 1) + 1 = j
      BY <1>1, <3>2
    <3> QED
      BY <2>2, <3>2, <3>3 DEF Before
  <2> QED
    BY <2>1, <2>2 DEF Before
<1>5. In(lock, Head(lock))
  BY <1>1 DEF In
<1>6. ASSUME NEW g, In(lock, g), g # Head(lock)
      PROVE  Before(lock, Head(lock), g)
  <2>1. PICK i \in 1 .. Len(lock) : lock[i] = g
    BY <1>6 DEF In
  <2>2. i # 1
    BY <1>1, <1>6, <2>1
  <2>3. 1 \in 1 .. Len(lock) /\ 1 < i
    BY <1>1, <2>2
  <2> QED
    BY <1>1, <2>1, <2>3 DEF Before
<1>7. ASSUME NEW g
      PROVE  ~Before(lock, g, Head(lock))
  BY <1>1 DEF Before, Unique
<1> QED
  BY <1>1, <1>2, <1>3, <1>4, <1>5, <1>6, <1>7 DEF d

(* The guards of a lock are in a line.                                     *)
LEMMA Line ==
    ASSUME NEW lock \in Seq(Guard), Unique(lock)
    PROVE  /\ \A g, h : Before(lock, g, h) => In(lock, g) /\ In(lock, h) /\ g # h
           /\ \A g, h : Before(lock, g, h) => ~Before(lock, h, g)
           /\ \A g, h, k : Before(lock, g, h) /\ Before(lock, h, k) => Before(lock, g, k)
           /\ \A g, h : In(lock, g) /\ In(lock, h) /\ g # h =>
                           Before(lock, g, h) \/ Before(lock, h, g)
<1>1. Len(lock) \in Nat
  BY LenProperties
<1>2. ASSUME NEW g, NEW h, Before(lock, g, h)
      PROVE  In(lock, g) /\ In(lock, h) /\ g # h /\ ~Before(lock, h, g)
  BY <1>1, <1>2 DEF Before, In, Unique
<1>3. ASSUME NEW g, NEW h, NEW k, Before(lock, g, h), Before(lock, h, k)
      PROVE  Before(lock, g, k)
  <2>1. PICK i \in 1 .. Len(lock), j \in 1 .. Len(lock) :
           i < j /\ lock[i] = g /\ lock[j] = h
    BY <1>3 DEF Before
  <2>2. PICK a \in 1 .. Len(lock), b \in 1 .. Len(lock) :
           a < b /\ lock[a] = h /\ lock[b] = k
    BY <1>3 DEF Before
  <2>3. j = a
    BY <2>1, <2>2 DEF Unique
  <2> QED
    BY <1>1, <2>1, <2>2, <2>3 DEF Before
<1>4. ASSUME NEW g, NEW h, In(lock, g), In(lock, h), g # h
      PROVE  Before(lock, g, h) \/ Before(lock, h, g)
  <2>1. PICK i \in 1 .. Len(lock), j \in 1 .. Len(lock) : lock[i] = g /\ lock[j] = h
    BY <1>4 DEF In
  <2>2. i < j \/ j < i
    BY <1>1, <1>4, <2>1
  <2> QED
    BY <2>1, <2>2 DEF Before
<1> QED
  BY <1>2, <1>3, <1>4

-----------------------------------------------------------------------------
(* A handler moves its own guards only: those of the others stay, in their *)
(* order, and the one at the head is still there.                          *)
OnlyMoves(old, new, s) ==
    /\ new \in Seq(Guard) /\ Unique(new)
    /\ \A r \in Slots \ {s}, n \in {1, 2} :
          /\ In(new, <<r, n>>) <=> In(old, <<r, n>>)
          /\ Holds(old, r, n) => Holds(new, r, n)
    /\ \A q, r \in Slots \ {s} :
          Before(new, <<q, 1>>, <<r, 1>>) <=> Before(old, <<q, 1>>, <<r, 1>>)

(* lock().await.                                                           *)
LEMMA MoveAsk ==
    ASSUME NEW lock \in Seq(Guard), Unique(lock), NEW s \in Slots, NEW n \in {1, 2},
           ~In(lock, <<s, n>>)
    PROVE  /\ OnlyMoves(lock, Ask(lock, s, n), s)
           /\ \A m \in {1, 2} : In(Ask(lock, s, n), <<s, m>>) <=> In(lock, <<s, m>>) \/ m = n
           /\ \A m \in {1, 2} : Holds(lock, s, m) => Holds(Ask(lock, s, n), s, m)
<1> DEFINE a == Ask(lock, s, n)
<1>1. /\ a \in Seq(Guard) /\ Unique(a)
      /\ \A g : In(a, g) <=> In(lock, g) \/ g = <<s, n>>
      /\ \A t, m : Holds(lock, t, m) => Holds(a, t, m)
      /\ \A g, h : Before(a, g, h) <=>
                      Before(lock, g, h) \/ (In(lock, g) /\ h = <<s, n>>)
  BY AskLock
<1> HIDE DEF a
<1>2. \A r, m : <<r, m>> = <<s, n>> <=> r = s /\ m = n
  OBVIOUS
<1> QED
  BY <1>1, <1>2 DEF OnlyMoves, a

(* The end of a guard's scope.                                             *)
LEMMA MoveDrop ==
    ASSUME NEW lock \in Seq(Guard), Unique(lock), NEW s \in Slots, NEW n \in {1, 2},
           Holds(lock, s, n)
    PROVE  /\ OnlyMoves(lock, Drop(lock), s)
           /\ \A m \in {1, 2} : In(Drop(lock), <<s, m>>) <=> In(lock, <<s, m>>) /\ m # n
<1> DEFINE d == Drop(lock)
<1>1. /\ d \in Seq(Guard) /\ Unique(d)
      /\ \A g : In(d, g) <=> In(lock, g) /\ g # <<s, n>>
      /\ \A g, h : Before(d, g, h) <=> Before(lock, g, h) /\ g # <<s, n>>
  <2>1. lock # <<>> /\ Head(lock) = <<s, n>>
    BY DEF Holds
  <2> QED
    BY <2>1, DropLock
<1> HIDE DEF d
<1>2. \A r, m : <<r, m>> = <<s, n>> <=> r = s /\ m = n
  OBVIOUS
<1>3. \A r \in Slots \ {s}, m \in {1, 2} : ~Holds(lock, r, m)
  BY <1>2 DEF Holds
<1> QED
  BY <1>1, <1>2, <1>3 DEF OnlyMoves, d

(* A guard that is dropped and asked for again.                            *)
LEMMA MoveRequeue ==
    ASSUME NEW lock \in Seq(Guard), Unique(lock), NEW s \in Slots, Holds(lock, s, 1)
    PROVE  /\ OnlyMoves(lock, Ask(Drop(lock), s, 1), s)
           /\ \A m \in {1, 2} : In(Ask(Drop(lock), s, 1), <<s, m>>) <=> In(lock, <<s, m>>)
<1> DEFINE d == Drop(lock)
           a == Ask(d, s, 1)
<1>1. /\ OnlyMoves(lock, d, s)
      /\ \A m \in {1, 2} : In(d, <<s, m>>) <=> In(lock, <<s, m>>) /\ m # 1
  BY MoveDrop
<1>2. d \in Seq(Guard) /\ Unique(d) /\ ~In(d, <<s, 1>>)
  BY <1>1 DEF OnlyMoves
<1> HIDE DEF d
<1>3. /\ OnlyMoves(d, a, s)
      /\ \A m \in {1, 2} : In(a, <<s, m>>) <=> In(d, <<s, m>>) \/ m = 1
  BY <1>2, MoveAsk
<1>4. In(lock, <<s, 1>>)
  BY DropLock DEF Holds
<1> HIDE DEF a
<1>5. OnlyMoves(lock, a, s)
  BY <1>1, <1>3 DEF OnlyMoves
<1> QED
  BY <1>1, <1>3, <1>4, <1>5 DEF a, d

(* A step of the handler in slot s.                                        *)
Steps(s) ==
    /\ \A r \in Slots \ {s} : task'[r] = task[r]
    /\ OnlyMoves(filesLock, filesLock', s)
    /\ OnlyMoves(cacheLock, cacheLock', s)

(* After it the guards are right if those of s are.                        *)
LEMMA GuardsKept ==
    ASSUME Guards, NEW s \in Slots, Steps(s),
           In(filesLock', <<s, 1>>) <=> UsesFiles(task'[s]),
           In(filesLock', <<s, 2>>) <=> Stuck(task'[s]),
           In(cacheLock', <<s, 1>>) <=> UsesCache(task'[s]),
           ~In(cacheLock', <<s, 2>>),
           HoldsFiles(task'[s]) => Holds(filesLock', s, 1),
           Publishes(task'[s]) => Holds(cacheLock', s, 1)
    PROVE  Guards'
<1>1. Unique(filesLock') /\ Unique(cacheLock')
  BY DEF Steps, OnlyMoves
<1>2. ASSUME NEW r \in Slots
      PROVE  /\ In(filesLock', <<r, 1>>) <=> UsesFiles(task'[r])
             /\ In(filesLock', <<r, 2>>) <=> Stuck(task'[r])
             /\ In(cacheLock', <<r, 1>>) <=> UsesCache(task'[r])
             /\ ~In(cacheLock', <<r, 2>>)
             /\ HoldsFiles(task'[r]) => Holds(filesLock', r, 1)
             /\ Publishes(task'[r]) => Holds(cacheLock', r, 1)
  <2>1. CASE r = s
    BY <2>1
  <2>2. CASE r # s
    <3>1. task'[r] = task[r]
      BY <2>2 DEF Steps
    <3>2. \A n \in {1, 2} :
             /\ In(filesLock', <<r, n>>) <=> In(filesLock, <<r, n>>)
             /\ Holds(filesLock, r, n) => Holds(filesLock', r, n)
             /\ In(cacheLock', <<r, n>>) <=> In(cacheLock, <<r, n>>)
             /\ Holds(cacheLock, r, n) => Holds(cacheLock', r, n)
      BY <2>2 DEF Steps, OnlyMoves
    <3> QED
      BY <3>1, <3>2 DEF Guards
  <2> QED
    BY <2>1, <2>2
<1> QED
  BY <1>1, <1>2 DEF Guards

(* Where a handler goes, and what it remembers.                            *)
LEMMA TaskGoto ==
    ASSUME task \in [Slots -> Task], NEW s \in Slots, NEW pc \in Pc, Goto(s, pc)
    PROVE  /\ task' \in [Slots -> Task]
           /\ \A r \in Slots \ {s} : task'[r] = task[r]
           /\ task'[s].pc = pc /\ task'[s].kind = task[s].kind
           /\ task'[s].uri = task[s].uri /\ task'[s].arg = task[s].arg
           /\ task'[s].snap = task[s].snap /\ task'[s].pos = task[s].pos
<1>1. task[s] \in Task
  OBVIOUS
<1>2. [task[s] EXCEPT !.pc = pc] \in Task
  BY <1>1 DEF Task
<1> QED
  BY <1>1, <1>2 DEF Goto, Task

(* A slot that is free has no guard and is stuck nowhere.                  *)
LEMMA IdleTask ==
    /\ Idle \in Task /\ Idle.pc = "idle" /\ Idle.kind = "none"
    /\ ~UsesFiles(Idle) /\ ~Stuck(Idle) /\ ~UsesCache(Idle)
    /\ ~HoldsFiles(Idle) /\ ~Publishes(Idle)
<1>1. NoSnap \in [Uris -> VersionOrNone]
  BY DEF NoSnap, VersionOrNone
<1>2. NoPos \in Position
  BY DEF NoPos, Position
<1> QED
  BY <1>1, <1>2 DEF Idle, Task, Pc, UsesFiles, Stuck, UsesCache, HoldsFiles, Publishes

(* A handler that returns frees its slot and moves no other.               *)
LEMMA TaskReturn ==
    ASSUME task \in [Slots -> Task], NEW s \in Slots, Return(s)
    PROVE  /\ task' \in [Slots -> Task]
           /\ \A r \in Slots \ {s} : task'[r] = task[r]
           /\ task'[s] = Idle
  BY IdleTask DEF Return

(* The lock that a handler does not touch.                                 *)
LEMMA MoveNone ==
    ASSUME NEW lock \in Seq(Guard), Unique(lock), NEW s
    PROVE  OnlyMoves(lock, lock, s)
  BY DEF OnlyMoves

-----------------------------------------------------------------------------
Locks == Typed /\ Guards

(* The variables that are neither tasks nor locks.                         *)
DataTyped ==
    /\ latest \in [Uris -> VersionOrNone] /\ version \in VersionOrNone
    /\ messages \in 0 .. MaxMessages
    /\ textBuffers \in [Uris -> VersionOrNone] /\ caches \in [Uris -> VersionOrNone]
    /\ diagnostics \in [Uris -> VersionOrNone]
    /\ definitions \in [Uris -> VersionOrNone]
    /\ outbox \in Seq([uri : Uris, version : VersionOrNone])
    /\ parked \in Seq(Slots) /\ shown \in [Uris -> VersionOrNone]
    /\ crashed \in BOOLEAN

(* The parts of the invariant, as the lemmas about steps cite them.        *)
LEMMA LocksParts ==
    ASSUME Locks
    PROVE  /\ filesLock \in Seq(Guard) /\ Unique(filesLock)
           /\ cacheLock \in Seq(Guard) /\ Unique(cacheLock)
           /\ task \in [Slots -> Task] /\ DataTyped
           /\ \A s \in Slots : ForDocument(task[s])
  BY DEF Locks, Typed, TypeOK, Guards, DataTyped

(* A step of the handler in slot s that leaves its own guards and its task *)
(* right leaves them all right.                                            *)
LEMMA LocksKept ==
    ASSUME Locks, NEW s \in Slots, Steps(s), DataTyped',
           task' \in [Slots -> Task], ForDocument(task'[s]),
           In(filesLock', <<s, 1>>) <=> UsesFiles(task'[s]),
           In(filesLock', <<s, 2>>) <=> Stuck(task'[s]),
           In(cacheLock', <<s, 1>>) <=> UsesCache(task'[s]),
           ~In(cacheLock', <<s, 2>>),
           HoldsFiles(task'[s]) => Holds(filesLock', s, 1),
           Publishes(task'[s]) => Holds(cacheLock', s, 1)
    PROVE  Locks'
<1>1. Guards'
  BY GuardsKept DEF Locks
<1>2. TypeOK'
  BY DEF DataTyped, TypeOK, Steps, OnlyMoves
<1>3. \A r \in Slots : ForDocument(task'[r])
  BY LocksParts DEF Steps
<1> QED
  BY <1>1, <1>2, <1>3 DEF Locks, Typed

(* A message starts a handler, whose guard is the last of the files' lock. *)
LEMMA StartLocks ==
    ASSUME Locks, NEW s \in Slots, NEW kind, NEW u \in Uris, NEW arg \in Nat,
           NEW pos \in Position, NEW pc \in {"write", "snapshot", "remove", "read"},
           pc = "write" => arg \in Versions, Start(s, kind, u, arg, pos, pc),
           pc \in {"write", "snapshot"} => kind # "didClose",
           pc = "remove" => kind = "didClose",
           latest' \in [Uris -> VersionOrNone], version' \in VersionOrNone
    PROVE  /\ Locks' /\ Steps(s)
           /\ task'[s] = [kind |-> kind, uri |-> u, arg |-> arg, pos |-> pos, pc |-> pc,
                          snap |-> NoSnap]
<1> DEFINE t == [kind |-> kind, uri |-> u, arg |-> arg, pos |-> pos, pc |-> pc,
                 snap |-> NoSnap]
<1>1. /\ filesLock' = Ask(filesLock, s, 1) /\ cacheLock' = cacheLock
      /\ task[s] = Idle /\ task' = [task EXCEPT ![s] = t] /\ kind \in Kinds
  BY DEF Start
<1>2. t \in Task
  <2>1. NoSnap \in [Uris -> VersionOrNone]
    BY DEF NoSnap, VersionOrNone
  <2> QED
    BY <1>1, <2>1 DEF Task, Pc
<1>3. /\ task' \in [Slots -> Task] /\ task'[s] = t
      /\ \A r \in Slots \ {s} : task'[r] = task[r]
  BY <1>1, <1>2, LocksParts
<1>4. /\ ~In(filesLock, <<s, 1>>) /\ ~In(filesLock, <<s, 2>>)
      /\ ~In(cacheLock, <<s, 1>>) /\ ~In(cacheLock, <<s, 2>>)
  BY <1>1, IdleTask DEF Locks, Guards
<1>5. /\ OnlyMoves(filesLock, filesLock', s)
      /\ In(filesLock', <<s, 1>>) /\ ~In(filesLock', <<s, 2>>)
  <2>1. filesLock \in Seq(Guard) /\ Unique(filesLock)
    BY LocksParts
  <2>2. /\ OnlyMoves(filesLock, Ask(filesLock, s, 1), s)
        /\ \A m \in {1, 2} :
              In(Ask(filesLock, s, 1), <<s, m>>) <=> In(filesLock, <<s, m>>) \/ m = 1
    BY <1>4, <2>1, MoveAsk
  <2> QED
    BY <1>1, <1>4, <2>2
<1>6. OnlyMoves(cacheLock, cacheLock', s)
  BY <1>1, LocksParts, MoveNone
<1>7. Steps(s)
  BY <1>3, <1>5, <1>6 DEF Steps
<1>8. DataTyped'
  BY LocksParts, BoundsAssumption DEF Start, DataTyped, dataVars, sendVars
<1>9. /\ ForDocument(task'[s]) /\ UsesFiles(task'[s]) /\ ~Stuck(task'[s])
      /\ ~UsesCache(task'[s]) /\ ~HoldsFiles(task'[s]) /\ ~Publishes(task'[s])
  BY <1>3 DEF ForDocument, UsesFiles, UsesCache, HoldsFiles, Publishes, Stuck
<1> QED
  BY <1>1, <1>3, <1>4, <1>5, <1>7, <1>8, <1>9, LocksKept

(* A message takes a free slot, and its handler asks for the files.        *)
LEMMA MessageLocks ==
    ASSUME Locks, NEW s \in Slots, Message(s)
    PROVE  Locks' /\ Steps(s)
<1>1. PICK u \in Uris : DidOpen(s, u) \/ DidChange(s, u) \/ DidSave(s, u)
                          \/ DidClose(s, u) \/ Query(s, u)
  BY DEF Message
<1>2. /\ latest \in [Uris -> VersionOrNone] /\ version \in VersionOrNone
      /\ VersionOrNone \subseteq Nat /\ None \in VersionOrNone /\ None \in Nat
      /\ VersionOrNone \ {None} \subseteq Versions /\ NoPos \in Position
  BY LocksParts, BoundsAssumption
     DEF DataTyped, VersionOrNone, Versions, None, NoPos, Position
<1>3. NextVersion(u) => /\ version + 1 \in Versions /\ version + 1 \in Nat
                        /\ version' \in VersionOrNone
                        /\ latest' \in [Uris -> VersionOrNone]
  BY <1>2, BoundsAssumption DEF NextVersion, VersionOrNone, Versions, None
<1>4. CASE DidOpen(s, u)
  BY <1>2, <1>3, <1>4, StartLocks DEF DidOpen
<1>5. CASE DidChange(s, u)
  BY <1>2, <1>3, <1>5, StartLocks DEF DidChange
<1>6. CASE DidSave(s, u)
  <2>1. latest[u] \in Versions /\ latest[u] \in Nat
    BY <1>2, <1>6 DEF DidSave
  <2>2. latest' \in [Uris -> VersionOrNone] /\ version' \in VersionOrNone
    BY <1>2, <1>6 DEF DidSave
  <2>3. CASE Start(s, "didSave", u, latest[u], NoPos, "write")
    BY <1>2, <2>1, <2>2, <2>3, StartLocks
  <2>4. CASE Start(s, "didSave", u, None, NoPos, "snapshot")
    BY <1>2, <2>2, <2>4, StartLocks
  <2> QED
    BY <1>6, <2>3, <2>4 DEF DidSave
<1>7. CASE DidClose(s, u)
  <2>1. latest' \in [Uris -> VersionOrNone] /\ version' \in VersionOrNone
    BY <1>2, <1>7 DEF DidClose
  <2> QED
    BY <1>2, <1>7, <2>1, StartLocks DEF DidClose
<1>8. CASE Query(s, u)
  <2>1. PICK kind, pos : pos \in Position /\ Start(s, kind, u, 0, pos, "read")
    <3>1. latest[u] \in Versions
      BY <1>2, <1>8 DEF Query
    <3>2. \A kind : AsksAt(kind, latest[u]) \subseteq Position
      BY <3>1, TextAssumption DEF AsksAt
    <3> QED
      BY <1>2, <1>8, <3>2 DEF Query
  <2>2. 0 \in Nat
    OBVIOUS
  <2>3. latest' \in [Uris -> VersionOrNone] /\ version' \in VersionOrNone
    BY <1>2, <1>8 DEF Query
  <2> QED
    BY <2>1, <2>2, <2>3, StartLocks
<1> QED
  BY <1>1, <1>4, <1>5, <1>6, <1>7, <1>8

(* The guards of a handler before its step.                                *)
LEMMA OwnGuards ==
    ASSUME Locks, NEW s \in Slots
    PROVE  /\ In(filesLock, <<s, 1>>) <=> UsesFiles(task[s])
           /\ In(filesLock, <<s, 2>>) <=> Stuck(task[s])
           /\ In(cacheLock, <<s, 1>>) <=> UsesCache(task[s])
           /\ ~In(cacheLock, <<s, 2>>)
           /\ HoldsFiles(task[s]) => Holds(filesLock, s, 1)
           /\ Publishes(task[s]) => Holds(cacheLock, s, 1)
  BY DEF Locks, Guards

(* A handler that drops its guard of the files and asks for it again.      *)
LEMMA RequeueLocks ==
    ASSUME Locks, NEW s \in Slots, Holds(filesLock, s, 1),
           filesLock' = Ask(Drop(filesLock), s, 1), cacheLock' = cacheLock,
           ~Stuck(task[s]), ~UsesCache(task[s]), DataTyped',
           task' \in [Slots -> Task], ForDocument(task'[s]),
           \A r \in Slots \ {s} : task'[r] = task[r],
           task'[s].pc \in {"snapshot", "store", "collect"},
           task'[s].pc = "collect" => task'[s].kind # "rename"
    PROVE  Locks' /\ Steps(s)
<1>1. /\ filesLock \in Seq(Guard) /\ Unique(filesLock)
      /\ cacheLock \in Seq(Guard) /\ Unique(cacheLock)
  BY LocksParts
<1>2. /\ OnlyMoves(filesLock, filesLock', s)
      /\ \A m \in {1, 2} : In(filesLock', <<s, m>>) <=> In(filesLock, <<s, m>>)
  BY <1>1, MoveRequeue
<1>3. OnlyMoves(cacheLock, cacheLock', s)
  BY <1>1, MoveNone
<1>4. Steps(s)
  BY <1>2, <1>3 DEF Steps
<1>5. In(filesLock, <<s, 1>>)
  BY <1>1, DropLock DEF Holds
<1>6. /\ ~In(filesLock, <<s, 2>>)
      /\ ~In(cacheLock, <<s, 1>>) /\ ~In(cacheLock, <<s, 2>>)
  BY OwnGuards
<1>7. /\ UsesFiles(task'[s]) /\ ~Stuck(task'[s]) /\ ~UsesCache(task'[s])
      /\ ~HoldsFiles(task'[s]) /\ ~Publishes(task'[s])
  BY DEF UsesFiles, UsesCache, HoldsFiles, Publishes, Stuck
<1> QED
  BY <1>2, <1>4, <1>5, <1>6, <1>7, LocksKept

(* A handler that returns, without a guard or with the last it has dropped.*)
LEMMA ReturnLocks ==
    ASSUME Locks, NEW s \in Slots, Return(s), DataTyped',
           \/ ~UsesFiles(task[s]) /\ filesLock' = filesLock
           \/ Holds(filesLock, s, 1) /\ filesLock' = Drop(filesLock),
           \/ ~UsesCache(task[s]) /\ cacheLock' = cacheLock
           \/ Holds(cacheLock, s, 1) /\ cacheLock' = Drop(cacheLock),
           ~Stuck(task[s])
    PROVE  Locks' /\ Steps(s)
<1>1. /\ filesLock \in Seq(Guard) /\ Unique(filesLock)
      /\ cacheLock \in Seq(Guard) /\ Unique(cacheLock) /\ task \in [Slots -> Task]
  BY LocksParts
<1>2. OnlyMoves(filesLock, filesLock', s) /\ ~In(filesLock', <<s, 1>>) /\ ~In(filesLock', <<s, 2>>)
  <2>1. CASE ~UsesFiles(task[s]) /\ filesLock' = filesLock
    BY <1>1, <2>1, MoveNone, OwnGuards
  <2>2. CASE Holds(filesLock, s, 1) /\ filesLock' = Drop(filesLock)
    <3>1. /\ OnlyMoves(filesLock, Drop(filesLock), s)
          /\ \A m \in {1, 2} :
                In(Drop(filesLock), <<s, m>>) <=> In(filesLock, <<s, m>>) /\ m # 1
      BY <1>1, <2>2, MoveDrop
    <3> QED
      BY <2>2, <3>1, OwnGuards
  <2> QED
    BY <2>1, <2>2
<1>3. OnlyMoves(cacheLock, cacheLock', s) /\ ~In(cacheLock', <<s, 1>>) /\ ~In(cacheLock', <<s, 2>>)
  <2>1. CASE ~UsesCache(task[s]) /\ cacheLock' = cacheLock
    BY <1>1, <2>1, MoveNone, OwnGuards
  <2>2. CASE Holds(cacheLock, s, 1) /\ cacheLock' = Drop(cacheLock)
    <3>1. /\ OnlyMoves(cacheLock, Drop(cacheLock), s)
          /\ \A m \in {1, 2} :
                In(Drop(cacheLock), <<s, m>>) <=> In(cacheLock, <<s, m>>) /\ m # 1
      BY <1>1, <2>2, MoveDrop
    <3> QED
      BY <2>2, <3>1, OwnGuards
  <2> QED
    BY <2>1, <2>2
<1>4. /\ task' \in [Slots -> Task] /\ task'[s] = Idle
      /\ \A r \in Slots \ {s} : task'[r] = task[r]
  BY <1>1, TaskReturn
<1>5. Steps(s)
  BY <1>2, <1>3, <1>4 DEF Steps
<1>6. ForDocument(task'[s])
  BY <1>4, IdleTask DEF ForDocument
<1> QED
  BY <1>2, <1>3, <1>4, <1>5, <1>6, IdleTask, LocksKept

(* The handlers, one by one.                                               *)
LEMMA WriteLocks ==
    ASSUME Locks, NEW s \in Slots, Write(s)
    PROVE  Locks' /\ Steps(s)
<1>1. /\ task \in [Slots -> Task] /\ ForDocument(task[s]) /\ DataTyped
      /\ task[s].pc = "write" /\ Holds(filesLock, s, 1)
  BY LocksParts DEF Write, At
<1>2. /\ task' \in [Slots -> Task] /\ \A r \in Slots \ {s} : task'[r] = task[r]
      /\ task'[s].pc = "snapshot" /\ task'[s].kind = task[s].kind
      /\ task'[s].uri = task[s].uri
  BY <1>1, TaskGoto DEF Write, Pc
<1>4. ~Stuck(task[s]) /\ ~UsesCache(task[s]) /\ ForDocument(task'[s])
  BY <1>1, <1>2 DEF Stuck, UsesCache, Publishes, ForDocument
<1>5. DataTyped'
  <2>1. task[s].arg \in VersionOrNone /\ task[s].uri \in Uris
    BY <1>1 DEF ForDocument, VersionOrNone
  <2>2. textBuffers' \in [Uris -> VersionOrNone]
    BY <1>1, <2>1 DEF Write, DataTyped
  <2> QED
    BY <1>1, <2>2 DEF Write, DataTyped, clientVars, sendVars
<1> QED
  BY <1>1, <1>2, <1>4, <1>5, RequeueLocks DEF Write

(* parse_file reads the buffers, lets the files go and asks for them       *)
(* again.                                                                  *)
LEMMA SnapshotLocks ==
    ASSUME Locks, NEW s \in Slots, Snapshot(s)
    PROVE  Locks' /\ Steps(s)
<1>1. /\ task \in [Slots -> Task] /\ ForDocument(task[s]) /\ DataTyped
      /\ task[s].pc = "snapshot" /\ Holds(filesLock, s, 1)
  BY LocksParts DEF Snapshot, At
<1>2. /\ task' \in [Slots -> Task] /\ \A r \in Slots \ {s} : task'[r] = task[r]
      /\ task'[s].pc = "store" /\ task'[s].uri = task[s].uri
      /\ task'[s].kind = task[s].kind
  <2> DEFINE t == [task[s] EXCEPT !.snap = textBuffers, !.pc = "store"]
  <2>1. t \in Task /\ t.pc = "store" /\ t.uri = task[s].uri /\ t.kind = task[s].kind
    BY <1>1 DEF Task, Pc, DataTyped
  <2>2. task' = [task EXCEPT ![s] = t]
    BY <1>1 DEF Snapshot
  <2> QED
    BY <1>1, <2>1, <2>2
<1>3. ~Stuck(task[s]) /\ ~UsesCache(task[s]) /\ ForDocument(task'[s])
  BY <1>1, <1>2 DEF Stuck, UsesCache, Publishes, ForDocument
<1>4. DataTyped'
  BY <1>1 DEF Snapshot, DataTyped, clientVars, dataVars, sendVars
<1> QED
  BY <1>1, <1>2, <1>3, <1>4, RequeueLocks DEF Snapshot

(* references and rename find what they look for under the files; rename   *)
(* then asks for the lock that it holds.                                   *)
LEMMA ReferencesFoundLocks ==
    ASSUME Locks, NEW s \in Slots, ReferencesFound(s)
    PROVE  Locks' /\ Steps(s)
<1>1. /\ task \in [Slots -> Task] /\ ForDocument(task[s]) /\ DataTyped
      /\ task[s].pc = "read" /\ Holds(filesLock, s, 1)
      /\ task[s].kind = "references"
  BY LocksParts DEF ReferencesFound, At
<1>2. /\ task' \in [Slots -> Task] /\ \A r \in Slots \ {s} : task'[r] = task[r]
      /\ task'[s].pc = "collect" /\ task'[s].kind = task[s].kind
      /\ task'[s].uri = task[s].uri
  BY <1>1, TaskGoto DEF ReferencesFound, Pc
<1>3. ~Stuck(task[s]) /\ ~UsesCache(task[s]) /\ ForDocument(task'[s])
  BY <1>1, <1>2 DEF Stuck, UsesCache, Publishes, ForDocument
<1>4. DataTyped'
  BY <1>1 DEF ReferencesFound, DataTyped, clientVars, dataVars, sendVars
<1> QED
  BY <1>1, <1>2, <1>3, <1>4, RequeueLocks DEF ReferencesFound

(* A handler that asks for the global cache with the files locked.         *)
LEMMA AskCacheLocks ==
    ASSUME Locks, NEW s \in Slots, NEW pc \in {"extend", "suggest"}, Goto(s, pc),
           Holds(filesLock, s, 1), filesLock' = filesLock,
           cacheLock' = Ask(cacheLock, s, 1), DataTyped', task[s].uri \in Uris,
           ~Stuck(task[s]), ~UsesCache(task[s]),
           pc = "extend" => task[s].kind # "didClose"
    PROVE  Locks' /\ Steps(s)
<1>1. /\ filesLock \in Seq(Guard) /\ Unique(filesLock)
      /\ cacheLock \in Seq(Guard) /\ Unique(cacheLock) /\ task \in [Slots -> Task]
  BY LocksParts
<1>2. /\ ~In(filesLock, <<s, 2>>)
      /\ ~In(cacheLock, <<s, 1>>) /\ ~In(cacheLock, <<s, 2>>)
  BY OwnGuards
<1>3. OnlyMoves(filesLock, filesLock', s) /\ In(filesLock, <<s, 1>>)
  BY <1>1, MoveNone, DropLock DEF Holds
<1>4. /\ OnlyMoves(cacheLock, cacheLock', s)
      /\ In(cacheLock', <<s, 1>>) /\ ~In(cacheLock', <<s, 2>>)
  <2>1. /\ OnlyMoves(cacheLock, Ask(cacheLock, s, 1), s)
        /\ \A m \in {1, 2} :
              In(Ask(cacheLock, s, 1), <<s, m>>) <=> In(cacheLock, <<s, m>>) \/ m = 1
    BY <1>1, <1>2, MoveAsk
  <2> QED
    BY <1>2, <2>1
<1>5. /\ task' \in [Slots -> Task] /\ \A r \in Slots \ {s} : task'[r] = task[r]
      /\ task'[s].pc = pc /\ task'[s].uri = task[s].uri
      /\ task'[s].kind = task[s].kind
  BY <1>1, TaskGoto DEF Pc
<1>6. Steps(s)
  BY <1>3, <1>4, <1>5 DEF Steps
<1>7. /\ ForDocument(task'[s]) /\ UsesFiles(task'[s]) /\ ~Stuck(task'[s])
      /\ UsesCache(task'[s]) /\ HoldsFiles(task'[s]) /\ ~Publishes(task'[s])
  BY <1>5 DEF ForDocument, UsesFiles, UsesCache, HoldsFiles, Publishes, Stuck
<1> QED
  BY <1>2, <1>3, <1>4, <1>5, <1>6, <1>7, LocksKept

(* parse_file stores its cache and, with the files still held, asks for    *)
(* the global cache.                                                       *)
LEMMA StoreLocks ==
    ASSUME Locks, NEW s \in Slots, Store(s)
    PROVE  Locks' /\ Steps(s)
<1>1. /\ task \in [Slots -> Task] /\ ForDocument(task[s]) /\ DataTyped
      /\ task[s].pc = "store" /\ Holds(filesLock, s, 1)
  BY LocksParts DEF Store, At
<1>2. /\ ~Stuck(task[s]) /\ ~UsesCache(task[s]) /\ task[s].uri \in Uris
      /\ task[s].kind # "didClose"
  BY <1>1 DEF Stuck, UsesCache, Publishes, ForDocument
<1>3. DataTyped'
  <2>1. task[s].snap \in [Uris -> VersionOrNone]
    BY <1>1 DEF Task
  <2>2. caches' \in [Uris -> VersionOrNone] /\ diagnostics' \in [Uris -> VersionOrNone]
    BY <1>1, <1>2, <2>1 DEF Store, DataTyped
  <2> QED
    BY <1>1, <2>2 DEF Store, DataTyped, clientVars, sendVars
<1> QED
  BY <1>1, <1>2, <1>3, AskCacheLocks DEF Store

(* A notification is sent, or its handler waits with it until there is     *)
(* room; the types are kept.                                               *)
LEMMA SendTyped ==
    ASSUME DataTyped, NEW s \in Slots, NEW u \in Uris, NEW v \in VersionOrNone,
           Send(s, u, v)
    PROVE  /\ outbox' \in Seq([uri : Uris, version : VersionOrNone])
           /\ parked' \in Seq(Slots) /\ shown' \in [Uris -> VersionOrNone]
  BY DEF DataTyped, Send

(* parse_file extends the global cache, and sends with both locks held.    *)
LEMMA ExtendLocks ==
    ASSUME Locks, NEW s \in Slots, Extend(s)
    PROVE  Locks' /\ Steps(s)
<1>1. /\ task \in [Slots -> Task] /\ ForDocument(task[s]) /\ DataTyped
      /\ task[s].pc = "extend" /\ Holds(cacheLock, s, 1)
  BY LocksParts DEF Extend, At
<1>2. /\ task' \in [Slots -> Task] /\ \A r \in Slots \ {s} : task'[r] = task[r]
      /\ task'[s].pc = "publish" /\ task'[s].kind = task[s].kind
      /\ task'[s].uri = task[s].uri
  BY <1>1, TaskGoto DEF Extend, Pc
<1>3. /\ filesLock \in Seq(Guard) /\ Unique(filesLock)
      /\ cacheLock \in Seq(Guard) /\ Unique(cacheLock)
      /\ filesLock' = filesLock /\ cacheLock' = cacheLock
  BY LocksParts DEF Extend
<1>4. Steps(s)
  BY <1>2, <1>3, MoveNone DEF Steps
<1>5. DataTyped'
  <2>1. task[s].snap \in [Uris -> VersionOrNone] /\ task[s].uri \in Uris
    BY <1>1 DEF Task, ForDocument
  <2>2. definitions' \in [Uris -> VersionOrNone]
    BY <1>1, <2>1 DEF Extend, DataTyped
  <2>3. /\ outbox' \in Seq([uri : Uris, version : VersionOrNone])
        /\ parked' \in Seq(Slots) /\ shown' \in [Uris -> VersionOrNone]
    <3>1. task[s].snap[task[s].uri] \in VersionOrNone
      BY <2>1
    <3> QED
      BY <1>1, <2>1, <3>1, SendTyped DEF Extend
  <2> QED
    BY <1>1, <2>2, <2>3 DEF Extend, DataTyped, clientVars
<1>6. /\ UsesFiles(task[s]) /\ UsesCache(task[s]) /\ HoldsFiles(task[s]) /\ ~Stuck(task[s])
  BY <1>1 DEF UsesFiles, UsesCache, HoldsFiles, Publishes, Stuck
<1>7. /\ In(filesLock, <<s, 1>>) /\ ~In(filesLock, <<s, 2>>) /\ Holds(filesLock, s, 1)
      /\ In(cacheLock, <<s, 1>>) /\ ~In(cacheLock, <<s, 2>>)
  BY <1>6, OwnGuards
<1>8. /\ ForDocument(task'[s]) /\ UsesFiles(task'[s]) /\ ~Stuck(task'[s])
      /\ UsesCache(task'[s]) /\ Publishes(task'[s])
  BY <1>1, <1>2 DEF ForDocument, UsesFiles, UsesCache, Publishes, Stuck
<1> QED
  BY <1>1, <1>2, <1>3, <1>4, <1>5, <1>7, <1>8, LocksKept

(* did_close removes the buffers and lets the files go before it sends.    *)
LEMMA RemoveLocks ==
    ASSUME Locks, NEW s \in Slots, Remove(s)
    PROVE  Locks' /\ Steps(s)
<1>1. /\ task \in [Slots -> Task] /\ ForDocument(task[s]) /\ DataTyped
      /\ task[s].pc = "remove" /\ Holds(filesLock, s, 1)
  BY LocksParts DEF Remove, At
<1>2. /\ task' \in [Slots -> Task] /\ \A r \in Slots \ {s} : task'[r] = task[r]
      /\ task'[s].pc = "publish" /\ task'[s].kind = task[s].kind
      /\ task'[s].uri = task[s].uri
  BY <1>1, TaskGoto DEF Remove, Pc
<1>3. /\ filesLock \in Seq(Guard) /\ Unique(filesLock)
      /\ cacheLock \in Seq(Guard) /\ Unique(cacheLock)
      /\ filesLock' = Drop(filesLock) /\ cacheLock' = cacheLock
  BY LocksParts DEF Remove
<1>4. /\ OnlyMoves(filesLock, filesLock', s)
      /\ \A m \in {1, 2} : In(filesLock', <<s, m>>) <=> In(filesLock, <<s, m>>) /\ m # 1
  BY <1>1, <1>3, MoveDrop
<1>5. Steps(s)
  BY <1>2, <1>3, <1>4, MoveNone DEF Steps
<1>6. DataTyped'
  <2>1. task[s].uri \in Uris /\ None \in VersionOrNone
    BY <1>1 DEF ForDocument, VersionOrNone
  <2>2. textBuffers' \in [Uris -> VersionOrNone] /\ caches' \in [Uris -> VersionOrNone]
    BY <1>1, <2>1 DEF Remove, DataTyped
  <2>3. /\ outbox' \in Seq([uri : Uris, version : VersionOrNone])
        /\ parked' \in Seq(Slots) /\ shown' \in [Uris -> VersionOrNone]
    BY <1>1, <2>1, SendTyped DEF Remove
  <2> QED
    BY <1>1, <2>2, <2>3 DEF Remove, DataTyped, clientVars
<1>7. /\ ~Stuck(task[s]) /\ ~UsesCache(task[s])
  BY <1>1 DEF UsesCache, Publishes, Stuck
<1>8. /\ ~In(filesLock, <<s, 2>>) /\ ~In(cacheLock, <<s, 1>>) /\ ~In(cacheLock, <<s, 2>>)
  BY <1>7, OwnGuards
<1>9. /\ ForDocument(task'[s]) /\ ~UsesFiles(task'[s]) /\ ~Stuck(task'[s])
      /\ ~UsesCache(task'[s]) /\ ~HoldsFiles(task'[s]) /\ ~Publishes(task'[s])
  BY <1>1, <1>2 DEF ForDocument, UsesFiles, UsesCache, HoldsFiles, Publishes, Stuck
<1> QED
  BY <1>2, <1>3, <1>4, <1>5, <1>6, <1>8, <1>9, LocksKept

(* A handler whose notification has gone returns, and lets go of what it   *)
(* held.                                                                   *)
LEMMA PublishedLocks ==
    ASSUME Locks, NEW s \in Slots, Published(s)
    PROVE  Locks' /\ Steps(s)
<1>1. /\ task[s].pc = "publish" /\ DataTyped
  BY LocksParts DEF Published, At
<1>2. ~Stuck(task[s])
  BY <1>1 DEF Stuck
<1>3. \/ /\ ~UsesFiles(task[s]) /\ filesLock' = filesLock
         /\ ~UsesCache(task[s]) /\ cacheLock' = cacheLock
      \/ /\ Holds(filesLock, s, 1) /\ filesLock' = Drop(filesLock)
         /\ Holds(cacheLock, s, 1) /\ cacheLock' = Drop(cacheLock)
  <2>1. CASE task[s].kind = "didClose"
    BY <1>1, <2>1 DEF Published, UsesFiles, UsesCache, Publishes
  <2>2. CASE task[s].kind # "didClose"
    <3>1. HoldsFiles(task[s]) /\ Publishes(task[s])
      BY <1>1, <2>2 DEF HoldsFiles, Publishes
    <3> QED
      BY <2>2, <3>1, OwnGuards DEF Published
  <2> QED
    BY <2>1, <2>2
<1>5. DataTyped'
  BY <1>1 DEF Published, DataTyped, clientVars, dataVars, sendVars
<1> QED
  BY <1>2, <1>3, <1>5, ReturnLocks DEF Published

(* hover, definition and the like answer from the cache, and return.       *)
LEMMA AnswerLocks ==
    ASSUME Locks, NEW s \in Slots, Answer(s)
    PROVE  Locks' /\ Steps(s)
<1>1. /\ task[s].pc = "read" /\ DataTyped
  BY LocksParts DEF Answer, At
<1>2. ~Stuck(task[s])
  BY <1>1 DEF Stuck
<1>3. /\ Holds(filesLock, s, 1) /\ filesLock' = Drop(filesLock)
      /\ ~UsesCache(task[s]) /\ cacheLock' = cacheLock
  BY <1>1 DEF Answer, UsesCache, Publishes
<1>5. DataTyped'
  BY <1>1 DEF Answer, DataTyped, clientVars, dataVars, sendVars
<1> QED
  BY <1>2, <1>3, <1>5, ReturnLocks DEF Answer

(* A handler that looked a definition up lets the global cache go.         *)
LEMMA ResolveLocks ==
    ASSUME Locks, NEW s \in Slots, Resolve(s)
    PROVE  Locks' /\ Steps(s)
<1>1. /\ task[s].pc = "resolve" /\ DataTyped
  BY LocksParts DEF Resolve, At
<1>2. ~Stuck(task[s])
  BY <1>1 DEF Stuck
<1>3. /\ ~UsesFiles(task[s]) /\ filesLock' = filesLock
      /\ Holds(cacheLock, s, 1) /\ cacheLock' = Drop(cacheLock)
  BY <1>1 DEF Resolve, UsesFiles, Publishes
<1>5. DataTyped'
  BY <1>1 DEF Resolve, DataTyped, clientVars, dataVars, sendVars
<1> QED
  BY <1>2, <1>3, <1>5, ReturnLocks DEF Resolve

(* A panic leaves the guards where they are.                               *)
LEMMA PanicLocks ==
    ASSUME Locks, NEW s \in Slots, DataTyped', UNCHANGED <<task, filesLock, cacheLock>>
    PROVE  Locks' /\ Steps(s)
<1>1. Steps(s)
  BY LocksParts, MoveNone DEF Steps
<1>2. Guards' /\ Typed'
  BY LocksParts DEF Locks, Guards, Typed, TypeOK, DataTyped
<1> QED
  BY <1>1, <1>2 DEF Locks

(* With both locks held, completion and references answer and let both go, *)
(* or completion panics.                                                   *)
LEMMA SuggestLocks ==
    ASSUME Locks, NEW s \in Slots, Suggest(s)
    PROVE  Locks' /\ Steps(s)
<1>1. /\ task[s].pc = "suggest" /\ DataTyped
  BY LocksParts DEF Suggest, At
<1>2. ~Stuck(task[s])
  BY <1>1 DEF Stuck
<1>3. Holds(filesLock, s, 1) /\ Holds(cacheLock, s, 1)
  <2>1. HoldsFiles(task[s])
    BY <1>1 DEF HoldsFiles
  <2> QED
    BY <2>1, OwnGuards DEF Suggest
<1>4. DataTyped'
  BY <1>1 DEF Suggest, DataTyped, clientVars, dataVars, sendVars
<1>5. CASE filesLock' = Drop(filesLock) /\ cacheLock' = Drop(cacheLock) /\ Return(s)
  BY <1>2, <1>3, <1>4, <1>5, ReturnLocks
<1>6. CASE UNCHANGED <<task, filesLock, cacheLock>>
  BY <1>4, <1>6, PanicLocks
<1> QED
  BY <1>5, <1>6 DEF Suggest

(* goto_definition lets the files go and asks for the global cache.        *)
LEMMA GotoFoundLocks ==
    ASSUME Locks, NEW s \in Slots, GotoFound(s)
    PROVE  Locks' /\ Steps(s)
<1>1. /\ task \in [Slots -> Task] /\ ForDocument(task[s]) /\ DataTyped
      /\ task[s].pc = "read" /\ Holds(filesLock, s, 1)
  BY LocksParts DEF GotoFound, At
<1>2. /\ task' \in [Slots -> Task] /\ \A r \in Slots \ {s} : task'[r] = task[r]
      /\ task'[s].pc = "resolve" /\ task'[s].uri = task[s].uri
  <2> DEFINE t == [task[s] EXCEPT !.pc = "resolve", !.arg = caches[task[s].uri]]
  <2>1. caches[task[s].uri] \in Nat
    BY <1>1, BoundsAssumption DEF ForDocument, DataTyped, VersionOrNone, Versions, None
  <2>2. t \in Task /\ t.pc = "resolve" /\ t.uri = task[s].uri
    BY <1>1, <2>1 DEF Task, Pc
  <2>3. task' = [task EXCEPT ![s] = t]
    BY <1>1 DEF GotoFound
  <2> QED
    BY <1>1, <2>2, <2>3
<1>3. /\ filesLock \in Seq(Guard) /\ Unique(filesLock)
      /\ cacheLock \in Seq(Guard) /\ Unique(cacheLock)
  BY LocksParts
<1>4. /\ ~Stuck(task[s]) /\ ~UsesCache(task[s])
  BY <1>1 DEF UsesCache, Publishes, Stuck
<1>5. /\ ~In(filesLock, <<s, 2>>) /\ ~In(cacheLock, <<s, 1>>) /\ ~In(cacheLock, <<s, 2>>)
  BY <1>4, OwnGuards
<1>6. /\ OnlyMoves(filesLock, filesLock', s)
      /\ ~In(filesLock', <<s, 1>>) /\ ~In(filesLock', <<s, 2>>)
  <2>1. /\ OnlyMoves(filesLock, Drop(filesLock), s)
        /\ \A m \in {1, 2} :
              In(Drop(filesLock), <<s, m>>) <=> In(filesLock, <<s, m>>) /\ m # 1
    BY <1>1, <1>3, MoveDrop
  <2> QED
    BY <1>5, <2>1 DEF GotoFound
<1>7. /\ OnlyMoves(cacheLock, cacheLock', s)
      /\ In(cacheLock', <<s, 1>>) /\ ~In(cacheLock', <<s, 2>>)
  <2>1. /\ OnlyMoves(cacheLock, Ask(cacheLock, s, 1), s)
        /\ \A m \in {1, 2} :
              In(Ask(cacheLock, s, 1), <<s, m>>) <=> In(cacheLock, <<s, m>>) \/ m = 1
    BY <1>3, <1>5, MoveAsk
  <2> QED
    BY <1>5, <2>1 DEF GotoFound
<1>8. Steps(s)
  BY <1>2, <1>6, <1>7 DEF Steps
<1>9. DataTyped'
  BY <1>1 DEF GotoFound, DataTyped, clientVars, dataVars, sendVars
<1>10. /\ ForDocument(task'[s]) /\ ~UsesFiles(task'[s]) /\ ~Stuck(task'[s])
       /\ UsesCache(task'[s]) /\ ~HoldsFiles(task'[s]) /\ ~Publishes(task'[s])
  BY <1>1, <1>2 DEF ForDocument, UsesFiles, UsesCache, HoldsFiles, Publishes, Stuck
<1> QED
  BY <1>2, <1>6, <1>7, <1>8, <1>9, <1>10, LocksKept

(* rename asks for the lock it holds, behind everybody else.               *)
LEMMA RenameFoundLocks ==
    ASSUME Locks, NEW s \in Slots, RenameFound(s)
    PROVE  Locks' /\ Steps(s)
<1>1. /\ task \in [Slots -> Task] /\ ForDocument(task[s]) /\ DataTyped
      /\ task[s].pc = "read" /\ Holds(filesLock, s, 1)
      /\ task[s].kind = "rename"
  BY LocksParts DEF RenameFound, At
<1>2. /\ task' \in [Slots -> Task] /\ \A r \in Slots \ {s} : task'[r] = task[r]
      /\ task'[s].pc = "collect" /\ task'[s].kind = task[s].kind
      /\ task'[s].uri = task[s].uri
  BY <1>1, TaskGoto DEF RenameFound, Pc
<1>3. /\ filesLock \in Seq(Guard) /\ Unique(filesLock)
      /\ cacheLock \in Seq(Guard) /\ Unique(cacheLock)
  BY LocksParts
<1>4. /\ ~Stuck(task[s]) /\ ~UsesCache(task[s]) /\ UsesFiles(task[s])
  BY <1>1 DEF UsesCache, UsesFiles, Publishes, Stuck
<1>5. /\ ~In(filesLock, <<s, 2>>) /\ In(filesLock, <<s, 1>>)
      /\ ~In(cacheLock, <<s, 1>>) /\ ~In(cacheLock, <<s, 2>>)
  BY <1>4, OwnGuards
<1>6. /\ OnlyMoves(filesLock, filesLock', s)
      /\ In(filesLock', <<s, 1>>) /\ In(filesLock', <<s, 2>>)
      /\ Holds(filesLock', s, 1)
  <2>1. /\ OnlyMoves(filesLock, Ask(filesLock, s, 2), s)
        /\ \A m \in {1, 2} :
              In(Ask(filesLock, s, 2), <<s, m>>) <=> In(filesLock, <<s, m>>) \/ m = 2
        /\ \A m \in {1, 2} : Holds(filesLock, s, m) => Holds(Ask(filesLock, s, 2), s, m)
    BY <1>3, <1>5, MoveAsk
  <2> QED
    BY <1>1, <1>5, <2>1 DEF RenameFound
<1>7. OnlyMoves(cacheLock, cacheLock', s) /\ cacheLock' = cacheLock
  BY <1>3, MoveNone DEF RenameFound
<1>8. Steps(s)
  BY <1>2, <1>6, <1>7 DEF Steps
<1>9. DataTyped'
  BY <1>1 DEF RenameFound, DataTyped, clientVars, dataVars, sendVars
<1>10. /\ ForDocument(task'[s]) /\ UsesFiles(task'[s]) /\ Stuck(task'[s])
       /\ ~UsesCache(task'[s]) /\ HoldsFiles(task'[s]) /\ ~Publishes(task'[s])
  BY <1>1, <1>2 DEF ForDocument, UsesFiles, UsesCache, HoldsFiles, Publishes, Stuck
<1> QED
  BY <1>2, <1>5, <1>6, <1>7, <1>8, <1>9, <1>10, LocksKept

(* Only references ever collects: a rename holds its first guard for ever. *)
LEMMA OnlyReferencesCollect ==
    ASSUME Locks, NEW s \in Slots, Collect(s)
    PROVE  /\ task[s].pc = "collect" /\ task[s].kind # "rename" /\ Holds(filesLock, s, 1)
           /\ ~Stuck(task[s]) /\ ~UsesCache(task[s]) /\ task[s].uri \in Uris
<1>1. task[s].pc = "collect" /\ ForDocument(task[s])
  BY LocksParts DEF Collect, At
<1>2. task[s].kind # "rename"
  <2> SUFFICES ASSUME task[s].kind = "rename" PROVE FALSE
    OBVIOUS
  <2>1. Holds(filesLock, s, 2)
    BY DEF Collect
  <2>2. Holds(filesLock, s, 1)
    BY <1>1, OwnGuards DEF HoldsFiles, Stuck
  <2> QED
    BY <2>1, <2>2 DEF Holds
<1>3. Holds(filesLock, s, 1)
  BY <1>2 DEF Collect
<1> QED
  BY <1>1, <1>2, <1>3 DEF Stuck, UsesCache, Publishes, ForDocument

(* references and rename collect under the files and return; references    *)
(* may ask for the global cache as well.                                   *)
LEMMA CollectLocks ==
    ASSUME Locks, NEW s \in Slots, Collect(s)
    PROVE  Locks' /\ Steps(s)
<1>1. /\ Holds(filesLock, s, 1) /\ ~Stuck(task[s]) /\ ~UsesCache(task[s])
      /\ task[s].uri \in Uris
  BY OnlyReferencesCollect
<1>2. DataTyped'
  BY LocksParts DEF Collect, DataTyped, clientVars, dataVars, sendVars
<1>3. CASE filesLock' = Drop(filesLock) /\ Return(s) /\ UNCHANGED cacheLock
  BY <1>1, <1>2, <1>3, ReturnLocks
<1>4. CASE cacheLock' = Ask(cacheLock, s, 1) /\ Goto(s, "suggest") /\ UNCHANGED filesLock
  BY <1>1, <1>2, <1>4, AskCacheLocks
<1> QED
  BY <1>3, <1>4 DEF Collect

(* completion keeps the files and asks for the global cache, or panics.    *)
LEMMA CompleteLocks ==
    ASSUME Locks, NEW s \in Slots, Complete(s)
    PROVE  Locks' /\ Steps(s)
<1>1. /\ task \in [Slots -> Task] /\ ForDocument(task[s]) /\ DataTyped
      /\ task[s].pc = "read" /\ Holds(filesLock, s, 1)
  BY LocksParts DEF Complete, At
<1>2. /\ ~Stuck(task[s]) /\ ~UsesCache(task[s]) /\ task[s].uri \in Uris
  BY <1>1 DEF UsesCache, Publishes, Stuck, ForDocument
<1>3. DataTyped'
  BY <1>1 DEF Complete, DataTyped, clientVars, dataVars, sendVars
<1>4. CASE cacheLock' = Ask(cacheLock, s, 1) /\ Goto(s, "suggest")
  BY <1>1, <1>2, <1>3, <1>4, AskCacheLocks DEF Complete
<1>5. CASE UNCHANGED <<task, cacheLock>>
  <2>1. filesLock' = filesLock
    BY DEF Complete
  <2> QED
    BY <1>3, <1>5, <2>1, PanicLocks
<1> QED
  BY <1>4, <1>5 DEF Complete

(* The transport takes a notification; no handler moves but the one that   *)
(* waited for room.                                                        *)
LEMMA DeliverLocks ==
    ASSUME Locks, Deliver
    PROVE  Locks' /\ task' = task /\ filesLock' = filesLock /\ cacheLock' = cacheLock
<1>1. /\ outbox \in Seq([uri : Uris, version : VersionOrNone]) /\ outbox # <<>>
      /\ parked \in Seq(Slots) /\ shown \in [Uris -> VersionOrNone] /\ DataTyped
  BY LocksParts DEF Deliver, DataTyped
<1>2. /\ Head(outbox) \in [uri : Uris, version : VersionOrNone]
      /\ Tail(outbox) \in Seq([uri : Uris, version : VersionOrNone])
      /\ parked # <<>> => Tail(parked) \in Seq(Slots)
  BY <1>1, HeadTailProperties
<1>3. DataTyped'
  BY <1>1, <1>2 DEF Deliver, DataTyped, clientVars, dataVars
<1>4. task' = task /\ filesLock' = filesLock /\ cacheLock' = cacheLock
  BY DEF Deliver
<1>5. Guards' /\ Typed'
  BY <1>3, <1>4, LocksParts DEF Locks, Guards, Typed, TypeOK, DataTyped
<1> QED
  BY <1>4, <1>5 DEF Locks

(* So every step of a handler keeps the guards, and moves no guard of      *)
(* another.                                                                *)
LEMMA HandlerLocks ==
    ASSUME Locks, NEW s \in Slots, Handler(s)
    PROVE  Locks' /\ Steps(s)
  BY WriteLocks, SnapshotLocks, StoreLocks, ExtendLocks, RemoveLocks, PublishedLocks,
     AnswerLocks, GotoFoundLocks, ReferencesFoundLocks, RenameFoundLocks, CollectLocks,
     ResolveLocks, CompleteLocks, SuggestLocks
     DEF Handler

(* At the start no slot is taken and both locks are free.                  *)
LEMMA LocksInit == Init => Locks
<1> SUFFICES ASSUME Init PROVE Locks
  OBVIOUS
<1>1. /\ task \in [Slots -> Task] /\ \A s \in Slots : task[s] = Idle
      /\ filesLock = <<>> /\ cacheLock = <<>> /\ Len(<<>>) = 0
  BY IdleTask DEF Init
<1>2. TypeOK
  <2>1. /\ [u \in Uris |-> None] \in [Uris -> VersionOrNone]
        /\ None \in VersionOrNone /\ 0 \in 0 .. MaxMessages
    BY BoundsAssumption DEF VersionOrNone
  <2>2. \A S : <<>> \in Seq(S)
    OBVIOUS
  <2> QED
    BY <1>1, <2>1, <2>2 DEF Init, TypeOK
<1>3. \A s \in Slots : ForDocument(task[s])
  BY <1>1, IdleTask DEF ForDocument
<1>4. Guards
  BY <1>1, IdleTask DEF Guards, Unique, In
<1> QED
  BY <1>2, <1>3, <1>4 DEF Locks, Typed

(* The invariant is inductive.                                             *)
LEMMA LocksNext == Locks /\ [Next]_vars => Locks'
<1> SUFFICES ASSUME Locks, [Next]_vars PROVE Locks'
  OBVIOUS
<1>1. ASSUME NEW s \in Slots, Message(s) \/ Handler(s) PROVE Locks'
  BY <1>1, MessageLocks, HandlerLocks
<1>2. CASE Deliver
  BY <1>2, DeliverLocks
<1>3. CASE UNCHANGED vars
  BY <1>3 DEF vars, Locks, Typed, TypeOK, Guards
<1> QED
  BY <1>1, <1>2, <1>3 DEF Next

(* In every reachable state the guards queued at the two locks of          *)
(* SolangServer are exactly those of the handlers, each there once.        *)
THEOREM LocksAlways == Spec => []Locks
  BY LocksInit, LocksNext, PTL DEF Spec

(* Every variable of the language server stays in its type, whatever the   *)
(* documents, the messages and the interleaving of the handlers.           *)
THEOREM TypeCorrect == Spec => []TypeOK
<1>1. Locks => TypeOK
  BY DEF Locks, Typed
<1> QED
  BY <1>1, LocksAlways, PTL

(* Every handler takes the files before the global cache, or has given     *)
(* them back: whoever holds the cache has no guard of the files left to    *)
(* wait for, so the two locks cannot be waited for in a circle.            *)
THEOREM LockOrderCorrect == Spec => []LockOrder
<1>1. Locks => LockOrder
  <2> SUFFICES ASSUME Locks, NEW s \in Slots, cacheLock # <<>>, Head(cacheLock)[1] = s,
                      NEW i \in 2 .. Len(filesLock), filesLock[i][1] = s
               PROVE  FALSE
    BY DEF LockOrder
  <2>1. /\ filesLock \in Seq(Guard) /\ Unique(filesLock) /\ cacheLock \in Seq(Guard)
        /\ Len(filesLock) \in Nat /\ Len(cacheLock) \in Nat /\ Len(cacheLock) # 0
    BY LocksParts, LenProperties, EmptySeq
  <2>2. i \in 1 .. Len(filesLock) /\ 1 \in 1 .. Len(filesLock) /\ i # 1
    BY <2>1
  <2>3. filesLock[i] \in Guard /\ cacheLock[1] \in Guard /\ Head(cacheLock) = cacheLock[1]
    BY <2>1, <2>2, ElementOfSeq, HeadTailProperties
  <2>4. PICK m \in {1, 2}, n \in {1, 2} : filesLock[i] = <<s, m>> /\ cacheLock[1] = <<s, n>>
    BY <2>3 DEF Guard
  <2>5. In(filesLock, <<s, m>>) /\ In(cacheLock, <<s, n>>)
    BY <2>1, <2>2, <2>4 DEF In
  <2>6. n = 1 /\ UsesCache(task[s])
    BY <2>4, <2>5, OwnGuards
  <2>7. UsesFiles(task[s]) /\ ~Stuck(task[s])
    BY <2>4, <2>5, <2>6, OwnGuards DEF UsesCache, UsesFiles, Stuck, Publishes
  <2>8. Holds(filesLock, s, 1) /\ m = 1
    BY <2>4, <2>5, <2>6, <2>7, OwnGuards DEF UsesCache, UsesFiles, HoldsFiles, Publishes
  <2>9. filesLock[1] = <<s, 1>>
    BY <2>1, <2>8, HeadTailProperties DEF Holds
  <2>10. filesLock[i] = filesLock[1]
    BY <2>4, <2>8, <2>9
  <2> QED
    BY <2>1, <2>2, <2>10 DEF Unique
<1> QED
  BY <1>1, LocksAlways, PTL

-----------------------------------------------------------------------------
(* Who waits for the channel waits for a message that is in it: all but    *)
(* the first were sent by handlers that wait.                              *)
Parked ==
    \/ Len(outbox) = 0 /\ Len(parked) = 0
    \/ Len(outbox) = Len(parked) + 1

LEMMA Queues ==
    ASSUME Locks
    PROVE  /\ outbox \in Seq([uri : Uris, version : VersionOrNone])
           /\ parked \in Seq(Slots)
           /\ Len(outbox) \in Nat /\ Len(parked) \in Nat
           /\ outbox = <<>> <=> Len(outbox) = 0
           /\ parked = <<>> <=> Len(parked) = 0
<1>1. /\ outbox \in Seq([uri : Uris, version : VersionOrNone])
      /\ parked \in Seq(Slots)
  BY LocksParts DEF DataTyped
<1> QED
  BY <1>1, LenProperties, EmptySeq

LEMMA SendParked ==
    ASSUME Locks, Parked, NEW s \in Slots, NEW u \in Uris, NEW v \in VersionOrNone,
           Send(s, u, v)
    PROVE  Parked'
<1>1. [uri |-> u, version |-> v] \in [uri : Uris, version : VersionOrNone]
  OBVIOUS
<1>2. Len(outbox') = Len(outbox) + 1
  BY <1>1, Queues, AppendProperties DEF Send
<1>3. CASE outbox = <<>>
  BY <1>2, <1>3, Queues DEF Send, Parked
<1>4. CASE outbox # <<>>
  <2>1. Len(parked') = Len(parked) + 1
    BY <1>4, Queues, AppendProperties DEF Send
  <2> QED
    BY <1>2, <1>4, <2>1, Queues DEF Parked
<1> QED
  BY <1>3, <1>4

LEMMA DeliverParked ==
    ASSUME Locks, Parked, Deliver
    PROVE  Parked'
<1>1. outbox # <<>> /\ Len(outbox') = Len(outbox) - 1
  BY Queues, HeadTailProperties DEF Deliver
<1>2. CASE parked = <<>>
  BY <1>1, <1>2, Queues DEF Deliver, Parked
<1>3. CASE parked # <<>>
  <2>1. Len(parked') = Len(parked) - 1
    BY <1>3, Queues, HeadTailProperties DEF Deliver
  <2> QED
    BY <1>1, <1>3, <2>1, Queues DEF Parked
<1> QED
  BY <1>2, <1>3

LEMMA HandlerParked ==
    ASSUME Locks, Parked, NEW s \in Slots, Handler(s)
    PROVE  Parked'
<1>1. task[s] \in Task /\ ForDocument(task[s])
  BY LocksParts
<1>2. CASE Extend(s)
  <2>1. task[s].uri \in Uris /\ task[s].snap \in [Uris -> VersionOrNone]
    BY <1>1, <1>2 DEF Extend, At, ForDocument, Task
  <2>2. task[s].snap[task[s].uri] \in VersionOrNone
    BY <2>1
  <2>3. Send(s, task[s].uri, task[s].snap[task[s].uri])
    BY <1>2 DEF Extend
  <2> QED
    BY <2>1, <2>2, <2>3, SendParked
<1>3. CASE Remove(s)
  <2>1. task[s].uri \in Uris /\ None \in VersionOrNone
    BY <1>1, <1>3 DEF Remove, At, ForDocument, VersionOrNone
  <2>2. Send(s, task[s].uri, None)
    BY <1>3 DEF Remove
  <2> QED
    BY <2>1, <2>2, SendParked
<1>4. CASE ~Extend(s) /\ ~Remove(s)
  <2>1. outbox' = outbox /\ parked' = parked
    BY <1>4 DEF Handler, Write, Snapshot, Store, Published, Answer, GotoFound,
       ReferencesFound, RenameFound, Collect, Resolve, Complete, Suggest, sendVars
  <2> QED
    BY <2>1 DEF Parked
<1> QED
  BY <1>2, <1>3, <1>4

LEMMA ParkedAlways == Spec => []Parked
<1>1. Init => Parked
  BY DEF Init, Parked
<1>2. Locks /\ Parked /\ [Next]_vars => Parked'
  <2> SUFFICES ASSUME Locks, Parked, [Next]_vars PROVE Parked'
    OBVIOUS
  <2>1. ASSUME NEW s \in Slots, Message(s) PROVE Parked'
    <3>1. outbox' = outbox /\ parked' = parked
      BY <2>1 DEF Message, DidOpen, DidChange, DidSave, DidClose, Query, Start, sendVars
    <3> QED
      BY <3>1 DEF Parked
  <2>2. ASSUME NEW s \in Slots, Handler(s) PROVE Parked'
    BY <2>2, HandlerParked
  <2>3. CASE Deliver
    BY <2>3, DeliverParked
  <2>4. CASE UNCHANGED vars
    BY <2>4 DEF vars, Parked
  <2> QED
    BY <2>1, <2>2, <2>3, <2>4 DEF Next
<1> QED
  BY <1>1, <1>2, LocksAlways, PTL DEF Spec

(* What is at the head of a lock that somebody uses is the guard of a      *)
(* handler that uses it.                                                   *)
LEMMA FilesHead ==
    ASSUME Locks, NEW s \in Slots, UsesFiles(task[s]), ~Stuck(task[s]),
           \A t \in Slots : ~Stuck(task[t])
    PROVE  /\ filesLock # <<>>
           /\ \E t \in Slots : Head(filesLock) = <<t, 1>> /\ UsesFiles(task[t])
<1>1. In(filesLock, <<s, 1>>) /\ filesLock \in Seq(Guard) /\ Unique(filesLock)
  BY OwnGuards, LocksParts
<1>2. filesLock # <<>>
  <2>1. Len(filesLock) \in Nat /\ Len(filesLock) # 0
    BY <1>1, LenProperties DEF In
  <2> QED
    BY <1>1, <2>1, EmptySeq
<1>3. Head(filesLock) \in Guard /\ In(filesLock, Head(filesLock))
  BY <1>1, <1>2, DropLock, HeadTailProperties
<1>4. PICK t \in Slots, n \in {1, 2} : Head(filesLock) = <<t, n>>
  BY <1>3 DEF Guard
<1>5. n = 1
  BY <1>3, <1>4, OwnGuards
<1> QED
  BY <1>2, <1>3, <1>4, <1>5, OwnGuards

LEMMA CacheHead ==
    ASSUME Locks, NEW s \in Slots, UsesCache(task[s])
    PROVE  /\ cacheLock # <<>>
           /\ \E t \in Slots : Head(cacheLock) = <<t, 1>> /\ UsesCache(task[t])
<1>1. In(cacheLock, <<s, 1>>) /\ cacheLock \in Seq(Guard) /\ Unique(cacheLock)
  BY OwnGuards, LocksParts
<1>2. cacheLock # <<>>
  <2>1. Len(cacheLock) \in Nat /\ Len(cacheLock) # 0
    BY <1>1, LenProperties DEF In
  <2> QED
    BY <1>1, <2>1, EmptySeq
<1>3. Head(cacheLock) \in Guard /\ In(cacheLock, Head(cacheLock))
  BY <1>1, <1>2, DropLock, HeadTailProperties
<1>4. PICK t \in Slots, n \in {1, 2} : Head(cacheLock) = <<t, n>>
  BY <1>3 DEF Guard
<1>5. n = 1
  BY <1>3, <1>4, OwnGuards
<1> QED
  BY <1>2, <1>3, <1>4, <1>5, OwnGuards

(* A handler that publishes goes on when the channel does.                 *)
LEMMA PublisherGoesOn ==
    ASSUME Locks, Parked, NEW s \in Slots, task[s].pc = "publish"
    PROVE  GoesOn(s)
<1>1. Waiting(s) => outbox # <<>>
  BY Queues DEF Waiting, Parked
<1> QED
  BY <1>1 DEF GoesOn

(* Who has the cache goes on, and who has the files does, or waits for     *)
(* who has the cache.                                                      *)
LEMMA CacheHolder ==
    ASSUME Locks, Parked, NEW t \in Slots, UsesCache(task[t]),
           cacheLock # <<>>, Head(cacheLock) = <<t, 1>>
    PROVE  GoesOn(t)
<1>1. CASE WantsCache(task[t])
  BY <1>1 DEF GoesOn, Holds
<1>2. CASE ~WantsCache(task[t])
  BY <1>2, PublisherGoesOn DEF UsesCache, WantsCache, Publishes
<1> QED
  BY <1>1, <1>2

LEMMA CacheWaiter ==
    ASSUME Locks, Parked, NEW s \in Slots, WantsCache(task[s])
    PROVE  \E t \in Slots : WaitsFor(s, t) /\ GoesOn(t)
<1>1. UsesCache(task[s])
  BY DEF WantsCache, UsesCache
<1>2. PICK t \in Slots :
         cacheLock # <<>> /\ Head(cacheLock) = <<t, 1>> /\ UsesCache(task[t])
  BY <1>1, CacheHead
<1>3. GoesOn(t)
  BY <1>2, CacheHolder
<1>4. WaitsFor(s, t)
  BY <1>2 DEF WaitsFor
<1> QED
  BY <1>3, <1>4

LEMMA FilesHolder ==
    ASSUME Locks, Parked, NEW t \in Slots, UsesFiles(task[t]), ~Stuck(task[t]),
           filesLock # <<>>, Head(filesLock) = <<t, 1>>
    PROVE  GoesOn(t) \/ \E r \in Slots : WaitsFor(t, r) /\ GoesOn(r)
<1>1. CASE WantsFiles(task[t])
  BY <1>1 DEF GoesOn, Holds
<1>2. CASE WantsCache(task[t])
  BY <1>2, CacheWaiter
<1>3. CASE ~WantsFiles(task[t]) /\ ~WantsCache(task[t])
  BY <1>3, PublisherGoesOn DEF UsesFiles, WantsFiles, WantsCache, Publishes
<1> QED
  BY <1>1, <1>2, <1>3

(* In SolangServer no handlers wait for each other in a circle, be it by   *)
(* its two mutexes or by the channel to the client: every one goes on, or  *)
(* is at most two waits behind one that does.                              *)
THEOREM NobodyDeadlocks == Spec => []BehindOneThatGoesOn
<1>1. Locks /\ Parked => BehindOneThatGoesOn
  <2> SUFFICES ASSUME Locks, Parked, \A t \in Slots : ~Stuck(task[t]),
                      NEW s \in Slots, task[s].pc # "idle"
               PROVE  \/ GoesOn(s)
                      \/ \E t \in Slots : WaitsFor(s, t) /\
                           (GoesOn(t) \/ \E r \in Slots : WaitsFor(t, r) /\ GoesOn(r))
    BY DEF BehindOneThatGoesOn
  <2>1. task[s].pc \in Pc
    BY LocksParts DEF Task
  <2>2. CASE WantsFiles(task[s])
    <3>1. UsesFiles(task[s])
      BY <2>2 DEF WantsFiles, UsesFiles
    <3>2. PICK t \in Slots :
             filesLock # <<>> /\ Head(filesLock) = <<t, 1>> /\ UsesFiles(task[t])
      BY <3>1, FilesHead
    <3>3. WaitsFor(s, t)
      BY <2>2, <3>2 DEF WaitsFor
    <3>4. GoesOn(t) \/ \E r \in Slots : WaitsFor(t, r) /\ GoesOn(r)
      BY <3>2, FilesHolder
    <3> QED
      BY <3>3, <3>4
  <2>3. CASE WantsCache(task[s])
    BY <2>3, CacheWaiter
  <2>4. CASE task[s].pc = "publish"
    BY <2>4, PublisherGoesOn
  <2> QED
    BY <2>1, <2>2, <2>3, <2>4 DEF Pc, WantsFiles, WantsCache
<1> QED
  BY <1>1, LocksAlways, ParkedAlways, PTL

-----------------------------------------------------------------------------
(* Where a handler goes has fewer awaits left.                             *)
LEMMA Nearer ==
    ASSUME Locks, NEW s \in Slots, Handler(s), ~Stuck(task[s]), task'[s] # task[s]
    PROVE  Awaits(task'[s]) < Awaits(task[s])
<1>1. task \in [Slots -> Task]
  BY LocksParts
<1>2. ASSUME NEW pc \in Pc, Goto(s, pc) PROVE task'[s].pc = pc
  BY <1>1, <1>2, TaskGoto
<1>3. ASSUME Return(s) PROVE task'[s].pc = "idle"
  BY <1>1, <1>3, TaskReturn, IdleTask
<1>4. CASE Write(s)
  BY <1>2, <1>4 DEF Write, At, Awaits, Pc
<1>5. CASE Snapshot(s)
  <2>1. task'[s].pc = "store"
    BY <1>1, <1>5 DEF Snapshot, Task
  <2> QED
    BY <1>5, <2>1 DEF Snapshot, At, Awaits
<1>6. CASE Store(s)
  BY <1>2, <1>6 DEF Store, At, Awaits, Pc
<1>7. CASE Extend(s)
  BY <1>2, <1>7 DEF Extend, At, Awaits, Pc
<1>8. CASE Remove(s)
  BY <1>2, <1>8 DEF Remove, At, Awaits, Pc
<1>9. CASE Published(s)
  BY <1>3, <1>9 DEF Published, At, Awaits
<1>10. CASE Answer(s)
  BY <1>3, <1>10 DEF Answer, At, Awaits
<1>11. CASE GotoFound(s)
  <2>1. task'[s].pc = "resolve"
    BY <1>1, <1>11 DEF GotoFound, Task
  <2> QED
    BY <1>11, <2>1 DEF GotoFound, At, Awaits
<1>12. CASE ReferencesFound(s)
  BY <1>2, <1>12 DEF ReferencesFound, At, Awaits, Pc
<1>13. CASE RenameFound(s)
  BY <1>2, <1>13 DEF RenameFound, At, Awaits, Pc
<1>14. CASE Collect(s)
  <2>1. task'[s].pc \in {"idle", "suggest"}
    BY <1>2, <1>3, <1>14 DEF Collect, Pc
  <2> QED
    BY <1>14, <2>1 DEF Collect, At, Awaits
<1>15. CASE Resolve(s)
  BY <1>3, <1>15 DEF Resolve, At, Awaits
<1>16. CASE Complete(s)
  <2>1. Goto(s, "suggest")
    BY <1>16 DEF Complete
  <2> QED
    BY <1>2, <1>16, <2>1 DEF Complete, At, Awaits, Pc
<1>17. CASE Suggest(s)
  <2>1. Return(s)
    BY <1>17 DEF Suggest
  <2> QED
    BY <1>3, <1>17, <2>1 DEF Suggest, At, Awaits
<1> QED
  BY <1>4, <1>5, <1>6, <1>7, <1>8, <1>9, <1>10, <1>11, <1>12, <1>13, <1>14, <1>15,
     <1>16, <1>17 DEF Handler

(* A rename with a reference holds the files, and asks for them.           *)
LEMMA StuckStays ==
    ASSUME Locks, NEW s \in Slots, Stuck(task[s])
    PROVE  ~Handler(s) /\ ~Message(s)
<1>1. Holds(filesLock, s, 1)
  BY OwnGuards DEF HoldsFiles
<1>2. ~Holds(filesLock, s, 2)
  BY <1>1 DEF Holds
<1>3. ~Collect(s)
  BY <1>2 DEF Collect, Stuck
<1>4. ~Handler(s)
  BY <1>3 DEF Handler, Stuck, At, Write, Snapshot, Store, Extend, Remove, Published, Answer,
     GotoFound, ReferencesFound, RenameFound, Resolve, Complete, Suggest
<1>5. task[s] # Idle
  BY IdleTask
<1> QED
  BY <1>4, <1>5 DEF Message, DidOpen, DidChange, DidSave, DidClose, Query, Start

(* Which slot a step is of, if it changes the task there.                  *)
LEMMA OwnStep ==
    ASSUME Locks, [Next]_vars, NEW s \in Slots, task'[s] # task[s]
    PROVE  Message(s) \/ Handler(s)
<1>1. CASE Deliver
  BY <1>1, DeliverLocks
<1>2. ASSUME NEW r \in Slots, Message(r) \/ Handler(r) PROVE r = s
  BY <1>2, MessageLocks, HandlerLocks DEF Steps
<1>3. CASE UNCHANGED vars
  BY <1>3 DEF vars
<1> QED
  BY <1>1, <1>2, <1>3 DEF Next

(* No handler of SolangServer comes to an await twice, so with the theorem *)
(* before all it takes for them to return is that those that can go on do. *)
THEOREM HandlersGetNearer == Spec => NeverTurnsBack
<1>1. Locks /\ [Next]_vars =>
         [\A s \in Slots : task[s].pc # "idle" /\ task'[s] # task[s] =>
             Awaits(task'[s]) < Awaits(task[s])]_vars
  <2> SUFFICES ASSUME Locks, [Next]_vars, NEW s \in Slots, task[s].pc # "idle",
                      task'[s] # task[s]
               PROVE  Awaits(task'[s]) < Awaits(task[s])
    OBVIOUS
  <2>1. ~Message(s)
    BY IdleTask DEF Message, DidOpen, DidChange, DidSave, DidClose, Query, Start
  <2>2. Handler(s)
    BY <2>1, OwnStep
  <2>3. ~Stuck(task[s])
    BY <2>2, StuckStays
  <2> QED
    BY <2>2, <2>3, Nearer
<1> QED
  BY <1>1, LocksAlways, PTL DEF Spec, NeverTurnsBack

(* rename (languageserver.rs:2678) takes the files and asks for them, so   *)
(* it never returns, and holds them for ever.                              *)
THEOREM RenamesHang == Spec => RenameNeverReturns
<1>1. Locks /\ [Next]_vars =>
         [\A s \in Slots : Stuck(task[s]) => task'[s] = task[s]]_vars
  BY OwnStep, StuckStays
<1> QED
  BY <1>1, LocksAlways, PTL DEF Spec, RenameNeverReturns

-----------------------------------------------------------------------------
(* The handler in slot s gets the files before the one in t.               *)
Ahead(s, t) == Before(filesLock, <<s, 1>>, <<t, 1>>)

Carries(s) == task[s].pc \in {"store", "extend"}
Writes(s, u) == task[s].pc = "write" /\ task[s].uri = u

(* No text of u that is there, or still to come, is older than v; one that *)
(* is opened is newer.                                                     *)
NotAfter(u, v) ==
    /\ v <= version
    /\ latest[u] # None => v <= latest[u]
    /\ textBuffers[u] # None => v <= textBuffers[u]
    /\ \A s \in Slots : Writes(s, u) =>
          v <= task[s].arg /\ (task[s].kind = "didOpen" => v < task[s].arg)

(* Nor is one that a parse has read.                                       *)
Reached(u, v) ==
    /\ NotAfter(u, v)
    /\ \A s \in Slots :
          Carries(s) /\ task[s].snap[u] # None => v <= task[s].snap[u]

(* Texts are written in the order the client sent them.                    *)
WritesInOrder ==
    /\ \A u \in Uris : latest[u] <= version /\ NotAfter(u, textBuffers[u])
    /\ \A s \in Slots, u \in Uris : Writes(s, u) =>
          /\ task[s].arg <= version
          /\ latest[u] # None => task[s].arg <= latest[u]
          /\ \A t \in Slots : Writes(t, u) /\ Ahead(s, t) =>
                /\ task[s].arg <= task[t].arg
                /\ task[t].kind = "didOpen" => task[s].arg < task[t].arg

(* Parses store what they have read in the order they read it.             *)
ParsesInOrder ==
    \A s \in Slots : Carries(s) => \A u \in Uris :
        /\ NotAfter(u, task[s].snap[u])
        /\ \A t \in Slots :
              Carries(t) /\ Ahead(s, t) /\ task[t].snap[u] # None =>
                  task[s].snap[u] <= task[t].snap[u]

(* Nothing that has been stored or sent is newer than what is on its way,  *)
(* and notifications are sent in order.                                    *)
ResultsInOrder ==
    /\ \A u \in Uris :
          Reached(u, definitions[u]) /\ Reached(u, caches[u]) /\ Reached(u, shown[u])
    /\ \A i \in 1 .. Len(outbox) :
          /\ Reached(outbox[i].uri, outbox[i].version)
          /\ outbox[i].version # None =>
                /\ shown[outbox[i].uri] <= outbox[i].version
                /\ \A j \in 1 .. i : outbox[j].uri = outbox[i].uri =>
                      outbox[j].version <= outbox[i].version

(* The definitions are behind the caches only while a parse has stored the *)
(* ones and not yet the others, and then it holds the files.               *)
DefinitionsFollow ==
    /\ \A u \in Uris :
          \/ caches[u] <= definitions[u]
          \/ \E s \in Slots : task[s].pc = "extend" /\ u \in Parsed(s)
    /\ \A s \in Slots : task[s].pc = "resolve" =>
          task[s].arg <= definitions[task[s].uri]

Order == WritesInOrder /\ ParsesInOrder /\ ResultsInOrder /\ DefinitionsFollow

-----------------------------------------------------------------------------
(* The queue for the files: who has a guard is in it, once.                *)
LEMMA AheadFacts ==
    ASSUME Locks
    PROVE  /\ \A q, r \in Slots : Ahead(q, r) =>
                  UsesFiles(task[q]) /\ UsesFiles(task[r]) /\ q # r /\ ~Ahead(r, q)
           /\ \A q, r, t \in Slots : Ahead(q, r) /\ Ahead(r, t) => Ahead(q, t)
           /\ \A q, r \in Slots : UsesFiles(task[q]) /\ UsesFiles(task[r]) /\ q # r =>
                  Ahead(q, r) \/ Ahead(r, q)
<1>1. filesLock \in Seq(Guard) /\ Unique(filesLock)
  BY LocksParts
<1>2. \A q \in Slots : In(filesLock, <<q, 1>>) <=> UsesFiles(task[q])
  BY OwnGuards
<1>3. \A q, r : q # r <=> <<q, 1>> # <<r, 1>>
  OBVIOUS
<1> QED
  BY <1>1, <1>2, <1>3, Line DEF Ahead

(* The one that holds it is before all others.                             *)
LEMMA HolderFirst ==
    ASSUME Locks, NEW s \in Slots, Holds(filesLock, s, 1)
    PROVE  \A r \in Slots : /\ ~Ahead(r, s)
                            /\ r # s /\ UsesFiles(task[r]) => Ahead(s, r)
<1>1. filesLock \in Seq(Guard) /\ Unique(filesLock)
  BY LocksParts
<1>2. filesLock # <<>> /\ Head(filesLock) = <<s, 1>>
  BY DEF Holds
<1>3. /\ \A g : In(filesLock, g) /\ g # <<s, 1>> => Before(filesLock, <<s, 1>>, g)
      /\ \A g : ~Before(filesLock, g, <<s, 1>>)
  <2>1. /\ \A g : In(filesLock, g) /\ g # Head(filesLock) =>
                     Before(filesLock, Head(filesLock), g)
        /\ \A g : ~Before(filesLock, g, Head(filesLock))
    BY <1>1, <1>2, DropLock
  <2> QED
    BY <1>2, <2>1
<1>4. \A r \in Slots : r # s <=> <<r, 1>> # <<s, 1>>
  OBVIOUS
<1> QED
  BY <1>3, <1>4, OwnGuards DEF Ahead

(* Nobody overtakes another while a third takes its step.                  *)
LEMMA OthersKeepOrder ==
    ASSUME NEW s \in Slots, Steps(s)
    PROVE  \A q, r \in Slots \ {s} : Ahead(q, r)' <=> Ahead(q, r)
  BY DEF Steps, OnlyMoves, Ahead

(* The one that asks is behind all others.                                 *)
LEMMA AskerLast ==
    ASSUME Locks, NEW s \in Slots,
           \/ filesLock' = Ask(filesLock, s, 1) /\ ~UsesFiles(task[s])
           \/ filesLock' = Ask(Drop(filesLock), s, 1) /\ Holds(filesLock, s, 1)
    PROVE  \A r \in Slots : /\ ~Ahead(s, r)'
                            /\ r # s /\ UsesFiles(task[r]) => Ahead(r, s)'
<1>1. filesLock \in Seq(Guard) /\ Unique(filesLock)
  BY LocksParts
<1>2. \A r : r # s <=> <<r, 1>> # <<s, 1>>
  OBVIOUS
<1>3. \A r \in Slots : In(filesLock, <<r, 1>>) <=> UsesFiles(task[r])
  BY OwnGuards
<1>4. PICK d \in Seq(Guard) :
         /\ Unique(d) /\ filesLock' = Ask(d, s, 1) /\ ~In(d, <<s, 1>>)
         /\ \A r \in Slots \ {s} : In(d, <<r, 1>>) <=> UsesFiles(task[r])
  <2>1. CASE filesLock' = Ask(filesLock, s, 1) /\ ~UsesFiles(task[s])
    BY <1>1, <1>3, <2>1
  <2>2. CASE filesLock' = Ask(Drop(filesLock), s, 1) /\ Holds(filesLock, s, 1)
    <3>1. /\ OnlyMoves(filesLock, Drop(filesLock), s)
          /\ \A m \in {1, 2} :
                In(Drop(filesLock), <<s, m>>) <=> In(filesLock, <<s, m>>) /\ m # 1
      BY <1>1, <2>2, MoveDrop
    <3> QED
      BY <1>3, <2>2, <3>1 DEF OnlyMoves
  <2> QED
    BY <2>1, <2>2
<1>5. \A g, h : Before(filesLock', g, h) <=>
                   Before(d, g, h) \/ (In(d, g) /\ h = <<s, 1>>)
  BY <1>4, AskLock
<1>6. \A r : ~Before(d, <<s, 1>>, <<r, 1>>)
  BY <1>4, Line
<1> QED
  BY <1>2, <1>4, <1>5, <1>6 DEF Ahead

-----------------------------------------------------------------------------
(* The steps, by what they do to the texts and to what is computed of them.*)

(* A completion that has not begun, and what it is asked in.               *)
Completes(t) == t.pc = "read" /\ t.kind \in Completions
Asked(t, v) == t.pos \in AsksAt(t.kind, v)

(* A message; a text it carries is the next one, or the last one again.    *)
MessageStep(s) ==
    LET u == task'[s].uri IN
    /\ UNCHANGED <<dataVars, outbox, shown>>
    /\ u \in Uris
    /\ task[s].pc = "idle"
    /\ \/ /\ UNCHANGED <<latest, version>> /\ latest[u] # None
          /\ task'[s].pc \in {"write", "snapshot", "read"}
          /\ task'[s].pc = "write" =>
                task'[s].arg = latest[u] /\ task'[s].kind # "didOpen"
          /\ Completes(task'[s]) => Asked(task'[s], latest[u])
       \/ /\ version' = version /\ latest' = [latest EXCEPT ![u] = None]
          /\ task'[s].pc = "remove"
       \/ /\ version' = version + 1 /\ latest' = [latest EXCEPT ![u] = version + 1]
          /\ task'[s].pc = "write" /\ task'[s].arg = version + 1
          /\ latest[u] = None => task'[s].kind = "didOpen"

(* A step that changes no text and carries no result.                      *)
QuietStep(s) ==
    /\ UNCHANGED <<latest, version, dataVars, outbox, shown>>
    /\ task[s].pc \in {"read", "publish", "collect", "resolve", "suggest"}
    /\ task'[s].pc \in {"idle", "collect", "resolve", "suggest"}
    /\ task'[s].pc = "resolve" => /\ task'[s].uri = task[s].uri
                                  /\ task'[s].arg = caches[task[s].uri]
                                  /\ Holds(filesLock, s, 1)

(* The panics of a completion.                                             *)
Panic(s) ==
    /\ UNCHANGED <<clientVars, task, filesLock, cacheLock, dataVars, sendVars>>
    /\ ~crashed /\ crashed' = TRUE
    /\ \/ /\ Completes(task[s])
          /\ Holds(filesLock, s, 1)
          /\ caches[task[s].uri] # None
          /\ ~HasLine(caches[task[s].uri], task[s].pos)
       \/ task[s].pc = "suggest" /\ NamePanics(s)

(* What the variables hold are numbers, which the provers compare.         *)
LEMMA Numbers ==
    ASSUME Locks
    PROVE  /\ VersionOrNone \subseteq Nat /\ None \in VersionOrNone
           /\ Versions = VersionOrNone \ {None} /\ version \in VersionOrNone
           /\ \A u \in Uris : /\ latest[u] \in VersionOrNone
                              /\ textBuffers[u] \in VersionOrNone
                              /\ caches[u] \in VersionOrNone
                              /\ definitions[u] \in VersionOrNone
                              /\ diagnostics[u] \in VersionOrNone
                              /\ shown[u] \in VersionOrNone
           /\ \A s \in Slots : task[s].arg \in Nat
           /\ \A s \in Slots, u \in Uris : task[s].snap[u] \in VersionOrNone
           /\ outbox \in Seq([uri : Uris, version : VersionOrNone]) /\ Len(outbox) \in Nat
           /\ \A i \in 1 .. Len(outbox) :
                 outbox[i].uri \in Uris /\ outbox[i].version \in VersionOrNone
<1>1. /\ VersionOrNone \subseteq Nat /\ None \in VersionOrNone
      /\ Versions = VersionOrNone \ {None}
  BY BoundsAssumption DEF VersionOrNone, Versions, None
<1>2. task \in [Slots -> Task] /\ DataTyped
  BY LocksParts
<1>3. \A s \in Slots : task[s].arg \in Nat /\ task[s].snap \in [Uris -> VersionOrNone]
  BY <1>2 DEF Task
<1>4. outbox \in Seq([uri : Uris, version : VersionOrNone]) /\ Len(outbox) \in Nat
  BY <1>2, LenProperties DEF DataTyped
<1>5. ASSUME NEW i \in 1 .. Len(outbox)
      PROVE  outbox[i].uri \in Uris /\ outbox[i].version \in VersionOrNone
  <2>1. outbox[i] \in [uri : Uris, version : VersionOrNone]
    BY <1>4, ElementOfSeq
  <2> QED
    BY <2>1
<1> QED
  BY <1>1, <1>2, <1>3, <1>4, <1>5 DEF DataTyped

(* A message is a MessageStep, and its handler is behind all that have a   *)
(* guard.                                                                  *)
LEMMA MessageSteps ==
    ASSUME Locks, NEW s \in Slots, Message(s)
    PROVE  /\ MessageStep(s)
           /\ \A r \in Slots : /\ ~Ahead(s, r)'
                               /\ r # s /\ UsesFiles(task[r]) => Ahead(r, s)'
<1>1. PICK u \in Uris : DidOpen(s, u) \/ DidChange(s, u) \/ DidSave(s, u)
                          \/ DidClose(s, u) \/ Query(s, u)
  BY DEF Message
<1>2. ASSUME NEW kind, NEW arg, NEW pos, NEW pc, Start(s, kind, u, arg, pos, pc)
      PROVE  /\ task'[s].uri = u /\ task'[s].kind = kind
             /\ task'[s].arg = arg /\ task'[s].pos = pos /\ task'[s].pc = pc
             /\ UNCHANGED <<dataVars, outbox, shown>> /\ task[s].pc = "idle"
             /\ filesLock' = Ask(filesLock, s, 1) /\ ~UsesFiles(task[s])
  <2>1. task[s] = Idle /\ task \in [Slots -> Task]
    BY <1>2, LocksParts DEF Start
  <2> QED
    BY <1>2, <2>1, IdleTask DEF Start, sendVars
<1>3. filesLock' = Ask(filesLock, s, 1) /\ ~UsesFiles(task[s])
  BY <1>1, <1>2 DEF DidOpen, DidChange, DidSave, DidClose, Query
<1>4. MessageStep(s)
  <2>1. CASE DidOpen(s, u)
    BY <1>2, <2>1 DEF DidOpen, NextVersion, MessageStep
  <2>2. CASE DidChange(s, u)
    BY <1>2, <2>2 DEF DidChange, NextVersion, MessageStep
  <2>3. CASE DidSave(s, u)
    <3>1. /\ task'[s].pc \in {"write", "snapshot"}
          /\ task'[s].pc = "write" => task'[s].arg = latest[u] /\ task'[s].kind # "didOpen"
          /\ task'[s].uri = u
      BY <1>2, <2>3 DEF DidSave
    <3>2. UNCHANGED <<dataVars, outbox, shown>> /\ task[s].pc = "idle"
      BY <1>2, <2>3 DEF DidSave
    <3> QED
      BY <2>3, <3>1, <3>2 DEF DidSave, MessageStep, Completes
  <2>4. CASE DidClose(s, u)
    BY <1>2, <2>4 DEF DidClose, MessageStep
  <2>5. CASE Query(s, u)
    <3>1. CASE \E kind \in Queries : Start(s, kind, u, 0, NoPos, "read")
      <4>1. \A kind \in Queries : kind \notin Completions
        BY DEF Queries, Completions
      <4> QED
        BY <1>2, <2>5, <3>1, <4>1 DEF Query, MessageStep, Completes
    <3>2. CASE \E kind \in Completions : \E pos \in AsksAt(kind, latest[u]) :
                  Start(s, kind, u, 0, pos, "read")
      BY <1>2, <2>5, <3>2 DEF Query, MessageStep, Asked
    <3> QED
      BY <2>5, <3>1, <3>2 DEF Query
  <2> QED
    BY <1>1, <2>1, <2>2, <2>3, <2>4, <2>5
<1> QED
  BY <1>3, <1>4, AskerLast

(* Every step of a handler is of one of these forms.                       *)
LEMMA HandlerSteps ==
    ASSUME Locks, NEW s \in Slots, Handler(s)
    PROVE  \/ Write(s) \/ Snapshot(s) \/ Store(s) \/ Extend(s) \/ Remove(s)
           \/ QuietStep(s) \/ Panic(s)
<1>1. task \in [Slots -> Task]
  BY LocksParts
<1>2. Return(s) => task'[s].pc = "idle"
  BY <1>1, TaskReturn, IdleTask
<1>3. \A pc \in {"collect", "suggest"} : Goto(s, pc) => task'[s].pc = pc
  BY <1>1, TaskGoto DEF Pc
<1>4. CASE Published(s)
  BY <1>2, <1>4 DEF Published, QuietStep, At, clientVars, sendVars
<1>5. CASE Answer(s)
  BY <1>2, <1>5 DEF Answer, QuietStep, At, clientVars, sendVars
<1>6. CASE GotoFound(s)
  <2>1. task'[s] = [task[s] EXCEPT !.pc = "resolve", !.arg = caches[task[s].uri]]
    BY <1>1, <1>6 DEF GotoFound
  <2>2. /\ task'[s].pc = "resolve" /\ task'[s].arg = caches[task[s].uri]
        /\ task'[s].uri = task[s].uri
    BY <1>1, <2>1 DEF Task
  <2> QED
    BY <1>6, <2>2 DEF GotoFound, QuietStep, At, clientVars, sendVars
<1>7. CASE ReferencesFound(s)
  BY <1>3, <1>7 DEF ReferencesFound, QuietStep, At, clientVars, sendVars
<1>8. CASE RenameFound(s)
  BY <1>3, <1>8 DEF RenameFound, QuietStep, At, clientVars, sendVars
<1>9. CASE Collect(s)
  BY <1>2, <1>3, <1>9 DEF Collect, QuietStep, At, clientVars, sendVars
<1>10. CASE Resolve(s)
  BY <1>2, <1>10 DEF Resolve, QuietStep, At, clientVars, sendVars
<1>11. CASE Complete(s)
  BY <1>3, <1>11
     DEF Complete, QuietStep, Panic, Completes, At, clientVars, dataVars, sendVars
<1>12. CASE Suggest(s)
  BY <1>2, <1>12 DEF Suggest, QuietStep, Panic, At, clientVars, dataVars, sendVars
<1> QED
  BY <1>4, <1>5, <1>6, <1>7, <1>8, <1>9, <1>10, <1>11, <1>12 DEF Handler

-----------------------------------------------------------------------------
(* What stays as it was where a step does not touch it.                    *)
LEMMA SameTexts ==
    ASSUME NEW s \in Slots, Steps(s), UNCHANGED <<version, latest, textBuffers>>,
           task[s].pc # "write", task'[s].pc # "write"
    PROVE  /\ \A u \in Uris, v \in VersionOrNone : NotAfter(u, v) => NotAfter(u, v)'
           /\ WritesInOrder => WritesInOrder'
<1>1. \A r \in Slots : r # s => task'[r] = task[r]
  BY DEF Steps
<1>2. \A r \in Slots : task'[r].pc = "write" => r # s /\ task'[r] = task[r]
  BY <1>1
<1>3. ASSUME NEW u \in Uris, NEW v, NotAfter(u, v)
      PROVE  NotAfter(u, v)'
  BY <1>2, <1>3 DEF NotAfter, Writes
<1>4. ASSUME WritesInOrder
      PROVE  WritesInOrder'
  <2>1. \A u \in Uris : (latest[u] <= version /\ NotAfter(u, textBuffers[u]))'
    BY <1>2, <1>4 DEF WritesInOrder, NotAfter, Writes
  <2>2. ASSUME NEW r \in Slots, NEW u \in Uris, Writes(r, u)'
        PROVE  /\ task'[r].arg <= version'
               /\ latest'[u] # None => task'[r].arg <= latest'[u]
               /\ \A t \in Slots : Writes(t, u)' /\ Ahead(r, t)' =>
                     /\ task'[r].arg <= task'[t].arg
                     /\ task'[t].kind = "didOpen" => task'[r].arg < task'[t].arg
    <3>1. task'[r] = task[r] /\ r # s /\ Writes(r, u)
      BY <1>2, <2>2 DEF Writes
    <3>2. \A t \in Slots : Writes(t, u)' /\ Ahead(r, t)' =>
             Writes(t, u) /\ Ahead(r, t) /\ task'[t] = task[t]
      BY <1>2, <3>1, OthersKeepOrder DEF Writes
    <3> QED
      BY <1>4, <3>1, <3>2 DEF WritesInOrder
  <2> QED
    BY <2>1, <2>2 DEF WritesInOrder
<1> QED
  BY <1>3, <1>4

(* A step that carries no parse keeps the order of those that others       *)
(* carry.                                                                  *)
LEMMA SameParses ==
    ASSUME Locks, NEW s \in Slots, Steps(s), ~Carries(s), ~Carries(s)',
           \A u \in Uris, v \in VersionOrNone : NotAfter(u, v) => NotAfter(u, v)'
    PROVE  /\ \A u \in Uris, v \in VersionOrNone : Reached(u, v) => Reached(u, v)'
           /\ ParsesInOrder => ParsesInOrder'
<1>1. \A r \in Slots : Carries(r)' => r # s /\ task'[r] = task[r] /\ Carries(r)
  BY DEF Steps, Carries
<1>2. ASSUME NEW u \in Uris, NEW v \in VersionOrNone, Reached(u, v)
      PROVE  Reached(u, v)'
  <2>1. NotAfter(u, v)'
    BY <1>2 DEF Reached
  <2>2. \A r \in Slots : Carries(r)' /\ task'[r].snap[u] # None => v <= task'[r].snap[u]
    BY <1>1, <1>2 DEF Reached
  <2> QED
    BY <2>1, <2>2 DEF Reached
<1>3. ASSUME ParsesInOrder, NEW r \in Slots, Carries(r)', NEW u \in Uris
      PROVE  /\ NotAfter(u, task[r].snap[u])'
             /\ \A t \in Slots : Carries(t)' /\ Ahead(r, t)' /\ task'[t].snap[u] # None =>
                   task'[r].snap[u] <= task'[t].snap[u]
  <2>1. r # s /\ task'[r] = task[r] /\ Carries(r) /\ task[r].snap[u] \in VersionOrNone
    BY <1>1, <1>3, Numbers
  <2>2. PICK v \in VersionOrNone : v = task[r].snap[u]
    BY <2>1
  <2>3. NotAfter(u, v)
    BY <1>3, <2>1, <2>2 DEF ParsesInOrder
  <2>4. NotAfter(u, v)'
    BY <2>3
  <2>5. NotAfter(u, task[r].snap[u])'
    BY <2>1, <2>2, <2>4 DEF NotAfter
  <2>6. \A t \in Slots : Carries(t)' /\ Ahead(r, t)' =>
           Carries(t) /\ Ahead(r, t) /\ task'[t] = task[t]
    BY <1>1, <2>1, OthersKeepOrder
  <2> QED
    BY <1>3, <2>1, <2>5, <2>6 DEF ParsesInOrder
<1>4. ParsesInOrder => ParsesInOrder'
  BY <1>3 DEF ParsesInOrder
<1> QED
  BY <1>2, <1>4

(* A step that stores and sends nothing keeps what was stored and sent.    *)
LEMMA SameResults ==
    ASSUME Locks, UNCHANGED <<caches, definitions, shown, outbox>>, ResultsInOrder,
           \A u \in Uris, v \in VersionOrNone : Reached(u, v) => Reached(u, v)'
    PROVE  ResultsInOrder'
<1>1. \A u \in Uris, v \in VersionOrNone : Reached(u, v) => Reached(u, v)'
  OBVIOUS
<1>2. ASSUME NEW u \in Uris
      PROVE  (Reached(u, definitions[u]) /\ Reached(u, caches[u]) /\ Reached(u, shown[u]))'
  <2>1. PICK c \in VersionOrNone, d \in VersionOrNone, h \in VersionOrNone :
           c = caches[u] /\ d = definitions[u] /\ h = shown[u]
    BY Numbers
  <2>2. Reached(u, c) /\ Reached(u, d) /\ Reached(u, h)
    BY <2>1 DEF ResultsInOrder
  <2>3. Reached(u, c)' /\ Reached(u, d)' /\ Reached(u, h)'
    BY <2>2
  <2>4. c = caches'[u] /\ d = definitions'[u] /\ h = shown'[u]
    BY <2>1
  <2> QED
    BY <2>3, <2>4 DEF Reached, NotAfter
<1>3. ASSUME NEW i \in 1 .. Len(outbox)
      PROVE  Reached(outbox[i].uri, outbox[i].version)'
  <2>1. PICK u \in Uris, v \in VersionOrNone : u = outbox[i].uri /\ v = outbox[i].version
    BY Numbers
  <2>2. Reached(u, v)'
    BY <2>1 DEF ResultsInOrder
  <2>3. u = outbox'[i].uri /\ v = outbox'[i].version
    BY <2>1
  <2> QED
    BY <2>2, <2>3 DEF Reached, NotAfter
<1>4. \A i \in 1 .. Len(outbox) : outbox'[i].version # None =>
         /\ shown'[outbox'[i].uri] <= outbox'[i].version
         /\ \A j \in 1 .. i : outbox'[j].uri = outbox'[i].uri =>
               outbox'[j].version <= outbox'[i].version
  BY DEF ResultsInOrder
<1> QED
  BY <1>2, <1>3, <1>4 DEF ResultsInOrder

(* A step that stores nothing, but may begin to look a definition up.      *)
LEMMA SameDefinitions ==
    ASSUME Locks, NEW s \in Slots, Steps(s), UNCHANGED <<caches, definitions>>,
           DefinitionsFollow, task[s].pc # "extend",
           task'[s].pc = "resolve" => task'[s].arg <= definitions[task'[s].uri]
    PROVE  DefinitionsFollow'
<1>1. \A r \in Slots : r # s => task'[r] = task[r]
  BY DEF Steps
<1>2. ASSUME NEW u \in Uris
      PROVE  \/ caches'[u] <= definitions'[u]
             \/ \E r \in Slots : task'[r].pc = "extend" /\ u \in Parsed(r)'
  BY <1>1 DEF DefinitionsFollow, Parsed
<1>3. ASSUME NEW r \in Slots, task'[r].pc = "resolve"
      PROVE  task'[r].arg <= definitions'[task'[r].uri]
  BY <1>1, <1>3 DEF DefinitionsFollow
<1> QED
  BY <1>2, <1>3 DEF DefinitionsFollow

-----------------------------------------------------------------------------
(* A handler that holds the files across an await is the only one in it.   *)
LEMMA OneHolder ==
    ASSUME Locks, NEW r \in Slots, NEW s \in Slots, HoldsFiles(task[r]),
           Holds(filesLock, s, 1)
    PROVE  r = s
<1>1. Holds(filesLock, r, 1)
  BY OwnGuards
<1> QED
  BY <1>1 DEF Holds

(* A quiet step changes none of the order.                                 *)
LEMMA QuietOrder ==
    ASSUME Locks, Order, NEW s \in Slots, Steps(s), QuietStep(s)
    PROVE  Order'
<1>1. /\ UNCHANGED <<version, latest, textBuffers, caches, definitions, shown, outbox>>
      /\ task[s].pc # "write" /\ task'[s].pc # "write"
      /\ ~Carries(s) /\ ~Carries(s)' /\ task[s].pc # "extend"
  BY DEF QuietStep, Carries, dataVars
<1>2. /\ \A u \in Uris, v \in VersionOrNone : NotAfter(u, v) => NotAfter(u, v)'
      /\ WritesInOrder'
  BY <1>1, SameTexts DEF Order
<1>3. /\ \A u \in Uris, v \in VersionOrNone : Reached(u, v) => Reached(u, v)'
      /\ ParsesInOrder'
  BY <1>1, <1>2, SameParses DEF Order
<1>4. ResultsInOrder'
  BY <1>1, <1>3, SameResults DEF Order
<1>5. ASSUME task'[s].pc = "resolve"
      PROVE  task'[s].arg <= definitions[task'[s].uri]
  <2>1. /\ task'[s].uri = task[s].uri /\ task'[s].arg = caches[task[s].uri]
        /\ Holds(filesLock, s, 1) /\ task[s].uri \in Uris
    BY <1>5, LocksParts DEF QuietStep, ForDocument
  <2>2. \A r \in Slots : task[r].pc # "extend"
    BY <1>1, <2>1, OneHolder DEF HoldsFiles
  <2> QED
    BY <2>1, <2>2 DEF Order, DefinitionsFollow
<1>6. DefinitionsFollow'
  BY <1>1, <1>5, SameDefinitions DEF Order
<1> QED
  BY <1>2, <1>3, <1>4, <1>6 DEF Order

(* A new text is the newest, and its handler the last in the queue.        *)
LEMMA MessageOrder ==
    ASSUME Locks, Order, NEW s \in Slots, Steps(s), MessageStep(s),
           \A r \in Slots : ~Ahead(s, r)'
    PROVE  Order'
<1> DEFINE w == task'[s].uri
<1>1. /\ \A r \in Slots : r # s => task'[r] = task[r]
      /\ UNCHANGED <<textBuffers, caches, definitions, shown, outbox>> /\ w \in Uris
      /\ ~Carries(s) /\ ~Carries(s)' /\ task[s].pc = "idle"
      /\ task'[s].pc # "extend" /\ task'[s].pc # "resolve"
  BY DEF MessageStep, Carries, dataVars, Steps
<1>2. /\ version \in Nat /\ version' \in Nat /\ version <= version' /\ w \in Uris
      /\ \A u \in Uris : latest[u] \in Nat
      /\ \A u \in Uris : latest'[u] # None =>
            latest'[u] = latest[u] \/ (u = w /\ version' = version + 1 /\ latest'[u] = version + 1)
      /\ task'[s].pc = "write" =>
            \/ /\ task'[s].arg = latest[w] /\ latest'[w] = latest[w] /\ latest[w] # None
               /\ task'[s].kind # "didOpen" /\ version' = version
            \/ /\ task'[s].arg = version + 1 /\ version' = version + 1
               /\ latest'[w] = version + 1
  <2>1. /\ version \in Nat /\ None \in Nat /\ w \in Uris
        /\ \A u \in Uris : latest[u] \in Nat
        /\ latest \in [Uris -> VersionOrNone]
    BY <1>1, LocksParts, Numbers DEF DataTyped
  <2>2. CASE /\ UNCHANGED <<latest, version>> /\ latest[w] # None
             /\ task'[s].pc = "write" => task'[s].arg = latest[w] /\ task'[s].kind # "didOpen"
    BY <2>1, <2>2
  <2>3. CASE /\ version' = version /\ latest' = [latest EXCEPT ![w] = None]
             /\ task'[s].pc = "remove"
    BY <2>1, <2>3
  <2>4. CASE /\ version' = version + 1 /\ latest' = [latest EXCEPT ![w] = version + 1]
             /\ task'[s].pc = "write" /\ task'[s].arg = version + 1
    BY <2>1, <2>4
  <2> QED
    BY <2>2, <2>3, <2>4 DEF MessageStep
<1> HIDE DEF w
<1>3. ASSUME NEW u \in Uris, NEW v \in VersionOrNone, NotAfter(u, v)
      PROVE  NotAfter(u, v)'
  <2>1. v \in Nat
    BY Numbers
  <2>2. v <= version' /\ (latest'[u] # None => v <= latest'[u])
    BY <1>2, <1>3, <2>1 DEF NotAfter
  <2>3. ASSUME NEW r \in Slots, Writes(r, u)'
        PROVE  v <= task'[r].arg /\ (task'[r].kind = "didOpen" => v < task'[r].arg)
    <3>1. CASE r = s
      <4>1. u = w /\ task'[s].pc = "write"
        BY <2>3, <3>1 DEF Writes, w
      <4> QED
        BY <1>2, <1>3, <2>1, <3>1, <4>1 DEF NotAfter
    <3>2. CASE r # s
      BY <1>1, <1>3, <2>3, <3>2 DEF NotAfter, Writes
    <3> QED
      BY <3>1, <3>2
  <2> QED
    BY <1>1, <1>3, <2>2, <2>3 DEF NotAfter
<1>4. WritesInOrder'
  <2>1. ASSUME NEW u \in Uris
        PROVE  (latest[u] <= version /\ NotAfter(u, textBuffers[u]))'
    <3>1. latest'[u] <= version'
      <4>1. latest[u] <= version
        BY DEF Order, WritesInOrder
      <4> QED
        BY <1>2, <4>1 DEF None
    <3>2. PICK v \in VersionOrNone : v = textBuffers[u]
      BY Numbers
    <3>3. NotAfter(u, v)
      BY <3>2 DEF Order, WritesInOrder
    <3>4. NotAfter(u, v)' /\ v = textBuffers'[u]
      BY <1>1, <1>3, <3>2, <3>3
    <3> QED
      BY <3>1, <3>4 DEF NotAfter
  <2>2. ASSUME NEW r \in Slots, NEW u \in Uris, Writes(r, u)'
        PROVE  /\ task'[r].arg <= version'
               /\ latest'[u] # None => task'[r].arg <= latest'[u]
               /\ \A t \in Slots : Writes(t, u)' /\ Ahead(r, t)' =>
                     /\ task'[r].arg <= task'[t].arg
                     /\ task'[t].kind = "didOpen" => task'[r].arg < task'[t].arg
    <3>1. CASE r = s
      <4>1. u = w /\ task'[s].pc = "write"
        BY <2>2, <3>1 DEF Writes, w
      <4>2. latest[w] <= version
        BY <1>2 DEF Order, WritesInOrder
      <4> QED
        BY <1>2, <3>1, <4>1, <4>2
    <3>2. CASE r # s
      <4>1. task'[r] = task[r] /\ Writes(r, u) /\ task[r].arg \in Nat
        BY <1>1, <2>2, <3>2, Numbers DEF Writes
      <4>2. /\ task[r].arg <= version
            /\ latest[u] # None => task[r].arg <= latest[u]
        BY <4>1 DEF Order, WritesInOrder
      <4>3. /\ task'[r].arg <= version'
            /\ latest'[u] # None => task'[r].arg <= latest'[u]
        BY <1>2, <4>1, <4>2
      <4>4. ASSUME NEW t \in Slots, Writes(t, u)', Ahead(r, t)'
            PROVE  /\ task'[r].arg <= task'[t].arg
                   /\ task'[t].kind = "didOpen" => task'[r].arg < task'[t].arg
        <5>1. CASE t = s
          <6>1. u = w /\ task'[s].pc = "write"
            BY <4>4, <5>1 DEF Writes, w
          <6> QED
            BY <1>2, <4>1, <4>2, <5>1, <6>1
        <5>2. CASE t # s
          <6>1. Writes(t, u) /\ Ahead(r, t) /\ task'[t] = task[t]
            BY <1>1, <3>2, <4>4, <5>2, OthersKeepOrder DEF Writes
          <6> QED
            BY <4>1, <6>1 DEF Order, WritesInOrder
        <5> QED
          BY <5>1, <5>2
      <4> QED
        BY <4>3, <4>4
    <3> QED
      BY <3>1, <3>2
  <2> QED
    BY <2>1, <2>2 DEF WritesInOrder
<1>5. /\ \A u \in Uris, v \in VersionOrNone : Reached(u, v) => Reached(u, v)'
      /\ ParsesInOrder'
  BY <1>1, <1>3, SameParses DEF Order
<1>6. ResultsInOrder'
  BY <1>1, <1>5, SameResults DEF Order
<1>7. DefinitionsFollow'
  BY <1>1, SameDefinitions DEF Order
<1> QED
  BY <1>4, <1>5, <1>6, <1>7 DEF Order

(* What did_open, did_change and did_save leave.                           *)
LEMMA WriteFacts ==
    ASSUME Locks, NEW s \in Slots, Write(s)
    PROVE  /\ task[s].uri \in Uris /\ task[s].arg \in Versions
           /\ task[s].pc = "write" /\ task'[s].pc = "snapshot"
           /\ task'[s].uri = task[s].uri
           /\ \A r \in Slots : r # s => task'[r] = task[r]
           /\ UNCHANGED <<latest, version, caches, diagnostics, definitions, shown, outbox>>
           /\ \A u \in Uris : textBuffers'[u] =
                 IF u = task[s].uri /\ (task[s].kind = "didOpen" \/ textBuffers[u] # None)
                 THEN task[s].arg ELSE textBuffers[u]
           /\ \A r \in Slots : r # s /\ UsesFiles(task[r]) => Ahead(s, r)
           /\ \A r \in Slots : ~Ahead(r, s)
           /\ \A r \in Slots : ~Ahead(s, r)'
<1>1. /\ task \in [Slots -> Task] /\ ForDocument(task[s]) /\ task[s].pc = "write"
      /\ Holds(filesLock, s, 1) /\ DataTyped
  BY LocksParts DEF Write, At
<1>2. task[s].uri \in Uris /\ task[s].arg \in Versions
  BY <1>1 DEF ForDocument
<1>3. /\ task'[s].pc = "snapshot" /\ task'[s].uri = task[s].uri
      /\ \A r \in Slots : r # s => task'[r] = task[r]
  BY <1>1, TaskGoto DEF Write, Pc
<1>4. \A u \in Uris : textBuffers'[u] =
         IF u = task[s].uri /\ (task[s].kind = "didOpen" \/ textBuffers[u] # None)
         THEN task[s].arg ELSE textBuffers[u]
  BY <1>1, <1>2 DEF Write, DataTyped
<1>5. UNCHANGED <<latest, version, caches, diagnostics, definitions, shown, outbox>>
  BY DEF Write, clientVars, sendVars
<1>6. \A r \in Slots : ~Ahead(s, r)'
  BY <1>1, AskerLast DEF Write
<1> QED
  BY <1>1, <1>2, <1>3, <1>4, <1>5, <1>6, HolderFirst

(* A text is written by the first of those who wait.                       *)
LEMMA WriteOrder ==
    ASSUME Locks, Order, NEW s \in Slots, Steps(s), Write(s)
    PROVE  Order'
<1>0. PICK w \in Uris, a \in VersionOrNone : w = task[s].uri /\ a = task[s].arg
  BY WriteFacts, Numbers
<1>1. /\ a \in Nat /\ 0 < a /\ Writes(s, w)
      /\ task'[s].pc = "snapshot"
      /\ \A r \in Slots : r # s => task'[r] = task[r]
      /\ UNCHANGED <<latest, version, caches, definitions, shown, outbox>>
      /\ \A u \in Uris : textBuffers'[u] = textBuffers[u] \/ (u = w /\ textBuffers'[u] = a)
      /\ \A r \in Slots : r # s /\ UsesFiles(task[r]) => Ahead(s, r)
  BY <1>0, WriteFacts, Numbers DEF Writes, None
<1>2. ~Carries(s) /\ ~Carries(s)' /\ task[s].pc # "extend" /\ task'[s].pc # "resolve"
  BY WriteFacts DEF Carries
<1>3. \A r \in Slots, u \in Uris : Writes(r, u)' =>
         r # s /\ task'[r] = task[r] /\ Writes(r, u)
  BY <1>1 DEF Writes
<1>4. ASSUME NEW u \in Uris, NEW v \in VersionOrNone, NotAfter(u, v)
      PROVE  NotAfter(u, v)'
  <2>1. textBuffers'[u] # None => v <= textBuffers'[u]
    BY <1>0, <1>1, <1>4 DEF NotAfter
  <2>2. \A r \in Slots : Writes(r, u)' =>
           v <= task'[r].arg /\ (task'[r].kind = "didOpen" => v < task'[r].arg)
    BY <1>3, <1>4 DEF NotAfter
  <2> QED
    BY <1>1, <1>4, <2>1, <2>2 DEF NotAfter
<1>5. NotAfter(w, a)' \/ textBuffers'[w] # a
  <2> SUFFICES ASSUME textBuffers'[w] = a PROVE NotAfter(w, a)'
    OBVIOUS
  <2>1. a <= version' /\ (latest'[w] # None => a <= latest'[w])
    BY <1>0, <1>1 DEF Order, WritesInOrder
  <2>2. ASSUME NEW r \in Slots, Writes(r, w)'
        PROVE  a <= task'[r].arg /\ (task'[r].kind = "didOpen" => a < task'[r].arg)
    <3>1. r # s /\ task'[r] = task[r] /\ Writes(r, w) /\ Ahead(s, r)
      BY <1>1, <1>3, <2>2 DEF Writes, UsesFiles
    <3> QED
      BY <1>0, <1>1, <3>1 DEF Order, WritesInOrder
  <2> QED
    BY <1>1, <2>1, <2>2 DEF NotAfter
<1>6. WritesInOrder'
  <2>1. ASSUME NEW u \in Uris
        PROVE  (latest[u] <= version /\ NotAfter(u, textBuffers[u]))'
    <3>1. latest'[u] <= version'
      BY <1>1 DEF Order, WritesInOrder
    <3>2. CASE textBuffers'[u] = textBuffers[u]
      <4>1. PICK v \in VersionOrNone : v = textBuffers[u]
        BY Numbers
      <4>2. NotAfter(u, v)
        BY <4>1 DEF Order, WritesInOrder
      <4>3. NotAfter(u, v)' /\ v = textBuffers'[u]
        BY <1>4, <3>2, <4>1, <4>2
      <4> QED
        BY <3>1, <4>3 DEF NotAfter
    <3>3. CASE u = w /\ textBuffers'[u] = a
      BY <1>5, <3>1, <3>3 DEF NotAfter
    <3> QED
      BY <1>1, <3>2, <3>3
  <2>2. ASSUME NEW r \in Slots, NEW u \in Uris, Writes(r, u)'
        PROVE  /\ task'[r].arg <= version'
               /\ latest'[u] # None => task'[r].arg <= latest'[u]
               /\ \A t \in Slots : Writes(t, u)' /\ Ahead(r, t)' =>
                     /\ task'[r].arg <= task'[t].arg
                     /\ task'[t].kind = "didOpen" => task'[r].arg < task'[t].arg
    <3>1. r # s /\ task'[r] = task[r] /\ Writes(r, u)
      BY <1>3, <2>2
    <3>2. \A t \in Slots : Writes(t, u)' /\ Ahead(r, t)' =>
             Writes(t, u) /\ Ahead(r, t) /\ task'[t] = task[t]
      BY <1>3, <3>1, OthersKeepOrder
    <3> QED
      BY <1>1, <3>1, <3>2 DEF Order, WritesInOrder
  <2> QED
    BY <2>1, <2>2 DEF WritesInOrder
<1>7. /\ \A u \in Uris, v \in VersionOrNone : Reached(u, v) => Reached(u, v)'
      /\ ParsesInOrder'
  BY <1>2, <1>4, SameParses DEF Order
<1>8. ResultsInOrder'
  BY <1>1, <1>7, SameResults DEF Order
<1>9. DefinitionsFollow'
  BY <1>1, <1>2, SameDefinitions DEF Order
<1> QED
  BY <1>6, <1>7, <1>8, <1>9 DEF Order

(* parse_file has read.                                                    *)
LEMMA SnapshotFacts ==
    ASSUME Locks, NEW s \in Slots, Snapshot(s)
    PROVE  /\ task[s].uri \in Uris /\ task[s].pc = "snapshot" /\ task'[s].pc = "store"
           /\ task'[s].uri = task[s].uri /\ task'[s].snap = textBuffers
           /\ \A r \in Slots : r # s => task'[r] = task[r]
           /\ UNCHANGED <<latest, version, dataVars, shown, outbox>>
           /\ \A r \in Slots : r # s /\ UsesFiles(task[r]) => Ahead(r, s)'
           /\ \A r \in Slots : ~Ahead(s, r)'
<1>1. /\ task \in [Slots -> Task] /\ ForDocument(task[s]) /\ task[s].pc = "snapshot"
      /\ Holds(filesLock, s, 1)
  BY LocksParts DEF Snapshot, At
<1>2. /\ task' = [task EXCEPT ![s] = [task[s] EXCEPT !.snap = textBuffers, !.pc = "store"]]
  BY <1>1 DEF Snapshot
<1>3. /\ task'[s].pc = "store" /\ task'[s].uri = task[s].uri /\ task'[s].snap = textBuffers
      /\ \A r \in Slots : r # s => task'[r] = task[r]
  BY <1>1, <1>2 DEF Task
<1> QED
  BY <1>1, <1>3, AskerLast DEF Snapshot, clientVars, sendVars, ForDocument

(* A parse reads the text there is and queues behind the parses before it. *)
LEMMA SnapshotOrder ==
    ASSUME Locks, Order, NEW s \in Slots, Steps(s), Snapshot(s)
    PROVE  Order'
<1>1. /\ task[s].pc = "snapshot" /\ task'[s].pc = "store" /\ task'[s].snap = textBuffers
      /\ \A r \in Slots : r # s => task'[r] = task[r]
      /\ UNCHANGED <<latest, version, textBuffers, caches, definitions, shown, outbox>>
      /\ \A r \in Slots : ~Ahead(s, r)'
  BY SnapshotFacts DEF dataVars
<1>2. /\ \A u \in Uris, v \in VersionOrNone : NotAfter(u, v) => NotAfter(u, v)'
      /\ WritesInOrder'
  BY <1>1, SameTexts DEF Order
<1>3. \A r \in Slots : Carries(r)' => r = s \/ (r # s /\ Carries(r) /\ task'[r] = task[r])
  BY <1>1 DEF Carries
<1>4. ASSUME NEW u \in Uris, NEW v \in VersionOrNone, Reached(u, v)
      PROVE  Reached(u, v)'
  <2>1. NotAfter(u, v)' /\ (textBuffers[u] # None => v <= textBuffers[u])
    BY <1>2, <1>4 DEF Reached, NotAfter
  <2>2. \A r \in Slots : Carries(r)' /\ task'[r].snap[u] # None => v <= task'[r].snap[u]
    BY <1>1, <1>3, <1>4, <2>1 DEF Reached
  <2> QED
    BY <2>1, <2>2 DEF Reached
<1>5. ASSUME NEW r \in Slots, Carries(r)', NEW u \in Uris
      PROVE  /\ NotAfter(u, task[r].snap[u])'
             /\ \A t \in Slots : Carries(t)' /\ Ahead(r, t)' /\ task'[t].snap[u] # None =>
                   task'[r].snap[u] <= task'[t].snap[u]
  <2>1. PICK v \in VersionOrNone : v = task'[r].snap[u] /\ NotAfter(u, v)
    <3>1. CASE r = s
      BY <1>1, <3>1, Numbers DEF Order, WritesInOrder
    <3>2. CASE r # s
      BY <1>3, <1>5, <3>2, Numbers DEF Order, ParsesInOrder
    <3> QED
      BY <3>1, <3>2
  <2>2. NotAfter(u, v)'
    BY <1>2, <2>1
  <2>3. NotAfter(u, task[r].snap[u])'
    BY <2>1, <2>2 DEF NotAfter
  <2>4. ASSUME NEW t \in Slots, Carries(t)', Ahead(r, t)', task'[t].snap[u] # None
        PROVE  task'[r].snap[u] <= task'[t].snap[u]
    <3>1. r # s
      BY <1>1, <2>4
    <3>2. CASE t = s
      BY <1>1, <2>1, <2>4, <3>2 DEF NotAfter
    <3>3. CASE t # s
      <4>1. /\ Carries(r) /\ task'[r] = task[r] /\ Carries(t) /\ task'[t] = task[t]
            /\ Ahead(r, t)
        BY <1>3, <1>5, <2>4, <3>1, <3>3, OthersKeepOrder
      <4> QED
        BY <2>4, <4>1 DEF Order, ParsesInOrder
    <3> QED
      BY <3>2, <3>3
  <2> QED
    BY <2>3, <2>4
<1>6. ParsesInOrder'
  BY <1>5 DEF ParsesInOrder
<1>7. ResultsInOrder'
  BY <1>1, <1>4, SameResults DEF Order
<1>8. DefinitionsFollow'
  BY <1>1, SameDefinitions DEF Order
<1> QED
  BY <1>2, <1>6, <1>7, <1>8 DEF Order

(* parse_file has stored what it read.                                     *)
LEMMA StoreFacts ==
    ASSUME Locks, NEW s \in Slots, Store(s)
    PROVE  /\ task[s].uri \in Uris /\ task[s].pc = "store" /\ task'[s].pc = "extend"
           /\ task'[s].uri = task[s].uri /\ task'[s].snap = task[s].snap
           /\ \A r \in Slots : r # s => task'[r] = task[r]
           /\ UNCHANGED <<latest, version, textBuffers, definitions, shown, outbox>>
           /\ \A u \in Uris : caches'[u] = IF u \in Parsed(s) THEN task[s].snap[u]
                                                             ELSE caches[u]
           /\ \A u \in Uris : diagnostics'[u] =
                 IF u = task[s].uri THEN task[s].snap[u] ELSE diagnostics[u]
           /\ \A q, r \in Slots : Ahead(q, r)' <=> Ahead(q, r)
           /\ \A r \in Slots : r # s /\ UsesFiles(task[r]) => Ahead(s, r)
           /\ \A r \in Slots : ~Ahead(r, s)
<1>1. /\ task \in [Slots -> Task] /\ ForDocument(task[s]) /\ task[s].pc = "store"
      /\ Holds(filesLock, s, 1) /\ DataTyped
  BY LocksParts DEF Store, At
<1>2. /\ task'[s].pc = "extend" /\ task'[s].uri = task[s].uri
      /\ task'[s].snap = task[s].snap
      /\ \A r \in Slots : r # s => task'[r] = task[r]
  BY <1>1, TaskGoto DEF Store, Pc
<1>3. \A q, r \in Slots : Ahead(q, r)' <=> Ahead(q, r)
  BY DEF Store, Ahead
<1>4. /\ \A u \in Uris : caches'[u] = IF u \in Parsed(s) THEN task[s].snap[u]
                                                       ELSE caches[u]
      /\ \A u \in Uris : diagnostics'[u] =
            IF u = task[s].uri THEN task[s].snap[u] ELSE diagnostics[u]
  BY <1>1 DEF Store, DataTyped
<1> QED
  BY <1>1, <1>2, <1>3, <1>4, HolderFirst DEF Store, clientVars, sendVars, ForDocument

(* A parse stores what it read as the first of those that carry one.       *)
LEMMA StoreOrder ==
    ASSUME Locks, Order, NEW s \in Slots, Steps(s), Store(s)
    PROVE  Order'
<1>1. /\ task[s].pc = "store" /\ task'[s].pc = "extend" /\ task'[s].snap = task[s].snap
      /\ \A r \in Slots : r # s => task'[r] = task[r]
      /\ UNCHANGED <<latest, version, textBuffers, definitions, shown, outbox>>
      /\ \A u \in Uris : caches'[u] = IF u \in Parsed(s) THEN task[s].snap[u]
                                                        ELSE caches[u]
      /\ \A q, r \in Slots : Ahead(q, r)' <=> Ahead(q, r)
      /\ \A r \in Slots : r # s /\ UsesFiles(task[r]) => Ahead(s, r)
  BY StoreFacts
<1>2. /\ \A u \in Uris, v \in VersionOrNone : NotAfter(u, v) => NotAfter(u, v)'
      /\ WritesInOrder'
  BY <1>1, SameTexts DEF Order
<1>3. \A r \in Slots : (Carries(r)' <=> Carries(r)) /\ task'[r].snap = task[r].snap
  BY <1>1 DEF Carries
<1>4. ASSUME NEW u \in Uris, NEW v \in VersionOrNone, Reached(u, v)
      PROVE  Reached(u, v)'
  BY <1>2, <1>3, <1>4 DEF Reached
<1>5. ParsesInOrder'
  <2>1. ASSUME NEW r \in Slots, Carries(r)', NEW u \in Uris
        PROVE  /\ NotAfter(u, task[r].snap[u])'
               /\ \A t \in Slots : Carries(t)' /\ Ahead(r, t)' /\ task'[t].snap[u] # None =>
                     task'[r].snap[u] <= task'[t].snap[u]
    <3>1. Carries(r) /\ task'[r].snap = task[r].snap
      BY <1>3, <2>1
    <3>2. PICK v \in VersionOrNone : v = task[r].snap[u]
      BY Numbers
    <3>3. NotAfter(u, v)
      BY <3>1, <3>2 DEF Order, ParsesInOrder
    <3>4. NotAfter(u, v)' /\ v = task'[r].snap[u]
      BY <1>2, <3>1, <3>2, <3>3
    <3>5. NotAfter(u, task[r].snap[u])'
      BY <3>4 DEF NotAfter
    <3> QED
      BY <1>1, <1>3, <3>1, <3>5 DEF Order, ParsesInOrder
  <2> QED
    BY <2>1 DEF ParsesInOrder
<1>6. ASSUME NEW u \in Uris, u \in Parsed(s)
      PROVE  Reached(u, caches[u])'
  <2>1. PICK v \in VersionOrNone : v = task[s].snap[u]
    BY Numbers
  <2>2. NotAfter(u, v)
    BY <1>1, <2>1 DEF Order, ParsesInOrder, Carries
  <2>3. \A r \in Slots : Carries(r) /\ task[r].snap[u] # None => v <= task[r].snap[u]
    <3>1. v <= v
      BY Numbers
    <3>2. \A r \in Slots : r # s /\ Carries(r) => Ahead(s, r)
      BY <1>1 DEF Carries, UsesFiles
    <3> QED
      BY <1>1, <2>1, <3>1, <3>2 DEF Order, ParsesInOrder, Carries
  <2>4. Reached(u, v)
    BY <2>2, <2>3 DEF Reached
  <2>5. Reached(u, v)' /\ v = caches'[u]
    BY <1>1, <1>4, <1>6, <2>1, <2>4
  <2> QED
    BY <2>5 DEF Reached, NotAfter
<1>7. ASSUME NEW u \in Uris
      PROVE  (Reached(u, definitions[u]) /\ Reached(u, caches[u]) /\ Reached(u, shown[u]))'
  <2>1. PICK c \in VersionOrNone, d \in VersionOrNone, h \in VersionOrNone :
           c = caches[u] /\ d = definitions[u] /\ h = shown[u]
    BY Numbers
  <2>2. Reached(u, c) /\ Reached(u, d) /\ Reached(u, h)
    BY <2>1 DEF Order, ResultsInOrder
  <2>3. Reached(u, c)' /\ Reached(u, d)' /\ Reached(u, h)'
    BY <1>4, <2>2
  <2>4. d = definitions'[u] /\ h = shown'[u] /\ (u \notin Parsed(s) => c = caches'[u])
    BY <1>1, <2>1
  <2>5. Reached(u, caches[u])'
    BY <1>6, <2>3, <2>4 DEF Reached, NotAfter
  <2> QED
    BY <2>3, <2>4, <2>5 DEF Reached, NotAfter
<1>8. ASSUME NEW i \in 1 .. Len(outbox)
      PROVE  Reached(outbox[i].uri, outbox[i].version)'
  <2>1. PICK u \in Uris, v \in VersionOrNone : u = outbox[i].uri /\ v = outbox[i].version
    BY Numbers
  <2>2. Reached(u, v)
    BY <2>1 DEF Order, ResultsInOrder
  <2>3. Reached(u, v)' /\ u = outbox'[i].uri /\ v = outbox'[i].version
    BY <1>1, <1>4, <2>1, <2>2
  <2> QED
    BY <2>3 DEF Reached, NotAfter
<1>9. ResultsInOrder'
  BY <1>1, <1>7, <1>8 DEF Order, ResultsInOrder
<1>10. DefinitionsFollow'
  <2>1. ASSUME NEW u \in Uris
        PROVE  \/ caches'[u] <= definitions'[u]
               \/ \E r \in Slots : task'[r].pc = "extend" /\ u \in Parsed(r)'
    <3>1. CASE u \in Parsed(s)
      <4>1. u \in Parsed(s)'
        BY <3>1, StoreFacts DEF Parsed
      <4> QED
        BY <1>1, <4>1
    <3>2. CASE u \notin Parsed(s)
      <4>1. CASE caches[u] <= definitions[u]
        BY <1>1, <3>2, <4>1
      <4>2. ASSUME NEW r \in Slots, task[r].pc = "extend", u \in Parsed(r)
            PROVE  task'[r].pc = "extend" /\ u \in Parsed(r)'
        BY <1>1, <4>2 DEF Parsed
      <4> QED
        BY <4>1, <4>2 DEF Order, DefinitionsFollow
    <3> QED
      BY <3>1, <3>2
  <2>2. ASSUME NEW r \in Slots, task'[r].pc = "resolve"
        PROVE  task'[r].arg <= definitions'[task'[r].uri]
    BY <1>1, <2>2 DEF Order, DefinitionsFollow
  <2> QED
    BY <2>1, <2>2 DEF DefinitionsFollow
<1> QED
  BY <1>2, <1>5, <1>9, <1>10 DEF Order

(* A notification is put behind those that are on their way.               *)
LEMMA SentInOrder ==
    ASSUME Locks, ResultsInOrder, NEW w \in Uris, NEW v \in VersionOrNone,
           outbox' = Append(outbox, [uri |-> w, version |-> v]), UNCHANGED shown,
           \A u \in Uris, x \in VersionOrNone : Reached(u, x) => Reached(u, x)',
           Reached(w, v)',
           v # None => /\ shown[w] <= v
                       /\ \A j \in 1 .. Len(outbox) :
                             outbox[j].uri = w => outbox[j].version <= v
    PROVE   \A i \in 1 .. Len(outbox') :
              /\ Reached(outbox[i].uri, outbox[i].version)'
              /\ outbox'[i].version # None =>
                    /\ shown'[outbox'[i].uri] <= outbox'[i].version
                    /\ \A j \in 1 .. i : outbox'[j].uri = outbox'[i].uri =>
                          outbox'[j].version <= outbox'[i].version
<1>1. /\ outbox \in Seq([uri : Uris, version : VersionOrNone]) /\ Len(outbox) \in Nat
      /\ \A i \in 1 .. Len(outbox) :
            outbox[i].uri \in Uris /\ outbox[i].version \in VersionOrNone
      /\ VersionOrNone \subseteq Nat
  BY Numbers
<1>2. [uri |-> w, version |-> v] \in [uri : Uris, version : VersionOrNone]
  OBVIOUS
<1>3. /\ Len(outbox') = Len(outbox) + 1
      /\ \A i \in 1 .. Len(outbox) : outbox'[i] = outbox[i]
      /\ outbox'[Len(outbox) + 1] = [uri |-> w, version |-> v]
  BY <1>1, <1>2, AppendProperties
<1> SUFFICES ASSUME NEW i \in 1 .. Len(outbox')
             PROVE  /\ Reached(outbox[i].uri, outbox[i].version)'
                    /\ outbox'[i].version # None =>
                          /\ shown'[outbox'[i].uri] <= outbox'[i].version
                          /\ \A j \in 1 .. i : outbox'[j].uri = outbox'[i].uri =>
                                outbox'[j].version <= outbox'[i].version
  OBVIOUS
<1>4. CASE i \in 1 .. Len(outbox)
  <2>1. PICK u \in Uris, x \in VersionOrNone : u = outbox[i].uri /\ x = outbox[i].version
    BY <1>1, <1>4
  <2>2. Reached(u, x)
    BY <1>4, <2>1 DEF ResultsInOrder
  <2>3. Reached(u, x)' /\ u = outbox'[i].uri /\ x = outbox'[i].version
    BY <1>3, <1>4, <2>1, <2>2
  <2>4. Reached(outbox[i].uri, outbox[i].version)'
    BY <2>3 DEF Reached, NotAfter
  <2>5. \A j \in 1 .. i : outbox'[j] = outbox[j]
    BY <1>1, <1>3, <1>4
  <2> QED
    BY <1>3, <1>4, <2>4, <2>5 DEF ResultsInOrder
<1>5. CASE i = Len(outbox) + 1
  <2>1. outbox'[i].uri = w /\ outbox'[i].version = v
    BY <1>3, <1>5
  <2>2. Reached(outbox[i].uri, outbox[i].version)'
    BY <2>1 DEF Reached, NotAfter
  <2>3. ASSUME v # None, NEW j \in 1 .. i, outbox'[j].uri = w
        PROVE  outbox'[j].version <= v
    <3>1. CASE j = i
      BY <1>1, <2>1, <3>1
    <3>2. CASE j # i
      <4>1. j \in 1 .. Len(outbox)
        BY <1>1, <1>5, <3>2
      <4> QED
        BY <1>3, <2>3, <4>1
    <3> QED
      BY <3>1, <3>2
  <2> QED
    BY <2>1, <2>2, <2>3
<1>6. i \in 1 .. Len(outbox) \/ i = Len(outbox) + 1
  BY <1>1, <1>3
<1> QED
  BY <1>4, <1>5, <1>6

(* The end of parse_file: the definitions are merged, the diagnostics sent.*)
LEMMA ExtendFacts ==
    ASSUME Locks, NEW s \in Slots, Extend(s)
    PROVE  /\ task[s].uri \in Uris /\ task[s].pc = "extend" /\ task'[s].pc = "publish"
           /\ \A r \in Slots : r # s => task'[r] = task[r]
           /\ UNCHANGED <<latest, version, textBuffers, caches, diagnostics, shown>>
           /\ \A u \in Uris : definitions'[u] = IF u \in Parsed(s) THEN task[s].snap[u]
                                                                  ELSE definitions[u]
           /\ outbox' = Append(outbox, [uri |-> task[s].uri,
                                        version |-> task[s].snap[task[s].uri]])
           /\ \A q, r \in Slots : Ahead(q, r)' <=> Ahead(q, r)
           /\ \A r \in Slots : r # s /\ UsesFiles(task[r]) => Ahead(s, r)
           /\ \A r \in Slots : ~Ahead(r, s)
<1>1. /\ task \in [Slots -> Task] /\ ForDocument(task[s]) /\ task[s].pc = "extend"
      /\ DataTyped
  BY LocksParts DEF Extend, At
<1>2. Holds(filesLock, s, 1)
  BY <1>1, OwnGuards DEF HoldsFiles
<1>3. /\ task'[s].pc = "publish"
      /\ \A r \in Slots : r # s => task'[r] = task[r]
  BY <1>1, TaskGoto DEF Extend, Pc
<1>4. \A q, r \in Slots : Ahead(q, r)' <=> Ahead(q, r)
  BY DEF Extend, Ahead
<1>5. \A u \in Uris : definitions'[u] = IF u \in Parsed(s) THEN task[s].snap[u]
                                                          ELSE definitions[u]
  BY <1>1 DEF Extend, DataTyped
<1> QED
  BY <1>1, <1>2, <1>3, <1>4, <1>5, HolderFirst DEF Extend, Send, clientVars, ForDocument

(* The definitions catch up with the caches, and the result is sent last.  *)
LEMMA ExtendOrder ==
    ASSUME Locks, Order, NEW s \in Slots, Steps(s), Extend(s)
    PROVE  Order'
<1>1. /\ task[s].uri \in Uris /\ task[s].pc = "extend" /\ task'[s].pc = "publish"
      /\ \A r \in Slots : r # s => task'[r] = task[r]
      /\ UNCHANGED <<latest, version, textBuffers, caches, shown>>
      /\ \A u \in Uris : definitions'[u] = IF u \in Parsed(s) THEN task[s].snap[u]
                                                             ELSE definitions[u]
      /\ outbox' = Append(outbox, [uri |-> task[s].uri,
                                   version |-> task[s].snap[task[s].uri]])
      /\ \A q, r \in Slots : Ahead(q, r)' <=> Ahead(q, r)
      /\ \A r \in Slots : r # s /\ UsesFiles(task[r]) => Ahead(s, r)
  BY ExtendFacts
<1>2. /\ \A u \in Uris, v \in VersionOrNone : NotAfter(u, v) => NotAfter(u, v)'
      /\ WritesInOrder'
  BY <1>1, SameTexts DEF Order
<1>3. \A r \in Slots : Carries(r)' => Carries(r) /\ r # s /\ task'[r] = task[r]
  BY <1>1 DEF Carries
<1>4. ASSUME NEW u \in Uris, NEW v \in VersionOrNone, Reached(u, v)
      PROVE  Reached(u, v)'
  BY <1>2, <1>3, <1>4 DEF Reached
<1>5. ParsesInOrder'
  <2>1. ASSUME NEW r \in Slots, Carries(r)', NEW u \in Uris
        PROVE  /\ NotAfter(u, task[r].snap[u])'
               /\ \A t \in Slots : Carries(t)' /\ Ahead(r, t)' /\ task'[t].snap[u] # None =>
                     task'[r].snap[u] <= task'[t].snap[u]
    <3>1. Carries(r) /\ task'[r] = task[r]
      BY <1>3, <2>1
    <3>2. PICK v \in VersionOrNone : v = task[r].snap[u]
      BY Numbers
    <3>3. NotAfter(u, v)
      BY <3>1, <3>2 DEF Order, ParsesInOrder
    <3>4. NotAfter(u, v)' /\ v = task'[r].snap[u]
      BY <1>2, <3>1, <3>2, <3>3
    <3>5. NotAfter(u, task[r].snap[u])'
      BY <3>4 DEF NotAfter
    <3> QED
      BY <1>1, <1>3, <3>1, <3>5 DEF Order, ParsesInOrder
  <2> QED
    BY <2>1 DEF ParsesInOrder
<1>6. ASSUME NEW u \in Uris, NEW v \in VersionOrNone, v = task[s].snap[u]
      PROVE  Reached(u, v)'
  <2>1. NotAfter(u, v)
    BY <1>1, <1>6 DEF Order, ParsesInOrder, Carries
  <2>2. NotAfter(u, v)'
    BY <1>2, <2>1
  <2>3. \A r \in Slots : Carries(r)' /\ task'[r].snap[u] # None => v <= task'[r].snap[u]
    <3>1. \A r \in Slots : r # s /\ Carries(r) => Ahead(s, r)
      BY <1>1 DEF Carries, UsesFiles
    <3> QED
      BY <1>1, <1>3, <1>6, <3>1 DEF Order, ParsesInOrder, Carries
  <2> QED
    BY <2>2, <2>3 DEF Reached
<1>7. ASSUME NEW u \in Uris
      PROVE  (Reached(u, definitions[u]) /\ Reached(u, caches[u]) /\ Reached(u, shown[u]))'
  <2>1. PICK c \in VersionOrNone, d \in VersionOrNone, h \in VersionOrNone :
           c = caches[u] /\ d = definitions[u] /\ h = shown[u]
    BY Numbers
  <2>2. Reached(u, c) /\ Reached(u, d) /\ Reached(u, h)
    BY <2>1 DEF Order, ResultsInOrder
  <2>3. Reached(u, c)' /\ Reached(u, d)' /\ Reached(u, h)'
    BY <1>4, <2>2
  <2>4. PICK v \in VersionOrNone : v = task[s].snap[u]
    BY Numbers
  <2>5. Reached(u, v)'
    BY <1>6, <2>4
  <2>6. PICK x \in VersionOrNone : x = definitions'[u] /\ Reached(u, x)'
    BY <1>1, <2>1, <2>3, <2>4, <2>5
  <2>7. c = caches'[u] /\ h = shown'[u]
    BY <1>1, <2>1
  <2> QED
    BY <2>3, <2>6, <2>7 DEF Reached, NotAfter
<1>8. ResultsInOrder'
  <2>1. PICK w \in Uris, v \in VersionOrNone : w = task[s].uri /\ v = task[s].snap[w]
    BY <1>1, Numbers
  <2>2. Reached(w, v)'
    BY <1>6, <2>1
  <2>3. ASSUME v # None
        PROVE  /\ shown[w] <= v
               /\ \A j \in 1 .. Len(outbox) : outbox[j].uri = w => outbox[j].version <= v
    BY <1>1, <2>1, <2>3 DEF Order, ResultsInOrder, Reached, Carries
  <2>4. outbox' = Append(outbox, [uri |-> w, version |-> v]) /\ UNCHANGED shown
    BY <1>1, <2>1
  <2>5. \A i \in 1 .. Len(outbox') :
              /\ Reached(outbox[i].uri, outbox[i].version)'
              /\ outbox'[i].version # None =>
                    /\ shown'[outbox'[i].uri] <= outbox'[i].version
                    /\ \A j \in 1 .. i : outbox'[j].uri = outbox'[i].uri =>
                          outbox'[j].version <= outbox'[i].version
    BY <1>4, <2>2, <2>3, <2>4, SentInOrder DEF Order
  <2> QED
    BY <1>7, <2>5 DEF ResultsInOrder
<1>9. DefinitionsFollow'
  <2>1. \A u \in Uris : definitions[u] <= definitions'[u]
    <3>1. ASSUME NEW u \in Uris, u \in Parsed(s)
          PROVE  definitions[u] <= task[s].snap[u] /\ caches[u] <= task[s].snap[u]
      <4>1. task[s].snap[u] # None
        BY <3>1 DEF Parsed
      <4> QED
        BY <1>1, <4>1 DEF Order, ResultsInOrder, Reached, Carries
    <3> QED
      BY <1>1, <3>1, Numbers
  <2>2. ASSUME NEW u \in Uris
        PROVE  \/ caches'[u] <= definitions'[u]
               \/ \E r \in Slots : task'[r].pc = "extend" /\ u \in Parsed(r)'
    <3>1. CASE u \in Parsed(s)
      <4>1. task[s].snap[u] # None
        BY <3>1 DEF Parsed
      <4>2. caches[u] <= task[s].snap[u]
        BY <1>1, <4>1 DEF Order, ResultsInOrder, Reached, Carries
      <4> QED
        BY <1>1, <3>1, <4>2
    <3>2. CASE u \notin Parsed(s)
      <4>1. ASSUME NEW r \in Slots, task[r].pc = "extend", u \in Parsed(r)
            PROVE  task'[r].pc = "extend" /\ u \in Parsed(r)'
        <5>1. r # s
          BY <3>2, <4>1
        <5> QED
          BY <1>1, <4>1, <5>1 DEF Parsed
      <4> QED
        BY <1>1, <3>2, <4>1 DEF Order, DefinitionsFollow
    <3> QED
      BY <3>1, <3>2
  <2>3. ASSUME NEW r \in Slots, task'[r].pc = "resolve"
        PROVE  task'[r].arg <= definitions'[task'[r].uri]
    <3>1. r # s /\ task'[r] = task[r] /\ task[r].pc = "resolve"
      BY <1>1, <2>3
    <3>2. task[r].uri \in Uris /\ task[r].arg \in Nat
      BY <3>1, LocksParts, Numbers DEF ForDocument
    <3>3. definitions'[task[r].uri] \in Nat /\ definitions[task[r].uri] \in Nat
      BY <1>1, <3>2, Numbers
    <3> QED
      BY <2>1, <3>1, <3>2, <3>3 DEF Order, DefinitionsFollow
  <2> QED
    BY <2>2, <2>3 DEF DefinitionsFollow
<1> QED
  BY <1>2, <1>5, <1>8, <1>9 DEF Order

(* did_close.                                                              *)
LEMMA RemoveFacts ==
    ASSUME Locks, NEW s \in Slots, Remove(s)
    PROVE  /\ task[s].uri \in Uris /\ task[s].pc = "remove" /\ task'[s].pc = "publish"
           /\ \A r \in Slots : r # s => task'[r] = task[r]
           /\ UNCHANGED <<latest, version, diagnostics, definitions, shown>>
           /\ \A u \in Uris : caches'[u] = IF u = task[s].uri THEN None ELSE caches[u]
           /\ \A u \in Uris :
                 textBuffers'[u] = IF u = task[s].uri THEN None ELSE textBuffers[u]
           /\ outbox' = Append(outbox, [uri |-> task[s].uri, version |-> None])
           /\ \A r \in Slots : r # s /\ UsesFiles(task[r]) => Ahead(s, r)
           /\ \A r \in Slots : ~Ahead(r, s)
<1>1. /\ task \in [Slots -> Task] /\ ForDocument(task[s]) /\ task[s].pc = "remove"
      /\ DataTyped /\ Holds(filesLock, s, 1)
  BY LocksParts DEF Remove, At
<1>2. /\ task'[s].pc = "publish"
      /\ \A r \in Slots : r # s => task'[r] = task[r]
  BY <1>1, TaskGoto DEF Remove, Pc
<1>3. /\ \A u \in Uris : caches'[u] = IF u = task[s].uri THEN None ELSE caches[u]
      /\ \A u \in Uris :
            textBuffers'[u] = IF u = task[s].uri THEN None ELSE textBuffers[u]
  BY <1>1 DEF Remove, DataTyped
<1> QED
  BY <1>1, <1>2, <1>3, HolderFirst DEF Remove, Send, clientVars, ForDocument

(* did_close forgets the document; what comes later is newer.              *)
LEMMA RemoveOrder ==
    ASSUME Locks, Order, NEW s \in Slots, Steps(s), Remove(s)
    PROVE  Order'
<1>1. /\ task[s].uri \in Uris /\ task[s].pc = "remove" /\ task'[s].pc = "publish"
      /\ \A r \in Slots : r # s => task'[r] = task[r]
      /\ UNCHANGED <<latest, version, definitions, shown>>
      /\ \A u \in Uris : caches'[u] = IF u = task[s].uri THEN None ELSE caches[u]
      /\ \A u \in Uris :
            textBuffers'[u] = IF u = task[s].uri THEN None ELSE textBuffers[u]
      /\ outbox' = Append(outbox, [uri |-> task[s].uri, version |-> None])
  BY RemoveFacts
<1>2. ~Carries(s) /\ ~Carries(s)'
  BY <1>1 DEF Carries
<1>3. \A r \in Slots, u \in Uris : Writes(r, u)' =>
         r # s /\ task'[r] = task[r] /\ Writes(r, u)
  BY <1>1 DEF Writes
<1>4. ASSUME NEW u \in Uris, NEW v \in VersionOrNone, NotAfter(u, v)
      PROVE  NotAfter(u, v)'
  <2>1. textBuffers'[u] # None => v <= textBuffers'[u]
    BY <1>1, <1>4 DEF NotAfter
  <2>2. \A r \in Slots : Writes(r, u)' =>
           v <= task'[r].arg /\ (task'[r].kind = "didOpen" => v < task'[r].arg)
    BY <1>3, <1>4 DEF NotAfter
  <2> QED
    BY <1>1, <1>4, <2>1, <2>2 DEF NotAfter
<1>5. WritesInOrder'
  <2>1. ASSUME NEW u \in Uris
        PROVE  (latest[u] <= version /\ NotAfter(u, textBuffers[u]))'
    <3>1. latest'[u] <= version'
      BY <1>1 DEF Order, WritesInOrder
    <3>2. PICK v \in VersionOrNone : v = textBuffers'[u] /\ NotAfter(u, v)
      <4>1. CASE u = task[s].uri
        <5>1. \A r \in Slots : Writes(r, u) => task[r].arg \in Nat /\ 0 < task[r].arg
          BY LocksParts, Numbers DEF ForDocument, Writes, None
        <5>2. \A x \in Nat : 0 <= x
          OBVIOUS
        <5>3. NotAfter(u, None)
          BY <5>1, <5>2, Numbers DEF NotAfter, None
        <5> QED
          BY <1>1, <4>1, <5>3, Numbers
      <4>2. CASE u # task[s].uri
        BY <1>1, <4>2, Numbers DEF Order, WritesInOrder
      <4> QED
        BY <4>1, <4>2
    <3>3. NotAfter(u, v)'
      BY <1>4, <3>2
    <3> QED
      BY <3>1, <3>2, <3>3 DEF NotAfter
  <2>2. ASSUME NEW r \in Slots, NEW u \in Uris, Writes(r, u)'
        PROVE  /\ task'[r].arg <= version'
               /\ latest'[u] # None => task'[r].arg <= latest'[u]
               /\ \A t \in Slots : Writes(t, u)' /\ Ahead(r, t)' =>
                     /\ task'[r].arg <= task'[t].arg
                     /\ task'[t].kind = "didOpen" => task'[r].arg < task'[t].arg
    <3>1. r # s /\ task'[r] = task[r] /\ Writes(r, u)
      BY <1>3, <2>2
    <3>2. \A t \in Slots : Writes(t, u)' /\ Ahead(r, t)' =>
             Writes(t, u) /\ Ahead(r, t) /\ task'[t] = task[t]
      BY <1>3, <3>1, OthersKeepOrder
    <3> QED
      BY <1>1, <3>1, <3>2 DEF Order, WritesInOrder
  <2> QED
    BY <2>1, <2>2 DEF WritesInOrder
<1>6. /\ \A u \in Uris, v \in VersionOrNone : Reached(u, v) => Reached(u, v)'
      /\ ParsesInOrder'
  BY <1>2, <1>4, SameParses DEF Order
<1>7. \A u \in Uris : Reached(u, None)'
  <2> SUFFICES ASSUME NEW u \in Uris PROVE Reached(u, None)
    BY <1>6, Numbers
  <2>1. \A r \in Slots : Writes(r, u) => task[r].arg \in Nat /\ 0 < task[r].arg
    BY LocksParts, Numbers DEF ForDocument, Writes, None
  <2>2. \A x \in Nat : 0 <= x
    OBVIOUS
  <2>3. NotAfter(u, None)
    BY <2>1, <2>2, Numbers DEF NotAfter, None
  <2> QED
    BY <2>2, <2>3, Numbers DEF Reached, None
<1>8. ASSUME NEW u \in Uris
      PROVE  (Reached(u, definitions[u]) /\ Reached(u, caches[u]) /\ Reached(u, shown[u]))'
  <2>1. PICK c \in VersionOrNone, d \in VersionOrNone, h \in VersionOrNone :
           c = caches[u] /\ d = definitions[u] /\ h = shown[u]
    BY Numbers
  <2>2. Reached(u, c) /\ Reached(u, d) /\ Reached(u, h)
    BY <2>1 DEF Order, ResultsInOrder
  <2>3. Reached(u, c)' /\ Reached(u, d)' /\ Reached(u, h)'
    BY <1>6, <2>2
  <2>4. PICK x \in VersionOrNone : x = caches'[u] /\ Reached(u, x)'
    BY <1>1, <1>7, <2>1, <2>3, Numbers
  <2>5. d = definitions'[u] /\ h = shown'[u]
    BY <1>1, <2>1
  <2> QED
    BY <2>3, <2>4, <2>5 DEF Reached, NotAfter
<1>9. ResultsInOrder'
  <2>1. PICK w \in Uris, v \in VersionOrNone : w = task[s].uri /\ v = None
    BY <1>1, Numbers
  <2>2. Reached(w, v)'
    BY <1>7, <2>1
  <2>3. outbox' = Append(outbox, [uri |-> w, version |-> v]) /\ UNCHANGED shown
    BY <1>1, <2>1
  <2>4. \A i \in 1 .. Len(outbox') :
              /\ Reached(outbox[i].uri, outbox[i].version)'
              /\ outbox'[i].version # None =>
                    /\ shown'[outbox'[i].uri] <= outbox'[i].version
                    /\ \A j \in 1 .. i : outbox'[j].uri = outbox'[i].uri =>
                          outbox'[j].version <= outbox'[i].version
    BY <1>6, <2>1, <2>2, <2>3, SentInOrder DEF Order
  <2> QED
    BY <1>8, <2>4 DEF ResultsInOrder
<1>10. DefinitionsFollow'
  <2>1. ASSUME NEW u \in Uris
        PROVE  \/ caches'[u] <= definitions'[u]
               \/ \E r \in Slots : task'[r].pc = "extend" /\ u \in Parsed(r)'
    <3>1. CASE u = task[s].uri
      BY <1>1, <3>1, Numbers DEF None
    <3>2. CASE u # task[s].uri
      BY <1>1, <3>2 DEF Order, DefinitionsFollow, Parsed
    <3> QED
      BY <3>1, <3>2
  <2>2. ASSUME NEW r \in Slots, task'[r].pc = "resolve"
        PROVE  task'[r].arg <= definitions'[task'[r].uri]
    BY <1>1, <2>2 DEF Order, DefinitionsFollow
  <2> QED
    BY <2>1, <2>2 DEF DefinitionsFollow
<1> QED
  BY <1>5, <1>6, <1>9, <1>10 DEF Order

(* The client is told.                                                     *)
LEMMA DeliverFacts ==
    ASSUME Locks, Deliver
    PROVE  /\ UNCHANGED <<latest, version, task, filesLock, textBuffers, caches,
                          diagnostics, definitions>>
           /\ Len(outbox) \in Nat \ {0} /\ Len(outbox') = Len(outbox) - 1
           /\ \A i \in 1 .. Len(outbox') :
                 i + 1 \in 1 .. Len(outbox) /\ outbox'[i] = outbox[i + 1]
           /\ outbox[1].uri \in Uris /\ outbox[1].version \in VersionOrNone
           /\ \A u \in Uris : shown'[u] = IF u = outbox[1].uri THEN outbox[1].version
                                                              ELSE shown[u]
<1>1. /\ outbox \in Seq([uri : Uris, version : VersionOrNone]) /\ outbox # <<>>
      /\ outbox' = Tail(outbox) /\ shown \in [Uris -> VersionOrNone]
      /\ shown' = [shown EXCEPT ![Head(outbox).uri] = Head(outbox).version]
  BY LocksParts DEF Deliver, DataTyped
<1>2. /\ Len(outbox) \in Nat \ {0} /\ Len(outbox') = Len(outbox) - 1
      /\ \A i \in 1 .. Len(outbox') : outbox'[i] = outbox[i + 1]
      /\ Head(outbox) = outbox[1]
  BY <1>1, HeadTailProperties, LenProperties, EmptySeq
<1>3. 1 \in 1 .. Len(outbox) /\ \A i \in 1 .. Len(outbox') : i + 1 \in 1 .. Len(outbox)
  BY <1>2
<1>4. outbox[1].uri \in Uris /\ outbox[1].version \in VersionOrNone
  BY <1>3, Numbers
<1> QED
  BY <1>1, <1>2, <1>3, <1>4 DEF Deliver, clientVars, dataVars

(* The transport takes the first notification.                             *)
LEMMA DeliverOrder ==
    ASSUME Locks, Order, Deliver
    PROVE  Order'
<1>1. /\ UNCHANGED <<latest, version, task, filesLock, textBuffers, caches, definitions>>
      /\ Len(outbox) \in Nat \ {0} /\ Len(outbox') = Len(outbox) - 1
      /\ \A i \in 1 .. Len(outbox') :
            i + 1 \in 1 .. Len(outbox) /\ outbox'[i] = outbox[i + 1]
      /\ outbox[1].uri \in Uris /\ outbox[1].version \in VersionOrNone
      /\ \A u \in Uris : shown'[u] = IF u = outbox[1].uri THEN outbox[1].version
                                                         ELSE shown[u]
  BY DeliverFacts
<1>2. 1 \in 1 .. Len(outbox)
  BY <1>1
<1>3. WritesInOrder' /\ ParsesInOrder' /\ DefinitionsFollow'
  BY <1>1 DEF Order, WritesInOrder, ParsesInOrder, DefinitionsFollow, NotAfter, Writes,
              Carries, Ahead, Parsed
<1>4. ASSUME NEW u \in Uris, NEW v \in VersionOrNone, Reached(u, v)
      PROVE  Reached(u, v)'
  BY <1>1, <1>4 DEF Reached, NotAfter, Writes, Carries
<1>5. ASSUME NEW u \in Uris
      PROVE  (Reached(u, definitions[u]) /\ Reached(u, caches[u]) /\ Reached(u, shown[u]))'
  <2>1. PICK c \in VersionOrNone, d \in VersionOrNone, h \in VersionOrNone :
           /\ c = caches'[u] /\ d = definitions'[u] /\ h = shown'[u]
           /\ Reached(u, c) /\ Reached(u, d) /\ Reached(u, h)
    <3>1. PICK c \in VersionOrNone, d \in VersionOrNone :
             /\ c = caches'[u] /\ d = definitions'[u] /\ Reached(u, c) /\ Reached(u, d)
      BY <1>1, Numbers DEF Order, ResultsInOrder
    <3>2. CASE u = outbox[1].uri
      BY <1>1, <1>2, <3>1, <3>2 DEF Order, ResultsInOrder
    <3>3. CASE u # outbox[1].uri
      BY <1>1, <3>1, <3>3, Numbers DEF Order, ResultsInOrder
    <3> QED
      BY <3>2, <3>3
  <2>2. Reached(u, c)' /\ Reached(u, d)' /\ Reached(u, h)'
    BY <1>4, <2>1
  <2> QED
    BY <2>1, <2>2 DEF Reached, NotAfter
<1>6. ASSUME NEW i \in 1 .. Len(outbox')
      PROVE  /\ Reached(outbox[i].uri, outbox[i].version)'
             /\ outbox'[i].version # None =>
                   /\ shown'[outbox'[i].uri] <= outbox'[i].version
                   /\ \A j \in 1 .. i : outbox'[j].uri = outbox'[i].uri =>
                         outbox'[j].version <= outbox'[i].version
  <2>1. PICK k \in 1 .. Len(outbox) : k = i + 1 /\ outbox'[i] = outbox[k]
    BY <1>1
  <2>2. PICK u \in Uris, v \in VersionOrNone :
           u = outbox[k].uri /\ v = outbox[k].version /\ Reached(u, v)
    BY Numbers DEF Order, ResultsInOrder
  <2>3. Reached(u, v)' /\ u = outbox'[i].uri /\ v = outbox'[i].version
    BY <1>4, <2>1, <2>2
  <2>4. Reached(outbox[i].uri, outbox[i].version)'
    BY <2>3 DEF Reached, NotAfter
  <2>5. ASSUME v # None
        PROVE  /\ shown[u] <= v
               /\ \A j \in 1 .. k : outbox[j].uri = u => outbox[j].version <= v
    BY <2>2, <2>5 DEF Order, ResultsInOrder
  <2>6. v # None => shown'[u] <= v
    <3>1. 1 \in 1 .. k
      BY <1>1, <2>1
    <3> QED
      BY <1>1, <2>5, <3>1
  <2>7. ASSUME v # None, NEW j \in 1 .. i, outbox'[j].uri = u
        PROVE  outbox'[j].version <= v
    <3>1. j + 1 \in 1 .. k /\ outbox'[j] = outbox[j + 1]
      BY <1>1, <2>1
    <3> QED
      BY <2>5, <2>7, <3>1
  <2> QED
    BY <2>3, <2>4, <2>6, <2>7
<1>7. ResultsInOrder'
  BY <1>5, <1>6 DEF ResultsInOrder
<1> QED
  BY <1>3, <1>7 DEF Order

-----------------------------------------------------------------------------
(* At the start there is nothing to be in order.                           *)
LEMMA OrderInit == Init => Order
<1> SUFFICES ASSUME Init PROVE Order
  OBVIOUS
<1>1. /\ version = 0 /\ outbox = <<>> /\ Len(<<>>) = 0
      /\ \A u \in Uris : /\ latest[u] = 0 /\ textBuffers[u] = 0 /\ caches[u] = 0
                         /\ definitions[u] = 0 /\ shown[u] = 0
      /\ \A s \in Slots : task[s].pc = "idle"
  BY IdleTask DEF Init, None
<1>2. \A u \in Uris : NotAfter(u, 0) /\ Reached(u, 0)
  BY <1>1 DEF NotAfter, Reached, Writes, Carries, None
<1>3. WritesInOrder /\ ParsesInOrder
  BY <1>1, <1>2 DEF WritesInOrder, ParsesInOrder, Writes, Carries
<1>4. ResultsInOrder
  BY <1>1, <1>2 DEF ResultsInOrder
<1>5. DefinitionsFollow
  BY <1>1 DEF DefinitionsFollow
<1> QED
  BY <1>3, <1>4, <1>5 DEF Order

(* A step that changes none of these variables changes none of the order.  *)
LEMMA OrderSame ==
    ASSUME Order, UNCHANGED <<latest, version, task, filesLock, dataVars, shown, outbox>>
    PROVE  Order'
  BY DEF Order, WritesInOrder, ParsesInOrder, ResultsInOrder, DefinitionsFollow,
         NotAfter, Reached, Writes, Carries, Ahead, Parsed, dataVars

(* The order is inductive on top of the guards.                            *)
LEMMA OrderNext == Locks /\ Order /\ [Next]_vars => Order'
<1> SUFFICES ASSUME Locks, Order, [Next]_vars PROVE Order'
  OBVIOUS
<1>1. ASSUME NEW s \in Slots, Message(s) PROVE Order'
  BY <1>1, MessageLocks, MessageSteps, MessageOrder
<1>2. ASSUME NEW s \in Slots, Handler(s) PROVE Order'
  <2>1. Steps(s)
    BY <1>2, HandlerLocks
  <2>2. CASE Panic(s)
    BY <2>2, OrderSame DEF Panic, clientVars, sendVars
  <2> QED
    BY <1>2, <2>1, <2>2, HandlerSteps, WriteOrder, SnapshotOrder, StoreOrder, ExtendOrder,
       RemoveOrder, QuietOrder
<1>3. CASE Deliver
  BY <1>3, DeliverOrder
<1>4. CASE UNCHANGED vars
  BY <1>4, OrderSame DEF vars, dataVars
<1> QED
  BY <1>1, <1>2, <1>3, <1>4 DEF Next

(* In every reachable state texts, parses and results are in the order in  *)
(* which the client sent the texts: the locks are fair queues.             *)
THEOREM OrderAlways == Spec => [](Locks /\ Order)
<1>1. Init => Locks /\ Order
  BY LocksInit, OrderInit
<1>2. (Locks /\ Order) /\ [Next]_vars => (Locks /\ Order)'
  BY LocksNext, OrderNext
<1> QED
  BY <1>1, <1>2, PTL DEF Spec

(* A step of the server never replaces a result by that of an older text:  *)
(* parse_file reads the buffers and stores its results under two locks, so *)
(* another parse of the same file may run in between, but the locks are    *)
(* fair and the results come in the order the texts were read.             *)
THEOREM NeverGoesBackCorrect == Spec => NeverGoesBack
<1> DEFINE Back == \A u \in Uris :
                      /\ caches'[u] # None => caches[u] <= caches'[u]
                      /\ definitions[u] <= definitions'[u]
                      /\ shown'[u] # None => shown[u] <= shown'[u]
<1>1. Locks /\ Order /\ [Next]_vars => [Back]_vars
  <2> SUFFICES ASSUME Locks, Order, [Next]_vars PROVE Back \/ UNCHANGED vars
    OBVIOUS
  <2>1. \A u \in Uris : /\ caches[u] <= caches[u] /\ definitions[u] <= definitions[u]
                        /\ shown[u] <= shown[u]
    BY Numbers
  <2>2. UNCHANGED <<caches, definitions, shown>> => Back
    BY <2>1
  <2>3. ASSUME NEW s \in Slots, Message(s) PROVE Back
    BY <2>2, <2>3, MessageSteps DEF MessageStep, dataVars
  <2>4. ASSUME NEW s \in Slots, NEW u \in Uris, Carries(s), u \in Parsed(s)
        PROVE  caches[u] <= task[s].snap[u] /\ definitions[u] <= task[s].snap[u]
    BY <2>4 DEF Order, ResultsInOrder, Reached, Parsed
  <2>5. ASSUME NEW s \in Slots, Handler(s) PROVE Back
    <3>1. CASE Write(s)
      BY <2>2, <3>1 DEF Write, sendVars
    <3>2. CASE Snapshot(s)
      BY <2>2, <3>2 DEF Snapshot, dataVars, sendVars
    <3>3. CASE Store(s)
      BY <2>1, <2>4, <3>3, StoreFacts DEF Carries
    <3>4. CASE Extend(s)
      BY <2>1, <2>4, <3>4, ExtendFacts DEF Carries
    <3>5. CASE Remove(s)
      BY <2>1, <3>5, RemoveFacts
    <3>6. CASE QuietStep(s) \/ Panic(s)
      BY <2>2, <3>6 DEF QuietStep, Panic, dataVars, sendVars
    <3> QED
      BY <2>5, <3>1, <3>2, <3>3, <3>4, <3>5, <3>6, HandlerSteps
  <2>6. CASE Deliver
    <3>1. /\ UNCHANGED <<caches, definitions>> /\ Len(outbox) \in Nat \ {0}
          /\ \A u \in Uris : shown'[u] = IF u = outbox[1].uri THEN outbox[1].version
                                                             ELSE shown[u]
      BY <2>6, DeliverFacts
    <3>2. 1 \in 1 .. Len(outbox)
      BY <3>1
    <3>3. outbox[1].version # None => shown[outbox[1].uri] <= outbox[1].version
      BY <3>2 DEF Order, ResultsInOrder
    <3> QED
      BY <2>1, <3>1, <3>3
  <2> QED
    BY <2>3, <2>5, <2>6 DEF Next
<1> QED
  BY <1>1, OrderAlways, PTL DEF Spec, NeverGoesBack

(* goto_definition copies the reference out of the cache, unlocks the      *)
(* files and only then locks the global cache; whatever other handlers do  *)
(* in between, the definitions it then finds are at least as new.          *)
THEOREM DefinitionsNotOlderCorrect == Spec => []DefinitionsNotOlder
<1>1. Locks /\ Order => DefinitionsNotOlder
  <2> SUFFICES ASSUME Locks, Order, NEW s \in Slots, task[s].pc = "resolve"
               PROVE  definitions[task[s].uri] >= task[s].arg
    BY DEF DefinitionsNotOlder
  <2>1. task[s].uri \in Uris /\ task[s].arg \in Nat
    BY LocksParts, Numbers DEF ForDocument
  <2>2. definitions[task[s].uri] \in Nat /\ task[s].arg <= definitions[task[s].uri]
    BY <2>1, Numbers DEF Order, DefinitionsFollow
  <2> QED
    BY <2>1, <2>2
<1> QED
  BY <1>1, OrderAlways, PTL

-----------------------------------------------------------------------------
(* The handlers that will change the text of u, and what they leave.       *)
Changes(s, u) == task[s].uri = u /\ task[s].pc \in {"write", "remove"}
Leaves(s) == IF task[s].pc = "remove" THEN None ELSE task[s].arg
Earlier(u, t) == {s \in Slots : Changes(s, u) /\ Ahead(s, t)}
All(u) == {s \in Slots : Changes(s, u)}

(* The text of u is v once the handlers of S have changed it.              *)
TextAfter(S, u, v) ==
    \/ S = {} /\ textBuffers[u] = v
    \/ \E s \in S : Leaves(s) = v /\ \A t \in S \ {s} : Ahead(t, s)

(* In the end the text is what the client has; a change finds a text, and  *)
(* a completion the text it is about.                                      *)
TextArrives ==
    /\ \A u \in Uris : TextAfter(All(u), u, latest[u])
    /\ \A s \in Slots :
          /\ task[s].pc = "write" /\ task[s].kind # "didOpen" =>
                \E v \in Versions : TextAfter(Earlier(task[s].uri, s), task[s].uri, v)
          /\ Completes(task[s]) =>
                \E v \in Versions : /\ TextAfter(Earlier(task[s].uri, s), task[s].uri, v)
                                    /\ Asked(task[s], v)

(* A parse of u that will read its text, has read it, or has stored it.    *)
WillRead(s, u) == task[s].uri = u /\ task[s].pc = "snapshot"
HasRead(s, u) ==
    task[s].uri = u /\ task[s].pc = "store" /\ task[s].snap[u] = textBuffers[u]
HasStored(s, u) ==
    /\ task[s].uri = u /\ task[s].pc = "extend" /\ task[s].snap[u] = textBuffers[u]
    /\ caches[u] = textBuffers[u] /\ diagnostics[u] = textBuffers[u]

(* The last word to the client about u is v.                               *)
LastTold(u, v) ==
    \/ /\ shown[u] = v
       /\ \A i \in 1 .. Len(outbox) : outbox[i].uri # u
    \/ \E i \in 1 .. Len(outbox) :
          /\ outbox[i].uri = u /\ outbox[i].version = v
          /\ \A j \in i + 1 .. Len(outbox) : outbox[j].uri # u

Settled(u) ==
    /\ caches[u] = textBuffers[u]
    /\ definitions[u] = textBuffers[u]
    /\ diagnostics[u] = textBuffers[u]
    /\ LastTold(u, textBuffers[u])

OnItsWay(u) ==
    \E s \in Slots : WillRead(s, u) \/ HasRead(s, u) \/ HasStored(s, u)

(* What was read after the text, or after its result was stored, is that   *)
(* text.                                                                   *)
StaleFirst(u) ==
    \A s \in Slots : Carries(s) /\ task[s].snap[u] # textBuffers[u] =>
        /\ caches[u] # textBuffers[u]
        /\ \A t \in Slots : Carries(t) /\ Ahead(t, s) => task[t].snap[u] # textBuffers[u]

(* A text that is there has been, or will be, parsed and published.        *)
ResultsArrive ==
    \A u \in Uris : textBuffers[u] # None => (Settled(u) \/ OnItsWay(u)) /\ StaleFirst(u)

Arrival == TextArrives /\ ResultsArrive

-----------------------------------------------------------------------------
(* Handlers that a step does not move leave the text they would have left. *)
LEMMA TextKept ==
    ASSUME NEW S \in SUBSET Slots, NEW u \in Uris, NEW v,
           textBuffers'[u] = textBuffers[u],
           \A r \in S : task'[r] = task[r],
           \A q, r \in S : Ahead(q, r)' <=> Ahead(q, r),
           TextAfter(S, u, v)
    PROVE  TextAfter(S, u, v)'
<1>1. CASE S = {} /\ textBuffers[u] = v
  BY <1>1 DEF TextAfter
<1>2. ASSUME NEW s \in S, Leaves(s) = v, \A t \in S \ {s} : Ahead(t, s)
      PROVE  Leaves(s)' = v /\ \A t \in S \ {s} : Ahead(t, s)'
  BY <1>2 DEF Leaves
<1> QED
  BY <1>1, <1>2 DEF TextAfter

(* The first of them may have changed it.                                  *)
LEMMA TextChanged ==
    ASSUME NEW s \in Slots, NEW S \in SUBSET Slots, s \in S, NEW u \in Uris, NEW v,
           textBuffers'[u] = Leaves(s),
           \A r \in Slots : ~Ahead(r, s),
           \A r \in S \ {s} : task'[r] = task[r],
           \A q, r \in S \ {s} : Ahead(q, r)' <=> Ahead(q, r),
           TextAfter(S, u, v)
    PROVE  TextAfter(S \ {s}, u, v)'
<1>1. PICK t \in S : Leaves(t) = v /\ \A r \in S \ {t} : Ahead(r, t)
  BY DEF TextAfter
<1>2. CASE t = s
  <2>1. S \ {s} = {}
    BY <1>1, <1>2
  <2> QED
    BY <1>1, <1>2, <2>1 DEF TextAfter
<1>3. CASE t # s
  <2>1. Leaves(t)' = v
    BY <1>1, <1>3 DEF Leaves
  <2>2. \A r \in (S \ {s}) \ {t} : Ahead(r, t)'
    BY <1>1, <1>3
  <2> QED
    BY <1>3, <2>1, <2>2 DEF TextAfter
<1> QED
  BY <1>2, <1>3

(* A message is behind the changes that were there.                        *)
LEMMA TextAdded ==
    ASSUME NEW s \in Slots, NEW S \in SUBSET Slots, NEW u, NEW v,
           Leaves(s)' = v, \A r \in S : Ahead(r, s)'
    PROVE  TextAfter(S \cup {s}, u, v)'
  BY DEF TextAfter

(* The texts arrive as long as those who change none take their steps.     *)
LEMMA SameArrivals ==
    ASSUME Locks, TextArrives, NEW s \in Slots, Steps(s),
           UNCHANGED <<latest, textBuffers>>,
           task[s].pc \notin {"write", "remove"},
           task'[s].pc \notin {"write", "remove", "read"}
    PROVE  TextArrives'
<1>1. /\ \A r \in Slots : r # s => task'[r] = task[r]
      /\ \A q, r \in Slots \ {s} : Ahead(q, r)' <=> Ahead(q, r)
  BY OthersKeepOrder DEF Steps
<1>2. \A r \in Slots, u \in Uris : Changes(r, u)' <=> r # s /\ Changes(r, u)
  BY <1>1 DEF Changes
<1>3. \A r \in Slots, u \in Uris : Changes(r, u) => r # s
  BY DEF Changes
<1>4. ASSUME NEW u \in Uris
      PROVE  TextAfter(All(u), u, latest[u])'
  <2>1. PICK S \in SUBSET Slots, v \in {latest[u]} : S = All(u) /\ v = latest[u]
    BY DEF All
  <2>2. S = All(u)' /\ v = latest'[u] /\ s \notin S
    BY <1>2, <1>3, <2>1 DEF All
  <2>3. TextAfter(S, u, v)
    BY <2>1 DEF TextArrives
  <2>4. TextAfter(S, u, v)'
    BY <1>1, <2>2, <2>3, TextKept
  <2> QED
    BY <2>2, <2>4 DEF TextAfter
<1>5. ASSUME NEW r \in Slots, r # s, NEW u \in Uris, NEW v, TextAfter(Earlier(u, r), u, v)
      PROVE  TextAfter(Earlier(u, r), u, v)'
  <2>1. PICK S \in SUBSET Slots : S = Earlier(u, r)
    BY DEF Earlier
  <2>2. S = Earlier(u, r)' /\ s \notin S
    BY <1>1, <1>2, <1>3, <1>5, <2>1 DEF Earlier
  <2>3. TextAfter(S, u, v)
    BY <1>5, <2>1
  <2>4. TextAfter(S, u, v)'
    BY <1>1, <2>2, <2>3, TextKept
  <2> QED
    BY <2>2, <2>4 DEF TextAfter
<1>6. ASSUME NEW r \in Slots, task'[r].pc \in {"write", "read"}
      PROVE  r # s /\ task'[r] = task[r] /\ task[r].uri \in Uris
  BY <1>1, <1>6, LocksParts DEF ForDocument
<1>7. \A r \in Slots : Completes(task'[r]) => task'[r].pc = "read"
  BY DEF Completes
<1> QED
  BY <1>4, <1>5, <1>6, <1>7 DEF TextArrives

(* A message adds its change behind those on their way.                    *)
LEMMA MessageTexts ==
    ASSUME Locks, TextArrives, NEW s \in Slots, Steps(s), MessageStep(s),
           \A r \in Slots : /\ ~Ahead(s, r)'
                            /\ r # s /\ UsesFiles(task[r]) => Ahead(r, s)'
    PROVE  TextArrives'
<1>0. PICK w \in Uris : w = task'[s].uri
  BY DEF MessageStep
<1>1. /\ \A r \in Slots : r # s => task'[r] = task[r]
      /\ \A q, r \in Slots \ {s} : Ahead(q, r)' <=> Ahead(q, r)
      /\ textBuffers' = textBuffers /\ task[s].pc = "idle"
  BY OthersKeepOrder DEF Steps, MessageStep, dataVars
<1>2. \A r \in Slots, u \in Uris : Changes(r, u) =>
         r # s /\ Changes(r, u)' /\ UsesFiles(task[r]) /\ Ahead(r, s)'
  BY <1>1 DEF Changes, UsesFiles
<1>3. \A r \in Slots, u \in Uris : Changes(r, u)' =>
         Changes(r, u) \/ (r = s /\ u = w /\ task'[s].pc \in {"write", "remove"})
  BY <1>0, <1>1 DEF Changes
<1>4. /\ \A u \in Uris : u # w => latest'[u] = latest[u]
      /\ task'[s].pc \in {"write", "remove"} => Leaves(s)' = latest'[w]
      /\ task'[s].pc \notin {"write", "remove"} => latest'[w] = latest[w]
      /\ task'[s].pc = "write" /\ task'[s].kind # "didOpen" => latest[w] # None
      /\ Completes(task'[s]) => latest[w] # None /\ Asked(task'[s], latest[w])
  <2>1. latest \in [Uris -> VersionOrNone]
    BY LocksParts DEF DataTyped
  <2>2. Completes(task'[s]) => task'[s].pc = "read"
    BY DEF Completes
  <2> QED
    BY <1>0, <2>1, <2>2 DEF MessageStep, Leaves
<1>5. ASSUME NEW u \in Uris
      PROVE  TextAfter(All(u), u, latest[u])'
  <2>1. PICK S \in SUBSET Slots, v \in {latest[u]} : S = All(u) /\ v = latest[u]
    BY DEF All
  <2>2. TextAfter(S, u, v) /\ s \notin S /\ \A r \in S : Ahead(r, s)'
    BY <1>2, <2>1 DEF TextArrives, All
  <2>3. TextAfter(S, u, v)'
    BY <1>1, <2>2, TextKept
  <2>4. CASE u = w /\ task'[s].pc \in {"write", "remove"}
    <3>1. All(u)' = S \cup {s}
      BY <1>0, <1>2, <1>3, <2>1, <2>4 DEF All, Changes
    <3>2. PICK x : x = latest'[u] /\ Leaves(s)' = x
      BY <1>4, <2>4
    <3>3. TextAfter(S \cup {s}, u, x)'
      BY <2>2, <3>2, TextAdded
    <3> QED
      BY <3>1, <3>2, <3>3 DEF TextAfter
  <2>5. CASE ~(u = w /\ task'[s].pc \in {"write", "remove"})
    <3>1. All(u)' = S /\ latest'[u] = v
      BY <1>2, <1>3, <1>4, <2>1, <2>5 DEF All
    <3> QED
      BY <2>3, <3>1 DEF TextAfter
  <2> QED
    BY <2>4, <2>5
<1>6. ASSUME NEW r \in Slots, r # s, NEW u \in Uris, NEW v, TextAfter(Earlier(u, r), u, v)
      PROVE  TextAfter(Earlier(u, r), u, v)'
  <2>1. PICK S \in SUBSET Slots : S = Earlier(u, r)
    BY DEF Earlier
  <2>2. S = Earlier(u, r)' /\ s \notin S
    BY <1>1, <1>2, <1>3, <1>6, <2>1 DEF Earlier
  <2>3. TextAfter(S, u, v)
    BY <1>6, <2>1
  <2>4. TextAfter(S, u, v)'
    BY <1>1, <2>2, <2>3, TextKept
  <2> QED
    BY <2>2, <2>4 DEF TextAfter
<1>7. PICK v \in VersionOrNone : v = latest[w] /\ TextAfter(Earlier(w, s), w, v)'
  <2>1. PICK S \in SUBSET Slots, v \in VersionOrNone : S = All(w) /\ v = latest[w]
    BY Numbers DEF All
  <2>2. TextAfter(S, w, v) /\ s \notin S /\ \A r \in S : Ahead(r, s)'
    BY <1>2, <2>1 DEF TextArrives, All
  <2>3. TextAfter(S, w, v)'
    BY <1>1, <2>2, TextKept
  <2>4. Earlier(w, s)' = S
    BY <1>2, <1>3, <2>1 DEF All, Earlier
  <2> QED
    BY <2>1, <2>3, <2>4 DEF TextAfter
<1>8. v # None => v \in Versions
  BY Numbers
<1>9. ASSUME NEW r \in Slots
      PROVE  /\ task'[r].pc = "write" /\ task'[r].kind # "didOpen" =>
                   \E x \in Versions : TextAfter(Earlier(task[r].uri, r), task[r].uri, x)'
             /\ Completes(task'[r]) =>
                   \E x \in Versions : /\ TextAfter(Earlier(task[r].uri, r), task[r].uri, x)'
                                       /\ Asked(task'[r], x)
  <2>1. CASE r = s
    BY <1>0, <1>4, <1>7, <1>8, <2>1 DEF TextAfter
  <2>2. CASE r # s
    <3>1. /\ task'[r] = task[r] /\ (task[r].pc \in {"write", "read"} => task[r].uri \in Uris)
          /\ Completes(task[r]) => task[r].pc = "read"
      BY <1>1, <2>2, LocksParts DEF ForDocument, Completes
    <3>2. PICK u : u = task[r].uri /\ u = task'[r].uri
      BY <3>1
    <3>3. ASSUME u \in Uris, NEW x \in Versions, TextAfter(Earlier(u, r), u, x)
          PROVE  TextAfter(Earlier(task[r].uri, r), task[r].uri, x)'
      <4>1. TextAfter(Earlier(u, r), u, x)'
        BY <1>6, <2>2, <3>3
      <4> QED
        BY <3>2, <4>1 DEF TextAfter, Earlier
    <3>4. CASE task[r].pc = "write" /\ task[r].kind # "didOpen"
      BY <3>1, <3>2, <3>3, <3>4 DEF TextArrives
    <3>5. CASE Completes(task[r])
      BY <3>1, <3>2, <3>3, <3>5 DEF TextArrives
    <3> QED
      BY <3>1, <3>4, <3>5
  <2> QED
    BY <2>1, <2>2
<1>10. /\ \A u \in Uris : TextAfter(All(u), u, latest[u])'
       /\ \A r \in Slots :
             /\ task'[r].pc = "write" /\ task'[r].kind # "didOpen" =>
                   \E x \in Versions : TextAfter(Earlier(task[r].uri, r), task[r].uri, x)'
             /\ Completes(task'[r]) =>
                   \E x \in Versions : /\ TextAfter(Earlier(task[r].uri, r), task[r].uri, x)'
                                       /\ Asked(task'[r], x)
  BY <1>5, <1>9
<1> QED
  BY <1>10 DEF TextArrives

(* The change at the head of the queue: the text is what it leaves.        *)
LEMMA ChangeTexts ==
    ASSUME Locks, TextArrives, NEW s \in Slots, Steps(s),
           task[s].pc \in {"write", "remove"}, task'[s].pc \notin {"write", "remove", "read"},
           UNCHANGED latest, task[s].uri \in Uris,
           \A u \in Uris : textBuffers'[u] =
              IF u = task[s].uri THEN Leaves(s) ELSE textBuffers[u],
           \A r \in Slots : /\ ~Ahead(r, s)
                            /\ r # s /\ UsesFiles(task[r]) => Ahead(s, r)
    PROVE  TextArrives'
<1>0. PICK w \in Uris : w = task[s].uri
  OBVIOUS
<1>1. /\ \A r \in Slots : r # s => task'[r] = task[r]
      /\ \A q, r \in Slots \ {s} : Ahead(q, r)' <=> Ahead(q, r)
  BY OthersKeepOrder DEF Steps
<1>2. \A r \in Slots, u \in Uris : Changes(r, u)' <=> r # s /\ Changes(r, u)
  BY <1>1 DEF Changes
<1>3. ASSUME NEW S \in SUBSET Slots, NEW u \in Uris, NEW v, TextAfter(S, u, v),
             s \in S <=> u = w
      PROVE  TextAfter(S \ {s}, u, v)'
  <2>1. CASE u = w
    BY <1>0, <1>1, <1>3, <2>1, TextChanged
  <2>2. CASE u # w
    <3>1. textBuffers'[u] = textBuffers[u] /\ S \ {s} = S
      BY <1>0, <1>3, <2>2
    <3>2. \A r \in S : r # s
      BY <1>3, <2>2
    <3>3. TextAfter(S, u, v)'
      BY <1>1, <1>3, <3>1, <3>2, TextKept
    <3> QED
      BY <3>1, <3>3
  <2> QED
    BY <2>1, <2>2
<1>4. ASSUME NEW u \in Uris
      PROVE  TextAfter(All(u), u, latest[u])'
  <2>1. PICK S \in SUBSET Slots, v \in {latest[u]} : S = All(u) /\ v = latest[u]
    BY DEF All
  <2>2. TextAfter(S, u, v) /\ (s \in S <=> u = w)
    BY <1>0, <2>1 DEF TextArrives, All, Changes
  <2>3. TextAfter(S \ {s}, u, v)'
    BY <1>3, <2>2
  <2>4. All(u)' = S \ {s} /\ latest'[u] = v
    BY <1>2, <2>1 DEF All
  <2> QED
    BY <2>3, <2>4 DEF TextAfter
<1>5. ASSUME NEW r \in Slots, r # s, NEW u \in Uris, NEW v, UsesFiles(task[r]),
             TextAfter(Earlier(u, r), u, v)
      PROVE  TextAfter(Earlier(u, r), u, v)'
  <2>1. PICK S \in SUBSET Slots : S = Earlier(u, r)
    BY DEF Earlier
  <2>2. TextAfter(S, u, v) /\ (s \in S <=> u = w)
    BY <1>0, <1>5, <2>1 DEF Earlier, Changes
  <2>3. TextAfter(S \ {s}, u, v)'
    BY <1>3, <2>2
  <2>4. Earlier(u, r)' = S \ {s}
    BY <1>1, <1>2, <1>5, <2>1 DEF Earlier
  <2> QED
    BY <2>3, <2>4 DEF TextAfter
<1>6. ASSUME NEW r \in Slots, task'[r].pc \in {"write", "read"}
      PROVE  r # s /\ task'[r] = task[r] /\ task[r].uri \in Uris /\ UsesFiles(task[r])
  BY <1>1, <1>6, LocksParts DEF ForDocument, UsesFiles
<1>7. \A r \in Slots : Completes(task'[r]) => task'[r].pc = "read"
  BY DEF Completes
<1> QED
  BY <1>4, <1>5, <1>6, <1>7 DEF TextArrives

(* A change finds a text, unless it opens one.                             *)
LEMMA WriteWrites ==
    ASSUME Locks, TextArrives, NEW s \in Slots, Write(s)
    PROVE  \A u \in Uris : textBuffers'[u] =
              IF u = task[s].uri THEN task[s].arg ELSE textBuffers[u]
<1>1. /\ task[s].uri \in Uris /\ task[s].pc = "write"
      /\ \A u \in Uris : textBuffers'[u] =
            IF u = task[s].uri /\ (task[s].kind = "didOpen" \/ textBuffers[u] # None)
            THEN task[s].arg ELSE textBuffers[u]
      /\ \A r \in Slots : ~Ahead(r, s)
  BY WriteFacts
<1>2. ASSUME task[s].kind # "didOpen" PROVE textBuffers[task[s].uri] # None
  <2>1. PICK v \in Versions : TextAfter(Earlier(task[s].uri, s), task[s].uri, v)
    BY <1>1, <1>2 DEF TextArrives
  <2>2. Earlier(task[s].uri, s) = {}
    BY <1>1 DEF Earlier
  <2>3. textBuffers[task[s].uri] = v
    BY <2>1, <2>2 DEF TextAfter
  <2> QED
    BY <2>3, Numbers
<1> QED
  BY <1>1, <1>2

(* The first change is made.                                               *)
LEMMA WriteTexts ==
    ASSUME Locks, TextArrives, NEW s \in Slots, Steps(s), Write(s)
    PROVE  TextArrives'
<1>1. \A u \in Uris : textBuffers'[u] =
         IF u = task[s].uri THEN Leaves(s) ELSE textBuffers[u]
  BY WriteWrites, WriteFacts DEF Leaves
<1> QED
  BY <1>1, WriteFacts, ChangeTexts

(* So is the first removal.                                                *)
LEMMA RemoveTexts ==
    ASSUME Locks, TextArrives, NEW s \in Slots, Steps(s), Remove(s)
    PROVE  TextArrives'
<1>1. \A u \in Uris : textBuffers'[u] =
         IF u = task[s].uri THEN Leaves(s) ELSE textBuffers[u]
  <2>1. /\ task[s].pc = "remove"
        /\ \A u \in Uris : textBuffers'[u] =
              IF u = task[s].uri THEN None ELSE textBuffers[u]
    BY RemoveFacts
  <2> QED
    BY <2>1 DEF Leaves
<1>2. /\ task[s].pc \in {"write", "remove"} /\ task'[s].pc \notin {"write", "remove", "read"}
      /\ UNCHANGED latest /\ task[s].uri \in Uris
      /\ \A r \in Slots : /\ ~Ahead(r, s)
                          /\ r # s /\ UsesFiles(task[r]) => Ahead(s, r)
  BY RemoveFacts
<1> QED
  BY <1>1, <1>2, ChangeTexts

-----------------------------------------------------------------------------
(* The last word about u is the last one sent.                             *)
LEMMA ToldLast ==
    ASSUME Locks, NEW u \in Uris, NEW v \in VersionOrNone,
           outbox' = Append(outbox, [uri |-> u, version |-> v])
    PROVE  LastTold(u, v)'
<1>1. /\ outbox \in Seq([uri : Uris, version : VersionOrNone]) /\ Len(outbox) \in Nat
      /\ [uri |-> u, version |-> v] \in [uri : Uris, version : VersionOrNone]
  BY Numbers
<1>2. /\ Len(outbox') = Len(outbox) + 1
      /\ outbox'[Len(outbox) + 1] = [uri |-> u, version |-> v]
  BY <1>1, AppendProperties
<1>3. PICK i \in 1 .. Len(outbox') : i = Len(outbox')
  BY <1>1, <1>2
<1>4. outbox'[i].uri = u /\ outbox'[i].version = v /\ i + 1 .. Len(outbox') = {}
  BY <1>1, <1>2, <1>3
<1> QED
  BY <1>4 DEF LastTold

(* A word about another document does not change it.                       *)
LEMMA ToldOther ==
    ASSUME Locks, NEW u \in Uris, NEW w \in Uris, u # w, NEW x \in VersionOrNone, NEW v,
           outbox' = Append(outbox, [uri |-> w, version |-> x]), UNCHANGED shown,
           LastTold(u, v)
    PROVE  LastTold(u, v)'
<1>1. /\ outbox \in Seq([uri : Uris, version : VersionOrNone]) /\ Len(outbox) \in Nat
      /\ [uri |-> w, version |-> x] \in [uri : Uris, version : VersionOrNone]
  BY Numbers
<1>2. /\ Len(outbox') = Len(outbox) + 1
      /\ \A i \in 1 .. Len(outbox) : outbox'[i] = outbox[i]
      /\ outbox'[Len(outbox) + 1].uri = w
  BY <1>1, AppendProperties
<1>3. \A i \in 1 .. Len(outbox') : i \in 1 .. Len(outbox) \/ outbox'[i].uri = w
  BY <1>1, <1>2
<1>4. CASE shown[u] = v /\ \A i \in 1 .. Len(outbox) : outbox[i].uri # u
  BY <1>2, <1>3, <1>4 DEF LastTold
<1>5. ASSUME NEW i \in 1 .. Len(outbox), outbox[i].uri = u, outbox[i].version = v,
             \A j \in i + 1 .. Len(outbox) : outbox[j].uri # u
      PROVE  LastTold(u, v)'
  <2>1. i \in 1 .. Len(outbox') /\ outbox'[i].uri = u /\ outbox'[i].version = v
    BY <1>1, <1>2, <1>5
  <2>2. ASSUME NEW j \in i + 1 .. Len(outbox') PROVE outbox'[j].uri # u
    <3>1. j \in i + 1 .. Len(outbox) \/ outbox'[j].uri = w
      BY <1>1, <1>2, <2>2
    <3>2. i + 1 .. Len(outbox) \subseteq 1 .. Len(outbox)
      BY <1>1
    <3> QED
      BY <1>2, <1>5, <3>1, <3>2
  <2> QED
    BY <2>1, <2>2 DEF LastTold
<1> QED
  BY <1>4, <1>5 DEF LastTold

(* Nor does its delivery.                                                  *)
LEMMA ToldDelivered ==
    ASSUME Locks, Deliver, NEW u \in Uris, NEW v, LastTold(u, v)
    PROVE  LastTold(u, v)'
<1>1. /\ Len(outbox) \in Nat \ {0} /\ Len(outbox') = Len(outbox) - 1
      /\ \A i \in 1 .. Len(outbox') :
            i + 1 \in 1 .. Len(outbox) /\ outbox'[i] = outbox[i + 1]
      /\ shown'[u] = IF u = outbox[1].uri THEN outbox[1].version ELSE shown[u]
  BY DeliverFacts
<1>2. 1 \in 1 .. Len(outbox)
  BY <1>1
<1>3. CASE shown[u] = v /\ \A i \in 1 .. Len(outbox) : outbox[i].uri # u
  BY <1>1, <1>2, <1>3 DEF LastTold
<1>4. ASSUME NEW i \in 1 .. Len(outbox), outbox[i].uri = u, outbox[i].version = v,
             \A j \in i + 1 .. Len(outbox) : outbox[j].uri # u
      PROVE  LastTold(u, v)'
  <2>1. ASSUME NEW j \in i .. Len(outbox'), j # 0 PROVE outbox'[j].uri # u
    <3>1. j \in 1 .. Len(outbox') /\ j + 1 \in i + 1 .. Len(outbox)
      BY <1>1, <2>1
    <3> QED
      BY <1>1, <1>4, <3>1
  <2>2. CASE i = 1
    <3>1. shown'[u] = v
      BY <1>1, <1>4, <2>2
    <3>2. \A j \in 1 .. Len(outbox') : outbox'[j].uri # u
      BY <2>1, <2>2
    <3> QED
      BY <3>1, <3>2 DEF LastTold
  <2>3. CASE i # 1
    <3>1. PICK k \in 1 .. Len(outbox') : k + 1 = i
      <4>1. i - 1 \in 1 .. Len(outbox') /\ (i - 1) + 1 = i
        BY <1>1, <2>3
      <4> QED
        BY <4>1
    <3>2. outbox'[k].uri = u /\ outbox'[k].version = v
      BY <1>1, <1>4, <3>1
    <3>3. \A j \in k + 1 .. Len(outbox') : j \in i .. Len(outbox') /\ j # 0
      BY <1>1, <3>1
    <3> QED
      BY <2>1, <3>2, <3>3 DEF LastTold
  <2> QED
    BY <2>2, <2>3
<1> QED
  BY <1>3, <1>4 DEF LastTold

(* A step of a handler that neither parses nor begins to.                  *)
LEMMA SameParseOf ==
    ASSUME NEW s \in Slots, Steps(s), NEW u \in Uris,
           textBuffers'[u] = textBuffers[u], caches'[u] = caches[u],
           definitions'[u] = definitions[u], diagnostics'[u] = diagnostics[u],
           \A v : LastTold(u, v) => LastTold(u, v)',
           task[s].pc \notin {"snapshot", "store", "extend"},
           task'[s].pc \notin {"store", "extend"},
           Settled(u) \/ OnItsWay(u), StaleFirst(u)
    PROVE  ((Settled(u) \/ OnItsWay(u)) /\ StaleFirst(u))'
<1>1. \A r \in Slots : r # s => task'[r] = task[r]
  BY DEF Steps
<1>2. Settled(u) => Settled(u)'
  <2>1. PICK v : v = textBuffers[u]
    OBVIOUS
  <2>2. LastTold(u, v) => LastTold(u, v)'
    OBVIOUS
  <2>3. LastTold(u, textBuffers[u]) => LastTold(u, textBuffers[u])'
    BY <2>1, <2>2 DEF LastTold
  <2> QED
    BY <2>3 DEF Settled
<1>3. ASSUME NEW r \in Slots, WillRead(r, u) \/ HasRead(r, u) \/ HasStored(r, u)
      PROVE  WillRead(r, u)' \/ HasRead(r, u)' \/ HasStored(r, u)'
  <2>1. r # s
    BY <1>3 DEF WillRead, HasRead, HasStored
  <2> QED
    BY <1>1, <1>3, <2>1 DEF WillRead, HasRead, HasStored
<1>4. \A r \in Slots : Carries(r)' => r # s /\ Carries(r) /\ task'[r] = task[r]
  BY <1>1 DEF Carries
<1>5. StaleFirst(u)'
  BY <1>4, OthersKeepOrder DEF StaleFirst
<1>6. OnItsWay(u) => OnItsWay(u)'
  BY <1>3 DEF OnItsWay
<1> QED
  BY <1>2, <1>5, <1>6

(* A message leaves a text to be parsed as soon as it is written.          *)
LEMMA MessageResults ==
    ASSUME ResultsArrive, NEW s \in Slots, Steps(s), MessageStep(s)
    PROVE  ResultsArrive'
<1> SUFFICES ASSUME NEW u \in Uris, textBuffers'[u] # None
             PROVE  ((Settled(u) \/ OnItsWay(u)) /\ StaleFirst(u))'
  BY DEF ResultsArrive
<1>1. /\ UNCHANGED <<textBuffers, caches, definitions, diagnostics, outbox, shown>>
      /\ task[s].pc \notin {"snapshot", "store", "extend"}
      /\ task'[s].pc \notin {"store", "extend"}
  BY DEF MessageStep, dataVars
<1>2. \A v : LastTold(u, v) => LastTold(u, v)'
  BY <1>1 DEF LastTold
<1> QED
  BY <1>1, <1>2, SameParseOf DEF ResultsArrive

(* A quiet step leaves the results on their way where they are.            *)
LEMMA QuietResults ==
    ASSUME ResultsArrive, NEW s \in Slots, Steps(s), QuietStep(s)
    PROVE  ResultsArrive'
<1> SUFFICES ASSUME NEW u \in Uris, textBuffers'[u] # None
             PROVE  ((Settled(u) \/ OnItsWay(u)) /\ StaleFirst(u))'
  BY DEF ResultsArrive
<1>1. /\ UNCHANGED <<textBuffers, caches, definitions, diagnostics, outbox, shown>>
      /\ task[s].pc \notin {"snapshot", "store", "extend"}
      /\ task'[s].pc \notin {"store", "extend"}
  BY DEF QuietStep, dataVars
<1>2. \A v : LastTold(u, v) => LastTold(u, v)'
  BY <1>1 DEF LastTold
<1> QED
  BY <1>1, <1>2, SameParseOf DEF ResultsArrive

(* A notification that arrives is the last word when no other follows.     *)
LEMMA DeliverResults ==
    ASSUME Locks, ResultsArrive, Deliver
    PROVE  ResultsArrive'
<1>1. UNCHANGED <<task, filesLock, textBuffers, caches, definitions, diagnostics>>
  BY DeliverFacts
<1>2. ASSUME NEW u \in Uris, Settled(u)
      PROVE  Settled(u)'
  <2>1. PICK v : v = textBuffers[u]
    OBVIOUS
  <2>2. LastTold(u, v)
    BY <1>2, <2>1 DEF Settled
  <2>3. LastTold(u, v)'
    BY <2>2, ToldDelivered
  <2>4. LastTold(u, textBuffers[u])'
    BY <1>1, <2>1, <2>3 DEF LastTold
  <2> QED
    BY <1>1, <1>2, <2>4 DEF Settled
<1>3. \A u \in Uris : (OnItsWay(u) => OnItsWay(u)') /\ (StaleFirst(u) => StaleFirst(u)')
  BY <1>1 DEF OnItsWay, WillRead, HasRead, HasStored, StaleFirst, Carries, Ahead
<1> QED
  BY <1>1, <1>2, <1>3 DEF ResultsArrive

(* The cache goes with the text, and a notification is sent behind the     *)
(* others.                                                                 *)
LEMMA RemoveResults ==
    ASSUME Locks, ResultsArrive, NEW s \in Slots, Steps(s), Remove(s)
    PROVE  ResultsArrive'
<1> SUFFICES ASSUME NEW u \in Uris, textBuffers'[u] # None
             PROVE  ((Settled(u) \/ OnItsWay(u)) /\ StaleFirst(u))'
  BY DEF ResultsArrive
<1>1. PICK w \in Uris : w = task[s].uri
  BY RemoveFacts
<1>2. /\ u # w /\ textBuffers'[u] = textBuffers[u] /\ caches'[u] = caches[u]
      /\ UNCHANGED <<definitions, diagnostics, shown>>
      /\ task[s].pc = "remove" /\ task'[s].pc = "publish"
      /\ outbox' = Append(outbox, [uri |-> w, version |-> None])
  BY <1>1, RemoveFacts
<1>3. \A v : LastTold(u, v) => LastTold(u, v)'
  BY <1>2, Numbers, ToldOther
<1> QED
  BY <1>2, <1>3, SameParseOf DEF ResultsArrive

(* A change makes everything that was read before it stale.                *)
LEMMA WriteResults ==
    ASSUME Locks, Order, Arrival, NEW s \in Slots, Steps(s), Write(s)
    PROVE  ResultsArrive'
<1>0. PICK w \in Uris, a \in Versions : w = task[s].uri /\ a = task[s].arg
  BY WriteFacts
<1>1. /\ task[s].pc = "write" /\ task'[s].pc = "snapshot" /\ task'[s].uri = w
      /\ \A r \in Slots : r # s => task'[r] = task[r]
      /\ UNCHANGED <<latest, version, caches, diagnostics, definitions, shown, outbox>>
      /\ \A u \in Uris : textBuffers'[u] = IF u = w THEN a ELSE textBuffers[u]
  BY <1>0, WriteFacts, WriteWrites DEF Arrival
<1>2. ASSUME NEW u \in Uris, textBuffers'[u] # None, u # w
      PROVE  ((Settled(u) \/ OnItsWay(u)) /\ StaleFirst(u))'
  <2>1. /\ textBuffers'[u] = textBuffers[u]
        /\ \A v : LastTold(u, v) => LastTold(u, v)'
    BY <1>1, <1>2 DEF LastTold
  <2> QED
    BY <1>1, <1>2, <2>1, SameParseOf DEF Arrival, ResultsArrive
<1>3. OnItsWay(w)'
  BY <1>1 DEF OnItsWay, WillRead
<1>4. \A r \in Slots : Carries(r)' => r # s /\ Carries(r) /\ task'[r] = task[r]
  BY <1>1 DEF Carries
<1>5. ASSUME textBuffers[w] = a PROVE StaleFirst(w)'
  <2>1. StaleFirst(w)
    BY <1>5, Numbers DEF Arrival, ResultsArrive
  <2>2. textBuffers'[w] = textBuffers[w] /\ caches'[w] = caches[w]
    BY <1>1, <1>5
  <2> QED
    BY <1>4, <2>1, <2>2, OthersKeepOrder DEF StaleFirst
<1>6. ASSUME textBuffers[w] # a PROVE StaleFirst(w)'
  <2>1. Writes(s, w) /\ a \in Nat
    BY <1>0, <1>1, Numbers DEF Writes
  <2>2. textBuffers[w] # None => textBuffers[w] \in Nat /\ textBuffers[w] < a
    <3>1. textBuffers[w] <= a
      BY <1>0, <2>1 DEF Order, WritesInOrder, NotAfter
    <3> QED
      BY <1>6, <2>1, <3>1, Numbers
  <2>3. textBuffers[w] = None => task[s].kind = "didOpen"
    <3>1. textBuffers[w] = None /\ task[s].kind # "didOpen" => textBuffers'[w] = textBuffers[w]
      BY <1>0, WriteFacts
    <3> QED
      BY <1>1, <1>6, <3>1
  <2>4. ASSUME NEW v \in VersionOrNone, NotAfter(w, v)
        PROVE  v # a
    BY <1>0, <2>1, <2>2, <2>3, <2>4, Numbers DEF NotAfter
  <2>5. caches[w] # a
    BY <2>4, Numbers DEF Order, ResultsInOrder, Reached
  <2>6. \A r \in Slots : Carries(r) => task[r].snap[w] # a
    BY <2>4, Numbers DEF Order, ParsesInOrder
  <2>7. StaleFirst(w)'
    BY <1>1, <1>4, <2>5, <2>6 DEF StaleFirst
  <2> QED
    BY <2>7
<1>7. StaleFirst(w)'
  BY <1>5, <1>6
<1> QED
  BY <1>2, <1>3, <1>7 DEF ResultsArrive

(* What a parse has read is the text, until the next is written.           *)
LEMMA SnapshotResults ==
    ASSUME Locks, ResultsArrive, NEW s \in Slots, Steps(s), Snapshot(s)
    PROVE  ResultsArrive'
<1>1. /\ task[s].pc = "snapshot" /\ task'[s].pc = "store" /\ task'[s].uri = task[s].uri
      /\ task'[s].snap = textBuffers
      /\ \A r \in Slots : r # s => task'[r] = task[r]
      /\ UNCHANGED <<textBuffers, caches, diagnostics, definitions, shown, outbox>>
      /\ \A r \in Slots : ~Ahead(s, r)'
  BY SnapshotFacts DEF dataVars
<1> SUFFICES ASSUME NEW u \in Uris, textBuffers[u] # None
             PROVE  ((Settled(u) \/ OnItsWay(u)) /\ StaleFirst(u))'
  BY <1>1 DEF ResultsArrive
<1>2. Settled(u) => Settled(u)'
  BY <1>1 DEF Settled, LastTold
<1>3. OnItsWay(u) => OnItsWay(u)'
  <2>1. ASSUME NEW r \in Slots, WillRead(r, u) \/ HasRead(r, u) \/ HasStored(r, u)
        PROVE  WillRead(r, u)' \/ HasRead(r, u)' \/ HasStored(r, u)'
    BY <1>1, <2>1 DEF WillRead, HasRead, HasStored
  <2> QED
    BY <2>1 DEF OnItsWay
<1>4. StaleFirst(u)'
  <2>1. \A r \in Slots : Carries(r)' /\ r # s => Carries(r) /\ task'[r] = task[r]
    BY <1>1 DEF Carries
  <2>2. StaleFirst(u)
    BY DEF ResultsArrive
  <2>3. ASSUME NEW r \in Slots, Carries(r)', task'[r].snap[u] # textBuffers'[u]
        PROVE  /\ caches'[u] # textBuffers'[u]
               /\ \A t \in Slots : Carries(t)' /\ Ahead(t, r)' =>
                     task'[t].snap[u] # textBuffers'[u]
    <3>1. r # s
      BY <1>1, <2>3
    <3>2. \A t \in Slots : Ahead(t, r)' => t # s
      BY <1>1
    <3> QED
      BY <1>1, <2>1, <2>2, <2>3, <3>1, <3>2, OthersKeepOrder DEF StaleFirst
  <2> QED
    BY <2>3 DEF StaleFirst
<1> QED
  BY <1>2, <1>3, <1>4 DEF ResultsArrive

(* What it stores is then the text as well.                                *)
LEMMA StoreResults ==
    ASSUME Locks, ResultsArrive, NEW s \in Slots, Steps(s), Store(s)
    PROVE  ResultsArrive'
<1>0. PICK w \in Uris : w = task[s].uri
  BY StoreFacts
<1>1. /\ task[s].pc = "store" /\ task'[s].pc = "extend"
      /\ task'[s].uri = w /\ task'[s].snap = task[s].snap
      /\ \A r \in Slots : r # s => task'[r] = task[r]
      /\ UNCHANGED <<textBuffers, definitions, shown, outbox>>
      /\ \A u \in Uris : caches'[u] = IF u \in Parsed(s) THEN task[s].snap[u]
                                                        ELSE caches[u]
      /\ \A u \in Uris : diagnostics'[u] =
            IF u = w THEN task[s].snap[u] ELSE diagnostics[u]
      /\ \A q, r \in Slots : Ahead(q, r)' <=> Ahead(q, r)
      /\ \A r \in Slots : r # s /\ UsesFiles(task[r]) => Ahead(s, r)
  BY <1>0, StoreFacts
<1>2. \A r \in Slots : task[r].pc # "extend"
  <2>1. Holds(filesLock, s, 1)
    BY DEF Store
  <2> QED
    BY <1>1, <2>1, OneHolder DEF HoldsFiles
<1> SUFFICES ASSUME NEW u \in Uris, textBuffers[u] # None
             PROVE  ((Settled(u) \/ OnItsWay(u)) /\ StaleFirst(u))'
  BY <1>1 DEF ResultsArrive
<1>3. /\ Settled(u) \/ OnItsWay(u)
      /\ task[s].snap[u] # textBuffers[u] =>
            /\ caches[u] # textBuffers[u]
            /\ \A t \in Slots : Carries(t) /\ Ahead(t, s) => task[t].snap[u] # textBuffers[u]
      /\ StaleFirst(u)
  BY <1>1 DEF ResultsArrive, StaleFirst, Carries
<1>4. u = w /\ task[s].snap[u] = textBuffers[u] => HasStored(s, u)'
  <2> SUFFICES ASSUME u = w, task[s].snap[u] = textBuffers[u] PROVE HasStored(s, u)'
    OBVIOUS
  <2>1. u \in Parsed(s)
    BY <1>0, ImportsAssumption DEF Parsed
  <2> QED
    BY <1>1, <2>1 DEF HasStored
<1>5. ASSUME Settled(u) PROVE Settled(u)' \/ OnItsWay(u)'
  <2>1. task[s].snap[u] = textBuffers[u] /\ caches[u] = textBuffers[u]
    BY <1>3, <1>5 DEF Settled
  <2>2. CASE u = w
    BY <1>4, <2>1, <2>2 DEF OnItsWay
  <2>3. CASE u # w
    BY <1>1, <1>5, <2>1, <2>3 DEF Settled, LastTold
  <2> QED
    BY <2>2, <2>3
<1>6. ASSUME NEW r \in Slots, WillRead(r, u) \/ HasRead(r, u) \/ HasStored(r, u)
      PROVE  OnItsWay(u)'
  <2>1. CASE r = s
    BY <1>0, <1>1, <1>4, <1>6, <2>1 DEF WillRead, HasRead, HasStored, OnItsWay
  <2>2. CASE r # s
    BY <1>1, <1>2, <1>6, <2>2 DEF WillRead, HasRead, HasStored, OnItsWay
  <2> QED
    BY <2>1, <2>2
<1>7. (Settled(u) \/ OnItsWay(u))'
  <2>1. OnItsWay(u) => OnItsWay(u)'
    BY <1>6 DEF OnItsWay
  <2>2. Settled(u) => Settled(u)' \/ OnItsWay(u)'
    BY <1>5
  <2> QED
    BY <1>3, <2>1, <2>2
<1>8. StaleFirst(u)'
  <2>1. \A r \in Slots : (Carries(r)' <=> Carries(r)) /\ task'[r].snap = task[r].snap
    BY <1>1 DEF Carries
  <2>2. ASSUME NEW r \in Slots, Carries(r), task[r].snap[u] # textBuffers[u]
        PROVE  /\ caches'[u] # textBuffers[u]
               /\ \A t \in Slots : Carries(t) /\ Ahead(t, r) => task[t].snap[u] # textBuffers[u]
    <3>1. /\ caches[u] # textBuffers[u]
          /\ \A t \in Slots : Carries(t) /\ Ahead(t, r) => task[t].snap[u] # textBuffers[u]
      BY <1>3, <2>2 DEF StaleFirst
    <3>2. task[s].snap[u] # textBuffers[u]
      <4>1. CASE r = s
        BY <2>2, <4>1
      <4>2. CASE r # s
        BY <1>1, <2>2, <3>1, <4>2 DEF Carries, UsesFiles
      <4> QED
        BY <4>1, <4>2
    <3> QED
      BY <1>1, <3>1, <3>2
  <2> QED
    BY <1>1, <2>1, <2>2 DEF StaleFirst
<1> QED
  BY <1>7, <1>8

(* What it sends of it is then the last word.                              *)
LEMMA ExtendResults ==
    ASSUME Locks, ResultsArrive, NEW s \in Slots, Steps(s), Extend(s)
    PROVE  ResultsArrive'
<1>0. PICK w \in Uris, x \in VersionOrNone : w = task[s].uri /\ x = task[s].snap[w]
  BY ExtendFacts, Numbers
<1>1. /\ task[s].pc = "extend" /\ task'[s].pc = "publish"
      /\ \A r \in Slots : r # s => task'[r] = task[r]
      /\ UNCHANGED <<textBuffers, caches, diagnostics, shown>>
      /\ \A u \in Uris : definitions'[u] = IF u \in Parsed(s) THEN task[s].snap[u]
                                                             ELSE definitions[u]
      /\ outbox' = Append(outbox, [uri |-> w, version |-> x])
      /\ \A q, r \in Slots : Ahead(q, r)' <=> Ahead(q, r)
  BY <1>0, ExtendFacts
<1> SUFFICES ASSUME NEW u \in Uris, textBuffers[u] # None
             PROVE  ((Settled(u) \/ OnItsWay(u)) /\ StaleFirst(u))'
  BY <1>1 DEF ResultsArrive
<1>2. /\ Settled(u) \/ OnItsWay(u)
      /\ caches[u] = textBuffers[u] => task[s].snap[u] = textBuffers[u]
      /\ StaleFirst(u)
  BY <1>1 DEF ResultsArrive, StaleFirst, Carries
<1>3. PICK v \in VersionOrNone : v = textBuffers[u]
  BY Numbers
<1>4. ASSUME caches[u] = textBuffers[u], diagnostics[u] = textBuffers[u],
             definitions[u] = textBuffers[u] \/ u = w,
             u # w => LastTold(u, v)
      PROVE  Settled(u)'
  <2>1. task[s].snap[u] = v
    BY <1>2, <1>3, <1>4
  <2>2. u = w => u \in Parsed(s)
    BY <1>0, <1>3, <2>1, ImportsAssumption DEF Parsed
  <2>3. definitions'[u] = v
    BY <1>1, <1>3, <1>4, <2>1, <2>2
  <2>4. LastTold(u, v)'
    <3>1. CASE u = w
      BY <1>0, <1>1, <2>1, <3>1, ToldLast
    <3>2. CASE u # w
      BY <1>1, <1>4, <3>2, ToldOther
    <3> QED
      BY <3>1, <3>2
  <2>5. v = textBuffers'[u] /\ caches'[u] = v /\ diagnostics'[u] = v
    BY <1>1, <1>3, <1>4
  <2> QED
    BY <2>3, <2>4, <2>5 DEF Settled, LastTold
<1>5. Settled(u) => Settled(u)'
  BY <1>3, <1>4 DEF Settled
<1>6. ASSUME NEW r \in Slots, WillRead(r, u) \/ HasRead(r, u) \/ HasStored(r, u)
      PROVE  Settled(u)' \/ OnItsWay(u)'
  <2>1. CASE r = s
    <3>1. HasStored(s, u)
      BY <1>1, <1>6, <2>1 DEF WillRead, HasRead
    <3>2. u = w /\ caches[u] = textBuffers[u] /\ diagnostics[u] = textBuffers[u]
      BY <1>0, <3>1 DEF HasStored
    <3> QED
      BY <1>4, <3>2
  <2>2. CASE r # s
    BY <1>1, <1>6, <2>2 DEF WillRead, HasRead, HasStored, OnItsWay
  <2> QED
    BY <2>1, <2>2
<1>7. (Settled(u) \/ OnItsWay(u))'
  <2>1. OnItsWay(u) => Settled(u)' \/ OnItsWay(u)'
    BY <1>6 DEF OnItsWay
  <2> QED
    BY <1>2, <1>5, <2>1
<1>8. StaleFirst(u)'
  <2>1. \A r \in Slots : Carries(r)' => Carries(r) /\ task'[r] = task[r]
    BY <1>1 DEF Carries
  <2> QED
    BY <1>1, <1>2, <2>1 DEF StaleFirst
<1> QED
  BY <1>7, <1>8

-----------------------------------------------------------------------------
(* At the start there is no text.                                          *)
LEMMA ArrivalInit == Init => Arrival
<1> SUFFICES ASSUME Init PROVE Arrival
  OBVIOUS
<1>1. /\ \A u \in Uris : latest[u] = None /\ textBuffers[u] = None
      /\ \A s \in Slots : task[s].pc = "idle"
  BY IdleTask DEF Init
<1>2. TextArrives
  BY <1>1 DEF TextArrives, TextAfter, All, Changes, Completes
<1>3. ResultsArrive
  BY <1>1 DEF ResultsArrive
<1> QED
  BY <1>2, <1>3 DEF Arrival

(* Texts arrive also while no handler moves and no text changes.           *)
LEMMA TextsSame ==
    ASSUME TextArrives, UNCHANGED <<latest, task, filesLock, textBuffers>>
    PROVE  TextArrives'
<1>1. \A q, r \in Slots : Ahead(q, r)' <=> Ahead(q, r)
  BY DEF Ahead
<1>2. ASSUME NEW u \in Uris
      PROVE  TextAfter(All(u), u, latest[u])'
  <2>1. PICK S \in SUBSET Slots, v \in {latest[u]} : S = All(u) /\ v = latest[u]
    BY DEF All
  <2>2. S = All(u)' /\ v = latest'[u]
    BY <2>1 DEF All, Changes
  <2>3. TextAfter(S, u, v)
    BY <2>1 DEF TextArrives
  <2>4. TextAfter(S, u, v)'
    BY <1>1, <2>3, TextKept
  <2> QED
    BY <2>2, <2>4 DEF TextAfter
<1>3. ASSUME NEW r \in Slots, NEW u, NEW v, TextAfter(Earlier(u, r), u, v)
      PROVE  TextAfter(Earlier(u, r), u, v)'
  <2>1. PICK S \in SUBSET Slots : S = Earlier(u, r)
    BY DEF Earlier
  <2>2. S = Earlier(u, r)'
    BY <1>1, <2>1 DEF Earlier, Changes
  <2>3. TextAfter(S, u, v)
    BY <1>3, <2>1
  <2>4. TextAfter(S, u, v)'
    BY <1>1, <2>3 DEF TextAfter, Leaves
  <2> QED
    BY <2>2, <2>4 DEF TextAfter
<1> QED
  BY <1>2, <1>3 DEF TextArrives

(* A step that changes none of these variables changes nothing of it.      *)
LEMMA ArrivalSame ==
    ASSUME Arrival, UNCHANGED <<latest, task, filesLock, dataVars, shown, outbox>>
    PROVE  Arrival'
<1>1. TextArrives'
  BY TextsSame DEF Arrival, dataVars
<1>2. ResultsArrive'
  BY DEF Arrival, ResultsArrive, Settled, OnItsWay, WillRead, HasRead, HasStored,
         StaleFirst, Carries, LastTold, Ahead, dataVars
<1> QED
  BY <1>1, <1>2 DEF Arrival

(* The arrival of texts and results is inductive on top of guards and      *)
(* order.                                                                  *)
LEMMA ArrivalNext == Locks /\ Order /\ Arrival /\ [Next]_vars => Arrival'
<1> SUFFICES ASSUME Locks, Order, Arrival, [Next]_vars PROVE Arrival'
  OBVIOUS
<1>0. TextArrives /\ ResultsArrive
  BY DEF Arrival
<1>1. ASSUME NEW s \in Slots, Message(s) PROVE Arrival'
  BY <1>0, <1>1, MessageLocks, MessageSteps, MessageTexts, MessageResults DEF Arrival
<1>2. ASSUME NEW s \in Slots, Handler(s) PROVE Arrival'
  <2>1. Steps(s)
    BY <1>2, HandlerLocks
  <2>2. CASE Write(s)
    BY <1>0, <2>1, <2>2, WriteTexts, WriteResults DEF Arrival
  <2>3. CASE Remove(s)
    BY <1>0, <2>1, <2>3, RemoveTexts, RemoveResults DEF Arrival
  <2>4. CASE Snapshot(s)
    <3>1. TextArrives'
      BY <1>0, <2>1, <2>4, SnapshotFacts, SameArrivals DEF dataVars
    <3> QED
      BY <1>0, <2>1, <2>4, <3>1, SnapshotResults DEF Arrival
  <2>5. CASE Store(s)
    <3>1. TextArrives'
      BY <1>0, <2>1, <2>5, StoreFacts, SameArrivals
    <3> QED
      BY <1>0, <2>1, <2>5, <3>1, StoreResults DEF Arrival
  <2>6. CASE Extend(s)
    <3>1. TextArrives'
      BY <1>0, <2>1, <2>6, ExtendFacts, SameArrivals
    <3> QED
      BY <1>0, <2>1, <2>6, <3>1, ExtendResults DEF Arrival
  <2>7. CASE QuietStep(s)
    <3>1. TextArrives'
      BY <1>0, <2>1, <2>7, SameArrivals DEF QuietStep, dataVars
    <3> QED
      BY <1>0, <2>1, <2>7, <3>1, QuietResults DEF Arrival
  <2>8. CASE Panic(s)
    BY <2>8, ArrivalSame DEF Panic, clientVars, sendVars
  <2> QED
    BY <1>2, <2>2, <2>3, <2>4, <2>5, <2>6, <2>7, <2>8, HandlerSteps
<1>3. CASE Deliver
  <2>1. UNCHANGED <<latest, task, filesLock, textBuffers>>
    BY <1>3, DeliverFacts
  <2>2. TextArrives'
    BY <1>0, <2>1, TextsSame
  <2> QED
    BY <1>0, <1>3, <2>2, DeliverResults DEF Arrival
<1>4. CASE UNCHANGED vars
  BY <1>4, ArrivalSame DEF vars, dataVars
<1> QED
  BY <1>1, <1>2, <1>3, <1>4 DEF Next

(* In every reachable state the last text the client sent, and the result  *)
(* of parsing it, are there or on their way.                               *)
THEOREM ArrivalAlways == Spec => [](Locks /\ Order /\ Arrival)
<1>1. Init => Locks /\ Order /\ Arrival
  BY LocksInit, OrderInit, ArrivalInit
<1>2. (Locks /\ Order /\ Arrival) /\ [Next]_vars => (Locks /\ Order /\ Arrival)'
  BY LocksNext, OrderNext, ArrivalNext
<1> QED
  BY <1>1, <1>2, PTL DEF Spec

(* Once every handler has returned and the client has got what was sent,   *)
(* the buffers, the caches, the definitions and both copies of the         *)
(* diagnostics of an open document are those of the text the client last   *)
(* sent, in whatever order the handlers ran.                               *)
THEOREM FreshWhenQuietCorrect == Spec => []FreshWhenQuiet
<1>1. Locks /\ Order /\ Arrival => FreshWhenQuiet
  <2> SUFFICES ASSUME Locks, Arrival, Quiet, NEW u \in Uris, latest[u] # None
               PROVE  /\ textBuffers[u] = latest[u] /\ caches[u] = latest[u]
                      /\ diagnostics[u] = latest[u] /\ definitions[u] = latest[u]
                      /\ shown[u] = latest[u]
    BY DEF FreshWhenQuiet
  <2>1. (\A s \in Slots : task[s].pc = "idle") /\ outbox = <<>> /\ Len(<<>>) = 0
    BY IdleTask DEF Quiet
  <2>2. All(u) = {}
    BY <2>1 DEF All, Changes
  <2>3. textBuffers[u] = latest[u]
    BY <2>2 DEF Arrival, TextArrives, TextAfter
  <2>4. ~OnItsWay(u)
    BY <2>1 DEF OnItsWay, WillRead, HasRead, HasStored
  <2>5. Settled(u)
    BY <2>3, <2>4 DEF Arrival, ResultsArrive
  <2> QED
    BY <2>1, <2>3, <2>5 DEF Settled, LastTold
<1> QED
  BY <1>1, ArrivalAlways, PTL

(* Nothing but a completion's panic ends the server.                       *)
LEMMA OnlyPanicCrashes ==
    ASSUME Locks, [Next]_vars
    PROVE  UNCHANGED crashed \/ \E s \in Slots : Panic(s)
<1>1. ASSUME NEW s \in Slots, Message(s) PROVE UNCHANGED crashed
  <2>1. \A kind, u, arg, pos, pc : Start(s, kind, u, arg, pos, pc) => UNCHANGED crashed
    BY DEF Start
  <2> QED
    BY <1>1, <2>1 DEF Message, DidOpen, DidChange, DidSave, DidClose, Query
<1>2. ASSUME NEW s \in Slots, Handler(s) PROVE UNCHANGED crashed \/ Panic(s)
  <2>1. CASE Write(s) \/ Snapshot(s) \/ Store(s) \/ Extend(s) \/ Remove(s) \/ Published(s)
    BY <2>1 DEF Write, Snapshot, Store, Extend, Remove, Published
  <2>2. CASE Answer(s) \/ GotoFound(s) \/ ReferencesFound(s) \/ RenameFound(s)
    BY <2>2 DEF Answer, GotoFound, ReferencesFound, RenameFound
  <2>3. CASE Collect(s) \/ Resolve(s)
    BY <2>3 DEF Collect, Resolve
  <2>4. CASE Complete(s)
    BY <2>4 DEF Complete, Panic, Completes, At
  <2>5. CASE Suggest(s)
    BY <2>5 DEF Suggest, Panic, At, clientVars, dataVars, sendVars
  <2> QED
    BY <1>2, <2>1, <2>2, <2>3, <2>4, <2>5 DEF Handler
<1>3. CASE Deliver
  BY <1>3 DEF Deliver
<1>4. CASE UNCHANGED vars
  BY <1>4 DEF vars
<1> QED
  BY <1>1, <1>2, <1>3, <1>4 DEF Next

(* A completion keeps the files locked while it waits for the global       *)
(* cache: the buffer it cuts the name out of is the text its offset is in, *)
(* which is the one it was asked in, unless a newer one was waiting.       *)
InItsText(s) ==
    LET u == task[s].uri IN
    /\ caches[u] \in Versions
    /\ caches[u] = textBuffers[u]
    /\ Asked(task[s], caches[u])

CutsItsText ==
    \A s \in Slots : task[s].pc = "suggest" /\ task[s].kind = "dotCompletion" =>
        Behind \/ InItsText(s)

(* Once a completion has the files, no other handler changes a text or a   *)
(* cache, nor catches up.                                                  *)
LEMMA NothingMoves ==
    ASSUME Locks, [Next]_vars, NEW s \in Slots, task[s].pc = "suggest", task'[s] = task[s]
    PROVE  /\ UNCHANGED <<textBuffers, caches>>
           /\ Behind => Behind'
<1>1. HoldsFiles(task[s]) /\ Holds(filesLock, s, 1)
  BY OwnGuards DEF HoldsFiles
<1>2. ASSUME NEW r \in Slots, Message(r)
      PROVE  UNCHANGED <<textBuffers, caches>> /\ (Behind => Behind')
  <2>1. /\ UNCHANGED <<textBuffers, caches>> /\ task[r].pc = "idle"
        /\ \A t \in Slots : t # r => task'[t] = task[t]
    BY <1>2, MessageSteps, MessageLocks DEF MessageStep, Steps, dataVars
  <2> QED
    BY <2>1 DEF Behind
<1>3. ASSUME NEW r \in Slots, Handler(r)
      PROVE  UNCHANGED <<textBuffers, caches>> /\ (Behind => Behind')
  <2>1. \A t \in Slots : t # r => task'[t] = task[t]
    BY <1>3, HandlerLocks DEF Steps
  <2>2. CASE Write(r) \/ Snapshot(r) \/ Store(r) \/ Remove(r)
    <3>1. Holds(filesLock, r, 1) /\ task[r].pc # "suggest"
      BY <2>2 DEF Write, Snapshot, Store, Remove, At
    <3> QED
      BY <1>1, <3>1, OneHolder
  <2>3. CASE Extend(r)
    <3>1. task[r].pc = "extend" /\ Holds(filesLock, r, 1)
      BY <2>3, OwnGuards DEF Extend, At, HoldsFiles
    <3> QED
      BY <1>1, <3>1, OneHolder
  <2>4. CASE QuietStep(r)
    BY <2>1, <2>4 DEF QuietStep, Behind, dataVars
  <2>5. CASE Panic(r)
    BY <2>5 DEF Panic, Behind, dataVars
  <2> QED
    BY <1>3, <2>2, <2>3, <2>4, <2>5, HandlerSteps
<1>4. CASE Deliver
  BY <1>4, DeliverLocks DEF Deliver, Behind, dataVars
<1>5. CASE UNCHANGED vars
  BY <1>5 DEF vars, Behind
<1> QED
  BY <1>2, <1>3, <1>4, <1>5 DEF Next

(* When nobody is behind, a completion that has the files finds the text   *)
(* it was asked in, in the buffer and in the cache.                        *)
LEMMA UpToDate ==
    ASSUME Locks, Arrival, NEW s \in Slots, Completes(task[s]), Holds(filesLock, s, 1),
           ~Behind
    PROVE  InItsText(s)
<1>1. PICK w \in Uris : w = task[s].uri
  BY LocksParts DEF Completes, ForDocument
<1>2. task[s].pc = "read"
  BY DEF Completes
<1>3. \A r \in Slots : task[r].pc # "extend"
  BY <1>2, OneHolder DEF HoldsFiles
<1>4. PICK v \in Versions : TextAfter(Earlier(w, s), w, v) /\ Asked(task[s], v)
  BY <1>1 DEF Arrival, TextArrives
<1>5. Earlier(w, s) = {}
  BY HolderFirst DEF Earlier
<1>6. textBuffers[w] = v
  BY <1>4, <1>5 DEF TextAfter
<1>7. ~OnItsWay(w)
  BY <1>3 DEF Behind, OnItsWay, WillRead, HasRead, HasStored
<1>8. caches[w] = v
  BY <1>6, <1>7, Numbers DEF Arrival, ResultsArrive, Settled
<1> QED
  BY <1>1, <1>4, <1>6, <1>8 DEF InItsText

(* So it stays until the name is cut out.                                  *)
LEMMA CutsNext == Locks /\ Arrival /\ CutsItsText /\ [Next]_vars => CutsItsText'
<1> SUFFICES ASSUME Locks, Arrival, CutsItsText, [Next]_vars, NEW s \in Slots,
                    task'[s].pc = "suggest", task'[s].kind = "dotCompletion"
             PROVE  Behind' \/ InItsText(s)'
  BY DEF CutsItsText
<1>1. CASE task'[s] = task[s]
  <2>1. UNCHANGED <<textBuffers, caches>> /\ (Behind => Behind')
    BY <1>1, NothingMoves
  <2> QED
    BY <1>1, <2>1 DEF CutsItsText, InItsText, Asked
<1>2. CASE task'[s] # task[s]
  <2>1. Message(s) \/ Handler(s)
    BY <1>2, OwnStep
  <2>2. ~Message(s)
    <3>1. Message(s) => task'[s].pc \in {"write", "snapshot", "read", "remove"}
      BY MessageSteps DEF MessageStep
    <3> QED
      BY <3>1
  <2>3. Complete(s) \/ Collect(s)
    <3>1. task \in [Slots -> Task]
      BY LocksParts
    <3>2. \A pc \in Pc : Goto(s, pc) => task'[s].pc = pc
      BY <3>1, TaskGoto
    <3>3. ~Return(s)
      BY <3>1, TaskReturn, IdleTask
    <3>4. ~Snapshot(s) /\ ~GotoFound(s)
      BY <3>1 DEF Snapshot, GotoFound, Task
    <3>5. ~Write(s) /\ ~Store(s) /\ ~Extend(s) /\ ~Remove(s)
      BY <3>2 DEF Write, Store, Extend, Remove, Pc
    <3>6. ~Published(s) /\ ~Answer(s) /\ ~Resolve(s) /\ ~Suggest(s)
      BY <1>2, <3>3 DEF Published, Answer, Resolve, Suggest
    <3>7. ~ReferencesFound(s) /\ ~RenameFound(s)
      BY <3>2 DEF ReferencesFound, RenameFound, Pc
    <3> QED
      BY <2>1, <2>2, <3>4, <3>5, <3>6, <3>7 DEF Handler
  <2>4. ~Collect(s)
    BY LocksParts, TaskGoto, TaskReturn, IdleTask DEF Collect, Pc
  <2>5. /\ Completes(task[s]) /\ Holds(filesLock, s, 1) /\ Goto(s, "suggest")
        /\ UNCHANGED <<textBuffers, caches>>
    BY <1>2, <2>3, <2>4 DEF Complete, Completes, At, dataVars
  <2>6. /\ task'[s].pos = task[s].pos /\ task'[s].kind = task[s].kind
        /\ task'[s].uri = task[s].uri
        /\ \A r \in Slots \ {s} : task'[r] = task[r]
    BY <2>5, LocksParts, TaskGoto DEF Pc
  <2>7. CASE Behind
    BY <2>5, <2>6, <2>7 DEF Behind, Completes
  <2>8. CASE ~Behind
    <3>1. InItsText(s)
      BY <2>5, <2>8, UpToDate
    <3> QED
      BY <2>5, <2>6, <3>1 DEF InItsText, Asked
  <2> QED
    BY <2>7, <2>8
<1> QED
  BY <1>1, <1>2

(* completion turns the position into an offset of the cached file with    *)
(* unwrap(), and with it cuts the name before a `.' out of the buffer.  It *)
(* can panic while a newer text of a file is on its way to the cache; else *)
(* only after a `.' that is the first character, or in a text whose        *)
(* characters are not all bytes.                                           *)
THEOREM PanicOnlyBehindCorrect == Spec => []PanicOnlyBehind
<1>1. Init => CutsItsText /\ PanicOnlyBehind
  BY IdleTask DEF Init, CutsItsText, PanicOnlyBehind
<1>2. Locks /\ Arrival /\ CutsItsText /\ PanicOnlyBehind /\ [Next]_vars => PanicOnlyBehind'
  <2> SUFFICES ASSUME Locks, Arrival, CutsItsText, PanicOnlyBehind, [Next]_vars
               PROVE  PanicOnlyBehind'
    OBVIOUS
  <2>1. ASSUME crashed PROVE PanicOnlyBehind'
    <3>1. UNCHANGED <<task, textBuffers, caches, crashed>>
      BY <2>1 DEF Next, Message, DidOpen, DidChange, DidSave, DidClose, Query, Start, Handler,
                  Write, Snapshot, Store, Extend, Remove, Published, Answer, GotoFound,
                  ReferencesFound, RenameFound, Collect, Resolve, Complete, Suggest, At,
                  Deliver, vars
    <3> QED
      BY <2>1, <3>1 DEF PanicOnlyBehind, Behind, NamePanics
  <2>2. ASSUME NEW s \in Slots, Panic(s), ~Behind, Completes(task[s])
        PROVE  FALSE
    <3>1. InItsText(s) /\ ~HasLine(caches[task[s].uri], task[s].pos)
      BY <2>2, UpToDate DEF Panic, Completes
    <3>2. \A v \in Versions : Asked(task[s], v) => HasLine(v, task[s].pos)
      BY TextAssumption DEF Asked, AsksAt
    <3> QED
      BY <3>1, <3>2 DEF InItsText
  <2>3. ASSUME NEW s \in Slots, Panic(s), ~Behind, ~Completes(task[s])
        PROVE  /\ task[s].pc = "suggest" /\ NamePanics(s)
               /\ \/ GetOffset(caches[task[s].uri], task[s].pos) = 1
                  \/ textBuffers[task[s].uri] \notin Ascii
    <3>1. task[s].pc = "suggest" /\ NamePanics(s)
      BY <2>3 DEF Panic
    <3>2. InItsText(s) /\ task[s].kind = "dotCompletion"
      BY <2>3, <3>1 DEF CutsItsText, NamePanics
    <3> DEFINE pos == task[s].pos
    <3>3. PICK v \in Versions : /\ v = caches[task[s].uri]
                               /\ v = textBuffers[task[s].uri]
                               /\ pos \in Dots[v]
      BY <3>2 DEF InItsText, Asked, AsksAt
    <3>4. SlicePanics(GetOffset(v, pos), v)
      BY <3>1, <3>3 DEF NamePanics
    <3>5. CASE v \in Ascii
      <4>1. /\ pos \in Position /\ HasLine(v, pos) /\ pos.column > 0
            /\ GetOffset(v, pos) <= Chars[v] /\ Chars[v] \in Nat /\ LineStarts[v] \in Seq(Nat)
        BY <3>3, <3>5, TextAssumption
      <4>2. pos.line \in Nat /\ pos.column \in Nat
        BY <4>1 DEF Position
      <4>3. GetOffset(v, pos) \in Nat /\ GetOffset(v, pos) > 0
        <5>1. CASE pos.line = 0
          BY <4>1, <4>2, <5>1 DEF GetOffset
        <5>2. CASE pos.line # 0
          <6>1. pos.line \in 1 .. Len(LineStarts[v])
            BY <4>1, <4>2, <5>2 DEF HasLine
          <6>2. LineStarts[v][pos.line] \in Nat
            BY <4>1, <6>1, ElementOfSeq
          <6>3. GetOffset(v, pos) = LineStarts[v][pos.line] + pos.column
            BY <5>2 DEF GetOffset
          <6>4. \A n, m \in Nat : m > 0 => n + m \in Nat /\ n + m > 0
            OBVIOUS
          <6> QED
            BY ONLY <4>1, <4>2, <6>2, <6>3, <6>4
        <5> QED
          BY <5>1, <5>2
      <4>4. GetOffset(v, pos) = 1
        BY <3>4, <4>1, <4>3 DEF SlicePanics
      <4> QED
        BY <3>1, <3>3, <4>4
    <3> QED
      BY <3>1, <3>3, <3>5
  <2>4. ASSUME ~crashed, crashed' PROVE PanicOnlyBehind'
    <3>1. PICK s \in Slots : Panic(s)
      BY <2>4, OnlyPanicCrashes
    <3>2. UNCHANGED <<task, textBuffers, caches>>
      BY <3>1 DEF Panic, dataVars
    <3>3. Behind => Behind'
      BY <3>2 DEF Behind
    <3>4. CASE Behind
      BY <3>3, <3>4 DEF PanicOnlyBehind
    <3>5. CASE ~Behind
      <4>1. /\ task[s].pc = "suggest" /\ NamePanics(s)
            /\ \/ GetOffset(caches[task[s].uri], task[s].pos) = 1
               \/ textBuffers[task[s].uri] \notin Ascii
        BY <2>2, <2>3, <3>1, <3>5
      <4> QED
        BY <3>2, <4>1 DEF PanicOnlyBehind, NamePanics
    <3> QED
      BY <3>4, <3>5
  <2>5. ~crashed' => PanicOnlyBehind'
    BY DEF PanicOnlyBehind
  <2> QED
    BY <2>1, <2>4, <2>5
<1> QED
  BY <1>1, <1>2, CutsNext, ArrivalAlways, PTL DEF Spec
=============================================================================
