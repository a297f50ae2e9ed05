--------------------------- MODULE Explorer_proofs ---------------------------
(***************************************************************************)
(* What holds of the workspace of the playground for any names and texts,  *)
(* any number of nodes and any number of gestures: the invariants that     *)
(* Explorer.cfg checks on a small tree.                                    *)
(***************************************************************************)
EXTENDS Explorer, SequenceTheorems, WellFoundedInduction, TLAPS

(* A tree holds every folder above a node.  A node keeps a path as long as *)
(* its place; those of the first level never move.                         *)
Tree(t) ==
    /\ DOMAIN t \subseteq Places
    /\ \A p \in DOMAIN t :
          /\ t[p] \in Node
          /\ Len(t[p].path) = Len(p)
          /\ Len(p) = 1 => t[p].path = p
          /\ Ancestors(p) \subseteq DOMAIN t

Context(c) ==
    /\ DOMAIN c = {"explorer", "files", "tabs", "currentFile", "compiled"}
    /\ Tree(c.explorer)
    /\ DOMAIN c.files \subseteq Places
    /\ \A p \in DOMAIN c.files : c.files[p] \in Texts \cup {NoText}
    /\ c.tabs \in Seq(Places \cup {Home})
    /\ IsInjective(c.tabs)
    /\ c.currentFile \in Places \cup {Home, None}
    /\ c.compiled \subseteq Places

-----------------------------------------------------------------------------
(* The parts of the invariant: what is true of a context, whatever gesture *)
(* comes next, as long as none of the rare things has happened.            *)

Whole(t) == \A p \in DOMAIN t : t[p].kind # "hole"

Placed(t) == \A p \in DOMAIN t : t[p].path = p

Texted(c) ==
    /\ \A p \in DOMAIN c.files : c.files[p] # NoText
    /\ \A p \in DOMAIN c.explorer :
          c.explorer[p].kind = "file" => p \in DOMAIN c.files

Opens(c, p) == Contains(c.tabs, p) \/ c.currentFile = p \/ p \in c.compiled

Opened(c) == \A p \in Places : Opens(c, p) => p \in DOMAIN c.files

Tabbed(c) ==
    \A p \in DOMAIN c.explorer :
        c.currentFile = p /\ c.explorer[p].kind = "file" => Contains(c.tabs, p)

(* `rare' is what has happened, `on' whether the initial state was sent.   *)
Sound(c, rare, on) ==
    /\ Context(c)
    /\ "late" \notin rare => Whole(c.explorer)
    /\ "moved" \notin rare => Placed(c.explorer) /\ Texted(c) /\ Tabbed(c)
    /\ rare \cap {"moved", "stale"} = {} => Opened(c)
    /\ c.currentFile = None => c.tabs = <<>>
    /\ on /\ c.currentFile = Home => Contains(c.tabs, Home)

IsBase(base) == base = <<>> \/ (base \in Places /\ Len(base) = 1)

Rest ==
    /\ view \in Views
    /\ loaded \in BOOLEAN
    /\ shown \in Texts
    /\ compiling \subseteq Places
    /\ crashed \in BOOLEAN
    /\ gestures \in 0 .. MaxGestures
    /\ causes \subseteq {"moved", "late", "stale", "stray"}
    /\ \A drop \in drops : IsBase(drop[1]) /\ drop[2] \in Dropped

(* While the explorer is on the screen it has crashed or it can be drawn.  *)
Draws == view = "files" => crashed = ~TreeRenders(context.explorer)

Shows ==
    loaded => \/ Value(context) = NoText
              \/ shown = Value(context)
              \/ "stray" \in causes /\ Value(context) = Empty

IInv == Sound(context, causes, loaded) /\ Rest /\ Draws /\ Shows

-----------------------------------------------------------------------------
(* Induction, from the least number that would contradict it.              *)
LessThan == {p \in Nat \X Nat : p[1] < p[2]}

(* A set of numbers has a least one.                                       *)
LEMMA Least ==
    ASSUME NEW S \in SUBSET Nat, S # {}
    PROVE  \E n \in S : \A m \in S : n <= m
<1>1. IsWellFoundedOn(LessThan, Nat)
  BY NatLessThanWellFounded DEF OpToRel, LessThan
<1>2. PICK n \in S : \A m \in S : ~(<<m, n>> \in LessThan)
  BY <1>1, WFMin, Zenon
<1>3. \A m \in S : m \in Nat /\ n \in Nat /\ ~(m < n)
  BY <1>2, Zenon DEF LessThan
<1> QED
  BY <1>3

(* What holds of a, and of i + 1 if it does of i, holds from a to b.       *)
LEMMA Induction ==
    ASSUME NEW a \in Nat, NEW b \in Nat, NEW S,
           a <= b => a \in S, \A i \in a .. b - 1 : i \in S => i + 1 \in S
    PROVE  a .. b \subseteq S
<1> SUFFICES ASSUME NEW x \in a .. b, x \notin S PROVE FALSE
  OBVIOUS
<1>0. PICK W : W = {i \in a .. b : i \notin S}
  BY Zenon
<1>1. PICK n \in W : \A m \in W : n <= m
  <2>1. W \in SUBSET Nat /\ x \in W
    BY <1>0
  <2> QED
    BY <2>1, Least
<1>2. n # a /\ n \in a .. b /\ n \notin S
  BY <1>0
<1>3. n - 1 \in a .. b - 1 /\ n - 1 \notin W
  BY <1>1, <1>2
<1>4. n - 1 \in S /\ (n - 1) + 1 = n
  BY <1>0, <1>2, <1>3
<1> QED
  BY <1>2, <1>3, <1>4

(* A function that is defined by what it is before exists.                 *)
IsUpto(f, k, V, base, step) ==
    /\ f \in [0 .. k -> V] /\ f[0] = base
    /\ \A i \in 1 .. k : f[i] = step[i][f[i - 1]]

(* Such a function exists, whatever each step makes of the value before.   *)
LEMMA Recursion ==
    ASSUME NEW n \in Nat, NEW V, NEW base \in V, NEW step \in [1 .. n -> [V -> V]]
    PROVE  \E f : IsUpto(f, n, V, base, step)
<1>0. PICK S : S = {k \in 0 .. n : \E f : IsUpto(f, k, V, base, step)}
  BY Zenon
<1>1. 0 \in S
  <2>1. PICK f : f = [i \in 0 .. 0 |-> base]
    BY Zenon
  <2>2. IsUpto(f, 0, V, base, step)
    BY <2>1 DEF IsUpto
  <2> QED
    BY <1>0, <2>2
<1>2. ASSUME NEW k \in 0 .. n - 1, k \in S PROVE k + 1 \in S
  <2>1. PICK f : IsUpto(f, k, V, base, step)
    BY <1>0, <1>2
  <2>2. f \in [0 .. k -> V] /\ f[0] = base /\ \A i \in 1 .. k : f[i] = step[i][f[i - 1]]
    BY <2>1 DEF IsUpto
  <2>3. PICK v \in V : v = step[k + 1][f[k]]
    BY <2>2
  <2>4. PICK g : g = [i \in 0 .. k + 1 |-> IF i <= k THEN f[i] ELSE v]
    BY Zenon
  <2>5. /\ g \in [0 .. k + 1 -> V] /\ g[0] = base /\ g[k + 1] = v
        /\ \A i \in 0 .. k : g[i] = f[i]
    BY <2>2, <2>4
  <2>6. ASSUME NEW i \in 1 .. k + 1 PROVE g[i] = step[i][g[i - 1]]
    <3>1. CASE i = k + 1
      BY <2>3, <2>5, <3>1
    <3>2. CASE i # k + 1
      <4>1. i \in 1 .. k /\ i - 1 \in 0 .. k /\ i \in 0 .. k
        BY <3>2
      <4> QED
        BY <2>2, <2>5, <4>1
    <3> QED
      BY <3>1, <3>2
  <2>7. IsUpto(g, k + 1, V, base, step)
    BY <2>5, <2>6 DEF IsUpto
  <2> QED
    BY <1>0, <2>7
<1>3. 0 .. n \subseteq S
  <2>1. 0 \in Nat /\ (0 <= n => 0 \in S)
    BY <1>1
  <2>2. \A k \in 0 .. n - 1 : k \in S => k + 1 \in S
    BY <1>2
  <2> QED
    BY <2>1, <2>2, Induction, Zenon
<1> QED
  BY <1>0, <1>3

-----------------------------------------------------------------------------
(* Places.                                                                 *)

(* A place is one name, or the name of a folder and one in it.             *)
LEMMA PlaceShape ==
    ASSUME NEW p \in Places
    PROVE  \/ \E m \in Names : p = <<m>>
           \/ \E m, n \in Names : p = <<m, n>>
BY DEF Places

(* A name is a place, and so are two.                                      *)
LEMMA PlaceOf == \A m, n \in Names : <<m>> \in Places /\ <<m, n>> \in Places
BY DEF Places

(* The first name of two, and the two of them again.                       *)
LEMMA TwoNames ==
    ASSUME NEW m \in Names, NEW n \in Names
    PROVE  /\ SubSeq(<<m, n>>, 1, 1) = <<m>> /\ SubSeq(<<m, n>>, 1, 2) = <<m, n>>
           /\ SubSeq(<<m>>, 1, 1) = <<m>>
           /\ Append(<<m>>, n) = <<m, n>>
<1>1. <<m, n>> \in Seq(Names) /\ Len(<<m, n>>) = 2
  OBVIOUS
<1>2. <<m>> \in Seq(Names) /\ Len(<<m>>) = 1
  OBVIOUS
<1>3. SubSeq(<<m, n>>, 1, 1) = <<m>>
  <2>1. \A i \in 1 .. 1 : <<m, n>>[i] \in Names
    OBVIOUS
  <2>2. /\ SubSeq(<<m, n>>, 1, 1) \in Seq(Names)
        /\ Len(SubSeq(<<m, n>>, 1, 1)) = 1
        /\ \A i \in 1 .. 1 : SubSeq(<<m, n>>, 1, 1)[i] = <<m, n>>[1 + i - 1]
    BY <2>1, SubSeqProperties
  <2>3. \A i \in 1 .. 1 : SubSeq(<<m, n>>, 1, 1)[i] = <<m>>[i]
    BY <2>2
  <2> QED
    BY <1>2, <2>2, <2>3, SeqEqual
<1>4. SubSeq(<<m, n>>, 1, 2) = <<m, n>> /\ SubSeq(<<m>>, 1, 1) = <<m>>
  BY <1>1, <1>2, SubSeqFull
<1>5. Append(<<m>>, n) = <<m, n>>
  <2>1. /\ Append(<<m>>, n) \in Seq(Names) /\ Len(Append(<<m>>, n)) = 2
        /\ Append(<<m>>, n)[1] = m /\ Append(<<m>>, n)[2] = n
    BY <1>2, AppendProperties
  <2>2. \A i \in 1 .. 2 : Append(<<m>>, n)[i] = <<m, n>>[i]
    BY <2>1
  <2> QED
    BY <1>1, <2>1, <2>2, SeqEqual
<1> QED
  BY <1>3, <1>4, <1>5

(* The folder a place is in and its last name make the place again; the    *)
(* only folder above it is that one.                                       *)
LEMMA PlaceFacts ==
    ASSUME NEW p \in Places
    PROVE  /\ Len(p) \in {1, 2} /\ Last(p) \in Names
           /\ IsBase(Front(p)) /\ Child(Front(p), Last(p)) = p
           /\ Ancestors(p) = IF Len(p) = 1 THEN {} ELSE {Front(p)}
           /\ Len(p) = 1 => Front(p) = <<>>
           /\ Len(p) = 2 => Front(p) \in Places /\ Len(Front(p)) = 1
<1>1. ASSUME NEW m \in Names, p = <<m>>
      PROVE  /\ Len(p) = 1 /\ Last(p) = m /\ Front(p) = <<>>
             /\ Child(Front(p), Last(p)) = p /\ Ancestors(p) = {}
  <2>1. Len(p) = 1 /\ Last(p) = m /\ Front(p) = <<>>
    BY <1>1 DEF Last, Front
  <2>2. Append(<<>>, m) = <<m>>
    OBVIOUS
  <2> QED
    BY <1>1, <2>1, <2>2 DEF Child, Ancestors
<1>2. ASSUME NEW m \in Names, NEW n \in Names, p = <<m, n>>
      PROVE  /\ Len(p) = 2 /\ Last(p) = n /\ Front(p) = <<m>>
             /\ Child(Front(p), Last(p)) = p /\ Ancestors(p) = {Front(p)}
  <2>1. Len(p) = 2 /\ Last(p) = n
    BY <1>2 DEF Last
  <2>2. SubSeq(p, 1, 1) = <<m>>
    BY <1>2, TwoNames
  <2>3. Front(p) = <<m>>
    BY <2>1, <2>2 DEF Front
  <2>4. Append(<<m>>, n) = <<m, n>>
    BY TwoNames
  <2>5. Ancestors(p) = {SubSeq(p, 1, 1)}
    BY <2>1 DEF Ancestors
  <2> QED
    BY <1>2, <2>1, <2>2, <2>3, <2>4, <2>5 DEF Child
<1>3. CASE \E m \in Names : p = <<m>>
  <2>1. PICK m \in Names : p = <<m>>
    BY <1>3
  <2>2. /\ Len(p) = 1 /\ Last(p) = m /\ Front(p) = <<>>
        /\ Child(Front(p), Last(p)) = p /\ Ancestors(p) = {}
    BY <1>1, <2>1
  <2> QED
    BY <2>2 DEF IsBase
<1>4. CASE \E m, n \in Names : p = <<m, n>>
  <2>1. \A m \in Names : <<m>> \in Places /\ Len(<<m>>) = 1
    BY PlaceOf
  <2>2. PICK m \in Names, n \in Names : p = <<m, n>>
    BY <1>4
  <2>3. /\ Len(p) = 2 /\ Last(p) = n /\ Front(p) = <<m>>
        /\ Child(Front(p), Last(p)) = p /\ Ancestors(p) = {Front(p)}
    BY <1>2, <2>2
  <2> QED
    BY <2>1, <2>3 DEF IsBase
<1> QED
  BY <1>3, <1>4, PlaceShape

(* Folders are above places of the second level only.                      *)
LEMMA AncestorFacts ==
    ASSUME NEW p \in Places, NEW a \in Ancestors(p)
    PROVE  a \in Places /\ Len(a) = 1 /\ Len(p) = 2 /\ a = Front(p) /\ Ancestors(a) = {}
<1>1. Len(p) = 2 /\ a = Front(p) /\ a \in Places /\ Len(a) = 1
  BY PlaceFacts
<1> QED
  BY <1>1, PlaceFacts

(* What is under a place is the place itself and what it is a folder of.   *)
LEMMA UnderFacts ==
    ASSUME NEW p \in Places, NEW q
    PROVE  Under(p, q) <=> q \in Places /\ (p = q \/ p \in Ancestors(q))
<1>1. ASSUME q \in Places, Under(p, q), p # q PROVE p \in Ancestors(q)
  <2>1. Len(p) <= Len(q) /\ SubSeq(p, 1, Len(p)) = SubSeq(q, 1, Len(p))
    BY <1>1 DEF Under, IsPrefix
  <2>2. \A r \in Places : r = SubSeq(r, 1, Len(r)) /\ Len(r) \in {1, 2}
    <3> TAKE r \in Places
    <3>1. CASE \E m \in Names : r = <<m>>
      BY <3>1, TwoNames
    <3>2. CASE \E m, n \in Names : r = <<m, n>>
      BY <3>2, TwoNames
    <3> QED
      BY <3>1, <3>2, PlaceShape
  <2>3. Len(p) # Len(q)
    <3>1. p = SubSeq(p, 1, Len(p)) /\ q = SubSeq(q, 1, Len(q))
      BY <1>1, <2>2
    <3> QED
      BY <1>1, <2>1, <3>1
  <2>4. Len(p) = 1 /\ Len(q) = 2
    BY <1>1, <2>1, <2>2, <2>3
  <2>5. p = SubSeq(q, 1, 1)
    BY <2>1, <2>2, <2>4
  <2>6. 1 \in 1 .. Len(q) - 1
    BY <2>4
  <2> QED
    BY <2>5, <2>6 DEF Ancestors
<1>2. ASSUME q \in Places, p = q PROVE Under(p, q)
  <2>1. Len(p) <= Len(q)
    BY <1>2, PlaceFacts
  <2> QED
    BY <1>2, <2>1 DEF Under, IsPrefix
<1>3. ASSUME q \in Places, p \in Ancestors(q) PROVE Under(p, q)
  <2>1. Len(q) = 2 /\ Len(p) = 1
    BY <1>3, AncestorFacts
  <2>2. p = SubSeq(q, 1, 1)
    BY <1>3, <2>1 DEF Ancestors
  <2>3. SubSeq(p, 1, 1) = p
    <3>1. PICK m \in Names : p = <<m>>
      BY <2>1, PlaceShape
    <3> QED
      BY <3>1, TwoNames
  <2> QED
    BY <1>3, <2>1, <2>2, <2>3 DEF Under, IsPrefix
<1> QED
  BY <1>1, <1>2, <1>3 DEF Under

(* A new node is made in the root or in a folder of the first level.       *)
LEMMA ChildFacts ==
    ASSUME NEW base, IsBase(base), NEW n \in Names
    PROVE  /\ Child(base, n) \in Places
           /\ Len(Child(base, n)) = Len(base) + 1
           /\ Ancestors(Child(base, n)) = IF base = <<>> THEN {} ELSE {base}
           /\ Front(Child(base, n)) = base
<1>1. CASE base = <<>>
  <2>1. Child(base, n) = <<n>>
    BY <1>1 DEF Child
  <2>2. Child(base, n) \in Places /\ Len(Child(base, n)) = 1 /\ Len(base) = 0
    BY <1>1, <2>1, PlaceOf
  <2> QED
    BY <1>1, <2>2, PlaceFacts
<1>2. CASE base \in Places /\ Len(base) = 1
  <2>1. PICK m \in Names : base = <<m>>
    BY <1>2, PlaceShape
  <2>2. Child(base, n) = <<m, n>>
    BY <2>1, TwoNames DEF Child
  <2>3. Child(base, n) \in Places /\ Len(Child(base, n)) = 2
    BY <2>2, PlaceOf
  <2>4. Front(Child(base, n)) = base
    <3>1. Front(Child(base, n)) = SubSeq(Child(base, n), 1, 1)
      BY <2>3 DEF Front
    <3> QED
      BY <2>1, <2>2, <3>1, TwoNames
  <2>5. base # <<>>
    BY <1>2
  <2> QED
    BY <1>2, <2>3, <2>4, <2>5, PlaceFacts
<1> QED
  BY <1>1, <1>2 DEF IsBase

-----------------------------------------------------------------------------
(* Trees.                                                                  *)

(* What is left of a tree when a node is taken out is a tree.              *)
LEMMA CutTree ==
    ASSUME NEW t, Tree(t), NEW p \in Places
    PROVE  /\ Tree(Cut(t, p))
           /\ DOMAIN Cut(t, p) = {q \in DOMAIN t : ~Under(p, q)}
           /\ \A q \in DOMAIN Cut(t, p) : Cut(t, p)[q] = t[q]
<1>1. /\ DOMAIN Cut(t, p) = {q \in DOMAIN t : ~Under(p, q)}
      /\ \A q \in DOMAIN Cut(t, p) : Cut(t, p)[q] = t[q]
  BY DEF Cut, Restrict
<1>2. ASSUME NEW q \in DOMAIN t, ~Under(p, q), NEW a \in Ancestors(q)
      PROVE  a \in DOMAIN t /\ ~Under(p, a)
  <2>1. q \in Places /\ a \in DOMAIN t
    BY DEF Tree
  <2>2. a \in Places /\ Ancestors(a) = {}
    BY <2>1, AncestorFacts
  <2>3. a # p
    BY <1>2, <2>1, UnderFacts
  <2> QED
    BY <2>1, <2>2, <2>3, UnderFacts
<1>3. \A q \in DOMAIN Cut(t, p) : Ancestors(q) \subseteq DOMAIN Cut(t, p)
  BY <1>1, <1>2
<1>4. DOMAIN Cut(t, p) \subseteq Places
  BY <1>1 DEF Tree
<1>5. \A q \in DOMAIN Cut(t, p) :
         Cut(t, p)[q] \in Node /\ Len(Cut(t, p)[q].path) = Len(q)
            /\ (Len(q) = 1 => Cut(t, p)[q].path = q)
  BY <1>1 DEF Tree
<1> QED
  BY <1>1, <1>3, <1>4, <1>5 DEF Tree

Fits(node, p) ==
    node \in Node /\ Len(node.path) = Len(p) /\ (Len(p) = 1 => node.path = p)

(* A tree with a node set in it is a tree: the nodes under the place are   *)
(* gone and the folders that were missing above it are holes.              *)
LEMMA SetTree ==
    ASSUME NEW t, Tree(t), NEW p \in Places, NEW node, Fits(node, p)
    PROVE  /\ Tree(Set(t, p, node))
           /\ p \in DOMAIN Set(t, p, node) /\ Set(t, p, node)[p] = node
           /\ \A q \in DOMAIN Set(t, p, node) :
                 \/ q = p
                 \/ /\ q \in DOMAIN t /\ ~Under(p, q)
                    /\ Set(t, p, node)[q] = t[q]
                 \/ /\ q \in Ancestors(p) /\ q \notin DOMAIN t
                    /\ Set(t, p, node)[q] = Hole(q)
           /\ \A q \in DOMAIN t : ~Under(p, q) => q \in DOMAIN Set(t, p, node)
           /\ Ancestors(p) \subseteq DOMAIN Set(t, p, node)
<1> DEFINE s == Set(t, p, node)
<1>1. DOMAIN s = {q \in DOMAIN t : ~Under(p, q)} \cup Ancestors(p) \cup {p}
  BY CutTree DEF Set
<1>2. \A q \in DOMAIN s :
         s[q] = IF q = p THEN node ELSE IF q \in DOMAIN t THEN t[q] ELSE Hole(q)
  BY DEF Set
<1>3. \A a \in Ancestors(p) :
         a \in Places /\ a # p /\ Len(a) = 1 /\ ~Under(p, a) /\ Ancestors(a) = {}
  <2> TAKE a \in Ancestors(p)
  <2>1. a \in Places /\ Len(a) = 1 /\ Len(p) = 2 /\ Ancestors(a) = {}
    BY AncestorFacts
  <2>2. a # p
    BY <2>1
  <2> QED
    BY <2>1, <2>2, UnderFacts
<1> HIDE DEF s
<1>4. \A q \in DOMAIN s :
          \/ q = p /\ s[q] = node
          \/ q \in DOMAIN t /\ ~Under(p, q) /\ s[q] = t[q]
          \/ q \in Ancestors(p) /\ q \notin DOMAIN t /\ s[q] = Hole(q)
  <2> TAKE q \in DOMAIN s
  <2>1. CASE q = p
    BY <1>2, <2>1
  <2>2. CASE q # p
    BY <1>1, <1>2, <1>3, <2>2
  <2> QED
    BY <2>1, <2>2
<1>5. \A q \in DOMAIN s : q \in Places /\ Fits(s[q], q)
  <2> TAKE q \in DOMAIN s
  <2>1. CASE q = p /\ s[q] = node
    BY <2>1
  <2>2. CASE q \in DOMAIN t /\ ~Under(p, q) /\ s[q] = t[q]
    BY <2>2 DEF Tree, Fits
  <2>3. CASE q \in Ancestors(p) /\ q \notin DOMAIN t /\ s[q] = Hole(q)
    BY <1>3, <2>3 DEF Fits, Node, Hole
  <2> QED
    BY <1>4, <2>1, <2>2, <2>3
<1>6. \A q \in DOMAIN s : Ancestors(q) \subseteq DOMAIN s
  <2> SUFFICES ASSUME NEW q \in DOMAIN s, NEW a \in Ancestors(q) PROVE a \in DOMAIN s
    OBVIOUS
  <2>1. CASE q = p
    BY <1>1, <2>1
  <2>2. CASE q \in DOMAIN t /\ ~Under(p, q)
    <3>1. Tree(Cut(t, p)) /\ q \in DOMAIN Cut(t, p)
      BY <2>2, CutTree
    <3>2. a \in DOMAIN Cut(t, p)
      BY <3>1 DEF Tree
    <3> QED
      BY <1>1, <3>2, CutTree
  <2>3. CASE q \in Ancestors(p)
    BY <1>3, <2>3
  <2> QED
    BY <1>4, <2>1, <2>2, <2>3
<1>7. Tree(s)
  BY <1>5, <1>6 DEF Tree, Fits
<1>8. /\ p \in DOMAIN s /\ s[p] = node
      /\ \A q \in DOMAIN t : ~Under(p, q) => q \in DOMAIN s
      /\ Ancestors(p) \subseteq DOMAIN s
  BY <1>1, <1>2
<1> QED
  BY <1>4, <1>7, <1>8, Zenon DEF s

(* Nothing but a folder that is missing becomes a hole.                    *)
LEMMA SetWhole ==
    ASSUME NEW t, Tree(t), Whole(t), NEW p \in Places, NEW node, Fits(node, p),
           node.kind # "hole", Ancestors(p) \subseteq DOMAIN t
    PROVE  Whole(Set(t, p, node))
<1>1. \A q \in DOMAIN Set(t, p, node) :
         q = p \/ (q \in DOMAIN t /\ Set(t, p, node)[q] = t[q])
  BY SetTree
<1> QED
  BY <1>1, SetTree DEF Whole

(* The nodes keep the places they have.                                    *)
LEMMA SetPlaced ==
    ASSUME NEW t, Tree(t), Placed(t), NEW p \in Places, NEW node, Fits(node, p),
           node.path = p
    PROVE  Placed(Set(t, p, node))
<1> SUFFICES ASSUME NEW q \in DOMAIN Set(t, p, node)
             PROVE  Set(t, p, node)[q].path = q
  BY DEF Placed
<1>1. \/ q = p /\ Set(t, p, node)[q] = node
      \/ q \in DOMAIN t /\ Set(t, p, node)[q] = t[q]
      \/ Set(t, p, node)[q] = Hole(q)
  BY SetTree
<1> QED
  BY <1>1 DEF Placed, Hole

-----------------------------------------------------------------------------
(* Tabs.                                                                   *)

(* What is appended is in the list, once if it was not there.             *)
LEMMA AppendedFacts ==
    ASSUME NEW S, NEW s \in Seq(S), NEW e \in S
    PROVE  /\ Append(s, e) \in Seq(S)
           /\ \A x : Contains(Append(s, e), x) <=> (Contains(s, x) \/ e = x)
           /\ IsInjective(s) /\ ~Contains(s, e) => IsInjective(Append(s, e))
<1>1. /\ Append(s, e) \in Seq(S) /\ Len(Append(s, e)) = Len(s) + 1
      /\ \A k \in 1 .. Len(s) : Append(s, e)[k] = s[k]
      /\ Append(s, e)[Len(s) + 1] = e
      /\ Len(s) \in Nat
  BY AppendProperties, LenProperties
<1>2. \A x : Contains(Append(s, e), x) <=> (Contains(s, x) \/ e = x)
  BY <1>1 DEF Contains
<1>3. ASSUME IsInjective(s), ~Contains(s, e) PROVE IsInjective(Append(s, e))
  <2>1. DOMAIN s = 1 .. Len(s) /\ DOMAIN Append(s, e) = 1 .. Len(s) + 1
    BY <1>1, LenProperties
  <2>2. \A k, l \in 1 .. Len(s) : s[k] = s[l] => k = l
    BY <1>3, <2>1 DEF IsInjective
  <2>3. \A k \in 1 .. Len(s) : s[k] # e
    BY <1>3 DEF Contains
  <2>4. \A k \in 1 .. Len(s) + 1 : k \in 1 .. Len(s) \/ k = Len(s) + 1
    BY <1>1
  <2>5. \A k, l \in 1 .. Len(s) + 1 : Append(s, e)[k] = Append(s, e)[l] => k = l
    BY <1>1, <2>2, <2>3, <2>4, Zenon
  <2> QED
    BY <2>1, <2>5 DEF IsInjective
<1> QED
  BY <1>1, <1>2, <1>3

(* The tabs that stay are those not taken away, each once and in a list.   *)
LEMMA WithoutFacts ==
    ASSUME NEW S, NEW tabs \in Seq(S), NEW gone
    PROVE  /\ Without(tabs, gone) \in Seq(S)
           /\ \A x : Contains(Without(tabs, gone), x) <=>
                        (Contains(tabs, x) /\ x \notin gone)
           /\ IsInjective(tabs) => IsInjective(Without(tabs, gone))
<1>1. PICK n \in Nat : n = Len(tabs)
  BY LenProperties
<1>2. PICK step : step = [i \in 1 .. n |-> [v \in Seq(S) |->
                             IF tabs[i] \in gone THEN v ELSE Append(v, tabs[i])]]
  BY Zenon
<1>3. \A i \in 1 .. n : tabs[i] \in S
  BY <1>1, ElementOfSeq
<1>4. step \in [1 .. n -> [Seq(S) -> Seq(S)]]
  <2>1. \A i \in 1 .. n, v \in Seq(S) : Append(v, tabs[i]) \in Seq(S)
    BY <1>3, AppendProperties
  <2> QED
    BY <1>2, <2>1
<1>5. PICK f : IsUpto(f, n, Seq(S), <<>>, step)
  BY <1>1, <1>4, EmptySeq, Recursion, Zenon
<1>6. /\ f \in [0 .. n -> Seq(S)] /\ f[0] = <<>>
      /\ \A i \in 1 .. n : f[i] = step[i][f[i - 1]]
  BY <1>5 DEF IsUpto
<1>7. ASSUME NEW i \in 1 .. n
      PROVE  f[i] = IF tabs[i] \in gone THEN f[i - 1] ELSE Append(f[i - 1], tabs[i])
  <2>1. i - 1 \in 0 .. n /\ f[i - 1] \in Seq(S)
    BY <1>6
  <2>2. step[i] = [v \in Seq(S) |->
                      IF tabs[i] \in gone THEN v ELSE Append(v, tabs[i])]
    BY <1>2
  <2>3. step[i][f[i - 1]] =
            IF tabs[i] \in gone THEN f[i - 1] ELSE Append(f[i - 1], tabs[i])
    BY <2>1, <2>2
  <2> QED
    BY <1>6, <2>3
<1> DEFINE Step(g) ==
        [i \in 0 .. Len(tabs) |->
            IF i = 0 THEN <<>>
            ELSE IF tabs[i] \in gone THEN g[i - 1] ELSE Append(g[i - 1], tabs[i])]
<1>8. f = Step(f)
  <2>1. \A i \in 0 .. n : i # 0 => i \in 1 .. n
    OBVIOUS
  <2>2. ASSUME NEW i \in 0 .. n
        PROVE  f[i] = IF i = 0 THEN <<>>
                      ELSE IF tabs[i] \in gone THEN f[i - 1]
                      ELSE Append(f[i - 1], tabs[i])
    BY <1>6, <1>7, <2>1, Zenon
  <2> QED
    BY <1>1, <1>6, <2>2, Zenon
<1>9. PICK F : F = (CHOOSE g : g = Step(g))
  BY Zenon
<1>10. F = Step(F)
  BY <1>8, <1>9, Zenon
<1>11. Without(tabs, gone) = F[n]
  BY <1>1, <1>9 DEF Without
<1>12. /\ F[0] = <<>>
       /\ \A i \in 1 .. n :
             F[i] = IF tabs[i] \in gone THEN F[i - 1] ELSE Append(F[i - 1], tabs[i])
  <2>1. 0 \in 0 .. n /\ \A i \in 1 .. n : i \in 0 .. n /\ i # 0
    OBVIOUS
  <2>2. \A i \in 0 .. n :
             F[i] = IF i = 0 THEN <<>>
                    ELSE IF tabs[i] \in gone THEN F[i - 1]
                    ELSE Append(F[i - 1], tabs[i])
    BY <1>1, <1>10, Zenon
  <2> QED
    BY <2>1, <2>2
<1> HIDE DEF Step
<1> DEFINE Good(i) ==
        /\ F[i] \in Seq(S)
        /\ \A x : Contains(F[i], x) <=>
                     (x \notin gone /\ \E j \in 1 .. i : tabs[j] = x)
        /\ IsInjective(tabs) => IsInjective(F[i])
<1>13. Good(0)
  <2>1. \A x : ~Contains(<<>>, x)
    BY DEF Contains
  <2>2. IsInjective(<<>>)
    BY DEF IsInjective
  <2>3. ~\E j \in 1 .. 0 : TRUE
    OBVIOUS
  <2>4. \A x : ~\E j \in 1 .. 0 : tabs[j] = x
    BY <2>3
  <2> QED
    BY <1>12, <2>1, <2>2, <2>4, EmptySeq, Zenon
<1>14. ASSUME NEW i \in 0 .. n - 1, Good(i) PROVE Good(i + 1)
  <2>0. i + 1 \in 1 .. n /\ (i + 1) - 1 = i
    OBVIOUS
  <2>1. F[i + 1] = IF tabs[i + 1] \in gone THEN F[i] ELSE Append(F[i], tabs[i + 1])
    BY <1>12, <2>0, Zenon
  <2>2. \A x : (\E j \in 1 .. i + 1 : tabs[j] = x) <=>
                  ((\E j \in 1 .. i : tabs[j] = x) \/ tabs[i + 1] = x)
    OBVIOUS
  <2>3. CASE tabs[i + 1] \in gone
    <3>1. F[i + 1] = F[i]
      BY <2>1, <2>3
    <3>2. \A x : Contains(F[i], x) <=>
                     (x \notin gone /\ \E j \in 1 .. i + 1 : tabs[j] = x)
      BY <1>14, <2>2, <2>3, Zenon
    <3> QED
      BY <1>14, <3>1, <3>2, Zenon
  <2>4. CASE tabs[i + 1] \notin gone
    <3> DEFINE e == tabs[i + 1]
               s == F[i]
    <3>1. F[i + 1] = Append(s, e) /\ s \in Seq(S) /\ e \in S
      BY <1>3, <1>14, <2>0, <2>1, <2>4
    <3>2. /\ \A x : Contains(s, x) <=>
                       (x \notin gone /\ \E j \in 1 .. i : tabs[j] = x)
          /\ IsInjective(tabs) => IsInjective(s)
      BY <1>14, Zenon
    <3> HIDE DEF s, e
    <3>3. Append(s, e) \in Seq(S)
      BY <3>1, AppendProperties
    <3>4. \A x : Contains(Append(s, e), x) <=> (Contains(s, x) \/ e = x)
      BY <3>1, AppendedFacts
    <3>5. \A x : Contains(Append(s, e), x) <=>
                     (x \notin gone /\ \E j \in 1 .. i + 1 : tabs[j] = x)
      <4>1. e = tabs[i + 1] /\ e \notin gone
        BY <2>4 DEF e
      <4> QED
        BY <2>2, <3>2, <3>4, <4>1, Zenon
    <3>6. ASSUME IsInjective(tabs) PROVE IsInjective(Append(s, e))
      <4>1. ~Contains(s, e)
        <5>1. \A j \in 1 .. i : tabs[j] # tabs[i + 1]
          <6>1. DOMAIN tabs = 1 .. n
            BY <1>1, LenProperties
          <6>2. \A j \in 1 .. i : j \in 1 .. n /\ j # i + 1
            OBVIOUS
          <6> QED
            BY <2>0, <3>6, <6>1, <6>2, Zenon DEF IsInjective
        <5> QED
          BY <3>2, <5>1, Zenon DEF e
      <4> QED
        BY <3>1, <3>2, <3>6, <4>1, AppendedFacts
    <3> QED
      BY <3>1, <3>3, <3>5, <3>6, Zenon
  <2> QED
    BY <2>3, <2>4
<1> HIDE DEF Good
<1>15. PICK W : W = {i \in 0 .. n : Good(i)}
  BY Zenon
<1>16. 0 .. n \subseteq W
  <2>1. 0 \in Nat /\ (0 <= n => 0 \in W)
    BY <1>13, <1>15
  <2>2. ASSUME NEW i \in 0 .. n - 1, i \in W PROVE i + 1 \in W
    <3>1. i + 1 \in 0 .. n
      OBVIOUS
    <3>2. Good(i)
      BY <1>15, <2>2
    <3> QED
      BY <1>14, <1>15, <3>1, <3>2, Zenon
  <2> QED
    BY <2>1, <2>2, Induction, Zenon
<1>17. Good(n)
  <2>1. n \in 0 .. n
    OBVIOUS
  <2> QED
    BY <1>15, <1>16, <2>1, Zenon
<1>18. \A x : Contains(tabs, x) <=> \E j \in 1 .. n : tabs[j] = x
  BY <1>1, Zenon DEF Contains
<1> QED
  BY <1>11, <1>17, <1>18, Zenon DEF Good

(* Nothing is left of no tabs; the last of some tabs is one of them.       *)
LEMMA TabsEnd ==
    ASSUME NEW S, NEW tabs \in Seq(S)
    PROVE  /\ \A x : tabs = <<>> => ~Contains(tabs, x)
           /\ (\A x : ~Contains(tabs, x)) => tabs = <<>>
           /\ tabs # <<>> => Contains(tabs, Last(tabs)) /\ Last(tabs) \in S
<1>1. Len(tabs) \in Nat /\ (tabs # <<>> => Len(tabs) \in 1 .. Len(tabs))
  BY LenProperties, EmptySeq
<1>2. tabs # <<>> => Contains(tabs, Last(tabs)) /\ Last(tabs) \in S
  BY <1>1, ElementOfSeq DEF Contains, Last
<1>3. ASSUME NEW x, tabs = <<>> PROVE ~Contains(tabs, x)
  BY <1>3 DEF Contains
<1> QED
  BY <1>2, <1>3

-----------------------------------------------------------------------------
(* The events of the store keep what is true of its context.               *)
Fields == {"explorer", "files", "tabs", "currentFile", "compiled"}
Tabs == Places \cup {Home}

(* More of the rare things may have happened.                              *)
LEMMA SoundMore ==
    ASSUME NEW c, NEW rare, NEW more, NEW on, Sound(c, rare, on), rare \subseteq more
    PROVE  Sound(c, more, on)
BY Zenon DEF Sound

(* A tab is added to the others, or is there already.                      *)
LEMMA AddTabFacts ==
    ASSUME NEW c, DOMAIN c = Fields, c.tabs \in Seq(Tabs), IsInjective(c.tabs),
           NEW p \in Tabs, NEW d, d = AddTab(c, p)
    PROVE  /\ DOMAIN d = Fields
           /\ d.explorer = c.explorer /\ d.files = c.files
           /\ d.currentFile = c.currentFile /\ d.compiled = c.compiled
           /\ d.tabs \in Seq(Tabs) /\ IsInjective(d.tabs)
           /\ \A x : Contains(d.tabs, x) <=> (Contains(c.tabs, x) \/ p = x)
<1>1. CASE Contains(c.tabs, p)
  BY <1>1 DEF AddTab
<1>2. CASE ~Contains(c.tabs, p)
  <2>1. d = [c EXCEPT !.tabs = Append(c.tabs, p)]
    BY <1>2 DEF AddTab
  <2>2. /\ DOMAIN d = Fields
        /\ d.explorer = c.explorer /\ d.files = c.files
        /\ d.currentFile = c.currentFile /\ d.compiled = c.compiled
        /\ d.tabs = Append(c.tabs, p)
    BY <2>1 DEF Fields
  <2> QED
    BY <1>2, <2>2, AppendedFacts
<1> QED
  BY <1>1, <1>2

(* The text of a place that is written is known.                           *)
LEMMA WithFacts ==
    ASSUME NEW f, NEW x, NEW v
    PROVE  /\ DOMAIN With(f, x, v) = DOMAIN f \cup {x}
           /\ With(f, x, v)[x] = v
           /\ \A y \in DOMAIN f : y # x => With(f, x, v)[y] = f[y]
BY DEF With

(* A place that has a text, or home, may be opened.                        *)
LEMMA SetCurrentPathSound ==
    ASSUME NEW c, NEW rare, NEW on, Sound(c, rare, on), NEW p \in Tabs,
           rare \cap {"moved", "stale"} = {} /\ p \in Places => p \in DOMAIN c.files,
           NEW d, d = SetCurrentPath(c, p)
    PROVE  Sound(d, rare, TRUE)
<1> DEFINE b == [c EXCEPT !.currentFile = p]
<1>0. DOMAIN c = Fields /\ c.tabs \in Seq(Tabs) /\ IsInjective(c.tabs)
  BY DEF Sound, Context, Fields, Tabs
<1>1. /\ DOMAIN b = Fields /\ b.tabs = c.tabs
      /\ b.explorer = c.explorer /\ b.files = c.files
      /\ b.currentFile = p /\ b.compiled = c.compiled
  BY <1>0 DEF Fields
<1>2. d = AddTab(b, p)
  BY DEF SetCurrentPath
<1> HIDE DEF b
<1>3. /\ DOMAIN d = Fields
      /\ d.explorer = c.explorer /\ d.files = c.files
      /\ d.currentFile = p /\ d.compiled = c.compiled
      /\ d.tabs \in Seq(Tabs) /\ IsInjective(d.tabs)
      /\ \A x : Contains(d.tabs, x) <=> (Contains(c.tabs, x) \/ p = x)
  <2>1. DOMAIN b = Fields /\ b.tabs \in Seq(Tabs) /\ IsInjective(b.tabs)
    BY <1>0, <1>1
  <2>2. /\ DOMAIN d = Fields
        /\ d.explorer = b.explorer /\ d.files = b.files
        /\ d.currentFile = b.currentFile /\ d.compiled = b.compiled
        /\ d.tabs \in Seq(Tabs) /\ IsInjective(d.tabs)
        /\ \A x : Contains(d.tabs, x) <=> (Contains(b.tabs, x) \/ p = x)
    BY <1>2, <2>1, AddTabFacts
  <2> QED
    BY <1>1, <2>2
<1>4. Context(d)
  BY <1>3 DEF Sound, Context, Fields, Tabs
<1>5. "late" \notin rare => Whole(d.explorer)
  BY <1>3 DEF Sound
<1>6. "moved" \notin rare => Placed(d.explorer) /\ Texted(d) /\ Tabbed(d)
  BY <1>3 DEF Sound, Texted, Tabbed
<1>7. rare \cap {"moved", "stale"} = {} => Opened(d)
  BY <1>3 DEF Sound, Opened, Opens
<1>8. p # None
  BY NoPlaceAssumption DEF Tabs
<1>9. d.currentFile = Home => Contains(d.tabs, Home)
  BY <1>3
<1> QED
  BY <1>3, <1>4, <1>5, <1>6, <1>7, <1>8, <1>9 DEF Sound

(* What is opened is the current file.                                     *)
LEMMA OpensPath ==
    ASSUME NEW c, DOMAIN c = Fields, NEW p
    PROVE  SetCurrentPath(c, p).currentFile = p
BY DEF SetCurrentPath, AddTab, Fields

(* When a tab is closed the last of the others is opened.                  *)
LEMMA RemoveTabSound ==
    ASSUME NEW c, NEW rare, NEW on, Sound(c, rare, on), NEW p \in Tabs,
           NEW d, d = RemoveTab(c, p)
    PROVE  /\ Sound(d, rare, on)
           /\ d.explorer = c.explorer /\ d.files = c.files /\ d.compiled = c.compiled
           /\ d.currentFile # p /\ ~Contains(d.tabs, p)
<1> DEFINE left == Without(c.tabs, {p})
<1>0. DOMAIN c = Fields /\ c.tabs \in Seq(Tabs) /\ IsInjective(c.tabs)
  BY DEF Sound, Context, Fields, Tabs
<1>1. /\ left \in Seq(Tabs) /\ IsInjective(left)
      /\ \A x : Contains(left, x) <=> (Contains(c.tabs, x) /\ x # p)
  BY <1>0, WithoutFacts
<1>2. /\ DOMAIN d = Fields /\ d.tabs = left
      /\ d.explorer = c.explorer /\ d.files = c.files /\ d.compiled = c.compiled
      /\ d.currentFile = IF c.currentFile # p THEN c.currentFile
                         ELSE IF left = <<>> THEN None ELSE Last(left)
  BY <1>0 DEF RemoveTab, Fields
<1> HIDE DEF left
<1>3. left # <<>> => Contains(left, Last(left)) /\ Last(left) \in Tabs
  BY <1>1, TabsEnd
<1>4. p # None /\ Home # None /\ Home \notin Places /\ None \notin Places
  BY NoPlaceAssumption DEF Tabs
<1>5. d.currentFile # p
  BY <1>1, <1>2, <1>3, <1>4
<1>6. \/ d.currentFile = c.currentFile /\ c.currentFile # p
      \/ d.currentFile = None /\ left = <<>>
      \/ Contains(left, d.currentFile) /\ d.currentFile \in Tabs
  BY <1>2, <1>3
<1>7. Context(d)
  <2>1. d.currentFile \in Places \cup {Home, None}
    BY <1>6 DEF Sound, Context, Tabs
  <2> QED
    BY <1>1, <1>2, <2>1 DEF Sound, Context, Fields, Tabs
<1>8. \A x \in Tabs : Opens(d, x) => Opens(c, x) /\ (x = p => x \in c.compiled)
  BY <1>1, <1>2, <1>4, <1>5, <1>6 DEF Opens, Tabs
<1>9. "late" \notin rare => Whole(d.explorer)
  BY <1>2 DEF Sound
<1>10. ASSUME "moved" \notin rare PROVE Placed(d.explorer) /\ Texted(d) /\ Tabbed(d)
  <2>1. Placed(c.explorer) /\ Texted(c) /\ Tabbed(c) /\ DOMAIN c.explorer \subseteq Places
    BY <1>10 DEF Sound, Context, Tree
  <2>2. Tabbed(d)
    BY <1>1, <1>2, <1>4, <1>6, <2>1 DEF Tabbed
  <2> QED
    BY <1>2, <2>1, <2>2 DEF Texted
<1>11. rare \cap {"moved", "stale"} = {} => Opened(d)
  BY <1>2, <1>8 DEF Sound, Opened, Tabs
<1>12. d.currentFile = None => d.tabs = <<>>
  <2>1. CASE left = <<>>
    BY <1>2, <2>1
  <2>2. CASE left # <<>>
    <3>1. d.currentFile = None => c.currentFile = None
      BY <1>4, <1>6, <2>2 DEF Tabs
    <3>2. c.currentFile = None => c.tabs = <<>>
      BY DEF Sound
    <3> QED
      BY <1>0, <1>1, <1>3, <2>2, <3>1, <3>2, TabsEnd
  <2> QED
    BY <2>1, <2>2
<1>13. on /\ d.currentFile = Home => Contains(d.tabs, Home)
  <2>1. on /\ c.currentFile = Home => Contains(c.tabs, Home)
    BY DEF Sound
  <2> QED
    BY <1>1, <1>2, <1>4, <1>6, <2>1
<1> QED
  BY <1>1, <1>2, <1>5, <1>7, <1>9, <1>10, <1>11, <1>12, <1>13 DEF Sound

(* A file that is added to a folder that is there has a place, a text and  *)
(* a tab, and is opened.                                                   *)
LEMMA AddFileSound ==
    ASSUME NEW c, NEW rare, NEW on, Sound(c, rare, on),
           NEW base, IsBase(base), NEW n \in Names, NEW text \in Texts \cup {NoText},
           "moved" \notin rare => text # NoText,
           "late" \notin rare => base = <<>> \/ base \in DOMAIN c.explorer,
           NEW d, d = AddFile(c, base, n, text)
    PROVE  /\ Sound(d, rare, TRUE)
           /\ d.explorer = Set(c.explorer, Child(base, n), File(Child(base, n)))
           /\ Child(base, n) \in DOMAIN d.files
           /\ base \in DOMAIN c.explorer => base \in DOMAIN d.explorer
<1> DEFINE p == Child(base, n)
           b == [c EXCEPT !.explorer = Set(@, p, File(p)),
                          !.files = With(@, p, text), !.currentFile = p]
<1>0. /\ DOMAIN c = Fields /\ c.tabs \in Seq(Tabs) /\ IsInjective(c.tabs)
      /\ Tree(c.explorer) /\ DOMAIN c.files \subseteq Places
      /\ \A q \in DOMAIN c.files : c.files[q] \in Texts \cup {NoText}
      /\ c.compiled \subseteq Places
  BY DEF Sound, Context, Fields, Tabs
<1>1. /\ p \in Places /\ p \in Tabs
      /\ Ancestors(p) = IF base = <<>> THEN {} ELSE {base}
  BY ChildFacts DEF Tabs
<1>2. /\ DOMAIN b = Fields /\ b.tabs = c.tabs
      /\ b.explorer = Set(c.explorer, p, File(p)) /\ b.files = With(c.files, p, text)
      /\ b.currentFile = p /\ b.compiled = c.compiled
  BY <1>0 DEF Fields
<1>3. d = AddTab(b, p)
  BY DEF AddFile
<1> HIDE DEF p, b
<1>4. /\ DOMAIN d = Fields
      /\ d.explorer = Set(c.explorer, p, File(p)) /\ d.files = With(c.files, p, text)
      /\ d.currentFile = p /\ d.compiled = c.compiled
      /\ d.tabs \in Seq(Tabs) /\ IsInjective(d.tabs)
      /\ \A x : Contains(d.tabs, x) <=> (Contains(c.tabs, x) \/ p = x)
  <2>1. DOMAIN b = Fields /\ b.tabs \in Seq(Tabs) /\ IsInjective(b.tabs)
    BY <1>0, <1>2
  <2>2. /\ DOMAIN d = Fields
        /\ d.explorer = b.explorer /\ d.files = b.files
        /\ d.currentFile = b.currentFile /\ d.compiled = b.compiled
        /\ d.tabs \in Seq(Tabs) /\ IsInjective(d.tabs)
        /\ \A x : Contains(d.tabs, x) <=> (Contains(b.tabs, x) \/ p = x)
    BY <1>1, <1>3, <2>1, AddTabFacts
  <2> QED
    BY <1>2, <2>2
<1>5. Fits(File(p), p) /\ File(p).kind = "file" /\ File(p).path = p
  BY <1>1 DEF Fits, File, Node
<1>6. /\ DOMAIN d.files = DOMAIN c.files \cup {p} /\ d.files[p] = text
      /\ \A q \in DOMAIN c.files : q # p => d.files[q] = c.files[q]
  BY <1>4 DEF With
<1>7. Tree(d.explorer)
  BY <1>0, <1>1, <1>4, <1>5, SetTree
<1>8. \A q \in DOMAIN d.explorer :
         \/ q = p /\ d.explorer[q] = File(p)
         \/ q \in DOMAIN c.explorer /\ d.explorer[q] = c.explorer[q]
         \/ d.explorer[q] = Hole(q)
  BY <1>0, <1>1, <1>4, <1>5, SetTree
<1>9. Context(d)
  BY <1>0, <1>1, <1>4, <1>6, <1>7 DEF Context, Fields, Tabs
<1>10. ASSUME "late" \notin rare PROVE Whole(d.explorer)
  <2>1. Ancestors(p) \subseteq DOMAIN c.explorer
    BY <1>1, <1>10
  <2>2. Whole(c.explorer) /\ File(p).kind # "hole"
    BY <1>5, <1>10 DEF Sound
  <2> QED
    BY <1>0, <1>1, <1>4, <1>5, <2>1, <2>2, SetWhole
<1>11. ASSUME "moved" \notin rare
       PROVE  Placed(d.explorer) /\ Texted(d) /\ Tabbed(d)
  <2>1. Placed(c.explorer) /\ Texted(c) /\ text # NoText
    BY <1>11 DEF Sound
  <2>2. Placed(d.explorer)
    BY <1>0, <1>1, <1>4, <1>5, <2>1, SetPlaced
  <2>3. \A q : Hole(q).kind # "file"
    BY DEF Hole
  <2>4. Texted(d)
    BY <1>6, <1>8, <2>1, <2>3 DEF Texted
  <2>5. Tabbed(d)
    BY <1>4 DEF Tabbed
  <2> QED
    BY <2>2, <2>4, <2>5
<1>12. rare \cap {"moved", "stale"} = {} => Opened(d)
  BY <1>4, <1>6 DEF Sound, Opened, Opens
<1>13. p # None
  BY <1>1, NoPlaceAssumption
<1>14. d.currentFile = Home => Contains(d.tabs, Home)
  BY <1>4
<1>15. base \in DOMAIN c.explorer => base \in DOMAIN d.explorer
  <2>1. ASSUME base \in DOMAIN c.explorer PROVE base \in DOMAIN d.explorer
    <3>1. base \in Places /\ base # <<>>
      <4>1. base \in Places
        BY <1>0, <2>1 DEF Tree
      <4>2. Len(base) # 0
        BY <4>1, PlaceFacts
      <4> QED
        BY <4>1, <4>2
    <3>2. base \in Ancestors(p)
      BY <1>1, <3>1
    <3> QED
      BY <1>0, <1>1, <1>4, <1>5, <3>2, SetTree
  <2> QED
    BY <2>1
<1>16. Sound(d, rare, TRUE)
  BY <1>4, <1>9, <1>10, <1>11, <1>12, <1>13, <1>14 DEF Sound
<1> QED
  BY <1>4, <1>6, <1>15, <1>16 DEF p

(* Files that are added one after the other: one or two of them.           *)
LEMMA AddFilesSound ==
    ASSUME NEW c, NEW rare, NEW on, Sound(c, rare, on),
           NEW base, IsBase(base), NEW files \in Dropped,
           "late" \notin rare => base = <<>> \/ base \in DOMAIN c.explorer,
           NEW d, d = AddFiles(c, base, files)
    PROVE  Sound(d, rare, TRUE)
<1>1. /\ Len(files) \in {1, 2}
      /\ \A i \in 1 .. Len(files) :
            files[i][1] \in Names /\ files[i][2] \in Texts /\ files[i][2] # NoText
  BY NoTextAssumption DEF Dropped, Names, NewNames, Texts
<1> DEFINE Step(g) ==
        [i \in 0 .. Len(files) |->
            IF i = 0 THEN c
            ELSE AddFile(g[i - 1], base, files[i][1], files[i][2])]
           one == AddFile(c, base, files[1][1], files[1][2])
           two == AddFile(one, base, files[2][1], files[2][2])
<1>2. PICK F : F = (CHOOSE g : g = Step(g))
  BY Zenon
<1>3. d = F[Len(files)]
  BY <1>2 DEF AddFiles
<1> HIDE DEF one, two
<1>4. F = Step(F)
  <2>1. PICK f : f = [i \in 0 .. Len(files) |->
                         IF i = 0 THEN c ELSE IF i = 1 THEN one ELSE two]
    BY Zenon
  <2>2. ASSUME NEW i \in 0 .. Len(files)
        PROVE  f[i] = IF i = 0 THEN c
                      ELSE AddFile(f[i - 1], base, files[i][1], files[i][2])
    <3>1. CASE i = 0
      BY <2>1, <3>1
    <3>2. CASE i = 1
      <4>1. i - 1 = 0 /\ f[0] = c /\ f[i] = one
        BY <1>1, <2>1, <3>2
      <4> QED
        BY <3>2, <4>1 DEF one
    <3>3. CASE i = 2
      <4>1. i - 1 = 1 /\ f[1] = one /\ f[i] = two
        BY <1>1, <2>1, <3>3
      <4> QED
        BY <3>3, <4>1 DEF two
    <3> QED
      BY <1>1, <3>1, <3>2, <3>3
  <2>3. f = Step(f)
    BY <2>1, <2>2, Zenon
  <2> QED
    BY <1>2, <2>3, Zenon
<1>5. F[0] = c /\ F[1] = one
  <2>1. 0 \in 0 .. Len(files) /\ 1 \in 0 .. Len(files) /\ 1 - 1 = 0 /\ 1 # 0
    BY <1>1
  <2>2. F[0] = c
    BY <1>4, <2>1
  <2>3. F[1] = AddFile(F[1 - 1], base, files[1][1], files[1][2])
    BY <1>4, <2>1
  <2> QED
    BY <2>1, <2>2, <2>3 DEF one
<1>6. Len(files) = 2 => F[2] = two
  <2>1. SUFFICES ASSUME Len(files) = 2 PROVE F[2] = two
    OBVIOUS
  <2>2. 2 \in 0 .. Len(files) /\ 2 - 1 = 1 /\ 2 # 0
    BY <2>1
  <2>3. F[2] = AddFile(F[2 - 1], base, files[2][1], files[2][2])
    BY <1>4, <2>2
  <2> QED
    BY <1>5, <2>2, <2>3 DEF two
<1> HIDE DEF Step
<1>7. /\ Sound(one, rare, TRUE)
      /\ base \in DOMAIN c.explorer => base \in DOMAIN one.explorer
  <2>1. 1 \in 1 .. Len(files)
    BY <1>1
  <2>2. files[1][1] \in Names /\ files[1][2] \in Texts /\ files[1][2] # NoText
    BY <1>1, <2>1
  <2>3. PICK m \in Names, text \in Texts \cup {NoText} :
           one = AddFile(c, base, m, text) /\ text # NoText
    BY <2>2 DEF one
  <2> QED
    BY <2>3, AddFileSound
<1>8. Len(files) = 2 => Sound(two, rare, TRUE)
  <2>1. SUFFICES ASSUME Len(files) = 2 PROVE Sound(two, rare, TRUE)
    OBVIOUS
  <2>2. 2 \in 1 .. Len(files)
    BY <2>1
  <2>3. files[2][1] \in Names /\ files[2][2] \in Texts /\ files[2][2] # NoText
    BY <1>1, <2>2
  <2>4. "late" \notin rare => base = <<>> \/ base \in DOMAIN one.explorer
    BY <1>7
  <2>5. PICK m \in Names, text \in Texts \cup {NoText} :
           two = AddFile(one, base, m, text) /\ text # NoText
    BY <2>3 DEF two
  <2> QED
    BY <1>7, <2>4, <2>5, AddFileSound
<1> QED
  BY <1>1, <1>3, <1>5, <1>6, <1>7, <1>8

(* A folder that is made where its own folder is has no file in it.        *)
LEMMA AddFolderSound ==
    ASSUME NEW c, NEW rare, NEW on, Sound(c, rare, on),
           NEW base, IsBase(base), NEW n \in Names,
           base = <<>> \/ base \in DOMAIN c.explorer,
           NEW d, d = AddFolder(c, base, n)
    PROVE  Sound(d, rare, on)
<1> DEFINE p == Child(base, n)
           node == Folder(p, TRUE)
<1>0. DOMAIN c = Fields /\ Tree(c.explorer)
  BY DEF Sound, Context, Fields
<1>1. /\ p \in Places
      /\ Ancestors(p) = IF base = <<>> THEN {} ELSE {base}
  BY ChildFacts
<1>2. /\ DOMAIN d = Fields /\ d.tabs = c.tabs /\ d.explorer = Set(c.explorer, p, node)
      /\ d.files = c.files /\ d.currentFile = c.currentFile /\ d.compiled = c.compiled
  BY <1>0 DEF Fields, AddFolder
<1>3. Fits(node, p) /\ node.kind = "folder" /\ node.path = p
  BY <1>1 DEF Fits, Folder, Node
<1> HIDE DEF p, node
<1>4. Tree(d.explorer)
  BY <1>0, <1>1, <1>2, <1>3, SetTree
<1>5. \A q \in DOMAIN d.explorer :
         \/ d.explorer[q].kind = "folder"
         \/ q \in DOMAIN c.explorer /\ d.explorer[q] = c.explorer[q]
         \/ d.explorer[q] = Hole(q)
  BY <1>0, <1>1, <1>2, <1>3, SetTree
<1>6. Context(d)
  BY <1>2, <1>4 DEF Sound, Context, Fields
<1>7. ASSUME "late" \notin rare PROVE Whole(d.explorer)
  <2>1. Ancestors(p) \subseteq DOMAIN c.explorer
    BY <1>1
  <2>2. Whole(c.explorer) /\ node.kind # "hole"
    BY <1>3, <1>7 DEF Sound
  <2> QED
    BY <1>0, <1>1, <1>2, <1>3, <2>1, <2>2, SetWhole
<1>8. ASSUME "moved" \notin rare
      PROVE  Placed(d.explorer) /\ Texted(d) /\ Tabbed(d)
  <2>1. Placed(c.explorer) /\ Texted(c) /\ Tabbed(c)
    BY <1>8 DEF Sound
  <2>2. Placed(d.explorer)
    BY <1>0, <1>1, <1>2, <1>3, <2>1, SetPlaced
  <2>3. \A q : Hole(q).kind # "file"
    BY DEF Hole
  <2>4. \A q \in DOMAIN d.explorer : d.explorer[q].kind = "file" =>
           q \in DOMAIN c.explorer /\ c.explorer[q].kind = "file"
    BY <1>5, <2>3
  <2> QED
    BY <1>2, <2>1, <2>2, <2>4 DEF Texted, Tabbed
<1>9. rare \cap {"moved", "stale"} = {} => Opened(d)
  BY <1>2 DEF Sound, Opened, Opens
<1> QED
  BY <1>2, <1>6, <1>7, <1>8, <1>9 DEF Sound

(* A file goes from the tree, from the texts, from the tabs and from the   *)
(* list of compiled files.                                                 *)
LEMMA DeleteFileSound ==
    ASSUME NEW c, NEW rare, NEW on, Sound(c, rare, on), NEW p \in Places,
           NEW base, Child(base, Last(p)) \in Places,
           "moved" \notin rare => Child(base, Last(p)) = p,
           NEW d, d = DeleteFile(c, p, base)
    PROVE  Sound(d, rare, on)
<1> DEFINE b == RemoveTab(c, p)
           q == Child(base, Last(p))
<1>1. /\ Sound(b, rare, on)
      /\ b.explorer = c.explorer /\ b.files = c.files /\ b.compiled = c.compiled
      /\ b.currentFile # p /\ ~Contains(b.tabs, p)
  <2>1. p \in Tabs
    BY DEF Tabs
  <2> QED
    BY <2>1, RemoveTabSound
<1>2. /\ DOMAIN b = Fields /\ Tree(b.explorer) /\ DOMAIN b.files \subseteq Places
      /\ \A r \in DOMAIN b.files : b.files[r] \in Texts \cup {NoText}
      /\ b.compiled \subseteq Places
  BY <1>1, Zenon DEF Sound, Context, Fields
<1>3. d = [b EXCEPT !.explorer = Cut(@, q),
                    !.files = Restrict(@, DOMAIN @ \ {p}), !.compiled = @ \ {p}]
  BY DEF DeleteFile
<1> HIDE DEF b, q
<1>4. /\ DOMAIN d = Fields /\ d.tabs = b.tabs /\ d.currentFile = b.currentFile
      /\ d.explorer = Cut(b.explorer, q) /\ d.compiled = b.compiled \ {p}
      /\ d.files = Restrict(b.files, DOMAIN b.files \ {p})
  BY <1>2, <1>3 DEF Fields
<1>5. /\ DOMAIN d.files = DOMAIN b.files \ {p}
      /\ \A r \in DOMAIN d.files : d.files[r] = b.files[r]
  BY <1>4 DEF Restrict
<1>6. q \in Places
  BY DEF q
<1>7. /\ Tree(d.explorer)
      /\ DOMAIN d.explorer = {r \in DOMAIN b.explorer : ~Under(q, r)}
      /\ \A r \in DOMAIN d.explorer : d.explorer[r] = b.explorer[r]
  <2>1. PICK t : t = b.explorer /\ Tree(t) /\ d.explorer = Cut(t, q)
    BY <1>2, <1>4
  <2>2. /\ Tree(Cut(t, q))
        /\ DOMAIN Cut(t, q) = {r \in DOMAIN t : ~Under(q, r)}
        /\ \A r \in DOMAIN Cut(t, q) : Cut(t, q)[r] = t[r]
    BY <2>1, <1>6, CutTree
  <2> QED
    BY <2>1, <2>2
<1>8. Context(d)
  <2>1. b.tabs \in Seq(Tabs) /\ IsInjective(b.tabs) /\ b.currentFile \in Places \cup {Home, None}
    BY <1>1 DEF Sound, Context, Tabs
  <2> QED
    BY <1>2, <1>4, <1>5, <1>7, <2>1 DEF Context, Fields, Tabs
<1>9. "late" \notin rare => Whole(d.explorer)
  BY <1>1, <1>7 DEF Sound, Whole
<1>10. ASSUME "moved" \notin rare
       PROVE  Placed(d.explorer) /\ Texted(d) /\ Tabbed(d)
  <2>1. Placed(b.explorer) /\ Texted(b) /\ Tabbed(b) /\ q = p
    BY <1>1, <1>10 DEF Sound, q
  <2>2. p \notin DOMAIN d.explorer
    BY <1>6, <1>7, <2>1, UnderFacts
  <2> QED
    BY <1>4, <1>5, <1>7, <2>1, <2>2 DEF Placed, Texted, Tabbed
<1>11. rare \cap {"moved", "stale"} = {} => Opened(d)
  BY <1>1, <1>4, <1>5 DEF Sound, Opened, Opens
<1> QED
  BY <1>1, <1>4, <1>8, <1>9, <1>10, <1>11 DEF Sound

(* A folder goes from the tree with what is in it, and so do their tabs.   *)
LEMMA DeleteFolderSound ==
    ASSUME NEW c, NEW rare, NEW on, Sound(c, rare, on), NEW p \in Places,
           NEW d, d = DeleteFolder(c, p)
    PROVE  Sound(d, rare, on)
<1> DEFINE left == Without(c.tabs, {q \in Places : Under(p, q)})
<1>0. /\ DOMAIN c = Fields /\ c.tabs \in Seq(Tabs) /\ IsInjective(c.tabs)
      /\ Tree(c.explorer)
  BY DEF Sound, Context, Fields, Tabs
<1>1. /\ left \in Seq(Tabs) /\ IsInjective(left)
      /\ \A x : Contains(left, x) <=>
            (Contains(c.tabs, x) /\ x \notin {q \in Places : Under(p, q)})
  BY <1>0, WithoutFacts
<1>2. /\ DOMAIN d = Fields /\ d.tabs = left /\ d.explorer = Cut(c.explorer, p)
      /\ d.files = c.files /\ d.compiled = c.compiled /\ d.currentFile = c.currentFile
  BY <1>0 DEF DeleteFolder, Fields
<1> HIDE DEF left
<1>3. /\ Tree(d.explorer)
      /\ DOMAIN d.explorer = {r \in DOMAIN c.explorer : ~Under(p, r)}
      /\ \A r \in DOMAIN d.explorer : d.explorer[r] = c.explorer[r]
  <2>1. PICK t : t = c.explorer /\ Tree(t) /\ d.explorer = Cut(t, p)
    BY <1>0, <1>2
  <2>2. /\ Tree(Cut(t, p))
        /\ DOMAIN Cut(t, p) = {r \in DOMAIN t : ~Under(p, r)}
        /\ \A r \in DOMAIN Cut(t, p) : Cut(t, p)[r] = t[r]
    BY <2>1, CutTree
  <2> QED
    BY <2>1, <2>2
<1>4. Context(d)
  BY <1>1, <1>2, <1>3 DEF Sound, Context, Fields, Tabs
<1>5. "late" \notin rare => Whole(d.explorer)
  BY <1>3 DEF Sound, Whole
<1>6. ASSUME "moved" \notin rare
      PROVE  Placed(d.explorer) /\ Texted(d) /\ Tabbed(d)
  <2>1. Placed(c.explorer) /\ Texted(c) /\ Tabbed(c)
    BY <1>6 DEF Sound
  <2>2. Placed(d.explorer) /\ Texted(d)
    BY <1>2, <1>3, <2>1 DEF Placed, Texted
  <2>3. Tabbed(d)
    BY <1>1, <1>2, <1>3, <2>1 DEF Tabbed
  <2> QED
    BY <2>2, <2>3
<1>7. rare \cap {"moved", "stale"} = {} => Opened(d)
  BY <1>1, <1>2 DEF Sound, Opened, Opens
<1>8. d.currentFile = None => d.tabs = <<>>
  <2>1. c.currentFile = None => c.tabs = <<>>
    BY DEF Sound
  <2> QED
    BY <1>0, <1>1, <1>2, <2>1, TabsEnd
<1>9. on /\ d.currentFile = Home => Contains(d.tabs, Home)
  <2>1. on /\ c.currentFile = Home => Contains(c.tabs, Home)
    BY DEF Sound
  <2> QED
    BY <1>1, <1>2, <2>1, NoPlaceAssumption
<1> QED
  BY <1>2, <1>4, <1>5, <1>6, <1>7, <1>8, <1>9 DEF Sound

(* A file is renamed by adding a copy of it and deleting the old one.      *)
LEMMA RenameFileSound ==
    ASSUME NEW c, NEW rare, NEW on, Sound(c, rare, on), NEW p \in Places,
           NEW base, IsBase(base), NEW n \in Names,
           "moved" \notin rare =>
               Child(base, Last(p)) = p /\ p \in DOMAIN c.files,
           "late" \notin rare => base = <<>> \/ base \in DOMAIN c.explorer,
           NEW d, d = RenameFile(c, p, base, n)
    PROVE  Sound(d, rare, on)
<1> DEFINE b == AddFile(c, base, n, TextOf(c, p))
<1>1. TextOf(c, p) \in Texts \cup {NoText}
  BY DEF Sound, Context, TextOf
<1>2. "moved" \notin rare => TextOf(c, p) # NoText
  BY DEF Sound, Texted, TextOf
<1>3. d = DeleteFile(b, p, base)
  BY DEF RenameFile
<1>4. Sound(b, rare, on)
  <2>1. Sound(b, rare, TRUE)
    BY <1>1, <1>2, AddFileSound
  <2> QED
    BY <2>1 DEF Sound
<1> HIDE DEF b
<1>5. Child(base, Last(p)) \in Places
  BY PlaceFacts, ChildFacts
<1> QED
  BY <1>3, <1>4, <1>5, DeleteFileSound

(* What the name of a folder becomes in the place of a node below it.      *)
LEMMA MovedName ==
    ASSUME NEW m \in Names, NEW n \in Names, NEW k \in Names
    PROVE  /\ <<n>> \o SubSeq(<<m, k>>, 2, 2) = <<n, k>>
           /\ <<n>> \o SubSeq(<<m>>, 2, 1) = <<n>>
<1>1. <<n>> \in Seq(Names) /\ Len(<<n>>) = 1 /\ <<n>>[1] = n
  OBVIOUS
<1>2. \A i \in 2 .. 2 : <<m, k>>[i] \in Names
  OBVIOUS
<1>3. /\ SubSeq(<<m, k>>, 2, 2) \in Seq(Names) /\ Len(SubSeq(<<m, k>>, 2, 2)) = 1
      /\ SubSeq(<<m, k>>, 2, 2)[1] = k
  <2>1. /\ SubSeq(<<m, k>>, 2, 2) \in Seq(Names) /\ Len(SubSeq(<<m, k>>, 2, 2)) = 1
        /\ \A i \in 1 .. 1 : SubSeq(<<m, k>>, 2, 2)[i] = <<m, k>>[2 + i - 1]
    BY <1>2, SubSeqProperties
  <2> QED
    BY <2>1
<1>4. PICK s \in Seq(Names) : s = SubSeq(<<m, k>>, 2, 2) /\ Len(s) = 1 /\ s[1] = k
  BY <1>3
<1>5. /\ <<n>> \o s \in Seq(Names) /\ Len(<<n>> \o s) = 2
      /\ (<<n>> \o s)[1] = n /\ (<<n>> \o s)[2] = k
  <2>1. /\ <<n>> \o s \in Seq(Names) /\ Len(<<n>> \o s) = Len(<<n>>) + Len(s)
        /\ \A i \in 1 .. Len(<<n>>) + Len(s) : (<<n>> \o s)[i] =
              IF i <= Len(<<n>>) THEN <<n>>[i] ELSE s[i - Len(<<n>>)]
    BY <1>1, ConcatProperties
  <2> QED
    BY <1>1, <1>4, <2>1
<1>6. <<n, k>> \in Seq(Names) /\ Len(<<n, k>>) = 2
  OBVIOUS
<1>7. \A i \in 1 .. 2 : (<<n>> \o s)[i] = <<n, k>>[i]
  BY <1>5
<1>8. <<n>> \o s = <<n, k>>
  BY <1>5, <1>6, <1>7, SeqEqual
<1>9. SubSeq(<<m>>, 2, 1) = <<>>
  BY SubSeqEmpty
<1>10. <<n>> \o <<>> = <<n>>
  BY <1>1, ConcatEmptySeq
<1> QED
  BY <1>4, <1>8, <1>9, <1>10

(* A folder is renamed with what is in it, and what is left under the old  *)
(* name goes: only the folder itself may move, or nothing moves.           *)
LEMMA RenameFolderSound ==
    ASSUME NEW c, NEW rare, NEW on, Sound(c, rare, on),
           NEW pos \in DOMAIN c.explorer, NEW n \in Names,
           NEW p, p = c.explorer[pos].path, p \in DOMAIN c.explorer,
           "moved" \notin rare =>
               ~\E q \in DOMAIN c.explorer : q # pos /\ Under(pos, q) /\ n # Last(pos),
           NEW d, d = RenameFolder(c, p, Front(pos), n)
    PROVE  Sound(d, rare, on)
<1> DEFINE base     == Front(pos)
           new      == Child(base, n)
           node     == Folder(new, c.explorer[p].open)
           placed   == Set(c.explorer, new, node)
           Moved(q) == new \o SubSeq(q, Len(p) + 1, Len(q))
           below    == {q \in DOMAIN c.explorer : Under(p, q) /\ q # p}
           moved    == {Moved(q) : q \in below}
           Old(r)   == p \o SubSeq(r, Len(new) + 1, Len(r))
           items    == [r \in moved \cup DOMAIN placed |->
                           IF r \in moved THEN c.explorer[Old(r)] ELSE placed[r]]
           b        == [c EXCEPT !.explorer = items]
<1> HIDE DEF base, new, node, placed, Moved, below, moved, Old, items, b
<1>0. /\ DOMAIN c = Fields /\ Tree(c.explorer) /\ p \in Places /\ pos \in Places
      /\ Len(pos) = Len(p) /\ (Len(pos) = 1 => p = pos) /\ c.explorer[p].open \in BOOLEAN
      /\ Ancestors(pos) \subseteq DOMAIN c.explorer
  BY Zenon DEF Sound, Context, Fields, Tree, Node
<1>1. d = DeleteFolder(b, p)
  BY DEF RenameFolder, base, new, node, placed, Moved, below, moved, Old, items, b
<1>2. DOMAIN b = Fields /\ b.explorer = items /\ b.tabs = c.tabs /\ b.files = c.files
        /\ b.currentFile = c.currentFile /\ b.compiled = c.compiled
  BY <1>0 DEF Fields, b
<1>3. /\ IsBase(base) /\ new \in Places
      /\ Ancestors(new) = IF base = <<>> THEN {} ELSE {base}
  BY <1>0, PlaceFacts, ChildFacts DEF base, new
<1>4. base = <<>> \/ base \in DOMAIN c.explorer
  BY <1>0, PlaceFacts DEF base
<1>5. Fits(node, new) /\ node.kind = "folder" /\ node.path = new
  BY <1>0, <1>3 DEF Fits, Folder, Node, node
<1>6. ASSUME NEW r \in moved
      PROVE  \E m, k \in Names :
                /\ p = <<m>> /\ pos = p /\ new = <<n>> /\ r = <<n, k>> /\ base = <<>>
                /\ <<m, k>> \in DOMAIN c.explorer /\ <<m, k>> \in below
                /\ items[r] = c.explorer[<<m, k>>]
  <2>1. PICK q \in below : r = Moved(q)
    BY DEF moved
  <2>2. q \in Places /\ p \in Ancestors(q) /\ q \in DOMAIN c.explorer
    BY <1>0, <2>1, UnderFacts DEF Tree, below
  <2>3. Len(p) = 1 /\ Len(q) = 2 /\ p = Front(q)
    BY <2>2, AncestorFacts
  <2>4. PICK m \in Names, k \in Names : q = <<m, k>>
    <3>1. \A m \in Names : Len(<<m>>) = 1
      OBVIOUS
    <3>2. ~\E m \in Names : q = <<m>>
      BY <2>3, <3>1
    <3> QED
      BY <2>2, <3>2, PlaceShape
  <2>5. p = <<m>>
    BY <2>3, <2>4, TwoNames DEF Front
  <2>6. pos = p /\ base = <<>>
    <3>1. pos = p
      BY <1>0, <2>3
    <3> QED
      BY <1>0, <2>3, <3>1, PlaceFacts DEF base
  <2>7. new = <<n>>
    BY <2>6 DEF Child, new
  <2>8. r = <<n, k>>
    <3>1. r = <<n>> \o SubSeq(<<m, k>>, 2, 2)
      <4>1. Len(p) + 1 = 2
        BY <2>3
      <4> QED
        BY <2>1, <2>3, <2>4, <2>7, <4>1, Zenon DEF Moved
    <3> QED
      BY <3>1, MovedName
  <2>9. Old(r) = <<m, k>>
    <3>1. Old(r) = <<m>> \o SubSeq(<<n, k>>, 2, 2)
      <4>1. Len(new) + 1 = 2 /\ Len(r) = 2
        BY <2>7, <2>8
      <4> QED
        BY <2>5, <2>8, <4>1, Zenon DEF Old
    <3> QED
      BY <3>1, MovedName
  <2>10. items[r] = c.explorer[Old(r)]
    BY DEF items
  <2> QED
    BY <2>1, <2>2, <2>4, <2>5, <2>6, <2>7, <2>8, <2>9, <2>10
<1>7. /\ DOMAIN items = moved \cup DOMAIN placed
      /\ \A r \in DOMAIN items : r \in moved \/ (r \in DOMAIN placed /\ items[r] = placed[r])
  BY DEF items
<1>8. /\ Tree(placed) /\ new \in DOMAIN placed
      /\ \A q \in DOMAIN placed :
            \/ q = new /\ placed[q] = node
            \/ q \in DOMAIN c.explorer /\ placed[q] = c.explorer[q]
            \/ placed[q] = Hole(q)
  <2>1. PICK t : t = c.explorer /\ Tree(t) /\ placed = Set(t, new, node)
    BY <1>0 DEF placed
  <2>2. /\ Tree(placed) /\ new \in DOMAIN placed /\ placed[new] = node
        /\ \A q \in DOMAIN placed :
              \/ q = new
              \/ q \in DOMAIN t /\ placed[q] = t[q]
              \/ placed[q] = Hole(q)
    BY <1>3, <1>5, <2>1, SetTree
  <2> QED
    BY <2>1, <2>2
<1>9. below \subseteq DOMAIN c.explorer /\ \A q \in below : Under(p, q) /\ q # p
  BY DEF below
<1>10. "late" \notin rare => Whole(placed)
  <2>1. Ancestors(new) \subseteq DOMAIN c.explorer
    BY <1>3, <1>4
  <2>2. ASSUME "late" \notin rare PROVE Whole(c.explorer) /\ node.kind # "hole"
    BY <1>5, <2>2 DEF Sound
  <2> QED
    BY <1>0, <1>3, <1>5, <2>1, <2>2, SetWhole DEF placed
<1>11. "moved" \notin rare => Placed(placed)
  <2>1. ASSUME "moved" \notin rare PROVE Placed(c.explorer)
    BY <2>1 DEF Sound
  <2> QED
    BY <1>0, <1>3, <1>5, <2>1, SetPlaced DEF placed
<1>12. ASSUME NEW r \in moved, "moved" \notin rare
       PROVE  r \in DOMAIN c.explorer /\ items[r] = c.explorer[r]
  <2>1. PICK m \in Names, k \in Names :
           /\ p = <<m>> /\ pos = p /\ r = <<n, k>>
           /\ <<m, k>> \in DOMAIN c.explorer /\ <<m, k>> \in below
           /\ items[r] = c.explorer[<<m, k>>]
    BY <1>6, Zenon
  <2>2. n = Last(pos)
    BY <1>9, <1>12, <2>1
  <2>3. n = m
    BY <2>1, <2>2 DEF Last
  <2> QED
    BY <2>1, <2>3
<1>13. \A r \in DOMAIN items : r \in Places /\ Fits(items[r], r)
  <2> TAKE r \in DOMAIN items
  <2>1. CASE r \in moved
    <3>1. PICK m \in Names, k \in Names :
             /\ r = <<n, k>> /\ <<m, k>> \in DOMAIN c.explorer
             /\ items[r] = c.explorer[<<m, k>>]
      BY <1>6, <2>1, Zenon
    <3>2. Len(r) = 2 /\ Len(<<m, k>>) = 2 /\ r \in Places
      BY <3>1, PlaceOf
    <3>3. items[r] \in Node /\ Len(items[r].path) = Len(<<m, k>>)
      BY <1>0, <3>1, Zenon DEF Tree
    <3> QED
      BY <3>2, <3>3 DEF Fits
  <2>2. CASE r \in DOMAIN placed /\ items[r] = placed[r]
    BY <1>8, <2>2 DEF Tree, Fits
  <2> QED
    BY <1>7, <2>1, <2>2
<1>14. \A r \in DOMAIN items : Ancestors(r) \subseteq DOMAIN items
  <2> SUFFICES ASSUME NEW r \in DOMAIN items PROVE Ancestors(r) \subseteq DOMAIN items
    OBVIOUS
  <2>1. CASE r \in moved
    <3>1. PICK k \in Names : r = <<n, k>> /\ new = <<n>>
      BY <1>6, <2>1, Zenon
    <3>2. r \in Places /\ Len(r) = 2
      BY <3>1, PlaceOf
    <3>3. Front(r) = new
      BY <3>1, <3>2, TwoNames DEF Front
    <3>4. Ancestors(r) = {new}
      BY <3>2, <3>3, PlaceFacts
    <3> QED
      BY <1>7, <1>8, <3>4
  <2>2. CASE r \in DOMAIN placed
    BY <1>7, <1>8, <2>2 DEF Tree
  <2> QED
    BY <1>7, <2>1, <2>2
<1>15. Tree(items)
  BY <1>13, <1>14 DEF Tree, Fits
<1>16. Context(b)
  BY <1>2, <1>15 DEF Sound, Context, Fields
<1>17. ASSUME "late" \notin rare PROVE Whole(b.explorer)
  <2>1. \A r \in moved : \E q \in DOMAIN c.explorer : items[r] = c.explorer[q]
    BY <1>6, Zenon
  <2>2. Whole(c.explorer) /\ Whole(placed)
    BY <1>10, <1>17 DEF Sound
  <2> QED
    BY <1>2, <1>7, <2>1, <2>2 DEF Whole
<1>18. ASSUME "moved" \notin rare
       PROVE  Placed(b.explorer) /\ Texted(b) /\ Tabbed(b)
  <2>1. Placed(c.explorer) /\ Texted(c) /\ Tabbed(c) /\ Placed(placed)
    BY <1>11, <1>18 DEF Sound
  <2>2. \A r \in moved : r \in DOMAIN c.explorer /\ items[r] = c.explorer[r]
    BY <1>12, <1>18
  <2>3. Placed(b.explorer)
    BY <1>2, <1>7, <2>1, <2>2 DEF Placed
  <2>4. \A r \in DOMAIN items : items[r].kind = "file" =>
           r \in DOMAIN c.explorer /\ c.explorer[r].kind = "file"
    <3>1. \A q : Hole(q).kind # "file"
      BY DEF Hole
    <3> QED
      BY <1>5, <1>7, <1>8, <2>2, <3>1
  <2> QED
    BY <1>2, <2>1, <2>3, <2>4 DEF Texted, Tabbed
<1>19. rare \cap {"moved", "stale"} = {} => Opened(b)
  BY <1>2 DEF Sound, Opened, Opens
<1>20. Sound(b, rare, on)
  BY <1>2, <1>16, <1>17, <1>18, <1>19 DEF Sound
<1> QED
  BY <1>0, <1>1, <1>20, DeleteFolderSound

(* A folder that is opened or closed stays where it is.                    *)
LEMMA ToggleFolderSound ==
    ASSUME NEW c, NEW rare, NEW on, Sound(c, rare, on), NEW p \in DOMAIN c.explorer,
           NEW d, d = ToggleFolder(c, p)
    PROVE  Sound(d, rare, on)
<1>0. DOMAIN c = Fields /\ Tree(c.explorer)
  BY DEF Sound, Context, Fields
<1>1. /\ DOMAIN d = Fields /\ d.tabs = c.tabs /\ d.files = c.files
      /\ d.currentFile = c.currentFile /\ d.compiled = c.compiled
      /\ d.explorer = [c.explorer EXCEPT ![p].open = ~@]
  BY <1>0 DEF Fields, ToggleFolder
<1>2. /\ DOMAIN d.explorer = DOMAIN c.explorer
      /\ \A q \in DOMAIN c.explorer :
            /\ d.explorer[q] \in Node
            /\ d.explorer[q].kind = c.explorer[q].kind
            /\ d.explorer[q].path = c.explorer[q].path
  <2>1. \A q \in DOMAIN c.explorer : c.explorer[q] \in Node
    BY <1>0 DEF Tree
  <2>2. DOMAIN d.explorer = DOMAIN c.explorer
    BY <1>1
  <2>3. \A q \in DOMAIN c.explorer :
           d.explorer[q] = IF q = p THEN [c.explorer[p] EXCEPT !.open = ~@]
                           ELSE c.explorer[q]
    BY <1>1
  <2>4. ASSUME NEW v \in Node
        PROVE  /\ [v EXCEPT !.open = ~@] \in Node
               /\ [v EXCEPT !.open = ~@].kind = v.kind
               /\ [v EXCEPT !.open = ~@].path = v.path
    BY DEF Node
  <2>5. p \in DOMAIN c.explorer
    OBVIOUS
  <2>6. ASSUME NEW q \in DOMAIN c.explorer
        PROVE  /\ d.explorer[q] \in Node
               /\ d.explorer[q].kind = c.explorer[q].kind
               /\ d.explorer[q].path = c.explorer[q].path
    <3>1. CASE q = p
      <4>1. c.explorer[p] \in Node /\ d.explorer[p] = [c.explorer[p] EXCEPT !.open = ~@]
        BY <2>1, <2>3, <2>5
      <4>2. PICK v \in Node : v = c.explorer[p]
        BY <4>1
      <4>3. d.explorer[p] = [v EXCEPT !.open = ~@]
        BY <4>1, <4>2
      <4> QED
        BY <2>4, <3>1, <4>2, <4>3
    <3>2. CASE q # p
      BY <2>1, <2>3, <3>2
    <3> QED
      BY <3>1, <3>2
  <2> QED
    BY <2>2, <2>6
<1>3. Tree(d.explorer)
  BY <1>0, <1>2 DEF Tree
<1>4. Context(d)
  BY <1>1, <1>3 DEF Sound, Context, Fields
<1>5. "late" \notin rare => Whole(d.explorer)
  BY <1>2 DEF Sound, Whole
<1>6. "moved" \notin rare => Placed(d.explorer) /\ Texted(d) /\ Tabbed(d)
  BY <1>1, <1>2 DEF Sound, Placed, Texted, Tabbed
<1>7. rare \cap {"moved", "stale"} = {} => Opened(d)
  BY <1>1 DEF Sound, Opened, Opens
<1> QED
  BY <1>1, <1>4, <1>5, <1>6, <1>7 DEF Sound

(* A file whose compilation returned has a text, or is gone meanwhile.     *)
LEMMA AddCompiledSound ==
    ASSUME NEW c, NEW rare, NEW on, Sound(c, rare, on), NEW p \in Places,
           "stale" \notin rare => p \in DOMAIN c.files,
           NEW d, d = AddCompiled(c, p)
    PROVE  Sound(d, rare, on)
<1>0. DOMAIN c = Fields
  BY DEF Sound, Context, Fields
<1>1. /\ DOMAIN d = Fields /\ d.tabs = c.tabs /\ d.files = c.files
      /\ d.currentFile = c.currentFile /\ d.explorer = c.explorer
      /\ d.compiled = c.compiled \cup {p}
  BY <1>0 DEF Fields, AddCompiled
<1>2. Context(d)
  BY <1>1 DEF Sound, Context, Fields
<1>3. "moved" \notin rare => Placed(d.explorer) /\ Texted(d) /\ Tabbed(d)
  BY <1>1 DEF Sound, Texted, Tabbed
<1>4. rare \cap {"moved", "stale"} = {} => Opened(d)
  BY <1>1 DEF Sound, Opened, Opens
<1> QED
  BY <1>1, <1>2, <1>3, <1>4 DEF Sound

(* What is typed goes to the file that is open, or nowhere.                *)
LEMMA ChangeContentSound ==
    ASSUME NEW c, NEW rare, NEW on, Sound(c, rare, on), NEW text \in Texts,
           c.currentFile # Home, NEW d, d = ChangeContent(c, text)
    PROVE  /\ Sound(d, rare, on)
           /\ d.explorer = c.explorer /\ d.currentFile = c.currentFile
           /\ c.currentFile # None =>
                 c.currentFile \in DOMAIN d.files /\ d.files[c.currentFile] = text
<1>0. DOMAIN c = Fields /\ c.currentFile \in Places \cup {Home, None}
  BY DEF Sound, Context, Fields
<1>1. CASE c.currentFile = None
  BY <1>1 DEF ChangeContent
<1>2. CASE c.currentFile # None
  <2>1. /\ DOMAIN d = Fields /\ d.tabs = c.tabs /\ d.compiled = c.compiled
        /\ d.currentFile = c.currentFile /\ d.explorer = c.explorer
        /\ d.files = With(c.files, c.currentFile, text)
    BY <1>0, <1>2 DEF Fields, ChangeContent
  <2>2. /\ DOMAIN d.files = DOMAIN c.files \cup {c.currentFile}
        /\ d.files[c.currentFile] = text
        /\ \A q \in DOMAIN c.files : q # c.currentFile => d.files[q] = c.files[q]
    BY <2>1 DEF With
  <2>3. Context(d)
    BY <1>0, <1>2, <2>1, <2>2 DEF Sound, Context, Fields
  <2>4. ASSUME "moved" \notin rare
        PROVE  Placed(d.explorer) /\ Texted(d) /\ Tabbed(d)
    <3>1. text # NoText
      BY NoTextAssumption
    <3> QED
      BY <2>1, <2>2, <2>4, <3>1 DEF Sound, Texted, Tabbed
  <2>5. rare \cap {"moved", "stale"} = {} => Opened(d)
    BY <2>1, <2>2 DEF Sound, Opened, Opens
  <2> QED
    BY <1>2, <2>1, <2>2, <2>3, <2>4, <2>5 DEF Sound
<1> QED
  BY <1>1, <1>2

-----------------------------------------------------------------------------
(* The steps keep the invariant.                                           *)
Rare == {"moved", "late", "stale", "stray"}

(* A tree whose nodes are where their paths say, without holes, renders.   *)
LEMMA WholeRenders ==
    ASSUME NEW t, Whole(t), Placed(t)
    PROVE  TreeRenders(t)
<1> SUFFICES ASSUME NEW p \in Rendered(t)
             PROVE  /\ t[p].kind # "hole" /\ t[p].path \in DOMAIN t
                    /\ t[p].kind = "folder" => t[t[p].path].kind # "file"
  BY DEF TreeRenders
<1>1. p \in DOMAIN t /\ t[p].path = p /\ t[p].kind # "hole"
  BY DEF Rendered, Whole, Placed
<1> QED
  BY <1>1

(* A component of the explorer has a node, and a node is at its path.      *)
LEMMA ExploredFacts ==
    ASSUME IInv, ~crashed, NEW kind, NEW p \in Explored(kind)
    PROVE  /\ p \in DOMAIN context.explorer /\ p \in Places
           /\ context.explorer[p].kind = kind
           /\ PathOf(p) \in DOMAIN context.explorer /\ PathOf(p) \in Places
           /\ "moved" \notin causes => PathOf(p) = p
           /\ Ancestors(p) \subseteq DOMAIN context.explorer
           /\ Front(p) = <<>> \/ Front(p) \in DOMAIN context.explorer
           /\ IsBase(Front(p)) /\ Last(p) \in Names
<1>1. view = "files" /\ p \in Rendered(context.explorer) /\ context.explorer[p].kind = kind
  BY DEF Explored
<1>2. TreeRenders(context.explorer)
  BY <1>1, Zenon DEF IInv, Draws
<1>3. Tree(context.explorer)
  BY DEF IInv, Sound, Context
<1>4. p \in DOMAIN context.explorer
  BY <1>1 DEF Rendered
<1>5. PathOf(p) \in DOMAIN context.explorer
  BY <1>1, <1>2 DEF TreeRenders, PathOf
<1>6. /\ p \in Places /\ PathOf(p) \in Places
      /\ Ancestors(p) \subseteq DOMAIN context.explorer
  BY <1>3, <1>4, <1>5 DEF Tree
<1>7. "moved" \notin causes => PathOf(p) = p
  BY <1>4 DEF IInv, Sound, Placed, PathOf
<1> QED
  BY <1>1, <1>4, <1>5, <1>6, <1>7, PlaceFacts

(* A folder children are made in is in the tree, or is `explorer' itself.  *)
LEMMA BaseFacts ==
    ASSUME IInv, ~crashed, NEW base \in Bases
    PROVE  IsBase(base) /\ (base = <<>> \/ base \in DOMAIN context.explorer)
<1>1. base = <<>> \/ (base \in Explored("folder") /\ Len(base) = 1)
  BY DEF Bases
<1> QED
  BY <1>1, ExploredFacts DEF IsBase

(* The editor follows the context, and the page the tree.                  *)
LEMMA UpdateKeeps ==
    ASSUME IInv, NEW c, NEW v \in Views, Update(c, v), loaded' = loaded,
           causes \subseteq causes', Sound(c, causes', loaded)
    PROVE  /\ Sound(context', causes', loaded') /\ view' \in Views
           /\ shown' \in Texts /\ crashed' \in BOOLEAN /\ Draws' /\ Shows'
<1>1. context' = c /\ view' = v /\ shown' = Refreshed(c) /\ crashed' = ~Renders(c, v)
  BY DEF Update
<1>2. Sound(context', causes', loaded')
  BY <1>1, Zenon
<1>3. Draws'
  <2>1. SUFFICES ASSUME v = "files" PROVE crashed' = ~TreeRenders(c.explorer)
    BY <1>1, Zenon DEF Draws
  <2>2. v # "compile"
    BY <2>1
  <2>3. Renders(c, v) <=> TreeRenders(c.explorer)
    BY <2>1, <2>2, Zenon DEF Renders
  <2> QED
    BY <1>1, <2>3, Zenon
<1>4. Value(c) \in Texts \cup {NoText}
  BY Zenon DEF Sound, Context, Value, TextOf, Texts
<1>5. shown \in Texts
  BY DEF IInv, Rest
<1>6. shown' = IF loaded /\ Value(c) # Value(context) /\ Value(c) # NoText
               THEN Value(c) ELSE shown
  BY <1>1 DEF Refreshed
<1>7. shown' \in Texts
  BY <1>4, <1>5, <1>6
<1>8. Shows'
  <2>1. Value(context)' = Value(c)
    BY <1>1, Zenon DEF Value, TextOf
  <2>2. SUFFICES ASSUME loaded, Value(c) # NoText, shown' # Value(c)
                 PROVE  "stray" \in causes' /\ Value(c) = Empty
    BY <2>1, Zenon DEF Shows
  <2>3. Value(c) = Value(context) /\ shown' = shown
    BY <1>6, <2>2
  <2>4. "stray" \in causes /\ Value(context) = Empty
    BY <2>2, <2>3, Zenon DEF IInv, Shows
  <2> QED
    BY <2>3, <2>4
<1>9. crashed' \in BOOLEAN
  BY <1>1, Zenon
<1> QED
  BY <1>1, <1>2, <1>3, <1>7, <1>8, <1>9

(* So it does when the user sends an event that keeps the context sound.   *)
LEMMA SendKeeps ==
    ASSUME IInv, NEW c, Send(c), causes \subseteq causes', causes' \subseteq Rare,
           Sound(c, causes', loaded)
    PROVE  IInv'
<1>1. /\ Update(c, view) /\ loaded' = loaded /\ drops' = drops
      /\ compiling' = compiling /\ gestures < MaxGestures /\ gestures' = gestures + 1
  BY DEF Send, Gesture
<1>2. /\ view \in Views /\ loaded \in BOOLEAN /\ compiling \subseteq Places
      /\ gestures \in 0 .. MaxGestures
      /\ \A drop \in drops : IsBase(drop[1]) /\ drop[2] \in Dropped
  BY DEF IInv, Rest
<1>3. /\ Sound(context', causes', loaded') /\ view' \in Views
      /\ shown' \in Texts /\ crashed' \in BOOLEAN /\ Draws' /\ Shows'
  BY <1>1, <1>2, UpdateKeeps
<1>4. gestures' \in 0 .. MaxGestures
  BY <1>1, <1>2, BoundsAssumption
<1>5. loaded' \in BOOLEAN /\ compiling' \subseteq Places /\ causes' \subseteq Rare
        /\ \A drop \in drops' : IsBase(drop[1]) /\ drop[2] \in Dropped
  BY <1>1, <1>2
<1>6. Rest'
  BY <1>3, <1>4, <1>5, Zenon DEF Rest, Rare
<1> QED
  BY <1>3, <1>6, Zenon DEF IInv

(* A gesture after which nothing rare has happened that had not before.    *)
LEMMA PlainSend ==
    ASSUME IInv, NEW c, Send(c), UNCHANGED causes, Sound(c, causes, loaded)
    PROVE  IInv'
<1>1. causes' = causes /\ causes \subseteq causes' /\ causes' \subseteq Rare
  BY DEF IInv, Rest, Rare
<1>2. Sound(c, causes', loaded)
  BY <1>1
<1> QED
  BY <1>1, <1>2, SendKeeps

(* A click on a file, and its trash can.                                   *)
LEMMA ClickFileKeeps ==
    ASSUME IInv, NEW p \in Explored("file"), ClickFile(p)
    PROVE  IInv'
<1>1. /\ Send(SetCurrentPath(context, PathOf(p))) /\ UNCHANGED causes /\ ~crashed
      /\ Sound(context, causes, loaded)
  BY DEF ClickFile, Send, Gesture, IInv
<1>2. PathOf(p) \in Tabs
  BY <1>1, ExploredFacts DEF Tabs
<1>3. ASSUME "moved" \notin causes PROVE PathOf(p) \in DOMAIN context.files
  BY <1>1, <1>3, ExploredFacts DEF Sound, Texted
<1>4. Sound(SetCurrentPath(context, PathOf(p)), causes, TRUE)
  <2>1. causes \cap {"moved", "stale"} = {} => "moved" \notin causes
    OBVIOUS
  <2> QED
    BY <1>1, <1>2, <1>3, <2>1, SetCurrentPathSound
<1>5. Sound(SetCurrentPath(context, PathOf(p)), causes, loaded)
  BY <1>4, Zenon DEF Sound
<1> QED
  BY <1>1, <1>5, PlainSend

(* The file of a component is where the component is, unless moved.        *)
LEMMA TrashFileKeeps ==
    ASSUME IInv, NEW p \in Explored("file"), TrashFile(p)
    PROVE  IInv'
<1>1. /\ Send(DeleteFile(context, PathOf(p), Front(p))) /\ UNCHANGED causes /\ ~crashed
      /\ Sound(context, causes, loaded)
  BY DEF TrashFile, Send, Gesture, IInv
<1>2. /\ p \in Places /\ PathOf(p) \in Places /\ IsBase(Front(p))
      /\ "moved" \notin causes => PathOf(p) = p
  BY <1>1, ExploredFacts
<1>3. Child(Front(p), Last(PathOf(p))) \in Places
  BY <1>2, PlaceFacts, ChildFacts
<1>4. "moved" \notin causes => Child(Front(p), Last(PathOf(p))) = PathOf(p)
  BY <1>2, PlaceFacts
<1>5. Sound(DeleteFile(context, PathOf(p), Front(p)), causes, loaded)
  BY <1>1, <1>2, <1>3, <1>4, DeleteFileSound
<1> QED
  BY <1>1, <1>5, PlainSend

(* Its new name is given to a copy, with its text.                         *)
LEMMA ConfirmFileKeeps ==
    ASSUME IInv, NEW p \in Explored("file"), NEW n \in NewNames \cup {Last(p)},
           ConfirmFile(p, n)
    PROVE  IInv'
<1>1. /\ Send(RenameFile(context, PathOf(p), Front(p), n)) /\ UNCHANGED causes /\ ~crashed
      /\ Sound(context, causes, loaded)
  BY DEF ConfirmFile, Send, Gesture, IInv
<1>2. /\ p \in Places /\ PathOf(p) \in Places /\ IsBase(Front(p))
      /\ "moved" \notin causes => PathOf(p) = p
      /\ p \in DOMAIN context.explorer /\ context.explorer[p].kind = "file"
      /\ Front(p) = <<>> \/ Front(p) \in DOMAIN context.explorer
  BY <1>1, ExploredFacts
<1>3. n \in Names
  BY <1>2, PlaceFacts DEF Names
<1>4. "moved" \notin causes => Child(Front(p), Last(PathOf(p))) = PathOf(p)
  BY <1>2, PlaceFacts
<1>5. "moved" \notin causes => PathOf(p) \in DOMAIN context.files
  BY <1>1, <1>2 DEF Sound, Texted
<1>6. Sound(RenameFile(context, PathOf(p), Front(p), n), causes, loaded)
  BY <1>1, <1>2, <1>3, <1>4, <1>5, RenameFileSound
<1> QED
  BY <1>1, <1>6, PlainSend

(* The trash can of a folder.                                              *)
LEMMA TrashFolderKeeps ==
    ASSUME IInv, NEW p \in Explored("folder"), TrashFolder(p)
    PROVE  IInv'
<1>1. /\ Send(DeleteFolder(context, PathOf(p))) /\ UNCHANGED causes /\ ~crashed
      /\ Sound(context, causes, loaded)
  BY DEF TrashFolder, Send, Gesture, IInv
<1>2. PathOf(p) \in Places
  BY <1>1, ExploredFacts
<1>3. Sound(DeleteFolder(context, PathOf(p)), causes, loaded)
  BY <1>1, <1>2, DeleteFolderSound
<1> QED
  BY <1>1, <1>3, PlainSend

(* A click on a folder.                                                    *)
LEMMA ToggleKeeps ==
    ASSUME IInv, NEW p \in Explored("folder"), Toggle(p)
    PROVE  IInv'
<1>1. /\ Send(ToggleFolder(context, PathOf(p))) /\ UNCHANGED causes /\ ~crashed
      /\ Sound(context, causes, loaded)
  BY DEF Toggle, Send, Gesture, IInv
<1>2. PathOf(p) \in DOMAIN context.explorer
  BY <1>1, ExploredFacts
<1>3. Sound(ToggleFolder(context, PathOf(p)), causes, loaded)
  BY <1>1, <1>2, ToggleFolderSound
<1> QED
  BY <1>1, <1>3, PlainSend

(* Nodes move with a folder that is given another name.                    *)
LEMMA ConfirmFolderKeeps ==
    ASSUME IInv, NEW p \in Explored("folder"), NEW n \in NewNames \cup {Last(p)},
           ConfirmFolder(p, n)
    PROVE  IInv'
<1> DEFINE moves == \E q \in DOMAIN context.explorer :
                        q # p /\ Under(p, q) /\ n # Last(p)
<1>1. /\ Send(RenameFolder(context, PathOf(p), Front(p), n)) /\ ~crashed
      /\ causes' = IF moves THEN causes \cup {"moved"} ELSE causes
      /\ Sound(context, causes, loaded) /\ causes \subseteq Rare
  BY Zenon DEF ConfirmFolder, Send, Gesture, IInv, Rest, Rare
<1>2. /\ p \in Places /\ p \in DOMAIN context.explorer
      /\ PathOf(p) \in DOMAIN context.explorer
      /\ PathOf(p) = context.explorer[p].path
  BY <1>1, ExploredFacts DEF PathOf
<1>3. n \in Names
  BY <1>2, PlaceFacts DEF Names
<1>4. /\ causes \subseteq causes' /\ causes' \subseteq Rare
      /\ "moved" \notin causes' => ~moves
  <2> HIDE DEF moves
  <2> QED
    BY <1>1 DEF Rare
<1>5. Sound(context, causes', loaded)
  BY <1>1, <1>4, SoundMore
<1>6. Sound(RenameFolder(context, PathOf(p), Front(p), n), causes', loaded)
  BY <1>2, <1>3, <1>4, <1>5, RenameFolderSound
<1> QED
  BY <1>1, <1>4, <1>6, SendKeeps

(* A file or a folder is made in a folder of the screen.                   *)
LEMMA NewFileKeeps ==
    ASSUME IInv, NEW base \in Bases, NewFile(base)
    PROVE  IInv'
<1>1. /\ Send(AddFile(context, base, Unnamed, Empty)) /\ UNCHANGED causes /\ ~crashed
      /\ Sound(context, causes, loaded)
  BY DEF NewFile, Send, Gesture, IInv
<1>2. IsBase(base) /\ (base = <<>> \/ base \in DOMAIN context.explorer)
  BY <1>1, BaseFacts
<1>3. Unnamed \in Names /\ Empty \in Texts \cup {NoText} /\ Empty # NoText
  BY NoTextAssumption DEF Names, NewNames, Texts
<1>4. Sound(AddFile(context, base, Unnamed, Empty), causes, TRUE)
  BY <1>1, <1>2, <1>3, AddFileSound
<1>5. Sound(AddFile(context, base, Unnamed, Empty), causes, loaded)
  BY <1>4, Zenon DEF Sound
<1> QED
  BY <1>1, <1>5, PlainSend

(* The folder has no name yet.                                             *)
LEMMA NewFolderKeeps ==
    ASSUME IInv, NEW base \in Bases, NewFolder(base)
    PROVE  IInv'
<1>1. /\ Send(AddFolder(context, base, Unnamed)) /\ UNCHANGED causes /\ ~crashed
      /\ Sound(context, causes, loaded)
  BY DEF NewFolder, Send, Gesture, IInv
<1>2. IsBase(base) /\ (base = <<>> \/ base \in DOMAIN context.explorer)
  BY <1>1, BaseFacts
<1>3. Unnamed \in Names
  BY DEF Names, NewNames
<1>4. Sound(AddFolder(context, base, Unnamed), causes, loaded)
  BY <1>1, <1>2, <1>3, AddFolderSound
<1> QED
  BY <1>1, <1>4, PlainSend

(* What a tab opens has a text, or is home.                                *)
LEMMA ClickTabKeeps ==
    ASSUME IInv, NEW tab, ClickTab(tab)
    PROVE  IInv'
<1>1. /\ Send(SetCurrentPath(context, tab)) /\ UNCHANGED causes
      /\ Sound(context, causes, loaded) /\ Contains(context.tabs, tab)
  BY DEF ClickTab, IInv
<1>2. tab \in Tabs
  <2>1. context.tabs \in Seq(Tabs)
    BY <1>1 DEF Sound, Context, Tabs
  <2> QED
    BY <1>1, <2>1, ElementOfSeq DEF Contains
<1>3. causes \cap {"moved", "stale"} = {} /\ tab \in Places => tab \in DOMAIN context.files
  BY <1>1 DEF Sound, Opened, Opens
<1>4. Sound(SetCurrentPath(context, tab), causes, TRUE)
  BY <1>1, <1>2, <1>3, SetCurrentPathSound
<1>5. Sound(SetCurrentPath(context, tab), causes, loaded)
  BY <1>4, Zenon DEF Sound
<1> QED
  BY <1>1, <1>5, PlainSend

(* The cross of a tab.                                                     *)
LEMMA CloseTabKeeps ==
    ASSUME IInv, NEW tab, CloseTab(tab)
    PROVE  IInv'
<1>1. /\ Send(RemoveTab(context, tab)) /\ UNCHANGED causes
      /\ Sound(context, causes, loaded) /\ Contains(context.tabs, tab)
  BY DEF CloseTab, IInv
<1>2. tab \in Tabs
  <2>1. context.tabs \in Seq(Tabs)
    BY <1>1 DEF Sound, Context, Tabs
  <2> QED
    BY <1>1, <2>1, ElementOfSeq DEF Contains
<1>3. Sound(RemoveTab(context, tab), causes, loaded)
  BY <1>1, <1>2, RemoveTabSound
<1> QED
  BY <1>1, <1>3, PlainSend

(* What the list of compiled files opens has a text.                       *)
LEMMA SelectKeeps ==
    ASSUME IInv, NEW p, Select(p)
    PROVE  IInv'
<1>1. /\ Send(SetCurrentPath(context, p)) /\ UNCHANGED causes
      /\ Sound(context, causes, loaded) /\ p \in context.compiled
  BY DEF Select, IInv
<1>2. p \in Tabs
  BY <1>1 DEF Sound, Context, Tabs
<1>3. causes \cap {"moved", "stale"} = {} /\ p \in Places => p \in DOMAIN context.files
  BY <1>1 DEF Sound, Opened, Opens
<1>4. Sound(SetCurrentPath(context, p), causes, TRUE)
  BY <1>1, <1>2, <1>3, SetCurrentPathSound
<1>5. Sound(SetCurrentPath(context, p), causes, loaded)
  BY <1>4, Zenon DEF Sound
<1> QED
  BY <1>1, <1>5, PlainSend

(* Another view shows the same context.                                    *)
LEMMA ShowViewKeeps ==
    ASSUME IInv, NEW v \in Views, ShowView(v)
    PROVE  IInv'
<1>1. /\ Update(context, v) /\ loaded' = loaded /\ causes' = causes /\ drops' = drops
      /\ compiling' = compiling /\ gestures' = gestures
      /\ Sound(context, causes, loaded) /\ causes \subseteq causes'
  BY DEF ShowView, IInv
<1>2. Sound(context, causes', loaded)
  BY <1>1
<1>3. /\ Sound(context', causes', loaded') /\ view' \in Views
      /\ shown' \in Texts /\ crashed' \in BOOLEAN /\ Draws' /\ Shows'
  BY <1>1, <1>2, UpdateKeeps
<1>4. Rest'
  BY <1>1, <1>3, Zenon DEF IInv, Rest
<1> QED
  BY <1>3, <1>4, Zenon DEF IInv

(* What is typed is in the editor and in the file that is open; if none    *)
(* is, it is nowhere else.                                                 *)
LEMMA TypeKeeps ==
    ASSUME IInv, NEW text \in Texts, Type(text)
    PROVE  IInv'
<1> DEFINE d == ChangeContent(context, text)
<1>1. /\ context' = d /\ shown' = text /\ loaded' = loaded /\ view' = view
      /\ drops' = drops /\ compiling' = compiling /\ crashed' = crashed
      /\ gestures < MaxGestures /\ gestures' = gestures + 1
      /\ context.currentFile # Home
      /\ causes' = IF context.currentFile = None THEN causes \cup {"stray"} ELSE causes
      /\ Sound(context, causes, loaded) /\ causes \subseteq Rare
      /\ gestures \in 0 .. MaxGestures
  BY Zenon DEF Type, Gesture, IInv, Rest, Rare
<1>2. causes \subseteq causes' /\ causes' \subseteq Rare
  BY <1>1 DEF Rare
<1>3. Sound(context, causes', loaded)
  BY <1>1, <1>2, SoundMore
<1>4. /\ Sound(d, causes', loaded)
      /\ d.explorer = context.explorer /\ d.currentFile = context.currentFile
      /\ context.currentFile # None =>
            context.currentFile \in DOMAIN d.files /\ d.files[context.currentFile] = text
  BY <1>1, <1>3, ChangeContentSound
<1> HIDE DEF d
<1>5. Value(d) = IF d.currentFile = None THEN Empty ELSE text
  BY <1>4 DEF Value, TextOf
<1>6. Value(context)' = Value(d)
  BY <1>1, Zenon DEF Value, TextOf
<1>7. Shows'
  <2>1. CASE d.currentFile = None
    <3>1. "stray" \in causes' /\ Value(d) = Empty
      BY <1>1, <1>4, <1>5, <2>1
    <3> QED
      BY <1>6, <3>1, Zenon DEF Shows
  <2>2. CASE d.currentFile # None
    <3>1. Value(d) = text
      BY <1>5, <2>2
    <3> QED
      BY <1>1, <1>6, <3>1, Zenon DEF Shows
  <2> QED
    BY <2>1, <2>2
<1>8. Draws'
  <2>1. context'.explorer = context.explorer /\ view' = view /\ crashed' = crashed
    BY <1>1, <1>4
  <2>2. Draws
    BY DEF IInv
  <2> QED
    BY <2>1, <2>2, Zenon DEF Draws
<1>9. gestures' \in 0 .. MaxGestures
  BY <1>1, BoundsAssumption
<1>10. Rest'
  BY <1>1, <1>2, <1>9, Zenon DEF IInv, Rest, Rare
<1>11. Sound(context', causes', loaded')
  BY <1>1, <1>4, Zenon
<1> QED
  BY <1>7, <1>8, <1>10, <1>11, Zenon DEF IInv

(* The initial state is sent to whatever the context is by then.           *)
LEMMA MonacoLoadsKeeps ==
    ASSUME IInv, MonacoLoads
    PROVE  IInv'
<1> DEFINE main == AddFile(context, <<Src>>, Main, Code)
           file == SetCurrentPath(main, <<Src, Main>>)
           home == SetCurrentPath(file, Home)
<1>1. /\ context' = home /\ crashed' = ~Renders(home, view) /\ loaded' = TRUE
      /\ shown' = IF Value(context) = NoText THEN Empty ELSE Value(context)
      /\ causes' = IF <<Src>> \in DOMAIN context.explorer THEN causes
                   ELSE causes \cup {"late"}
      /\ view' = view /\ drops' = drops /\ compiling' = compiling /\ gestures' = gestures
  BY DEF MonacoLoads
<1>2. Sound(context, causes, loaded) /\ causes \subseteq Rare
  BY DEF IInv, Rest, Rare
<1>3. causes \subseteq causes' /\ causes' \subseteq Rare
  BY <1>1, <1>2 DEF Rare
<1>4. Sound(context, causes', loaded)
  BY <1>2, <1>3, SoundMore
<1>5. Src \in Names /\ Main \in Names /\ Code \in Texts \cup {NoText} /\ Code # NoText
  BY NoTextAssumption DEF Names, Texts
<1>6. IsBase(<<Src>>)
  BY <1>5, PlaceOf DEF IsBase
<1>7. "late" \notin causes' => <<Src>> \in DOMAIN context.explorer
  BY <1>1
<1>8. Child(<<Src>>, Main) = <<Src, Main>>
  BY <1>5, TwoNames DEF Child
<1>9. Sound(main, causes', TRUE) /\ <<Src, Main>> \in DOMAIN main.files
  <2>1. PICK base : base = <<Src>>
    BY Zenon
  <2>2. main = AddFile(context, base, Main, Code) /\ Child(base, Main) = <<Src, Main>>
    BY <1>8, <2>1
  <2>3. IsBase(base) /\ ("late" \notin causes' => base \in DOMAIN context.explorer)
    BY <1>6, <1>7, <2>1
  <2> HIDE DEF main
  <2>4. Sound(main, causes', TRUE) /\ Child(base, Main) \in DOMAIN main.files
    BY <1>4, <1>5, <2>2, <2>3, AddFileSound
  <2> QED
    BY <2>2, <2>4
<1> HIDE DEF main
<1>10. Sound(file, causes', TRUE)
  <2>1. <<Src, Main>> \in Tabs
    BY <1>5, PlaceOf DEF Tabs
  <2> QED
    BY <1>9, <2>1, SetCurrentPathSound
<1> HIDE DEF file
<1>11. Sound(home, causes', TRUE) /\ home.currentFile = Home
  <2>1. Home \in Tabs /\ Home \notin Places
    BY NoPlaceAssumption DEF Tabs
  <2>2. causes' \cap {"moved", "stale"} = {} /\ Home \in Places => Home \in DOMAIN file.files
    BY <2>1
  <2>3. Sound(home, causes', TRUE)
    BY <1>10, <2>1, <2>2, SetCurrentPathSound
  <2>4. DOMAIN file = Fields
    BY <1>10 DEF Sound, Context, Fields
  <2> QED
    BY <2>3, <2>4, OpensPath
<1> HIDE DEF home
<1>12. Sound(context', causes', loaded')
  BY <1>1, <1>11, Zenon
<1>13. Value(home) = NoText
  <2>1. DOMAIN home.files \subseteq Places
    BY <1>11 DEF Sound, Context
  <2> QED
    BY <1>11, <2>1, NoPlaceAssumption DEF Value, TextOf
<1>14. Value(context)' = Value(home)
  BY <1>1, Zenon DEF Value, TextOf
<1>15. Shows'
  BY <1>13, <1>14, Zenon DEF Shows
<1>16. Draws'
  <2>1. SUFFICES ASSUME view = "files" PROVE crashed' = ~TreeRenders(home.explorer)
    BY <1>1, Zenon DEF Draws
  <2>2. view # "compile"
    BY <2>1
  <2>3. Renders(home, view) <=> TreeRenders(home.explorer)
    BY <2>1, <2>2, Zenon DEF Renders
  <2> QED
    BY <1>1, <2>3, Zenon
<1>17. shown' \in Texts
  <2>1. Value(context) \in Texts \cup {NoText}
    BY <1>2, Zenon DEF Sound, Context, Value, TextOf, Texts
  <2>2. Empty \in Texts
    BY DEF Texts
  <2> QED
    BY <1>1, <2>1, <2>2
<1>18. crashed' \in BOOLEAN /\ loaded' \in BOOLEAN
  BY <1>1, Zenon
<1>19. Rest'
  BY <1>1, <1>3, <1>17, <1>18, Zenon DEF IInv, Rest, Rare
<1> QED
  BY <1>12, <1>15, <1>16, <1>19, Zenon DEF IInv

(* Files are dropped on a folder of the screen.                            *)
LEMMA DropKeeps ==
    ASSUME IInv, NEW base \in Bases, NEW files \in Dropped, Drop(base, files)
    PROVE  IInv'
<1>1. /\ ~crashed /\ gestures < MaxGestures /\ gestures' = gestures + 1
      /\ drops' = {<<base, files>>} /\ gestures \in 0 .. MaxGestures
      /\ UNCHANGED <<context, view, loaded, shown, compiling, crashed, causes>>
  BY DEF Drop, Gesture, IInv, Rest
<1>2. IsBase(base)
  BY <1>1, BaseFacts
<1>3. \A drop \in drops' : IsBase(drop[1]) /\ drop[2] \in Dropped
  BY <1>1, <1>2
<1>4. gestures' \in 0 .. MaxGestures
  BY <1>1, BoundsAssumption
<1>5. Rest'
  BY <1>1, <1>3, <1>4 DEF IInv, Rest
<1>6. Sound(context', causes', loaded') /\ Draws' /\ Shows'
  BY <1>1, Zenon DEF IInv, Draws, Shows, Value, TextOf
<1> QED
  BY <1>5, <1>6, Zenon DEF IInv

(* The files that were dropped have been read.                             *)
LEMMA DropReadKeeps ==
    ASSUME IInv, NEW drop \in drops, DropRead(drop)
    PROVE  IInv'
<1> DEFINE d == AddFiles(context, drop[1], drop[2])
<1>1. /\ drops' = drops \ {drop}
      /\ Update(d, view) \/ Update(context, view)
      /\ causes' = IF drop[1] \in {<<>>} \cup DOMAIN context.explorer THEN causes
                   ELSE causes \cup {"late"}
      /\ loaded' = loaded /\ compiling' = compiling /\ gestures' = gestures
  BY DEF DropRead
<1>2. /\ Sound(context, causes, loaded) /\ causes \subseteq Rare /\ view \in Views
      /\ IsBase(drop[1]) /\ drop[2] \in Dropped
  BY DEF IInv, Rest, Rare
<1>3. causes \subseteq causes' /\ causes' \subseteq Rare
  BY <1>1, <1>2 DEF Rare
<1>4. Sound(context, causes', loaded)
  BY <1>2, <1>3, SoundMore
<1>5. "late" \notin causes' => drop[1] = <<>> \/ drop[1] \in DOMAIN context.explorer
  BY <1>1
<1>6. Sound(d, causes', loaded)
  <2>1. Sound(d, causes', TRUE)
    BY <1>2, <1>4, <1>5, AddFilesSound
  <2> QED
    BY <2>1, Zenon DEF Sound
<1> HIDE DEF d
<1>7. /\ Sound(context', causes', loaded') /\ view' \in Views
      /\ shown' \in Texts /\ crashed' \in BOOLEAN /\ Draws' /\ Shows'
  <2>1. CASE Update(d, view)
    BY <1>1, <1>2, <1>3, <1>6, <2>1, UpdateKeeps
  <2>2. CASE Update(context, view)
    BY <1>1, <1>2, <1>3, <1>4, <2>2, UpdateKeeps
  <2> QED
    BY <1>1, <2>1, <2>2
<1>8. \A other \in drops' : IsBase(other[1]) /\ other[2] \in Dropped
  BY <1>1 DEF IInv, Rest
<1>9. Rest'
  BY <1>1, <1>3, <1>7, <1>8, Zenon DEF IInv, Rest, Rare
<1> QED
  BY <1>7, <1>9, Zenon DEF IInv

(* The file that is open is compiled.                                      *)
LEMMA CompileKeeps ==
    ASSUME IInv, Compile
    PROVE  IInv'
<1>1. /\ gestures < MaxGestures /\ gestures' = gestures + 1
      /\ gestures \in 0 .. MaxGestures /\ context.currentFile \in Places
      /\ compiling' = compiling \cup {context.currentFile} /\ compiling \subseteq Places
      /\ UNCHANGED <<context, view, loaded, shown, drops, crashed, causes>>
  BY DEF Compile, Gesture, IInv, Rest
<1>2. compiling' \subseteq Places /\ gestures' \in 0 .. MaxGestures
  BY <1>1, BoundsAssumption
<1>3. Rest'
  BY <1>1, <1>2 DEF IInv, Rest
<1>4. Sound(context', causes', loaded') /\ Draws' /\ Shows'
  BY <1>1, Zenon DEF IInv, Draws, Shows, Value, TextOf
<1> QED
  BY <1>3, <1>4, Zenon DEF IInv

(* A compilation returns and its file is listed.                           *)
LEMMA CompileReturnsKeeps ==
    ASSUME IInv, NEW p \in compiling, CompileReturns(p)
    PROVE  IInv'
<1>1. /\ compiling' = compiling \ {p} /\ Update(AddCompiled(context, p), view)
      /\ causes' = IF p \in DOMAIN context.files THEN causes ELSE causes \cup {"stale"}
      /\ loaded' = loaded /\ drops' = drops /\ gestures' = gestures
  BY DEF CompileReturns
<1>2. /\ Sound(context, causes, loaded) /\ causes \subseteq Rare /\ view \in Views
      /\ p \in Places /\ compiling \subseteq Places
  BY DEF IInv, Rest, Rare
<1>3. causes \subseteq causes' /\ causes' \subseteq Rare
  BY <1>1, <1>2 DEF Rare
<1>4. Sound(context, causes', loaded)
  BY <1>2, <1>3, SoundMore
<1>5. "stale" \notin causes' => p \in DOMAIN context.files
  BY <1>1
<1>6. Sound(AddCompiled(context, p), causes', loaded)
  BY <1>2, <1>4, <1>5, AddCompiledSound
<1>7. /\ Sound(context', causes', loaded') /\ view' \in Views
      /\ shown' \in Texts /\ crashed' \in BOOLEAN /\ Draws' /\ Shows'
  BY <1>1, <1>2, <1>3, <1>6, UpdateKeeps
<1>8. compiling' \subseteq Places
  BY <1>1, <1>2
<1>9. Rest'
  BY <1>1, <1>3, <1>7, <1>8, Zenon DEF IInv, Rest, Rare
<1> QED
  BY <1>7, <1>9, Zenon DEF IInv

(* Nothing changes.                                                        *)
LEMMA StutterKeeps ==
    ASSUME IInv, UNCHANGED vars
    PROVE  IInv'
<1>1. UNCHANGED <<context, view, loaded, shown, drops, compiling, crashed, gestures, causes>>
  BY DEF vars
<1>2. Sound(context', causes', loaded') /\ Draws' /\ Shows'
  BY <1>1, Zenon DEF IInv, Draws, Shows, Value, TextOf
<1>3. Rest'
  BY <1>1 DEF IInv, Rest
<1> QED
  BY <1>2, <1>3, Zenon DEF IInv

-----------------------------------------------------------------------------
(* Before the first gesture there is one folder, open and with nothing in  *)
(* it.                                                                     *)
LEMMA InitInv == Init => IInv
<1> SUFFICES ASSUME Init PROVE IInv
  OBVIOUS
<1> DEFINE t == [p \in {<<Src>>} |-> Folder(p, TRUE)]
<1>1. /\ DOMAIN context = Fields /\ context.explorer = t /\ context.files = <<>>
      /\ context.tabs = <<>> /\ context.currentFile = Home /\ context.compiled = {}
  BY DEF Init, Fields
<1>2. /\ view = "files" /\ loaded = FALSE /\ shown = Empty /\ drops = {}
      /\ compiling = {} /\ crashed = FALSE /\ gestures = 0 /\ causes = {}
  BY DEF Init
<1>3. <<Src>> \in Places /\ Ancestors(<<Src>>) = {}
  <2>1. Src \in Names
    BY DEF Names
  <2>2. <<Src>> \in Places /\ Len(<<Src>>) = 1
    BY <2>1, PlaceOf
  <2> QED
    BY <2>2, PlaceFacts
<1>4. DOMAIN t = {<<Src>>} /\ t[<<Src>>] = Folder(<<Src>>, TRUE)
  OBVIOUS
<1>5. Folder(<<Src>>, TRUE) \in Node
  BY <1>3 DEF Folder, Node
<1>6. Tree(t)
  BY <1>3, <1>4, <1>5 DEF Tree, Folder
<1>7. Whole(t) /\ Placed(t) /\ \A p \in DOMAIN t : t[p].kind # "file"
  BY <1>4 DEF Whole, Placed, Folder
<1> HIDE DEF t
<1>8. DOMAIN <<>> = {} /\ (\A x : ~Contains(<<>>, x)) /\ IsInjective(<<>>)
  BY DEF Contains, IsInjective
<1>9. Context(context)
  BY <1>1, <1>6, <1>8, EmptySeq DEF Context, Fields
<1>10. Texted(context) /\ Tabbed(context)
  BY <1>1, <1>7, <1>8 DEF Texted, Tabbed
<1>11. Opened(context)
  BY <1>1, <1>8, NoPlaceAssumption DEF Opened, Opens
<1>12. Sound(context, causes, loaded)
  <2>1. Whole(context.explorer) /\ Placed(context.explorer)
    BY <1>1, <1>7
  <2>2. context.currentFile # None /\ ~loaded
    BY <1>1, <1>2, NoPlaceAssumption
  <2> QED
    BY <1>9, <1>10, <1>11, <2>1, <2>2 DEF Sound
<1>13. Rest
  <2>1. gestures \in 0 .. MaxGestures /\ shown \in Texts /\ view \in Views
    BY <1>2, BoundsAssumption DEF Views, Texts
  <2> QED
    BY <1>2, <2>1, Zenon DEF Rest
<1>14. Draws
  BY <1>1, <1>2, <1>7, WholeRenders, Zenon DEF Draws
<1>15. Shows
  BY <1>2 DEF Shows
<1> QED
  BY <1>12, <1>13, <1>14, <1>15 DEF IInv

(* Every step keeps it.                                                    *)
LEMMA NextInv == IInv /\ [Next]_vars => IInv'
<1> SUFFICES ASSUME IInv, [Next]_vars PROVE IInv'
  OBVIOUS
<1>1. ASSUME NEW p \in Explored("file"),
             \/ ClickFile(p) \/ TrashFile(p)
             \/ \E n \in NewNames \cup {Last(p)} : ConfirmFile(p, n)
      PROVE  IInv'
  BY <1>1, ClickFileKeeps, TrashFileKeeps, ConfirmFileKeeps
<1>2. ASSUME NEW p \in Explored("folder"),
             \/ TrashFolder(p) \/ Toggle(p)
             \/ \E n \in NewNames \cup {Last(p)} : ConfirmFolder(p, n)
      PROVE  IInv'
  BY <1>2, TrashFolderKeeps, ToggleKeeps, ConfirmFolderKeeps
<1>3. ASSUME NEW base \in Bases,
             \/ NewFile(base) \/ NewFolder(base)
             \/ \E files \in Dropped : Drop(base, files)
      PROVE  IInv'
  BY <1>3, NewFileKeeps, NewFolderKeeps, DropKeeps
<1>4. ASSUME NEW tab, ClickTab(tab) \/ CloseTab(tab) PROVE IInv'
  BY <1>4, ClickTabKeeps, CloseTabKeeps
<1>5. ASSUME NEW v \in Views, ShowView(v) PROVE IInv'
  BY <1>5, ShowViewKeeps
<1>6. ASSUME NEW text \in Texts, Type(text) PROVE IInv'
  BY <1>6, TypeKeeps
<1>7. ASSUME NEW p, Select(p) PROVE IInv'
  BY <1>7, SelectKeeps
<1>8. CASE MonacoLoads
  BY <1>8, MonacoLoadsKeeps
<1>9. ASSUME NEW drop \in drops, DropRead(drop) PROVE IInv'
  BY <1>9, DropReadKeeps
<1>10. CASE Compile
  BY <1>10, CompileKeeps
<1>11. ASSUME NEW p \in compiling, CompileReturns(p) PROVE IInv'
  BY <1>11, CompileReturnsKeeps
<1>12. CASE UNCHANGED vars
  BY <1>12, StutterKeeps
<1> QED
  BY <1>1, <1>2, <1>3, <1>4, <1>5, <1>6, <1>7, <1>8, <1>9, <1>10, <1>11, <1>12,
     Zenon DEF Next

(* The invariant holds in every state.                                     *)
LEMMA SpecInv == Spec => []IInv
BY InitInv, NextInv, PTL DEF Spec

-----------------------------------------------------------------------------
(* What the store, the tree and the tabs hold is of its type: a path in a  *)
(* node is a place, a list of tabs names no tab twice.                     *)
THEOREM TypeInvariant == Spec => []TypeOK
<1>1. IInv => TypeOK
  <2> SUFFICES ASSUME IInv PROVE TypeOK
    OBVIOUS
  <2>1. Context(context) /\ Rest
    BY DEF IInv, Sound
  <2>2. /\ DOMAIN context.explorer \subseteq Places
        /\ \A p \in DOMAIN context.explorer : context.explorer[p] \in Node
    BY <2>1 DEF Context, Tree
  <2> QED
    BY <2>1, <2>2, Zenon DEF TypeOK, Context, Rest
<1> QED
  BY <1>1, SpecInv, PTL

(* Every file of the tree has a text, until a folder is renamed with nodes *)
(* in it: renameFile copies the text before it deletes it.                 *)
THEOREM TextsFollowFiles == Spec => []FilesHaveTexts
<1>1. IInv => FilesHaveTexts
  <2> SUFFICES ASSUME IInv, "moved" \notin causes,
                      NEW p \in DOMAIN context.explorer,
                      context.explorer[p].kind = "file"
               PROVE  TextOf(context, p) # NoText
    BY DEF FilesHaveTexts
  <2>1. Texted(context)
    BY DEF IInv, Sound
  <2> QED
    BY <2>1 DEF Texted, TextOf
<1> QED
  BY <1>1, SpecInv, PTL

(* Whatever a tab, the editor or the list of compiled files can open has a *)
(* text, unless a folder was moved or a file went while it was compiled.   *)
THEOREM NothingOpensBlank == Spec => []OpenHasText
<1>1. IInv => OpenHasText
  <2> SUFFICES ASSUME IInv, causes \cap {"moved", "stale"} = {},
                      NEW p \in ToSet(context.tabs) \cup {context.currentFile}
                                    \cup context.compiled,
                      p \in Places
               PROVE  TextOf(context, p) # NoText
    BY DEF OpenHasText
  <2>1. Opened(context) /\ Texted(context) /\ Context(context)
    BY DEF IInv, Sound
  <2>2. Opens(context, p)
    <3>1. context.tabs \in Seq(Places \cup {Home})
      BY <2>1 DEF Context
    <3>2. p \in ToSet(context.tabs) => Contains(context.tabs, p)
      BY <3>1, LenProperties DEF ToSet, Contains
    <3> QED
      BY <3>2 DEF Opens
  <2> QED
    BY <2>1, <2>2 DEF Opened, Texted, TextOf
<1> QED
  BY <1>1, SpecInv, PTL

(* The file the editor has open has a tab as long as it is in the tree.    *)
THEOREM OpenIsTabbed == Spec => []OpenFileHasTab
<1>1. IInv => OpenFileHasTab
  BY DEF IInv, Sound, Tabbed, OpenFileHasTab
<1> QED
  BY <1>1, SpecInv, PTL

(* The editor shows the text of the file that is open, unless text was     *)
(* typed while none was: an empty file opened next does not replace it.    *)
THEOREM EditorFollows == Spec => []EditorShowsCurrent
<1>1. IInv => EditorShowsCurrent
  <2> SUFFICES ASSUME IInv, loaded, context.currentFile \in DOMAIN context.files
               PROVE  \/ shown = TextOf(context, context.currentFile)
                      \/ TextOf(context, context.currentFile) = NoText
                      \/ /\ "stray" \in causes
                         /\ TextOf(context, context.currentFile) = Empty
    BY Zenon DEF EditorShowsCurrent
  <2>1. context.currentFile # None
    BY NoPlaceAssumption DEF IInv, Sound, Context
  <2>2. Value(context) = TextOf(context, context.currentFile)
    BY <2>1 DEF Value
  <2> QED
    BY <2>2, Zenon DEF IInv, Shows
<1> QED
  BY <1>1, SpecInv, PTL

(* The file explorer renders, unless a folder was moved or files came for  *)
(* a folder that is gone.                                                  *)
THEOREM TreeNeverThrows == Spec => []ExplorerRenders
<1>1. IInv => ExplorerRenders
  <2> SUFFICES ASSUME IInv, crashed, view = "files", causes \cap {"moved", "late"} = {}
               PROVE  FALSE
    BY DEF ExplorerRenders
  <2>1. Whole(context.explorer) /\ Placed(context.explorer)
    BY DEF IInv, Sound
  <2>2. TreeRenders(context.explorer)
    BY <2>1, WholeRenders
  <2> QED
    BY <2>2, Zenon DEF IInv, Draws
<1> QED
  BY <1>1, SpecInv, PTL
=============================================================================
