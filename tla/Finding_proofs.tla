--------------------------- MODULE Finding_proofs ---------------------------
(***************************************************************************)
(* The definitions that find() comes to are those that executions of the   *)
(* graph bring, for any graph, any order of the worklist and executions of *)
(* any length.                                                             *)
(***************************************************************************)
EXTENDS Finding, WellFoundedInduction, TLAPS

-----------------------------------------------------------------------------
(* Induction, from the least number that would contradict it.              *)
LessThan == {p \in Nat \X Nat : p[1] < p[2]}

(* A set of numbers has a least one.                                       *)
LEMMA Least ==
    ASSUME NEW S \in SUBSET Nat, S # {}
    PROVE  \E n \in S : \A m \in S : n <= m
<1>1. IsWellFoundedOn(LessThan, Nat)
  BY NatLessThanWellFounded DEF OpToRel, LessThan
<1>2. PICK n \in S : \A m \in S : ~(<<m, n>> \in LessThan)
  BY <1>1, WFMin, Zenon
<1>3. \A m \in S : m \in Nat /\ n \in Nat /\ ~(m < n)
  BY <1>2, Zenon DEF LessThan
<1> QED
  BY <1>3

(* What holds of a, and of i + 1 if it does of i, holds from a to b.       *)
LEMMA Induction ==
    ASSUME NEW a \in Nat, NEW b \in Nat, NEW S,
           a <= b => a \in S, \A i \in a .. b - 1 : i \in S => i + 1 \in S
    PROVE  a .. b \subseteq S
<1> SUFFICES ASSUME NEW x \in a .. b, x \notin S PROVE FALSE
  OBVIOUS
<1>0. PICK W : W = {i \in a .. b : i \notin S}
  BY Zenon
<1>1. PICK n \in W : \A m \in W : n <= m
  <2>1. W \in SUBSET Nat /\ x \in W
    BY <1>0
  <2> QED
    BY <2>1, Least
<1>2. n # a /\ n \in a .. b /\ n \notin S
  BY <1>0
<1>3. n - 1 \in a .. b - 1 /\ n - 1 \notin W
  BY <1>1, <1>2
<1>4. n - 1 \in S /\ (n - 1) + 1 = n
  BY <1>0, <1>2, <1>3
<1> QED
  BY <1>2, <1>3, <1>4

-----------------------------------------------------------------------------
(* The definitions before the instructions of a block, one after another.  *)
LEMMA ThroughFacts ==
    ASSUME NEW block, Len(block.ins) \in Nat, NEW b, NEW ds
    PROVE  /\ DOMAIN Through(block, b, ds) = 1 .. Len(block.ins) + 1
           /\ Through(block, b, ds)[1] = ds
           /\ \A n \in 1 .. Len(block.ins) :
                Through(block, b, ds)[n + 1] =
                    Transfer(block.ins[n], b, n, Through(block, b, ds)[n])
<1> DEFINE L == Len(block.ins)
           Step(g) == [n \in 1 .. L + 1 |->
                        IF n = 1 THEN ds
                        ELSE Transfer(block.ins[n - 1], b, n - 1, g[n - 1])]
           Good(f, k) == /\ f = [n \in 1 .. k + 1 |-> f[n]] /\ f[1] = ds
                         /\ \A n \in 1 .. k :
                               f[n + 1] = Transfer(block.ins[n], b, n, f[n])
<1>1. PICK S : S = {k \in 0 .. L : \E f : Good(f, k)}
  BY Zenon
<1>2. 0 \in S
  <2>1. PICK f : f = [n \in 1 .. 1 |-> ds]
    BY Zenon
  <2>2. Good(f, 0)
    BY <2>1
  <2> QED
    BY <1>1, <2>2
<1>3. ASSUME NEW k \in 0 .. L - 1, k \in S PROVE k + 1 \in S
  <2>1. PICK f : Good(f, k)
    BY <1>1, <1>3
  <2>2. PICK x : x = Transfer(block.ins[k + 1], b, k + 1, f[k + 1])
    BY Zenon
  <2>3. PICK g : g = [n \in 1 .. k + 2 |-> IF n <= k + 1 THEN f[n] ELSE x]
    BY Zenon
  <2>4. g = [n \in 1 .. (k + 1) + 1 |-> g[n]] /\ g[1] = ds
    BY <2>1, <2>3
  <2>5. ASSUME NEW n \in 1 .. k + 1
        PROVE  g[n + 1] = Transfer(block.ins[n], b, n, g[n])
    <3>1. CASE n = k + 1
      BY <2>2, <2>3, <3>1
    <3>2. CASE n # k + 1
      <4>1. n \in 1 .. k /\ n + 1 \in 1 .. k + 1 /\ n \in 1 .. k + 1
        BY <3>2
      <4>2. g[n] = f[n] /\ g[n + 1] = f[n + 1]
        BY <2>3, <4>1
      <4>3. f[n + 1] = Transfer(block.ins[n], b, n, f[n])
        BY <2>1, <4>1
      <4> QED
        BY <4>2, <4>3, Zenon
    <3> QED
      BY <3>1, <3>2
  <2>6. Good(g, k + 1)
    BY <2>4, <2>5
  <2> HIDE DEF Good
  <2> QED
    BY <1>1, <2>6
<1>4. L \in S
  <2> HIDE DEF Good
  <2>1. 0 .. L \subseteq S
    BY <1>2, <1>3, Induction
  <2> QED
    BY <2>1
<1>5. PICK f : Good(f, L)
  BY <1>1, <1>4
<1>6. f = Step(f)
  <2>2. ASSUME NEW n \in 1 .. L + 1 PROVE f[n] = Step(f)[n]
    <3>1. CASE n = 1
      BY <1>5, <3>1
    <3>2. CASE n # 1
      <4>1. n - 1 \in 1 .. L /\ (n - 1) + 1 = n
        BY <3>2
      <4>2. f[n] = Transfer(block.ins[n - 1], b, n - 1, f[n - 1])
        BY <1>5, <4>1
      <4> QED
        BY <3>2, <4>2
    <3> QED
      BY <3>1, <3>2
  <2>3. f = [n \in 1 .. L + 1 |-> f[n]]
    BY <1>5
  <2>4. [n \in 1 .. L + 1 |-> f[n]] = [n \in 1 .. L + 1 |-> Step(f)[n]]
    BY <2>2, Zenon
  <2>5. [n \in 1 .. L + 1 |-> Step(f)[n]] = Step(f)
    OBVIOUS
  <2> QED
    BY <2>3, <2>4, <2>5, Zenon
<1>7. PICK F : F = (CHOOSE g : g = Step(g))
  BY Zenon
<1>8. F = Step(F)
  BY <1>6, <1>7, Zenon
<1>9. Through(block, b, ds) = F
  BY <1>7, Zenon DEF Through
<1>10. DOMAIN F = 1 .. L + 1
  BY <1>8
<1>11. F[1] = ds
  <2>1. F[1] = Step(F)[1]
    BY <1>8, Zenon
  <2> QED
    BY <2>1
<1>12. ASSUME NEW n \in 1 .. L PROVE F[n + 1] = Transfer(block.ins[n], b, n, F[n])
  <2>1. F[n + 1] = Step(F)[n + 1]
    BY <1>8, Zenon
  <2>2. n + 1 \in 1 .. L + 1 /\ n + 1 # 1 /\ (n + 1) - 1 = n
    OBVIOUS
  <2>3. Step(F)[n + 1] = Transfer(block.ins[(n + 1) - 1], b, (n + 1) - 1, F[(n + 1) - 1])
    BY <2>2, Zenon
  <2> QED
    BY <2>1, <2>2, <2>3
<1> QED
  BY <1>9, <1>10, <1>11, <1>12, Zenon

-----------------------------------------------------------------------------
(* The points of one more step.                                            *)
Grown(g, S) == S \cup UNION {Onward(g, pt) : pt \in S}

IsReach(U, g, k) ==
    /\ U = [n \in 0 .. k |-> U[n]] /\ U[0] = {Entry}
    /\ \A n \in 1 .. k : U[n] = Grown(g, U[n - 1])

(* The points of each number of steps up to k make one function.           *)
LEMMA ReachExists ==
    ASSUME NEW g, NEW k \in Nat
    PROVE  \E U : IsReach(U, g, k) /\ Points(g, k) = U[k]
<1> DEFINE Step(f) == [n \in 0 .. k |-> IF n = 0 THEN {Entry} ELSE Grown(g, f[n - 1])]
<1>1. PICK S : S = {j \in 0 .. k : \E f : IsReach(f, g, j)}
  BY Zenon
<1>2. 0 \in S
  <2>1. PICK f : f = [n \in 0 .. 0 |-> {Entry}]
    BY Zenon
  <2>2. IsReach(f, g, 0)
    BY <2>1 DEF IsReach
  <2> QED
    BY <1>1, <2>2
<1>3. ASSUME NEW j \in 0 .. k - 1, j \in S PROVE j + 1 \in S
  <2>1. PICK f : IsReach(f, g, j)
    BY <1>1, <1>3
  <2>2. PICK x : x = Grown(g, f[j])
    BY Zenon
  <2>3. PICK h : h = [n \in 0 .. j + 1 |-> IF n <= j THEN f[n] ELSE x]
    BY Zenon
  <2>4. h = [n \in 0 .. j + 1 |-> h[n]] /\ h[0] = {Entry}
    BY <2>1, <2>3 DEF IsReach
  <2>5. ASSUME NEW n \in 1 .. j + 1 PROVE h[n] = Grown(g, h[n - 1])
    <3>1. CASE n = j + 1
      BY <2>2, <2>3, <3>1
    <3>2. CASE n # j + 1
      <4>1. n \in 1 .. j /\ n \in 0 .. j + 1 /\ n - 1 \in 0 .. j + 1 /\ n <= j /\ n - 1 <= j
        BY <3>2
      <4>2. h[n] = f[n] /\ h[n - 1] = f[n - 1]
        BY <2>3, <4>1
      <4>3. f[n] = Grown(g, f[n - 1])
        BY <2>1, <4>1 DEF IsReach
      <4> QED
        BY <4>2, <4>3, Zenon
    <3> QED
      BY <3>1, <3>2
  <2>6. IsReach(h, g, j + 1)
    BY <2>4, <2>5 DEF IsReach
  <2> QED
    BY <1>1, <2>6
<1>4. k \in S
  <2>1. 0 .. k \subseteq S
    BY <1>2, <1>3, Induction
  <2> QED
    BY <2>1
<1>5. PICK f : IsReach(f, g, k)
  BY <1>1, <1>4
<1>6. f = Step(f)
  <2>2. ASSUME NEW n \in 0 .. k PROVE f[n] = Step(f)[n]
    BY <1>5 DEF IsReach
  <2>3. f = [n \in 0 .. k |-> f[n]]
    BY <1>5 DEF IsReach
  <2>4. [n \in 0 .. k |-> f[n]] = [n \in 0 .. k |-> Step(f)[n]]
    BY <2>2, Zenon
  <2>5. [n \in 0 .. k |-> Step(f)[n]] = Step(f)
    OBVIOUS
  <2> QED
    BY <2>3, <2>4, <2>5, Zenon
<1>7. PICK F : F = (CHOOSE h : h = Step(h))
  BY Zenon
<1>8. F = Step(F)
  BY <1>6, <1>7, Zenon
<1>9. Points(g, k) = F[k]
  BY <1>7, Zenon DEF Points, Grown
<1>10. F = [n \in 0 .. k |-> F[n]] /\ F[0] = {Entry}
  <2>1. F[0] = Step(F)[0]
    BY <1>8, Zenon
  <2> QED
    BY <1>8, <2>1
<1>11. ASSUME NEW n \in 1 .. k PROVE F[n] = Grown(g, F[n - 1])
  <2>1. F[n] = Step(F)[n]
    BY <1>8, Zenon
  <2>2. n \in 0 .. k /\ n # 0
    OBVIOUS
  <2>3. Step(F)[n] = Grown(g, F[n - 1])
    BY <2>2
  <2> QED
    BY <2>1, <2>3, Zenon
<1> QED
  BY <1>9, <1>10, <1>11 DEF IsReach

(* An execution starts at the entry, and goes on from where it was.        *)
LEMMA PointsNext ==
    ASSUME NEW g
    PROVE  /\ Points(g, 0) = {Entry}
           /\ \A k \in Nat : Points(g, k + 1) = Grown(g, Points(g, k))
<1>1. Points(g, 0) = {Entry}
  BY ReachExists DEF IsReach
<1>2. ASSUME NEW k \in Nat PROVE Points(g, k + 1) = Grown(g, Points(g, k))
  <2>1. PICK U : IsReach(U, g, k) /\ Points(g, k) = U[k]
    BY ReachExists
  <2>2. PICK W : IsReach(W, g, k + 1) /\ Points(g, k + 1) = W[k + 1]
    BY ReachExists
  <2>3. PICK S : S = {n \in 0 .. k : U[n] = W[n]}
    BY Zenon
  <2>4. 0 \in S
    <3>1. U[0] = {Entry} /\ W[0] = {Entry}
      BY <2>1, <2>2, Zenon DEF IsReach
    <3>2. 0 \in 0 .. k
      OBVIOUS
    <3> QED
      BY <2>3, <3>1, <3>2
  <2>5. ASSUME NEW n \in 0 .. k - 1, n \in S PROVE n + 1 \in S
    <3>1. n + 1 \in 1 .. k /\ n + 1 \in 1 .. k + 1 /\ (n + 1) - 1 = n /\ n + 1 \in 0 .. k
      OBVIOUS
    <3>2. U[n + 1] = Grown(g, U[n]) /\ W[n + 1] = Grown(g, W[n])
      BY <2>1, <2>2, <3>1 DEF IsReach
    <3> QED
      BY <2>3, <2>5, <3>1, <3>2
  <2>6. k \in S
    <3>1. 0 .. k \subseteq S
      BY <2>4, <2>5, Induction
    <3> QED
      BY <3>1
  <2>7. W[k + 1] = Grown(g, W[k])
    <3>1. k + 1 \in 1 .. k + 1 /\ (k + 1) - 1 = k
      OBVIOUS
    <3> QED
      BY <2>2, <3>1 DEF IsReach
  <2> QED
    BY <2>1, <2>2, <2>3, <2>6, <2>7
<1> QED
  BY <1>1, <1>2

(* More steps lose no point, and a point is followed by what lies onward.  *)
LEMMA PointsGrow ==
    ASSUME NEW g, NEW k \in Nat, NEW j \in 0 .. k
    PROVE  Points(g, j) \subseteq Points(g, k)
<1>1. PICK S : S = {n \in j .. k : Points(g, j) \subseteq Points(g, n)}
  BY Zenon
<1>2. j \in S
  BY <1>1
<1>3. ASSUME NEW n \in j .. k - 1, n \in S PROVE n + 1 \in S
  <2>1. Points(g, n + 1) = Grown(g, Points(g, n))
    BY PointsNext
  <2> QED
    BY <1>1, <1>3, <2>1 DEF Grown
<1>4. j .. k \subseteq S
  BY <1>2, <1>3, Induction
<1> QED
  BY <1>1, <1>4

LEMMA PointsOnward ==
    ASSUME NEW g, NEW k \in Nat, NEW pt \in Points(g, k), NEW nx \in Onward(g, pt)
    PROVE  nx \in Points(g, k + 1)
<1>1. Points(g, k + 1) = Grown(g, Points(g, k))
  BY PointsNext
<1>2. nx \in Grown(g, Points(g, k))
  BY Zenon DEF Grown
<1> QED
  BY <1>1, <1>2, Zenon

(* What holds at the entry and, if it does at a point, onward from there,  *)
(* holds wherever executions come to.                                      *)
LEMMA PointsKeep ==
    ASSUME NEW g, NEW k \in Nat, NEW S, Entry \in S,
           \A pt \in S : Onward(g, pt) \cap Points(g, k) \subseteq S
    PROVE  Points(g, k) \subseteq S
<1>1. PICK W : W = {n \in 0 .. k : Points(g, n) \subseteq S}
  BY Zenon
<1>2. 0 \in W
  <2>1. Points(g, 0) = {Entry}
    BY PointsNext, Zenon
  <2> QED
    BY <1>1, <2>1
<1>3. ASSUME NEW n \in 0 .. k - 1, n \in W PROVE n + 1 \in W
  <2>1. Points(g, n + 1) = Grown(g, Points(g, n))
    BY PointsNext
  <2>2. n + 1 \in 0 .. k /\ Points(g, n + 1) \subseteq Points(g, k)
    BY PointsGrow
  <2>3. Points(g, n) \subseteq S
    BY <1>1, <1>3
  <2>4. Points(g, n + 1) \subseteq S
    BY <2>1, <2>2, <2>3, Zenon DEF Grown
  <2> QED
    BY <1>1, <2>2, <2>4
<1>4. 0 .. k \subseteq W
  BY <1>2, <1>3, Induction
<1> QED
  BY <1>1, <1>4

(* A point is before an instruction or at the end of a block of the graph. *)
IsPoint(g, pt) ==
    /\ pt = [b |-> pt.b, n |-> pt.n, from |-> pt.from]
    /\ pt.b \in DOMAIN g
    /\ pt.n \in 1 .. Len(g[pt.b].ins) + 1

LEMMA PointShape ==
    ASSUME NEW g, IsGraph(g), NEW k \in Nat, NEW pt \in Points(g, k)
    PROVE  IsPoint(g, pt)
<1>1. PICK S : S = {x \in Points(g, k) : IsPoint(g, x)}
  BY Zenon
<1>2. Entry \in S
  <2>1. Entry \in Points(g, k)
    <3>1. 0 \in 0 .. k
      OBVIOUS
    <3> QED
      BY <3>1, PointsGrow, PointsNext
  <2>2. IsPoint(g, Entry)
    BY DEF IsPoint, Entry, IsGraph
  <2> QED
    BY <1>1, <2>1, <2>2
<1>3. ASSUME NEW x \in S, NEW nx \in Onward(g, x) PROVE IsPoint(g, nx)
  <2>1. IsPoint(g, x)
    BY <1>1
  <2>2. CASE x.n \in DOMAIN g[x.b].ins
    <3>1. PICK f : nx = [b |-> x.b, n |-> x.n + 1, from |-> f]
      BY <2>2 DEF Onward
    <3>2. x.n \in 1 .. Len(g[x.b].ins) /\ Len(g[x.b].ins) \in Nat
      BY <2>1, <2>2 DEF IsGraph, IsPoint
    <3>3. nx.b = x.b /\ nx.n = x.n + 1 /\ nx.from = f
      BY <3>1
    <3> QED
      BY <2>1, <3>1, <3>2, <3>3 DEF IsPoint
  <2>3. CASE x.n \notin DOMAIN g[x.b].ins
    <3>1. PICK e \in Successors(g[x.b]) : nx = [b |-> e, n |-> 1, from |-> x.from]
      BY <2>3 DEF Onward
    <3>2. e \in DOMAIN g
      BY <2>1 DEF IsPoint, IsGraph
    <3>3. 1 \in 1 .. Len(g[e].ins) + 1
      BY <3>2 DEF IsGraph
    <3>4. nx.b = e /\ nx.n = 1 /\ nx.from = x.from
      BY <3>1
    <3> QED
      BY <3>1, <3>2, <3>3, <3>4 DEF IsPoint
  <2> QED
    BY <2>2, <2>3
<1>4. Points(g, k) \subseteq S
  BY <1>1, <1>2, <1>3, PointsKeep
<1> QED
  BY <1>1, <1>4

-----------------------------------------------------------------------------
(* The transfers of one instruction against what an execution carries on.  *)
Covered(from, ds) ==
    \A v \in DOMAIN from : <<v, from[v][1], from[v][2]>> \in ds

(* What gave a variable its value is kept track of.                        *)
LEMMA TransferCovers ==
    ASSUME NEW i, NEW b, NEW n, NEW from, NEW ds,
           Covered(from, ds), ~CopiesUnset(i, from),
           ~(Copies(i) /\ i.e[1].v = i.v)
    PROVE  Covered(Carried(i, <<b, n>>, from), Transfer(i, b, n, ds))
<1>1. CASE Copies(i)
  <2>1. PICK src : src = i.e[1].v
    BY Zenon
  <2>2. src \in DOMAIN from /\ src # i.v
    BY <1>1, <2>1 DEF CopiesUnset
  <2>3. Carried(i, <<b, n>>, from) = Bound(from, i.v, from[src])
    BY <1>1, <2>1, Zenon DEF Carried
  <2>4. Transfer(i, b, n, ds) = Copy(Kill(ds, i.v), i.v, src)
    BY <1>1, <2>1, Zenon DEF Transfer
  <2>5. ASSUME NEW u \in DOMAIN from, u # i.v
        PROVE  <<u, from[u][1], from[u][2]>> \in Kill(ds, i.v)
    BY <2>5 DEF Covered, Kill, Of
  <2>6. <<from[src][1], from[src][2]>> \in Places(Kill(ds, i.v), src)
    <3>1. PICK d : d = <<src, from[src][1], from[src][2]>>
      BY Zenon
    <3>2. d \in Kill(ds, i.v) /\ d[1] = src /\ d[2] = from[src][1] /\ d[3] = from[src][2]
      BY <2>2, <2>5, <3>1
    <3>3. d \in Of(Kill(ds, i.v), src)
      BY <3>2, Zenon DEF Of
    <3> QED
      BY <3>2, <3>3, Zenon DEF Places
  <2>7. <<i.v, from[src][1], from[src][2]>> \in Copy(Kill(ds, i.v), i.v, src)
    <3>1. PICK p : p = <<from[src][1], from[src][2]>>
      BY Zenon
    <3>2. p[1] = from[src][1] /\ p[2] = from[src][2] /\ p \in Places(Kill(ds, i.v), src)
      BY <2>6, <3>1
    <3>3. <<i.v, p[1], p[2]>> \in Copy(Kill(ds, i.v), i.v, src)
      BY <3>2, Zenon DEF Copy
    <3> QED
      BY <3>2, <3>3, Zenon
  <2>8. ASSUME NEW u \in DOMAIN Bound(from, i.v, from[src])
        PROVE  <<u, Bound(from, i.v, from[src])[u][1], Bound(from, i.v, from[src])[u][2]>>
                    \in Copy(Kill(ds, i.v), i.v, src)
    <3>1. CASE u = i.v
      BY <2>7, <3>1 DEF Bound
    <3>2. CASE u # i.v
      BY <2>5, <3>2 DEF Bound, Copy
    <3> QED
      BY <3>1, <3>2
  <2> QED
    BY <2>3, <2>4, <2>8 DEF Covered
<1>2. CASE Assigns(i) /\ ~Copies(i)
  <2>1. Carried(i, <<b, n>>, from) = Bound(from, i.v, <<b, n>>)
    BY <1>2, Zenon DEF Carried, CopiesUnset
  <2>2. Transfer(i, b, n, ds) = Kill(ds, i.v) \cup {<<i.v, b, n>>}
    BY <1>2, Zenon DEF Transfer
  <2> QED
    BY <2>1, <2>2 DEF Covered, Bound, Kill, Of
<1>3. CASE ~Assigns(i) /\ ~Copies(i)
  <2>1. Carried(i, <<b, n>>, from) = from
    BY <1>3, Zenon DEF Carried, CopiesUnset
  <2>2. Transfer(i, b, n, ds) = ds
    BY <1>3, Zenon DEF Transfer
  <2> QED
    BY <2>1, <2>2
<1> QED
  BY <1>1, <1>2, <1>3

(* A variable that has a value goes on having one, and an assignment gives *)
(* one.                                                                    *)
LEMMA CarriesOn ==
    ASSUME NEW i, NEW p, NEW from, ~CopiesUnset(i, from),
           DOMAIN from # {} \/ Assigns(i)
    PROVE  DOMAIN Carried(i, p, from) # {}
<1>1. CASE Copies(i)
  <2>1. Carried(i, p, from) = Bound(from, i.v, from[i.e[1].v])
    BY <1>1, Zenon DEF Carried
  <2> QED
    BY <2>1 DEF Bound
<1>2. CASE Assigns(i) /\ ~Copies(i)
  <2>1. Carried(i, p, from) = Bound(from, i.v, p)
    BY <1>2, Zenon DEF Carried
  <2> QED
    BY <2>1 DEF Bound
<1>3. CASE ~Assigns(i) /\ ~Copies(i)
  BY <1>3, Zenon DEF Carried
<1> QED
  BY <1>1, <1>2, <1>3

(* A definition is one that an execution carries.                          *)
CarriedBy(d, from) == d[1] \in DOMAIN from /\ from[d[1]] = <<d[2], d[3]>>

(* What the transfers let through or add, some execution carries.          *)
LEMMA TransferCarried ==
    ASSUME NEW i, NEW b, NEW n, NEW ds, NEW froms, froms # {},
           \A d \in ds : \E from \in froms : CarriedBy(d, from),
           NEW d \in Transfer(i, b, n, ds)
    PROVE  \E from \in froms : CarriedBy(d, Carried(i, <<b, n>>, from))
<1>1. CASE Copies(i)
  <2>1. PICK src : src = i.e[1].v
    BY Zenon
  <2>2. d \in Copy(Kill(ds, i.v), i.v, src)
    BY <1>1, <2>1, Zenon DEF Transfer
  <2>3. CASE d \in Kill(ds, i.v)
    <3>1. d \in ds /\ d[1] # i.v
      BY <2>3 DEF Kill, Of
    <3>2. PICK from \in froms : CarriedBy(d, from)
      BY <3>1
    <3>3. CASE CopiesUnset(i, from)
      <4>1. Carried(i, <<b, n>>, from) = Unbound(from, i.v)
        BY <3>3, Zenon DEF Carried
      <4>2. CarriedBy(d, Unbound(from, i.v))
        BY <3>1, <3>2 DEF CarriedBy, Unbound
      <4> QED
        BY <4>1, <4>2, Zenon
    <3>4. CASE ~CopiesUnset(i, from)
      <4>1. Carried(i, <<b, n>>, from) = Bound(from, i.v, from[src])
        BY <1>1, <2>1, <3>4, Zenon DEF Carried
      <4>2. CarriedBy(d, Bound(from, i.v, from[src]))
        BY <3>1, <3>2 DEF CarriedBy, Bound
      <4> QED
        BY <4>1, <4>2, Zenon
    <3> QED
      BY <3>3, <3>4
  <2>4. CASE d \notin Kill(ds, i.v)
    <3>1. PICK p \in Places(Kill(ds, i.v), src) : d = <<i.v, p[1], p[2]>>
      BY <2>2, <2>4, Zenon DEF Copy
    <3>2. PICK c \in Of(Kill(ds, i.v), src) : p = <<c[2], c[3]>>
      BY Zenon DEF Places
    <3>3. c \in ds /\ c[1] = src
      BY DEF Of, Kill
    <3>4. PICK from \in froms : CarriedBy(c, from)
      BY <3>3
    <3>5. src \in DOMAIN from /\ from[src] = <<c[2], c[3]>>
      BY <3>3, <3>4 DEF CarriedBy
    <3>6. Carried(i, <<b, n>>, from) = Bound(from, i.v, from[src])
      BY <1>1, <2>1, <3>5, Zenon DEF Carried, CopiesUnset
    <3>7. d[1] = i.v /\ d[2] = c[2] /\ d[3] = c[3]
      BY <3>1, <3>2
    <3>8. CarriedBy(d, Bound(from, i.v, from[src]))
      BY <3>5, <3>7 DEF CarriedBy, Bound
    <3> QED
      BY <3>6, <3>8, Zenon
  <2> QED
    BY <2>3, <2>4
<1>2. CASE Assigns(i) /\ ~Copies(i)
  <2>1. d \in Kill(ds, i.v) \cup {<<i.v, b, n>>}
    BY <1>2, Zenon DEF Transfer
  <2>2. \A from : Carried(i, <<b, n>>, from) = Bound(from, i.v, <<b, n>>)
    BY <1>2, Zenon DEF Carried, CopiesUnset
  <2>3. CASE d \in Kill(ds, i.v)
    <3>1. d \in ds /\ d[1] # i.v
      BY <2>3 DEF Kill, Of
    <3>2. PICK from \in froms : CarriedBy(d, from)
      BY <3>1
    <3>3. CarriedBy(d, Bound(from, i.v, <<b, n>>))
      BY <3>1, <3>2 DEF CarriedBy, Bound
    <3> QED
      BY <2>2, <3>3, Zenon
  <2>4. CASE d = <<i.v, b, n>>
    <3>1. PICK from \in froms : TRUE
      OBVIOUS
    <3>2. CarriedBy(d, Bound(from, i.v, <<b, n>>))
      BY <2>4 DEF CarriedBy, Bound
    <3> QED
      BY <2>2, <3>2, Zenon
  <2> QED
    BY <2>1, <2>3, <2>4
<1>3. CASE ~Assigns(i) /\ ~Copies(i)
  <2>1. d \in ds
    BY <1>3, Zenon DEF Transfer
  <2>2. PICK from \in froms : CarriedBy(d, from)
    BY <2>1
  <2>3. Carried(i, <<b, n>>, from) = from
    BY <1>3, Zenon DEF Carried, CopiesUnset
  <2> QED
    BY <2>2, <2>3, Zenon
<1> QED
  BY <1>1, <1>2, <1>3

-----------------------------------------------------------------------------
(* The worklist.  A block that is not on it has passed on what it has: its *)
(* definitions at its end are among those of each block after it.          *)
vars == <<phase, bl, defs, todo>>

FTypeOK ==
    /\ phase \in {"generated", "finding"}
    /\ IsGraph(bl)
    /\ phase = "finding" =>
          /\ defs = [b \in DOMAIN bl |-> defs[b]]
          /\ todo \subseteq DOMAIN bl

Settled ==
    phase = "finding" =>
        \A b \in DOMAIN bl \ todo : b = 1 \/ defs[b] # {} =>
            \A e \in Successors(bl[b]) : AtEnd(bl[b], b, defs[b]) \subseteq defs[e]

(* Executions arrive at what is on the worklist.                           *)
Arrives(b) == \E k \in Nat : \E pt \in Points(bl, k) : pt.b = b /\ pt.n = 1

Arrived == phase = "finding" => \A b \in todo : Arrives(b)

LEMMA GraphFacts ==
    ASSUME IsGraph(bl)
    PROVE  /\ 1 \in DOMAIN bl
           /\ \A b \in DOMAIN bl :
                /\ Len(bl[b].ins) \in Nat
                /\ DOMAIN bl[b].ins = 1 .. Len(bl[b].ins)
                /\ Successors(bl[b]) \subseteq DOMAIN bl
BY DEF IsGraph

(* What a step of the worklist does, said of one block at a time.          *)
LEMMA TakeFacts ==
    ASSUME FTypeOK, phase = "finding", NEW b \in todo, TakeBlock(b)
    PROVE  /\ defs' = [e \in DOMAIN bl |-> defs'[e]]
           /\ b \in DOMAIN bl
           /\ \A e \in DOMAIN bl : defs[e] \subseteq defs'[e]
           /\ \A e \in DOMAIN bl : defs'[e] # defs[e] =>
                 /\ e \in Successors(bl[b])
                 /\ e \in todo'
                 /\ defs'[e] = defs[e] \cup AtEnd(bl[b], b, defs[b])
           /\ \A e \in Successors(bl[b]) : AtEnd(bl[b], b, defs[b]) \subseteq defs'[e]
           /\ todo \ {b} \subseteq todo'
           /\ todo' \subseteq todo \cup Successors(bl[b])
<1>1. PICK out : out = AtEnd(bl[b], b, defs[b])
  BY Zenon
<1>2. PICK again : again = {e \in Successors(bl[b]) : Differs(defs[e], out)}
  BY Zenon
<1>3. /\ defs' = [e \in DOMAIN bl |-> IF e \in again THEN defs[e] \cup out ELSE defs[e]]
      /\ todo' = (todo \ {b}) \cup again
  BY <1>1, <1>2, Zenon DEF TakeBlock
<1>4. b \in DOMAIN bl /\ again \subseteq Successors(bl[b])
  BY <1>2 DEF FTypeOK
<1>5. Successors(bl[b]) \subseteq DOMAIN bl
  BY <1>4, GraphFacts DEF FTypeOK
<1>6. \A e \in DOMAIN bl : e \in again => defs'[e] = defs[e] \cup out
  BY <1>3
<1>7. \A e \in DOMAIN bl : e \notin again => defs'[e] = defs[e]
  BY <1>3
<1>8. ASSUME NEW e \in Successors(bl[b]) PROVE out \subseteq defs'[e]
  <2>1. e \in DOMAIN bl
    BY <1>5
  <2>2. CASE e \in again
    BY <1>6, <2>1, <2>2
  <2>3. CASE e \notin again
    <3>1. defs[e] = out
      BY <1>2, <2>3 DEF Differs
    <3> QED
      BY <1>7, <2>1, <2>3, <3>1
  <2> QED
    BY <2>2, <2>3
<1>9. defs' = [e \in DOMAIN bl |-> defs'[e]]
  BY <1>3
<1>10. ASSUME NEW e \in DOMAIN bl, defs'[e] # defs[e]
       PROVE  e \in Successors(bl[b]) /\ e \in todo' /\ defs'[e] = defs[e] \cup out
  BY <1>3, <1>4, <1>6, <1>7, <1>10
<1>11. \A e \in DOMAIN bl : defs[e] \subseteq defs'[e]
  BY <1>6, <1>7
<1>12. todo \ {b} \subseteq todo' /\ todo' \subseteq todo \cup Successors(bl[b])
  BY <1>3, <1>4
<1> QED
  BY <1>1, <1>4, <1>8, <1>9, <1>10, <1>11, <1>12

(* The pass keeps to the graph it was given.                               *)
LEMMA TypeHolds == FindSpec => []FTypeOK
<1>1. FindInit => FTypeOK
  BY DEF FindInit, FTypeOK
<1>2. FTypeOK /\ [Begin \/ Find]_<<phase, bl, defs, todo>> => FTypeOK'
  <2> SUFFICES ASSUME FTypeOK, [Begin \/ Find]_<<phase, bl, defs, todo>> PROVE FTypeOK'
    OBVIOUS
  <2>1. CASE Begin
    <3>1. bl' = bl /\ phase' = "finding" /\ todo' = {1} /\ IsGraph(bl)
      BY <2>1 DEF Begin, FTypeOK
    <3>2. defs' = [b \in DOMAIN bl |-> defs'[b]]
      BY <2>1 DEF Begin
    <3>3. 1 \in DOMAIN bl
      BY <3>1, GraphFacts
    <3> QED
      BY <3>1, <3>2, <3>3 DEF FTypeOK, IsGraph, Successors
  <2>2. CASE Find
    <3>1. PICK b \in todo : TakeBlock(b)
      BY <2>2 DEF Find
    <3>2. phase = "finding" /\ phase' = phase /\ bl' = bl
      BY <2>2 DEF Find
    <3>3. defs' = [e \in DOMAIN bl |-> defs'[e]] /\ todo' \subseteq todo \cup Successors(bl[b])
          /\ b \in DOMAIN bl
      BY <3>1, <3>2, TakeFacts
    <3>4. Successors(bl[b]) \subseteq DOMAIN bl
      BY <3>3, GraphFacts DEF FTypeOK
    <3>5. IsGraph(bl)'
      BY <3>2 DEF FTypeOK, IsGraph, Successors
    <3> QED
      BY <3>2, <3>3, <3>4, <3>5 DEF FTypeOK
  <2>3. CASE UNCHANGED <<phase, bl, defs, todo>>
    BY <2>3 DEF FTypeOK, IsGraph, Successors
  <2> QED
    BY <2>1, <2>2, <2>3
<1> QED
  BY <1>1, <1>2, PTL DEF FindSpec

(* Only blocks on the worklist may have something to pass on.              *)
LEMMA SettledHolds == FindSpec => []Settled
<1>1. FindInit => Settled
  BY DEF FindInit, Settled
<1>2. FTypeOK /\ Settled /\ [Begin \/ Find]_<<phase, bl, defs, todo>> => Settled'
  <2> SUFFICES ASSUME FTypeOK, Settled, [Begin \/ Find]_<<phase, bl, defs, todo>>
               PROVE  Settled'
    OBVIOUS
  <2>1. CASE Begin
    <3>1. bl' = bl /\ todo' = {1}
      BY <2>1 DEF Begin
    <3>2. \A b \in DOMAIN bl : defs'[b] = {}
      BY <2>1 DEF Begin
    <3> QED
      BY <3>1, <3>2 DEF Settled
  <2>2. CASE Find
    <3>1. PICK b \in todo : TakeBlock(b)
      BY <2>2 DEF Find
    <3>2. phase = "finding" /\ phase' = phase /\ bl' = bl
      BY <2>2 DEF Find
    <3>3. /\ \A e \in DOMAIN bl : defs[e] \subseteq defs'[e]
          /\ \A e \in DOMAIN bl : defs'[e] # defs[e] => e \in todo'
          /\ \A e \in Successors(bl[b]) : AtEnd(bl[b], b, defs[b]) \subseteq defs'[e]
          /\ todo \ {b} \subseteq todo'
      BY <3>1, <3>2, TakeFacts
    <3>4. ASSUME NEW c \in DOMAIN bl, c \notin todo', c = 1 \/ defs'[c] # {},
                 NEW e \in Successors(bl[c])
          PROVE  AtEnd(bl[c], c, defs'[c]) \subseteq defs'[e]
      <4>1. defs'[c] = defs[c]
        BY <3>3, <3>4
      <4>2. CASE c = b
        BY <3>3, <3>4, <4>1, <4>2
      <4>3. CASE c # b
        <5>1. c \notin todo
          BY <3>3, <3>4, <4>3
        <5>2. AtEnd(bl[c], c, defs[c]) \subseteq defs[e]
          BY <3>2, <3>4, <4>1, <5>1 DEF Settled
        <5>3. e \in DOMAIN bl
          BY <3>4, GraphFacts DEF FTypeOK
        <5> QED
          BY <3>3, <4>1, <5>2, <5>3
      <4> QED
        BY <4>2, <4>3
    <3>5. (\A c \in DOMAIN bl \ todo : c = 1 \/ defs[c] # {} =>
               \A e \in Successors(bl[c]) : AtEnd(bl[c], c, defs[c]) \subseteq defs[e])'
      BY <3>2, <3>4 DEF AtEnd, Successors
    <3> QED
      BY <3>5, Zenon DEF Settled
  <2>3. CASE UNCHANGED <<phase, bl, defs, todo>>
    BY <2>3 DEF Settled, Successors, AtEnd
  <2> QED
    BY <2>1, <2>2, <2>3
<1> QED
  BY <1>1, <1>2, TypeHolds, PTL DEF FindSpec

-----------------------------------------------------------------------------
(* Nothing is missed: an execution has what gave its variables their       *)
(* values among the definitions of each point it comes to, and past the    *)
(* assignment in the entry it has some, so the worklist came there too.    *)
Seen(pt) ==
    /\ Covered(pt.from, FoundAt(pt))
    /\ pt.b = 1 \/ defs[pt.b] # {}
    /\ \/ DOMAIN pt.from # {}
       \/ pt.b = 1 /\ \A m \in 1 .. pt.n - 1 : ~Assigns(bl[1].ins[m])

LEMMA SeenInside ==
    ASSUME FTypeOK, ~CopiesItself(bl), NEW pt, IsPoint(bl, pt), Seen(pt),
           pt.n \in DOMAIN bl[pt.b].ins, ~CopiesUnset(bl[pt.b].ins[pt.n], pt.from),
           NEW nx \in Onward(bl, pt)
    PROVE  Seen(nx)
<1>1. PICK i : i = bl[pt.b].ins[pt.n]
  BY Zenon
<1>2. /\ pt.b \in DOMAIN bl /\ Len(bl[pt.b].ins) \in Nat
      /\ pt.n \in 1 .. Len(bl[pt.b].ins)
  BY GraphFacts DEF FTypeOK, IsPoint
<1>3. nx = [b |-> pt.b, n |-> pt.n + 1, from |-> Carried(i, <<pt.b, pt.n>>, pt.from)]
  BY <1>1 DEF Onward
<1>4. nx.b = pt.b /\ nx.n = pt.n + 1 /\ nx.from = Carried(i, <<pt.b, pt.n>>, pt.from)
  BY <1>3
<1>5. FoundAt(nx) = Transfer(i, pt.b, pt.n, FoundAt(pt))
  BY <1>1, <1>2, <1>4, ThroughFacts DEF FoundAt
<1>6. ~CopiesUnset(i, pt.from) /\ ~(Copies(i) /\ i.e[1].v = i.v)
  BY <1>1, <1>2, Zenon DEF CopiesItself
<1>7. Covered(nx.from, FoundAt(nx))
  <2>1. Covered(pt.from, FoundAt(pt))
    BY DEF Seen
  <2>2. Covered(Carried(i, <<pt.b, pt.n>>, pt.from), Transfer(i, pt.b, pt.n, FoundAt(pt)))
    BY <1>6, <2>1, TransferCovers
  <2> QED
    BY <1>4, <1>5, <2>2, Zenon
<1>8. nx.b = 1 \/ defs[nx.b] # {}
  BY <1>4 DEF Seen
<1>9. CASE DOMAIN pt.from # {} \/ Assigns(i)
  <2>1. DOMAIN nx.from # {}
    BY <1>4, <1>6, <1>9, CarriesOn
  <2> QED
    BY <1>7, <1>8, <2>1 DEF Seen
<1>10. CASE DOMAIN pt.from = {} /\ ~Assigns(i)
  <2>1. pt.b = 1 /\ \A m \in 1 .. pt.n - 1 : ~Assigns(bl[1].ins[m])
    BY <1>10 DEF Seen
  <2>2. ASSUME NEW m \in 1 .. nx.n - 1 PROVE ~Assigns(bl[1].ins[m])
    <3>1. CASE m = pt.n
      BY <1>1, <1>10, <2>1, <3>1
    <3>2. CASE m # pt.n
      <4>1. m \in 1 .. pt.n - 1
        BY <1>2, <1>4, <3>2
      <4> QED
        BY <2>1, <4>1
    <3> QED
      BY <3>1, <3>2
  <2> QED
    BY <1>4, <1>7, <1>8, <2>1, <2>2 DEF Seen
<1> QED
  BY <1>9, <1>10

LEMMA SeenAcross ==
    ASSUME FTypeOK, Settled, Complete, EntrySets(bl), NEW pt, IsPoint(bl, pt), Seen(pt),
           pt.n \notin DOMAIN bl[pt.b].ins, NEW nx \in Onward(bl, pt)
    PROVE  Seen(nx)
<1>1. PICK e \in Successors(bl[pt.b]) : nx = [b |-> e, n |-> 1, from |-> pt.from]
  BY DEF Onward
<1>2. nx.b = e /\ nx.n = 1 /\ nx.from = pt.from
  BY <1>1
<1>3. /\ pt.b \in DOMAIN bl /\ Len(bl[pt.b].ins) \in Nat
      /\ DOMAIN bl[pt.b].ins = 1 .. Len(bl[pt.b].ins)
      /\ e \in DOMAIN bl /\ Len(bl[e].ins) \in Nat
  BY GraphFacts DEF FTypeOK, IsPoint
<1>4. pt.n = Len(bl[pt.b].ins) + 1
  BY <1>3 DEF IsPoint
<1>5. FoundAt(pt) = AtEnd(bl[pt.b], pt.b, defs[pt.b])
  BY <1>4 DEF FoundAt, AtEnd
<1>6. FoundAt(nx) = defs[e]
  BY <1>2, <1>3, ThroughFacts DEF FoundAt
<1>7. AtEnd(bl[pt.b], pt.b, defs[pt.b]) \subseteq defs[e]
  BY <1>3 DEF Settled, Complete, Seen
<1>8. Covered(nx.from, FoundAt(nx))
  BY <1>2, <1>5, <1>6, <1>7 DEF Seen, Covered
<1>9. DOMAIN pt.from # {}
  <2> SUFFICES ASSUME DOMAIN pt.from = {} PROVE FALSE
    OBVIOUS
  <2>1. pt.b = 1 /\ \A m \in 1 .. pt.n - 1 : ~Assigns(bl[1].ins[m])
    BY DEF Seen
  <2>2. PICK n \in DOMAIN bl[1].ins : Assigns(bl[1].ins[n])
    BY DEF EntrySets
  <2>3. n \in 1 .. pt.n - 1
    BY <1>3, <1>4, <2>1, <2>2
  <2> QED
    BY <2>1, <2>2, <2>3
<1>10. defs[e] # {}
  BY <1>2, <1>6, <1>8, <1>9 DEF Covered
<1> QED
  BY <1>2, <1>8, <1>9, <1>10 DEF Seen

LEMMA SeenEverywhere ==
    ASSUME FTypeOK, Settled, Complete, EntrySets(bl), ~CopiesItself(bl),
           NEW k \in Nat, Declares(bl, k), NEW pt \in Points(bl, k)
    PROVE  Seen(pt)
<1>1. PICK S : S = {x \in Points(bl, k) : Seen(x)}
  BY Zenon
<1>2. Entry \in S
  <2>1. Entry \in Points(bl, k)
    <3>1. 0 \in 0 .. k
      OBVIOUS
    <3> QED
      BY <3>1, PointsGrow, PointsNext
  <2>2. Entry.b = 1 /\ Entry.n = 1 /\ DOMAIN Entry.from = {}
    BY DEF Entry
  <2>3. Seen(Entry)
    BY <2>2 DEF Seen, Covered
  <2> QED
    BY <1>1, <2>1, <2>3
<1>3. ASSUME NEW x \in S, NEW nx \in Onward(bl, x) PROVE Seen(nx)
  <2>1. x \in Points(bl, k) /\ Seen(x)
    BY <1>1
  <2>2. IsPoint(bl, x)
    BY <2>1, PointShape DEF FTypeOK
  <2>3. CASE x.n \in DOMAIN bl[x.b].ins
    <3>1. ~CopiesUnset(bl[x.b].ins[x.n], x.from)
      BY <2>1, <2>3 DEF Declares
    <3> QED
      BY <2>1, <2>2, <2>3, <3>1, SeenInside
  <2>4. CASE x.n \notin DOMAIN bl[x.b].ins
    BY <2>1, <2>2, <2>4, SeenAcross
  <2> QED
    BY <2>3, <2>4
<1>4. Points(bl, k) \subseteq S
  BY <1>1, <1>2, <1>3, PointsKeep
<1> QED
  BY <1>1, <1>4

(* When the worklist is empty, whatever gave a variable its value, on any  *)
(* execution of the graph, is among the definitions found for it there.    *)
THEOREM NothingIsMissed == FindSpec => []NothingMissed
<1>1. FTypeOK /\ Settled => NothingMissed
  BY SeenEverywhere, StepsAssumption DEF NothingMissed, WellMade, Seen, Covered
<1> QED
  BY <1>1, TypeHolds, SettledHolds, PTL

(* So the check for undefined variables sees each value that is none.      *)
THEOREM UndefinedIsSeen == FindSpec => []UndefinedSeen
<1>1. NothingMissed => UndefinedSeen
  <2> SUFFICES ASSUME NothingMissed, Complete, WellMade,
                      NEW pt \in Points(bl, Steps), NEW v \in DOMAIN pt.from,
                      DefinesNothing(bl[pt.from[v][1]].ins[pt.from[v][2]])
               PROVE  \E d \in Of(FoundAt(pt), v) : DefinesNothing(At2(bl, d))
    BY DEF UndefinedSeen
  <2>1. PICK d : d = <<v, pt.from[v][1], pt.from[v][2]>>
    BY Zenon
  <2>2. d \in FoundAt(pt)
    BY <2>1 DEF NothingMissed
  <2>3. d[1] = v /\ d[2] = pt.from[v][1] /\ d[3] = pt.from[v][2]
    BY <2>1
  <2> QED
    BY <2>2, <2>3, Zenon DEF Of, At2
<1> QED
  BY <1>1, NothingIsMissed, PTL

(* And constant folding puts a literal only where the value is one.        *)
THEOREM LiteralsDoAgree == FindSpec => []LiteralsAgree
<1>1. NothingMissed => LiteralsAgree
  <2> SUFFICES ASSUME NothingMissed, Complete, WellMade,
                      NEW pt \in Points(bl, Steps), NEW v \in DOMAIN pt.from, NEW x,
                      \A d \in Of(FoundAt(pt), v) : SetsTo(At2(bl, d), x)
               PROVE  SetsTo(bl[pt.from[v][1]].ins[pt.from[v][2]], x)
    BY DEF LiteralsAgree
  <2>1. PICK d : d = <<v, pt.from[v][1], pt.from[v][2]>>
    BY Zenon
  <2>2. d \in FoundAt(pt)
    BY <2>1 DEF NothingMissed
  <2>3. d[1] = v /\ d[2] = pt.from[v][1] /\ d[3] = pt.from[v][2]
    BY <2>1
  <2> QED
    BY <2>2, <2>3, Zenon DEF Of, At2
<1> QED
  BY <1>1, NothingIsMissed, PTL

-----------------------------------------------------------------------------
(* Nothing is invented: what goes through a block that executions arrive   *)
(* at is carried through it by some of them.                               *)
ReachedAt(b, n) == {pt \in UNION {Points(bl, k) : k \in Nat} : pt.b = b /\ pt.n = n}

Carry(b, n) ==
    /\ ReachedAt(b, n) # {}
    /\ \A d \in Through(bl[b], b, defs[b])[n] :
          \E pt \in ReachedAt(b, n) : CarriedBy(d, pt.from)

LEMMA CarryOn ==
    ASSUME FTypeOK, NEW b \in DOMAIN bl, NEW n \in DOMAIN bl[b].ins, Carry(b, n)
    PROVE  Carry(b, n + 1)
<1>1. PICK i : i = bl[b].ins[n]
  BY Zenon
<1>2. Len(bl[b].ins) \in Nat /\ n \in 1 .. Len(bl[b].ins)
  BY GraphFacts DEF FTypeOK
<1>3. PICK froms : froms = {pt.from : pt \in ReachedAt(b, n)}
  BY Zenon
<1>4. ASSUME NEW from \in froms
      PROVE  \E nx \in ReachedAt(b, n + 1) : nx.from = Carried(i, <<b, n>>, from)
  <2>1. PICK pt \in ReachedAt(b, n) : from = pt.from
    BY <1>3
  <2>2. PICK k \in Nat : pt \in Points(bl, k)
    BY DEF ReachedAt
  <2>3. pt.b = b /\ pt.n = n
    BY DEF ReachedAt
  <2>4. PICK nx : nx = [b |-> b, n |-> n + 1, from |-> Carried(i, <<b, n>>, from)]
    BY Zenon
  <2>5. nx \in Onward(bl, pt)
    BY <1>1, <2>1, <2>3, <2>4 DEF Onward
  <2>6. nx \in Points(bl, k + 1) /\ k + 1 \in Nat
    BY <2>2, <2>5, PointsOnward
  <2>7. nx.b = b /\ nx.n = n + 1 /\ nx.from = Carried(i, <<b, n>>, from)
    BY <2>4
  <2> QED
    BY <2>6, <2>7 DEF ReachedAt
<1>5. froms # {}
  BY <1>3 DEF Carry
<1>6. PICK ds : ds = Through(bl[b], b, defs[b])[n]
  BY Zenon
<1>7. \A d \in ds : \E from \in froms : CarriedBy(d, from)
  BY <1>3, <1>6 DEF Carry
<1>8. Through(bl[b], b, defs[b])[n + 1] = Transfer(i, b, n, ds)
  BY <1>1, <1>2, <1>6, ThroughFacts
<1>9. ASSUME NEW d \in Transfer(i, b, n, ds)
      PROVE  \E pt \in ReachedAt(b, n + 1) : CarriedBy(d, pt.from)
  <2>1. PICK from \in froms : CarriedBy(d, Carried(i, <<b, n>>, from))
    BY <1>5, <1>7, TransferCarried
  <2> QED
    BY <1>4, <2>1
<1>10. ReachedAt(b, n + 1) # {}
  BY <1>4, <1>5
<1> QED
  BY <1>8, <1>9, <1>10, Zenon DEF Carry

LEMMA CarryThrough ==
    ASSUME FTypeOK, NEW b \in DOMAIN bl, Carry(b, 1)
    PROVE  Carry(b, Len(bl[b].ins) + 1)
<1>1. PICK L : L = Len(bl[b].ins) + 1
  BY Zenon
<1>2. L - 1 \in Nat /\ DOMAIN bl[b].ins = 1 .. L - 1 /\ L \in Nat /\ 1 <= L
  BY <1>1, GraphFacts DEF FTypeOK
<1>3. PICK S : S = {n \in 1 .. L : Carry(b, n)}
  BY Zenon
<1>4. 1 \in S
  BY <1>2, <1>3
<1>5. ASSUME NEW n \in 1 .. L - 1, n \in S PROVE n + 1 \in S
  <2>1. Carry(b, n)
    BY <1>3, <1>5
  <2>2. n \in DOMAIN bl[b].ins
    BY <1>2
  <2>3. Carry(b, n + 1)
    BY <2>1, <2>2, CarryOn
  <2>4. n + 1 \in 1 .. L
    BY <1>2
  <2> QED
    BY <1>3, <2>3, <2>4, Zenon
<1>6. 1 .. L \subseteq S
  BY <1>2, <1>4, <1>5, Induction
<1>7. L \in 1 .. L
  BY <1>2
<1> QED
  BY <1>1, <1>3, <1>6, <1>7

(* A definition that an execution has where it is done with a block it     *)
(* brings to the blocks after that one.                                    *)
LEMMA CarryAcross ==
    ASSUME FTypeOK, NEW b \in DOMAIN bl, Carry(b, Len(bl[b].ins) + 1),
           NEW e \in Successors(bl[b])
    PROVE  /\ Arrives(e)
           /\ \A d \in AtEnd(bl[b], b, defs[b]) : Brings(e, d)
<1>1. Len(bl[b].ins) \in Nat /\ DOMAIN bl[b].ins = 1 .. Len(bl[b].ins)
  BY GraphFacts DEF FTypeOK
<1>2. PICK L : L = Len(bl[b].ins) + 1
  BY Zenon
<1>3. ASSUME NEW pt \in ReachedAt(b, L)
      PROVE  \E k \in Nat : \E nx \in Points(bl, k) : nx.b = e /\ nx.n = 1 /\ nx.from = pt.from
  <2>1. PICK k \in Nat : pt \in Points(bl, k)
    BY DEF ReachedAt
  <2>2. pt.b = b /\ pt.n = L /\ L \notin DOMAIN bl[b].ins
    BY <1>1, <1>2 DEF ReachedAt
  <2>3. PICK nx : nx = [b |-> e, n |-> 1, from |-> pt.from]
    BY Zenon
  <2>4. nx \in Onward(bl, pt)
    BY <2>2, <2>3 DEF Onward
  <2>5. nx \in Points(bl, k + 1) /\ k + 1 \in Nat
    BY <2>1, <2>4, PointsOnward
  <2>6. nx.b = e /\ nx.n = 1 /\ nx.from = pt.from
    BY <2>3
  <2> QED
    BY <2>5, <2>6
<1>4. Arrives(e)
  BY <1>2, <1>3 DEF Arrives, Carry
<1>5. ASSUME NEW d \in AtEnd(bl[b], b, defs[b]) PROVE Brings(e, d)
  <2>1. PICK pt \in ReachedAt(b, L) : CarriedBy(d, pt.from)
    BY <1>2 DEF Carry, AtEnd
  <2>2. PICK k \in Nat : \E nx \in Points(bl, k) : nx.b = e /\ nx.n = 1 /\ nx.from = pt.from
    BY <1>3
  <2> QED
    BY <2>1, <2>2 DEF Brings, CarriedBy
<1> QED
  BY <1>4, <1>5

LEMMA CarryFromStart ==
    ASSUME FTypeOK, phase = "finding", NEW b \in DOMAIN bl, Arrives(b),
           \A d \in defs[b] : Brings(b, d)
    PROVE  Carry(b, 1)
<1>1. Through(bl[b], b, defs[b])[1] = defs[b]
  BY ThroughFacts, GraphFacts DEF FTypeOK
<1>2. ReachedAt(b, 1) # {}
  BY DEF Arrives, ReachedAt
<1>3. ASSUME NEW d \in defs[b]
      PROVE  \E pt \in ReachedAt(b, 1) : CarriedBy(d, pt.from)
  BY DEF Brings, ReachedAt, CarriedBy
<1> QED
  BY <1>1, <1>2, <1>3, Zenon DEF Carry

LEMMA BringsKeeps ==
    ASSUME bl' = bl, NEW b, NEW d
    PROVE  (Brings(b, d) => Brings(b, d)') /\ (Arrives(b) => Arrives(b)')
BY DEF Brings, Arrives

LEMMA ArrivedHolds == FindSpec => [](Arrived /\ NothingInvented)
<1>1. FindInit => Arrived /\ NothingInvented
  BY DEF FindInit, Arrived, NothingInvented
<1>2. FTypeOK /\ Arrived /\ NothingInvented /\ [Begin \/ Find]_<<phase, bl, defs, todo>>
         => (Arrived /\ NothingInvented)'
  <2> SUFFICES ASSUME FTypeOK, Arrived, NothingInvented,
                      [Begin \/ Find]_<<phase, bl, defs, todo>>
               PROVE  (Arrived /\ NothingInvented)'
    OBVIOUS
  <2>1. CASE Begin
    <3>1. bl' = bl /\ todo' = {1}
      BY <2>1 DEF Begin
    <3>2. \A b \in DOMAIN bl : defs'[b] = {}
      BY <2>1 DEF Begin
    <3>3. Arrives(1)
      <4>1. Entry \in Points(bl, 0) /\ Entry.b = 1 /\ Entry.n = 1
        BY PointsNext DEF Entry
      <4> QED
        BY <4>1 DEF Arrives
    <3>4. Arrived'
      BY <3>1, <3>3, BringsKeeps DEF Arrived
    <3>5. NothingInvented'
      BY <3>1, <3>2 DEF NothingInvented
    <3> QED
      BY <3>4, <3>5
  <2>2. CASE Find
    <3>1. PICK b \in todo : TakeBlock(b)
      BY <2>2 DEF Find
    <3>2. phase = "finding" /\ phase' = phase /\ bl' = bl
      BY <2>2 DEF Find
    <3>3. /\ b \in DOMAIN bl
          /\ \A e \in DOMAIN bl : defs'[e] # defs[e] =>
                /\ e \in Successors(bl[b])
                /\ defs'[e] = defs[e] \cup AtEnd(bl[b], b, defs[b])
          /\ todo' \subseteq todo \cup Successors(bl[b])
      BY <3>1, <3>2, TakeFacts
    <3>4. Arrives(b) /\ \A d \in defs[b] : Brings(b, d)
      BY <3>2, <3>3 DEF Arrived, NothingInvented
    <3>5. Carry(b, Len(bl[b].ins) + 1)
      BY <3>2, <3>3, <3>4, CarryFromStart, CarryThrough
    <3>6. ASSUME NEW e \in Successors(bl[b])
          PROVE  Arrives(e) /\ \A d \in AtEnd(bl[b], b, defs[b]) : Brings(e, d)
      BY <3>3, <3>5, CarryAcross
    <3>7. ASSUME NEW e \in todo' PROVE Arrives(e)'
      <4>1. Arrives(e)
        BY <3>2, <3>3, <3>6 DEF Arrived
      <4> QED
        BY <3>2, <4>1, BringsKeeps
    <3>8. ASSUME NEW e \in DOMAIN bl, NEW d \in defs'[e] PROVE Brings(e, d)'
      <4>1. CASE d \in defs[e]
        BY <3>2, <4>1, BringsKeeps DEF NothingInvented
      <4>2. CASE d \notin defs[e]
        <5>1. e \in Successors(bl[b]) /\ d \in AtEnd(bl[b], b, defs[b])
          BY <3>3, <3>8, <4>2
        <5> QED
          BY <3>2, <3>6, <5>1, BringsKeeps
      <4> QED
        BY <4>1, <4>2
    <3>9. Arrived'
      BY <3>7 DEF Arrived
    <3>10. NothingInvented'
      BY <3>2, <3>8 DEF NothingInvented
    <3> QED
      BY <3>9, <3>10
  <2>3. CASE UNCHANGED <<phase, bl, defs, todo>>
    <3>1. bl' = bl /\ phase' = phase /\ defs' = defs /\ todo' = todo
      BY <2>3
    <3>2. Arrived'
      BY <3>1, BringsKeeps DEF Arrived
    <3>3. NothingInvented'
      BY <3>1, BringsKeeps DEF NothingInvented
    <3> QED
      BY <3>2, <3>3
  <2> QED
    BY <2>1, <2>2, <2>3
<1> QED
  BY <1>1, <1>2, TypeHolds, PTL DEF FindSpec

(* At no time has a block a definition that no execution brings it: the    *)
(* pass does not complain of, and does not refuse to fold, for nothing.    *)
THEOREM NothingIsInvented == FindSpec => []NothingInvented
BY ArrivedHolds, PTL

(* What a graph's blocks have in the end is what its executions bring, so  *)
(* the order in which the hash set gave the blocks makes no difference.    *)
THEOREM DefinitionsAreExact == FindSpec => []DefinitionsExact
<1>1. FTypeOK /\ Settled /\ NothingInvented => DefinitionsExact
  <2> SUFFICES ASSUME FTypeOK, Settled, NothingInvented, Complete, EntrySets(bl),
                      ~CopiesItself(bl), \A k \in Nat : Declares(bl, k),
                      NEW b \in DOMAIN bl, NEW v, NEW p, NEW n
               PROVE  <<v, p, n>> \in defs[b] <=> Brings(b, <<v, p, n>>)
    BY DEF DefinitionsExact
  <2>1. ASSUME <<v, p, n>> \in defs[b] PROVE Brings(b, <<v, p, n>>)
    BY <2>1 DEF NothingInvented, Complete
  <2>2. ASSUME Brings(b, <<v, p, n>>) PROVE <<v, p, n>> \in defs[b]
    <3>1. PICK k \in Nat : \E pt \in Points(bl, k) :
             pt.b = b /\ pt.n = 1 /\ v \in DOMAIN pt.from /\ pt.from[v] = <<p, n>>
      BY <2>2 DEF Brings
    <3>2. PICK pt \in Points(bl, k) :
             pt.b = b /\ pt.n = 1 /\ v \in DOMAIN pt.from /\ pt.from[v] = <<p, n>>
      BY <3>1
    <3>3. Covered(pt.from, FoundAt(pt))
      BY <3>2, SeenEverywhere DEF Seen
    <3>4. FoundAt(pt) = defs[b]
      BY <3>2, ThroughFacts, GraphFacts DEF FoundAt, FTypeOK
    <3>5. <<v, pt.from[v][1], pt.from[v][2]>> \in defs[b]
      BY <3>2, <3>3, <3>4 DEF Covered
    <3> QED
      BY <3>2, <3>5
  <2> QED
    BY <2>1, <2>2
<1> QED
  BY <1>1, TypeHolds, SettledHolds, NothingIsInvented, PTL
=============================================================================
