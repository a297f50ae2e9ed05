-------------------------------- MODULE Flow --------------------------------
(***************************************************************************)
(* The definitions that flow through the blocks of a control flow graph    *)
(* (instr_transfers and apply_transfers of reaching_definitions.rs), and   *)
(* the executions they stand for.                                          *)
(*                                                                         *)
(* A graph is a sequence of blocks, 1 the entry; a block has instructions  *)
(* [i, v, e, t]: kind, variable that is set, expressions, blocks branched  *)
(* to.  A place is <<block, instruction>>.  A definition that reaches a    *)
(* point is <<variable, block, instruction>>: the places of a variable are *)
(* the instructions that may have given it its value.                      *)
(***************************************************************************)
EXTENDS Integers, Sequences

At2(bl, d) == bl[d[2]].ins[d[3]]                \* the instruction of a definition
Of(ds, v) == {d \in ds : d[1] = v}
Places(ds, v) == {<<d[2], d[3]>> : d \in Of(ds, v)}
Kill(ds, v) == ds \ Of(ds, v)
Copy(ds, v, src) == ds \cup {<<v, p[1], p[2]>> : p \in Places(ds, src)}

Assigns(i) == i.i \in {"set", "load"}
Copies(i) == i.i = "set" /\ i.e[1].op = "var"   \* from the variable i.e[1].v

(* The Kill, Copy and Gen of an instruction.                               *)
Transfer(i, b, n, ds) ==
    CASE Copies(i) -> Copy(Kill(ds, i.v), i.v, i.e[1].v)
      [] Assigns(i) /\ ~Copies(i) -> Kill(ds, i.v) \cup {<<i.v, b, n>>}
      [] OTHER -> ds

(* The definitions before each instruction of a block and at its end.      *)
Through(block, b, ds) ==
    LET Before[n \in 1 .. Len(block.ins) + 1] ==
            IF n = 1 THEN ds
            ELSE Transfer(block.ins[n - 1], b, n - 1, Before[n - 1])
    IN  Before
AtEnd(block, b, ds) == Through(block, b, ds)[Len(block.ins) + 1]

(* The declaration of a variable without a value.                          *)
DefinesNothing(i) == i.i = "set" /\ i.e[1].op = "undefined"

-----------------------------------------------------------------------------
(* The blocks after a block.                                               *)
Successors(block) ==
    UNION {{block.ins[n].t[k] : k \in DOMAIN block.ins[n].t} : n \in DOMAIN block.ins}

IsGraph(g) ==
    /\ Len(g) \in Nat \ {0} /\ DOMAIN g = 1 .. Len(g)
    /\ \A b \in DOMAIN g :
          /\ Len(g[b].ins) \in Nat /\ DOMAIN g[b].ins = 1 .. Len(g[b].ins)
          /\ Successors(g[b]) \subseteq DOMAIN g

-----------------------------------------------------------------------------
(* The executions of a graph.  One is at a point: before an instruction,   *)
(* or at the end of a block, where `from' has the place that gave each     *)
(* variable its value.  A copy has the place of what it copies.            *)
Bound(from, v, p) == [u \in DOMAIN from \cup {v} |-> IF u = v THEN p ELSE from[u]]
Unbound(from, v) == [u \in DOMAIN from \ {v} |-> from[u]]

CopiesUnset(i, from) == Copies(i) /\ i.e[1].v \notin DOMAIN from

Carried(i, p, from) ==
    IF CopiesUnset(i, from) THEN Unbound(from, i.v)
    ELSE IF Copies(i) THEN Bound(from, i.v, from[i.e[1].v])
    ELSE IF Assigns(i) THEN Bound(from, i.v, p)
    ELSE from

Entry == [b |-> 1, n |-> 1, from |-> <<>>]

Onward(g, pt) ==
    LET ins == g[pt.b].ins
    IN  IF pt.n \in DOMAIN ins
        THEN {[b |-> pt.b, n |-> pt.n + 1,
               from |-> Carried(ins[pt.n], <<pt.b, pt.n>>, pt.from)]}
        ELSE {[b |-> e, n |-> 1, from |-> pt.from] : e \in Successors(g[pt.b])}

(* The points executions come to in up to k steps.                         *)
Points(g, k) ==
    LET Upto[n \in 0 .. k] ==
            IF n = 0 THEN {Entry}
            ELSE LET before == Upto[n - 1]
                 IN  before \cup UNION {Onward(g, pt) : pt \in before}
    IN  Upto[k]

-----------------------------------------------------------------------------
(* What the generator sees to: the entry sets a variable, and none is      *)
(* copied before it was set.  What it does not: x = x copies a variable to *)
(* itself.                                                                 *)
EntrySets(g) == \E n \in DOMAIN g[1].ins : Assigns(g[1].ins[n])

Declares(g, k) ==
    \A pt \in Points(g, k) :
        pt.n \in DOMAIN g[pt.b].ins => ~CopiesUnset(g[pt.b].ins[pt.n], pt.from)

CopiesItself(g) ==
    \E b \in DOMAIN g : \E n \in DOMAIN g[b].ins :
        Copies(g[b].ins[n]) /\ g[b].ins[n].e[1].v = g[b].ins[n].v
=============================================================================
