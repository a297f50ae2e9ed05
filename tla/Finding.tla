------------------------------ MODULE Finding ------------------------------
(***************************************************************************)
(* reaching_definitions::find: the definitions that reach each block of a  *)
(* graph.  The worklist is a hash set, so the next block is any block.     *)
(***************************************************************************)
EXTENDS Flow

CONSTANT Steps              \* how long the executions are that it is about

ASSUME StepsAssumption == Steps \in Nat

VARIABLES
    phase,      \* how far the compilation is
    bl,         \* the blocks of the graph
    defs,       \* the definitions that reach each block
    todo        \* the blocks the worklist has left

(* From the entry block.                                                   *)
Begin ==
    /\ phase = "generated"
    /\ phase' = "finding"
    /\ defs' = [b \in DOMAIN bl |-> {}]
    /\ todo' = {1}
    /\ bl' = bl

(* Mutant of Differs: the edge is followed only the first time.            *)
Differs_Once(here, in) == here = {}

Differs(here, in) == here # in

(* Mutant of TakeBlock: what flows in replaces what is there.              *)
TakeBlock_Replaces(b) ==
    LET out == AtEnd(bl[b], b, defs[b])
        again == {e \in Successors(bl[b]) : Differs(defs[e], out)}
    IN  /\ defs' = [e \in DOMAIN bl |-> IF e \in again THEN out ELSE defs[e]]
        /\ todo' = (todo \ {b}) \cup again

(* A block whose definitions differ from what flows in gets what flows in, *)
(* and is to be done again.                                                *)
TakeBlock(b) ==
    LET out == AtEnd(bl[b], b, defs[b])
        again == {e \in Successors(bl[b]) : Differs(defs[e], out)}
    IN  /\ defs' = [e \in DOMAIN bl |-> IF e \in again THEN defs[e] \cup out ELSE defs[e]]
        /\ todo' = (todo \ {b}) \cup again

Find ==
    /\ phase = "finding"
    /\ \E b \in todo : TakeBlock(b)
    /\ UNCHANGED <<phase, bl>>

(* The pass by itself, on any graph.                                       *)
FindInit ==
    /\ phase = "generated"
    /\ IsGraph(bl)
    /\ defs = <<>>
    /\ todo = {}

FindSpec == FindInit /\ [][Begin \/ Find]_<<phase, bl, defs, todo>>

-----------------------------------------------------------------------------
Complete == phase = "finding" /\ todo = {}

(* What the generator sees to, and what it does not: x = x.                *)
WellMade == EntrySets(bl) /\ Declares(bl, Steps) /\ ~CopiesItself(bl)

(* The definitions found for a point.                                      *)
FoundAt(pt) == Through(bl[pt.b], pt.b, defs[pt.b])[pt.n]

(* Wherever an execution of the graph may get, through loops and jumps and *)
(* in whatever order the worklist took the blocks, what gave a variable    *)
(* its value is among the definitions found for that point.                *)
NothingMissed ==
    Complete /\ WellMade =>
        \A pt \in Points(bl, Steps) : \A v \in DOMAIN pt.from :
            <<v, pt.from[v][1], pt.from[v][2]>> \in FoundAt(pt)

(* A variable whose value comes from a declaration without one is one the  *)
(* check for undefined variables (undefined_variable.rs) complains of.     *)
UndefinedSeen ==
    Complete /\ WellMade =>
        \A pt \in Points(bl, Steps) : \A v \in DOMAIN pt.from :
            DefinesNothing(bl[pt.from[v][1]].ins[pt.from[v][2]]) =>
                \E d \in Of(FoundAt(pt), v) : DefinesNothing(At2(bl, d))

(* Where all definitions of a variable set it to the same literal it was   *)
(* set to that literal, so constant folding (constant_folding.rs) may put  *)
(* the literal in its place.                                               *)
SetsTo(i, x) == i.i = "set" /\ i.e[1] = x

LiteralsAgree ==
    Complete /\ WellMade =>
        \A pt \in Points(bl, Steps) : \A v \in DOMAIN pt.from : \A x :
            (\A d \in Of(FoundAt(pt), v) : SetsTo(At2(bl, d), x)) =>
                SetsTo(bl[pt.from[v][1]].ins[pt.from[v][2]], x)

(* Some execution brings a definition to a block.                          *)
Brings(b, d) ==
    \E k \in Nat : \E pt \in Points(bl, k) :
        /\ pt.b = b /\ pt.n = 1
        /\ d[1] \in DOMAIN pt.from /\ pt.from[d[1]] = <<d[2], d[3]>>

(* Nothing is found that no execution brings, at any time, in any graph.   *)
NothingInvented ==
    phase = "finding" => \A b \in DOMAIN bl : \A d \in defs[b] : Brings(b, d)

(* What is found in the end does not depend on the order of the blocks.    *)
DefinitionsExact ==
    Complete /\ EntrySets(bl) /\ ~CopiesItself(bl) /\ (\A k \in Nat : Declares(bl, k)) =>
        \A b \in DOMAIN bl : \A v, p, n :
            <<v, p, n>> \in defs[b] <=> Brings(b, <<v, p, n>>)
=============================================================================
