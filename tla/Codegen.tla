------------------------------ MODULE Codegen ------------------------------
(***************************************************************************)
(* The compilation of one function of a contract, from sema's resolution   *)
(* of its body to the optimised control flow graph (generate_cfg and       *)
(* optimize_and_check_cfg of crates/solang/src/codegen/cfg.rs).            *)
(*                                                                         *)
(* The passes are the operators of Solidity, Cfg and Optimiser; this       *)
(* module has their order, their early ends, and the two worklists, whose  *)
(* next block is any block: they are hash sets.                            *)
(***************************************************************************)
EXTENDS Optimiser, Finding

CONSTANTS
    Programs,       \* the bodies that are compiled
    Storages,       \* the storages the results are compared on
    Fuel            \* bound: loop iterations of a compared execution

ASSUME FuelAssumption == Fuel \in Nat

VARIABLES
    program,    \* the body, resolved from Resolve on
    errors,     \* constant folding has reported one
    flow        \* dead_storage's block_vars, <<>> for a block not reached

vars == <<program, phase, bl, defs, errors, flow, todo>>

Init ==
    /\ program \in Programs
    /\ phase = "parsed"
    /\ bl = <<>>
    /\ defs = <<>>
    /\ errors = FALSE
    /\ flow = <<>>
    /\ todo = {}

-----------------------------------------------------------------------------
(* A jump outside of a loop is an error, and nothing is generated.         *)
ResolveBody ==
    LET r == Resolve(program, OuterScope)
    IN  /\ phase = "parsed"
        /\ program' = r.st
        /\ phase' = IF r.ok THEN "resolved" ELSE "rejected"
        /\ UNCHANGED <<bl, defs, errors, flow, todo>>

Generate ==
    /\ phase = "resolved"
    /\ phase' = "generated"
    /\ bl' = FunctionCfg(program)
    /\ UNCHANGED <<program, defs, errors, flow, todo>>

(* reaching_definitions::find, which Finding has.                          *)
StartFind == Begin /\ UNCHANGED <<program, errors, flow>>
FindStep == Find /\ UNCHANGED <<program, errors, flow>>

CheckUndefined ==
    /\ phase = "finding"
    /\ todo = {}
    /\ phase' = IF HasUndefined(bl, defs) THEN "rejected" ELSE "checked"
    /\ UNCHANGED <<program, bl, defs, errors, flow, todo>>

(* An error is a diagnostic; the passes behind it still run.               *)
Fold ==
    LET folded == FoldConstants(bl, defs)
    IN  /\ phase = "checked"
        /\ phase' = "folded"
        /\ bl' = folded.bl
        /\ errors' = folded.err
        /\ UNCHANGED <<program, defs, flow, todo>>

-----------------------------------------------------------------------------
(* dead_storage: every variable is undefined on entry.                     *)
StartStorage ==
    LET unset == {<<v, 0, 0>> : v \in {i.v : i \in UNION {ToSet(bl[b].ins) : b \in DOMAIN bl}}}
    IN  /\ phase = "folded"
        /\ phase' = "storing"
        /\ flow' = [b \in DOMAIN bl |->
                        IF b = 1 THEN <<[vars |-> unset, stores |-> <<>>]>> ELSE <<>>]
        /\ todo' = {1}
        /\ UNCHANGED <<program, bl, defs, errors>>

StorageStep(b, through) ==
    LET out == through[Len(through)]
        old == [flow EXCEPT ![b] = SubSeq(through, 1, Len(through) - 1)]
        again == {e \in Successors(bl[b]) : old[e] = <<>> \/ Differs(old[e][1], out)}
    IN  /\ flow' = [e \in DOMAIN bl |->
                IF e \notin again THEN old[e]
                ELSE IF old[e] = <<>> THEN <<out>>
                ELSE [old[e] EXCEPT ![1] = Merge(@, out)]]
        /\ todo' = (todo \ {b}) \cup again

FindStorage ==
    /\ phase = "storing"
    /\ \E b \in todo : bl[b].ins # <<>> /\ StorageStep(b, StorageFlow(bl, b, flow))
    /\ UNCHANGED <<program, phase, bl, defs, errors>>

(* A block with no instruction ends the compiler: res[0] is out of range.  *)
PanicStorage ==
    /\ phase = "storing"
    /\ \E b \in todo : bl[b].ins = <<>>
    /\ phase' = "panicked"
    /\ UNCHANGED <<program, bl, defs, errors, flow, todo>>

RemoveStorage ==
    /\ phase = "storing"
    /\ todo = {}
    /\ \E low \in BOOLEAN : bl' = RemoveDead(bl, flow, low)
    /\ phase' = "done"
    /\ UNCHANGED <<program, defs, errors, flow, todo>>

Next ==
    \/ ResolveBody
    \/ Generate
    \/ StartFind
    \/ FindStep
    \/ CheckUndefined
    \/ Fold
    \/ StartStorage
    \/ FindStorage
    \/ PanicStorage
    \/ RemoveStorage

Spec == Init /\ [][Next]_vars

(* Nothing waits for anything: a compilation that can go on goes on.  This *)
(* is WF_vars(Next) with ENABLED Next, which is ~Stopped, written out: TLC *)
(* executes the passes fast and is very slow to decide if they are ENABLED.*)
Stopped == phase \in {"rejected", "panicked", "done"}
FairSpec == Spec /\ ([]<>Stopped \/ []<><<Next>>_vars)

(* The same for a compilation that stays with the first worklist.          *)
FairFinding ==
    /\ Spec
    /\ WF_vars(StartFind \/ FindStep)
    /\ []<>(phase \notin {"parsed", "resolved"})
    /\ []<>~(phase = "finding" /\ todo = {})

-----------------------------------------------------------------------------
(* Programs some of the properties do not hold of, each for a reason of    *)
(* its own; the README has the details.                                    *)
RECURSIVE Inside(_)
Inside(st) == {st} \cup UNION {Inside(st.b[n]) : n \in DOMAIN st.b}
RECURSIVE Within(_)
Within(x) == {x} \cup UNION {Within(x.a[k]) : k \in DOMAIN x.a}
Operations(x) == {y.op : y \in Within(x)}

IsLoop(st) == st.s \in {"while", "dowhile", "for", "forever"}
Writes(x) == Operations(x) \cap {"assign", "preinc", "predec", "postinc", "postdec"} # {}

\* a do-while in a loop keeps the jumps of that loop to itself
LeaksScope(st) ==
    \E loop \in {t \in Inside(st) : IsLoop(t)} :
        \E t \in Inside(loop) \ {loop} : t.s = "dowhile"
\* variables set by the condition of a while or for are not tracked
SetsInCondition(st) ==
    \E t \in Inside(st) : t.s \in {"while", "for"} /\ Writes(t.e[1])
\* returning a conditional leaves a tracker behind
SplitsReturn(st) ==
    \E t \in Inside(st) : t.s = "return" /\ t.e[1].op = "cond"
\* `next' is not generated though a continue leads to it
SkipsNext(st) ==
    \E t \in Inside(st) : /\ t.s = "forever" /\ t.e # <<>>
                          /\ ~StmtReachable(t.b[2])
\* a variable that is assigned to itself loses its definitions
CopiesSelf(st) ==
    \E t \in Inside(st) : \E k \in DOMAIN t.e : \E x \in Within(t.e[k]) :
        x.op = "assign" /\ x.a[1] = x.a[2]

\* what is dropped with a local nobody reads does more than assign
RECURSIVE Lost(_)
Lost(x) ==
    IF x.op = "assign" THEN {} ELSE {x.op} \cup UNION {Lost(x.a[k]) : k \in DOMAIN x.a}
Unread(st) == {X, Y} \ ReadBy(st)
DropsEffects(st) ==
    \E t \in Inside(st) : \E x \in ToSet(Dropped(t, Unread(st))) :
        Lost(x) \ {"num", "bool", "var", "slot", "sload", "subscript", "less", "eq", "not"} # {}
\* all a for tests is a local that nobody is known to read
TestsUnread(st) ==
    \E t \in Inside(st) : t.s = "for" /\ Removed(t.e[1], Unread(st))

Leads(st) == ~LeaksScope(st) /\ ~SkipsNext(st)      \* where its jumps should
Plain(st) == Leads(st) /\ ~DropsEffects(st) /\ ~TestsUnread(st)

\* the stores to storage are on every path and not in a loop
Store(i) == i.i \in {"store", "clear", "nop"}       \* a nop was a store
StoresInLine ==
    \A b \in Reachable(bl) :
        (\E n \in DOMAIN bl[b].ins : Store(bl[b].ins[n])) =>
            \A e \in ReachFrom(bl, Successors(bl[b])) :
                e # b /\ Cardinality(Preds(bl, e)) = 1

-----------------------------------------------------------------------------
(* What running the graph shows, against what the source means: the same,  *)
(* for every argument and storage on which the source comes to an end.     *)
RunFuel == 12 * (Fuel + 1) + 12

Agrees(arg, sto) ==
    LET means == Meaning(program, arg, sto, Fuel)
    IN  means = Endless \/ means = Run(bl, arg, sto, RunFuel)

SameMeaning == \A arg \in Value, sto \in Storages : Agrees(arg, sto)

(* The graph of a function does what its statements say, panics included,  *)
(* whatever the nesting of loops, jumps, assignments in expressions and    *)
(* short circuits (statements/mod.rs, expression.rs), every block that can *)
(* be reached ends as successors() asserts (cfg.rs), and the graph is one  *)
(* of those whose definitions are found (reaching_definitions.rs).         *)
GeneratedRight ==
    phase = "generated" /\ Plain(program) =>
        /\ IsGraph(bl)
        /\ \A b \in Reachable(bl) : Asserted(bl[b])
        /\ CopiesSelf(program) \/ WellMade
        /\ SameMeaning

\* block b or one after it reads v before v is set again
RECURSIVE LiveIn(_, _, _)
LiveIn(v, b, seen) ==
    LET ins == bl[b].ins
        reads == {n \in DOMAIN ins : v \in Reads(ins[n])}
        sets == {n \in DOMAIN ins : ins[n].i \in {"set", "load"} /\ ins[n].v = v}
    IN  \/ \E n \in reads : \A k \in sets : n <= k
        \/ /\ sets = {}
           /\ \E e \in Successors(bl[b]) \ seen : LiveIn(v, e, seen \cup {e})

(* Where paths meet, a variable that is still read and was set differently *)
(* on them has a phi node, if no condition of a loop sets a variable and   *)
(* no conditional is returned (vartable.rs, set_phis).                     *)
PhisCover ==
    phase = "finding" /\ todo = {} /\ Leads(program)
            /\ ~SetsInCondition(program) /\ ~SplitsReturn(program) =>
    \A b \in Reachable(bl) : \A v \in {d[1] : d \in defs[b]} \ bl[b].phi :
        LiveIn(v, b, {b}) =>
            \A p, q \in Preds(bl, b) :
                Places(AtEnd(bl[p], p, defs[p]), v) = Places(AtEnd(bl[q], q, defs[q]), v)

(* A program without an error never reads a variable that was declared     *)
(* and not set (undefined_variable.rs).                                    *)
NoUndefinedRead ==
    phase = "checked" /\ ~TestsUnread(program) =>
        \A arg \in Value, sto \in Storages :
            Run(bl, arg, sto, RunFuel).how # "undefined"

(* Constant folding changes nothing that shows: what the definitions that  *)
(* reach a use agree on is the value it has (constant_folding.rs).         *)
FoldingKeeps ==
    phase = "folded" /\ ~errors /\ Plain(program) /\ ~CopiesSelf(program) => SameMeaning

(* Nor does dead storage elimination, if no path merges and no loop closes *)
(* after a store (dead_storage.rs).                                        *)
StorageKeeps ==
    phase = "done" /\ ~errors /\ Plain(program) /\ ~CopiesSelf(program) /\ StoresInLine =>
        SameMeaning

(* The compiler comes to an end: both worklists run dry.                   *)
Compiles == <>Stopped

(* Dead storage elimination changes nothing that shows.                    *)
EliminatesDeadOnly == phase = "done" /\ ~errors /\ Plain(program) => SameMeaning
=============================================================================
