-------------------------------- MODULE Cfg --------------------------------
(***************************************************************************)
(* codegen: from the resolved body of a function to its control flow graph *)
(* (crates/solang/src/codegen: cfg.rs, statements/mod.rs, expression.rs,   *)
(* vartable.rs), and what a graph does when it is run.                     *)
(*                                                                         *)
(* A block is [ins, phi]: its instructions and the variables that get a    *)
(* phi node at its entry.  An instruction is [i, v, e, t]: its kind, the   *)
(* variable it sets, its expressions and the blocks it branches to.  The   *)
(* entry block is 1.  The generator's state is [bl, cur, dirty, loops,     *)
(* next, unread]: the blocks, the current one, the dirty trackers and the  *)
(* loop scopes (both stacks), the next number of the variable table, and   *)
(* the locals sema found no use of.                                        *)
(***************************************************************************)
EXTENDS Solidity, Flow, SequencesExt

Ins(i, v, e, t) == [i |-> i, v |-> v, e |-> e, t |-> t]
SetVar(v, x) == Ins("set", v, <<x>>, <<>>)
LoadStorage(v, addr) == Ins("load", v, <<addr>>, <<>>)
SetStorage(x, addr) == Ins("store", 0, <<x, addr>>, <<>>)
ClearStorage(addr) == Ins("clear", 0, <<addr>>, <<>>)
Branch(b) == Ins("branch", 0, <<>>, <<b>>)
BranchCond(c, yes, no) == Ins("cond", 0, <<c>>, <<yes, no>>)
ReturnIns(x) == Ins("return", 0, <<x>>, <<>>)
Nop == Ins("nop", 0, <<>>, <<>>)

FunctionArg == Ex("arg", 0, <<>>)
Undefined == Ex("undefined", 0, <<>>)
Keccak(slot, x) == Ex("keccak", 0, <<slot, x>>)

-----------------------------------------------------------------------------
(* The variable table: a set variable is dirty in every tracker started    *)
(* after the variable was created.                                         *)
(* Mutant of SetDirty: only the innermost tracker learns of it.            *)
SetDirty_Inner(dirty, v) ==
    IF dirty = <<>> THEN dirty
    ELSE [dirty EXCEPT ![Len(dirty)].set = IF v < dirty[Len(dirty)].lim THEN @ \cup {v} ELSE @]

SetDirty(dirty, v) ==
    [n \in DOMAIN dirty |->
        IF v < dirty[n].lim THEN [dirty[n] EXCEPT !.set = @ \cup {v}] ELSE dirty[n]]

NewTracker(g) == [g EXCEPT !.dirty = Append(@, [lim |-> g.next, set |-> {}])]
DirtySet(g) == g.dirty[Len(g.dirty)].set
PopTracker(g) == [g EXCEPT !.dirty = SubSeq(@, 1, Len(@) - 1)]

Temp(g) == [g EXCEPT !.next = @ + 1]    \* the temporary is g.next

(* The graph under construction.                                           *)
NewBlocks(g, n) == [g EXCEPT !.bl = @ \o [k \in 1 .. n |-> [ins |-> <<>>, phi |-> {}]]]
NewBlock(g, n) == Len(g.bl) + n
In(g, b) == [g EXCEPT !.cur = b]
Add(g, i) ==
    [g EXCEPT !.bl[g.cur].ins = Append(@, i),
              !.dirty = IF i.i = "set" THEN SetDirty(@, i.v) ELSE @]
SetPhis(g, b, vs) == IF vs = {} THEN g ELSE [g EXCEPT !.bl[b].phi = vs]

(* Pops the innermost tracker and gives its variables to the blocks.       *)
PhisAt(g, bs) ==
    FoldLeft(LAMBDA h, b : SetPhis(h, b, DirtySet(g)), PopTracker(g), bs)

(* Mutant of EnterLoop: the arguments are swapped.                         *)
EnterLoop_Swapped(g, break, continue) ==
    [g EXCEPT !.loops = Append(@, [break |-> continue, continue |-> break])]

EnterLoop(g, break, continue) ==
    [g EXCEPT !.loops = Append(@, [break |-> break, continue |-> continue])]
LeaveLoop(g) == [g EXCEPT !.loops = SubSeq(@, 1, Len(@) - 1)]

-----------------------------------------------------------------------------
(* should_remove_variable, should_remove_assignment: nothing is generated  *)
(* for a local that is never read, but for what its right side does.       *)
Removed(l, unread) == l.op = "var" /\ l.v \in unread

(* The right side of a statement nothing is generated for.                 *)
Dropped(st, unread) ==
    CASE st.s = "decl" /\ st.v \in unread -> st.e
      [] st.s = "expr" /\ st.e[1].op = "assign" ->
            IF Removed(st.e[1].a[1], unread) THEN <<st.e[1].a[2]>> ELSE <<>>
      [] OTHER -> <<>>

(* expression(): [x, g], what an expression turns into and the generator   *)
(* after the instructions its side effects need.                           *)
RECURSIVE Expr(_, _)

LoadFrom(addr, g) == [x |-> Var(g.next), g |-> Add(Temp(g), LoadStorage(g.next, addr))]

(* assign_single: a value for storage is first put in a temporary.         *)
AssignTo(l, r, g) ==
    IF l.op = "var" THEN [x |-> l, g |-> Add(g, SetVar(l.v, r))]
    ELSE LET dest == Expr(l, Temp(g))
         IN  [x |-> Var(g.next),
              g |-> Add(Add(dest.g, SetVar(g.next, r)), SetStorage(Var(g.next), dest.x))]

(* The value of a variable or of a place in storage, for ++ and --.        *)
Current(l, g) ==
    LET e == Expr(l, g) IN IF l.op = "var" THEN e ELSE LoadFrom(e.x, e.g)

StepOp(x) == IF x.op \in {"preinc", "postinc"} THEN "add" ELSE "sub"

PreIncDec(x, g) ==
    LET l == x.a[1]
        old == Current(l, Temp(g))
        new == Add(old.g, SetVar(g.next, Ex(StepOp(x), x.v, <<old.x, Num(1)>>)))
        dest == Expr(l, new)
    IN  [x |-> Var(g.next),
         g |-> IF l.op = "var" THEN Add(new, SetVar(l.v, Var(g.next)))
               ELSE Add(dest.g, SetStorage(Var(g.next), dest.x))]

PostIncDec(x, g) ==
    LET l == x.a[1]
        old == Current(l, Temp(g))
        kept == Add(old.g, SetVar(g.next, old.x))
        new == Ex(StepOp(x), x.v, <<Var(g.next), Num(1)>>)
        dest == Expr(l, kept)
        put == Add(Temp(dest.g), SetVar(dest.g.next, new))
    IN  [x |-> Var(g.next),
         g |-> IF l.op = "var" THEN Add(kept, SetVar(l.v, new))
               ELSE Add(put, SetStorage(Var(dest.g.next), dest.x))]

(* && and ||: the right side is evaluated in a block of its own.           *)
ShortCircuit(x, g) ==
    LET right(l) == NewBlock(l.g, 1)
        end(l) == NewBlock(l.g, 2)
        Start(l) == Add(NewBlocks(NewTracker(Temp(l.g)), 2),
                        SetVar(l.g.next, Bool(Truth(x.op = "or"))))
        Split(l) == Add(Start(l), IF x.op = "or" THEN BranchCond(l.x, end(l), right(l))
                                  ELSE BranchCond(l.x, right(l), end(l)))
        Done(l, r) == Add(Add(r.g, SetVar(l.g.next, r.x)), Branch(end(l)))
        Both(l) == [x |-> Var(l.g.next),
                    g |-> PhisAt(In(Done(l, Expr(x.a[2], In(Split(l), right(l)))), end(l)),
                                 <<end(l)>>)]
    IN  Both(Expr(x.a[1], g))

Conditional(x, g) ==
    LET Put(o, pos, done) == Add(Add(o.g, SetVar(pos, o.x)), Branch(done))
        Option(n, h, b, c) ==
            Put(Expr(x.a[n], In(h, b)), c.g.next, NewBlock(c.g, 3))
        Split(c) == Add(NewBlocks(NewTracker(Temp(c.g)), 3),
                        BranchCond(c.x, NewBlock(c.g, 1), NewBlock(c.g, 2)))
        Both(c) == Option(3, Option(2, Split(c), NewBlock(c.g, 1), c), NewBlock(c.g, 2), c)
        Join(c) == [x |-> Var(c.g.next),
                    g |-> PhisAt(In(Both(c), NewBlock(c.g, 3)), <<NewBlock(c.g, 3)>>)]
    IN  Join(Expr(x.a[1], g))

Expr(x, g) ==
    LET one == Expr(x.a[1], g)
        two == Expr(x.a[2], one.g)
    IN  CASE x.op \in {"num", "bool", "var", "slot"} -> [x |-> x, g |-> g]
          [] x.op = "not" -> [x |-> Ex("not", 0, <<one.x>>), g |-> one.g]
          [] x.op \in Arithmetic -> [x |-> Ex(x.op, x.v, <<one.x, two.x>>), g |-> two.g]
          [] x.op = "subscript" -> [x |-> Keccak(one.x, two.x), g |-> two.g]
          [] x.op = "sload" -> LoadFrom(one.x, one.g)
          [] x.op = "assign" ->
                LET r == Expr(x.a[2], g)
                IN  IF Removed(x.a[1], g.unread) THEN r ELSE AssignTo(x.a[1], r.x, r.g)
          [] x.op \in {"preinc", "predec"} -> PreIncDec(x, g)
          [] x.op \in {"postinc", "postdec"} -> PostIncDec(x, g)
          [] x.op \in {"and", "or"} -> ShortCircuit(x, g)
          [] x.op = "cond" -> Conditional(x, g)

(* process_side_effects_expressions: of what is removed the assignments    *)
(* stay, wherever they are in it.                                          *)
RECURSIVE SideEffects(_, _)
SideEffects(x, g) ==
    IF x.op = "assign" THEN Expr(x, g).g
    ELSE FoldLeft(LAMBDA h, y : SideEffects(y, h), g, x.a)

-----------------------------------------------------------------------------
(* statement(): the generator after a statement.                           *)
RECURSIVE Stmt(_, _)

(* The statements of a block, up to the first that is not followed.        *)
RECURSIVE Stmts(_, _)
Stmts(ss, g) ==
    IF ss = <<>> THEN g
    ELSE IF StmtReachable(Head(ss)) THEN Stmts(Tail(ss), Stmt(Head(ss), g))
    ELSE Stmt(Head(ss), g)

(* A nested statement, then the branch to where it leads if it ends.       *)
Nested(st, g, to) ==
    IF StmtReachable(st) THEN Add(Stmt(st, g), Branch(to)) ELSE Stmt(st, g)

(* An if, after its condition c.                                           *)
IfStmt(st, c) ==
    LET then == NewBlock(c.g, 1)
        else == NewBlock(c.g, 2)                \* or endif, without an else
        endif == NewBlock(c.g, Len(st.b) + 1)
        split == Add(NewBlocks(c.g, Len(st.b) + 1), BranchCond(c.x, then, else))
        first == Nested(st.b[1], NewTracker(In(split, then)), endif)
        both == IF Len(st.b) = 1 THEN first ELSE Nested(st.b[2], In(first, else), endif)
    IN  PhisAt(In(both, endif), <<endif>>)

(* The scope of the loop is entered and never left.                        *)
DoWhileStmt(st, g) ==
    LET body == NewBlock(g, 1)
        cond == NewBlock(g, 2)
        end == NewBlock(g, 3)
        start == NewTracker(In(Add(NewBlocks(g, 3), Branch(body)), body))
        once == Nested(st.b[1], EnterLoop(start, end, cond), cond)
        After(test) == Add(test.g, BranchCond(test.x, body, end))
    IN  PhisAt(In(After(Expr(st.e[1], In(once, cond))), end), <<end, body, cond>>)

(* The condition is generated before the tracker is started.               *)
WhileStmt(st, g) ==
    LET cond == NewBlock(g, 1)
        body == NewBlock(g, 2)
        end == NewBlock(g, 3)
        Split(test) == NewTracker(In(Add(test.g, BranchCond(test.x, body, end)), body))
        split == Split(Expr(st.e[1], In(Add(NewBlocks(g, 3), Branch(cond)), cond)))
        once == LeaveLoop(Nested(st.b[1], EnterLoop(split, end, cond), cond))
    IN  PhisAt(In(once, end), <<end, cond>>)

ForStmt(st, g) ==
    LET body == NewBlock(g, 1)
        cond == NewBlock(g, 2)
        next == NewBlock(g, 3)
        end == NewBlock(g, 4)
        init == Stmt(st.b[1], NewBlocks(g, 4))
        Split(test) == In(Add(test.g, BranchCond(test.x, body, end)), body)
        split == Split(Expr(st.e[1], In(Add(init, Branch(cond)), cond)))
        once == LeaveLoop(Nested(st.b[2], NewTracker(EnterLoop(split, end, next)), next))
        step == IF Len(st.e) = 1 THEN In(once, next) ELSE Expr(st.e[2], In(once, next)).g
        done == In(Add(step, Branch(cond)), end)
    IN  PhisAt(done, <<next, end, cond>>)

(* A for without a condition: the block of `next' is filled only if the    *)
(* end of the body is reachable.                                           *)
ForeverStmt(st, g) ==
    LET body == NewBlock(g, 1)
        next == NewBlock(g, 2)
        end == NewBlock(g, 3)
        start == In(Add(Stmt(st.b[1], NewBlocks(g, 3)), Branch(body)), body)
        scope == EnterLoop(start, end, IF st.e = <<>> THEN body ELSE next)
        once == LeaveLoop(Nested(st.b[2], NewTracker(scope), next))
        step == IF st.e = <<>> THEN In(once, next) ELSE Expr(st.e[1], In(once, next)).g
        done == IF StmtReachable(st.b[2]) THEN Add(step, Branch(body)) ELSE once
    IN  PhisAt(In(done, end), <<next, body, end>>)

(* returns(): a conditional is returned from a block of each option.  The  *)
(* tracker started here is not popped.                                     *)
RECURSIVE ReturnStmt(_, _)
ReturnStmt(x, g) ==
    IF x.op = "cond"
    THEN LET Split(c) == NewTracker(Add(NewBlocks(c.g, 2),
                            BranchCond(c.x, NewBlock(c.g, 1), NewBlock(c.g, 2))))
             Both(split) == ReturnStmt(x.a[3],
                 In(ReturnStmt(x.a[2], In(split, Len(split.bl) - 1)), Len(split.bl)))
         IN  Both(Split(Expr(x.a[1], g)))
    ELSE LET e == Expr(x, g) IN Add(e.g, ReturnIns(e.x))

Stmt(st, g) ==
    LET scope == g.loops[Len(g.loops)]
        After(value) ==     \* the statements that begin with an expression
            CASE st.s = "decl" -> Add(value.g, SetVar(st.v, value.x))
              [] st.s = "expr" -> value.g
              [] st.s = "delete" -> Add(value.g, ClearStorage(value.x))
              [] st.s = "if" -> IfStmt(st, value)
        dropped == Dropped(st, g.unread)
    IN  CASE st.s = "block" -> Stmts(st.b, g)
          [] dropped # <<>> -> SideEffects(dropped[1], g)
          [] st.s = "decl" /\ st.e = <<>> ->
                IF st.v \in g.unread THEN g ELSE Add(g, SetVar(st.v, Undefined))
          [] st.s = "return" -> ReturnStmt(st.e[1], g)
          [] st.s = "break" -> Add(g, Branch(scope.break))
          [] st.s = "continue" -> Add(g, Branch(scope.continue))
          [] st.s = "dowhile" -> DoWhileStmt(st, g)
          [] st.s = "while" -> WhileStmt(st, g)
          [] st.s = "for" -> ForStmt(st, g)
          [] st.s = "forever" -> ForeverStmt(st, g)
          [] OTHER -> After(Expr(st.e[1], g))

(* function_cfg: the argument and the named return are set, the body       *)
(* follows, and a return if its end is reachable.                          *)
Arguments(g) == Add(g, SetVar(P, FunctionArg))
NamedReturns(g) == Add(g, SetVar(R, Num(0)))

FunctionCfg(body) ==
    LET entry == [bl |-> <<[ins |-> <<>>, phi |-> {}]>>, cur |-> 1, dirty |-> <<>>,
                  loops |-> <<>>, next |-> FirstTemp, unread |-> {X, Y} \ ReadBy(body)]
        g == Stmt(body, NamedReturns(Arguments(entry)))
    IN  (IF StmtReachable(body) THEN Add(g, ReturnIns(Var(R))) ELSE g).bl

-----------------------------------------------------------------------------
(* What successors() asserts of each block: its last instruction and no    *)
(* other ends it.                                                          *)
Terminators == {"branch", "cond", "return"}
Ends(i) == i.i \in Terminators

Asserted(block) == \A n \in DOMAIN block.ins : Ends(block.ins[n]) <=> n = Len(block.ins)

RECURSIVE ReachFrom(_, _)
ReachFrom(bl, seen) ==
    LET more == UNION {Successors(bl[b]) : b \in seen}
    IN  IF more \subseteq seen THEN seen ELSE ReachFrom(bl, seen \cup more)
Reachable(bl) == ReachFrom(bl, {1})
Preds(bl, b) == {p \in Reachable(bl) : b \in Successors(bl[p])}

-----------------------------------------------------------------------------
(* Running a graph (the LLVM code the emitter makes of it): an expression  *)
(* is evaluated where it stands, from the variables as they are.           *)
RECURSIVE ValueOf(_, _)
ValueOf(x, env) ==
    LET one == ValueOf(x.a[1], env)
        two == ValueOf(x.a[2], env)
    IN  CASE x.op \in {"num", "bool"} -> x.v
          [] x.op = "var" -> IF x.v \in DOMAIN env THEN env[x.v] ELSE Unset
          [] x.op = "arg" -> env[0]
          [] x.op = "undefined" -> Unset
          [] x.op = "slot" -> <<x.v>>
          [] x.op \in {"keccak", "hash"} -> <<x.a[1].v, two>>
          [] x.op = "not" -> IF one < 0 THEN one ELSE 1 - one
          [] x.op \in Arithmetic ->
                IF one < 0 THEN one ELSE IF two < 0 THEN two ELSE Arith(x.op, x.v, one, two)

(* One instruction of a run: its value is known, or the run panics.        *)
Execute(i, m) ==
    LET Go(v, n) == IF v = Trap THEN [m EXCEPT !.k = "trap"]
                    ELSE IF v = Unset /\ i.e[1].op # "undefined"
                    THEN [m EXCEPT !.k = "undefined"] ELSE n
        Do2(x, addr) ==
            CASE i.i = "set" -> Go(x, [m EXCEPT !.env = (i.v :> x) @@ @])
              [] i.i = "load" -> [m EXCEPT !.env = (i.v :> m.sto[addr]) @@ @]
              [] i.i = "store" -> Go(x, [m EXCEPT !.sto[addr] = x])
              [] i.i = "clear" -> [m EXCEPT !.sto[addr] = 0]
              [] i.i = "branch" -> [m EXCEPT !.to = i.t[1]]
              [] i.i = "cond" -> Go(x, [m EXCEPT !.to = i.t[IF x = 1 THEN 1 ELSE 2]])
              [] i.i = "return" -> Go(x, [m EXCEPT !.k = "return", !.ret = x])
    IN  IF m.k # "go" \/ i.i = "nop" THEN m
        ELSE Do2(ValueOf(i.e[1], m.env), ValueOf(i.e[Len(i.e)], m.env))

(* The instructions of a block one after the other, then the next block.   *)
RECURSIVE RunBlocks(_, _)
RunBlocks(bl, m) ==
    LET end == FoldLeft(LAMBDA n, i : Execute(i, n), [m EXCEPT !.to = 0], bl[m.to].ins)
    IN  IF end.k # "go" THEN end
        ELSE IF end.to = 0 THEN [end EXCEPT !.k = "stuck"]
        ELSE IF end.fuel = 0 THEN [end EXCEPT !.k = "endless"]
        ELSE RunBlocks(bl, [end EXCEPT !.fuel = @ - 1])

Run(bl, arg, sto, fuel) ==
    LET end == RunBlocks(bl, [env |-> (0 :> arg), sto |-> sto, k |-> "go", ret |-> 0,
                              to |-> 1, fuel |-> fuel])
    IN  CASE end.k = "return" -> Returns(end.ret, end.sto)
          [] end.k = "trap" -> Panics
          [] end.k = "endless" -> Endless
          [] OTHER -> [how |-> end.k, ret |-> 0, sto |-> <<>>]
=============================================================================
