------------------------------ MODULE Solidity ------------------------------
(***************************************************************************)
(* The part of Solidity the compiler's model is about: the statements of a *)
(* function over one integer type, their resolution by sema, and the       *)
(* reference semantics the generated code is compared with.                *)
(*                                                                         *)
(* An expression is [op, v, a]: an operation, a literal, variable or slot  *)
(* (for an arithmetic operation, 1 if unchecked), and its operands.  A     *)
(* statement is [s, v, e, b, r]: its kind, the variable a declaration      *)
(* declares, its expressions, the statements in it, and the `reachable'    *)
(* flag sema stores in it.  Booleans are the integers 0 and 1.             *)
(***************************************************************************)
EXTENDS Integers, Sequences

CONSTANT Width              \* values are 0 .. Width - 1

ASSUME WidthAssumption == Width \in Nat \ {0}

Value == 0 .. Width - 1
Trap == -1                  \* the value of an expression that panics
Unset == -2                 \* the value of Expression::Undefined

(* Variables: the parameter, the named return, two locals.  The variable   *)
(* table hands out the numbers from FirstTemp on.                          *)
P == 1
R == 2
X == 3
Y == 4
FirstTemp == 5

(* Storage: the slots of two integers and of a mapping.  An address is a   *)
(* slot, or the hash of a slot and an index, which has no collisions here. *)
Slots == 0 .. 1
MapSlot == 2
Addresses == {<<n>> : n \in Slots} \cup {<<MapSlot, v>> : v \in Value}

-----------------------------------------------------------------------------
Ex(op, v, a) == [op |-> op, v |-> v, a |-> a]
Num(n) == Ex("num", n, <<>>)
Bool(n) == Ex("bool", n, <<>>)
Var(n) == Ex("var", n, <<>>)
Slot(n) == Ex("slot", n, <<>>)
Bin(op, l, r) == Ex(op, 0, <<l, r>>)
Wrap(op, l, r) == Ex(op, 1, <<l, r>>)       \* in an unchecked block
At(x) == Bin("subscript", Slot(MapSlot), x)
Load(addr) == Ex("sload", 0, <<addr>>)
Assign(l, r) == Bin("assign", l, r)
Cond(c, l, r) == Ex("cond", 0, <<c, l, r>>)
Step(op, x) == Ex(op, 0, <<x>>)             \* ++ and --

St(s, v, e, b) == [s |-> s, v |-> v, e |-> e, b |-> b, r |-> TRUE]
Block(ss) == St("block", 0, <<>>, ss)
Decl(v, init) == St("decl", v, init, <<>>)
Do(x) == St("expr", 0, <<x>>, <<>>)
Set(v, x) == Do(Assign(Var(v), x))
Return(x) == St("return", 0, <<x>>, <<>>)
Jump(s) == St(s, 0, <<>>, <<>>)
If(c, then) == St("if", 0, <<c>>, <<then>>)
IfElse(c, then, else) == St("if", 0, <<c>>, <<then, else>>)
While(c, body) == St("while", 0, <<c>>, <<body>>)
DoWhile(body, c) == St("dowhile", 0, <<c>>, <<body>>)
For(init, c, next, body) == St("for", 0, <<c, next>>, <<init, body>>)
Forever(next, body) == St("forever", 0, next, <<Block(<<>>), body>>)
Delete(addr) == St("delete", 0, <<addr>>, <<>>)

-----------------------------------------------------------------------------
(* sema: what a statement resolves to, whether the next one is reachable,  *)
(* the loop scopes with the breaks and continues counted so far, and       *)
(* whether there was no error.                                             *)
OuterScope == <<>>
NewScope == [breaks |-> 0, continues |-> 0]

Flagged(st, b, reach) == [st EXCEPT !.b = b, !.r = reach]

(* Mutant of EndlessLeft: its breaks are forgotten.                        *)
EndlessLeft_Never(scope) == FALSE

(* A for without a condition is left by its breaks only.                   *)
EndlessLeft(scope) == scope.breaks > 0

RECURSIVE Resolve(_, _)
Resolve(st, scopes) ==
    LET loops == Append(scopes, NewScope)
        Inner(n) == Resolve(st.b[n], loops)
        Result(b, reach, sc, ok) ==
            [st |-> Flagged(st, b, reach), reach |-> reach, sc |-> sc, ok |-> ok]
        Count(f) == [scopes EXCEPT ![Len(scopes)] = [@ EXCEPT ![f] = @ + 1]]
        All[n \in 0 .. Len(st.b)] ==
            IF n = 0
            THEN [b |-> <<>>, reach |-> TRUE, some |-> FALSE, sc |-> scopes, ok |-> TRUE]
            ELSE LET before == All[n - 1]
                     this == Resolve(st.b[n], before.sc)
                 IN  [b |-> Append(before.b, this.st), reach |-> this.reach,
                      some |-> before.some \/ this.reach, sc |-> this.sc,
                      ok |-> before.ok /\ this.ok]
        all == All[Len(st.b)]
    IN  CASE st.s = "block" -> Result(all.b, all.reach, all.sc, all.ok)
          [] st.s = "if" -> Result(all.b, all.some \/ Len(st.b) = 1, all.sc, all.ok)
          [] st.s \in {"while", "dowhile"} ->
                Result(<<Inner(1).st>>, TRUE, scopes, Inner(1).ok)
          [] st.s = "forever" ->
                Result(<<st.b[1], Inner(2).st>>,
                       EndlessLeft(Inner(2).sc[Len(loops)]), scopes, Inner(2).ok)
          [] st.s = "for" ->
                LET body == Inner(2)
                    next == body.reach \/ body.sc[Len(loops)].continues > 0
                    kept == IF next THEN st ELSE [st EXCEPT !.e = <<st.e[1]>>]
                IN  [Result(<<st.b[1], body.st>>, TRUE, scopes, body.ok)
                        EXCEPT !.st = Flagged(kept, <<st.b[1], body.st>>, TRUE)]
          [] st.s = "break" -> 
                IF scopes = OuterScope THEN Result(<<>>, FALSE, scopes, FALSE)
                ELSE Result(<<>>, FALSE, Count("breaks"), TRUE)
          [] st.s = "continue" ->
                IF scopes = OuterScope THEN Result(<<>>, FALSE, scopes, FALSE)
                ELSE Result(<<>>, FALSE, Count("continues"), TRUE)
          [] st.s = "return" -> Result(<<>>, FALSE, scopes, TRUE)
          [] OTHER -> Result(<<>>, TRUE, scopes, TRUE)

(* Statement::reachable: may the statement after this one be executed.     *)
RECURSIVE StmtReachable(_)
StmtReachable(st) ==
    CASE st.s = "block" -> \A n \in DOMAIN st.b : StmtReachable(st.b[n])
      [] st.s \in {"break", "continue", "return"} -> FALSE
      [] OTHER -> st.r

(* used_variable: the locals a statement reads.  An assignment does not    *)
(* read what it assigns to; nobody marks what is all of the condition of a *)
(* for.                                                                    *)
RECURSIVE UsedIn(_), ReadBy(_)
UsedIn(x) ==
    CASE x.op = "var" -> {x.v}
      [] x.op = "assign" /\ x.a[1].op = "var" -> UsedIn(x.a[2])
      [] OTHER -> UNION {UsedIn(x.a[k]) : k \in DOMAIN x.a}

ReadBy(st) ==
    LET Marks(k) == IF st.e[k].op # "var" \/ st.s \notin {"for", "expr"} THEN UsedIn(st.e[k])
                    ELSE {}
    IN  UNION ({Marks(k) : k \in DOMAIN st.e} \cup {ReadBy(st.b[n]) : n \in DOMAIN st.b})

-----------------------------------------------------------------------------
(* Arithmetic on values: checked operations panic where the mathematical   *)
(* result does not fit, unchecked ones wrap, a division by zero panics.    *)
Truth(b) == IF b THEN 1 ELSE 0

Fits(n, unchecked) ==
    IF unchecked = 1 THEN n % Width ELSE IF n \in Value THEN n ELSE Trap

Arith(op, unchecked, x, y) ==
    CASE op = "add" -> Fits(x + y, unchecked)
      [] op = "sub" -> Fits(x - y, unchecked)
      [] op = "mul" -> Fits(x * y, unchecked)
      [] op = "div" -> IF y = 0 THEN Trap ELSE x \div y
      [] op = "mod" -> IF y = 0 THEN Trap ELSE x % y
      [] op = "less" -> Truth(x < y)
      [] op = "eq" -> Truth(x = y)

Arithmetic == {"add", "sub", "mul", "div", "mod", "less", "eq"}

-----------------------------------------------------------------------------
(* The reference semantics.  A state has the variables, the storage, how   *)
(* execution goes on ("go", or the jump or end under way), the returned    *)
(* value and the loop iterations left before a run counts as endless.      *)
Ended(m, how) == [m EXCEPT !.k = how]

RECURSIVE Eval(_, _), Addr(_, _)
Eval(x, m) ==
    IF m.k # "go" THEN [v |-> 0, m |-> m]
    ELSE LET one == Eval(x.a[1], m)
             two == Eval(x.a[2], one.m)
             Gives(v, n) == IF v = Trap THEN [v |-> 0, m |-> Ended(n, "trap")]
                            ELSE [v |-> v, m |-> n]
             Read(l, n) == IF l.op = "var" /\ n.env[l.v] = Unset
                           THEN [v |-> 0, m |-> Ended(n, "undefined")]
                           ELSE IF l.op = "var" THEN [v |-> n.env[l.v], m |-> n]
                           ELSE LET addr == Addr(l, n)
                                IN  [v |-> n.sto[addr.v], m |-> addr.m]
             Write(l, r) == IF r.m.k # "go" THEN r
                            ELSE IF l.op = "var"
                            THEN [r EXCEPT !.m.env[l.v] = r.v]
                            ELSE LET addr == Addr(l, r.m)
                                 IN  [v |-> r.v, m |-> [addr.m EXCEPT !.sto[addr.v] = r.v]]
             Stepped(op, old) == Gives(Arith(op, x.v, old.v, 1), old.m)
         IN  CASE x.op \in {"num", "bool"} -> [v |-> x.v, m |-> m]
               [] x.op = "var" -> Read(x, m)
               [] x.op = "sload" -> Read(x.a[1], m)
               [] x.op = "assign" -> Write(x.a[1], Eval(x.a[2], m))
               [] x.op = "not" -> [v |-> 1 - one.v, m |-> one.m]
               [] x.op = "preinc" -> Write(x.a[1], Stepped("add", Read(x.a[1], m)))
               [] x.op = "predec" -> Write(x.a[1], Stepped("sub", Read(x.a[1], m)))
               [] x.op = "postinc" ->
                    LET old == Read(x.a[1], m)
                    IN  [v |-> old.v, m |-> Write(x.a[1], Stepped("add", old)).m]
               [] x.op = "postdec" ->
                    LET old == Read(x.a[1], m)
                    IN  [v |-> old.v, m |-> Write(x.a[1], Stepped("sub", old)).m]
               [] x.op = "and" -> IF one.v = 0 THEN one ELSE two
               [] x.op = "or" -> IF one.v = 1 THEN one ELSE two
               [] x.op = "cond" -> Eval(x.a[IF one.v = 1 THEN 2 ELSE 3], one.m)
               [] x.op \in Arithmetic ->
                    IF two.m.k # "go" THEN two
                    ELSE Gives(Arith(x.op, x.v, one.v, two.v), two.m)

Addr(l, m) ==
    IF l.op = "slot" THEN [v |-> <<l.v>>, m |-> m]
    ELSE LET index == Eval(l.a[2], m)
         IN  [v |-> <<l.a[1].v, index.v>>, m |-> index.m]

RECURSIVE Exec(_, _), Loop(_, _, _)
Exec(st, m) ==
    LET All[n \in 0 .. Len(st.b)] == IF n = 0 THEN m ELSE Exec(st.b[n], All[n - 1])
        After(value) ==     \* the statements that begin with an expression
            CASE value.m.k # "go" \/ st.s = "expr" -> value.m
              [] st.s = "decl" -> [value.m EXCEPT !.env[st.v] = value.v]
              [] st.s = "return" -> [Ended(value.m, "return") EXCEPT !.ret = value.v]
              [] st.s = "if" ->
                    IF value.v = 1 THEN Exec(st.b[1], value.m)
                    ELSE IF Len(st.b) = 2 THEN Exec(st.b[2], value.m) ELSE value.m
    IN  CASE m.k # "go" -> m
          [] m.k = "go" /\ st.s = "block" -> All[Len(st.b)]
          [] m.k = "go" /\ st.s = "decl" /\ st.e = <<>> -> [m EXCEPT !.env[st.v] = Unset]
          [] m.k = "go" /\ st.s = "delete" -> [m EXCEPT !.sto[Addr(st.e[1], m).v] = 0]
          [] m.k = "go" /\ st.s \in {"break", "continue"} -> Ended(m, st.s)
          [] m.k = "go" /\ st.s \in {"while", "dowhile", "for", "forever"} -> Loop(st, st.s = "dowhile",
                IF st.s \in {"for", "forever"} THEN Exec(st.b[1], m) ELSE m)
          [] OTHER -> After(Eval(st.e[1], m))

(* From a test, or without one: `for' and `forever' have an initialiser    *)
(* before the body and a `next' after it.                                  *)
Loop(st, skip, m) ==
    LET next == IF st.s = "for" THEN Tail(st.e) ELSE IF st.s = "forever" THEN st.e ELSE <<>>
        Again(n) == Loop(st, FALSE, [n EXCEPT !.fuel = @ - 1])
        After(once) ==
            IF once.k = "break" THEN Ended(once, "go")
            ELSE IF once.k \notin {"go", "continue"} THEN once
            ELSE Again(IF next = <<>> THEN Ended(once, "go")
                       ELSE Eval(next[1], Ended(once, "go")).m)
        Body(test) ==
            IF test.m.k # "go" \/ test.v = 0 THEN test.m
            ELSE After(Exec(st.b[Len(st.b)], test.m))
    IN  IF m.fuel = 0 THEN Ended(m, "endless")
        ELSE Body(IF skip \/ st.s = "forever" THEN [v |-> 1, m |-> m] ELSE Eval(st.e[1], m))

(* What a call of the function shows: it panics, which undoes its writes,  *)
(* or it returns a value and leaves the storage.                           *)
Panics == [how |-> "trap", ret |-> 0, sto |-> <<>>]
ReadsUndefined == [how |-> "undefined", ret |-> 0, sto |-> <<>>]
Endless == [how |-> "endless", ret |-> 0, sto |-> <<>>]
Returns(v, sto) == [how |-> "return", ret |-> v, sto |-> sto]

Meaning(body, arg, sto, fuel) ==
    LET env == [v \in {P, R, X, Y} |-> IF v = P THEN arg ELSE 0]
        end == Exec(body, [env |-> env, sto |-> sto, k |-> "go", ret |-> 0,
                           fuel |-> fuel])
    IN  CASE end.k = "trap" -> Panics
          [] end.k = "endless" -> Endless
          [] end.k = "undefined" -> ReadsUndefined
          [] end.k = "return" -> Returns(end.ret, end.sto)
          [] end.k = "go" -> Returns(end.env[R], end.sto)
=============================================================================
