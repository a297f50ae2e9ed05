----------------------------- MODULE MCCodegen -----------------------------
(* The programs Codegen is checked on: the bodies that can be put together *)
(* from the statements below, and some that a run is about.                *)
EXTENDS Codegen

D == Decl(X, <<Var(P)>>)
End == Return(Bin("add", Var(X), Load(Slot(0))))
Inc == Step("postinc", Var(X))
Less == Bin("less", Var(P), Var(X))
Both2 == Bin("and", Bin("less", Num(0), Var(X)), Less)
CountDown == Bin("less", Num(0), Step("postdec", Var(X)))

(* Statements on the local, on a slot and on a place of the mapping.       *)
OnLocal == {
    Set(X, Num(1)),
    Set(X, Wrap("mul", Var(X), Num(2))),
    Set(X, Bin("div", Num(2), Var(P)))}
OnStorage == {
    Set(X, Load(Slot(0))),
    Set(X, Load(At(Var(X)))),
    Do(Assign(Slot(0), Var(X))),
    Do(Assign(At(Var(X)), Num(2))),
    Do(Step("postinc", Slot(0))),
    Delete(Slot(0))}

(* Branches: a statement before, one in the branch, one after.             *)
Branching == {Block(<<D, a, If(c, Block(<<b>>)), End>>) :
                a \in OnLocal \cup OnStorage, c \in {Less, Both2}, b \in OnLocal \cup OnStorage}
    \cup {Block(<<D, a, b, c, d>>) : a, b, c \in OnStorage \cup {Set(X, Num(1))},
                                    d \in {End, Return(Var(P))}}
    \cup {Block(<<D, IfElse(Less, Block(<<a>>), Block(<<b>>)), End>>) : a, b \in OnLocal}

(* Loops of each kind, left and continued from the middle.                 *)
Jumps == {Jump("break"), Jump("continue"), Return(Var(X))}
Bodies == {Block(<<a>>) : a \in OnLocal \cup OnStorage}
    \cup {Block(<<If(Less, Block(<<j>>)), a>>) :
            j \in Jumps, a \in {Set(X, Num(1)), Do(Assign(Slot(0), Var(X)))}}
Loops == {While(c, b) : c \in {Less, CountDown}, b \in Bodies}
    \cup {DoWhile(b, c) : c \in {Less, CountDown}, b \in Bodies}
    \cup {For(Block(<<>>), Less, Step("postdec", Var(X)), b) : b \in Bodies}
    \cup {Forever(<<Inc>>, b) : b \in Bodies}
    \cup {Forever(<<>>, Block(<<Do(Inc), If(Less, Block(<<j>>))>>)) : j \in Jumps}
Looping == {Block(<<D, l, End>>) : l \in Loops}
    \cup {Block(<<D, While(Less, IfElse(Less, Block(<<Set(X, Num(0))>>), Block(<<other>>))), End>>) :
            other \in {Set(X, Num(1)), Do(Inc)}}

(* Loops in loops, a loop nobody leaves, jumps that lead nowhere.          *)
Nesting == {Block(<<D, l, End>>) : l \in {
    While(Less, Block(<<For(Decl(Y, <<Num(0)>>), Bin("less", Var(Y), Var(P)),
                            Step("postinc", Var(Y)),
                            Block(<<If(Less, Block(<<Jump("break")>>)), Set(X, Var(Y))>>)),
                        Jump("continue")>>)),
    Forever(<<>>, Block(<<DoWhile(Block(<<Set(X, Num(0))>>), Less), Jump("break")>>)),
    Forever(<<Inc>>, Block(<<If(Less, Block(<<Jump("continue")>>)), Return(Var(X))>>)),
    Forever(<<Inc>>, Block(<<Forever(<<>>, Block(<<Jump("break")>>)), Return(Var(P))>>)),
    While(Bool(1), Block(<<If(Less, Block(<<Jump("break")>>)), Do(Inc)>>)),
    If(Less, Block(<<Jump("break")>>))}}

(* Conditionals, short circuits, declarations without a value, constants.  *)
Undeclared(s) == Block(<<Decl(Y, <<>>), D, s, Set(X, Var(Y)), End>>)
Valued == {
    Block(<<D, Return(Cond(Less, Var(X), Bin("div", Num(1), Var(P))))>>),
    Block(<<D, Set(X, Cond(Both2, Num(1), Inc)), End>>),
    Block(<<D, Set(X, Cond(Bin("or", Less, CountDown), Num(1), Num(2))), Set(R, Var(X))>>),
    Block(<<D, If(Bool(0), Block(<<Set(X, Num(1))>>)), End>>),
    Block(<<D, Set(X, Num(1)), If(Less, Block(<<Set(X, Bin("sub", Num(2), Num(1)))>>)),
            Set(R, Bin("mul", Var(X), Num(2)))>>),
    Block(<<D, Set(X, Bin("div", Num(1), Num(0))), End>>),
    Undeclared(Set(X, Num(1))),
    Undeclared(While(Less, Block(<<Set(Y, Num(1)), Jump("break")>>))),
    Undeclared(If(Less, Block(<<Set(Y, Num(1))>>))),
    Undeclared(IfElse(Less, Block(<<Set(Y, Num(1))>>), Block(<<Set(Y, Num(2))>>))),
    Undeclared(IfElse(Less, Block(<<Set(Y, Num(1))>>), Block(<<Return(Var(P))>>))),
    Undeclared(DoWhile(Block(<<Set(Y, Var(P))>>), Less))}

(* Locals nobody reads: assigned a value, or an assignment that stays.     *)
Unused == {
    Block(<<D, Decl(Y, <<Load(At(Var(X)))>>), Set(Y, Num(1)), End>>),
    Block(<<D, Decl(Y, <<>>), While(Less, Block(<<Set(Y, Var(X)), Do(Inc)>>)), End>>),
    Block(<<D, Decl(Y, <<Assign(Slot(0), Var(P))>>), End>>),
    Block(<<D, Set(Y, Assign(Var(X), Num(2))), End>>),
    Block(<<D, Decl(Y, <<Load(At(Assign(Slot(0), Num(2))))>>), End>>),
    Block(<<D, Set(R, Assign(Var(Y), Bin("div", Num(2), Var(P))))>>),
    Block(<<Set(X, Assign(Var(Y), Var(P))), Return(Bin("add", Var(P), Load(Slot(0))))>>)}

(* A loop all of whose blocks lose a definition: what reaches a block and  *)
(* what flows in never are the same.                                       *)
HangingPrograms == {
    Block(<<Decl(Y, <<Num(0)>>), D,
            DoWhile(Block(<<Set(Y, Num(1)),
                            If(Less, Block(<<If(Bin("eq", Var(X), Num(2)), Block(<<Jump("continue")>>)),
                                             Set(Y, Num(0))>>)),
                            Set(X, Num(2))>>),
                    Bin("less", Step("postinc", Var(R)), Num(2))),
            Return(Bin("add", Var(X), Var(Y)))>>)}

(* A store two branches deep, seen by a load whose block was made earlier. *)
StoringPrograms == {
    Block(<<D, If(Bin("less", Num(0), Var(P)),
                  Block(<<If(Bin("less", Num(1), Var(P)),
                             Block(<<Do(Assign(Slot(0), Num(2)))>>))>>)),
            Set(X, Load(Slot(0))),
            Do(Assign(Slot(0), Num(1))),
            Return(Var(X))>>)}

MCPrograms == Branching \cup Looping \cup Nesting \cup Valued \cup Unused

MCStorages == {[a \in Addresses |-> 0], [a \in Addresses |-> 1]}
=============================================================================
