----------------------------- MODULE Optimiser -----------------------------
(***************************************************************************)
(* What optimize_and_check_cfg does to a graph with the definitions that   *)
(* reach each block: the check for undefined variables                     *)
(* (undefined_variable.rs), constant folding (constant_folding.rs) and     *)
(* dead storage elimination (dead_storage.rs).                             *)
(***************************************************************************)
EXTENDS Cfg

-----------------------------------------------------------------------------
(* find_undefined_variables: an error for a variable of the source that is *)
(* read where an Undefined reaches it; return variables are let through.   *)
RECURSIVE VarsIn(_)
VarsIn(x) ==
    IF x.op = "var" THEN {x.v} ELSE UNION {VarsIn(x.a[k]) : k \in DOMAIN x.a}

Reads(i) == UNION {VarsIn(i.e[k]) : k \in DOMAIN i.e}

(* Mutant of UndefinedUse: the definitions at the start of the block.      *)
UndefinedUse_AtStart(bl, b, n, ds) ==
    \E v \in Reads(bl[b].ins[n]) \cap ((1 .. FirstTemp - 1) \ {R}) :
        \E d \in Of(ds[1], v) : DefinesNothing(At2(bl, d))

UndefinedUse(bl, b, n, ds) ==
    \E v \in Reads(bl[b].ins[n]) \cap ((1 .. FirstTemp - 1) \ {R}) :
        \E d \in Of(ds[n], v) : DefinesNothing(At2(bl, d))

HasUndefined(bl, defs) ==
    \E b \in DOMAIN bl : \E n \in DOMAIN bl[b].ins :
        UndefinedUse(bl, b, n, Through(bl[b], b, defs[b]))

-----------------------------------------------------------------------------
(* constant_folding.  An expression folds to [x, pure, err]: the new       *)
(* expression, whether its value depends on no context, whether an error   *)
(* is reported for it.                                                     *)
Literals == {"num", "bool", "hash"}

(* Mutant of Agreed: the first definition decides.                         *)
Agreed_First(values) ==
    LET pure == {d \in DOMAIN values : values[d].pure}
    IN  IF pure = {} THEN {} ELSE {values[CHOOSE d \in pure : TRUE]}

(* What the definitions of a variable agree on: all are the same number,   *)
(* or there is one and it is pure.                                         *)
Agreed(values) ==
    LET found == {values[d] : d \in DOMAIN values}
    IN  IF /\ \A f \in found : f.pure
           /\ \/ Cardinality(DOMAIN values) = 1
              \/ \A f, h \in found : f.x.op = "num" /\ f.x.v = h.x.v
        THEN found ELSE {}

RECURSIVE Folded(_, _, _)
Folded(x, ds, bl) ==
    LET args == [k \in DOMAIN x.a |-> Folded(x.a[k], ds, bl)]
        rebuilt == Ex(x.op, x.v, [k \in DOMAIN x.a |-> args[k].x])
        numbers == \A k \in DOMAIN x.a : args[k].x.op = "num"
        errs == \E k \in DOMAIN x.a : args[k].err
        Pure(y, p) == [x |-> y, pure |-> p, err |-> errs]
        exact == Arith(x.op, 0, args[1].x.v, args[2].x.v)
        Definition(d) == IF At2(bl, d).i = "set"
                         THEN Folded(At2(bl, d).e[1], {}, bl)
                         ELSE [x |-> x, pure |-> FALSE, err |-> FALSE]
        agreed == Agreed([d \in Of(ds, x.v) |-> Definition(d)])
        \* divide by zero and overflow are errors; an overflow still folds
    IN  CASE x.op = "var" ->
                IF agreed = {} THEN Pure(x, FALSE)
                ELSE Pure((CHOOSE f \in agreed : TRUE).x, TRUE)
          [] x.op \in {"num", "bool", "arg"} -> Pure(x, TRUE)
          [] x.op = "undefined" -> Pure(x, FALSE)
          [] x.op \in {"slot", "hash"} -> Pure(x, TRUE)
          [] x.op = "keccak" ->
                IF args[2].x.op = "num" THEN Pure([rebuilt EXCEPT !.op = "hash"], TRUE)
                ELSE Pure(rebuilt, FALSE)
          [] x.op = "not" -> Pure(rebuilt, args[1].pure)
          [] x.op \in {"less", "eq"} -> Pure(rebuilt, FALSE)
          [] x.op \in {"add", "sub", "mul"} /\ numbers ->
                [x |-> Num(Arith(x.op, 1, args[1].x.v, args[2].x.v)), pure |-> TRUE,
                 err |-> errs \/ (x.v = 0 /\ exact = Trap)]
          [] x.op \in {"div", "mod"} /\ args[2].x = Num(0) ->
                [x |-> rebuilt, pure |-> args[1].pure, err |-> TRUE]
          [] x.op \in {"div", "mod"} /\ numbers /\ args[2].x # Num(0) ->
                Pure(Num(exact), TRUE)
          [] OTHER -> Pure(rebuilt, args[1].pure /\ args[2].pure)

FoldedIns(i, ds, bl) ==
    LET fs == [k \in DOMAIN i.e |-> Folded(i.e[k], ds, bl)]
        new == [i EXCEPT !.e = [k \in DOMAIN i.e |-> fs[k].x]]
    IN  [i |-> IF i.i = "cond" /\ fs[1].x.op = "bool"
               THEN Branch(i.t[IF fs[1].x.v = 1 THEN 1 ELSE 2]) ELSE new,
         err |-> \E k \in DOMAIN fs : fs[k].err]

PlacesOf(bl) ==
    FoldLeft(LAMBDA sq, b : sq \o [n \in DOMAIN bl[b].ins |-> <<b, n>>],
             <<>>, [b \in DOMAIN bl |-> b])

(* Instruction by instruction, each with the definitions folded so far.    *)
FoldConstants(bl, defs) ==
    LET One(acc, p) ==
            LET ds == Through(bl[p[1]], p[1], defs[p[1]])[p[2]]
                f == FoldedIns(acc.bl[p[1]].ins[p[2]], ds, acc.bl)
            IN  [bl |-> [acc.bl EXCEPT ![p[1]].ins[p[2]] = f.i], err |-> acc.err \/ f.err]
    IN  FoldLeft(One, [bl |-> bl, err |-> FALSE], PlacesOf(bl))

-----------------------------------------------------------------------------
(* dead_storage: its own flow, of [vars, stores]: definitions as above and *)
(* the places of the stores nothing has overwritten or flushed.            *)
NoPlace == <<0, 0>>                             \* Definition::Undefined

IsLoad(bl, d) == d[2] # 0 /\ At2(bl, d).i = "load"
SlotOf(i) == i.e[Len(i.e)]                      \* the storage operand
Stores == {"store", "clear"}

(* The variables a point has, from the blocks' variables found so far.     *)
VarsAt(bv, p) == IF bv[p[1]] = <<>> THEN {} ELSE bv[p[1]][p[2]].vars

(* expression_compare, of an address at one point and one at another:      *)
(* two variables are equal if the same definitions reach them.             *)
Both(c, d) == IF c = d THEN c
              ELSE IF {c, d} = {"equal", "different"} THEN "different" ELSE "unknown"

SameDefinitions(lds, v, rds, w) == Places(lds, v) = Places(rds, w)

RECURSIVE Compare(_, _, _, _, _, _)
Compare(l, lds, r, rds, bl, bv) ==
    LET Arg(k) == Compare(l.a[k], lds, r.a[k], rds, bl, bv)
        Only(ds, v) == CHOOSE d \in Of(ds, v) : TRUE
        Defined(d) == d[2] # 0 /\ At2(bl, d).i \in {"load", "set"}
        Meant(d, e) == Compare(At2(bl, d).e[1], VarsAt(bv, <<d[2], d[3]>>),
                               At2(bl, e).e[1], VarsAt(bv, <<e[2], e[3]>>), bl, bv)
    IN  CASE l.op = "var" /\ r.op = "var" ->
                IF Of(lds, l.v) = {} \/ Of(rds, r.v) = {} THEN "unknown"
                ELSE IF SameDefinitions(lds, l.v, rds, r.v) THEN "equal"
                ELSE IF /\ Cardinality(Of(lds, l.v)) = 1 /\ Defined(Only(lds, l.v))
                        /\ Cardinality(Of(rds, r.v)) = 1 /\ Defined(Only(rds, r.v))
                THEN Meant(Only(lds, l.v), Only(rds, r.v)) ELSE "unknown"
          [] l.op # r.op -> "unknown"
          [] l.op \in {"num", "slot"} /\ r.op = l.op ->
                IF l.v = r.v THEN "equal" ELSE "different"
          [] l.op = "arg" /\ r.op = l.op -> "equal"
          [] l.op = "keccak" /\ r.op = l.op -> IF Arg(1) = Arg(2) THEN Arg(1) ELSE "unknown"
          [] l.op \in {"add", "sub", "mul"} /\ r.op = l.op -> Both(Arg(1), Arg(2))
          [] OTHER -> "unknown"

(* How the address a store or load names at one point compares with that   *)
(* of the load or store at place p.                                        *)
CompareAt(slot, ds, p, bl, bv) ==
    Compare(slot, ds, SlotOf(bl[p[1]].ins[p[2]]), VarsAt(bv, p), bl, bv)

(* A store, or the return that flushes them all.                           *)
StoreTransfer(i, p, st, bl, bv) ==
    LET Touches(d) == IsLoad(bl, d) /\ (i.i = "return" \/
            CompareAt(SlotOf(i), st.vars, <<d[2], d[3]>>, bl, bv) # "different")
        gone == {d[1] : d \in {c \in st.vars : Touches(c)}}
        vars == {d \in st.vars : d[1] \notin gone}
        kept == SelectSeq(st.stores,
            LAMBDA q : CompareAt(SlotOf(i), vars, q, bl, bv) # "equal")
    IN  CASE i.i = "return" -> [vars |-> vars, stores |-> <<>>]
          [] i.i \in Stores -> [vars |-> vars, stores |-> Append(kept, p)]
          [] OTHER -> st

(* apply_transfers: a pass over the variables, then one with the stores,   *)
(* which sees the first pass's variables of this block.                    *)
StoragePass(bl, b, entry, bv, stores) ==
    LET One(sq, n) ==
            LET i == bl[b].ins[n]
                st == [sq[n] EXCEPT !.vars = Transfer(i, b, n, @)]
            IN  Append(sq, IF stores THEN StoreTransfer(i, <<b, n>>, st, bl, bv) ELSE st)
    IN  FoldLeft(One, <<entry>>, [n \in DOMAIN bl[b].ins |-> n])

StorageFlow(bl, b, bv) ==
    LET first == StoragePass(bl, b, bv[b][1], bv, FALSE)
    IN  StoragePass(bl, b, bv[b][1], [bv EXCEPT ![b] = first], TRUE)

(* What flows along an edge is added to what the block at its end has.     *)
Merge(here, in) ==
    [vars |-> here.vars \cup in.vars,
     stores |-> here.stores \o SelectSeq(in.stores, LAMBDA p :
        \A k \in DOMAIN here.stores : here.stores[k] # p)]

(* The variables with one definition, a load of the same address: any of   *)
(* them may take the load's place.                                         *)
Known(bl, b, n, bv) ==
    LET i == bl[b].ins[n]
        vars == bv[b][n].vars
    IN  {v \in {d[1] : d \in vars} :
            \E d \in Of(vars, v) :
                /\ Cardinality(Of(vars, v)) = 1
                /\ IsLoad(bl, d)
                /\ At2(bl, d).v # i.v
                /\ CompareAt(SlotOf(i), vars, <<d[2], d[3]>>, bl, bv) = "equal"}

(* The main loop: loads are replaced as it goes, a store is redundant from *)
(* when it is met until something is found that may see it.                *)
Needed(acc, ps) == [p \in DOMAIN acc.dead \cup ps |-> p \notin ps /\ acc.dead[p]]

VisitLoad(acc, p, bv, low) ==
    LET i == acc.bl[p[1]].ins[p[2]]
        st == bv[p[1]][p[2]]
        vs == Known(acc.bl, p[1], p[2], bv)
        v == IF low THEN CHOOSE u \in vs : \A w \in vs : u <= w
             ELSE CHOOSE u \in vs : \A w \in vs : u >= w
        seen == {q \in DOMAIN acc.dead \cap ToSet(st.stores) :
                    CompareAt(SlotOf(i), st.vars, q, acc.bl, bv) # "different"}
    IN  IF vs # {} THEN [acc EXCEPT !.bl[p[1]].ins[p[2]] = SetVar(i.v, Var(v))]
        ELSE [acc EXCEPT !.dead = Needed(acc, seen)]

(* Mutant of Visit: a return keeps nothing.                                *)
Visit_NoFlush(acc, p, bv, low) ==
    LET i == acc.bl[p[1]].ins[p[2]]
    IN  CASE i.i = "load" -> VisitLoad(acc, p, bv, low)
          [] i.i \in Stores ->
                [acc EXCEPT !.dead = IF p \in DOMAIN @ THEN @ ELSE (p :> TRUE) @@ @]
          [] OTHER -> acc

Visit(acc, p, bv, low) ==
    LET i == acc.bl[p[1]].ins[p[2]]
    IN  CASE i.i = "load" -> VisitLoad(acc, p, bv, low)
          [] i.i \in Stores ->
                [acc EXCEPT !.dead = IF p \in DOMAIN @ THEN @ ELSE (p :> TRUE) @@ @]
          [] i.i = "return" ->
                [acc EXCEPT !.dead = Needed(acc, ToSet(bv[p[1]][p[2]].stores))]
          [] OTHER -> acc

RemoveDead(bl, bv, low) ==
    LET visited == SelectSeq(PlacesOf(bl), LAMBDA p : bv[p[1]] # <<>>)
        end == FoldLeft(LAMBDA acc, p : Visit(acc, p, bv, low),
                        [bl |-> bl, dead |-> <<>>], visited)
        gone == {p \in DOMAIN end.dead : end.dead[p]}
    IN  FoldLeft(LAMBDA new, p : [new EXCEPT ![p[1]].ins[p[2]] = Nop],
                 end.bl, SetToSeq(gone))
=============================================================================
