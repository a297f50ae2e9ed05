---------------------------- MODULE FifoChannel ----------------------------
(***************************************************************************)
(* What an asynchronous queue promises the loops that iterate over it:     *)
(* items are handed out in the order they were put in, to the readers in   *)
(* the order they asked, and no reader waits while an item is buffered.    *)
(***************************************************************************)
EXTENDS Naturals, Sequences

CONSTANTS Readers, Items, NoItem

VARIABLES
    buffer,     \* items nobody has asked for yet
    waiters,    \* readers nobody has an item for yet, in the order they asked
    hand        \* the item each reader has been given and not yet looked at

chanVars == <<buffer, waiters, hand>>

Init ==
    /\ buffer = <<>>
    /\ waiters = <<>>
    /\ hand = [r \in Readers |-> NoItem]

Put(item) ==
    \/ /\ waiters = <<>>
       /\ buffer' = Append(buffer, item)
       /\ UNCHANGED <<waiters, hand>>
    \/ /\ waiters # <<>>
       /\ hand' = [hand EXCEPT ![Head(waiters)] = item]
       /\ waiters' = Tail(waiters)
       /\ UNCHANGED buffer

Idle(r) ==
    /\ hand[r] = NoItem
    /\ \A i \in 1 .. Len(waiters) : waiters[i] # r

Ask(r) ==
    /\ Idle(r)
    /\ \/ /\ buffer = <<>>
          /\ waiters' = Append(waiters, r)
          /\ UNCHANGED <<buffer, hand>>
       \/ /\ buffer # <<>>
          /\ hand' = [hand EXCEPT ![r] = Head(buffer)]
          /\ buffer' = Tail(buffer)
          /\ UNCHANGED waiters

Look(r) ==
    /\ hand[r] # NoItem
    /\ hand' = [hand EXCEPT ![r] = NoItem]
    /\ UNCHANGED <<buffer, waiters>>

Next ==
    \/ \E item \in Items : Put(item)
    \/ \E r \in Readers : Ask(r) \/ Look(r)

Spec == Init /\ [][Next]_chanVars

(* A reader that has been given an item looks at it in the end.            *)
FairSpec == Spec /\ \A r \in Readers : WF_chanVars(Look(r))

=============================================================================
