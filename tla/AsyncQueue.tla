----------------------------- MODULE AsyncQueue -----------------------------
(***************************************************************************)
(* The asynchronous queue every message between the editor and the         *)
(* language server goes through                                            *)
(* (packages/frontend/src/lib/editor/codec/queue.ts).                      *)
(*                                                                         *)
(* The class keeps no list of items.  It keeps two lists of halves of      *)
(* promises: #promises, the promises nobody has taken yet, and #resolvers, *)
(* the resolve functions nobody has called yet.  A promise is identified   *)
(* here by its position in the order of creation, and `settled' records    *)
(* the item each created promise was resolved with.                        *)
(*                                                                         *)
(* Writers reach the queue in two ways: enqueue(), which tests #closed, and *)
(* the `write' method of the WritableStream built in the constructor,      *)
(* which tests a copy of #closed taken while the queue was constructed.    *)
(***************************************************************************)
EXTENDS Integers, Sequences

CONSTANTS
    Readers,        \* the asynchronous loops that iterate over the queue
    Items,          \* what is written to it
    NoItem,         \* the value of a promise that is still pending
    NoPromise,      \* the reader is not waiting for a promise
    MaxPromises     \* bound: promises the queue creates

ASSUME NoItemAssumption == NoItem \notin Items
ASSUME NoPromiseAssumption == NoPromise \notin Nat
ASSUME MaxPromisesAssumption == MaxPromises \in Nat

VARIABLES
    promises,       \* #promises: promises created and not yet dequeued
    resolvers,      \* #resolvers: promises created and not yet resolved
    settled,        \* for each created promise its value, NoItem if pending
    closed,         \* #closed
    streamClosed,   \* the WritableStream has been closed
    locked,         \* the WritableStream is locked to a writer
    awaiting,       \* the promise each reader's next() awaits, or NoPromise
    sent,           \* history: every item the queue accepted, in order
    got             \* history: promise and item of each reader's next() calls

vars == <<promises, resolvers, settled, closed, streamClosed, locked,
          awaiting, sent, got>>

TypeOK ==
    /\ promises \in Seq(Nat)
    /\ resolvers \in Seq(Nat)
    /\ settled \in Seq(Items \cup {NoItem})
    /\ closed \in BOOLEAN
    /\ streamClosed \in BOOLEAN
    /\ locked \in BOOLEAN
    /\ awaiting \in [Readers -> Nat \cup {NoPromise}]
    /\ sent \in Seq(Items)
    /\ got \in [Readers -> Seq([promise : Nat, item : Items])]

Init ==
    /\ promises = <<>>
    /\ resolvers = <<>>
    /\ settled = <<>>
    /\ closed = FALSE
    /\ streamClosed = FALSE
    /\ locked = FALSE
    /\ awaiting = [r \in Readers |-> NoPromise]
    /\ sent = <<>>
    /\ got = [r \in Readers |-> <<>>]

-----------------------------------------------------------------------------
(* Mutants of the two operations below: the youngest waiting reader is     *)
(* served first; the promise taken stays listed; the youngest promise is   *)
(* taken.                                                                  *)
Push_ServeYoungest(item) ==
    /\ resolvers # <<>>
    /\ sent' = Append(sent, item)
    /\ settled' = [settled EXCEPT ![resolvers[Len(resolvers)]] = item]
    /\ resolvers' = SubSeq(resolvers, 1, Len(resolvers) - 1)
    /\ UNCHANGED promises

Next_Call_NoShift(r) ==
    /\ awaiting[r] = NoPromise
    /\ promises # <<>>
    /\ awaiting' = [awaiting EXCEPT ![r] = Head(promises)]
    /\ UNCHANGED <<promises, resolvers, settled, closed, streamClosed, locked,
                   sent, got>>

Next_Call_TakeYoungest(r) ==
    /\ awaiting[r] = NoPromise
    /\ promises # <<>>
    /\ awaiting' = [awaiting EXCEPT ![r] = promises[Len(promises)]]
    /\ promises' = SubSeq(promises, 1, Len(promises) - 1)
    /\ UNCHANGED <<resolvers, settled, closed, streamClosed, locked, sent, got>>

-----------------------------------------------------------------------------
(* #__enqueue, once its test of `closed' has passed: if nobody waits the   *)
(* new promise goes on both lists and its resolver is taken off again.     *)
Push(item) ==
    /\ sent' = Append(sent, item)
    /\ \/ /\ resolvers = <<>>
          /\ Len(settled) < MaxPromises
          /\ promises' = Append(promises, Len(settled) + 1)
          /\ settled' = Append(settled, item)
          /\ UNCHANGED resolvers
       \/ /\ resolvers # <<>>
          /\ settled' = [settled EXCEPT ![Head(resolvers)] = item]
          /\ resolvers' = Tail(resolvers)
          /\ UNCHANGED promises

(* enqueue(): an item given to a closed queue is dropped without a word.   *)
Enqueue(item) ==
    /\ \/ closed /\ UNCHANGED <<promises, resolvers, settled, sent>>
       \/ ~closed /\ Push(item)
    /\ UNCHANGED <<closed, streamClosed, locked, awaiting, got>>

(* getWriter(): the server's byte sink takes the only writer and keeps it. *)
GetWriter ==
    /\ ~locked
    /\ locked' = TRUE
    /\ UNCHANGED <<promises, resolvers, settled, closed, streamClosed,
                   awaiting, sent, got>>

(* write() of the stream: `closed' is the constructor's copy, always false, *)
(* so only the stream itself can refuse the item.                          *)
Write(item) ==
    /\ locked
    /\ ~streamClosed
    /\ Push(item)
    /\ UNCHANGED <<closed, streamClosed, locked, awaiting, got>>

(* dequeue(), called by next() up to its await.                            *)
Next_Call(r) ==
    /\ awaiting[r] = NoPromise
    /\ \/ /\ promises = <<>>
          /\ Len(settled) < MaxPromises
          /\ awaiting' = [awaiting EXCEPT ![r] = Len(settled) + 1]
          /\ resolvers' = Append(resolvers, Len(settled) + 1)
          /\ settled' = Append(settled, NoItem)
          /\ UNCHANGED promises
       \/ /\ promises # <<>>
          /\ awaiting' = [awaiting EXCEPT ![r] = Head(promises)]
          /\ promises' = Tail(promises)
          /\ UNCHANGED <<resolvers, settled>>
    /\ UNCHANGED <<closed, streamClosed, locked, sent, got>>

(* The continuation of next() once its promise is resolved.                *)
Next_Return(r) ==
    /\ awaiting[r] # NoPromise
    /\ settled[awaiting[r]] # NoItem
    /\ got' = [got EXCEPT ![r] = Append(@, [promise |-> awaiting[r],
                                             item |-> settled[awaiting[r]]])]
    /\ awaiting' = [awaiting EXCEPT ![r] = NoPromise]
    /\ UNCHANGED <<promises, resolvers, settled, closed, streamClosed,
                   locked, sent>>

(* close(), which return() calls when a `for await' loop over the queue is *)
(* left: #closed is set in any case, the stream's own close() is rejected  *)
(* while a writer holds the lock.                                          *)
Close ==
    /\ closed' = TRUE
    /\ streamClosed' = (streamClosed \/ ~locked)
    /\ UNCHANGED <<promises, resolvers, settled, locked, awaiting, sent,
                   got>>

Next ==
    \/ \E item \in Items : Enqueue(item) \/ Write(item)
    \/ \E r \in Readers : Next_Call(r) \/ Next_Return(r)
    \/ GetWriter
    \/ Close

(* A resolved promise's continuation is run by the microtask queue.        *)
Fairness == \A r \in Readers : WF_vars(Next_Return(r))

Spec == Init /\ [][Next]_vars

FairSpec == Spec /\ Fairness

-----------------------------------------------------------------------------
Created == Len(settled)

(* What the two private lists hold, whatever the order of the calls: each  *)
(* is the run of the newest promises, and one of them is always empty, so  *)
(* the queue never holds an item while a reader waits for one.             *)
ListsMatch ==
    /\ Len(promises) <= Created
    /\ Len(resolvers) <= Created
    /\ \A i \in 1 .. Len(promises) :
         promises[i] = Created - Len(promises) + i
    /\ \A i \in 1 .. Len(resolvers) :
         resolvers[i] = Created - Len(resolvers) + i
    /\ promises = <<>> \/ resolvers = <<>>

(* The k-th promise created carries the k-th item accepted, and exactly    *)
(* the promises whose resolver is still listed are pending.                *)
SettledInOrder ==
    /\ Len(sent) = Created - Len(resolvers)
    /\ \A k \in 1 .. Created :
         settled[k] = IF k <= Len(sent) THEN sent[k] ELSE NoItem

Taken == Created - Len(promises)

(* A promise is taken by at most one reader, once: no item is delivered    *)
(* twice, by two loops over the queue or by two turns of one of them.      *)
DeliveredOnce ==
    /\ \A r \in Readers : \A i, j \in 1 .. Len(got[r]) :
         i < j => got[r][i].promise < got[r][j].promise
    /\ \A r, s \in Readers : r # s =>
         \A i \in 1 .. Len(got[r]), j \in 1 .. Len(got[s]) :
             got[r][i].promise # got[s][j].promise

(* What makes it so: a promise that is awaited was taken, by that reader   *)
(* only, after every promise the reader has already received.              *)
AwaitedOnce ==
    \A r \in Readers :
        /\ \A i \in 1 .. Len(got[r]) : got[r][i].promise \in 1 .. Taken
        /\ awaiting[r] # NoPromise =>
             /\ awaiting[r] \in 1 .. Taken
             /\ \A i \in 1 .. Len(got[r]) : got[r][i].promise < awaiting[r]
             /\ \A s \in Readers \ {r} :
                  /\ awaiting[s] # awaiting[r]
                  /\ \A i \in 1 .. Len(got[s]) :
                       got[s][i].promise # awaiting[r]

(* The n-th next() call, of whichever reader, returns the n-th item that   *)
(* was accepted: nothing is lost, reordered or made up on the way.         *)
FifoDelivery ==
    \A r \in Readers : \A i \in 1 .. Len(got[r]) :
        /\ got[r][i].promise <= Len(sent)
        /\ got[r][i].item = sent[got[r][i].promise]

(* No promise taken off the list is forgotten: each is awaited by a reader *)
(* or was received by one, so an accepted item cannot disappear.           *)
NothingLost ==
    \A k \in 1 .. Taken : \E r \in Readers :
        \/ awaiting[r] = k
        \/ \E i \in 1 .. Len(got[r]) : got[r][i].promise = k

IInv == TypeOK /\ ListsMatch /\ SettledInOrder /\ AwaitedOnce
          /\ DeliveredOnce /\ FifoDelivery /\ NothingLost

-----------------------------------------------------------------------------
(* The queue is a FIFO channel with blocking readers: what the two lists   *)
(* of promise halves amount to.                                            *)
Waiter(p) == CHOOSE r \in Readers : awaiting[r] = p

Buffer == [i \in 1 .. Len(promises) |-> settled[promises[i]]]
Waiters == [i \in 1 .. Len(resolvers) |-> Waiter(resolvers[i])]
Hand == [r \in Readers |-> IF awaiting[r] = NoPromise
                           THEN NoItem ELSE settled[awaiting[r]]]

Channel == INSTANCE FifoChannel WITH
    buffer <- Buffer, waiters <- Waiters, hand <- Hand

ImplementsChannel == Channel!FairSpec

=============================================================================
