-------------------------- MODULE AsyncQueue_proofs --------------------------
(***************************************************************************)
(* What holds of the queue for every number of readers, items and          *)
(* promises: the invariants that AsyncQueue.cfg checks on a small queue,   *)
(* and that each of its steps is a step of the FIFO channel, or changes    *)
(* nothing of it.                                                          *)
(***************************************************************************)
EXTENDS AsyncQueue, SequenceTheorems, TLAPS

Shape == TypeOK /\ ListsMatch /\ SettledInOrder

(* Accepting an item keeps the lists in step: the item goes to the oldest  *)
(* promise still pending, or to a new one that nobody has taken.           *)
LEMMA PushShape ==
  ASSUME TypeOK, ListsMatch, SettledInOrder,
         NEW item \in Items, Push(item),
         UNCHANGED <<closed, streamClosed, locked, awaiting, got>>
  PROVE  Shape'
<1> USE NoItemAssumption
<1>1. CASE resolvers = <<>> /\ promises' = Append(promises, Len(settled) + 1)
  <2> promises' = Append(promises, Len(settled) + 1)
        /\ settled' = Append(settled, item) /\ resolvers' = resolvers
        /\ sent' = Append(sent, item) /\ resolvers = <<>>
    BY <1>1 DEF Push, TypeOK
  <2>1. TypeOK'
    <3>1. settled' \in Seq(Items \cup {NoItem}) /\ promises' \in Seq(Nat)
           /\ sent' \in Seq(Items)
      BY AppendProperties DEF TypeOK
    <3> QED BY <3>1 DEF TypeOK
  <2>2. ListsMatch'
    BY DEF TypeOK, ListsMatch, Created
  <2>3. SettledInOrder'
    BY DEF TypeOK, ListsMatch, SettledInOrder, Created
  <2> QED BY <2>1, <2>2, <2>3 DEF Shape
<1>2. CASE resolvers # <<>>
  <2> settled' = [settled EXCEPT ![Head(resolvers)] = item]
        /\ resolvers' = Tail(resolvers) /\ promises' = promises
        /\ sent' = Append(sent, item) /\ resolvers # <<>> /\ promises = <<>>
    BY <1>2 DEF Push, ListsMatch
  <2>0. Head(resolvers) = Len(sent) + 1 /\ Len(sent) + 1 \in 1 .. Len(settled)
    BY DEF TypeOK, ListsMatch, SettledInOrder, Created
  <2>1. TypeOK'
    <3>1. settled' \in Seq(Items \cup {NoItem})
      BY <2>0, ExceptSeq DEF TypeOK
    <3>2. resolvers' \in Seq(Nat)
      BY HeadTailProperties DEF TypeOK
    <3>3. sent' \in Seq(Items)
      BY AppendProperties DEF TypeOK
    <3> QED BY <3>1, <3>2, <3>3 DEF TypeOK
  <2>2. ListsMatch'
    BY <2>0 DEF TypeOK, ListsMatch, Created
  <2>3. SettledInOrder'
    BY <2>0 DEF TypeOK, ListsMatch, SettledInOrder, Created
  <2> QED BY <2>1, <2>2, <2>3 DEF Shape
<1> QED BY <1>1, <1>2 DEF Push

(* Taking a promise keeps them in step: the oldest one that exists is       *)
(* taken, or a new one is created for the reader to wait for.              *)
LEMMA CallShape ==
  ASSUME TypeOK, ListsMatch, SettledInOrder, NEW r \in Readers, Next_Call(r)
  PROVE  /\ Shape'
         /\ Taken' = Taken + 1
         /\ awaiting' = [awaiting EXCEPT ![r] = Taken']
<1>1. CASE promises = <<>> /\ settled' = Append(settled, NoItem)
  <2> /\ promises = <<>> /\ promises' = promises
       /\ settled' = Append(settled, NoItem)
       /\ resolvers' = Append(resolvers, Len(settled) + 1)
       /\ awaiting' = [awaiting EXCEPT ![r] = Len(settled) + 1]
       /\ UNCHANGED <<closed, streamClosed, locked, sent, got>>
    BY <1>1 DEF Next_Call
  <2>1. TypeOK'
    <3>1. settled' \in Seq(Items \cup {NoItem}) /\ resolvers' \in Seq(Nat)
      BY AppendProperties DEF TypeOK
    <3>2. awaiting' \in [Readers -> Nat \cup {NoPromise}]
      BY DEF TypeOK
    <3> QED BY <3>1, <3>2 DEF TypeOK
  <2>2. ListsMatch'
    BY DEF TypeOK, ListsMatch, Created
  <2>3. SettledInOrder'
    <3>1. /\ Len(settled') = Len(settled) + 1
          /\ Len(resolvers') = Len(resolvers) + 1
          /\ \A k \in 1 .. Len(settled) : settled'[k] = settled[k]
          /\ settled'[Len(settled) + 1] = NoItem
      BY AppendProperties DEF TypeOK
    <3>2. Len(settled) \in Nat /\ Len(sent) \in Nat /\ Len(resolvers) \in Nat
      BY DEF TypeOK
    <3>3. Len(sent') = Len(settled') - Len(resolvers')
      <4>1. Len(sent) = Len(settled) - Len(resolvers) /\ sent' = sent
        BY DEF SettledInOrder, Created
      <4> QED BY <3>1, <3>2, <4>1
    <3>4. ASSUME NEW k \in 1 .. Len(settled')
          PROVE  settled'[k] = IF k <= Len(sent') THEN sent'[k] ELSE NoItem
      BY <3>1, <3>2, <3>3 DEF SettledInOrder, Created
    <3> QED BY <3>3, <3>4 DEF SettledInOrder, Created
  <2>4. Taken' = Taken + 1 /\ Taken' = Len(settled) + 1
    BY DEF Taken, Created, TypeOK
  <2> QED BY <2>1, <2>2, <2>3, <2>4 DEF Shape
<1>2. CASE promises # <<>>
  <2> /\ promises # <<>> /\ promises' = Tail(promises)
       /\ awaiting' = [awaiting EXCEPT ![r] = Head(promises)]
       /\ UNCHANGED <<resolvers, settled, closed, streamClosed, locked, sent,
                      got>>
    BY <1>2 DEF Next_Call
  <2>1. TypeOK'
    <3>1. promises' \in Seq(Nat) /\ Head(promises) \in Nat
      BY HeadTailProperties DEF TypeOK
    <3> QED BY <3>1 DEF TypeOK
  <2>2. ListsMatch'
    <3>1. /\ Len(promises') = Len(promises) - 1
          /\ Len(promises) \in Nat /\ Len(promises) # 0
          /\ Len(settled) \in Nat
          /\ \A i \in 1 .. Len(promises') : promises'[i] = promises[i + 1]
      BY DEF TypeOK
    <3>2. resolvers = <<>> /\ resolvers' = <<>>
      BY DEF ListsMatch
    <3>3. ASSUME NEW i \in 1 .. Len(promises')
          PROVE  promises'[i] = Created' - Len(promises') + i
      <4>1. i + 1 \in 1 .. Len(promises)
        BY <3>1
      <4>2. promises[i + 1] = Len(settled) - Len(promises) + (i + 1)
        BY <4>1 DEF ListsMatch, Created
      <4> QED
        BY <3>1, <4>2 DEF Created
    <3> QED
      BY <3>1, <3>2, <3>3 DEF ListsMatch, Created
  <2>3. SettledInOrder'
    BY DEF TypeOK, SettledInOrder, Created
  <2>4. Taken' = Taken + 1 /\ Taken' = Head(promises)
    BY DEF Taken, Created, TypeOK, ListsMatch
  <2> QED BY <2>1, <2>2, <2>3, <2>4 DEF Shape
<1> QED BY <1>1, <1>2 DEF Next_Call

(* A reader that resumes records the item its promise carries.             *)
LEMMA ReturnShape ==
  ASSUME TypeOK, ListsMatch, SettledInOrder, AwaitedOnce,
         NEW r \in Readers, Next_Return(r)
  PROVE  /\ Shape'
         /\ awaiting[r] \in 1 .. Len(sent)
         /\ settled[awaiting[r]] = sent[awaiting[r]]
         /\ got' = [got EXCEPT ![r] = Append(@, [promise |-> awaiting[r],
                                            item |-> sent[awaiting[r]]])]
<1> USE NoItemAssumption
<1> UNCHANGED <<promises, resolvers, settled, closed, streamClosed, locked,
                sent>>
  BY DEF Next_Return
<1>1. awaiting[r] \in 1 .. Len(settled)
  BY DEF Next_Return, AwaitedOnce, Taken, Created, TypeOK
<1>2. awaiting[r] \in 1 .. Len(sent) /\ settled[awaiting[r]] = sent[awaiting[r]]
  BY <1>1 DEF Next_Return, SettledInOrder, TypeOK, Created
<1>3. sent[awaiting[r]] \in Items
  BY <1>2, ElementOfSeq DEF TypeOK
<1>4. got' = [got EXCEPT ![r] = Append(@, [promise |-> awaiting[r],
                                           item |-> sent[awaiting[r]]])]
  BY <1>2 DEF Next_Return
<1>5. TypeOK'
  <2>1. awaiting' \in [Readers -> Nat \cup {NoPromise}]
    BY DEF Next_Return, TypeOK
  <2>2. Append(got[r], [promise |-> awaiting[r], item |-> sent[awaiting[r]]])
          \in Seq([promise : Nat, item : Items])
    <3>1. [promise |-> awaiting[r], item |-> sent[awaiting[r]]]
            \in [promise : Nat, item : Items]
      BY <1>2, <1>3 DEF TypeOK
    <3>2. got[r] \in Seq([promise : Nat, item : Items])
      BY DEF TypeOK
    <3> QED BY <3>1, <3>2, AppendProperties
  <2>3. got' \in [Readers -> Seq([promise : Nat, item : Items])]
    BY <1>4, <2>2 DEF TypeOK
  <2> QED BY <2>1, <2>3 DEF TypeOK
<1>6. ListsMatch'
  BY DEF ListsMatch, Created
<1>7. SettledInOrder'
  BY DEF SettledInOrder, Created
<1> QED BY <1>2, <1>4, <1>5, <1>6, <1>7 DEF Shape

-----------------------------------------------------------------------------
(* The steps of the writers and of close() leave the readers alone, and    *)
(* items are only ever added behind those already accepted.                *)
LEMMA WriterStep ==
  ASSUME IInv,
         (\E item \in Items : Enqueue(item) \/ Write(item)) \/ GetWriter \/ Close
  PROVE  /\ Shape'
         /\ Taken' = Taken
         /\ UNCHANGED <<awaiting, got>>
         /\ Len(sent) <= Len(sent')
         /\ \A i \in 1 .. Len(sent) : sent'[i] = sent[i]
<1>1. ASSUME NEW item \in Items, Push(item),
             UNCHANGED <<closed, streamClosed, locked, awaiting, got>>
      PROVE  /\ Shape'
             /\ Taken' = Taken /\ Taken \in Nat
             /\ Len(sent) <= Len(sent')
             /\ \A i \in 1 .. Len(sent) : sent'[i] = sent[i]
  <2>1. Shape'
    BY <1>1, PushShape DEF IInv
  <2>2. sent' = Append(sent, item) /\ sent \in Seq(Items)
    BY <1>1 DEF Push, IInv, TypeOK
  <2>3. /\ Len(sent') = Len(sent) + 1
        /\ \A i \in 1 .. Len(sent) : sent'[i] = sent[i]
    BY <2>2, AppendProperties
  <2>4. Len(settled) \in Nat /\ Len(promises) \in Nat /\ Len(promises) <= Len(settled)
    BY DEF IInv, TypeOK, ListsMatch, Created
  <2>5. Taken' = Taken
    <3>1. CASE promises' = Append(promises, Len(settled) + 1)
                 /\ settled' = Append(settled, item)
      BY <3>1, <2>4, AppendProperties DEF Taken, Created, IInv, TypeOK
    <3>2. CASE promises' = promises
                 /\ settled' = [settled EXCEPT ![Head(resolvers)] = item]
      BY <3>2 DEF Taken, Created, IInv, TypeOK
    <3> QED BY <1>1, <3>1, <3>2 DEF Push
  <2>6. Len(sent) \in Nat
    BY <2>2
  <2> QED BY <2>1, <2>3, <2>4, <2>5, <2>6 DEF Taken, Created
<1>2. ASSUME UNCHANGED <<promises, resolvers, settled, awaiting, sent, got>>,
             closed' \in BOOLEAN, streamClosed' \in BOOLEAN, locked' \in BOOLEAN
      PROVE  /\ Shape'
             /\ Taken' = Taken /\ Taken \in Nat
             /\ Len(sent) <= Len(sent')
             /\ \A i \in 1 .. Len(sent) : sent'[i] = sent[i]
  <2>1. TypeOK'
    BY <1>2 DEF IInv, TypeOK
  <2>2. ListsMatch' /\ SettledInOrder' /\ Taken' = Taken
    BY <1>2 DEF IInv, ListsMatch, SettledInOrder, Taken, Created
  <2>3. Taken \in Nat /\ Len(sent) \in Nat /\ sent' = sent
    BY <1>2 DEF IInv, TypeOK, ListsMatch, Taken, Created
  <2> QED BY <2>1, <2>2, <2>3 DEF Shape
<1>3. ASSUME NEW item \in Items, Enqueue(item) \/ Write(item)
      PROVE  \/ Push(item) /\ UNCHANGED <<closed, streamClosed, locked, awaiting, got>>
             \/ UNCHANGED vars
  BY <1>3 DEF Enqueue, Write, vars
<1>4. closed \in BOOLEAN /\ streamClosed \in BOOLEAN /\ locked \in BOOLEAN
  BY DEF IInv, TypeOK
<1>5. CASE \E item \in Items : Enqueue(item) \/ Write(item)
  <2> PICK item \in Items : Enqueue(item) \/ Write(item)
    BY <1>5
  <2>1. CASE Push(item) /\ UNCHANGED <<closed, streamClosed, locked, awaiting, got>>
    BY <2>1, <1>1
  <2>2. CASE UNCHANGED vars
    BY <2>2, <1>2, <1>4 DEF vars
  <2> QED BY <1>3, <2>1, <2>2
<1>6. CASE GetWriter
  BY <1>6, <1>2, <1>4 DEF GetWriter
<1>7. CASE Close
  <2>1. closed' \in BOOLEAN /\ streamClosed' \in BOOLEAN /\ locked' \in BOOLEAN
    BY <1>7, <1>4 DEF Close
  <2> QED BY <1>7, <2>1, <1>2 DEF Close
<1> QED BY <1>5, <1>6, <1>7

(* So they preserve what is said of the readers.                           *)
LEMMA WriterInv ==
  ASSUME IInv,
         (\E item \in Items : Enqueue(item) \/ Write(item)) \/ GetWriter \/ Close
  PROVE  IInv'
<1>1. /\ Shape' /\ Taken' = Taken
      /\ awaiting' = awaiting /\ got' = got
      /\ Len(sent) <= Len(sent')
      /\ \A i \in 1 .. Len(sent) : sent'[i] = sent[i]
  BY WriterStep
<1>3. AwaitedOnce'
  BY <1>1 DEF AwaitedOnce, IInv
<1>4. DeliveredOnce'
  BY <1>1 DEF DeliveredOnce, IInv
<1>5. NothingLost'
  BY <1>1 DEF NothingLost, IInv
<1>6. FifoDelivery'
  <2> SUFFICES ASSUME NEW r \in Readers, NEW i \in 1 .. Len(got[r])
               PROVE  /\ got[r][i].promise <= Len(sent')
                      /\ got[r][i].item = sent'[got[r][i].promise]
    BY <1>1 DEF FifoDelivery
  <2>1. /\ got[r][i].promise <= Len(sent)
        /\ got[r][i].item = sent[got[r][i].promise]
    BY DEF FifoDelivery, IInv
  <2>2. got[r][i].promise \in Nat /\ got[r][i].promise >= 1
    BY DEF AwaitedOnce, IInv, Taken, Created, TypeOK
  <2>3. Len(sent) \in Nat /\ Len(sent') \in Nat
    BY <1>1 DEF Shape, IInv, TypeOK
  <2> QED BY <2>1, <2>2, <2>3, <1>1
<1> QED BY <1>1, <1>3, <1>4, <1>5, <1>6 DEF IInv, Shape

(* A reader that asks takes a promise nobody took before.                  *)
LEMMA CallInv ==
  ASSUME IInv, NEW r \in Readers, Next_Call(r)
  PROVE  IInv'
<1>1. /\ Shape' /\ Taken' = Taken + 1
      /\ awaiting' = [awaiting EXCEPT ![r] = Taken']
  BY CallShape DEF IInv
<1>2. got' = got /\ sent' = sent /\ awaiting[r] = NoPromise
  BY DEF Next_Call
<1>3. Taken \in Nat
  BY DEF IInv, TypeOK, ListsMatch, Taken, Created
<1>4. \A s \in Readers : awaiting'[s] = IF s = r THEN Taken + 1 ELSE awaiting[s]
  BY <1>1 DEF IInv, TypeOK
<1>5. \A s \in Readers : \A i \in 1 .. Len(got[s]) : got[s][i].promise \in 1 .. Taken
  BY DEF IInv, AwaitedOnce
<1>6. \A s \in Readers : awaiting[s] # NoPromise => awaiting[s] \in 1 .. Taken
  BY DEF IInv, AwaitedOnce
<1>7. Taken + 1 # NoPromise
  BY <1>3, NoPromiseAssumption
<1>8. AwaitedOnce'
  <2> SUFFICES ASSUME NEW s \in Readers
      PROVE  /\ \A i \in 1 .. Len(got[s]) : got[s][i].promise \in 1 .. (Taken + 1)
             /\ awaiting'[s] # NoPromise =>
                  /\ awaiting'[s] \in 1 .. (Taken + 1)
                  /\ \A i \in 1 .. Len(got[s]) : got[s][i].promise < awaiting'[s]
                  /\ \A t \in Readers \ {s} :
                       /\ awaiting'[t] # awaiting'[s]
                       /\ \A i \in 1 .. Len(got[t]) :
                            got[t][i].promise # awaiting'[s]
    BY <1>1, <1>2 DEF AwaitedOnce
  <2>1. CASE s = r
    BY <2>1, <1>3, <1>4, <1>5, <1>6, <1>7
  <2>2. CASE s # r
    BY <2>2, <1>3, <1>4, <1>5, <1>6 DEF IInv, AwaitedOnce
  <2> QED BY <2>1, <2>2
<1>9. DeliveredOnce' /\ FifoDelivery'
  BY <1>2 DEF DeliveredOnce, FifoDelivery, IInv
<1>10. NothingLost'
  <2> SUFFICES ASSUME NEW k \in 1 .. (Taken + 1)
      PROVE  \E s \in Readers :
                \/ awaiting'[s] = k
                \/ \E i \in 1 .. Len(got[s]) : got[s][i].promise = k
    BY <1>1, <1>2 DEF NothingLost
  <2>1. CASE k = Taken + 1
    BY <2>1, <1>4
  <2>2. CASE k \in 1 .. Taken
    <3> PICK s \in Readers :
                \/ awaiting[s] = k
                \/ \E i \in 1 .. Len(got[s]) : got[s][i].promise = k
      BY <2>2 DEF NothingLost, IInv
    <3>1. s = r => awaiting[s] # k
      BY <1>2, <2>2, NoPromiseAssumption
    <3> QED BY <3>1, <1>4
  <2> QED BY <2>1, <2>2, <1>3
<1> QED BY <1>1, <1>8, <1>9, <1>10 DEF IInv, Shape

(* A reader that resumes moves its promise from the awaited to the         *)
(* received ones.                                                          *)
LEMMA ReturnInv ==
  ASSUME IInv, NEW r \in Readers, Next_Return(r)
  PROVE  IInv'
<1> DEFINE e == [promise |-> awaiting[r], item |-> sent[awaiting[r]]]
<1>1. /\ Shape' /\ awaiting[r] \in 1 .. Len(sent)
      /\ got' = [got EXCEPT ![r] = Append(@, e)]
  BY ReturnShape DEF IInv
<1>2. /\ Taken' = Taken /\ sent' = sent /\ awaiting[r] # NoPromise
      /\ awaiting' = [awaiting EXCEPT ![r] = NoPromise]
  BY DEF Next_Return, Taken, Created
<1>3. Taken \in Nat /\ Len(sent) \in Nat
  BY DEF IInv, TypeOK, ListsMatch, Taken, Created
<1>4. \A s \in Readers : awaiting'[s] = IF s = r THEN NoPromise ELSE awaiting[s]
  BY <1>2 DEF IInv, TypeOK
<1>5. \A s \in Readers : s # r => got'[s] = got[s]
  BY <1>1 DEF IInv, TypeOK
<1>6. /\ Len(got[r]) \in Nat
      /\ Len(got'[r]) = Len(got[r]) + 1
      /\ \A i \in 1 .. Len(got[r]) : got'[r][i] = got[r][i]
      /\ got'[r][Len(got[r]) + 1] = e
  <2>1. got'[r] = Append(got[r], e)
    BY <1>1 DEF IInv, TypeOK
  <2>2. e \in [promise : Nat, item : Items]
    <3>1. sent[awaiting[r]] \in Items
      BY <1>1, ElementOfSeq DEF IInv, TypeOK
    <3> QED BY <3>1, <1>1, <1>3
  <2>3. got[r] \in Seq([promise : Nat, item : Items])
    BY DEF IInv, TypeOK
  <2> HIDE DEF e
  <2> QED BY <2>1, <2>2, <2>3, AppendProperties, LenProperties
<1>7. e.promise = awaiting[r] /\ e.item = sent[awaiting[r]]
  OBVIOUS
<1> HIDE DEF e
<1>8. /\ awaiting[r] \in 1 .. Taken
      /\ \A i \in 1 .. Len(got[r]) : got[r][i].promise < awaiting[r]
      /\ \A s \in Readers \ {r} :
           /\ awaiting[s] # awaiting[r]
           /\ \A i \in 1 .. Len(got[s]) : got[s][i].promise # awaiting[r]
  BY <1>2 DEF IInv, AwaitedOnce
<1>9. \A s \in Readers : \A i \in 1 .. Len(got'[s]) :
         \/ i \in 1 .. Len(got[s]) /\ got'[s][i] = got[s][i]
         \/ s = r /\ i = Len(got[r]) + 1 /\ got'[s][i] = e
  BY <1>5, <1>6
<1>10. AwaitedOnce'
  <2>1. \A s \in Readers : \A i \in 1 .. Len(got'[s]) : got'[s][i].promise \in 1 .. Taken
    BY <1>7, <1>8, <1>9 DEF IInv, AwaitedOnce
  <2>2. ASSUME NEW s \in Readers, awaiting'[s] # NoPromise
        PROVE  /\ awaiting'[s] \in 1 .. Taken
               /\ \A i \in 1 .. Len(got'[s]) : got'[s][i].promise < awaiting'[s]
               /\ \A t \in Readers \ {s} :
                    /\ awaiting'[t] # awaiting'[s]
                    /\ \A i \in 1 .. Len(got'[t]) :
                         got'[t][i].promise # awaiting'[s]
    <3>1. s # r /\ awaiting'[s] = awaiting[s] /\ got'[s] = got[s]
      BY <2>2, <1>4, <1>5
    <3>2. /\ awaiting[s] \in 1 .. Taken
          /\ \A i \in 1 .. Len(got[s]) : got[s][i].promise < awaiting[s]
          /\ \A t \in Readers \ {s} :
               /\ awaiting[t] # awaiting[s]
               /\ \A i \in 1 .. Len(got[t]) : got[t][i].promise # awaiting[s]
      BY <3>1, <2>2 DEF IInv, AwaitedOnce
    <3>3. \A t \in Readers \ {s} : awaiting'[t] # awaiting'[s]
      BY <3>1, <3>2, <1>4, <2>2
    <3>4. \A t \in Readers \ {s} : \A i \in 1 .. Len(got'[t]) :
             got'[t][i].promise # awaiting'[s]
      BY <3>1, <3>2, <1>7, <1>8, <1>9
    <3> QED BY <3>1, <3>2, <3>3, <3>4
  <2> QED BY <2>1, <2>2, <1>2 DEF AwaitedOnce
<1>11. FifoDelivery'
  BY <1>1, <1>2, <1>3, <1>7, <1>9 DEF FifoDelivery, IInv
<1>12. DeliveredOnce'
  <2>1. ASSUME NEW s \in Readers, NEW i \in 1 .. Len(got'[s]),
               NEW j \in 1 .. Len(got'[s]), i < j
        PROVE  got'[s][i].promise < got'[s][j].promise
    <3>1. i \in 1 .. Len(got[s]) /\ got'[s][i] = got[s][i]
      BY <2>1, <1>5, <1>6
    <3>2. CASE j \in 1 .. Len(got[s]) /\ got'[s][j] = got[s][j]
      BY <3>1, <3>2, <2>1 DEF DeliveredOnce, IInv
    <3>3. CASE s = r /\ got'[s][j] = e
      BY <3>1, <3>3, <1>7, <1>8
    <3> QED BY <3>2, <3>3, <1>9
  <2>2. ASSUME NEW s \in Readers, NEW t \in Readers, s # t,
               NEW i \in 1 .. Len(got'[s]), NEW j \in 1 .. Len(got'[t])
        PROVE  got'[s][i].promise # got'[t][j].promise
    <3>1. CASE s # r /\ t # r
      BY <3>1, <2>2, <1>5 DEF DeliveredOnce, IInv
    <3>2. CASE s = r
      <4>1. j \in 1 .. Len(got[t]) /\ got'[t][j] = got[t][j]
        BY <3>2, <2>2, <1>5
      <4>2. CASE i \in 1 .. Len(got[r]) /\ got'[s][i] = got[r][i]
        BY <3>2, <4>1, <4>2, <2>2 DEF DeliveredOnce, IInv
      <4>3. CASE got'[s][i] = e
        BY <3>2, <4>1, <4>3, <2>2, <1>7, <1>8
      <4> QED BY <3>2, <4>2, <4>3, <1>9
    <3>3. CASE t = r
      <4>1. i \in 1 .. Len(got[s]) /\ got'[s][i] = got[s][i]
        BY <3>3, <2>2, <1>5
      <4>2. CASE j \in 1 .. Len(got[r]) /\ got'[t][j] = got[r][j]
        BY <3>3, <4>1, <4>2, <2>2 DEF DeliveredOnce, IInv
      <4>3. CASE got'[t][j] = e
        BY <3>3, <4>1, <4>3, <2>2, <1>7, <1>8
      <4> QED BY <3>3, <4>2, <4>3, <1>9
    <3> QED BY <3>1, <3>2, <3>3
  <2> QED BY <2>1, <2>2 DEF DeliveredOnce
<1>13. NothingLost'
  <2> SUFFICES ASSUME NEW k \in 1 .. Taken
      PROVE  \E s \in Readers :
                \/ awaiting'[s] = k
                \/ \E i \in 1 .. Len(got'[s]) : got'[s][i].promise = k
    BY <1>2 DEF NothingLost
  <2> PICK s \in Readers :
                \/ awaiting[s] = k
                \/ \E i \in 1 .. Len(got[s]) : got[s][i].promise = k
    BY DEF NothingLost, IInv
  <2>1. CASE s = r /\ awaiting[s] = k
    <3> WITNESS r \in Readers
    <3>1. Len(got[r]) + 1 \in 1 .. Len(got'[r]) /\ got'[r][Len(got[r]) + 1].promise = k
      BY <2>1, <1>6, <1>7
    <3> QED BY <3>1
  <2>2. CASE s # r /\ awaiting[s] = k
    BY <2>2, <1>4
  <2>3. CASE \E i \in 1 .. Len(got[s]) : got[s][i].promise = k
    BY <2>3, <1>5, <1>6
  <2> QED BY <2>1, <2>2, <2>3
<1> QED BY <1>1, <1>10, <1>11, <1>12, <1>13 DEF IInv, Shape

-----------------------------------------------------------------------------
(* Init establishes the invariant.                                         *)
LEMMA InitInv == Init => IInv
<1> SUFFICES ASSUME Init PROVE IInv
  OBVIOUS
<1>1. TypeOK
  <2>1. got \in [Readers -> Seq([promise : Nat, item : Items])]
    <3>1. <<>> \in Seq([promise : Nat, item : Items])
      BY EmptySeq
    <3> QED BY <3>1 DEF Init
  <2>2. awaiting \in [Readers -> Nat \cup {NoPromise}]
    BY DEF Init
  <2> QED BY <2>1, <2>2, EmptySeq DEF Init, TypeOK
<1>2. ListsMatch /\ SettledInOrder
  BY DEF Init, ListsMatch, SettledInOrder, Created
<1>3. Taken = 0
  BY DEF Init, Taken, Created
<1>4. AwaitedOnce /\ DeliveredOnce /\ FifoDelivery /\ NothingLost
  BY <1>3 DEF Init, AwaitedOnce, DeliveredOnce, FifoDelivery, NothingLost
<1> QED BY <1>1, <1>2, <1>4 DEF IInv

(* Every step keeps it.                                                    *)
LEMMA StepInv == IInv /\ [Next]_vars => IInv'
<1> SUFFICES ASSUME IInv, [Next]_vars PROVE IInv'
  OBVIOUS
<1>1. CASE (\E item \in Items : Enqueue(item) \/ Write(item)) \/ GetWriter \/ Close
  BY <1>1, WriterInv
<1>2. ASSUME NEW r \in Readers, Next_Call(r) PROVE IInv'
  BY <1>2, CallInv
<1>3. ASSUME NEW r \in Readers, Next_Return(r) PROVE IInv'
  BY <1>3, ReturnInv
<1>4. CASE UNCHANGED vars
  <2>1. TypeOK' /\ ListsMatch' /\ SettledInOrder'
    BY <1>4 DEF vars, IInv, TypeOK, ListsMatch, SettledInOrder, Created
  <2>2. AwaitedOnce' /\ NothingLost'
    BY <1>4 DEF vars, IInv, AwaitedOnce, NothingLost, Taken, Created
  <2>3. DeliveredOnce' /\ FifoDelivery'
    BY <1>4 DEF vars, IInv, DeliveredOnce, FifoDelivery
  <2> QED BY <2>1, <2>2, <2>3 DEF IInv
<1> QED BY <1>1, <1>2, <1>3, <1>4 DEF Next

(* So it holds in every reachable state.                                   *)
LEMMA Invariant == Spec => []IInv
<1> QED BY InitInv, StepInv, PTL DEF Spec

(* The queue's fields have their types in every reachable state.           *)
THEOREM TypeCorrect == Spec => []TypeOK
<1>1. IInv => TypeOK
  BY DEF IInv
<1> QED BY <1>1, Invariant, PTL

(* However calls of writers and readers interleave, the n-th next() call   *)
(* of all the loops over the queue returns the n-th item accepted.         *)
THEOREM FifoCorrect == Spec => []FifoDelivery
<1>1. IInv => FifoDelivery
  BY DEF IInv
<1> QED BY <1>1, Invariant, PTL

(* No item is delivered to two loops, nor twice to one.                    *)
THEOREM DeliveredOnceCorrect == Spec => []DeliveredOnce
<1>1. IInv => DeliveredOnce
  BY DEF IInv
<1> QED BY <1>1, Invariant, PTL

(* An item taken off the queue is with a reader or on its way to one.      *)
THEOREM NothingLostCorrect == Spec => []NothingLost
<1>1. IInv => NothingLost
  BY DEF IInv
<1> QED BY <1>1, Invariant, PTL
-----------------------------------------------------------------------------
(* Who waits for what: an awaited promise exists, has been taken off its   *)
(* list, by one reader; a promise whose resolver is listed is pending and  *)
(* awaited.                                                                *)
Awaits ==
    /\ Len(settled) \in Nat /\ Len(promises) \in Nat /\ Len(resolvers) \in Nat
    /\ \A r \in Readers : awaiting[r] # NoPromise =>
         /\ awaiting[r] \in 1 .. Len(settled)
         /\ \A i \in 1 .. Len(promises) : awaiting[r] # promises[i]
         /\ \A s \in Readers : awaiting[s] = awaiting[r] => s = r
    /\ \A i \in 1 .. Len(promises) : promises[i] \in 1 .. Len(settled)
    /\ \A i \in 1 .. Len(resolvers) :
         /\ resolvers[i] \in 1 .. Len(settled)
         /\ settled[resolvers[i]] = NoItem
         /\ resolvers[i] # NoPromise
         /\ \E r \in Readers : awaiting[r] = resolvers[i]

(* The invariant says who waits for which promise.                         *)
LEMMA InvAwaits == IInv => Awaits
<1> SUFFICES ASSUME IInv PROVE Awaits
  OBVIOUS
<1>1. Len(settled) \in Nat /\ Len(promises) \in Nat /\ Len(resolvers) \in Nat
        /\ Len(sent) \in Nat
  BY DEF IInv, TypeOK
<1>2. Taken \in 0 .. Len(settled) /\ Taken = Len(settled) - Len(promises)
  BY <1>1 DEF IInv, ListsMatch, Taken, Created
<1>3. \A i \in 1 .. Len(promises) :
         promises[i] \in 1 .. Len(settled) /\ promises[i] > Taken
  BY <1>1, <1>2 DEF IInv, ListsMatch, Created
<1>4. ASSUME NEW r \in Readers, awaiting[r] # NoPromise
      PROVE  /\ awaiting[r] \in 1 .. Len(settled)
             /\ \A i \in 1 .. Len(promises) : awaiting[r] # promises[i]
             /\ \A s \in Readers : awaiting[s] = awaiting[r] => s = r
  <2>1. /\ awaiting[r] \in 1 .. Taken
        /\ \A s \in Readers \ {r} : awaiting[s] # awaiting[r]
    BY <1>4 DEF IInv, AwaitedOnce
  <2> QED BY <2>1, <1>1, <1>2, <1>3
<1>5. ASSUME NEW i \in 1 .. Len(resolvers)
      PROVE  /\ resolvers[i] \in 1 .. Len(settled)
             /\ settled[resolvers[i]] = NoItem
             /\ resolvers[i] # NoPromise
             /\ \E r \in Readers : awaiting[r] = resolvers[i]
  <2>1. /\ resolvers[i] \in 1 .. Len(settled)
        /\ resolvers[i] > Len(sent)
        /\ Len(promises) = 0
    <3>1. resolvers # <<>>
      BY <1>1
    <3>2. promises = <<>>
      BY <3>1 DEF IInv, ListsMatch
    <3>3. Len(promises) = 0
      BY <3>2
    <3> QED BY <3>3, <1>1 DEF IInv, ListsMatch, SettledInOrder, Created
  <2>2. settled[resolvers[i]] = NoItem
    BY <2>1, <1>1 DEF IInv, SettledInOrder, Created
  <2>3. resolvers[i] # NoPromise
    BY <2>1, NoPromiseAssumption
  <2>4. resolvers[i] \in 1 .. Taken
    BY <2>1, <1>1, <1>2
  <2>5. PICK r \in Readers :
            \/ awaiting[r] = resolvers[i]
            \/ \E j \in 1 .. Len(got[r]) : got[r][j].promise = resolvers[i]
    BY <2>4 DEF IInv, NothingLost
  <2>6. \A j \in 1 .. Len(got[r]) : got[r][j].promise <= Len(sent)
    BY DEF IInv, FifoDelivery
  <2>7. awaiting[r] = resolvers[i]
    BY <2>1, <2>5, <2>6, <1>1
  <2> QED BY <2>1, <2>2, <2>3, <2>7
<1> QED BY <1>1, <1>3, <1>4, <1>5 DEF Awaits

(* What the channel's variables hold, element by element.                  *)
Views ==
    /\ Buffer \in Seq(Items \cup {NoItem})
    /\ Len(Buffer) = Len(promises)
    /\ \A i \in 1 .. Len(promises) : Buffer[i] = settled[promises[i]]
    /\ Waiters \in Seq(Readers)
    /\ Len(Waiters) = Len(resolvers)
    /\ \A i \in 1 .. Len(resolvers) : awaiting[Waiters[i]] = resolvers[i]

(* It makes the three views of the lists what the channel has.             *)
LEMMA InvViews == IInv => Views
<1> SUFFICES ASSUME IInv PROVE Views
  OBVIOUS
<1>1. Awaits
  BY InvAwaits
<1>2. settled \in Seq(Items \cup {NoItem})
  BY DEF IInv, TypeOK
<1>3. /\ Buffer \in Seq(Items \cup {NoItem})
      /\ Len(Buffer) = Len(promises)
      /\ \A i \in 1 .. Len(promises) : Buffer[i] = settled[promises[i]]
  <2>1. \A i \in 1 .. Len(promises) : settled[promises[i]] \in Items \cup {NoItem}
    BY <1>1, <1>2, ElementOfSeq DEF Awaits
  <2> QED BY <2>1, <1>1 DEF Buffer, Awaits
<1>4. \A i \in 1 .. Len(resolvers) :
         Waiter(resolvers[i]) \in Readers /\ awaiting[Waiter(resolvers[i])] = resolvers[i]
  BY <1>1 DEF Awaits, Waiter
<1>5. /\ Waiters \in Seq(Readers)
      /\ Len(Waiters) = Len(resolvers)
      /\ \A i \in 1 .. Len(resolvers) : awaiting[Waiters[i]] = resolvers[i]
  BY <1>1, <1>4 DEF Waiters, Awaits
<1> QED BY <1>3, <1>5 DEF Views

(* Likewise in the next state.                                             *)
LEMMA NextViews == IInv' => Awaits' /\ Views'
<1> QED BY InvAwaits, InvViews, PTL

(* A reader that waits, and goes on waiting for the same promise, keeps    *)
(* its place among those who wait.                                         *)
LEMMA SameWaiters ==
  ASSUME Awaits, Views, Awaits', Views', resolvers' = resolvers,
         \A r \in Readers : \A i \in 1 .. Len(resolvers) :
             awaiting[r] = resolvers[i] => awaiting'[r] = resolvers[i]
  PROVE  Waiters' = Waiters
<1>1. ASSUME NEW i \in 1 .. Len(Waiters')
      PROVE  Waiters'[i] = Waiters[i]
  <2>1. i \in 1 .. Len(resolvers)
    BY <1>1 DEF Views
  <2>2. Waiters[i] \in Readers /\ Waiters'[i] \in Readers
    BY <2>1, ElementOfSeq DEF Views
  <2>3. /\ awaiting'[Waiters[i]] = resolvers[i]
        /\ awaiting'[Waiters'[i]] = resolvers[i]
        /\ resolvers[i] # NoPromise
    <3>1. awaiting[Waiters[i]] = resolvers[i]
      BY <2>1 DEF Views
    <3>2. awaiting'[Waiters'[i]] = resolvers'[i]
      BY <2>1 DEF Views
    <3>3. resolvers[i] # NoPromise
      BY <2>1 DEF Awaits
    <3> QED BY <3>1, <3>2, <3>3, <2>1, <2>2
  <2> QED BY <2>2, <2>3 DEF Awaits
<1> QED BY <1>1, SeqEqual DEF Views

-----------------------------------------------------------------------------
(* Accepting an item puts it into the buffer or into a reader's hand.      *)
LEMMA PushPuts ==
  ASSUME IInv, IInv', NEW item \in Items, Push(item), UNCHANGED awaiting
  PROVE  Channel!Put(item)
<1>1. Awaits /\ Views /\ Awaits' /\ Views'
  BY InvAwaits, InvViews, NextViews
<1>2. /\ settled \in Seq(Items \cup {NoItem}) /\ promises \in Seq(Nat)
      /\ resolvers \in Seq(Nat)
  BY DEF IInv, TypeOK
<1>3. CASE resolvers = <<>> /\ promises' = Append(promises, Len(settled) + 1)
  <2>1. /\ resolvers = <<>> /\ resolvers' = resolvers
        /\ promises' = Append(promises, Len(settled) + 1)
        /\ settled' = Append(settled, item)
    BY <1>2, <1>3 DEF Push
  <2>2. /\ Len(promises') = Len(promises) + 1
        /\ \A i \in 1 .. Len(promises) : promises'[i] = promises[i]
        /\ promises'[Len(promises) + 1] = Len(settled) + 1
    BY <2>1, <1>2, AppendProperties
  <2>3. /\ \A k \in 1 .. Len(settled) : settled'[k] = settled[k]
        /\ settled'[Len(settled) + 1] = item
    BY <2>1, <1>2, AppendProperties
  <2>4. Buffer' = Append(Buffer, item)
    <3> DEFINE b == Append(Buffer, item)
    <3>1. /\ b \in Seq(Items \cup {NoItem})
          /\ Len(b) = Len(Buffer) + 1
          /\ \A i \in 1 .. Len(Buffer) : b[i] = Buffer[i]
          /\ b[Len(Buffer) + 1] = item
      BY <1>1, AppendProperties DEF Views
    <3> HIDE DEF b
    <3>2. ASSUME NEW i \in 1 .. Len(Buffer')
          PROVE  Buffer'[i] = b[i]
      <4>1. Buffer'[i] = settled'[promises'[i]] /\ i \in 1 .. Len(promises) + 1
        BY <3>2, <1>1, <2>2 DEF Views
      <4>2. Len(Buffer) = Len(promises) /\ Len(promises) \in Nat
        BY <1>1 DEF Views, Awaits
      <4>3. CASE i = Len(promises) + 1
        BY <4>1, <4>2, <4>3, <3>1, <2>2, <2>3
      <4>4. CASE i \in 1 .. Len(promises)
        <5>1. promises'[i] = promises[i] /\ promises[i] \in 1 .. Len(settled)
          BY <4>4, <2>2, <1>1 DEF Awaits
        <5>2. Buffer'[i] = settled[promises[i]]
          BY <5>1, <4>1, <2>3
        <5>3. Buffer[i] = settled[promises[i]]
          BY <4>4, <1>1 DEF Views
        <5> QED BY <5>2, <5>3, <4>2, <4>4, <3>1
      <4> QED BY <4>1, <4>2, <4>3, <4>4
    <3>3. Len(Buffer') = Len(b)
      BY <3>1, <2>2, <1>1 DEF Views
    <3>4. Buffer' \in Seq(Items \cup {NoItem})
      BY <1>1 DEF Views
    <3>5. Buffer' = b
      BY <3>1, <3>2, <3>3, <3>4, SeqEqual
    <3> QED BY <3>5 DEF b
  <2>5. Waiters' = Waiters
    BY <1>1, <2>1, SameWaiters
  <2>6. Hand' = Hand
    <3>1. \A r \in Readers : awaiting[r] # NoPromise =>
              settled'[awaiting[r]] = settled[awaiting[r]]
      BY <1>1, <2>3 DEF Awaits
    <3> QED BY <3>1 DEF Hand
  <2>7. Waiters = <<>>
    BY <2>1, <1>1, EmptySeq DEF Views
  <2> QED BY <2>4, <2>5, <2>6, <2>7 DEF Channel!Put
<1>4. CASE resolvers # <<>>
  <2>1. /\ settled' = [settled EXCEPT ![Head(resolvers)] = item]
        /\ resolvers' = Tail(resolvers)
        /\ promises' = promises
    BY <1>4 DEF Push
  <2>2. /\ Head(resolvers) = resolvers[1] /\ 1 \in 1 .. Len(resolvers)
        /\ Len(resolvers') = Len(resolvers) - 1
        /\ \A i \in 1 .. Len(resolvers') : resolvers'[i] = resolvers[i + 1]
    BY <2>1, <1>2, <1>4
  <2>3. promises = <<>>
    BY <1>4 DEF IInv, ListsMatch
  <2>4. Buffer = <<>> /\ Buffer' = <<>>
    BY <2>1, <2>3, <1>1, EmptySeq DEF Views
  <2>5. Waiters # <<>> /\ Head(Waiters) = Waiters[1] /\ Waiters[1] \in Readers
          /\ awaiting[Waiters[1]] = Head(resolvers)
    BY <2>2, <1>1 DEF Views, Awaits
  <2>6. Waiters' = Tail(Waiters)
    <3>1. /\ Tail(Waiters) \in Seq(Readers)
          /\ Len(Tail(Waiters)) = Len(Waiters) - 1
          /\ \A i \in 1 .. Len(Tail(Waiters)) : Tail(Waiters)[i] = Waiters[i + 1]
      BY <2>5, <1>1, HeadTailProperties DEF Views
    <3>2. ASSUME NEW i \in 1 .. Len(Waiters')
          PROVE  Waiters'[i] = Tail(Waiters)[i]
      <4>1. /\ i \in 1 .. Len(resolvers') /\ i + 1 \in 1 .. Len(resolvers)
            /\ i \in 1 .. Len(Tail(Waiters))
        BY <3>1, <3>2, <2>2, <1>1 DEF Views, Awaits
      <4>2. Waiters'[i] \in Readers /\ Waiters[i + 1] \in Readers
        BY <4>1, <1>1, ElementOfSeq DEF Views
      <4>3. /\ awaiting[Waiters'[i]] = resolvers[i + 1]
            /\ awaiting[Waiters[i + 1]] = resolvers[i + 1]
            /\ resolvers[i + 1] # NoPromise
        BY <4>1, <2>2, <1>1 DEF Views, Awaits
      <4>4. Waiters'[i] = Waiters[i + 1]
        BY <4>2, <4>3, <1>1 DEF Awaits
      <4> QED BY <4>1, <4>4, <3>1
    <3>3. Len(Waiters') = Len(Tail(Waiters)) /\ Waiters' \in Seq(Readers)
      BY <3>1, <2>2, <1>1 DEF Views
    <3> DEFINE w == Tail(Waiters)
    <3> HIDE DEF w
    <3>4. w \in Seq(Readers) /\ Len(Waiters') = Len(w)
            /\ \A i \in 1 .. Len(Waiters') : Waiters'[i] = w[i]
      BY <3>1, <3>2, <3>3 DEF w
    <3>5. Waiters' = w
      BY <3>3, <3>4, SeqEqual
    <3> QED BY <3>5 DEF w
  <2>7. Hand' = [Hand EXCEPT ![Head(Waiters)] = item]
    <3>1. ASSUME NEW r \in Readers
          PROVE  Hand'[r] = IF r = Waiters[1] THEN item ELSE Hand[r]
      <4>1. CASE r = Waiters[1]
        BY <4>1, <2>1, <2>2, <2>5, <1>1, <1>2 DEF Hand, Awaits
      <4>2. CASE r # Waiters[1] /\ awaiting[r] # NoPromise
        <5>1. awaiting[r] # Head(resolvers)
          BY <4>2, <2>5, <1>1 DEF Awaits
        <5>2. settled'[awaiting[r]] = settled[awaiting[r]]
          BY <5>1, <4>2, <2>1, <1>1, <1>2 DEF Awaits
        <5> QED BY <5>2, <4>2 DEF Hand
      <4>3. CASE r # Waiters[1] /\ awaiting[r] = NoPromise
        BY <4>3 DEF Hand
      <4> QED BY <4>1, <4>2, <4>3
    <3>2. Hand = [r \in Readers |-> Hand[r]] /\ Hand' = [r \in Readers |-> Hand'[r]]
      BY DEF Hand
    <3> QED BY <3>1, <3>2, <2>5
  <2> QED BY <2>4, <2>5, <2>6, <2>7 DEF Channel!Put
<1> QED BY <1>3, <1>4 DEF Push

-----------------------------------------------------------------------------
(* What the hand of a reader holds.                                        *)
LEMMA HandIs ==
  /\ \A r \in Readers : Hand[r] = IF awaiting[r] = NoPromise
                                  THEN NoItem ELSE settled[awaiting[r]]
  /\ Hand = [r \in Readers |-> Hand[r]]
BY DEF Hand

(* next() lets its reader wait, or takes what is buffered into its hand.   *)
LEMMA CallAsks ==
  ASSUME IInv, IInv', NEW r \in Readers, Next_Call(r)
  PROVE  Channel!Ask(r)
<1>1. Awaits /\ Views /\ Awaits' /\ Views'
  BY InvAwaits, InvViews, NextViews
<1>2. /\ settled \in Seq(Items \cup {NoItem}) /\ promises \in Seq(Nat)
      /\ resolvers \in Seq(Nat) /\ awaiting \in [Readers -> Nat \cup {NoPromise}]
  BY DEF IInv, TypeOK
<1>3. awaiting[r] = NoPromise
  BY DEF Next_Call
<1>4. Channel!Idle(r)
  <2>1. Hand[r] = NoItem
    BY <1>3 DEF Hand
  <2>2. ASSUME NEW i \in 1 .. Len(Waiters) PROVE Waiters[i] # r
    BY <2>2, <1>1, <1>3 DEF Views, Awaits
  <2> QED BY <2>1, <2>2 DEF Channel!Idle
<1>5. CASE promises = <<>> /\ settled' = Append(settled, NoItem)
  <2>1. /\ promises = <<>> /\ promises' = promises
        /\ settled' = Append(settled, NoItem)
        /\ resolvers' = Append(resolvers, Len(settled) + 1)
        /\ awaiting' = [awaiting EXCEPT ![r] = Len(settled) + 1]
    BY <1>5 DEF Next_Call
  <2>2. Buffer = <<>> /\ Buffer' = <<>>
    BY <2>1, <1>1, EmptySeq DEF Views
  <2>3. /\ Len(resolvers') = Len(resolvers) + 1
        /\ \A i \in 1 .. Len(resolvers) : resolvers'[i] = resolvers[i]
        /\ resolvers'[Len(resolvers) + 1] = Len(settled) + 1
        /\ \A k \in 1 .. Len(settled) : settled'[k] = settled[k]
        /\ settled'[Len(settled) + 1] = NoItem
    BY <2>1, <1>2, AppendProperties
  <2>4. \A s \in Readers : awaiting'[s] = IF s = r THEN Len(settled) + 1 ELSE awaiting[s]
    BY <2>1, <1>2
  <2>5. Waiters' = Append(Waiters, r)
    <3> DEFINE w == Append(Waiters, r)
    <3>1. /\ w \in Seq(Readers)
          /\ Len(w) = Len(Waiters) + 1
          /\ \A i \in 1 .. Len(Waiters) : w[i] = Waiters[i]
          /\ w[Len(Waiters) + 1] = r
      BY <1>1, AppendProperties DEF Views
    <3> HIDE DEF w
    <3>2. Len(Waiters) = Len(resolvers) /\ Len(resolvers) \in Nat
            /\ Len(Waiters') = Len(resolvers) + 1
      BY <2>3, <1>1 DEF Views, Awaits
    <3>3. ASSUME NEW i \in 1 .. Len(Waiters')
          PROVE  Waiters'[i] = w[i]
      <4>1. /\ i \in 1 .. Len(resolvers') /\ Waiters'[i] \in Readers
            /\ awaiting'[Waiters'[i]] = resolvers'[i] /\ resolvers'[i] # NoPromise
        BY <3>2, <3>3, <1>1, <2>3, ElementOfSeq DEF Views, Awaits
      <4>2. CASE i = Len(resolvers) + 1
        <5>1. w[i] = r /\ awaiting'[r] = resolvers'[i]
          BY <4>2, <3>1, <3>2, <2>3, <2>4
        <5> QED BY <5>1, <4>1, <1>1 DEF Awaits
      <4>3. CASE i \in 1 .. Len(resolvers)
        <5>1. w[i] = Waiters[i] /\ Waiters[i] \in Readers
          BY <4>3, <3>1, <3>2, <1>1, ElementOfSeq DEF Views
        <5>2. awaiting[Waiters[i]] = resolvers'[i]
          BY <4>3, <2>3, <1>1 DEF Views
        <5>3. Waiters[i] # r
          BY <5>2, <4>1, <1>3
        <5>4. awaiting'[Waiters[i]] = resolvers'[i]
          BY <5>1, <5>2, <5>3, <2>4
        <5> QED BY <5>1, <5>4, <4>1, <1>1 DEF Awaits
      <4> QED BY <4>2, <4>3, <3>2, <3>3
    <3>4. Waiters' \in Seq(Readers) /\ Len(Waiters') = Len(w)
      BY <3>1, <3>2, <1>1 DEF Views
    <3>5. Waiters' = w
      BY <3>1, <3>3, <3>4, SeqEqual
    <3> QED BY <3>5 DEF w
  <2>6. Hand' = Hand
    <3>1. ASSUME NEW s \in Readers
          PROVE  (IF awaiting'[s] = NoPromise THEN NoItem ELSE settled'[awaiting'[s]])
                    = (IF awaiting[s] = NoPromise THEN NoItem ELSE settled[awaiting[s]])
      <4>1. CASE s = r
        BY <4>1, <2>3, <2>4, <1>3
      <4>2. CASE s # r
        BY <4>2, <2>3, <2>4, <1>1 DEF Awaits
      <4> QED BY <4>1, <4>2
    <3> QED BY <3>1 DEF Hand
  <2> QED BY <1>4, <2>2, <2>5, <2>6 DEF Channel!Ask
<1>6. CASE promises # <<>>
  <2>1. /\ promises' = Tail(promises)
        /\ awaiting' = [awaiting EXCEPT ![r] = Head(promises)]
        /\ resolvers' = resolvers /\ settled' = settled
    BY <1>6 DEF Next_Call
  <2>2. /\ Head(promises) = promises[1] /\ 1 \in 1 .. Len(promises)
        /\ Len(promises') = Len(promises) - 1
        /\ \A i \in 1 .. Len(promises') : promises'[i] = promises[i + 1]
    BY <2>1, <1>2, <1>6
  <2>3. \A s \in Readers : awaiting'[s] = IF s = r THEN promises[1] ELSE awaiting[s]
    BY <2>1, <2>2, <1>2
  <2>4. /\ Buffer # <<>> /\ Head(Buffer) = Buffer[1]
        /\ Buffer[1] = settled[promises[1]]
        /\ promises[1] # NoPromise
    <3>1. promises[1] # NoPromise
      BY <2>2, <1>1, NoPromiseAssumption DEF Awaits
    <3> QED BY <3>1, <2>2, <1>1 DEF Views, Awaits
  <2>5. Buffer' = Tail(Buffer)
    <3> DEFINE b == Tail(Buffer)
    <3>1. /\ b \in Seq(Items \cup {NoItem})
          /\ Len(b) = Len(Buffer) - 1
          /\ \A i \in 1 .. Len(b) : b[i] = Buffer[i + 1]
      BY <2>4, <1>1, HeadTailProperties DEF Views
    <3> HIDE DEF b
    <3>2. /\ Buffer' \in Seq(Items \cup {NoItem}) /\ Len(Buffer') = Len(b)
          /\ Len(Buffer') = Len(promises')
      BY <3>1, <2>2, <1>1 DEF Views
    <3>3. ASSUME NEW i \in 1 .. Len(Buffer')
          PROVE  Buffer'[i] = b[i]
      <4>1. i \in 1 .. Len(promises') /\ i + 1 \in 1 .. Len(promises)
        BY <3>2, <3>3, <2>2, <1>1 DEF Awaits
      <4>2. Buffer'[i] = settled[promises[i + 1]]
        <5>1. Buffer'[i] = settled'[promises'[i]]
          BY <4>1, <1>1 DEF Views
        <5>2. settled' = settled /\ promises'[i] = promises[i + 1]
          BY <4>1, <2>1, <2>2
        <5> QED BY <5>1, <5>2
      <4>3. b[i] = settled[promises[i + 1]]
        BY <4>1, <3>1, <3>2, <3>3, <1>1 DEF Views
      <4> QED BY <4>2, <4>3
    <3>4. Buffer' = b
      BY <3>1, <3>2, <3>3, SeqEqual
    <3> QED BY <3>4 DEF b
  <2>6. Waiters' = Waiters
    <3>1. resolvers = <<>>
      BY <1>6 DEF IInv, ListsMatch
    <3>2. Waiters = <<>> /\ Waiters' = <<>>
      BY <3>1, <2>1, <1>1, EmptySeq DEF Views
    <3> QED BY <3>2
  <2>7. Hand' = [Hand EXCEPT ![r] = Head(Buffer)]
    <3>1. ASSUME NEW s \in Readers
          PROVE  (IF awaiting'[s] = NoPromise THEN NoItem ELSE settled'[awaiting'[s]])
                    = (IF s = r THEN Head(Buffer) ELSE Hand[s])
      BY <2>1, <2>3, <2>4, HandIs
    <3>2. Hand' = [s \in Readers |-> IF s = r THEN Head(Buffer) ELSE Hand[s]]
      BY <3>1 DEF Hand
    <3> QED BY <3>2, HandIs
  <2> QED BY <1>4, <2>4, <2>5, <2>6, <2>7 DEF Channel!Ask
<1> QED BY <1>5, <1>6 DEF Next_Call

(* The continuation of next() looks at the item in the hand.               *)
LEMMA ReturnLooks ==
  ASSUME IInv, IInv', NEW r \in Readers, Next_Return(r)
  PROVE  Channel!Look(r)
<1>1. Awaits /\ Views /\ Awaits' /\ Views'
  BY InvAwaits, InvViews, NextViews
<1>2. /\ awaiting[r] # NoPromise /\ settled[awaiting[r]] # NoItem
      /\ promises' = promises /\ resolvers' = resolvers /\ settled' = settled
      /\ \A s \in Readers : awaiting'[s] = IF s = r THEN NoPromise ELSE awaiting[s]
  BY DEF Next_Return, IInv, TypeOK
<1>3. Hand[r] # NoItem
  BY <1>2, HandIs
<1>4. Hand' = [Hand EXCEPT ![r] = NoItem]
  <2>1. ASSUME NEW s \in Readers
        PROVE  (IF awaiting'[s] = NoPromise THEN NoItem ELSE settled'[awaiting'[s]])
                  = (IF s = r THEN NoItem ELSE Hand[s])
    BY <1>2, HandIs
  <2>2. Hand' = [s \in Readers |-> IF s = r THEN NoItem ELSE Hand[s]]
    BY <2>1 DEF Hand
  <2> QED BY <2>2, HandIs
<1>5. Buffer' = Buffer
  BY <1>2 DEF Buffer
<1>6. Waiters' = Waiters
  <2>1. ASSUME NEW s \in Readers, NEW i \in 1 .. Len(resolvers),
               awaiting[s] = resolvers[i]
        PROVE  awaiting'[s] = resolvers[i]
    BY <2>1, <1>1, <1>2 DEF Awaits
  <2> QED BY <2>1, <1>1, <1>2, SameWaiters
<1> QED BY <1>3, <1>4, <1>5, <1>6 DEF Channel!Look

-----------------------------------------------------------------------------
(* The channel starts empty, with nobody waiting.                          *)
LEMMA InitChannel == Init => Channel!Init
<1> SUFFICES ASSUME Init PROVE Channel!Init
  OBVIOUS
<1>1. Views
  BY InitInv, InvViews
<1>2. Buffer = <<>> /\ Waiters = <<>>
  BY <1>1, EmptySeq DEF Init, Views
<1>3. Hand = [r \in Readers |-> NoItem]
  BY DEF Init, Hand
<1> QED BY <1>2, <1>3 DEF Channel!Init

(* What leaves the lists alone leaves the channel alone.                   *)
LEMMA Unseen ==
  UNCHANGED <<promises, resolvers, settled, awaiting>> =>
      UNCHANGED <<Buffer, Waiters, Hand>>
BY DEF Buffer, Waiters, Waiter, Hand

(* Every step of the queue is a step of the channel or none.               *)
LEMMA StepChannel == IInv /\ IInv' /\ [Next]_vars => [Channel!Next]_<<Buffer, Waiters, Hand>>
<1> SUFFICES ASSUME IInv, IInv', [Next]_vars
             PROVE  Channel!Next \/ UNCHANGED <<Buffer, Waiters, Hand>>
  OBVIOUS
<1>1. ASSUME NEW item \in Items, Enqueue(item) \/ Write(item)
      PROVE  Channel!Next \/ UNCHANGED <<Buffer, Waiters, Hand>>
  <2>1. \/ Push(item) /\ awaiting' = awaiting
        \/ UNCHANGED <<promises, resolvers, settled, awaiting>>
    BY <1>1 DEF Enqueue, Write
  <2>2. CASE Push(item) /\ awaiting' = awaiting
    BY <2>2, PushPuts DEF Channel!Next
  <2>3. CASE UNCHANGED <<promises, resolvers, settled, awaiting>>
    BY <2>3, Unseen
  <2> QED BY <2>1, <2>2, <2>3
<1>2. ASSUME NEW r \in Readers, Next_Call(r)
      PROVE  Channel!Next
  BY <1>2, CallAsks DEF Channel!Next
<1>3. ASSUME NEW r \in Readers, Next_Return(r)
      PROVE  Channel!Next
  BY <1>3, ReturnLooks DEF Channel!Next
<1>4. CASE GetWriter \/ Close \/ UNCHANGED vars
  BY <1>4, Unseen DEF GetWriter, Close, vars
<1> QED BY <1>1, <1>2, <1>3, <1>4 DEF Next

(* Whatever the interleaving of readers and writers, what the queue does   *)
(* to its two lists is what a FIFO channel with blocking readers does: the *)
(* channel that the loops over the three queues of the editor rely on.     *)
THEOREM ChannelCorrect == Spec => Channel!Spec
<1>1. Init => Channel!Init
  BY InitChannel
<1>2. IInv /\ IInv' /\ [Next]_vars => [Channel!Next]_<<Buffer, Waiters, Hand>>
  BY StepChannel
<1>3. Spec => []IInv
  BY Invariant
<1> QED BY <1>1, <1>2, <1>3, PTL DEF Spec, Channel!Spec, Channel!chanVars
=============================================================================
