------------------------- MODULE ApplicationState_proofs -------------------------
(***************************************************************************)
(* Proofs about ApplicationState, for any threads, any batches and any     *)
(* length of the finished list.  The inductive invariant says which thread *)
(* is inside the mutex of the finished list, and what the list is while a  *)
(* worker is between its append and its trim.                              *)
(***************************************************************************)
EXTENDS ApplicationState, SequenceTheorems, TLAPS

(* The inductive invariant *)

InList == {"append", "trim", "unlock", "copy", "got"}

\* The holder of the list's mutex is the thread inside it.
ListLocked == \A t \in Threads : pc[t] \in InList <=> encoded_queue_lock = t

\* Workers and readers keep to their own labels.
OwnLabels == /\ \A w \in Workers : pc[w] \notin {"get", "copy", "got"}
             /\ \A r \in Readers : pc[r] \in {"idle", "get", "copy", "got"}

\* A worker that is publishing has something to publish.
HasItem == \A w \in Workers : pc[w] \in {"stamp", "finish", "append"} => ret[w] # <<>>

\* The list is the window, but for one element between append and trim.
Window == /\ LastOf(encoded_queue, ItemsInFinishedList)
               = LastOf(published, ItemsInFinishedList)
          /\ (\A w \in Workers : pc[w] # "trim") =>
               encoded_queue = LastOf(published, ItemsInFinishedList)

IInv == TypeOK /\ ListLocked /\ OwnLabels /\ HasItem /\ Window
-------------------------------------------------------------------------------
(* Array#last *)

(* last(n) gives elements of the array, at most n of them. *)
LEMMA LastOfType ==
  ASSUME NEW S, NEW s \in Seq(S), NEW n \in Nat
  PROVE  /\ LastOf(s, n) \in Seq(S)
         /\ Len(LastOf(s, n)) = IF Len(s) <= n THEN Len(s) ELSE n
         /\ \A i \in 1..Len(LastOf(s, n)) :
              LastOf(s, n)[i] = s[Len(s) - Len(LastOf(s, n)) + i]
<1>1. CASE Len(s) <= n
  BY <1>1 DEF LastOf
<1>2. CASE ~(Len(s) <= n)
  <2> DEFINE m == Len(s) - n + 1
  <2>1. m \in 1..(Len(s) + 1) /\ Len(s) \in (m - 1)..Len(s) /\ Len(s) - m + 1 = n
    BY <1>2
  <2>2. LastOf(s, n) = SubSeq(s, m, Len(s))
    BY <1>2 DEF LastOf
  <2>3. /\ SubSeq(s, m, Len(s)) \in Seq(S)
        /\ Len(SubSeq(s, m, Len(s))) = n
        /\ \A i \in 1..n : SubSeq(s, m, Len(s))[i] = s[m + i - 1]
    BY <2>1, SubSeqProperties
  <2>4. \A i \in 1..n : m + i - 1 = Len(s) - n + i
    BY <1>2
  <2> QED  BY <1>2, <2>2, <2>3, <2>4
<1> QED  BY <1>1, <1>2

(* A list trimmed to n elements is not changed by another trim. *)
LEMMA LastOfTwice ==
  ASSUME NEW S, NEW s \in Seq(S), NEW n \in Nat
  PROVE  LastOf(LastOf(s, n), n) = LastOf(s, n)
  BY LastOfType DEF LastOf

(* Append and trim, on the list that was trimmed before, give what they     *)
(* would give on the list that was never trimmed.                           *)
LEMMA LastOfAppend ==
  ASSUME NEW S, NEW s \in Seq(S), NEW n \in Nat, NEW x \in S
  PROVE  LastOf(Append(LastOf(s, n), x), n) = LastOf(Append(s, x), n)
<1> DEFINE l == LastOf(s, n)
           a == LastOf(Append(l, x), n)
           b == LastOf(Append(s, x), n)
<1>1. /\ l \in Seq(S)
      /\ Len(l) = IF Len(s) <= n THEN Len(s) ELSE n
      /\ \A i \in 1..Len(l) : l[i] = s[Len(s) - Len(l) + i]
  BY LastOfType
<1> HIDE DEF l
<1>2. /\ Append(l, x) \in Seq(S) /\ Len(Append(l, x)) = Len(l) + 1
      /\ \A i \in 1..(Len(l) + 1) : Append(l, x)[i] = IF i <= Len(l) THEN l[i] ELSE x
  BY <1>1
<1>3. /\ Append(s, x) \in Seq(S) /\ Len(Append(s, x)) = Len(s) + 1
      /\ \A i \in 1..(Len(s) + 1) : Append(s, x)[i] = IF i <= Len(s) THEN s[i] ELSE x
  OBVIOUS
<1>4. /\ a \in Seq(S)
      /\ Len(a) = IF Len(Append(l, x)) <= n THEN Len(Append(l, x)) ELSE n
      /\ \A i \in 1..Len(a) : a[i] = Append(l, x)[Len(Append(l, x)) - Len(a) + i]
  <2> HIDE DEF l
  <2> QED  BY <1>2, LastOfType, Zenon
<1>5. /\ b \in Seq(S)
      /\ Len(b) = IF Len(Append(s, x)) <= n THEN Len(Append(s, x)) ELSE n
      /\ \A i \in 1..Len(b) : b[i] = Append(s, x)[Len(Append(s, x)) - Len(b) + i]
  BY <1>3, LastOfType, Zenon
<1> HIDE DEF l, a, b
<1>6. /\ Len(s) \in Nat /\ Len(l) \in Nat /\ Len(a) \in Nat
      /\ Len(l) = IF Len(s) <= n THEN Len(s) ELSE n
      /\ Len(a) = IF Len(l) + 1 <= n THEN Len(l) + 1 ELSE n
      /\ Len(a) = Len(b)
  <2>1. /\ Len(a) = IF Len(l) + 1 <= n THEN Len(l) + 1 ELSE n
        /\ Len(b) = IF Len(s) + 1 <= n THEN Len(s) + 1 ELSE n
    BY <1>2, <1>3, <1>4, <1>5, Zenon
  <2>2. Len(s) \in Nat /\ Len(l) \in Nat /\ Len(a) \in Nat
    BY <1>1, <1>4
  <2> QED  BY <1>1, <2>1, <2>2
<1>7. ASSUME NEW i \in 1..Len(a) PROVE a[i] = b[i]
  <2> DEFINE p == Len(l) + 1 - Len(a) + i
             q == Len(s) + 1 - Len(b) + i
  <2>1. p \in 1..(Len(l) + 1) /\ q \in 1..(Len(s) + 1) /\ Len(s) - Len(l) + p = q
    <3>1. i \in Int /\ 1 <= i /\ i <= Len(a)
      BY <1>6
    <3>2. Len(l) <= Len(s) /\ Len(a) <= Len(l) + 1 /\ Len(a) = Len(b)
      BY <1>6
    <3>3. Len(s) \in Int /\ Len(l) \in Int /\ Len(a) \in Int
      BY <1>6
    <3> QED  BY <3>1, <3>2, <3>3
  <2>2. a[i] = Append(l, x)[p] /\ b[i] = Append(s, x)[q]
    <3>1. a[i] = Append(l, x)[Len(Append(l, x)) - Len(a) + i]
      BY <1>4
    <3>2. b[i] = Append(s, x)[Len(Append(s, x)) - Len(b) + i]
      BY <1>5, <1>6
    <3>3. Len(Append(l, x)) = Len(l) + 1 /\ Len(Append(s, x)) = Len(s) + 1
      BY <1>2, <1>3, Zenon
    <3> QED  BY <3>1, <3>2, <3>3
  <2> HIDE DEF p, q
  <2>3. p <= Len(l) <=> q <= Len(s)
    BY <1>6, <2>1
  <2>4. CASE p <= Len(l)
    <3>1. p \in 1..Len(l)
      BY <1>6, <2>1, <2>4
    <3>2. l[p] = s[q]
      BY <1>1, <2>1, <3>1, Zenon
    <3>3. Append(l, x)[p] = l[p] /\ Append(s, x)[q] = s[q]
      BY <1>2, <1>3, <2>1, <2>3, <2>4, Zenon
    <3> QED  BY <2>2, <3>2, <3>3
  <2>5. CASE ~(p <= Len(l))
    <3>1. Append(l, x)[p] = x /\ Append(s, x)[q] = x
      BY <1>2, <1>3, <2>1, <2>3, <2>5, Zenon
    <3> QED  BY <2>2, <3>1
  <2> QED  BY <2>4, <2>5
<1>8. a = b
  BY <1>4, <1>5, <1>6, <1>7, SeqEqual
<1> QED  BY <1>8 DEF a, b, l
-------------------------------------------------------------------------------
(* Every step preserves each part of the invariant *)

(* A batch becomes a sequence of items, and what moves between the threads,  *)
(* the queue and the list stays one.                                         *)
LEMMA TypeOKStep ==
  ASSUME TypeOK, HasItem, [Next]_vars
  PROVE  TypeOK'
<1> USE ThreadsAssumption, LimitAssumption, BatchAssumption
<1> USE DEF TypeOK, HasItem, Item, LockQueue, UnlockQueue, LockList,
            UnlockList, queueVars, listVars, itemVars, localVars, viewVars,
            Goto, Threads
<1>1. ASSUME NEW w \in Workers, NEW b \in Batches, NEW front \in BOOLEAN, AddToQueue(w, b, front)
      PROVE  TypeOK'
  BY <1>1 DEF AddToQueue, BatchItems
<1>2. ASSUME NEW w \in Workers, AddLock(w)
      PROVE  TypeOK'
  BY <1>2 DEF AddLock
<1>3. ASSUME NEW w \in Workers, AddItem(w)
      PROVE  TypeOK'
  <2>1. Head(items[w]) \in Item /\ Tail(items[w]) \in Seq(Item)
    BY <1>3, HeadTailProperties DEF AddItem
  <2>2. to_encode_queue' \in Seq(Item)
    <3> HIDE DEF Item
    <3>1. <<Head(items[w])>> \o to_encode_queue \in Seq(Item)
      BY <2>1
    <3>2. Append(to_encode_queue, Head(items[w])) \in Seq(Item)
      BY <2>1
    <3> QED  BY <1>3, <3>1, <3>2 DEF AddItem
  <2>3. items' \in [Workers -> Seq(Item)]
    BY <1>3, <2>1 DEF AddItem
  <2> QED  BY <1>3, <2>2, <2>3 DEF AddItem
<1>4. ASSUME NEW w \in Workers, AddUnlock(w)
      PROVE  TypeOK'
  BY <1>4 DEF AddUnlock
<1>5. ASSUME NEW w \in Workers, ItemsCount(w)
      PROVE  TypeOK'
  BY <1>5 DEF ItemsCount
<1>6. ASSUME NEW w \in Workers, CountLock(w)
      PROVE  TypeOK'
  BY <1>6 DEF CountLock
<1>7. ASSUME NEW w \in Workers, CountUnlock(w)
      PROVE  TypeOK'
  <2>1. count' \in [Workers -> Nat]
    BY <1>7, LenProperties DEF CountUnlock
  <2> QED  BY <1>7, <2>1 DEF CountUnlock
<1>8. ASSUME NEW w \in Workers, DequeueItems(w)
      PROVE  TypeOK'
  <2>1. PICK n \in {1, count[w]} : count' = [count EXCEPT ![w] = n]
    BY <1>8 DEF DequeueItems
  <2>2. count' \in [Workers -> Nat]
    BY <2>1
  <2> QED  BY <1>8, <2>2 DEF DequeueItems
<1>9. ASSUME NEW w \in Workers, DequeueLock(w)
      PROVE  TypeOK'
  BY <1>9 DEF DequeueLock
<1>10. ASSUME NEW w \in Workers, DequeueShift(w)
      PROVE  TypeOK'
  <2> HIDE DEF Item
  <2>1. Head(to_encode_queue) \in Item /\ Tail(to_encode_queue) \in Seq(Item)
    BY <1>10, HeadTailProperties DEF DequeueShift
  <2>2. ret' \in [Workers -> Seq(Item)]
    BY <1>10, <2>1 DEF DequeueShift
  <2>3. count' \in [Workers -> Nat]
    BY <1>10 DEF DequeueShift
  <2> QED  BY <1>10, <2>1, <2>2, <2>3 DEF DequeueShift
<1>11. ASSUME NEW w \in Workers, DequeueUnlock(w)
      PROVE  TypeOK'
  BY <1>11 DEF DequeueUnlock
<1>12. ASSUME NEW w \in Workers, Stamp(w)
      PROVE  TypeOK'
  BY <1>12 DEF Stamp
<1>13. ASSUME NEW w \in Workers, FinishLock(w)
      PROVE  TypeOK'
  BY <1>13 DEF FinishLock
<1>14. ASSUME NEW w \in Workers, FinishAppend(w)
      PROVE  TypeOK'
  <2> HIDE DEF Item
  <2>1. Head(ret[w]) \in Item /\ Tail(ret[w]) \in Seq(Item)
    BY <1>14, HeadTailProperties DEF FinishAppend
  <2>2. ret' \in [Workers -> Seq(Item)]
    BY <1>14, <2>1 DEF FinishAppend
  <2>3. encoded_queue' \in Seq(Item) /\ published' \in Seq(Item)
    BY <1>14, <2>1 DEF FinishAppend
  <2> QED  BY <1>14, <2>2, <2>3 DEF FinishAppend
<1>15. ASSUME NEW w \in Workers, FinishTrim(w)
      PROVE  TypeOK'
  BY <1>15, LastOfType DEF FinishTrim
<1>16. ASSUME NEW w \in Workers, FinishUnlock(w)
      PROVE  TypeOK'
  BY <1>16 DEF FinishUnlock
<1>17. ASSUME NEW w \in Workers, NEW ok \in BOOLEAN, EncodeFinished(w, ok)
      PROVE  TypeOK'
  BY <1>17 DEF EncodeFinished
<1>18. ASSUME NEW r \in Readers, GetFinishedItems(r)
      PROVE  TypeOK'
  <2>1. asked' \in [Readers -> Nat]
    <3>1. Len(published) \in Nat
      OBVIOUS
    <3> QED  BY <1>18, <3>1 DEF GetFinishedItems
  <2> QED  BY <1>18, <2>1 DEF GetFinishedItems
<1>19. ASSUME NEW r \in Readers, GetLock(r)
      PROVE  TypeOK'
  BY <1>19 DEF GetLock
<1>20. ASSUME NEW r \in Readers, GetCopy(r)
      PROVE  TypeOK'
  BY <1>20 DEF GetCopy
<1>21. ASSUME NEW r \in Readers, GetUnlock(r)
      PROVE  TypeOK'
  BY <1>21 DEF GetUnlock
<1>22. CASE UNCHANGED vars
  BY <1>22 DEF vars, queueVars, listVars, itemVars, localVars, viewVars
<1> HIDE DEF TypeOK, HasItem, Item, LockQueue, UnlockQueue, LockList,
             UnlockList, queueVars, listVars, itemVars, localVars, viewVars,
             Goto, Threads
<1> QED
  BY <1>1, <1>2, <1>3, <1>4, <1>5, <1>6, <1>7, <1>8, <1>9, <1>10, <1>11,
     <1>12, <1>13, <1>14, <1>15, <1>16, <1>17, <1>18, <1>19, <1>20, <1>21,
     <1>22 DEF Next, WorkerCalls, WorkerLocks, WorkerRuns, ReaderCalls,
     ReaderLocks, ReaderRuns

(* A worker goes to a label of a worker, a reader to one of a reader.        *)
LEMMA OwnLabelsStep ==
  ASSUME TypeOK, OwnLabels, [Next]_vars
  PROVE  OwnLabels'
<1> USE ThreadsAssumption
<1> USE DEF TypeOK, OwnLabels, queueVars, listVars, itemVars, localVars,
            viewVars, Goto, Threads
<1>1. ASSUME NEW w \in Workers, NEW b \in Batches, NEW front \in BOOLEAN, AddToQueue(w, b, front)
      PROVE  OwnLabels'
  BY <1>1 DEF AddToQueue
<1>2. ASSUME NEW w \in Workers, AddLock(w)
      PROVE  OwnLabels'
  BY <1>2 DEF AddLock
<1>3. ASSUME NEW w \in Workers, AddItem(w)
      PROVE  OwnLabels'
  BY <1>3 DEF AddItem
<1>4. ASSUME NEW w \in Workers, AddUnlock(w)
      PROVE  OwnLabels'
  BY <1>4 DEF AddUnlock
<1>5. ASSUME NEW w \in Workers, ItemsCount(w)
      PROVE  OwnLabels'
  BY <1>5 DEF ItemsCount
<1>6. ASSUME NEW w \in Workers, CountLock(w)
      PROVE  OwnLabels'
  BY <1>6 DEF CountLock
<1>7. ASSUME NEW w \in Workers, CountUnlock(w)
      PROVE  OwnLabels'
  BY <1>7 DEF CountUnlock
<1>8. ASSUME NEW w \in Workers, DequeueItems(w)
      PROVE  OwnLabels'
  BY <1>8 DEF DequeueItems
<1>9. ASSUME NEW w \in Workers, DequeueLock(w)
      PROVE  OwnLabels'
  BY <1>9 DEF DequeueLock
<1>10. ASSUME NEW w \in Workers, DequeueShift(w)
      PROVE  OwnLabels'
  BY <1>10 DEF DequeueShift
<1>11. ASSUME NEW w \in Workers, DequeueUnlock(w)
      PROVE  OwnLabels'
  BY <1>11 DEF DequeueUnlock
<1>12. ASSUME NEW w \in Workers, Stamp(w)
      PROVE  OwnLabels'
  BY <1>12 DEF Stamp
<1>13. ASSUME NEW w \in Workers, FinishLock(w)
      PROVE  OwnLabels'
  BY <1>13 DEF FinishLock
<1>14. ASSUME NEW w \in Workers, FinishAppend(w)
      PROVE  OwnLabels'
  BY <1>14 DEF FinishAppend
<1>15. ASSUME NEW w \in Workers, FinishTrim(w)
      PROVE  OwnLabels'
  BY <1>15 DEF FinishTrim
<1>16. ASSUME NEW w \in Workers, FinishUnlock(w)
      PROVE  OwnLabels'
  BY <1>16 DEF FinishUnlock
<1>17. ASSUME NEW w \in Workers, NEW ok \in BOOLEAN, EncodeFinished(w, ok)
      PROVE  OwnLabels'
  BY <1>17 DEF EncodeFinished
<1>18. ASSUME NEW r \in Readers, GetFinishedItems(r)
      PROVE  OwnLabels'
  BY <1>18 DEF GetFinishedItems
<1>19. ASSUME NEW r \in Readers, GetLock(r)
      PROVE  OwnLabels'
  BY <1>19 DEF GetLock
<1>20. ASSUME NEW r \in Readers, GetCopy(r)
      PROVE  OwnLabels'
  BY <1>20 DEF GetCopy
<1>21. ASSUME NEW r \in Readers, GetUnlock(r)
      PROVE  OwnLabels'
  BY <1>21 DEF GetUnlock
<1>22. CASE UNCHANGED vars
  BY <1>22 DEF vars, queueVars, listVars, itemVars, localVars, viewVars
<1> HIDE DEF TypeOK, OwnLabels, queueVars, listVars, itemVars, localVars,
             viewVars, Goto, Threads
<1> QED
  BY <1>1, <1>2, <1>3, <1>4, <1>5, <1>6, <1>7, <1>8, <1>9, <1>10, <1>11,
     <1>12, <1>13, <1>14, <1>15, <1>16, <1>17, <1>18, <1>19, <1>20, <1>21,
     <1>22 DEF Next, WorkerCalls, WorkerLocks, WorkerRuns, ReaderCalls,
     ReaderLocks, ReaderRuns

(* Only the thread that takes the mutex enters, and only its holder leaves.  *)
LEMMA ListLockedStep ==
  ASSUME TypeOK, OwnLabels, ListLocked, [Next]_vars
  PROVE  ListLocked'
<1> USE ThreadsAssumption
<1> USE DEF TypeOK, OwnLabels, ListLocked, InList, LockQueue, UnlockQueue,
            LockList, UnlockList, queueVars, listVars, itemVars, localVars,
            viewVars, Goto, Threads
<1>1. ASSUME NEW w \in Workers, NEW b \in Batches, NEW front \in BOOLEAN, AddToQueue(w, b, front)
      PROVE  ListLocked'
  BY <1>1 DEF AddToQueue
<1>2. ASSUME NEW w \in Workers, AddLock(w)
      PROVE  ListLocked'
  BY <1>2 DEF AddLock
<1>3. ASSUME NEW w \in Workers, AddItem(w)
      PROVE  ListLocked'
  BY <1>3 DEF AddItem
<1>4. ASSUME NEW w \in Workers, AddUnlock(w)
      PROVE  ListLocked'
  BY <1>4 DEF AddUnlock
<1>5. ASSUME NEW w \in Workers, ItemsCount(w)
      PROVE  ListLocked'
  BY <1>5 DEF ItemsCount
<1>6. ASSUME NEW w \in Workers, CountLock(w)
      PROVE  ListLocked'
  BY <1>6 DEF CountLock
<1>7. ASSUME NEW w \in Workers, CountUnlock(w)
      PROVE  ListLocked'
  BY <1>7 DEF CountUnlock
<1>8. ASSUME NEW w \in Workers, DequeueItems(w)
      PROVE  ListLocked'
  BY <1>8 DEF DequeueItems
<1>9. ASSUME NEW w \in Workers, DequeueLock(w)
      PROVE  ListLocked'
  BY <1>9 DEF DequeueLock
<1>10. ASSUME NEW w \in Workers, DequeueShift(w)
      PROVE  ListLocked'
  BY <1>10 DEF DequeueShift
<1>11. ASSUME NEW w \in Workers, DequeueUnlock(w)
      PROVE  ListLocked'
  BY <1>11 DEF DequeueUnlock
<1>12. ASSUME NEW w \in Workers, Stamp(w)
      PROVE  ListLocked'
  BY <1>12 DEF Stamp
<1>13. ASSUME NEW w \in Workers, FinishLock(w)
      PROVE  ListLocked'
  BY <1>13 DEF FinishLock
<1>14. ASSUME NEW w \in Workers, FinishAppend(w)
      PROVE  ListLocked'
  BY <1>14 DEF FinishAppend
<1>15. ASSUME NEW w \in Workers, FinishTrim(w)
      PROVE  ListLocked'
  BY <1>15 DEF FinishTrim
<1>16. ASSUME NEW w \in Workers, FinishUnlock(w)
      PROVE  ListLocked'
  BY <1>16 DEF FinishUnlock
<1>17. ASSUME NEW w \in Workers, NEW ok \in BOOLEAN, EncodeFinished(w, ok)
      PROVE  ListLocked'
  BY <1>17 DEF EncodeFinished
<1>18. ASSUME NEW r \in Readers, GetFinishedItems(r)
      PROVE  ListLocked'
  BY <1>18 DEF GetFinishedItems
<1>19. ASSUME NEW r \in Readers, GetLock(r)
      PROVE  ListLocked'
  BY <1>19 DEF GetLock
<1>20. ASSUME NEW r \in Readers, GetCopy(r)
      PROVE  ListLocked'
  BY <1>20 DEF GetCopy
<1>21. ASSUME NEW r \in Readers, GetUnlock(r)
      PROVE  ListLocked'
  BY <1>21 DEF GetUnlock
<1>22. CASE UNCHANGED vars
  BY <1>22 DEF vars, queueVars, listVars, itemVars, localVars, viewVars
<1> HIDE DEF TypeOK, OwnLabels, ListLocked, InList, LockQueue, UnlockQueue,
             LockList, UnlockList, queueVars, listVars, itemVars, localVars,
             viewVars, Goto, Threads
<1> QED
  BY <1>1, <1>2, <1>3, <1>4, <1>5, <1>6, <1>7, <1>8, <1>9, <1>10, <1>11,
     <1>12, <1>13, <1>14, <1>15, <1>16, <1>17, <1>18, <1>19, <1>20, <1>21,
     <1>22 DEF Next, WorkerCalls, WorkerLocks, WorkerRuns, ReaderCalls,
     ReaderLocks, ReaderRuns

(* Nobody takes an item away from a worker that is publishing it.            *)
LEMMA HasItemStep ==
  ASSUME TypeOK, OwnLabels, HasItem, [Next]_vars
  PROVE  HasItem'
<1> USE ThreadsAssumption
<1> USE DEF TypeOK, OwnLabels, HasItem, queueVars, listVars, itemVars,
            localVars, viewVars, Goto, Threads
<1>1. ASSUME NEW w \in Workers, NEW b \in Batches, NEW front \in BOOLEAN, AddToQueue(w, b, front)
      PROVE  HasItem'
  BY <1>1 DEF AddToQueue
<1>2. ASSUME NEW w \in Workers, AddLock(w)
      PROVE  HasItem'
  BY <1>2 DEF AddLock
<1>3. ASSUME NEW w \in Workers, AddItem(w)
      PROVE  HasItem'
  BY <1>3 DEF AddItem
<1>4. ASSUME NEW w \in Workers, AddUnlock(w)
      PROVE  HasItem'
  BY <1>4 DEF AddUnlock
<1>5. ASSUME NEW w \in Workers, ItemsCount(w)
      PROVE  HasItem'
  BY <1>5 DEF ItemsCount
<1>6. ASSUME NEW w \in Workers, CountLock(w)
      PROVE  HasItem'
  BY <1>6 DEF CountLock
<1>7. ASSUME NEW w \in Workers, CountUnlock(w)
      PROVE  HasItem'
  BY <1>7 DEF CountUnlock
<1>8. ASSUME NEW w \in Workers, DequeueItems(w)
      PROVE  HasItem'
  BY <1>8 DEF DequeueItems
<1>9. ASSUME NEW w \in Workers, DequeueLock(w)
      PROVE  HasItem'
  BY <1>9 DEF DequeueLock
<1>10. ASSUME NEW w \in Workers, DequeueShift(w)
      PROVE  HasItem'
  BY <1>10 DEF DequeueShift
<1>11. ASSUME NEW w \in Workers, DequeueUnlock(w)
      PROVE  HasItem'
  BY <1>11 DEF DequeueUnlock
<1>12. ASSUME NEW w \in Workers, Stamp(w)
      PROVE  HasItem'
  BY <1>12 DEF Stamp
<1>13. ASSUME NEW w \in Workers, FinishLock(w)
      PROVE  HasItem'
  BY <1>13 DEF FinishLock
<1>14. ASSUME NEW w \in Workers, FinishAppend(w)
      PROVE  HasItem'
  BY <1>14 DEF FinishAppend
<1>15. ASSUME NEW w \in Workers, FinishTrim(w)
      PROVE  HasItem'
  BY <1>15 DEF FinishTrim
<1>16. ASSUME NEW w \in Workers, FinishUnlock(w)
      PROVE  HasItem'
  BY <1>16 DEF FinishUnlock
<1>17. ASSUME NEW w \in Workers, NEW ok \in BOOLEAN, EncodeFinished(w, ok)
      PROVE  HasItem'
  BY <1>17 DEF EncodeFinished
<1>18. ASSUME NEW r \in Readers, GetFinishedItems(r)
      PROVE  HasItem'
  BY <1>18 DEF GetFinishedItems
<1>19. ASSUME NEW r \in Readers, GetLock(r)
      PROVE  HasItem'
  BY <1>19 DEF GetLock
<1>20. ASSUME NEW r \in Readers, GetCopy(r)
      PROVE  HasItem'
  BY <1>20 DEF GetCopy
<1>21. ASSUME NEW r \in Readers, GetUnlock(r)
      PROVE  HasItem'
  BY <1>21 DEF GetUnlock
<1>22. CASE UNCHANGED vars
  BY <1>22 DEF vars, queueVars, listVars, itemVars, localVars, viewVars
<1> HIDE DEF TypeOK, OwnLabels, HasItem, queueVars, listVars, itemVars,
             localVars, viewVars, Goto, Threads
<1> QED
  BY <1>1, <1>2, <1>3, <1>4, <1>5, <1>6, <1>7, <1>8, <1>9, <1>10, <1>11,
     <1>12, <1>13, <1>14, <1>15, <1>16, <1>17, <1>18, <1>19, <1>20, <1>21,
     <1>22 DEF Next, WorkerCalls, WorkerLocks, WorkerRuns, ReaderCalls,
     ReaderLocks, ReaderRuns

(* The worker between append and trim is alone in the mutex, so that the     *)
(* list was the window when it appended.                                     *)
LEMMA WindowStep ==
  ASSUME TypeOK, OwnLabels, ListLocked, HasItem, Window, [Next]_vars
  PROVE  Window'
<1> USE ThreadsAssumption, LimitAssumption
<1> USE DEF TypeOK, OwnLabels, Window, queueVars, listVars, itemVars,
            localVars, viewVars, Goto, Threads
<1>1. ASSUME NEW w \in Workers, NEW b \in Batches, NEW front \in BOOLEAN, AddToQueue(w, b, front)
      PROVE  Window'
  BY <1>1 DEF AddToQueue
<1>2. ASSUME NEW w \in Workers, AddLock(w)
      PROVE  Window'
  BY <1>2 DEF AddLock
<1>3. ASSUME NEW w \in Workers, AddItem(w)
      PROVE  Window'
  BY <1>3 DEF AddItem
<1>4. ASSUME NEW w \in Workers, AddUnlock(w)
      PROVE  Window'
  BY <1>4 DEF AddUnlock
<1>5. ASSUME NEW w \in Workers, ItemsCount(w)
      PROVE  Window'
  BY <1>5 DEF ItemsCount
<1>6. ASSUME NEW w \in Workers, CountLock(w)
      PROVE  Window'
  BY <1>6 DEF CountLock
<1>7. ASSUME NEW w \in Workers, CountUnlock(w)
      PROVE  Window'
  BY <1>7 DEF CountUnlock
<1>8. ASSUME NEW w \in Workers, DequeueItems(w)
      PROVE  Window'
  BY <1>8 DEF DequeueItems
<1>9. ASSUME NEW w \in Workers, DequeueLock(w)
      PROVE  Window'
  BY <1>9 DEF DequeueLock
<1>10. ASSUME NEW w \in Workers, DequeueShift(w)
      PROVE  Window'
  BY <1>10 DEF DequeueShift
<1>11. ASSUME NEW w \in Workers, DequeueUnlock(w)
      PROVE  Window'
  BY <1>11 DEF DequeueUnlock
<1>12. ASSUME NEW w \in Workers, Stamp(w)
      PROVE  Window'
  BY <1>12 DEF Stamp
<1>13. ASSUME NEW w \in Workers, FinishLock(w)
      PROVE  Window'
  BY <1>13 DEF FinishLock
<1>14. ASSUME NEW w \in Workers, FinishAppend(w)
      PROVE  Window'
  <2>1. ret[w] # <<>> /\ Head(ret[w]) \in Item
    BY <1>14, HeadTailProperties DEF FinishAppend, HasItem
  <2>2. \A u \in Workers : pc[u] # "trim"
    BY <1>14 DEF FinishAppend, ListLocked, InList
  <2>3. encoded_queue = LastOf(published, ItemsInFinishedList)
    BY <2>2
  <2>4. LastOf(encoded_queue', ItemsInFinishedList) = LastOf(published', ItemsInFinishedList)
    BY <1>14, <2>1, <2>3, LastOfAppend DEF FinishAppend
  <2>5. pc'[w] = "trim"
    BY <1>14 DEF FinishAppend
  <2> QED  BY <2>4, <2>5
<1>15. ASSUME NEW w \in Workers, FinishTrim(w)
      PROVE  Window'
  <2>1. encoded_queue' = LastOf(published, ItemsInFinishedList)
    BY <1>15 DEF FinishTrim
  <2>2. LastOf(encoded_queue', ItemsInFinishedList) = LastOf(published, ItemsInFinishedList)
    BY <2>1, LastOfTwice
  <2> QED  BY <1>15, <2>1, <2>2 DEF FinishTrim
<1>16. ASSUME NEW w \in Workers, FinishUnlock(w)
      PROVE  Window'
  BY <1>16 DEF FinishUnlock
<1>17. ASSUME NEW w \in Workers, NEW ok \in BOOLEAN, EncodeFinished(w, ok)
      PROVE  Window'
  BY <1>17 DEF EncodeFinished
<1>18. ASSUME NEW r \in Readers, GetFinishedItems(r)
      PROVE  Window'
  BY <1>18 DEF GetFinishedItems
<1>19. ASSUME NEW r \in Readers, GetLock(r)
      PROVE  Window'
  BY <1>19 DEF GetLock
<1>20. ASSUME NEW r \in Readers, GetCopy(r)
      PROVE  Window'
  BY <1>20 DEF GetCopy
<1>21. ASSUME NEW r \in Readers, GetUnlock(r)
      PROVE  Window'
  BY <1>21 DEF GetUnlock
<1>22. CASE UNCHANGED vars
  BY <1>22 DEF vars, queueVars, listVars, itemVars, localVars, viewVars
<1> HIDE DEF TypeOK, OwnLabels, Window, queueVars, listVars, itemVars,
             localVars, viewVars, Goto, Threads
<1> QED
  BY <1>1, <1>2, <1>3, <1>4, <1>5, <1>6, <1>7, <1>8, <1>9, <1>10, <1>11,
     <1>12, <1>13, <1>14, <1>15, <1>16, <1>17, <1>18, <1>19, <1>20, <1>21,
     <1>22 DEF Next, WorkerCalls, WorkerLocks, WorkerRuns, ReaderCalls,
     ReaderLocks, ReaderRuns

-------------------------------------------------------------------------------
(* What a reader gets *)

\* What SnapshotIsCurrent says, and before that, that the call is in the past.
Snapshot ==
  \A r \in Readers :
    /\ pc[r] \in {"get", "copy"} => asked[r] <= Len(published)
    /\ pc[r] = "got" =>
         \E n \in asked[r]..Len(published) :
           seen[r] = LastOf(SubSeq(published, 1, n), ItemsInFinishedList)

(* A reader inside the mutex copies the window. *)
LEMMA CopyIsWindow ==
  ASSUME TypeOK, ListLocked, Window, NEW r \in Readers, pc[r] = "copy"
  PROVE  encoded_queue = LastOf(published, ItemsInFinishedList)
<1>1. \A w \in Workers : pc[w] # "trim"
  BY ThreadsAssumption DEF ListLocked, InList, Threads
<1> QED  BY <1>1 DEF Window

(* A copy is the window when it is made; later appends do not change what    *)
(* was published until then.                                                 *)
LEMMA SnapshotStep ==
  ASSUME IInv, Snapshot, [Next]_vars
  PROVE  Snapshot'
<1> USE DEF IInv
<1> USE DEF TypeOK, OwnLabels, Snapshot, queueVars, listVars, itemVars,
            localVars, viewVars, Goto, Threads
<1>1. ASSUME NEW w \in Workers, NEW b \in Batches, NEW front \in BOOLEAN, AddToQueue(w, b, front)
      PROVE  Snapshot'
  BY <1>1 DEF AddToQueue
<1>2. ASSUME NEW w \in Workers, AddLock(w)
      PROVE  Snapshot'
  BY <1>2 DEF AddLock
<1>3. ASSUME NEW w \in Workers, AddItem(w)
      PROVE  Snapshot'
  BY <1>3 DEF AddItem
<1>4. ASSUME NEW w \in Workers, AddUnlock(w)
      PROVE  Snapshot'
  BY <1>4 DEF AddUnlock
<1>5. ASSUME NEW w \in Workers, ItemsCount(w)
      PROVE  Snapshot'
  BY <1>5 DEF ItemsCount
<1>6. ASSUME NEW w \in Workers, CountLock(w)
      PROVE  Snapshot'
  BY <1>6 DEF CountLock
<1>7. ASSUME NEW w \in Workers, CountUnlock(w)
      PROVE  Snapshot'
  BY <1>7 DEF CountUnlock
<1>8. ASSUME NEW w \in Workers, DequeueItems(w)
      PROVE  Snapshot'
  BY <1>8 DEF DequeueItems
<1>9. ASSUME NEW w \in Workers, DequeueLock(w)
      PROVE  Snapshot'
  BY <1>9 DEF DequeueLock
<1>10. ASSUME NEW w \in Workers, DequeueShift(w)
      PROVE  Snapshot'
  BY <1>10 DEF DequeueShift
<1>11. ASSUME NEW w \in Workers, DequeueUnlock(w)
      PROVE  Snapshot'
  BY <1>11 DEF DequeueUnlock
<1>12. ASSUME NEW w \in Workers, Stamp(w)
      PROVE  Snapshot'
  BY <1>12 DEF Stamp
<1>13. ASSUME NEW w \in Workers, FinishLock(w)
      PROVE  Snapshot'
  BY <1>13 DEF FinishLock
<1>14. ASSUME NEW w \in Workers, FinishAppend(w)
      PROVE  Snapshot'
  <2>1. ret[w] # <<>> /\ Head(ret[w]) \in Item
    BY <1>14, HeadTailProperties DEF FinishAppend, HasItem, IInv
  <2>2. published' = Append(published, Head(ret[w]))
    BY <1>14 DEF FinishAppend
  <2>3. Len(published') = Len(published) + 1
    BY <2>1, <2>2, AppendProperties DEF IInv
  <2>4. \A n \in 0..Len(published) : SubSeq(published', 1, n) = SubSeq(published, 1, n)
    BY <2>1, <2>2 DEF IInv
  <2>5. ASSUME NEW r \in Readers
        PROVE  pc'[r] = pc[r] /\ asked'[r] = asked[r] /\ seen'[r] = seen[r] /\ asked[r] \in Nat
    BY <1>14 DEF FinishAppend, IInv
  <2>6. ASSUME NEW r \in Readers, pc'[r] \in {"get", "copy"}
        PROVE  asked'[r] <= Len(published')
    BY <2>3, <2>5, <2>6 DEF IInv
  <2>7. ASSUME NEW r \in Readers, pc'[r] = "got"
        PROVE  \E n \in asked'[r]..Len(published') :
                 seen'[r] = LastOf(SubSeq(published', 1, n), ItemsInFinishedList)
    <3>1. PICK n \in asked[r]..Len(published) :
            seen[r] = LastOf(SubSeq(published, 1, n), ItemsInFinishedList)
      BY <2>5, <2>7
    <3>2. n \in 0..Len(published) /\ n \in asked'[r]..Len(published')
      BY <2>3, <2>5 DEF IInv
    <3>3. SubSeq(published', 1, n) = SubSeq(published, 1, n)
      BY <2>4, <3>2
    <3> QED  BY <2>5, <3>1, <3>2, <3>3
  <2> QED  BY <2>6, <2>7
<1>15. ASSUME NEW w \in Workers, FinishTrim(w)
      PROVE  Snapshot'
  BY <1>15 DEF FinishTrim
<1>16. ASSUME NEW w \in Workers, FinishUnlock(w)
      PROVE  Snapshot'
  BY <1>16 DEF FinishUnlock
<1>17. ASSUME NEW w \in Workers, NEW ok \in BOOLEAN, EncodeFinished(w, ok)
      PROVE  Snapshot'
  BY <1>17 DEF EncodeFinished
<1>18. ASSUME NEW r \in Readers, GetFinishedItems(r)
      PROVE  Snapshot'
  <2>1. Len(published) \in Nat
    BY DEF IInv
  <2> QED  BY <1>18, <2>1 DEF GetFinishedItems, IInv
<1>19. ASSUME NEW r \in Readers, GetLock(r)
      PROVE  Snapshot'
  BY <1>19 DEF GetLock
<1>20. ASSUME NEW r \in Readers, GetCopy(r)
      PROVE  Snapshot'
  <2>1. encoded_queue = LastOf(published, ItemsInFinishedList)
    BY <1>20, CopyIsWindow DEF GetCopy, IInv
  <2>2. SubSeq(published, 1, Len(published)) = published
    BY DEF IInv
  <2>3. Len(published) \in asked[r]..Len(published)
    BY <1>20 DEF GetCopy, IInv
  <2>4. seen'[r] = LastOf(SubSeq(published, 1, Len(published)), ItemsInFinishedList)
    BY <1>20, <2>1, <2>2 DEF GetCopy, IInv
  <2> QED  BY <1>20, <2>3, <2>4 DEF GetCopy, IInv
<1>21. ASSUME NEW r \in Readers, GetUnlock(r)
      PROVE  Snapshot'
  BY <1>21 DEF GetUnlock
<1>22. CASE UNCHANGED vars
  BY <1>22 DEF vars, queueVars, listVars, itemVars, localVars, viewVars
<1> HIDE DEF TypeOK, OwnLabels, Snapshot, queueVars, listVars, itemVars,
             localVars, viewVars, Goto, Threads
<1> QED
  BY <1>1, <1>2, <1>3, <1>4, <1>5, <1>6, <1>7, <1>8, <1>9, <1>10, <1>11,
     <1>12, <1>13, <1>14, <1>15, <1>16, <1>17, <1>18, <1>19, <1>20, <1>21,
     <1>22 DEF Next, WorkerCalls, WorkerLocks, WorkerRuns, ReaderCalls,
     ReaderLocks, ReaderRuns

-------------------------------------------------------------------------------
(* The theorems *)

(* The inductive invariant holds in every reachable state. *)
THEOREM Invariance == Spec => []IInv
<1>1. Init => IInv
  BY LimitAssumption, ThreadsAssumption
     DEF Init, IInv, TypeOK, ListLocked, InList, OwnLabels, HasItem, Window,
         LastOf, Threads
<1>2. IInv /\ [Next]_vars => IInv'
  BY TypeOKStep, OwnLabelsStep, ListLockedStep, HasItemStep, WindowStep DEF IInv
<1> QED  BY <1>1, <1>2, PTL DEF Spec

(* Type correctness: queues hold items only, the list's mutex is held by a   *)
(* thread or by nobody, and so on for every variable.                        *)
THEOREM TypeCorrect == Spec => []TypeOK
<1>1. IInv => TypeOK
  BY DEF IInv
<1> QED  BY <1>1, Invariance, PTL

(* add_to_finished_list: however many workers publish and however many       *)
(* readers copy, the list is the window of the last ItemsInFinishedList      *)
(* published items whenever its mutex is free.                               *)
THEOREM ListIsWindow == Spec => []WindowAtRest
<1>1. IInv => WindowAtRest
  <2> SUFFICES ASSUME IInv, encoded_queue_lock = NoThread
               PROVE  encoded_queue = LastOf(published, ItemsInFinishedList)
    BY DEF WindowAtRest
  <2>1. \A w \in Workers : pc[w] # "trim"
    BY ThreadsAssumption DEF IInv, ListLocked, InList, Threads
  <2> QED  BY <2>1 DEF IInv, Window
<1> QED  BY <1>1, Invariance, PTL

(* get_finished_items: every copy is the window at one instant between the   *)
(* call and the return.                                                      *)
THEOREM SnapshotsAreCurrent == Spec => []SnapshotIsCurrent
<1>1. Init => Snapshot
  BY ThreadsAssumption DEF Init, Snapshot, Threads
<1>2. IInv /\ Snapshot /\ [Next]_vars => Snapshot'
  BY SnapshotStep
<1>3. Snapshot => SnapshotIsCurrent
  BY DEF Snapshot, SnapshotIsCurrent
<1> QED  BY <1>1, <1>2, <1>3, Invariance, PTL DEF Spec

(* The class implements the atomic list of FinishedFeed: each append is a    *)
(* Publish, each copy a Look, every other step a stutter.                    *)
THEOREM ImplementsFeed == Spec => FeedSpec
<1>1. Init => Feed!Init
  BY DEF Init, Feed!Init
<1>2. IInv /\ [Next]_vars => [Feed!Next]_(Feed!feedVars)
  <2> SUFFICES ASSUME IInv, [Next]_vars
               PROVE  Feed!Next \/ UNCHANGED <<published, seen>>
    BY DEF Feed!feedVars
  <2> USE DEF queueVars, listVars, itemVars, localVars, viewVars
  <2>1. ASSUME NEW w \in Workers, FinishAppend(w)
        PROVE  Feed!Next
    <3>1. Head(ret[w]) \in Item
      BY <2>1, HeadTailProperties DEF FinishAppend, IInv, TypeOK, HasItem, Goto
    <3>2. Feed!Publish(Head(ret[w]))
      BY <2>1 DEF FinishAppend, Feed!Publish
    <3> QED  BY <3>1, <3>2 DEF Feed!Next
  <2>2. ASSUME NEW r \in Readers, GetCopy(r)
        PROVE  Feed!Next
    <3>1. encoded_queue = Feed!LastOf(published, ItemsInFinishedList)
      BY <2>2, CopyIsWindow DEF IInv, GetCopy, Goto, LastOf, Feed!LastOf
    <3>2. Feed!Look(r)
      BY <2>2, <3>1 DEF GetCopy, Feed!Look
    <3> QED  BY <3>2 DEF Feed!Next
  <2>3. ASSUME NEW w \in Workers, WorkerCalls(w) \/ WorkerLocks(w)
        PROVE  UNCHANGED <<published, seen>>
    BY <2>3 DEF WorkerCalls, AddToQueue, ItemsCount, DequeueItems, EncodeFinished,
                WorkerLocks, AddLock, CountLock, DequeueLock, FinishLock
  <2>4. ASSUME NEW w \in Workers, WorkerRuns(w), ~FinishAppend(w)
        PROVE  UNCHANGED <<published, seen>>
    BY <2>4 DEF WorkerRuns, AddItem, AddUnlock, CountUnlock, DequeueShift,
                DequeueUnlock, Stamp, FinishTrim, FinishUnlock
  <2>5. ASSUME NEW r \in Readers, ReaderCalls(r) \/ ReaderLocks(r) \/ GetUnlock(r)
        PROVE  UNCHANGED <<published, seen>>
    BY <2>5 DEF ReaderCalls, ReaderLocks, GetFinishedItems, GetLock, GetUnlock
  <2>6. CASE UNCHANGED vars
    BY <2>6 DEF vars
  <2> QED
    BY <2>1, <2>2, <2>3, <2>4, <2>5, <2>6 DEF Next, ReaderRuns
<1> QED  BY <1>1, <1>2, Invariance, PTL DEF Spec, FeedSpec, Feed!Spec
===============================================================================
