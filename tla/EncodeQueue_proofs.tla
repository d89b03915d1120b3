--------------------------- MODULE EncodeQueue_proofs ---------------------------
(***************************************************************************)
(* The queue of ApplicationState implements EncodeQueue, for any threads,  *)
(* batches and sizes.  What a thread is going to make of the queue is      *)
(* settled when it takes the mutex; the loops over single items that       *)
(* follow only carry it out.                                               *)
(***************************************************************************)
EXTENDS ApplicationStateQueue_proofs

(* Sequences that are reversed, inserted and taken item by item *)

(* Reverse keeps the items and turns their order round. *)
LEMMA ReverseProperties ==
  ASSUME NEW S, NEW s \in Seq(S)
  PROVE  /\ Reverse(s) \in Seq(S) /\ Len(Reverse(s)) = Len(s)
         /\ \A i \in 1..Len(s) : Reverse(s)[i] = s[Len(s) - i + 1]
<1>1. Len(s) \in Nat /\ \A i \in 1..Len(s) : s[i] \in S
  BY LenProperties, ElementOfSeq
<1>2. \A i \in 1..Len(s) : Len(s) - i + 1 \in 1..Len(s)
  BY <1>1
<1>3. Reverse(s) \in [1..Len(s) -> S]
  BY <1>1, <1>2 DEF Reverse
<1>4. Reverse(s) \in Seq(S)
  BY <1>1, <1>3, SeqDef
<1>5. Len(Reverse(s)) = Len(s)
  BY <1>1, <1>3
<1> QED  BY <1>4, <1>5 DEF Reverse

(* The first item goes to the end of the queue and the others follow it. *)
LEMMA InsertAtEnd ==
  ASSUME NEW S, NEW s \in Seq(S), s # <<>>, NEW q \in Seq(S)
  PROVE  Append(q, Head(s)) \o Tail(s) = q \o s
<1>1. Head(s) \in S /\ Tail(s) \in Seq(S) /\ <<Head(s)>> \in Seq(S)
  BY HeadTailProperties
<1>2. <<Head(s)>> \o Tail(s) = s
  <2>1. 1 \in 1..Len(s) /\ Len(s) \in 1..Len(s) /\ Head(s) = s[1]
    BY EmptySeq
  <2> QED  BY <2>1, SubSeqRecursiveFirst, SubSeqFull, TailIsSubSeq
<1>3. Append(q, Head(s)) = q \o <<Head(s)>>
  BY <1>1, AppendIsConcat
<1> QED  BY <1>1, <1>2, <1>3, ConcatAssociative

(* A sequence that consists of another one and one item more. *)
LEMMA OneMore ==
  ASSUME NEW S, NEW t \in Seq(S), NEW h \in Seq(S), NEW r \in Seq(S),
         Len(h) = 1, Len(r) = Len(t) + 1,
         \A i \in 1..Len(t) : r[i] = t[i],
         r[Len(t) + 1] = h[1]
  PROVE  t \o h = r
<1>1. /\ t \o h \in Seq(S) /\ Len(t \o h) = Len(t) + Len(h)
      /\ \A i \in 1..(Len(t) + Len(h)) : (t \o h)[i] = IF i <= Len(t) THEN t[i] ELSE h[i - Len(t)]
  BY ConcatProperties
<1>2. Len(t) \in Nat
  BY LenProperties
<1>3. ASSUME NEW i \in 1..Len(t \o h)
      PROVE  (t \o h)[i] = r[i]
  <2>1. CASE i <= Len(t)
    <3>1. i \in 1..Len(t) /\ i \in 1..(Len(t) + Len(h))
      BY <1>1, <1>2, <2>1
    <3> QED  BY <1>1, <2>1, <3>1
  <2>2. CASE i = Len(t) + 1
    <3>1. i \in 1..(Len(t) + Len(h)) /\ ~(i <= Len(t)) /\ i - Len(t) = 1
      BY <1>1, <1>2, <2>2
    <3> QED  BY <1>1, <2>2, <3>1
  <2> QED  BY <1>1, <1>2, <2>1, <2>2
<1>4. Len(t \o h) = Len(r)
  BY <1>1
<1> QED  BY <1>1, <1>3, <1>4, SeqEqual

(* The first item goes to the front, and the others, turned round, go there *)
(* after it.                                                                *)
LEMMA InsertAtFront ==
  ASSUME NEW S, NEW s \in Seq(S), s # <<>>, NEW q \in Seq(S)
  PROVE  Reverse(Tail(s)) \o (<<Head(s)>> \o q) = Reverse(s) \o q
<1>1. /\ Head(s) \in S /\ Head(s) = s[1]
      /\ Tail(s) \in Seq(S) /\ Len(Tail(s)) = Len(s) - 1 /\ Len(s) \in Nat \ {0}
      /\ \A i \in 1..Len(Tail(s)) : Tail(s)[i] = s[i + 1]
  BY HeadTailProperties, EmptySeq
<1>2. <<Head(s)>> \in Seq(S) /\ Len(<<Head(s)>>) = 1 /\ <<Head(s)>>[1] = s[1]
  BY <1>1
<1>3. /\ Reverse(Tail(s)) \in Seq(S) /\ Len(Reverse(Tail(s))) = Len(Tail(s))
      /\ \A i \in 1..Len(Tail(s)) : Reverse(Tail(s))[i] = Tail(s)[Len(Tail(s)) - i + 1]
  BY <1>1, ReverseProperties
<1>4. /\ Reverse(s) \in Seq(S) /\ Len(Reverse(s)) = Len(s)
      /\ \A i \in 1..Len(s) : Reverse(s)[i] = s[Len(s) - i + 1]
  BY ReverseProperties
<1>5. \A i \in 1..Len(Tail(s)) : Reverse(s)[i] = Reverse(Tail(s))[i]
  <2> SUFFICES ASSUME NEW i \in 1..Len(Tail(s))
               PROVE  Reverse(s)[i] = Reverse(Tail(s))[i]
    OBVIOUS
  <2> DEFINE j == Len(Tail(s)) - i + 1
  <2>1. i \in 1..Len(s) /\ j \in 1..Len(Tail(s)) /\ j + 1 = Len(s) - i + 1
    BY <1>1
  <2>2. Reverse(s)[i] = s[Len(s) - i + 1]
    BY <1>4, <2>1
  <2>3. Reverse(Tail(s))[i] = Tail(s)[j]
    BY <1>3
  <2>4. Tail(s)[j] = s[j + 1]
    BY <1>1, <2>1
  <2> QED  BY <2>1, <2>2, <2>3, <2>4
<1>6. Reverse(s)[Len(Tail(s)) + 1] = s[1]
  <2>1. Len(s) \in 1..Len(s) /\ Len(s) - Len(s) + 1 = 1 /\ Len(Tail(s)) + 1 = Len(s)
    BY <1>1
  <2> QED  BY <1>4, <2>1
<1>7. Reverse(Tail(s)) \o <<Head(s)>> = Reverse(s)
  <2>1. Len(Reverse(s)) = Len(Reverse(Tail(s))) + 1
    <3>1. Len(Tail(s)) + 1 = Len(s)
      BY <1>1
    <3>2. Len(Reverse(Tail(s))) = Len(Tail(s)) /\ Len(Reverse(s)) = Len(s)
      BY <1>3, <1>4
    <3> QED  BY <3>1, <3>2
  <2>2. /\ \A i \in 1..Len(Reverse(Tail(s))) : Reverse(s)[i] = Reverse(Tail(s))[i]
        /\ Reverse(s)[Len(Reverse(Tail(s))) + 1] = <<Head(s)>>[1]
    BY <1>2, <1>3, <1>5, <1>6
  <2> QED  BY <1>2, <1>3, <1>4, <2>1, <2>2, OneMore
<1>8. Reverse(Tail(s)) \o (<<Head(s)>> \o q) = (Reverse(Tail(s)) \o <<Head(s)>>) \o q
  BY <1>2, <1>3, ConcatAssociative
<1> QED  BY <1>7, <1>8

(* Taking n items is taking one and then n - 1. *)
LEMMA ShiftOne ==
  ASSUME NEW S, NEW q \in Seq(S), q # <<>>, NEW n \in Nat, n > 0
  PROVE  /\ Rest(Tail(q), n - 1) = Rest(q, n)
         /\ First(q, n) = <<Head(q)>> \o First(Tail(q), n - 1)
<1> DEFINE m == IF n < Len(q) THEN n ELSE Len(q)
<1>1. /\ Len(q) \in Nat \ {0} /\ Head(q) = q[1] /\ Tail(q) \in Seq(S)
      /\ Len(Tail(q)) = Len(q) - 1 /\ Tail(q) = SubSeq(q, 2, Len(q))
  BY EmptySeq, HeadTailProperties, TailIsSubSeq
<1>2. ASSUME NEW i \in Nat, NEW j \in Nat, i >= 1, j <= Len(q) - 1
      PROVE  SubSeq(Tail(q), i, j) = SubSeq(q, i + 1, j + 1)
  <2>1. CASE j < i
    <3>1. i \in Int /\ j \in Int /\ i + 1 \in Int /\ j + 1 \in Int /\ j + 1 < i + 1
      BY <2>1
    <3>2. SubSeq(Tail(q), i, j) = <<>>
      BY <2>1, <3>1, SubSeqEmpty
    <3>3. SubSeq(q, i + 1, j + 1) = <<>>
      BY <3>1, SubSeqEmpty
    <3> QED  BY <3>2, <3>3
  <2>2. CASE i <= j
    <3>1. /\ 2 \in 1..Len(q) /\ Len(q) \in 1..Len(q)
          /\ i \in 1..(Len(q) - 2 + 1) /\ j \in 1..(Len(q) - 2 + 1)
      BY <1>1, <1>2, <2>2
    <3>2. SubSeq(SubSeq(q, 2, Len(q)), i, j) = SubSeq(q, 2 + i - 1, 2 + j - 1)
      BY <3>1, SubSeqOfSubSeq
    <3>3. 2 + i - 1 = i + 1 /\ 2 + j - 1 = j + 1
      OBVIOUS
    <3> QED  BY <1>1, <3>2, <3>3
  <2>3. j < i \/ i <= j
    OBVIOUS
  <2> QED  BY <2>1, <2>2, <2>3
<1>3. Rest(Tail(q), n - 1) = Rest(q, n)
  <2>1. n \in Nat /\ n >= 1 /\ Len(q) - 1 \in Nat /\ (Len(q) - 1) + 1 = Len(q)
        /\ (n - 1) + 1 = n
    BY <1>1
  <2>2. SubSeq(Tail(q), n, Len(q) - 1) = SubSeq(q, n + 1, (Len(q) - 1) + 1)
    BY <1>2, <2>1
  <2> QED  BY <1>1, <2>1, <2>2 DEF Rest
<1>4. First(q, n) = <<Head(q)>> \o First(Tail(q), n - 1)
  <2>1. m \in 1..Len(q) /\ m - 1 \in Nat /\ m - 1 <= Len(q) - 1 /\ (m - 1) + 1 = m
    BY <1>1
  <2>2. SubSeq(q, 1, m) = <<q[1]>> \o SubSeq(q, 1 + 1, m)
    <3>1. 1 \in 1..Len(q)
      BY <1>1
    <3> QED  BY <2>1, <3>1, SubSeqRecursiveFirst
  <2>3. SubSeq(Tail(q), 1, m - 1) = SubSeq(q, 1 + 1, m)
    BY <1>2, <2>1
  <2>4. First(q, n) = SubSeq(q, 1, m)
    BY DEF First
  <2>5. First(Tail(q), n - 1) = SubSeq(Tail(q), 1, m - 1)
    <3>1. (IF n - 1 < Len(Tail(q)) THEN n - 1 ELSE Len(Tail(q))) = m - 1
      BY <1>1
    <3> QED  BY <3>1 DEF First
  <2> QED  BY <1>1, <2>2, <2>3, <2>4, <2>5
<1> QED  BY <1>3, <1>4

(* There is nothing to take, or no more to be taken. *)
LEMMA ShiftNone ==
  ASSUME NEW S, NEW q \in Seq(S), NEW n \in Nat, n = 0 \/ q = <<>>
  PROVE  Rest(q, n) = q /\ First(q, n) = <<>>
<1>1. Len(q) \in Nat
  BY LenProperties
<1>2. CASE n = 0
  <2>1. Rest(q, n) = SubSeq(q, 1, Len(q))
    BY <1>2 DEF Rest
  <2>2. First(q, n) = SubSeq(q, 1, 0)
    BY <1>1, <1>2 DEF First
  <2> QED  BY <2>1, <2>2, SubSeqFull, SubSeqEmpty
<1>3. CASE q = <<>>
  <2>1. Len(q) = 0
    BY <1>3
  <2>2. Rest(q, n) = SubSeq(q, n + 1, 0) /\ First(q, n) = SubSeq(q, 1, 0)
    BY <2>1 DEF Rest, First
  <2> QED  BY <1>3, <2>2, SubSeqEmpty
<1> QED  BY <1>2, <1>3

(* What is taken and what is left are items. *)
LEMMA ShiftType ==
  ASSUME NEW S, NEW q \in Seq(S), NEW n \in Nat
  PROVE  First(q, n) \in Seq(S)
<1> DEFINE m == IF n < Len(q) THEN n ELSE Len(q)
<1>1. Len(q) \in Nat /\ m \in 0..Len(q) /\ m \in Int /\ 1 \in Int
  BY LenProperties
<1>2. \A i \in 1..m : q[i] \in S
  BY <1>1, ElementOfSeq
<1>3. SubSeq(q, 1, m) \in Seq(S)
  BY <1>1, <1>2, SubSeqProperties
<1> QED  BY <1>3 DEF First
-------------------------------------------------------------------------------
(* The steps outside the mutex *)

\* A worker that asks for items has none left.
FreeHands == \A w \in Workers : pc[w] = "dequeue" => ret[w] = <<>>

(* dequeue_items is called when the items of the last call are encoded. *)
LEMMA FreeHandsStep ==
  ASSUME TypeOK, FreeHands, [Next]_vars
  PROVE  FreeHands'
<1> USE ThreadsAssumption
<1> USE DEF FreeHands, Goto, Threads, queueVars, listVars, itemVars, localVars, viewVars
<1>0. pc = [t \in Threads |-> pc[t]] /\ ret = [w \in Workers |-> ret[w]]
  BY DEF TypeOK
<1>1. ASSUME NEW w \in Workers, WorkerCalls(w) \/ WorkerLocks(w)
      PROVE  FreeHands'
  BY <1>0, <1>1 DEF WorkerCalls, AddToQueue, ItemsCount, DequeueItems, EncodeFinished,
                    WorkerLocks, AddLock, CountLock, DequeueLock, FinishLock
<1>2. ASSUME NEW w \in Workers, WorkerRuns(w)
      PROVE  FreeHands'
  BY <1>0, <1>2 DEF WorkerRuns, AddItem, AddUnlock, CountUnlock, DequeueShift, DequeueUnlock,
                    Stamp, FinishAppend, FinishTrim, FinishUnlock
<1>3. ASSUME NEW r \in Readers, ReaderCalls(r) \/ ReaderLocks(r) \/ ReaderRuns(r)
      PROVE  FreeHands'
  BY <1>0, <1>3 DEF ReaderCalls, ReaderLocks, ReaderRuns, GetFinishedItems, GetLock, GetCopy,
                    GetUnlock
<1>4. CASE UNCHANGED vars
  BY <1>4 DEF vars
<1> QED  BY <1>1, <1>2, <1>3, <1>4 DEF Next

(* A thread outside the mutex does not change what its holder makes of the   *)
(* queue.                                                                    *)
LEMMA OutsideStep ==
  ASSUME TypeOK, QueueLocked, NEW t \in Threads, pc[t] \notin InQueue,
         NEW to, to # "shifting", pc' = [pc EXCEPT ![t] = to], UNCHANGED queueVars,
         \A u \in Workers : u # t => /\ items'[u] = items[u] /\ prepend'[u] = prepend[u]
                                     /\ count'[u] = count[u]
  PROVE  /\ QueueInEffect' = QueueInEffect
         /\ \A u \in Workers : pc'[u] = "shifting" <=> pc[u] = "shifting"
         /\ ret' = ret => HandsInEffect' = HandsInEffect
         /\ count' = count => KnownInEffect' = KnownInEffect
<1>0. pc = [u \in Threads |-> pc[u]] /\ Workers \subseteq Threads
  BY DEF TypeOK, Threads
<1>1. /\ UNCHANGED <<to_encode_queue, to_encode_queue_lock>>
      /\ to_encode_queue_lock \in Workers \cup {NoThread}
  BY DEF queueVars, TypeOK
<1>2. QueueInEffect' = QueueInEffect
  <2>1. CASE to_encode_queue_lock = NoThread
    BY <1>1, <2>1 DEF QueueInEffect, Inside
  <2>2. CASE to_encode_queue_lock \in Workers
    <3> DEFINE u == to_encode_queue_lock
    <3>1. pc[u] \in InQueue /\ u # t
      BY <2>2 DEF QueueLocked
    <3>2. pc'[u] = pc[u]
      BY <1>0, <2>2, <3>1
    <3>3. items'[u] = items[u] /\ prepend'[u] = prepend[u] /\ count'[u] = count[u]
      BY <2>2, <3>1
    <3> QED  BY <1>1, <3>2, <3>3 DEF QueueInEffect, Inside
  <2> QED  BY <1>1, <2>1, <2>2
<1>3. \A u \in Workers : pc'[u] = "shifting" <=> pc[u] = "shifting"
  BY <1>0 DEF InQueue
<1>4. ASSUME ret' = ret
      PROVE  HandsInEffect' = HandsInEffect
  <2>1. ASSUME NEW u \in Workers, pc[u] = "shifting"
        PROVE  count'[u] = count[u]
    BY <2>1 DEF InQueue
  <2> QED  BY <1>1, <1>3, <1>4, <2>1 DEF HandsInEffect
<1>5. ASSUME count' = count
      PROVE  KnownInEffect' = KnownInEffect
  BY <1>3, <1>5 DEF KnownInEffect
<1> QED  BY <1>2, <1>3, <1>4, <1>5

(* Most steps outside the mutex of the queue cannot be seen by its users. *)
LEMMA OutsideStutters ==
  ASSUME TypeOK, QueueLocked, NEW w \in Workers,
         \/ \E b \in Batches, front \in BOOLEAN : AddToQueue(w, b, front)
         \/ \E ok \in BOOLEAN : EncodeFinished(w, ok)
         \/ ItemsCount(w) \/ Stamp(w) \/ FinishLock(w) \/ FinishTrim(w) \/ FinishUnlock(w)
  PROVE  UNCHANGED <<QueueInEffect, KnownInEffect, HandsInEffect>>
<1> USE DEF listVars, itemVars, localVars, viewVars
<1>1. w \in Threads /\ UNCHANGED <<queueVars, ret, count>>
  BY DEF Threads, AddToQueue, EncodeFinished, ItemsCount, Stamp, FinishLock, FinishTrim,
         FinishUnlock
<1>2. \A u \in Workers : u # w => /\ items'[u] = items[u] /\ prepend'[u] = prepend[u]
                                  /\ count'[u] = count[u]
  BY DEF TypeOK, AddToQueue, EncodeFinished, ItemsCount, Stamp, FinishLock, FinishTrim,
         FinishUnlock
<1>3. pc[w] \notin InQueue /\ \E to : to # "shifting" /\ pc' = [pc EXCEPT ![w] = to]
  BY DEF InQueue, Goto, AddToQueue, EncodeFinished, ItemsCount, Stamp, FinishLock, FinishTrim,
         FinishUnlock
<1> QED  BY <1>1, <1>2, <1>3, OutsideStep

(* Readers have nothing to do with the queue. *)
LEMMA ReadersStutter ==
  ASSUME TypeOK, QueueLocked, OwnLabels, NEW r \in Readers,
         ReaderCalls(r) \/ ReaderLocks(r) \/ ReaderRuns(r)
  PROVE  UNCHANGED <<QueueInEffect, KnownInEffect, HandsInEffect>>
<1> USE DEF listVars, itemVars, localVars, viewVars, ReaderCalls, ReaderLocks, ReaderRuns,
            GetFinishedItems, GetLock, GetCopy, GetUnlock
<1>1. r \in Threads /\ UNCHANGED <<queueVars, items, prepend, ret, count>>
  BY DEF Threads
<1>2. pc[r] \notin InQueue /\ \E to : to # "shifting" /\ pc' = [pc EXCEPT ![r] = to]
  BY DEF InQueue, Goto
<1> HIDE DEF listVars, itemVars, localVars, viewVars, ReaderCalls, ReaderLocks, ReaderRuns,
             GetFinishedItems, GetLock, GetCopy, GetUnlock
<1> QED  BY <1>1, <1>2, OutsideStep

(* A worker says how many items it wants. *)
LEMMA DequeueItemsAsks ==
  ASSUME TypeOK, QueueLocked, NEW w \in Workers, DequeueItems(w)
  PROVE  Queue!AskForOne(w) \/ UNCHANGED <<QueueInEffect, KnownInEffect, HandsInEffect>>
<1>1. /\ w \in Threads /\ pc[w] \notin InQueue
      /\ pc' = [pc EXCEPT ![w] = "dequeue"] /\ UNCHANGED <<queueVars, items, prepend, ret>>
  BY DEF Threads, InQueue, DequeueItems, Goto
<1>2. PICK n \in {1, count[w]} : count' = [count EXCEPT ![w] = n]
  BY DEF DequeueItems
<1>3. count \in [Workers -> Nat]
  BY DEF TypeOK
<1>4. /\ QueueInEffect' = QueueInEffect /\ HandsInEffect' = HandsInEffect
      /\ \A u \in Workers : pc'[u] = "shifting" <=> pc[u] = "shifting"
      /\ count' = count => KnownInEffect' = KnownInEffect
  <2>1. \A u \in Workers : u # w => count'[u] = count[u]
    BY <1>2, <1>3
  <2> QED  BY <1>1, <2>1, OutsideStep
<1>5. CASE n = 1
  <2>1. pc[w] # "shifting"
    BY <1>1 DEF InQueue
  <2>2. KnownInEffect' = [KnownInEffect EXCEPT ![w] = 1]
    BY <1>2, <1>3, <1>4, <1>5, <2>1 DEF KnownInEffect
  <2> QED  BY <1>4, <2>2 DEF Queue!AskForOne
<1>6. CASE n = count[w]
  <2>1. count' = count
    BY <1>2, <1>3, <1>6
  <2> QED  BY <1>4, <2>1
<1> QED  BY <1>5, <1>6

(* An item that is published leaves the hands of its worker. *)
LEMMA AppendEncodes ==
  ASSUME TypeOK, QueueLocked, HasItem, NEW w \in Workers, FinishAppend(w)
  PROVE  Queue!Encode(w)
<1>1. /\ w \in Threads /\ pc[w] \notin InQueue /\ pc[w] = "append"
      /\ pc' = [pc EXCEPT ![w] = "trim"] /\ UNCHANGED <<queueVars, items, prepend, count>>
      /\ ret' = [ret EXCEPT ![w] = Tail(ret[w])]
  BY DEF Threads, InQueue, FinishAppend, Goto
<1>2. /\ QueueInEffect' = QueueInEffect /\ KnownInEffect' = KnownInEffect
      /\ \A u \in Workers : pc'[u] = "shifting" <=> pc[u] = "shifting"
  BY <1>1, OutsideStep
<1>3. ret \in [Workers -> Seq(Item)] /\ UNCHANGED to_encode_queue
  BY <1>1 DEF TypeOK, queueVars
<1>4. HandsInEffect[w] = ret[w] /\ ret[w] # <<>>
  BY <1>1 DEF HandsInEffect, HasItem
<1>5. HandsInEffect' = [HandsInEffect EXCEPT ![w] = Tail(HandsInEffect[w])]
  <2>1. \A u \in Workers : u # w => HandsInEffect'[u] = HandsInEffect[u]
    BY <1>1, <1>2, <1>3 DEF HandsInEffect
  <2>2. HandsInEffect'[w] = Tail(ret[w])
    BY <1>1, <1>2, <1>3 DEF HandsInEffect
  <2>3. /\ HandsInEffect = [u \in Workers |-> HandsInEffect[u]]
        /\ HandsInEffect' = [u \in Workers |-> HandsInEffect'[u]]
    BY DEF HandsInEffect
  <2> HIDE DEF HandsInEffect
  <2> QED  BY <1>4, <2>1, <2>2, <2>3
<1> QED  BY <1>2, <1>4, <1>5 DEF Queue!Encode
-------------------------------------------------------------------------------
(* The steps that take the mutex, and those inside it *)

(* Who has the mutex, or takes it, changes what is in its own hands only.    *)
LEMMA OnlyOwnHands ==
  ASSUME TypeOK, QueueLocked, NEW w \in Workers,
         pc[w] \in InQueue \/ to_encode_queue_lock = NoThread,
         \A u \in Workers : u # w => pc'[u] = pc[u] /\ ret'[u] = ret[u] /\ count'[u] = count[u]
  PROVE  /\ HandsInEffect' = [HandsInEffect EXCEPT ![w] = HandsInEffect'[w]]
         /\ KnownInEffect' = [KnownInEffect EXCEPT ![w] = KnownInEffect'[w]]
         /\ HandsInEffect'[w] = HandsInEffect[w] => HandsInEffect' = HandsInEffect
         /\ KnownInEffect'[w] = KnownInEffect[w] => KnownInEffect' = KnownInEffect
<1>1. \A u \in Workers : u # w => pc[u] # "shifting"
  BY ThreadsAssumption DEF QueueLocked, InQueue, Threads
<1>2. \A u \in Workers : u # w => /\ HandsInEffect'[u] = HandsInEffect[u]
                                  /\ KnownInEffect'[u] = KnownInEffect[u]
  BY <1>1 DEF HandsInEffect, KnownInEffect
<1>3. /\ HandsInEffect = [u \in Workers |-> HandsInEffect[u]]
      /\ HandsInEffect' = [u \in Workers |-> HandsInEffect'[u]]
      /\ KnownInEffect = [u \in Workers |-> KnownInEffect[u]]
      /\ KnownInEffect' = [u \in Workers |-> KnownInEffect'[u]]
  BY DEF HandsInEffect, KnownInEffect
<1> HIDE DEF HandsInEffect, KnownInEffect
<1> QED  BY <1>2, <1>3

(* The whole batch is in the queue when its add takes the mutex. *)
LEMMA AddLockAdds ==
  ASSUME TypeOK, QueueLocked, AtTheEdge, NEW w \in Workers, AddLock(w)
  PROVE  \E s \in {BatchItems(b) : b \in Batches} : Queue!Add(s) \/ Queue!AddInFront(s)
<1>1. /\ pc[w] = "add" /\ pc' = [pc EXCEPT ![w] = "adding"]
      /\ to_encode_queue_lock = NoThread /\ to_encode_queue_lock' = w
      /\ UNCHANGED <<to_encode_queue, items, prepend, count, ret>>
  BY DEF AddLock, Goto, LockQueue, localVars
<1>2. w # NoThread /\ w \in Threads /\ pc = [t \in Threads |-> pc[t]]
  BY ThreadsAssumption DEF Threads, TypeOK
<1>3. /\ pc'[w] = "adding" /\ \A u \in Workers : u # w => pc'[u] = pc[u]
      /\ \A u \in Workers : pc'[u] = "shifting" <=> pc[u] = "shifting"
  BY <1>1, <1>2 DEF Threads
<1>4. PICK b \in Batches : items[w] = BatchItems(b)
  BY <1>1 DEF AtTheEdge, AtEdge
<1>5. QueueInEffect = to_encode_queue
  BY <1>1 DEF QueueInEffect, Inside
<1>6. QueueInEffect' = IF prepend[w] THEN Reverse(items[w]) \o to_encode_queue
                                     ELSE to_encode_queue \o items[w]
  BY <1>1, <1>2, <1>3 DEF QueueInEffect, Inside
<1>7. HandsInEffect' = HandsInEffect /\ KnownInEffect' = KnownInEffect
  BY <1>1, <1>3 DEF HandsInEffect, KnownInEffect
<1>8. items[w] \in {BatchItems(c) : c \in Batches}
  BY <1>4
<1>9. Queue!Add(items[w]) \/ Queue!AddInFront(items[w])
  <2>1. CASE prepend[w]
    BY <1>5, <1>6, <1>7, <2>1 DEF Queue!AddInFront, Queue!Reverse, Reverse
  <2>2. CASE ~prepend[w]
    BY <1>5, <1>6, <1>7, <2>2 DEF Queue!Add
  <2> QED  BY <2>1, <2>2
<1> QED  BY <1>8, <1>9

(* What is inserted is no longer to be inserted: nothing changes. *)
LEMMA AddItemStutters ==
  ASSUME TypeOK, QueueLocked, NEW w \in Workers, AddItem(w) \/ AddUnlock(w)
  PROVE  UNCHANGED <<QueueInEffect, KnownInEffect, HandsInEffect>>
<1>1. /\ pc[w] = "adding" /\ to_encode_queue_lock = w /\ w # NoThread /\ w \in Threads
      /\ pc = [t \in Threads |-> pc[t]]
  BY ThreadsAssumption DEF AddItem, AddUnlock, Goto, QueueLocked, InQueue, Threads, TypeOK
<1>2. /\ to_encode_queue \in Seq(Item) /\ items \in [Workers -> Seq(Item)]
      /\ items[w] \in Seq(Item)
  BY DEF TypeOK
<1>3. QueueInEffect = IF prepend[w] THEN Reverse(items[w]) \o to_encode_queue
                                    ELSE to_encode_queue \o items[w]
  BY <1>1 DEF QueueInEffect, Inside
<1>4. CASE AddItem(w)
  <2>1. /\ items[w] # <<>> /\ UNCHANGED <<to_encode_queue_lock, pc, prepend, count, ret>>
        /\ items' = [items EXCEPT ![w] = Tail(items[w])]
        /\ to_encode_queue' = IF prepend[w] THEN <<Head(items[w])>> \o to_encode_queue
                              ELSE Append(to_encode_queue, Head(items[w]))
    BY <1>4 DEF AddItem
  <2>2. items'[w] = Tail(items[w])
    BY <1>2, <2>1
  <2>3. QueueInEffect' = IF prepend[w] THEN Reverse(Tail(items[w])) \o to_encode_queue'
                                       ELSE to_encode_queue' \o Tail(items[w])
    BY <1>1, <2>1, <2>2 DEF QueueInEffect, Inside
  <2>4. /\ Reverse(Tail(items[w])) \o (<<Head(items[w])>> \o to_encode_queue)
             = Reverse(items[w]) \o to_encode_queue
        /\ Append(to_encode_queue, Head(items[w])) \o Tail(items[w])
             = to_encode_queue \o items[w]
    BY <1>2, <2>1, InsertAtFront, InsertAtEnd
  <2>5. QueueInEffect' = QueueInEffect
    BY <1>3, <2>1, <2>3, <2>4
  <2>6. HandsInEffect'[w] = HandsInEffect[w] /\ KnownInEffect'[w] = KnownInEffect[w]
    BY <1>1, <2>1 DEF HandsInEffect, KnownInEffect
  <2>7. HandsInEffect' = HandsInEffect /\ KnownInEffect' = KnownInEffect
    BY <1>1, <2>1, <2>6, OnlyOwnHands DEF InQueue
  <2> QED  BY <2>5, <2>7
<1>5. CASE AddUnlock(w)
  <2>1. /\ items[w] = <<>> /\ pc' = [pc EXCEPT ![w] = "idle"]
        /\ to_encode_queue_lock' = NoThread /\ UNCHANGED <<to_encode_queue, count, ret>>
    BY <1>5 DEF AddUnlock, Goto, UnlockQueue, localVars
  <2>2. QueueInEffect' = to_encode_queue
    BY <2>1 DEF QueueInEffect, Inside
  <2>3. Reverse(<<>>) = <<>>
    <3>1. Reverse(<<>>) \in Seq(Item) /\ Len(Reverse(<<>>)) = 0
      BY EmptySeq, ReverseProperties
    <3> QED  BY <3>1, EmptySeq
  <2>4. QueueInEffect = to_encode_queue
    BY <1>2, <1>3, <2>1, <2>3, ConcatEmptySeq
  <2>5. \A u \in Workers : pc'[u] = "shifting" <=> pc[u] = "shifting"
    BY <1>1, <2>1 DEF Threads
  <2>6. HandsInEffect' = HandsInEffect /\ KnownInEffect' = KnownInEffect
    BY <2>1, <2>5 DEF HandsInEffect, KnownInEffect
  <2> QED  BY <2>2, <2>4, <2>6
<1> QED  BY <1>4, <1>5

(* items_count changes nothing when it takes the mutex, and answers with the *)
(* length of the queue under it.                                             *)
LEMMA CountLockStutters ==
  ASSUME TypeOK, NEW w \in Workers, CountLock(w)
  PROVE  UNCHANGED <<QueueInEffect, KnownInEffect, HandsInEffect>>
<1>1. /\ pc[w] = "count" /\ pc' = [pc EXCEPT ![w] = "counting"]
      /\ to_encode_queue_lock = NoThread /\ to_encode_queue_lock' = w
      /\ UNCHANGED <<to_encode_queue, count, ret>>
  BY DEF CountLock, Goto, LockQueue, localVars
<1>2. w \in Threads /\ pc = [t \in Threads |-> pc[t]]
  BY DEF Threads, TypeOK
<1>3. pc'[w] = "counting" /\ \A u \in Workers : pc'[u] = "shifting" <=> pc[u] = "shifting"
  BY <1>1, <1>2 DEF Threads
<1>4. QueueInEffect' = QueueInEffect
  BY <1>1, <1>3 DEF QueueInEffect, Inside
<1>5. HandsInEffect' = HandsInEffect /\ KnownInEffect' = KnownInEffect
  BY <1>1, <1>3 DEF HandsInEffect, KnownInEffect
<1> QED  BY <1>4, <1>5

(* With the mutex in its hand, it is the length at that instant. *)
LEMMA CountUnlockCounts ==
  ASSUME TypeOK, QueueLocked, NEW w \in Workers, CountUnlock(w)
  PROVE  Queue!Count(w)
<1>1. /\ pc[w] = "counting" /\ pc' = [pc EXCEPT ![w] = "idle"]
      /\ to_encode_queue_lock' = NoThread /\ UNCHANGED <<to_encode_queue, ret>>
      /\ count' = [count EXCEPT ![w] = Len(to_encode_queue)]
  BY DEF CountUnlock, Goto, UnlockQueue
<1>2. /\ w \in Threads /\ to_encode_queue_lock = w /\ pc = [t \in Threads |-> pc[t]]
      /\ count = [u \in Workers |-> count[u]]
  BY <1>1 DEF QueueLocked, InQueue, Threads, TypeOK
<1>3. /\ pc'[w] = "idle" /\ \A u \in Workers : u # w => pc'[u] = pc[u] /\ count'[u] = count[u]
      /\ count'[w] = Len(to_encode_queue)
  BY <1>1, <1>2 DEF Threads
<1>4. QueueInEffect = to_encode_queue /\ QueueInEffect' = to_encode_queue
  BY <1>1, <1>2 DEF QueueInEffect, Inside
<1>5. HandsInEffect'[w] = HandsInEffect[w] /\ KnownInEffect'[w] = Len(to_encode_queue)
  BY <1>1, <1>3 DEF HandsInEffect, KnownInEffect
<1>6. /\ HandsInEffect' = HandsInEffect
      /\ KnownInEffect' = [KnownInEffect EXCEPT ![w] = Len(to_encode_queue)]
  BY <1>1, <1>3, <1>5, OnlyOwnHands DEF InQueue
<1> QED  BY <1>4, <1>6 DEF Queue!Count

(* What a dequeue will take is out of the queue when it takes the mutex. *)
LEMMA DequeueLockTakes ==
  ASSUME TypeOK, QueueLocked, FreeHands, NEW w \in Workers, DequeueLock(w)
  PROVE  Queue!Take(w)
<1>1. /\ pc[w] = "dequeue" /\ pc' = [pc EXCEPT ![w] = "shifting"]
      /\ to_encode_queue_lock = NoThread /\ to_encode_queue_lock' = w
      /\ UNCHANGED <<to_encode_queue, count, ret>>
  BY DEF DequeueLock, Goto, LockQueue, localVars
<1>2. /\ w # NoThread /\ w \in Threads /\ pc = [t \in Threads |-> pc[t]]
      /\ to_encode_queue \in Seq(Item) /\ count[w] \in Nat
  BY ThreadsAssumption DEF Threads, TypeOK
<1>3. pc'[w] = "shifting" /\ \A u \in Workers : u # w => pc'[u] = pc[u]
  BY <1>1, <1>2 DEF Threads
<1>4. /\ QueueInEffect = to_encode_queue
      /\ QueueInEffect' = Rest(to_encode_queue, count[w])
  BY <1>1, <1>2, <1>3 DEF QueueInEffect, Inside
<1>5. ret[w] = <<>>
  BY <1>1 DEF FreeHands
<1>6. /\ HandsInEffect[w] = <<>> /\ HandsInEffect'[w] = First(to_encode_queue, count[w])
      /\ KnownInEffect[w] = count[w] /\ KnownInEffect'[w] = 1
  <2>1. <<>> \o First(to_encode_queue, count[w]) = First(to_encode_queue, count[w])
    BY <1>2, ShiftType, ConcatEmptySeq
  <2> QED  BY <1>1, <1>3, <1>5, <2>1 DEF HandsInEffect, KnownInEffect
<1>7. /\ HandsInEffect' = [HandsInEffect EXCEPT ![w] = First(to_encode_queue, count[w])]
      /\ KnownInEffect' = [KnownInEffect EXCEPT ![w] = 1]
  BY <1>1, <1>3, <1>6, OnlyOwnHands
<1>8. /\ Queue!First(to_encode_queue, count[w]) = First(to_encode_queue, count[w])
      /\ Queue!Rest(to_encode_queue, count[w]) = Rest(to_encode_queue, count[w])
  BY DEF First, Rest, Queue!First, Queue!Rest
<1> QED  BY <1>4, <1>6, <1>7, <1>8 DEF Queue!Take

(* What is shifted was taken already: nothing changes. *)
LEMMA DequeueShiftStutters ==
  ASSUME TypeOK, QueueLocked, NEW w \in Workers, DequeueShift(w)
  PROVE  UNCHANGED <<QueueInEffect, KnownInEffect, HandsInEffect>>
<1> DEFINE q == to_encode_queue
           n == count[w]
<1>1. /\ pc[w] = "shifting" /\ n > 0 /\ q # <<>> /\ UNCHANGED <<to_encode_queue_lock, pc>>
      /\ ret' = [ret EXCEPT ![w] = Append(ret[w], Head(q))]
      /\ to_encode_queue' = Tail(q) /\ count' = [count EXCEPT ![w] = n - 1]
  BY DEF DequeueShift
<1>2. /\ to_encode_queue_lock = w /\ w # NoThread /\ w \in Threads
      /\ q \in Seq(Item) /\ n \in Nat /\ ret[w] \in Seq(Item)
      /\ ret = [u \in Workers |-> ret[u]] /\ count = [u \in Workers |-> count[u]]
  BY <1>1, ThreadsAssumption DEF QueueLocked, InQueue, Threads, TypeOK
<1>3. /\ ret'[w] = Append(ret[w], Head(q)) /\ count'[w] = n - 1
      /\ \A u \in Workers : u # w => ret'[u] = ret[u] /\ count'[u] = count[u]
  BY <1>1, <1>2
<1>4. QueueInEffect = Rest(q, n) /\ QueueInEffect' = Rest(Tail(q), n - 1)
  BY <1>1, <1>2, <1>3 DEF QueueInEffect, Inside
<1>5. /\ HandsInEffect[w] = ret[w] \o First(q, n)
      /\ HandsInEffect'[w] = Append(ret[w], Head(q)) \o First(Tail(q), n - 1)
      /\ KnownInEffect[w] = 1 /\ KnownInEffect'[w] = 1
  BY <1>1, <1>3 DEF HandsInEffect, KnownInEffect
<1> HIDE DEF q, n
<1>6. /\ Rest(Tail(q), n - 1) = Rest(q, n)
      /\ First(q, n) = <<Head(q)>> \o First(Tail(q), n - 1)
  BY <1>1, <1>2, ShiftOne
<1>7. Append(ret[w], Head(q)) \o First(Tail(q), n - 1) = ret[w] \o First(q, n)
  <2>1. Head(q) \in Item /\ Tail(q) \in Seq(Item) /\ n - 1 \in Nat
    BY <1>1, <1>2, HeadTailProperties
  <2>2. <<Head(q)>> \in Seq(Item) /\ First(Tail(q), n - 1) \in Seq(Item)
    <3>1. First(Tail(q), n - 1) \in Seq(Item)
      BY <2>1, ShiftType
    <3> QED  BY <2>1, <3>1
  <2>3. Append(ret[w], Head(q)) = ret[w] \o <<Head(q)>>
    BY <1>2, <2>1, AppendIsConcat
  <2>4. (ret[w] \o <<Head(q)>>) \o First(Tail(q), n - 1)
          = ret[w] \o (<<Head(q)>> \o First(Tail(q), n - 1))
    BY <1>2, <2>2, ConcatAssociative
  <2> QED  BY <1>6, <2>3, <2>4
<1>8. HandsInEffect' = HandsInEffect /\ KnownInEffect' = KnownInEffect
  <2>1. HandsInEffect'[w] = HandsInEffect[w] /\ KnownInEffect'[w] = KnownInEffect[w]
    BY <1>5, <1>7
  <2>2. \A u \in Workers : u # w => pc'[u] = pc[u] /\ ret'[u] = ret[u] /\ count'[u] = count[u]
    BY <1>1, <1>3
  <2>3. pc[w] \in InQueue
    BY <1>1 DEF InQueue
  <2> QED  BY <2>1, <2>2, <2>3, OnlyOwnHands
<1> QED  BY <1>4, <1>6, <1>8

(* A dequeue that is done has taken what it was to take. *)
LEMMA DequeueUnlockStutters ==
  ASSUME TypeOK, QueueLocked, NEW w \in Workers, DequeueUnlock(w)
  PROVE  UNCHANGED <<QueueInEffect, KnownInEffect, HandsInEffect>>
<1> DEFINE q == to_encode_queue
           n == count[w]
<1>1. /\ pc[w] = "shifting" /\ pc' = [pc EXCEPT ![w] = "idle"] /\ (n = 0 \/ q = <<>>)
      /\ to_encode_queue_lock' = NoThread /\ UNCHANGED <<to_encode_queue, ret>>
      /\ count' = [count EXCEPT ![w] = 1]
  BY DEF DequeueUnlock, Goto, UnlockQueue
<1>2. /\ to_encode_queue_lock = w /\ w # NoThread /\ w \in Threads
      /\ q \in Seq(Item) /\ n \in Nat /\ ret[w] \in Seq(Item)
      /\ pc = [t \in Threads |-> pc[t]] /\ count = [u \in Workers |-> count[u]]
  BY <1>1, ThreadsAssumption DEF QueueLocked, InQueue, Threads, TypeOK
<1>3. /\ pc'[w] = "idle" /\ count'[w] = 1
      /\ \A u \in Workers : u # w => pc'[u] = pc[u] /\ count'[u] = count[u]
  BY <1>1, <1>2 DEF Threads
<1>4. QueueInEffect = Rest(q, n) /\ QueueInEffect' = q
  BY <1>1, <1>2 DEF QueueInEffect, Inside
<1>5. /\ HandsInEffect[w] = ret[w] \o First(q, n) /\ HandsInEffect'[w] = ret[w]
      /\ KnownInEffect[w] = 1 /\ KnownInEffect'[w] = 1
  BY <1>1, <1>3 DEF HandsInEffect, KnownInEffect
<1> HIDE DEF q, n
<1>6. Rest(q, n) = q /\ First(q, n) = <<>>
  BY <1>1, <1>2, ShiftNone
<1>7. ret[w] \o First(q, n) = ret[w]
  BY <1>2, <1>6, ConcatEmptySeq
<1>8. HandsInEffect' = HandsInEffect /\ KnownInEffect' = KnownInEffect
  BY <1>1, <1>3, <1>5, <1>7, OnlyOwnHands DEF InQueue
<1> QED  BY <1>4, <1>6, <1>8

(* Every step is one of the queue as its users see it, or changes nothing    *)
(* they see.                                                                 *)
LEMMA QueueStep ==
  ASSUME IInv, QInv, FreeHands, [Next]_vars
  PROVE  Queue!Next \/ UNCHANGED <<QueueInEffect, KnownInEffect, HandsInEffect>>
<1>0. /\ TypeOK /\ OwnLabels /\ HasItem
      /\ QueueLocked /\ AtTheEdge
  BY DEF IInv, QInv
<1>1. ASSUME NEW w \in Workers, WorkerCalls(w)
      PROVE  Queue!Next \/ UNCHANGED <<QueueInEffect, KnownInEffect, HandsInEffect>>
  <2>1. CASE DequeueItems(w)
    BY <1>0, <2>1, DequeueItemsAsks DEF Queue!Next
  <2> QED  BY <1>0, <1>1, <2>1, OutsideStutters DEF WorkerCalls
<1>2. ASSUME NEW w \in Workers, WorkerLocks(w)
      PROVE  Queue!Next \/ UNCHANGED <<QueueInEffect, KnownInEffect, HandsInEffect>>
  <2>1. CASE AddLock(w)
    BY <1>0, <2>1, AddLockAdds DEF Queue!Next
  <2>2. CASE CountLock(w)
    BY <1>0, <2>2, CountLockStutters
  <2>3. CASE DequeueLock(w)
    BY <1>0, <2>3, DequeueLockTakes DEF Queue!Next
  <2>4. CASE FinishLock(w)
    BY <1>0, <2>4, OutsideStutters
  <2> QED  BY <1>2, <2>1, <2>2, <2>3, <2>4 DEF WorkerLocks
<1>3. ASSUME NEW w \in Workers, WorkerRuns(w)
      PROVE  Queue!Next \/ UNCHANGED <<QueueInEffect, KnownInEffect, HandsInEffect>>
  <2>1. CASE AddItem(w) \/ AddUnlock(w)
    BY <1>0, <2>1, AddItemStutters
  <2>2. CASE CountUnlock(w)
    BY <1>0, <2>2, CountUnlockCounts DEF Queue!Next
  <2>3. CASE DequeueShift(w)
    BY <1>0, <2>3, DequeueShiftStutters
  <2>4. CASE DequeueUnlock(w)
    BY <1>0, <2>4, DequeueUnlockStutters
  <2>5. CASE FinishAppend(w)
    BY <1>0, <2>5, AppendEncodes DEF Queue!Next
  <2>6. CASE Stamp(w) \/ FinishTrim(w) \/ FinishUnlock(w)
    BY <1>0, <2>6, OutsideStutters
  <2> QED  BY <1>3, <2>1, <2>2, <2>3, <2>4, <2>5, <2>6 DEF WorkerRuns
<1>4. ASSUME NEW r \in Readers, ReaderCalls(r) \/ ReaderLocks(r) \/ ReaderRuns(r)
      PROVE  UNCHANGED <<QueueInEffect, KnownInEffect, HandsInEffect>>
  BY <1>0, <1>4, ReadersStutter
<1>5. CASE UNCHANGED vars
  BY <1>5 DEF vars, queueVars, localVars, QueueInEffect, KnownInEffect, HandsInEffect, Inside
<1> QED  BY <1>1, <1>2, <1>3, <1>4, <1>5 DEF Next

(* The mutex makes the loops of add_to_queue and dequeue_items invisible: to  *)
(* its users the queue is that of EncodeQueue, in which whole batches come    *)
(* and the first items go at once.                                            *)
THEOREM ImplementsQueue == Spec => QueueSpec
<1>1. Init => FreeHands /\ Queue!Init
  BY ThreadsAssumption
     DEF Init, FreeHands, Queue!Init, QueueInEffect, KnownInEffect, HandsInEffect, Inside, Threads
<1>2. IInv /\ FreeHands /\ [Next]_vars => FreeHands'
  BY FreeHandsStep DEF IInv
<1>3. IInv /\ QInv /\ FreeHands /\ [Next]_vars => [Queue!Next]_(Queue!queueView)
  BY QueueStep DEF Queue!queueView
<1> QED
  BY <1>1, <1>2, <1>3, Invariance, QueueInvariance, PTL DEF Spec, QueueSpec, Queue!Spec
===============================================================================
