---------------------- MODULE ApplicationStateQueue_proofs ----------------------
(***************************************************************************)
(* Proofs about the queue of ApplicationState and about the items on their *)
(* way through it, for any threads, batches and sizes: no item is lost or  *)
(* handed out twice, a batch stays in one piece, and an item is not        *)
(* written any more once it is published.                                  *)
(***************************************************************************)
EXTENDS ApplicationState_proofs, FiniteSetTheorems

(* Append puts one element more into the sequence. *)
LEMMA AppendElems ==
  ASSUME NEW S, NEW s \in Seq(S), NEW x \in S
  PROVE  /\ Range(Append(s, x)) = Range(s) \cup {x}
         /\ IsInjective(s) /\ x \notin Range(s) => IsInjective(Append(s, x))
<1>1. /\ DOMAIN s = 1..Len(s) /\ DOMAIN Append(s, x) = 1..(Len(s) + 1) /\ Len(s) \in Nat
      /\ \A i \in 1..Len(s) : Append(s, x)[i] = s[i]
      /\ Append(s, x)[Len(s) + 1] = x
  BY AppendProperties, LenProperties
<1>2. \A i \in 1..(Len(s) + 1) : i \in 1..Len(s) \/ i = Len(s) + 1
  BY <1>1
<1>3. 1..Len(s) \subseteq 1..(Len(s) + 1) /\ Len(s) + 1 \in 1..(Len(s) + 1)
  BY <1>1
<1>4. Range(Append(s, x)) = Range(s) \cup {x}
  BY <1>1, <1>2, <1>3 DEF Range
<1>5. ASSUME IsInjective(s), x \notin Range(s)
      PROVE  IsInjective(Append(s, x))
  BY <1>1, <1>2, <1>5 DEF IsInjective, Range
<1> QED  BY <1>4, <1>5

(* So does an insertion at the front. *)
LEMMA PrependElems ==
  ASSUME NEW S, NEW s \in Seq(S), NEW x \in S
  PROVE  /\ Range(<<x>> \o s) = Range(s) \cup {x}
         /\ IsInjective(s) /\ x \notin Range(s) => IsInjective(<<x>> \o s)
<1> DEFINE p == <<x>> \o s
<1>1. <<x>> \in Seq(S) /\ Len(<<x>>) = 1 /\ <<x>>[1] = x
  OBVIOUS
<1>2. /\ p \in Seq(S) /\ Len(p) = 1 + Len(s)
      /\ \A i \in 1..(1 + Len(s)) : p[i] = IF i <= 1 THEN <<x>>[i] ELSE s[i - 1]
  BY <1>1, ConcatProperties
<1> HIDE DEF p
<1>3. DOMAIN s = 1..Len(s) /\ DOMAIN p = 1..(1 + Len(s)) /\ Len(s) \in Nat
  BY <1>2, LenProperties
<1>4. p[1] = x /\ \A i \in 1..Len(s) : i + 1 \in DOMAIN p /\ p[i + 1] = s[i]
  BY <1>1, <1>2, <1>3
<1>5. 1 \in DOMAIN p /\ \A i \in DOMAIN p : i = 1 \/ (i - 1 \in 1..Len(s) /\ p[i] = s[i - 1])
  BY <1>2, <1>3
<1>6. Range(p) = Range(s) \cup {x}
  <2>1. \A e \in Range(p) : e \in Range(s) \cup {x}
    BY <1>3, <1>4, <1>5 DEF Range
  <2>2. \A e \in Range(s) \cup {x} : e \in Range(p)
    BY <1>3, <1>4, <1>5 DEF Range
  <2> QED  BY <2>1, <2>2
<1>7. ASSUME IsInjective(s), x \notin Range(s)
      PROVE  IsInjective(p)
  BY <1>3, <1>4, <1>5, <1>7 DEF IsInjective, Range
<1> QED  BY <1>6, <1>7 DEF p

(* shift takes the first element out, and only that when nothing is twice    *)
(* in the sequence.                                                          *)
LEMMA TailElems ==
  ASSUME NEW S, NEW s \in Seq(S), s # <<>>, IsInjective(s)
  PROVE  /\ Head(s) \in Range(s)
         /\ Range(Tail(s)) = Range(s) \ {Head(s)}
         /\ IsInjective(Tail(s))
<1>1. /\ DOMAIN s = 1..Len(s) /\ Len(s) \in Nat \ {0} /\ Head(s) = s[1]
      /\ Tail(s) \in Seq(S) /\ Len(Tail(s)) = Len(s) - 1
      /\ \A i \in 1..(Len(s) - 1) : Tail(s)[i] = s[i + 1]
  BY HeadTailProperties, EmptySeq, LenProperties
<1>2. DOMAIN Tail(s) = 1..(Len(s) - 1)
  BY <1>1, LenProperties
<1>3. 1 \in DOMAIN s /\ \A i \in DOMAIN Tail(s) : i + 1 \in DOMAIN s /\ i + 1 # 1
  BY <1>1, <1>2
<1>4. \A i \in DOMAIN s : i = 1 \/ (i - 1 \in DOMAIN Tail(s) /\ Tail(s)[i - 1] = s[i])
  BY <1>1, <1>2
<1>5. Range(Tail(s)) = Range(s) \ {Head(s)}
  BY <1>1, <1>2, <1>3, <1>4 DEF Range, IsInjective
<1>6. IsInjective(Tail(s))
  <2>1. \A i, j \in DOMAIN Tail(s) : i + 1 = j + 1 => i = j
    BY <1>1, <1>2
  <2> QED  BY <1>1, <1>2, <1>3, <2>1 DEF IsInjective
<1> QED  BY <1>1, <1>3, <1>5, <1>6 DEF Range

(* Two sequences without a common element, one after the other.              *)
LEMMA ConcatElems ==
  ASSUME NEW S, NEW s \in Seq(S), NEW t \in Seq(S)
  PROVE  /\ Range(s \o t) = Range(s) \cup Range(t)
         /\ IsInjective(s) /\ IsInjective(t) /\ Range(s) \cap Range(t) = {} => IsInjective(s \o t)
<1> DEFINE c == s \o t
           m == Len(s)
           n == Len(t)
<1>1. /\ c \in Seq(S) /\ Len(c) = m + n
      /\ \A i \in 1..(m + n) : c[i] = IF i <= m THEN s[i] ELSE t[i - m]
  BY ConcatProperties
<1>2. DOMAIN c = 1..(m + n) /\ DOMAIN s = 1..m /\ DOMAIN t = 1..n /\ m \in Nat /\ n \in Nat
  BY <1>1, LenProperties
<1> HIDE DEF c, m, n
<1>3. /\ \A i \in DOMAIN s : i \in DOMAIN c /\ c[i] = s[i]
      /\ \A i \in DOMAIN t : i + m \in DOMAIN c /\ c[i + m] = t[i]
  BY <1>1, <1>2
<1>4. \A i \in DOMAIN c : \/ i \in DOMAIN s /\ c[i] = s[i]
                          \/ i - m \in DOMAIN t /\ c[i] = t[i - m]
  BY <1>1, <1>2
<1>5. Range(c) = Range(s) \cup Range(t)
  BY <1>3, <1>4 DEF Range
<1>6. ASSUME IsInjective(s), IsInjective(t), Range(s) \cap Range(t) = {}
      PROVE  IsInjective(c)
  <2> SUFFICES ASSUME NEW i \in DOMAIN c, NEW j \in DOMAIN c, c[i] = c[j]
               PROVE  i = j
    BY DEF IsInjective
  <2>1. CASE i \in DOMAIN s /\ c[i] = s[i]
    <3>1. CASE j \in DOMAIN s /\ c[j] = s[j]
      BY <1>6, <2>1, <3>1 DEF IsInjective
    <3>2. CASE j - m \in DOMAIN t /\ c[j] = t[j - m]
      BY <1>6, <2>1, <3>2 DEF Range
    <3> QED  BY <1>4, <3>1, <3>2
  <2>2. CASE i - m \in DOMAIN t /\ c[i] = t[i - m]
    <3>1. CASE j - m \in DOMAIN t /\ c[j] = t[j - m]
      <4>1. i - m = j - m
        BY <1>6, <2>2, <3>1 DEF IsInjective
      <4> QED  BY <1>2, <4>1
    <3>2. CASE j \in DOMAIN s /\ c[j] = s[j]
      BY <1>6, <2>2, <3>2 DEF Range
    <3> QED  BY <1>4, <3>1, <3>2
  <2> QED  BY <1>4, <2>1, <2>2
<1> QED  BY <1>5, <1>6 DEF c
-------------------------------------------------------------------------------
(* The inductive invariants *)

\* Items are in hand for insertion only within add_to_queue.
EmptyHands == \A w \in Workers : pc[w] \notin {"add", "adding"} => items[w] = <<>>

\* What a worker has to insert or has taken.
Hands(w) == Range(items[w]) \cup Range(ret[w])

\* No item is at two places.
AtMostOnce ==
  /\ IsInjective(to_encode_queue) /\ IsInjective(published)
  /\ Range(to_encode_queue) \cap Range(published) = {}
  /\ \A w \in Workers :
       /\ IsInjective(items[w]) /\ IsInjective(ret[w])
       /\ Range(items[w]) \cap Range(ret[w]) = {}
       /\ Hands(w) \cap (Range(to_encode_queue) \cup Range(published)) = {}
       /\ \A u \in Workers : u # w => Hands(w) \cap Hands(u) = {}

\* The items of the batches that were created are somewhere, and no others.
Somewhere ==
  \A x \in Item :
    x[1] \notin unadded <=> \/ x \in Range(to_encode_queue)
                            \/ x \in Range(published)
                            \/ \E w \in Workers : x \in Hands(w)

\* The holder of the queue's mutex is the worker inside it.
InQueue == {"adding", "counting", "shifting"}
QueueLocked == \A w \in Workers : pc[w] \in InQueue <=> to_encode_queue_lock = w

\* A batch lies in one piece in a sequence of items.
OnePiece(s) ==
  \A i, j \in DOMAIN s : i < j /\ s[i][1] = s[j][1] => \A k \in i..j : s[k][1] = s[i][1]

\* An add that has the mutex has items of one batch left, and what it has
\* inserted of them is at the end at which it inserts.
AtEdge(w) ==
  /\ pc[w] = "add" => \E b \in Batches : items[w] = BatchItems(b)
  /\ pc[w] = "adding" /\ items[w] # <<>> =>
       \E b \in Batches :
         /\ \A i \in DOMAIN items[w] : items[w][i][1] = b
         /\ \/ \A i \in DOMAIN to_encode_queue : to_encode_queue[i][1] # b
            \/ /\ to_encode_queue # <<>>
               /\ to_encode_queue[IF prepend[w] THEN 1 ELSE Len(to_encode_queue)][1] = b
AtTheEdge == \A w \in Workers : AtEdge(w)

\* An item that is published, or about to be, has its time.
Stamped == /\ \A x \in Range(published) : finished_at[x]
           /\ \A w \in Workers : pc[w] \in {"finish", "append"} => finished_at[Head(ret[w])]
-------------------------------------------------------------------------------
(* Nothing is lost and nothing handed out twice *)

(* Four steps move items; all others leave them where they are. *)
LEMMA MovesOrNot ==
  ASSUME [Next]_vars
  PROVE  \/ \E w \in Workers, b \in Batches, front \in BOOLEAN : AddToQueue(w, b, front)
         \/ \E w \in Workers : AddItem(w) \/ DequeueShift(w) \/ FinishAppend(w)
         \/ UNCHANGED <<to_encode_queue, items, ret, published, unadded>>
<1> USE DEF queueVars, listVars, itemVars, localVars, viewVars
<1>1. ASSUME NEW w \in Workers, WorkerCalls(w) \/ WorkerLocks(w)
      PROVE  \/ \E b \in Batches, front \in BOOLEAN : AddToQueue(w, b, front)
             \/ UNCHANGED <<to_encode_queue, items, ret, published, unadded>>
  BY <1>1 DEF WorkerCalls, ItemsCount, DequeueItems, EncodeFinished,
              WorkerLocks, AddLock, CountLock, DequeueLock, FinishLock
<1>2. ASSUME NEW w \in Workers, WorkerRuns(w)
      PROVE  \/ AddItem(w) \/ DequeueShift(w) \/ FinishAppend(w)
             \/ UNCHANGED <<to_encode_queue, items, ret, published, unadded>>
  BY <1>2 DEF WorkerRuns, AddUnlock, CountUnlock, DequeueUnlock, Stamp, FinishTrim,
              FinishUnlock
<1>3. ASSUME NEW r \in Readers, ReaderCalls(r) \/ ReaderLocks(r) \/ ReaderRuns(r)
      PROVE  UNCHANGED <<to_encode_queue, items, ret, published, unadded>>
  BY <1>3 DEF ReaderCalls, ReaderLocks, ReaderRuns, GetFinishedItems, GetLock, GetCopy,
              GetUnlock
<1>4. CASE UNCHANGED vars
  BY <1>4 DEF vars
<1> QED  BY <1>1, <1>2, <1>3, <1>4 DEF Next

(* add_to_queue ends only when everything is inserted. *)
LEMMA EmptyHandsStep ==
  ASSUME TypeOK, EmptyHands, [Next]_vars
  PROVE  EmptyHands'
<1> USE ThreadsAssumption
<1> USE DEF EmptyHands, Goto, Threads, queueVars, listVars, itemVars, localVars, viewVars
<1>0. pc = [t \in Threads |-> pc[t]] /\ items = [w \in Workers |-> items[w]]
  BY DEF TypeOK
<1>1. ASSUME NEW w \in Workers, WorkerCalls(w)
      PROVE  EmptyHands'
  BY <1>0, <1>1 DEF WorkerCalls, AddToQueue, ItemsCount, DequeueItems, EncodeFinished
<1>2. ASSUME NEW w \in Workers, WorkerLocks(w)
      PROVE  EmptyHands'
  BY <1>0, <1>2 DEF WorkerLocks, AddLock, CountLock, DequeueLock, FinishLock
<1>3. ASSUME NEW w \in Workers, WorkerRuns(w)
      PROVE  EmptyHands'
  BY <1>0, <1>3 DEF WorkerRuns, AddItem, AddUnlock, CountUnlock, DequeueShift, DequeueUnlock,
                    Stamp, FinishAppend, FinishTrim, FinishUnlock
<1>4. ASSUME NEW r \in Readers, ReaderCalls(r) \/ ReaderLocks(r) \/ ReaderRuns(r)
      PROVE  EmptyHands'
  BY <1>0, <1>4 DEF ReaderCalls, ReaderLocks, ReaderRuns, GetFinishedItems, GetLock, GetCopy,
                    GetUnlock
<1>5. CASE UNCHANGED vars
  BY <1>5 DEF vars
<1> QED  BY <1>1, <1>2, <1>3, <1>4, <1>5 DEF Next

(* The items of a batch. *)
LEMMA BatchElems ==
  ASSUME NEW b \in Batches
  PROVE  /\ BatchItems(b) \in Seq(Item)
         /\ Range(BatchItems(b)) = {x \in Item : x[1] = b}
         /\ IsInjective(BatchItems(b))
<1>1. DOMAIN BatchItems(b) = 1..BatchSize /\ \A i \in 1..BatchSize : BatchItems(b)[i] = <<b, i>>
  BY DEF BatchItems
<1>2. BatchItems(b) \in Seq(Item)
  BY <1>1, BatchAssumption DEF BatchItems, Item
<1>3. Range(BatchItems(b)) = {x \in Item : x[1] = b}
  <2>1. ASSUME NEW x \in Range(BatchItems(b))
        PROVE  x \in Item /\ x[1] = b
    <3>1. PICK i \in 1..BatchSize : x = BatchItems(b)[i]
      BY <1>1 DEF Range
    <3>2. x = <<b, i>>
      BY <1>1, <3>1
    <3> QED  BY <3>2 DEF Item
  <2>2. ASSUME NEW x \in Item, x[1] = b
        PROVE  x \in Range(BatchItems(b))
    <3>1. PICK i \in 1..BatchSize : x = <<b, i>>
      BY <2>2 DEF Item
    <3> QED  BY <1>1, <3>1 DEF Range
  <2> QED  BY <2>1, <2>2
<1>4. IsInjective(BatchItems(b))
  BY <1>1 DEF IsInjective
<1> QED  BY <1>2, <1>3, <1>4

(* A batch enters the hands of the worker that adds it; an item goes from    *)
(* there to the queue, to the hands of a worker that dequeues it, and to the  *)
(* published ones: it leaves each place for the next.                         *)
LEMMA ItemsStep ==
  ASSUME TypeOK, HasItem, EmptyHands, AtMostOnce, Somewhere, [Next]_vars
  PROVE  AtMostOnce' /\ Somewhere'
<1>0. /\ to_encode_queue \in Seq(Item) /\ published \in Seq(Item)
      /\ items \in [Workers -> Seq(Item)] /\ ret \in [Workers -> Seq(Item)]
      /\ unadded \in SUBSET Batches /\ \A x \in Item : x[1] \in Batches
  BY DEF TypeOK, Item
<1>1. ASSUME NEW w \in Workers, NEW b \in Batches, NEW front \in BOOLEAN, AddToQueue(w, b, front)
      PROVE  AtMostOnce' /\ Somewhere'
  <2>1. /\ UNCHANGED <<to_encode_queue, published, ret>>
        /\ items' = [items EXCEPT ![w] = BatchItems(b)]
        /\ b \in unadded /\ unadded' = unadded \ {b}
    BY <1>1 DEF AddToQueue, queueVars, listVars
  <2>2. items[w] = <<>>
    BY <1>1 DEF AddToQueue, Goto, EmptyHands
  <2>3. Range(items[w]) = {}
    BY <2>2 DEF Range
  <2>4. \A u \in Workers : items'[u] = IF u = w THEN BatchItems(b) ELSE items[u]
    BY <1>0, <2>1
  <2>5. \A u \in Workers : Hands(u)' = IF u = w THEN Hands(w) \cup {x \in Item : x[1] = b}
                                                ELSE Hands(u)
    BY <2>1, <2>3, <2>4, BatchElems DEF Hands
  <2>6. \A x \in Item : x[1] = b => /\ x \notin Range(to_encode_queue) /\ x \notin Range(published)
                                    /\ \A u \in Workers : x \notin Hands(u)
    BY <2>1 DEF Somewhere
  <2>7. AtMostOnce'
    <3>1. ASSUME NEW u \in Workers
          PROVE  /\ IsInjective(items'[u]) /\ IsInjective(ret'[u])
                 /\ Range(items'[u]) \cap Range(ret'[u]) = {}
                 /\ Hands(u)' \cap (Range(to_encode_queue) \cup Range(published)) = {}
                 /\ \A z \in Workers : z # u => Hands(u)' \cap Hands(z)' = {}
      <4>1. IsInjective(items'[u]) /\ IsInjective(ret'[u])
        BY <2>1, <2>4, BatchElems DEF AtMostOnce
      <4>2. Range(items'[u]) \cap Range(ret'[u]) = {}
        BY <2>1, <2>4, <2>6, BatchElems DEF AtMostOnce, Hands
      <4>3. Hands(u)' \cap (Range(to_encode_queue) \cup Range(published)) = {}
        BY <2>5, <2>6 DEF AtMostOnce
      <4>4. \A z \in Workers : z # u => Hands(u)' \cap Hands(z)' = {}
        BY <2>5, <2>6 DEF AtMostOnce
      <4> QED  BY <4>1, <4>2, <4>3, <4>4
    <3> QED  BY <2>1, <3>1 DEF AtMostOnce
  <2>8. Somewhere'
    <3> SUFFICES ASSUME NEW x \in Item
                 PROVE  x[1] \notin unadded' <=> \/ x \in Range(to_encode_queue)
                                                 \/ x \in Range(published)
                                                 \/ \E u \in Workers : x \in Hands(u)'
      BY <2>1 DEF Somewhere
    <3>1. CASE x[1] = b
      BY <2>1, <2>5, <3>1
    <3>2. CASE x[1] # b
      <4>1. \A u \in Workers : x \in Hands(u)' <=> x \in Hands(u)
        BY <2>5, <3>2
      <4> QED  BY <2>1, <3>2, <4>1 DEF Somewhere
    <3> QED  BY <3>1, <3>2
  <2> QED  BY <2>7, <2>8
<1>2. ASSUME NEW w \in Workers, AddItem(w)
      PROVE  AtMostOnce' /\ Somewhere'
  <2> DEFINE x == Head(items[w])
  <2>1. /\ UNCHANGED <<published, ret, unadded>>
        /\ items' = [items EXCEPT ![w] = Tail(items[w])] /\ items[w] # <<>>
        /\ to_encode_queue' = IF prepend[w] THEN <<x>> \o to_encode_queue
                                            ELSE Append(to_encode_queue, x)
    BY <1>2 DEF AddItem, listVars
  <2>2. /\ x \in Item /\ x \in Range(items[w]) /\ IsInjective(Tail(items[w]))
        /\ Range(Tail(items[w])) = Range(items[w]) \ {x}
    BY <1>0, <2>1, TailElems, HeadTailProperties DEF AtMostOnce
  <2>3. x \notin Range(to_encode_queue)
    BY <2>2 DEF AtMostOnce, Hands
  <2> HIDE DEF x
  <2>4. IsInjective(to_encode_queue') /\ Range(to_encode_queue') = Range(to_encode_queue) \cup {x}
    BY <1>0, <2>1, <2>2, <2>3, AppendElems, PrependElems DEF AtMostOnce
  <2>5. \A u \in Workers : items'[u] = IF u = w THEN Tail(items[w]) ELSE items[u]
    BY <1>0, <2>1
  <2>6. x \notin Range(ret[w])
    BY <2>2 DEF AtMostOnce
  <2>7. \A u \in Workers : Hands(u)' = IF u = w THEN Hands(w) \ {x} ELSE Hands(u)
    BY <2>1, <2>2, <2>5, <2>6 DEF Hands
  <2>8. x \in Hands(w) /\ x \notin Range(published) /\ \A u \in Workers : u # w => x \notin Hands(u)
    BY <2>2 DEF AtMostOnce, Hands
  <2>9. AtMostOnce'
    <3>1. ASSUME NEW u \in Workers
          PROVE  /\ IsInjective(items'[u]) /\ IsInjective(ret'[u])
                 /\ Range(items'[u]) \cap Range(ret'[u]) = {}
      BY <2>1, <2>2, <2>5 DEF AtMostOnce
    <3>2. ASSUME NEW u \in Workers
          PROVE  /\ Hands(u)' \cap (Range(to_encode_queue') \cup Range(published)) = {}
                 /\ \A z \in Workers : z # u => Hands(u)' \cap Hands(z)' = {}
      BY <2>4, <2>7, <2>8 DEF AtMostOnce
    <3> QED  BY <2>1, <2>4, <2>8, <3>1, <3>2 DEF AtMostOnce
  <2>10. Somewhere'
    BY <2>1, <2>4, <2>7, <2>8 DEF Somewhere
  <2> QED  BY <2>9, <2>10
<1>3. ASSUME NEW w \in Workers, DequeueShift(w)
      PROVE  AtMostOnce' /\ Somewhere'
  <2> DEFINE x == Head(to_encode_queue)
  <2>1. /\ UNCHANGED <<published, items, unadded>>
        /\ ret' = [ret EXCEPT ![w] = Append(ret[w], x)] /\ to_encode_queue # <<>>
        /\ to_encode_queue' = Tail(to_encode_queue)
    BY <1>3 DEF DequeueShift, listVars
  <2>2. /\ x \in Item /\ x \in Range(to_encode_queue) /\ IsInjective(to_encode_queue')
        /\ Range(to_encode_queue') = Range(to_encode_queue) \ {x}
    BY <1>0, <2>1, TailElems, HeadTailProperties DEF AtMostOnce
  <2>3. x \notin Range(published) /\ \A u \in Workers : x \notin Hands(u)
    BY <2>2 DEF AtMostOnce
  <2> HIDE DEF x
  <2>4. IsInjective(Append(ret[w], x)) /\ Range(Append(ret[w], x)) = Range(ret[w]) \cup {x}
    BY <1>0, <2>2, <2>3, AppendElems DEF AtMostOnce, Hands
  <2>5. \A u \in Workers : ret'[u] = IF u = w THEN Append(ret[w], x) ELSE ret[u]
    BY <1>0, <2>1
  <2>6. \A u \in Workers : Hands(u)' = IF u = w THEN Hands(w) \cup {x} ELSE Hands(u)
    BY <2>1, <2>4, <2>5 DEF Hands
  <2>7. AtMostOnce'
    <3>1. ASSUME NEW u \in Workers
          PROVE  /\ IsInjective(items'[u]) /\ IsInjective(ret'[u])
                 /\ Range(items'[u]) \cap Range(ret'[u]) = {}
      <4>1. CASE u = w
        <5>1. x \notin Range(items[w])
          BY <2>3 DEF Hands
        <5> QED  BY <2>1, <2>4, <2>5, <4>1, <5>1 DEF AtMostOnce
      <4>2. CASE u # w
        BY <2>1, <2>5, <4>2 DEF AtMostOnce
      <4> QED  BY <4>1, <4>2
    <3>2. ASSUME NEW u \in Workers
          PROVE  /\ Hands(u)' \cap (Range(to_encode_queue') \cup Range(published)) = {}
                 /\ \A z \in Workers : z # u => Hands(u)' \cap Hands(z)' = {}
      BY <2>2, <2>3, <2>6 DEF AtMostOnce
    <3> QED  BY <2>1, <2>2, <3>1, <3>2 DEF AtMostOnce
  <2>8. Somewhere'
    BY <2>1, <2>2, <2>6 DEF Somewhere
  <2> QED  BY <2>7, <2>8
<1>4. ASSUME NEW w \in Workers, FinishAppend(w)
      PROVE  AtMostOnce' /\ Somewhere'
  <2> DEFINE x == Head(ret[w])
  <2>1. /\ UNCHANGED <<to_encode_queue, items, unadded>>
        /\ ret' = [ret EXCEPT ![w] = Tail(ret[w])]
        /\ published' = Append(published, x)
    BY <1>4 DEF FinishAppend, queueVars
  <2>2. /\ x \in Item /\ x \in Range(ret[w]) /\ IsInjective(Tail(ret[w]))
        /\ Range(Tail(ret[w])) = Range(ret[w]) \ {x}
    BY <1>0, <1>4, TailElems, HeadTailProperties DEF AtMostOnce, FinishAppend, Goto, HasItem
  <2>3. /\ x \notin Range(published) /\ x \notin Range(items[w]) /\ x \notin Range(to_encode_queue)
        /\ x \in Hands(w) /\ \A u \in Workers : u # w => x \notin Hands(u)
    BY <2>2 DEF AtMostOnce, Hands
  <2> HIDE DEF x
  <2>4. IsInjective(published') /\ Range(published') = Range(published) \cup {x}
    BY <1>0, <2>1, <2>2, <2>3, AppendElems DEF AtMostOnce
  <2>5. \A u \in Workers : ret'[u] = IF u = w THEN Tail(ret[w]) ELSE ret[u]
    BY <1>0, <2>1
  <2>6. \A u \in Workers : Hands(u)' = IF u = w THEN Hands(w) \ {x} ELSE Hands(u)
    BY <2>1, <2>2, <2>3, <2>5 DEF Hands
  <2>7. AtMostOnce'
    <3>1. ASSUME NEW u \in Workers
          PROVE  /\ IsInjective(items'[u]) /\ IsInjective(ret'[u])
                 /\ Range(items'[u]) \cap Range(ret'[u]) = {}
      BY <2>1, <2>2, <2>5 DEF AtMostOnce
    <3>2. ASSUME NEW u \in Workers
          PROVE  /\ Hands(u)' \cap (Range(to_encode_queue) \cup Range(published')) = {}
                 /\ \A z \in Workers : z # u => Hands(u)' \cap Hands(z)' = {}
      BY <2>3, <2>4, <2>6 DEF AtMostOnce
    <3> QED  BY <2>1, <2>3, <2>4, <3>1, <3>2 DEF AtMostOnce
  <2>8. Somewhere'
    BY <2>1, <2>3, <2>4, <2>6 DEF Somewhere
  <2> QED  BY <2>7, <2>8
<1>5. CASE UNCHANGED <<to_encode_queue, items, ret, published, unadded>>
  BY <1>5 DEF AtMostOnce, Somewhere, Hands
<1> QED  BY <1>1, <1>2, <1>3, <1>4, <1>5, MovesOrNot
-------------------------------------------------------------------------------
(* Batches stay together *)

(* An element that goes next to its batch leaves each batch in one piece. *)
LEMMA AppendOnePiece ==
  ASSUME NEW s \in Seq(Item), NEW x \in Item, OnePiece(s),
         \/ \A i \in DOMAIN s : s[i][1] # x[1]
         \/ s # <<>> /\ s[Len(s)][1] = x[1]
  PROVE  OnePiece(Append(s, x))
<1> DEFINE a == Append(s, x)
           n == Len(s)
<1>1. /\ n \in Nat /\ DOMAIN s = 1..n /\ DOMAIN a = 1..(n + 1)
      /\ \A i \in 1..n : a[i] = s[i]
      /\ a[n + 1] = x
  BY AppendProperties, LenProperties
<1> HIDE DEF a, n
<1> SUFFICES ASSUME NEW i \in DOMAIN a, NEW j \in DOMAIN a, i < j, a[i][1] = a[j][1],
                    NEW k \in i..j
             PROVE  a[k][1] = a[i][1]
  BY DEF OnePiece, a
<1>2. i \in 1..n /\ k \in 1..(n + 1)
  BY <1>1
<1>3. CASE j \in 1..n
  <2>1. k \in 1..n
    BY <1>1, <1>3
  <2> QED  BY <1>1, <1>2, <1>3, <2>1 DEF OnePiece
<1>4. CASE j = n + 1
  <2>1. s[i][1] = x[1] /\ n \in 1..n /\ s[n][1] = x[1]
    <3>1. s[i][1] = x[1]
      BY <1>1, <1>2, <1>4
    <3>2. s[n][1] = x[1]
      BY <1>1, <1>2, <3>1 DEF n
    <3> QED  BY <1>1, <1>2, <3>1, <3>2
  <2>2. CASE k = n + 1
    BY <1>1, <1>2, <2>1, <2>2
  <2>3. CASE k \in i..n
    <3>1. s[k][1] = s[i][1]
      <4>1. CASE i = n
        BY <1>2, <2>3, <4>1
      <4>2. CASE i < n
        BY <1>1, <1>2, <2>1, <2>3, <4>2 DEF OnePiece
      <4> QED  BY <1>1, <1>2, <4>1, <4>2
    <3> QED  BY <1>1, <1>2, <2>3, <3>1
  <2> QED  BY <1>1, <1>2, <1>4, <2>2, <2>3
<1> QED  BY <1>1, <1>3, <1>4

(* The same at the front. *)
LEMMA PrependOnePiece ==
  ASSUME NEW s \in Seq(Item), NEW x \in Item, OnePiece(s),
         \/ \A i \in DOMAIN s : s[i][1] # x[1]
         \/ s # <<>> /\ s[1][1] = x[1]
  PROVE  OnePiece(<<x>> \o s)
<1> DEFINE a == <<x>> \o s
           n == Len(s)
<1>1. <<x>> \in Seq(Item) /\ Len(<<x>>) = 1 /\ <<x>>[1] = x
  OBVIOUS
<1>2. /\ a \in Seq(Item) /\ Len(a) = 1 + n
      /\ \A i \in 1..(1 + n) : a[i] = IF i <= 1 THEN <<x>>[i] ELSE s[i - 1]
  BY <1>1, ConcatProperties
<1>3. n \in Nat /\ DOMAIN s = 1..n /\ DOMAIN a = 1..(n + 1)
  BY <1>2, LenProperties
<1> HIDE DEF a, n
<1>4. a[1] = x /\ \A i \in 2..(n + 1) : i - 1 \in 1..n /\ a[i] = s[i - 1]
  BY <1>1, <1>2, <1>3
<1> SUFFICES ASSUME NEW i \in DOMAIN a, NEW j \in DOMAIN a, i < j, a[i][1] = a[j][1],
                    NEW k \in i..j
             PROVE  a[k][1] = a[i][1]
  BY DEF OnePiece, a
<1>5. j \in 2..(n + 1) /\ k \in 1..(n + 1)
  BY <1>3
<1>6. CASE i \in 2..(n + 1)
  <2>1. k \in 2..(n + 1) /\ k - 1 \in (i - 1)..(j - 1) /\ i - 1 < j - 1
    BY <1>3, <1>5, <1>6
  <2>2. i - 1 \in DOMAIN s /\ j - 1 \in DOMAIN s /\ s[i - 1][1] = s[j - 1][1]
    BY <1>3, <1>4, <1>5, <1>6
  <2>3. s[k - 1][1] = s[i - 1][1]
    BY <2>1, <2>2 DEF OnePiece
  <2> QED  BY <1>4, <1>6, <2>1, <2>3
<1>7. CASE i = 1
  <2>1. s[j - 1][1] = x[1] /\ 1 \in 1..n
    BY <1>3, <1>4, <1>5, <1>7
  <2>2. s[1][1] = x[1]
    BY <1>3, <1>4, <1>5, <2>1
  <2>3. CASE k = 1
    BY <1>7, <2>3
  <2>4. CASE k \in 2..(n + 1)
    <3>1. s[k - 1][1] = x[1]
      <4>1. CASE j - 1 = 1
        <5>1. k - 1 = 1
          BY <1>3, <1>5, <2>4, <4>1
        <5> QED  BY <2>2, <5>1
      <4>2. CASE 1 < j - 1
        <5>1. k - 1 \in 1..(j - 1) /\ j - 1 \in 1..n
          BY <1>3, <1>4, <1>5, <2>4
        <5> QED  BY <1>3, <2>1, <2>2, <4>2, <5>1 DEF OnePiece
      <4> QED  BY <1>3, <1>5, <4>1, <4>2
    <3> QED  BY <1>4, <1>7, <2>4, <3>1
  <2> QED  BY <1>5, <2>3, <2>4
<1> QED  BY <1>3, <1>6, <1>7

(* What is left when the first element is taken out is in one piece too. *)
LEMMA TailOnePiece ==
  ASSUME NEW s \in Seq(Item), s # <<>>, OnePiece(s)
  PROVE  OnePiece(Tail(s))
<1> DEFINE t == Tail(s)
           n == Len(s)
<1>1. /\ n \in Nat \ {0} /\ DOMAIN s = 1..n
      /\ t \in Seq(Item) /\ Len(t) = n - 1 /\ \A i \in 1..(n - 1) : t[i] = s[i + 1]
  BY HeadTailProperties, EmptySeq, LenProperties
<1>2. DOMAIN t = 1..(n - 1)
  BY <1>1, LenProperties
<1> HIDE DEF t, n
<1> SUFFICES ASSUME NEW i \in DOMAIN t, NEW j \in DOMAIN t, i < j, t[i][1] = t[j][1],
                    NEW k \in i..j
             PROVE  t[k][1] = t[i][1]
  BY DEF OnePiece, t
<1>3. /\ i + 1 \in 1..n /\ j + 1 \in 1..n /\ i + 1 < j + 1
      /\ k + 1 \in (i + 1)..(j + 1) /\ k \in 1..(n - 1)
  BY <1>1, <1>2
<1>4. s[i + 1][1] = s[j + 1][1]
  BY <1>1, <1>2
<1>5. s[k + 1][1] = s[i + 1][1]
  BY <1>1, <1>3, <1>4 DEF OnePiece
<1> QED  BY <1>1, <1>2, <1>3, <1>5

(* Only the worker that takes the mutex of the queue enters, only its holder  *)
(* leaves.                                                                   *)
LEMMA QueueLockedStep ==
  ASSUME TypeOK, OwnLabels, QueueLocked, [Next]_vars
  PROVE  QueueLocked'
<1> USE ThreadsAssumption
<1> USE DEF QueueLocked, InQueue, Goto, Threads, LockQueue, UnlockQueue, queueVars, listVars,
            itemVars, localVars, viewVars
<1>0. pc = [t \in Threads |-> pc[t]]
  BY DEF TypeOK
<1>1. ASSUME NEW w \in Workers, WorkerCalls(w)
      PROVE  QueueLocked'
  BY <1>0, <1>1 DEF WorkerCalls, AddToQueue, ItemsCount, DequeueItems, EncodeFinished
<1>2. ASSUME NEW w \in Workers, WorkerLocks(w)
      PROVE  QueueLocked'
  BY <1>0, <1>2 DEF WorkerLocks, AddLock, CountLock, DequeueLock, FinishLock
<1>3. ASSUME NEW w \in Workers, WorkerRuns(w)
      PROVE  QueueLocked'
  BY <1>0, <1>3 DEF WorkerRuns, AddItem, AddUnlock, CountUnlock, DequeueShift, DequeueUnlock,
                    Stamp, FinishAppend, FinishTrim, FinishUnlock
<1>4. ASSUME NEW r \in Readers, ReaderCalls(r) \/ ReaderLocks(r) \/ ReaderRuns(r)
      PROVE  QueueLocked'
  BY <1>0, <1>4 DEF ReaderCalls, ReaderLocks, ReaderRuns, GetFinishedItems, GetLock, GetCopy,
                    GetUnlock
<1>5. CASE UNCHANGED vars
  BY <1>5 DEF vars
<1> QED  BY <1>1, <1>2, <1>3, <1>4, <1>5 DEF Next

(* An add that is under way continues where it inserted last: nobody else is *)
(* inside the mutex, and an item that is still to be inserted is nowhere     *)
(* else.                                                                     *)
LEMMA AtTheEdgeStep ==
  ASSUME TypeOK, OwnLabels, QueueLocked, AtMostOnce, AtTheEdge, [Next]_vars
  PROVE  AtTheEdge'
<1> USE ThreadsAssumption
<1> USE DEF Goto, Threads, queueVars, listVars, itemVars, localVars, viewVars
<1>0. /\ pc = [t \in Threads |-> pc[t]] /\ items = [w \in Workers |-> items[w]]
      /\ prepend = [w \in Workers |-> prepend[w]]
      /\ items \in [Workers -> Seq(Item)] /\ to_encode_queue \in Seq(Item)
  BY DEF TypeOK
<1>1. ASSUME NEW w \in Workers, NEW b \in Batches, NEW front \in BOOLEAN, AddToQueue(w, b, front)
      PROVE  AtTheEdge'
  <2>1. /\ UNCHANGED to_encode_queue
        /\ pc'[w] = "add" /\ items'[w] = BatchItems(b)
        /\ \A u \in Workers : u # w => /\ pc'[u] = pc[u] /\ items'[u] = items[u]
                                       /\ prepend'[u] = prepend[u]
    BY <1>0, <1>1 DEF AddToQueue
  <2> QED  BY <2>1 DEF AtTheEdge, AtEdge
<1>2. ASSUME NEW w \in Workers, AddLock(w)
      PROVE  AtTheEdge'
  <2>1. PICK b \in Batches : items[w] = BatchItems(b)
    BY <1>2 DEF AtTheEdge, AtEdge, AddLock
  <2>2. \A i \in DOMAIN items[w] : items[w][i][1] = b
    BY <2>1, BatchElems DEF Range
  <2>3. \A i \in DOMAIN to_encode_queue : to_encode_queue[i][1] # b
    <3> SUFFICES ASSUME NEW i \in DOMAIN to_encode_queue, to_encode_queue[i][1] = b
                 PROVE  FALSE
      OBVIOUS
    <3>1. to_encode_queue[i] \in Item /\ to_encode_queue[i] \in Range(to_encode_queue)
      BY <1>0 DEF Range
    <3>2. to_encode_queue[i] \in Hands(w)
      BY <2>1, <3>1, BatchElems DEF Hands
    <3> QED  BY <3>1, <3>2 DEF AtMostOnce
  <2>4. /\ UNCHANGED <<to_encode_queue, items, prepend>>
        /\ \A u \in Workers : u # w => pc'[u] = pc[u]
        /\ pc'[w] = "adding"
    BY <1>0, <1>2 DEF AddLock
  <2> QED  BY <2>2, <2>3, <2>4 DEF AtTheEdge, AtEdge
<1>3. ASSUME NEW w \in Workers, AddItem(w)
      PROVE  AtTheEdge'
  <2> DEFINE x == Head(items[w])
  <2>1. /\ pc[w] = "adding" /\ items[w] # <<>> /\ UNCHANGED <<pc, prepend>>
        /\ \A u \in Workers : items'[u] = IF u = w THEN Tail(items[w]) ELSE items[u]
        /\ to_encode_queue' = IF prepend[w] THEN <<x>> \o to_encode_queue
                                            ELSE Append(to_encode_queue, x)
    BY <1>0, <1>3 DEF AddItem
  <2>2. PICK b \in Batches : \A i \in DOMAIN items[w] : items[w][i][1] = b
    BY <2>1 DEF AtTheEdge, AtEdge
  <2>3. /\ x \in Item /\ x = items[w][1] /\ x[1] = b
        /\ \A i \in DOMAIN Tail(items[w]) : Tail(items[w])[i][1] = b
    <3>1. /\ 1 \in DOMAIN items[w] /\ x \in Item /\ x = items[w][1]
          /\ DOMAIN Tail(items[w]) = 1..(Len(items[w]) - 1)
          /\ \A i \in DOMAIN Tail(items[w]) : i + 1 \in DOMAIN items[w]
                                              /\ Tail(items[w])[i] = items[w][i + 1]
      <4>1. items[w] \in Seq(Item) /\ items[w] # <<>>
        BY <1>0, <2>1
      <4> HIDE DEF Item
      <4> QED  BY <4>1, HeadTailProperties, EmptySeq, LenProperties
    <3> QED  BY <2>2, <3>1
  <2> HIDE DEF x
  <2>4. CASE prepend[w]
    <3>1. to_encode_queue' # <<>> /\ to_encode_queue'[1] = x
      BY <1>0, <2>1, <2>3, <2>4
    <3>2. \A u \in Workers : u # w => pc[u] # "adding"
      BY <2>1 DEF QueueLocked, InQueue
    <3>3. AtEdge(w)'
      <4>1. pc'[w] = "adding" /\ \A i \in DOMAIN items'[w] : items'[w][i][1] = b
        BY <2>1, <2>3
      <4>2. /\ to_encode_queue' # <<>>
            /\ to_encode_queue'[IF prepend'[w] THEN 1 ELSE Len(to_encode_queue')][1] = b
        BY <2>1, <2>3, <2>4, <3>1
      <4> QED  BY <4>1, <4>2 DEF AtEdge
    <3>4. \A u \in Workers : u # w => AtEdge(u)'
      BY <2>1, <3>2 DEF AtTheEdge, AtEdge
    <3> QED  BY <3>3, <3>4 DEF AtTheEdge
  <2>5. CASE ~prepend[w]
    <3>1. to_encode_queue' # <<>> /\ to_encode_queue'[Len(to_encode_queue')] = x
      BY <1>0, <2>1, <2>3, <2>5, AppendProperties
    <3>2. \A u \in Workers : u # w => pc[u] # "adding"
      BY <2>1 DEF QueueLocked, InQueue
    <3>3. AtEdge(w)'
      <4>1. pc'[w] = "adding" /\ \A i \in DOMAIN items'[w] : items'[w][i][1] = b
        BY <2>1, <2>3
      <4>2. /\ to_encode_queue' # <<>>
            /\ to_encode_queue'[IF prepend'[w] THEN 1 ELSE Len(to_encode_queue')][1] = b
        BY <2>1, <2>3, <2>5, <3>1
      <4> QED  BY <4>1, <4>2 DEF AtEdge
    <3>4. \A u \in Workers : u # w => AtEdge(u)'
      BY <2>1, <3>2 DEF AtTheEdge, AtEdge
    <3> QED  BY <3>3, <3>4 DEF AtTheEdge
  <2> QED  BY <2>4, <2>5
<1>4. ASSUME NEW w \in Workers, DequeueShift(w)
      PROVE  AtTheEdge'
  <2>1. pc[w] = "shifting" /\ UNCHANGED <<pc, items>>
    BY <1>4 DEF DequeueShift
  <2>2. \A u \in Workers : pc[u] # "adding"
    BY <2>1 DEF QueueLocked, InQueue
  <2> QED  BY <2>1, <2>2 DEF AtTheEdge, AtEdge
<1>5. ASSUME NEW w \in Workers,
             \/ AddUnlock(w) \/ ItemsCount(w) \/ CountLock(w) \/ CountUnlock(w)
             \/ DequeueItems(w) \/ DequeueLock(w) \/ DequeueUnlock(w)
             \/ (\E ok \in BOOLEAN : EncodeFinished(w, ok)) \/ Stamp(w) \/ FinishLock(w)
             \/ FinishAppend(w) \/ FinishTrim(w) \/ FinishUnlock(w)
      PROVE  AtTheEdge'
  <2>1. /\ UNCHANGED <<to_encode_queue, items, prepend>>
        /\ \A u \in Workers : pc'[u] \in {"add", "adding"} => pc'[u] = pc[u]
    BY <1>0, <1>5
       DEF AddUnlock, ItemsCount, CountLock, CountUnlock, DequeueItems, DequeueLock,
           DequeueUnlock, EncodeFinished, Stamp, FinishLock, FinishAppend, FinishTrim,
           FinishUnlock
  <2> QED  BY <2>1 DEF AtTheEdge, AtEdge
<1>6. ASSUME NEW r \in Readers, ReaderCalls(r) \/ ReaderLocks(r) \/ ReaderRuns(r)
      PROVE  AtTheEdge'
  <2>1. /\ UNCHANGED <<to_encode_queue, items, prepend>>
        /\ \A u \in Workers : pc'[u] = pc[u]
    BY <1>0, <1>6 DEF ReaderCalls, ReaderLocks, ReaderRuns, GetFinishedItems, GetLock,
                      GetCopy, GetUnlock
  <2> QED  BY <2>1 DEF AtTheEdge, AtEdge
<1>7. CASE UNCHANGED vars
  BY <1>7 DEF vars, AtTheEdge, AtEdge
<1> QED
  BY <1>1, <1>2, <1>3, <1>4, <1>5, <1>6, <1>7
     DEF Next, WorkerCalls, WorkerLocks, WorkerRuns

(* So no insertion and no shift tears a batch apart. *)
LEMMA OnePieceStep ==
  ASSUME TypeOK, AtTheEdge, OnePiece(to_encode_queue), [Next]_vars
  PROVE  OnePiece(to_encode_queue')
<1>0. /\ items \in [Workers -> Seq(Item)] /\ to_encode_queue \in Seq(Item)
  BY DEF TypeOK
<1>1. ASSUME NEW w \in Workers, AddItem(w)
      PROVE  OnePiece(to_encode_queue')
  <2> DEFINE x == Head(items[w])
  <2>1. /\ pc[w] = "adding" /\ items[w] # <<>>
        /\ to_encode_queue' = IF prepend[w] THEN <<x>> \o to_encode_queue
                                            ELSE Append(to_encode_queue, x)
    BY <1>1 DEF AddItem
  <2>2. x \in Item /\ 1 \in DOMAIN items[w] /\ x = items[w][1]
    <3>1. items[w] \in Seq(Item) /\ items[w] # <<>>
      BY <1>0, <2>1
    <3> HIDE DEF Item
    <3> QED  BY <3>1, HeadTailProperties, EmptySeq, LenProperties
  <2>3. \/ \A i \in DOMAIN to_encode_queue : to_encode_queue[i][1] # x[1]
        \/ /\ to_encode_queue # <<>>
           /\ to_encode_queue[IF prepend[w] THEN 1 ELSE Len(to_encode_queue)][1] = x[1]
    BY <2>1, <2>2 DEF AtTheEdge, AtEdge
  <2> HIDE DEF x
  <2>4. CASE prepend[w]
    BY <1>0, <2>1, <2>2, <2>3, <2>4, PrependOnePiece
  <2>5. CASE ~prepend[w]
    BY <1>0, <2>1, <2>2, <2>3, <2>5, AppendOnePiece
  <2> QED  BY <2>4, <2>5
<1>2. ASSUME NEW w \in Workers, DequeueShift(w)
      PROVE  OnePiece(to_encode_queue')
  BY <1>0, <1>2, TailOnePiece DEF DequeueShift
<1>3. ASSUME NEW w \in Workers,
             FinishAppend(w) \/ \E b \in Batches, front \in BOOLEAN : AddToQueue(w, b, front)
      PROVE  OnePiece(to_encode_queue')
  BY <1>3 DEF FinishAppend, AddToQueue, queueVars
<1> QED  BY <1>1, <1>2, <1>3, MovesOrNot
-------------------------------------------------------------------------------
(* What is published is not written any more *)

(* encode_succeeded! and encode_failed! set the time before they append. *)
LEMMA StampedStep ==
  ASSUME TypeOK, OwnLabels, HasItem, Stamped, [Next]_vars
  PROVE  Stamped'
<1> USE ThreadsAssumption
<1> USE DEF Goto, Threads, queueVars, listVars, itemVars, localVars, viewVars
<1>0. /\ pc = [t \in Threads |-> pc[t]] /\ ret \in [Workers -> Seq(Item)]
      /\ published \in Seq(Item) /\ finished_at \in [Item -> BOOLEAN]
  BY DEF TypeOK
<1>1. \A w \in Workers : pc[w] \in {"stamp", "finish", "append"} => Head(ret[w]) \in Item
  BY <1>0, HeadTailProperties DEF HasItem
<1>2. Range(published) \subseteq Item
  BY <1>0 DEF Range
<1>3. ASSUME NEW w \in Workers, Stamp(w)
      PROVE  Stamped'
  <2>1. /\ UNCHANGED <<ret, published>> /\ pc[w] = "stamp"
        /\ finished_at' = [finished_at EXCEPT ![Head(ret[w])] = TRUE]
        /\ \A u \in Workers : u # w => pc'[u] = pc[u]
    BY <1>0, <1>3 DEF Stamp
  <2>2. finished_at'[Head(ret[w])] /\ \A x \in Item : finished_at[x] => finished_at'[x]
    BY <1>0, <1>1, <2>1
  <2>3. \A x \in Range(published) : finished_at'[x]
    BY <1>2, <2>2 DEF Stamped
  <2>4. \A u \in Workers : pc'[u] \in {"finish", "append"} => finished_at'[Head(ret[u])]
    BY <1>1, <2>1, <2>2 DEF Stamped
  <2> QED  BY <2>1, <2>3, <2>4 DEF Stamped
<1>4. ASSUME NEW w \in Workers, FinishLock(w)
      PROVE  Stamped'
  <2>1. /\ UNCHANGED <<ret, published, finished_at>> /\ pc[w] = "finish"
        /\ \A u \in Workers : u # w => pc'[u] = pc[u]
    BY <1>0, <1>4 DEF FinishLock
  <2> QED  BY <2>1 DEF Stamped
<1>5. ASSUME NEW w \in Workers, FinishAppend(w)
      PROVE  Stamped'
  <2>1. /\ UNCHANGED finished_at /\ pc[w] = "append" /\ pc'[w] = "trim"
        /\ published' = Append(published, Head(ret[w]))
        /\ \A u \in Workers : u # w => pc'[u] = pc[u] /\ ret'[u] = ret[u]
    BY <1>0, <1>5 DEF FinishAppend
  <2>2. Range(published') = Range(published) \cup {Head(ret[w])}
    BY <1>0, <1>1, <2>1, AppendElems
  <2>3. \A x \in Range(published') : finished_at[x]
    BY <2>1, <2>2 DEF Stamped
  <2>4. \A u \in Workers : pc'[u] \in {"finish", "append"} => finished_at[Head(ret'[u])]
    BY <2>1 DEF Stamped
  <2> QED  BY <2>1, <2>3, <2>4 DEF Stamped
<1>6. ASSUME NEW w \in Workers,
             \/ (\E b \in Batches, front \in BOOLEAN : AddToQueue(w, b, front)) \/ AddLock(w)
             \/ AddItem(w) \/ AddUnlock(w) \/ ItemsCount(w) \/ CountLock(w) \/ CountUnlock(w)
             \/ DequeueItems(w) \/ DequeueLock(w) \/ DequeueShift(w) \/ DequeueUnlock(w)
             \/ (\E ok \in BOOLEAN : EncodeFinished(w, ok)) \/ FinishTrim(w) \/ FinishUnlock(w)
      PROVE  Stamped'
  <2>1. /\ UNCHANGED <<published, finished_at>>
        /\ \A u \in Workers : pc'[u] \in {"finish", "append"} =>
                                pc'[u] = pc[u] /\ ret'[u] = ret[u]
    BY <1>0, <1>6
       DEF AddToQueue, AddLock, AddItem, AddUnlock, ItemsCount, CountLock, CountUnlock,
           DequeueItems, DequeueLock, DequeueShift, DequeueUnlock, EncodeFinished, FinishTrim,
           FinishUnlock
  <2> QED  BY <2>1 DEF Stamped
<1>7. ASSUME NEW r \in Readers, ReaderCalls(r) \/ ReaderLocks(r) \/ ReaderRuns(r)
      PROVE  Stamped'
  <2>1. /\ UNCHANGED <<published, finished_at, ret>>
        /\ \A u \in Workers : pc'[u] = pc[u]
    BY <1>0, <1>7 DEF ReaderCalls, ReaderLocks, ReaderRuns, GetFinishedItems, GetLock,
                      GetCopy, GetUnlock
  <2> QED  BY <2>1 DEF Stamped
<1>8. CASE UNCHANGED vars
  BY <1>8 DEF vars, Stamped
<1> QED
  BY <1>3, <1>4, <1>5, <1>6, <1>7, <1>8 DEF Next, WorkerCalls, WorkerLocks, WorkerRuns

(* The two writers of an item's fields write the item in their hands, which   *)
(* is not a published one.                                                    *)
LEMMA FieldsStep ==
  ASSUME TypeOK, HasItem, AtMostOnce, [Next]_vars, NEW x \in Range(published)
  PROVE  succeeded'[x] = succeeded[x] /\ finished_at'[x] = finished_at[x]
<1> USE DEF queueVars, listVars, itemVars, localVars, viewVars
<1>1. \A w \in Workers : ret[w] # <<>> => x # Head(ret[w])
  <2> SUFFICES ASSUME NEW w \in Workers, ret[w] # <<>>
               PROVE  Head(ret[w]) \in Hands(w)
    BY DEF AtMostOnce
  <2>1. ret[w] \in Seq(Item)
    BY DEF TypeOK
  <2> QED  BY <2>1, TailElems DEF AtMostOnce, Hands
<1>2. ASSUME NEW w \in Workers, NEW ok \in BOOLEAN, EncodeFinished(w, ok)
      PROVE  succeeded'[x] = succeeded[x] /\ finished_at'[x] = finished_at[x]
  BY <1>1, <1>2 DEF EncodeFinished, TypeOK
<1>3. ASSUME NEW w \in Workers, Stamp(w)
      PROVE  succeeded'[x] = succeeded[x] /\ finished_at'[x] = finished_at[x]
  <2>1. /\ UNCHANGED succeeded /\ x # Head(ret[w])
        /\ finished_at' = [finished_at EXCEPT ![Head(ret[w])] = TRUE]
    BY <1>1, <1>3 DEF Stamp, Goto, HasItem
  <2>2. finished_at \in [Item -> BOOLEAN] /\ x \in Item
    BY DEF TypeOK, Range
  <2> QED  BY <2>1, <2>2
<1>4. ASSUME NEW w \in Workers, WorkerCalls(w) \/ WorkerLocks(w) \/ WorkerRuns(w),
             ~ \E ok \in BOOLEAN : EncodeFinished(w, ok), ~Stamp(w)
      PROVE  UNCHANGED <<succeeded, finished_at>>
  BY <1>4 DEF WorkerCalls, WorkerLocks, WorkerRuns, AddToQueue, AddLock, AddItem, AddUnlock,
              ItemsCount, CountLock, CountUnlock, DequeueItems, DequeueLock, DequeueShift,
              DequeueUnlock, FinishLock, FinishAppend, FinishTrim, FinishUnlock
<1>5. ASSUME NEW r \in Readers, ReaderCalls(r) \/ ReaderLocks(r) \/ ReaderRuns(r)
      PROVE  UNCHANGED <<succeeded, finished_at>>
  BY <1>5 DEF ReaderCalls, ReaderLocks, ReaderRuns, GetFinishedItems, GetLock, GetCopy,
              GetUnlock
<1>6. CASE UNCHANGED vars
  BY <1>6 DEF vars
<1> QED  BY <1>2, <1>3, <1>4, <1>5, <1>6 DEF Next

-------------------------------------------------------------------------------
(* The theorems *)

QInv == /\ EmptyHands /\ AtMostOnce /\ Somewhere
        /\ QueueLocked /\ AtTheEdge /\ OnePiece(to_encode_queue)
        /\ Stamped

(* What holds of the queue and of the items in every reachable state. *)
THEOREM QueueInvariance == Spec => []QInv
<1>1. Init => QInv
  <2> SUFFICES ASSUME Init PROVE QInv
    OBVIOUS
  <2>1. /\ to_encode_queue = <<>> /\ published = <<>> /\ unadded = Batches
        /\ \A w \in Workers : items[w] = <<>> /\ ret[w] = <<>> /\ pc[w] = "idle"
        /\ to_encode_queue_lock = NoThread
    BY DEF Init, Threads
  <2>2. Range(<<>>) = {} /\ IsInjective(<<>>) /\ OnePiece(<<>>)
    BY DEF Range, IsInjective, OnePiece
  <2>3. EmptyHands /\ AtTheEdge
    BY <2>1 DEF EmptyHands, AtTheEdge, AtEdge
  <2>4. \A w \in Workers : Hands(w) = {}
    BY <2>1, <2>2 DEF Hands
  <2>5. AtMostOnce
    BY <2>1, <2>2, <2>4 DEF AtMostOnce
  <2>6. Somewhere
    BY <2>1, <2>2, <2>4 DEF Somewhere, Item
  <2>7. QueueLocked
    BY <2>1, ThreadsAssumption DEF QueueLocked, InQueue, Threads
  <2>8. Stamped
    BY <2>1, <2>2 DEF Stamped
  <2> QED  BY <2>1, <2>2, <2>3, <2>5, <2>6, <2>7, <2>8 DEF QInv
<1>2. IInv /\ QInv /\ [Next]_vars => QInv'
  BY EmptyHandsStep, ItemsStep, QueueLockedStep, AtTheEdgeStep, OnePieceStep, StampedStep
     DEF IInv, QInv
<1> QED  BY <1>1, <1>2, Invariance, PTL DEF Spec

(* In a sequence that repeats nothing an element has one place.              *)
LEMMA OnePlace ==
  ASSUME NEW s, NEW x
  PROVE  /\ x \notin Range(s) => PlacesIn(s, x) = {}
         /\ x \in Range(s) /\ IsInjective(s) => \E i : PlacesIn(s, x) = {i}
<1>1. x \notin Range(s) => PlacesIn(s, x) = {}
  BY DEF Range, PlacesIn
<1>2. ASSUME x \in Range(s), IsInjective(s)
      PROVE  \E i : PlacesIn(s, x) = {i}
  <2>1. PICK i \in DOMAIN s : s[i] = x
    BY <1>2 DEF Range
  <2>2. PlacesIn(s, x) = {i}
    BY <1>2, <2>1 DEF IsInjective, PlacesIn
  <2> QED  BY <2>2
<1> QED  BY <1>1, <1>2

(* add_to_queue, dequeue_items, encode_succeeded! and encode_failed! between  *)
(* them: however many threads call them and whenever, an item of a batch     *)
(* that was added is at exactly one place.                                   *)
THEOREM EveryItemOnceAlways == Spec => []EveryItemOnce
<1>1. TypeOK /\ QInv => EveryItemOnce
  <2> SUFFICES ASSUME TypeOK, QInv, NEW b \in Batches \ unadded, NEW i \in 1..BatchSize
               PROVE  LET x == <<b, i>>
                          Places == ({"queue"} \X PlacesIn(to_encode_queue, x))
                               \cup ({"list"} \X PlacesIn(published, x))
                               \cup UNION {{w} \X PlacesIn(items[w] \o ret[w], x) : w \in Workers}
                      IN Cardinality(Places) = 1
    BY DEF EveryItemOnce
  <2> DEFINE x == <<b, i>>
             Q == PlacesIn(to_encode_queue, x)
             L == PlacesIn(published, x)
             H(w) == PlacesIn(items[w] \o ret[w], x)
             Places == ({"queue"} \X Q) \cup ({"list"} \X L) \cup UNION {{w} \X H(w) : w \in Workers}
  <2>1. x \in Item /\ x[1] \notin unadded
    BY DEF Item
  <2> HIDE DEF x
  <2>2. \/ x \in Range(to_encode_queue)
        \/ x \in Range(published)
        \/ \E w \in Workers : x \in Hands(w)
    BY <2>1 DEF QInv, Somewhere
  <2>3. ASSUME NEW w \in Workers
        PROVE  /\ Range(items[w] \o ret[w]) = Hands(w)
               /\ IsInjective(items[w] \o ret[w])
    <3>1. items[w] \in Seq(Item) /\ ret[w] \in Seq(Item)
      BY DEF TypeOK
    <3>2. /\ IsInjective(items[w]) /\ IsInjective(ret[w])
          /\ Range(items[w]) \cap Range(ret[w]) = {}
      BY DEF QInv, AtMostOnce
    <3> QED  BY <3>1, <3>2, ConcatElems DEF Hands
  <2>4. /\ x \notin Range(to_encode_queue) => Q = {}
        /\ x \notin Range(published) => L = {}
        /\ \A w \in Workers : x \notin Hands(w) => H(w) = {}
    BY <2>3, OnePlace
  <2>5. CASE x \in Range(to_encode_queue)
    <3>1. L = {} /\ \A w \in Workers : H(w) = {}
      BY <2>4, <2>5 DEF QInv, AtMostOnce
    <3>2. PICK k : Q = {k}
      BY <2>5, OnePlace DEF QInv, AtMostOnce
    <3> HIDE DEF Q, L, H
    <3>3. Places = {<<"queue", k>>}
      BY <3>1, <3>2
    <3> QED  BY <3>3, FS_Singleton DEF Q, L, H, x
  <2>6. CASE x \in Range(published)
    <3>1. Q = {} /\ \A w \in Workers : H(w) = {}
      BY <2>4, <2>6 DEF QInv, AtMostOnce
    <3>2. PICK k : L = {k}
      BY <2>6, OnePlace DEF QInv, AtMostOnce
    <3> HIDE DEF Q, L, H
    <3>3. Places = {<<"list", k>>}
      BY <3>1, <3>2
    <3> QED  BY <3>3, FS_Singleton DEF Q, L, H, x
  <2>7. ASSUME NEW w \in Workers, x \in Hands(w)
        PROVE  Cardinality(Places) = 1
    <3>1. Q = {} /\ L = {} /\ \A u \in Workers : u # w => H(u) = {}
      BY <2>4, <2>7 DEF QInv, AtMostOnce
    <3>2. PICK k : H(w) = {k}
      BY <2>3, <2>7, OnePlace
    <3> HIDE DEF Q, L, H
    <3>3. Places = {<<w, k>>}
      BY <3>1, <3>2
    <3> QED  BY <3>3, FS_Singleton
  <2> QED  BY <2>2, <2>5, <2>6, <2>7 DEF x
<1> QED  BY <1>1, TypeCorrect, QueueInvariance, PTL

(* add_to_queue: however many threads add and take, at either end, the items  *)
(* of a batch that are in the queue have only items of that batch between     *)
(* them whenever the mutex of the queue is free (and in fact always).         *)
THEOREM BatchesStayTogetherAlways == Spec => []BatchesStayTogether
<1>1. QInv => BatchesStayTogether
  BY DEF QInv, OnePiece, BatchesStayTogether
<1> QED  BY <1>1, QueueInvariance, PTL

(* encode_succeeded! and encode_failed! write the fields of an item without a *)
(* mutex: what can be reached through the list has its fields set and no     *)
(* thread writes them again.                                                 *)
THEOREM PublishedIsFinalAlways == Spec => PublishedIsFinal
<1> DEFINE Final == \A i \in DOMAIN published :
                      LET x == published[i]
                      IN finished_at[x] /\ UNCHANGED <<succeeded[x], finished_at[x]>>
<1>1. IInv /\ QInv /\ [Next]_vars => Final
  <2> SUFFICES ASSUME IInv, QInv, [Next]_vars, NEW i \in DOMAIN published
               PROVE  /\ finished_at[published[i]]
                      /\ succeeded'[published'[i]] = succeeded[published[i]]
                      /\ finished_at'[published'[i]] = finished_at[published[i]]
    OBVIOUS
  <2>1. published[i] \in Range(published)
    BY DEF Range
  <2>2. published'[i] = published[i]
    <3>1. ASSUME NEW w \in Workers, FinishAppend(w)
          PROVE  published'[i] = published[i]
      <4>1. published \in Seq(Item) /\ ret[w] \in Seq(Item) /\ ret[w] # <<>>
        BY <3>1 DEF IInv, TypeOK, HasItem, FinishAppend, Goto
      <4>2. Head(ret[w]) \in Item
        BY <4>1, HeadTailProperties
      <4> HIDE DEF Item
      <4> QED  BY <3>1, <4>1, <4>2, AppendProperties, LenProperties DEF FinishAppend
    <3>2. ASSUME NEW w \in Workers,
                 \/ AddItem(w) \/ DequeueShift(w)
                 \/ \E b \in Batches, front \in BOOLEAN : AddToQueue(w, b, front)
          PROVE  published'[i] = published[i]
      BY <3>2 DEF AddItem, DequeueShift, AddToQueue, listVars
    <3> QED  BY <3>1, <3>2, MovesOrNot
  <2>3. finished_at[published[i]]
    BY <2>1 DEF QInv, Stamped
  <2>4. /\ succeeded'[published[i]] = succeeded[published[i]]
        /\ finished_at'[published[i]] = finished_at[published[i]]
    BY <2>1, FieldsStep DEF IInv, QInv
  <2> QED  BY <2>2, <2>3, <2>4
<1>2. IInv /\ QInv /\ [Next]_vars => [Final]_vars
  BY <1>1
<1> QED  BY <1>2, Invariance, QueueInvariance, PTL DEF Spec, PublishedIsFinal
===============================================================================
