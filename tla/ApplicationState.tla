--------------------------- MODULE ApplicationState ---------------------------
(***************************************************************************)
(* The class ApplicationState::State of lib/state.rb: the queue of videos  *)
(* to encode and the list of finished ones, each behind a mutex of its     *)
(* own.  A worker thread adds a batch of fresh items, asks for the length  *)
(* of the queue, takes items off it and reports each as encoded; a reader  *)
(* (a web request) copies the finished list.  Every statement that another *)
(* thread can observe is a step of its own; a thread blocked on a mutex    *)
(* stays at the label of the call until the mutex is free.                 *)
(***************************************************************************)
EXTENDS Naturals, SequencesExt

CONSTANTS Workers,              \* threads that encode (one in the program)
          Readers,              \* threads that serve web requests
          Batches,              \* the add_to_queue calls that can be made
          BatchSize,            \* items in each of them
          ItemsInFinishedList,  \* 30 in the program
          NoThread              \* the holder of a free mutex

Threads == Workers \cup Readers

ASSUME ThreadsAssumption == /\ Workers \cap Readers = {}
                            /\ NoThread \notin Threads
ASSUME LimitAssumption == ItemsInFinishedList \in Nat
ASSUME BatchAssumption == BatchSize \in Nat

VARIABLES
  to_encode_queue, to_encode_queue_lock,  \* the queue and its mutex
  encoded_queue, encoded_queue_lock,      \* the finished list and its mutex
  succeeded, finished_at,                 \* the fields of each item (set or nil)
  pc,                                     \* where each thread is
  items,                                  \* what an add has still to insert
  prepend,                                \* the second argument of that add
  count,                                  \* how many a dequeue has still to take
  ret,                                    \* what a worker took and has to encode
  unadded,                                \* batches not created yet
  published,                              \* history: all items ever appended
  seen,                                   \* the copy a reader got
  asked                                   \* history: Len(published) at its call

queueVars == <<to_encode_queue, to_encode_queue_lock>>
listVars  == <<encoded_queue, encoded_queue_lock, published>>
itemVars  == <<succeeded, finished_at>>
localVars == <<items, prepend, count, ret, unadded>>
viewVars  == <<seen, asked>>
vars == <<queueVars, listVars, itemVars, localVars, viewVars, pc>>

Item == Batches \X (1..BatchSize)
BatchItems(b) == [i \in 1..BatchSize |-> <<b, i>>]

\* Array#last
LastOf(s, n) == IF Len(s) <= n THEN s ELSE SubSeq(s, Len(s) - n + 1, Len(s))

Init ==
  /\ to_encode_queue = <<>> /\ to_encode_queue_lock = NoThread
  /\ encoded_queue = <<>>   /\ encoded_queue_lock = NoThread
  /\ succeeded = [x \in Item |-> FALSE]
  /\ finished_at = [x \in Item |-> FALSE]
  /\ pc = [t \in Threads |-> "idle"]
  /\ items = [w \in Workers |-> <<>>]
  /\ prepend = [w \in Workers |-> FALSE]
  /\ count = [w \in Workers |-> 1]
  /\ ret = [w \in Workers |-> <<>>]
  /\ unadded = Batches
  /\ published = <<>>
  /\ seen = [r \in Readers |-> <<>>]
  /\ asked = [r \in Readers |-> 0]

Goto(t, from, to) == pc[t] = from /\ pc' = [pc EXCEPT ![t] = to]

LockQueue(t)   == /\ to_encode_queue_lock = NoThread
                  /\ to_encode_queue_lock' = t
UnlockQueue(t) == to_encode_queue_lock' = NoThread
LockList(t)    == /\ encoded_queue_lock = NoThread
                  /\ encoded_queue_lock' = t
UnlockList(t)  == encoded_queue_lock' = NoThread
-------------------------------------------------------------------------------
(* add_to_queue(items, prepend) *)

AddToQueue(w, b, front) ==
  /\ Goto(w, "idle", "add")
  /\ b \in unadded
  /\ unadded' = unadded \ {b}
  /\ items' = [items EXCEPT ![w] = BatchItems(b)]
  /\ prepend' = [prepend EXCEPT ![w] = front]
  /\ UNCHANGED <<queueVars, listVars, itemVars, viewVars, count, ret>>

\* Mutant: add_to_queue without its mutex.
AddUnlocked(w) ==
  /\ Goto(w, "add", "adding")
  /\ UNCHANGED <<queueVars, listVars, itemVars, localVars, viewVars>>

AddLock(w) ==
  /\ Goto(w, "add", "adding")
  /\ LockQueue(w)
  /\ UNCHANGED <<to_encode_queue, listVars, itemVars, localVars, viewVars>>

AddItem(w) ==
  /\ pc[w] = "adding" /\ items[w] # <<>>
  /\ to_encode_queue' = IF prepend[w] THEN <<Head(items[w])>> \o to_encode_queue
                                      ELSE Append(to_encode_queue, Head(items[w]))
  /\ items' = [items EXCEPT ![w] = Tail(@)]
  /\ UNCHANGED <<to_encode_queue_lock, listVars, itemVars, viewVars, pc,
                 prepend, count, ret, unadded>>

AddUnlock(w) ==
  /\ items[w] = <<>>
  /\ Goto(w, "adding", "idle")
  /\ UnlockQueue(w)
  /\ UNCHANGED <<to_encode_queue, listVars, itemVars, localVars, viewVars>>
-------------------------------------------------------------------------------
(* items_count: the answer may be stale as soon as the mutex is released *)

ItemsCount(w) ==
  /\ Goto(w, "idle", "count")
  /\ UNCHANGED <<queueVars, listVars, itemVars, localVars, viewVars>>

CountLock(w) ==
  /\ Goto(w, "count", "counting")
  /\ LockQueue(w)
  /\ UNCHANGED <<to_encode_queue, listVars, itemVars, localVars, viewVars>>

\* Mutant: the index of the last item instead of the number of items.
CountLast(w) ==
  /\ Goto(w, "counting", "idle")
  /\ count' = [count EXCEPT ![w] = Len(to_encode_queue) - 1]
  /\ UnlockQueue(w)
  /\ UNCHANGED <<to_encode_queue, listVars, itemVars, viewVars,
                 items, prepend, ret, unadded>>

CountUnlock(w) ==
  /\ Goto(w, "counting", "idle")
  /\ count' = [count EXCEPT ![w] = Len(to_encode_queue)]
  /\ UnlockQueue(w)
  /\ UNCHANGED <<to_encode_queue, listVars, itemVars, viewVars,
                 items, prepend, ret, unadded>>
-------------------------------------------------------------------------------
(* dequeue_items(count): count is 1, its default, or what items_count said *)

DequeueItems(w) ==
  /\ Goto(w, "idle", "dequeue")
  /\ ret[w] = <<>>
  /\ \E n \in {1, count[w]} : count' = [count EXCEPT ![w] = n]
  /\ UNCHANGED <<queueVars, listVars, itemVars, viewVars,
                 items, prepend, ret, unadded>>

DequeueLock(w) ==
  /\ Goto(w, "dequeue", "shifting")
  /\ LockQueue(w)
  /\ UNCHANGED <<to_encode_queue, listVars, itemVars, localVars, viewVars>>

\* Mutant: first instead of shift.
DequeuePeek(w) ==
  /\ pc[w] = "shifting" /\ count[w] > 0 /\ to_encode_queue # <<>>
  /\ ret' = [ret EXCEPT ![w] = Append(@, Head(to_encode_queue))]
  /\ count' = [count EXCEPT ![w] = @ - 1]
  /\ UNCHANGED <<queueVars, listVars, itemVars, viewVars, pc,
                 items, prepend, unadded>>

DequeueShift(w) ==
  /\ pc[w] = "shifting" /\ count[w] > 0 /\ to_encode_queue # <<>>
  /\ ret' = [ret EXCEPT ![w] = Append(@, Head(to_encode_queue))]
  /\ to_encode_queue' = Tail(to_encode_queue)
  /\ count' = [count EXCEPT ![w] = @ - 1]
  /\ UNCHANGED <<to_encode_queue_lock, listVars, itemVars, viewVars, pc,
                 items, prepend, unadded>>

DequeueUnlock(w) ==
  /\ count[w] = 0 \/ to_encode_queue = <<>>
  /\ Goto(w, "shifting", "idle")
  /\ UnlockQueue(w)
  /\ count' = [count EXCEPT ![w] = 1]
  /\ UNCHANGED <<to_encode_queue, listVars, itemVars, viewVars,
                 items, prepend, ret, unadded>>
-------------------------------------------------------------------------------
(* encode_succeeded!(item), encode_failed!(item) and add_to_finished_list.  *)
(* The two fields of the item are set before the mutex is taken; the list   *)
(* is trimmed after the append, under the same mutex.                       *)

EncodeFinished(w, ok) ==
  /\ Goto(w, "idle", "stamp")
  /\ ret[w] # <<>>
  /\ succeeded' = [succeeded EXCEPT ![Head(ret[w])] = ok]
  /\ UNCHANGED <<queueVars, listVars, finished_at, localVars, viewVars>>

\* Mutant: the time is left to be set after the item is in the list.
StampLater(w) ==
  /\ Goto(w, "stamp", "finish")
  /\ UNCHANGED <<queueVars, listVars, itemVars, localVars, viewVars>>

Stamp(w) ==
  /\ Goto(w, "stamp", "finish")
  /\ finished_at' = [finished_at EXCEPT ![Head(ret[w])] = TRUE]
  /\ UNCHANGED <<queueVars, listVars, succeeded, localVars, viewVars>>

FinishLock(w) ==
  /\ Goto(w, "finish", "append")
  /\ LockList(w)
  /\ UNCHANGED <<queueVars, encoded_queue, published, itemVars, localVars, viewVars>>

FinishAppend(w) ==
  /\ Goto(w, "append", "trim")
  /\ encoded_queue' = Append(encoded_queue, Head(ret[w]))
  /\ published' = Append(published, Head(ret[w]))
  /\ ret' = [ret EXCEPT ![w] = Tail(@)]
  /\ UNCHANGED <<queueVars, encoded_queue_lock, itemVars, viewVars,
                 items, prepend, count, unadded>>

\* Mutant: a bound that is off by one.
TrimLate(w) ==
  /\ Goto(w, "trim", "unlock")
  /\ encoded_queue' = LastOf(encoded_queue, ItemsInFinishedList + 1)
  /\ UNCHANGED <<queueVars, encoded_queue_lock, published, itemVars, localVars, viewVars>>

\* Mutant: first instead of last.
TrimFirst(w) ==
  /\ Goto(w, "trim", "unlock")
  /\ encoded_queue' = IF Len(encoded_queue) <= ItemsInFinishedList THEN encoded_queue
                      ELSE SubSeq(encoded_queue, 1, ItemsInFinishedList)
  /\ UNCHANGED <<queueVars, encoded_queue_lock, published, itemVars, localVars, viewVars>>

\* Mutant: the early break leaves the mutex locked.
TrimBreaks(w) ==
  /\ Goto(w, "trim", IF Len(encoded_queue) <= ItemsInFinishedList THEN "idle" ELSE "unlock")
  /\ encoded_queue' = LastOf(encoded_queue, ItemsInFinishedList)
  /\ UNCHANGED <<queueVars, encoded_queue_lock, published, itemVars, localVars, viewVars>>

FinishTrim(w) ==
  /\ Goto(w, "trim", "unlock")
  /\ encoded_queue' = LastOf(encoded_queue, ItemsInFinishedList)
  /\ UNCHANGED <<queueVars, encoded_queue_lock, published, itemVars, localVars, viewVars>>

FinishUnlock(w) ==
  /\ Goto(w, "unlock", "idle")
  /\ UnlockList(w)
  /\ UNCHANGED <<queueVars, encoded_queue, published, itemVars, localVars, viewVars>>
-------------------------------------------------------------------------------
(* get_finished_items: a copy of the array, its elements shared *)

GetFinishedItems(r) ==
  /\ Goto(r, "idle", "get")
  /\ asked' = [asked EXCEPT ![r] = Len(published)]
  /\ UNCHANGED <<queueVars, listVars, itemVars, localVars, seen>>

\* Mutant: get_finished_items without the mutex.
GetUnlocked(r) ==
  /\ Goto(r, "get", "copy")
  /\ UNCHANGED <<queueVars, listVars, itemVars, localVars, viewVars>>

GetLock(r) ==
  /\ Goto(r, "get", "copy")
  /\ LockList(r)
  /\ UNCHANGED <<queueVars, encoded_queue, published, itemVars, localVars, viewVars>>

GetCopy(r) ==
  /\ Goto(r, "copy", "got")
  /\ seen' = [seen EXCEPT ![r] = encoded_queue]
  /\ UNCHANGED <<queueVars, listVars, itemVars, localVars, asked>>

GetUnlock(r) ==
  /\ Goto(r, "got", "idle")
  /\ UnlockList(r)
  /\ UNCHANGED <<queueVars, encoded_queue, published, itemVars, localVars, viewVars>>
-------------------------------------------------------------------------------
\* The steps a worker takes inside a call, once it has made it.
WorkerRuns(w) ==
  \/ AddItem(w) \/ AddUnlock(w) \/ CountUnlock(w)
  \/ DequeueShift(w) \/ DequeueUnlock(w)
  \/ Stamp(w) \/ FinishAppend(w) \/ FinishTrim(w) \/ FinishUnlock(w)
ReaderRuns(r) == GetCopy(r) \/ GetUnlock(r)

WorkerLocks(w) == AddLock(w) \/ CountLock(w) \/ DequeueLock(w) \/ FinishLock(w)
ReaderLocks(r) == GetLock(r)

WorkerCalls(w) ==
  \/ \E b \in Batches, front \in BOOLEAN : AddToQueue(w, b, front)
  \/ ItemsCount(w)
  \/ DequeueItems(w)
  \/ \E ok \in BOOLEAN : EncodeFinished(w, ok)
ReaderCalls(r) == GetFinishedItems(r)

Next == \/ \E w \in Workers : WorkerCalls(w) \/ WorkerLocks(w) \/ WorkerRuns(w)
        \/ \E r \in Readers : ReaderCalls(r) \/ ReaderLocks(r) \/ ReaderRuns(r)

Spec == Init /\ [][Next]_vars

(* A thread that has made a call runs on, and a mutex wakes its waiters in  *)
(* turn, so that it does not pass the same one over forever.  Nobody is     *)
(* obliged to make a call.                                                  *)
Fairness == /\ \A w \in Workers : WF_vars(WorkerRuns(w)) /\ SF_vars(WorkerLocks(w))
            /\ \A r \in Readers : WF_vars(ReaderRuns(r)) /\ SF_vars(ReaderLocks(r))

FairSpec == Spec /\ Fairness
-------------------------------------------------------------------------------
TypeOK ==
  /\ to_encode_queue \in Seq(Item)
  /\ to_encode_queue_lock \in Workers \cup {NoThread}
  /\ encoded_queue \in Seq(Item)
  /\ encoded_queue_lock \in Threads \cup {NoThread}
  /\ succeeded \in [Item -> BOOLEAN]
  /\ finished_at \in [Item -> BOOLEAN]
  /\ pc \in [Threads -> {"idle", "add", "adding", "count", "counting", "dequeue",
                         "shifting", "stamp", "finish", "append", "trim",
                         "unlock", "get", "copy", "got"}]
  /\ items \in [Workers -> Seq(Item)]
  /\ prepend \in [Workers -> BOOLEAN]
  /\ count \in [Workers -> Nat]
  /\ ret \in [Workers -> Seq(Item)]
  /\ unadded \in SUBSET Batches
  /\ published \in Seq(Item)
  /\ seen \in [Readers -> Seq(Item)]
  /\ asked \in [Readers -> Nat]

(* add_to_finished_list: whenever nobody is inside the mutex, the finished  *)
(* list is exactly the last ItemsInFinishedList items ever published, in    *)
(* the order they were published: the trim neither skips nor reorders.      *)
WindowAtRest ==
  encoded_queue_lock = NoThread =>
    encoded_queue = LastOf(published, ItemsInFinishedList)

(* get_finished_items: the copy is the window as it was at one instant      *)
(* between the call and the return; the extra element that the list holds   *)
(* between append and trim is never seen, nor is a window older than the    *)
(* call.                                                                    *)
SnapshotIsCurrent ==
  \A r \in Readers : pc[r] = "got" =>
    \E n \in asked[r]..Len(published) :
      seen[r] = LastOf(SubSeq(published, 1, n), ItemsInFinishedList)

(* add_to_finished_list against the lock-free writes of the item's fields:  *)
(* once an item can be reached through the list, or through a copy of it,   *)
(* its fields are set and no thread writes them again.                      *)
PublishedIsFinal ==
  [][\A i \in DOMAIN published :
        LET x == published[i]
        IN finished_at[x] /\ UNCHANGED <<succeeded[x], finished_at[x]>>]_vars

PlacesIn(s, x) == {i \in DOMAIN s : s[i] = x}

(* The queue loses nothing and hands nothing out twice: an item of a batch  *)
(* that was created is at exactly one place - still to be inserted, in the  *)
(* queue, taken by one worker, or published.                                *)
EveryItemOnce ==
  \A b \in Batches \ unadded : \A i \in 1..BatchSize :
    LET x == <<b, i>>
        Places == ({"queue"} \X PlacesIn(to_encode_queue, x))
             \cup ({"list"} \X PlacesIn(published, x))
             \cup UNION {{w} \X PlacesIn(items[w] \o ret[w], x) : w \in Workers}
    IN Cardinality(Places) = 1

(* add_to_queue holds the mutex for the whole batch: however many threads   *)
(* add and take, two items of one batch that are both in the queue have     *)
(* only items of that batch between them.                                   *)
BatchesStayTogether ==
  to_encode_queue_lock = NoThread =>
    \A i, j \in DOMAIN to_encode_queue :
      i < j /\ to_encode_queue[i][1] = to_encode_queue[j][1] =>
        \A k \in i..j : to_encode_queue[k][1] = to_encode_queue[i][1]

(* Every call returns: the two mutexes are never held together, and each is *)
(* released on every path, the early exit of add_to_finished_list included. *)
CallsReturn == \A t \in Threads : pc[t] # "idle" ~> pc[t] = "idle"

Feed == INSTANCE FinishedFeed WITH Limit <- ItemsInFinishedList

(* The mutex and the late trim are invisible: the class implements the      *)
(* atomic list of the last ItemsInFinishedList published items.             *)
FeedSpec == Feed!Spec

\* Array#shift(n): what it takes and what it leaves.
First(s, n) == SubSeq(s, 1, IF n < Len(s) THEN n ELSE Len(s))
Rest(s, n)  == SubSeq(s, n + 1, Len(s))

\* Once a worker has the mutex, what it makes of the queue is settled.
Inside(label) == to_encode_queue_lock # NoThread /\ pc[to_encode_queue_lock] = label

QueueInEffect ==
  LET w == to_encode_queue_lock
  IN CASE Inside("adding")   -> IF prepend[w] THEN Reverse(items[w]) \o to_encode_queue
                                              ELSE to_encode_queue \o items[w]
       [] Inside("shifting") -> Rest(to_encode_queue, count[w])
       [] OTHER              -> to_encode_queue

HandsInEffect ==
  [w \in Workers |-> IF pc[w] = "shifting" THEN ret[w] \o First(to_encode_queue, count[w])
                                           ELSE ret[w]]
KnownInEffect == [w \in Workers |-> IF pc[w] = "shifting" THEN 1 ELSE count[w]]

Queue == INSTANCE EncodeQueue
           WITH Orders <- {BatchItems(b) : b \in Batches},
                queue <- QueueInEffect, known <- KnownInEffect, hands <- HandsInEffect

(* The loops over single items are invisible: the class implements a queue   *)
(* to which whole batches are added and from which a worker takes the first  *)
(* items at once, as many as it asked for or as there are.                   *)
QueueSpec == Queue!Spec
===============================================================================
