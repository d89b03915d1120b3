------------------------------ MODULE EncodeQueue ------------------------------
(***************************************************************************)
(* What the queue of items to encode promises to the threads that use it:  *)
(* a batch gets in at one end as a whole, a worker takes the first items   *)
(* as a whole, and the length it is told is that of one instant, out of    *)
(* date when it takes.  ApplicationState implements this item by item      *)
(* under a mutex.                                                          *)
(***************************************************************************)
EXTENDS Naturals, SequencesExt

CONSTANTS Workers,  \* the threads that use the queue
          Orders    \* the batches that may be added, sequences of items

VARIABLES queue,    \* the items to encode
          known,    \* how many each worker will take the next time
          hands     \* what each worker took and still has to encode

queueView == <<queue, known, hands>>

First(s, n) == SubSeq(s, 1, IF n < Len(s) THEN n ELSE Len(s))
Rest(s, n)  == SubSeq(s, n + 1, Len(s))

Init == /\ queue = <<>>
        /\ known = [w \in Workers |-> 1]
        /\ hands = [w \in Workers |-> <<>>]

Add(s) == /\ queue' = queue \o s
          /\ UNCHANGED <<known, hands>>

\* Item by item at the front: the batch is turned round.
AddInFront(s) == /\ queue' = Reverse(s) \o queue
                 /\ UNCHANGED <<known, hands>>

Count(w) == /\ known' = [known EXCEPT ![w] = Len(queue)]
            /\ UNCHANGED <<queue, hands>>

\* A worker that does not say how many gets one.
AskForOne(w) == /\ known' = [known EXCEPT ![w] = 1]
                /\ UNCHANGED <<queue, hands>>

Take(w) == /\ hands[w] = <<>>
           /\ hands' = [hands EXCEPT ![w] = First(queue, known[w])]
           /\ queue' = Rest(queue, known[w])
           /\ known' = [known EXCEPT ![w] = 1]

Encode(w) == /\ hands[w] # <<>>
             /\ hands' = [hands EXCEPT ![w] = Tail(@)]
             /\ UNCHANGED <<queue, known>>

Next == \/ \E s \in Orders : Add(s) \/ AddInFront(s)
        \/ \E w \in Workers : Count(w) \/ AskForOne(w) \/ Take(w) \/ Encode(w)

Spec == Init /\ [][Next]_queueView
================================================================================
