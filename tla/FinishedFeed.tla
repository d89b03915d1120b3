----------------------------- MODULE FinishedFeed -----------------------------
(***************************************************************************)
(* What the list of finished encodings promises to the web pages: it is    *)
(* the list of the last Limit items that were published, in the order they *)
(* were published, and a reader gets it as it was at one instant.          *)
(* ApplicationState implements it with an array, a mutex and a trim that   *)
(* comes after the append.                                                 *)
(***************************************************************************)
EXTENDS Naturals, Sequences

CONSTANTS Item,     \* the items that can be published
          Readers,  \* the threads that look at the list
          Limit     \* how many items the list remembers

VARIABLES published,  \* every item ever published, oldest first
          seen        \* what each reader got from its last look

feedVars == <<published, seen>>

\* The last n elements of s, all of s when it is shorter (Ruby's Array#last).
LastOf(s, n) == IF Len(s) <= n THEN s ELSE SubSeq(s, Len(s) - n + 1, Len(s))

Init == /\ published = <<>>
        /\ seen = [r \in Readers |-> <<>>]

Publish(x) == /\ published' = Append(published, x)
              /\ UNCHANGED seen

Look(r) == /\ seen' = [seen EXCEPT ![r] = LastOf(published, Limit)]
           /\ UNCHANGED published

Next == \/ \E x \in Item : Publish(x)
        \/ \E r \in Readers : Look(r)

Spec == Init /\ [][Next]_feedVars
================================================================================
