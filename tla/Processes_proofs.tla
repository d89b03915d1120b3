---------------------------- MODULE Processes_proofs ----------------------------
(***************************************************************************)
(* Proofs about Processes, for every set of process slots and every bound. *)
(* The copies of the program differ in where they are: the invariants say  *)
(* how many of them can be where, and what each of them then knows.        *)
(***************************************************************************)
EXTENDS Processes, TLAPS

(* Process.fork: the two processes afterwards, all the others unchanged.      *)
LEMMA ForkEffect ==
  ASSUME TypeOK, NEW p \in Procs, NEW l \in Labels, NEW m \in Labels,
         ~At(p, "free"), Fork(p, l, m)
  PROVE  \E c \in Procs :
           /\ c # p /\ At(c, "free")
           /\ proc'[p].pc = l /\ proc'[c].pc = m
           /\ \A q \in {p, c} : /\ proc'[q].trap = proc[p].trap
                               /\ proc'[q].known = proc[p].known
           /\ \A q \in Procs \ {p, c} : proc'[q] = proc[q]
           /\ proc' \in [Procs -> Process \cup {Free}]
<1>1. proc \in [Procs -> Process \cup {Free}] /\ proc[p] \in Process
  BY DEF TypeOK, At, Free
<1>2. PICK c \in Procs :
        /\ At(c, "free")
        /\ proc' = [proc EXCEPT ![c] = [proc[p] EXCEPT !.pc = m],
                                ![p] = [proc[p] EXCEPT !.pc = l, !.child = c]]
  BY DEF Fork
<1>3. c # p
  BY <1>2 DEF At
<1>4. [proc[p] EXCEPT !.pc = m] \in Process /\ [proc[p] EXCEPT !.pc = l, !.child = c] \in Process
  BY <1>1 DEF Process
<1>5. proc' \in [Procs -> Process \cup {Free}]
  BY <1>1, <1>2, <1>4
<1>6. /\ proc'[p] = [proc[p] EXCEPT !.pc = l, !.child = c]
      /\ proc'[c] = [proc[p] EXCEPT !.pc = m]
      /\ \A q \in Procs \ {p, c} : proc'[q] = proc[q]
  BY <1>1, <1>2, <1>3, <1>4
<1>7. /\ proc'[p].pc = l /\ proc'[c].pc = m
      /\ \A q \in {p, c} : proc'[q].trap = proc[p].trap /\ proc'[q].known = proc[p].known
  <2> DEFINE parent == [proc[p] EXCEPT !.pc = l, !.child = c]
             copy == [proc[p] EXCEPT !.pc = m]
  <2>1. parent.pc = l /\ parent.trap = proc[p].trap /\ parent.known = proc[p].known
    BY <1>1 DEF Process
  <2>2. copy.pc = m /\ copy.trap = proc[p].trap /\ copy.known = proc[p].known
    BY <1>1 DEF Process
  <2>3. proc'[p] = parent /\ proc'[c] = copy
    BY <1>6
  <2> HIDE DEF parent, copy
  <2> QED  BY <2>1, <2>2, <2>3
<1> QED
  BY <1>2, <1>3, <1>5, <1>6, <1>7

(* The end of a process: whoever waits for it goes on, nothing else changes.  *)
LEMMA ExitEffect ==
  ASSUME TypeOK, NEW p \in Procs, Exit(p)
  PROVE  /\ proc'[p] = Free
         /\ \A q \in Procs \ {p} :
              \/ proc'[q] = proc[q]
              \/ /\ At(q, "wait") /\ proc'[q].pc = "finish"
                 /\ proc'[q].trap = proc[q].trap /\ proc'[q].known = proc[q].known
         /\ proc' \in [Procs -> Process \cup {Free}]
<1> DEFINE woken(q) == [proc[q] EXCEPT !.pc = "finish"]
<1>1. ASSUME NEW q \in Procs, At(q, "wait")
      PROVE  /\ woken(q) \in Process /\ woken(q).pc = "finish"
             /\ woken(q).trap = proc[q].trap /\ woken(q).known = proc[q].known
  <2>1. proc[q] \in Process
    BY <1>1 DEF TypeOK, At, Free
  <2> QED  BY <2>1 DEF Process, Labels, Rescued
<1>2. proc \in [Procs -> Process \cup {Free}]
  BY DEF TypeOK
<1>3. proc' = [q \in Procs |-> IF q = p THEN Free
                              ELSE IF At(q, "wait") /\ proc[q].child = p THEN woken(q)
                              ELSE proc[q]]
  BY DEF Exit
<1> HIDE DEF woken
<1> QED
  BY <1>1, <1>2, <1>3

(* A process that only moves.                                                 *)
LEMMA GotoEffect ==
  ASSUME TypeOK, NEW p \in Procs, NEW l \in Labels, ~At(p, "free"), Goto(p, l)
  PROVE  /\ proc'[p] = [proc[p] EXCEPT !.pc = l]
         /\ \A q \in Procs \ {p} : proc'[q] = proc[q]
         /\ proc' \in [Procs -> Process \cup {Free}]
<1>1. proc \in [Procs -> Process \cup {Free}] /\ proc[p] \in Process
  BY DEF TypeOK, At, Free
<1>2. [proc[p] EXCEPT !.pc = l] \in Process
  BY <1>1 DEF Process
<1> QED
  BY <1>1, <1>2 DEF Goto

-------------------------------------------------------------------------------
(* Processes!TypeOK: every process has a place in the program and a memory    *)
(* of items that were finished.                                               *)
THEOREM TypeCorrect == Spec => []TypeOK
<1>1. Init => TypeOK
  BY SwitchAssumption DEF Init, TypeOK
<1>2. TypeOK /\ [Next]_vars => TypeOK'
  <2> SUFFICES ASSUME TypeOK, [Next]_vars
               PROVE  TypeOK'
    OBVIOUS
  <2> USE SwitchAssumption
  <2>1. CASE UNCHANGED vars
    BY <2>1 DEF TypeOK, vars
  <2>2. ASSUME NEW p \in Procs, Start(p)
        PROVE  TypeOK'
    <3>1. [pc |-> "load", cwd |-> "here", trap |-> FALSE, quit |-> FALSE,
           known |-> {}, child |-> p] \in Process
      BY DEF Process, Labels
    <3>2. proc' \in [Procs -> Process \cup {Free}]
      BY <2>2, <3>1 DEF TypeOK, Start
    <3> QED  BY <2>2, <3>2 DEF TypeOK, Start
  <2>3. ASSUME NEW p \in Procs, LoadState(p)
        PROVE  TypeOK'
    <3> DEFINE l == IF Daemonizes THEN "fork" ELSE "serve"
    <3>a. l \in Labels
      BY DEF Labels
    <3> HIDE DEF l
    <3>b. proc[p] \in Process /\ state_yaml \in SUBSET Items
      BY <2>3 DEF TypeOK, LoadState, At, Free
    <3>1. [proc[p] EXCEPT !.pc = l, !.known = state_yaml] \in Process
      BY <3>a, <3>b DEF Process
    <3>2. proc' \in [Procs -> Process \cup {Free}]
      BY <2>3, <3>1 DEF TypeOK, LoadState, l
    <3> QED  BY <2>3, <3>2 DEF TypeOK, LoadState
  <2>4. ASSUME NEW p \in Procs, Daemonize(p)
        PROVE  TypeOK'
    <3>1. proc' \in [Procs -> Process \cup {Free}]
      BY <2>4, ForkEffect DEF Daemonize, At, Labels
    <3> QED  BY <2>4, <3>1 DEF TypeOK, Daemonize
  <2>5. ASSUME NEW p \in Procs, Return(p) \/ ExitTwin(p) \/ Command(p)
        PROVE  TypeOK'
    <3>1. proc' \in [Procs -> Process \cup {Free}]
      BY <2>5, ExitEffect DEF Return, ExitTwin, Command
    <3> QED  BY <2>5, <3>1 DEF TypeOK, Return, ExitTwin, Command
  <2>6. ASSUME NEW p \in Procs, ForkAgain(p)
        PROVE  TypeOK'
    <3>1. proc' \in [Procs -> Process \cup {Free}]
      BY <2>6, ForkEffect DEF ForkAgain, At, Labels
    <3> QED  BY <2>6, <3>1 DEF TypeOK, ForkAgain
  <2>7. ASSUME NEW p \in Procs, ChangeDir(p)
        PROVE  TypeOK'
    <3>a. proc[p] \in Process
      BY <2>7 DEF TypeOK, ChangeDir, At, Free
    <3>1. [proc[p] EXCEPT !.pc = "trap", !.cwd = "tmp"] \in Process
      BY <3>a DEF Process, Labels
    <3>2. proc' \in [Procs -> Process \cup {Free}]
      BY <2>7, <3>1 DEF TypeOK, ChangeDir
    <3> QED  BY <2>7, <3>2 DEF TypeOK, ChangeDir
  <2>8. ASSUME NEW p \in Procs, Trap(p)
        PROVE  TypeOK'
    <3>a. proc[p] \in Process
      BY <2>8 DEF TypeOK, Trap, At, Free
    <3>1. [proc[p] EXCEPT !.pc = "serve", !.trap = TRUE] \in Process
      BY <3>a DEF Process, Labels
    <3>2. proc' \in [Procs -> Process \cup {Free}]
      BY <2>8, <3>1 DEF TypeOK, Trap
    <3> QED  BY <2>8, <3>2 DEF TypeOK, Trap
  <2>9. ASSUME NEW p \in Procs, Serve(p)
        PROVE  TypeOK'
    <3>1. proc' \in [Procs -> Process \cup {Free}]
      BY <2>9, GotoEffect DEF Serve, At, Labels, Rescued
    <3> QED  BY <2>9, <3>1 DEF TypeOK, Serve
  <2>10. ASSUME NEW p \in Procs, Poll(p)
         PROVE  TypeOK'
    <3>1. proc' \in [Procs -> Process \cup {Free}]
      BY <2>10, GotoEffect, ForkEffect DEF Poll, At, Labels, Rescued
    <3>a. proc[p] \in Process
      BY <2>10 DEF TypeOK, Poll, At, Free
    <3>2. scanned' \in SUBSET {"here", "tmp"}
      BY <2>10, <3>a DEF Poll, TypeOK, Process
    <3> QED  BY <2>10, <3>1, <3>2 DEF TypeOK, Poll
  <2>11. ASSUME NEW p \in Procs, Finish(p)
         PROVE  TypeOK'
    <3>1. CASE finished < MaxFinished
      <4>1. finished + 1 \in Items
        BY <3>1 DEF TypeOK, Items
      <4>a. proc[p] \in Process
        BY <2>11 DEF TypeOK, Finish, At, Free
      <4>b. proc[p].known \cup {finished + 1} \in SUBSET Items
        BY <4>1, <4>a DEF Process
      <4>2. [proc[p] EXCEPT !.pc = "poll", !.known = @ \cup {finished + 1}] \in Process
        BY <4>a, <4>b DEF Process, Labels, Rescued
      <4>3. proc' \in [Procs -> Process \cup {Free}]
        BY <2>11, <3>1, <4>2 DEF TypeOK, Finish
      <4> QED  BY <2>11, <3>1, <4>1, <4>3 DEF TypeOK, Finish, Items
    <3>2. CASE ~(finished < MaxFinished)
      <4>1. proc' \in [Procs -> Process \cup {Free}]
        BY <2>11, <3>2, GotoEffect DEF Finish, At, Labels, Rescued
      <4> QED  BY <2>11, <3>2, <4>1 DEF TypeOK, Finish
    <3> QED  BY <3>1, <3>2
  <2>12. ASSUME NEW p \in Procs, SaveOpen(p)
         PROVE  TypeOK'
    <3>1. proc' \in [Procs -> Process \cup {Free}]
      BY <2>12, GotoEffect DEF SaveOpen, At, Labels
    <3> QED  BY <2>12, <3>1 DEF TypeOK, SaveOpen
  <2>13. ASSUME NEW p \in Procs, SaveWrite(p)
         PROVE  TypeOK'
    <3>1. proc' \in [Procs -> Process \cup {Free}]
      BY <2>13, ExitEffect DEF SaveWrite
    <3>2. proc[p].known \in SUBSET Items
      BY <2>13 DEF TypeOK, SaveWrite, At, Free, Process
    <3> QED  BY <2>13, <3>1, <3>2 DEF TypeOK, SaveWrite
  <2>14. ASSUME NEW p \in Procs, Term(p)
         PROVE  TypeOK'
    <3>1. proc[p] \in Process
      BY <2>14 DEF TypeOK, Term, At, Free
    <3>2. [proc[p] EXCEPT !.quit = TRUE] \in Process
      BY <3>1 DEF Process
    <3>3. CASE proc[p].trap
      <4>1. proc' = [proc EXCEPT ![p] = [proc[p] EXCEPT !.quit = TRUE]]
        BY <2>14, <3>3 DEF Term
      <4>2. proc' \in [Procs -> Process \cup {Free}]
        BY <3>2, <4>1 DEF TypeOK
      <4> QED  BY <2>14, <4>2 DEF TypeOK, Term
    <3>4. CASE ~proc[p].trap
      <4>a. Goto(p, "save") \/ Exit(p)
        BY <2>14, <3>4 DEF Term
      <4>b. "save" \in Labels /\ ~At(p, "free")
        BY <2>14 DEF Term, Labels
      <4>1. proc' \in [Procs -> Process \cup {Free}]
        BY <4>a, <4>b, GotoEffect, ExitEffect
      <4> QED  BY <2>14, <4>1 DEF TypeOK, Term
    <3> QED  BY <3>3, <3>4
  <2> QED
    BY <2>1, <2>2, <2>3, <2>4, <2>5, <2>6, <2>7, <2>8, <2>9, <2>10, <2>11, <2>12, <2>13, <2>14
    DEF Next
<1> QED
  BY <1>1, <1>2, PTL DEF Spec
-------------------------------------------------------------------------------
(* OnePolls.  A process in Line may come to poll; a fork makes another one    *)
(* only by taking the place of the first (Daemonize).                         *)

Line == {"load", "fork", "second", "chdir", "trap", "serve", "poll", "wait", "finish"}

OneInLine == \A p, q \in Procs : proc[p].pc \in Line /\ proc[q].pc \in Line => p = q

(* An exit brings nobody into the line to the loop. *)
LEMMA ExitEnds ==
  ASSUME TypeOK, NEW p \in Procs, Exit(p)
  PROVE  \A q \in Procs : proc'[q].pc \in Line => proc[q].pc \in Line
<1>1. proc'[p].pc \notin Line
  BY ExitEffect DEF Free, Line
<1>2. \A q \in Procs \ {p} : proc'[q] = proc[q] \/ At(q, "wait")
  BY ExitEffect
<1> QED
  BY <1>1, <1>2 DEF At, Line

(* Each fork leaves one of the two in the line, whatever signals arrive. *)
LEMMA OneInLineStep ==
  ASSUME TypeOK, OneInLine, ~Overlaps, [Next]_vars
  PROVE  OneInLine'
<1> DEFINE NobodyComes == \A q \in Procs : proc'[q].pc \in Line => proc[q].pc \in Line
<1>1. NobodyComes => OneInLine'
  BY DEF OneInLine
<1>2. CASE UNCHANGED vars
  BY <1>1, <1>2 DEF vars
<1>3. ASSUME NEW p \in Procs, Start(p)
      PROVE  OneInLine'
  <2>1. \A q \in Procs : proc[q].pc \notin Line
    BY <1>3 DEF Start, Running, Line
  <2>2. \A q \in Procs \ {p} : proc'[q] = proc[q]
    BY <1>3 DEF Start, TypeOK
  <2> QED  BY <2>1, <2>2 DEF OneInLine
<1>4. ASSUME NEW p \in Procs, LoadState(p) \/ ChangeDir(p) \/ Trap(p) \/ Finish(p)
      PROVE  NobodyComes
  <2>1. \A q \in Procs \ {p} : proc'[q] = proc[q]
    BY <1>4 DEF LoadState, ChangeDir, Trap, Finish, Goto, TypeOK
  <2>2. proc[p].pc \in Line
    BY <1>4 DEF LoadState, ChangeDir, Trap, Finish, At, Line
  <2> QED  BY <2>1, <2>2
<1>5. ASSUME NEW p \in Procs, Daemonize(p)
      PROVE  OneInLine'
  <2>1. PICK c \in Procs : /\ proc'[p].pc = "return"
                          /\ \A q \in Procs \ {p, c} : proc'[q] = proc[q]
    <3>1. Fork(p, "return", "second") /\ ~At(p, "free")
      BY <1>5 DEF Daemonize, At
    <3>2. "return" \in Labels /\ "second" \in Labels
      BY DEF Labels
    <3> QED  BY <3>1, <3>2, ForkEffect
  <2>2. proc[p].pc = "fork"
    BY <1>5 DEF Daemonize, At
  <2>3. proc'[p].pc \notin Line
    BY <2>1 DEF Line
  <2>4. \A q \in Procs \ {p, c} : proc'[q].pc \notin Line
    BY <2>1, <2>2 DEF OneInLine, Line
  <2> QED  BY <2>3, <2>4 DEF OneInLine
<1>6. ASSUME NEW p \in Procs, Return(p) \/ ExitTwin(p) \/ Command(p) \/ SaveWrite(p)
      PROVE  NobodyComes
  <2>1. Exit(p)
    BY <1>6 DEF Return, ExitTwin, Command, SaveWrite
  <2> QED  BY <2>1, ExitEnds
<1>7. ASSUME NEW p \in Procs, ForkAgain(p)
      PROVE  NobodyComes
  <2>1. PICK c \in Procs : /\ proc'[c].pc = "twin"
                          /\ \A q \in Procs \ {p, c} : proc'[q] = proc[q]
    <3>1. Fork(p, "chdir", "twin") /\ ~At(p, "free")
      BY <1>7 DEF ForkAgain, At
    <3>2. "chdir" \in Labels /\ "twin" \in Labels
      BY DEF Labels
    <3> QED  BY <3>1, <3>2, ForkEffect
  <2>2. proc[p].pc = "second"
    BY <1>7 DEF ForkAgain, At
  <2> QED  BY <2>1, <2>2 DEF Line
<1>8. ASSUME NEW p \in Procs, Serve(p) \/ SaveOpen(p)
      PROVE  NobodyComes
  <2>1. proc[p] \in Process
    BY <1>8 DEF Serve, SaveOpen, At, TypeOK, Free
  <2>2. /\ \A q \in Procs \ {p} : proc'[q] = proc[q]
        /\ proc[p].pc \in Line \/ proc'[p].pc = "write"
    BY <1>8, <2>1 DEF Serve, SaveOpen, At, Goto, TypeOK, Line, Process
  <2> QED  BY <2>2 DEF Line
<1>9. ASSUME NEW p \in Procs, Poll(p)
      PROVE  NobodyComes
  <2>1. proc[p] \in Process /\ proc[p].pc = "poll"
    BY <1>9 DEF Poll, At, TypeOK, Free
  <2>2. CASE proc[p].quit
    BY <1>9, <2>1, <2>2 DEF Poll, Goto, TypeOK, Line
  <2>3. CASE ~proc[p].quit
    <3>1. PICK c \in Procs : /\ proc'[c].pc = "child"
                            /\ \A q \in Procs \ {p, c} : proc'[q] = proc[q]
      <4>1. Fork(p, "wait", "child") /\ ~At(p, "free")
        BY <1>9, <2>3 DEF Poll, At
      <4>2. "wait" \in Labels /\ "child" \in Labels
        BY DEF Labels, Rescued
      <4> QED  BY <4>1, <4>2, ForkEffect
    <3> QED  BY <2>1, <3>1 DEF Line
  <2> QED  BY <2>2, <2>3
<1>10. ASSUME NEW p \in Procs, Term(p)
       PROVE  NobodyComes
  <2>1. proc[p] \in Process
    BY <1>10 DEF Term, At, TypeOK, Free
  <2>2. CASE proc[p].trap
    <3>1. proc' = [proc EXCEPT ![p] = [proc[p] EXCEPT !.quit = TRUE]]
      BY <1>10, <2>2 DEF Term
    <3>2. proc'[p].pc = proc[p].pc /\ \A q \in Procs \ {p} : proc'[q] = proc[q]
      BY <2>1, <3>1 DEF TypeOK, Process
    <3> QED  BY <3>2
  <2>3. CASE ~proc[p].trap /\ proc[p].pc \in Rescued
    <3>1. Goto(p, "save")
      BY <1>10, <2>3 DEF Term
    <3>2. proc'[p].pc = "save" /\ \A q \in Procs \ {p} : proc'[q] = proc[q]
      BY <2>1, <3>1 DEF Goto, TypeOK, Process
    <3> QED  BY <3>2 DEF Line
  <2>4. CASE ~proc[p].trap /\ proc[p].pc \notin Rescued
    <3>1. Exit(p)
      BY <1>10, <2>4 DEF Term
    <3> QED  BY <3>1, ExitEnds
  <2> QED  BY <2>2, <2>3, <2>4
<1> QED
  BY <1>1, <1>2, <1>3, <1>4, <1>5, <1>6, <1>7, <1>8, <1>9, <1>10 DEF Next

(* Processes!OnePolls: as long as nobody starts the program a second time,    *)
(* at most one of its copies is in the loop, in debug mode as well.           *)
THEOREM OnePollsAlways ==
  ASSUME ~Overlaps
  PROVE  Spec => []OnePolls
<1>1. Init => OneInLine
  BY DEF Init, OneInLine, Free, Line
<1>2. OneInLine => OnePolls
  BY DEF OneInLine, OnePolls, Line
<1>3. TypeOK /\ OneInLine /\ [Next]_vars => OneInLine'
  BY OneInLineStep
<1> QED
  BY TypeCorrect, <1>1, <1>2, <1>3, PTL DEF Spec
-------------------------------------------------------------------------------
(* HistoryComplete.  One process at most has anything to save, and it traps   *)
(* TERM from before the first item it finishes until it has saved; until it   *)
(* traps TERM, the file has all that it knows.                                *)

Keeper == Line \cup {"save", "write"}
Informed == Keeper \ {"load"}
Armed == Informed \ {"fork", "second", "chdir", "trap"}

OneKeeper == \A p, q \in Procs : proc[p].pc \in Keeper /\ proc[q].pc \in Keeper => p = q
Trapped == \A p \in Procs : proc[p].pc \in Armed \cup {"child"} => proc[p].trap = TRUE
Knows == \A p \in Procs : proc[p].pc \in Informed => proc[p].known = 1..finished
Saved == (\A p \in Procs : proc[p].pc \notin Armed) => state_yaml = 1..finished

HInv == OneKeeper /\ Trapped /\ Knows /\ Saved

\* A process whose part in HInv is not changed by the step.
Calm(q) == /\ proc'[q].pc \in Keeper => proc[q].pc \in Keeper
           /\ proc'[q].pc \in Armed <=> proc[q].pc \in Armed
           /\ proc'[q].pc \in Armed \cup {"child"} =>
                proc[q].pc \in Armed \cup {"child"} /\ proc'[q].trap = proc[q].trap
           /\ proc'[q].pc \in Informed =>
                proc[q].pc \in Informed /\ proc'[q].known = proc[q].known

(* A step that is calm for all keeps HInv. *)
LEMMA CalmStep ==
  ASSUME HInv, \A q \in Procs : Calm(q), UNCHANGED <<state_yaml, finished>>
  PROVE  HInv'
<1>1. OneKeeper'
  BY DEF HInv, OneKeeper, Calm
<1>2. Trapped'
  BY DEF HInv, Trapped, Calm
<1>3. Knows'
  BY DEF HInv, Knows, Calm
<1>4. Saved'
  BY DEF HInv, Saved, Calm
<1> QED
  BY <1>1, <1>2, <1>3, <1>4 DEF HInv

(* A process that has nothing to save may end.                                *)
LEMMA CalmExit ==
  ASSUME TypeOK, HInv, NEW p \in Procs, proc[p].pc \notin Armed, Exit(p),
         UNCHANGED <<state_yaml, finished>>
  PROVE  HInv'
<1>1. Calm(p)
  BY ExitEffect DEF Calm, Free, Keeper, Line, Informed, Armed
<1>2. \A q \in Procs \ {p} : Calm(q)
  <2> TAKE q \in Procs \ {p}
  <2>1. CASE proc'[q] = proc[q]
    BY <2>1 DEF Calm
  <2>2. CASE /\ At(q, "wait") /\ proc'[q].pc = "finish"
             /\ proc'[q].trap = proc[q].trap /\ proc'[q].known = proc[q].known
    BY <2>2 DEF Calm, At, Keeper, Line, Informed, Armed
  <2> QED  BY <2>1, <2>2, ExitEffect
<1> QED
  BY <1>1, <1>2, CalmStep

(* HInv is inductive for a daemon that nobody starts while it runs. *)
LEMMA HInvStep ==
  ASSUME Daemonizes, ~Overlaps, TypeOK, HInv, [Next]_vars
  PROVE  HInv'
<1> USE DEF Keeper, Line, Informed, Armed
<1>1. CASE UNCHANGED vars
  BY <1>1, CalmStep DEF vars, Calm
<1>2. ASSUME NEW p \in Procs, Start(p)
      PROVE  HInv'
  <2>1. \A q \in Procs : proc[q].pc \in {"free", "child"}
    BY <1>2 DEF Start, Running
  <2>2. /\ \A q \in Procs \ {p} : proc'[q] = proc[q]
        /\ proc'[p].pc = "load" /\ UNCHANGED <<state_yaml, finished>>
    BY <1>2 DEF Start, TypeOK
  <2>3. \A q \in Procs \ {p} : proc'[q].pc \in {"free", "child"}
    BY <2>1, <2>2
  <2> QED
    BY <2>1, <2>2, <2>3, SMTT(30) DEF HInv, OneKeeper, Trapped, Knows, Saved
<1>3. ASSUME NEW p \in Procs, LoadState(p)
      PROVE  HInv'
  <2>1. proc[p] \in Process /\ proc[p].pc = "load"
    BY <1>3 DEF LoadState, At, TypeOK, Free
  <2>2. proc' = [proc EXCEPT ![p].pc = "fork", ![p].known = state_yaml]
    BY <1>3 DEF LoadState
  <2>3. /\ proc'[p].pc = "fork" /\ proc'[p].known = state_yaml
        /\ \A q \in Procs \ {p} : proc'[q] = proc[q]
        /\ UNCHANGED <<state_yaml, finished>>
    BY <1>3, <2>1, <2>2 DEF LoadState, TypeOK, Process
  <2>4. \A q \in Procs \ {p} : proc[q].pc \notin Keeper
    BY <2>1 DEF HInv, OneKeeper
  <2>5. state_yaml = 1..finished
    BY <2>1, <2>4 DEF HInv, Saved
  <2> QED
    BY <2>3, <2>4, <2>5, SMTT(30) DEF HInv, OneKeeper, Trapped, Knows, Saved
<1>4. ASSUME NEW p \in Procs, Daemonize(p)
      PROVE  HInv'
  <2>1. Fork(p, "return", "second") /\ proc[p].pc = "fork" /\ ~At(p, "free")
    BY <1>4 DEF Daemonize, At
  <2>2. "return" \in Labels /\ "second" \in Labels
    BY DEF Labels
  <2>3. PICK c \in Procs :
          /\ c # p /\ At(c, "free") /\ proc'[p].pc = "return" /\ proc'[c].pc = "second"
          /\ proc'[c].known = proc[p].known
          /\ \A q \in Procs \ {p, c} : proc'[q] = proc[q]
    BY <2>1, <2>2, ForkEffect
  <2>4. \A q \in Procs \ {p, c} : proc[q].pc \notin Keeper
    BY <2>1 DEF HInv, OneKeeper
  <2>5. proc'[c].known = 1..finished
    BY <2>1, <2>3 DEF HInv, Knows
  <2>6. state_yaml = 1..finished
    BY <2>1, <2>3, <2>4 DEF HInv, Saved, At
  <2>7. UNCHANGED <<state_yaml, finished>>
    BY <1>4 DEF Daemonize
  <2> QED
    BY <2>3, <2>4, <2>5, <2>6, <2>7, SMTT(30) DEF HInv, OneKeeper, Trapped, Knows, Saved
<1>5. ASSUME NEW p \in Procs, Return(p) \/ ExitTwin(p) \/ Command(p)
      PROVE  HInv'
  <2>1. Exit(p) /\ proc[p].pc \notin Armed /\ UNCHANGED <<state_yaml, finished>>
    BY <1>5 DEF Return, ExitTwin, Command, At
  <2> QED  BY <2>1, CalmExit
<1>6. ASSUME NEW p \in Procs, ForkAgain(p)
      PROVE  HInv'
  <2>1. Fork(p, "chdir", "twin") /\ proc[p].pc = "second" /\ ~At(p, "free")
    BY <1>6 DEF ForkAgain, At
  <2>2. "chdir" \in Labels /\ "twin" \in Labels
    BY DEF Labels
  <2>3. PICK c \in Procs :
          /\ At(c, "free") /\ proc'[p].pc = "chdir" /\ proc'[c].pc = "twin"
          /\ proc'[p].known = proc[p].known
          /\ \A q \in Procs \ {p, c} : proc'[q] = proc[q]
    BY <2>1, <2>2, ForkEffect
  <2>4. \A q \in Procs : Calm(q)
    BY <2>1, <2>3 DEF Calm, At
  <2> QED  BY <1>6, <2>4, CalmStep DEF ForkAgain
<1>7. ASSUME NEW p \in Procs, ChangeDir(p)
      PROVE  HInv'
  <2>1. proc[p] \in Process /\ proc[p].pc = "chdir"
    BY <1>7 DEF ChangeDir, At, TypeOK, Free
  <2>2. /\ proc'[p].pc = "trap" /\ proc'[p].known = proc[p].known
        /\ \A q \in Procs \ {p} : proc'[q] = proc[q]
    BY <1>7, <2>1 DEF ChangeDir, TypeOK, Process
  <2>3. \A q \in Procs : Calm(q)
    BY <2>1, <2>2 DEF Calm
  <2> QED  BY <1>7, <2>3, CalmStep DEF ChangeDir
<1>8. ASSUME NEW p \in Procs, Trap(p)
      PROVE  HInv'
  <2>1. proc[p] \in Process /\ proc[p].pc = "trap"
    BY <1>8 DEF Trap, At, TypeOK, Free
  <2>2. /\ proc'[p].pc = "serve" /\ proc'[p].trap = TRUE /\ proc'[p].known = proc[p].known
        /\ \A q \in Procs \ {p} : proc'[q] = proc[q]
        /\ UNCHANGED <<state_yaml, finished>>
    BY <1>8, <2>1 DEF Trap, TypeOK, Process
  <2> QED
    BY <2>1, <2>2, SMTT(30) DEF HInv, OneKeeper, Trapped, Knows, Saved
<1>9. ASSUME NEW p \in Procs, Serve(p)
      PROVE  HInv'
  <2>1. proc[p] \in Process /\ proc[p].pc = "serve"
    BY <1>9 DEF Serve, At, TypeOK, Free
  <2>2. /\ proc'[p].pc = "poll" /\ proc'[p].known = proc[p].known /\ proc'[p].trap = proc[p].trap
        /\ \A q \in Procs \ {p} : proc'[q] = proc[q]
    BY <1>9, <2>1 DEF Serve, Goto, TypeOK, Process
  <2>3. \A q \in Procs : Calm(q)
    BY <2>1, <2>2 DEF Calm
  <2> QED  BY <1>9, <2>3, CalmStep DEF Serve
<1>10. ASSUME NEW p \in Procs, Poll(p)
       PROVE  HInv'
  <2>1. proc[p] \in Process /\ proc[p].pc = "poll" /\ ~At(p, "free")
    BY <1>10 DEF Poll, At, TypeOK, Free
  <2>2. UNCHANGED <<state_yaml, finished>>
    BY <1>10 DEF Poll
  <2>3. CASE proc[p].quit
    <3>1. Goto(p, "save")
      BY <1>10, <2>3 DEF Poll
    <3>2. /\ proc'[p].pc = "save" /\ proc'[p].known = proc[p].known /\ proc'[p].trap = proc[p].trap
          /\ \A q \in Procs \ {p} : proc'[q] = proc[q]
      BY <2>1, <3>1 DEF Goto, TypeOK, Process
    <3>3. \A q \in Procs : Calm(q)
      BY <2>1, <3>2 DEF Calm
    <3> QED  BY <2>2, <3>3, CalmStep
  <2>4. CASE ~proc[p].quit
    <3>1. Fork(p, "wait", "child")
      BY <1>10, <2>4 DEF Poll
    <3>2. "wait" \in Labels /\ "child" \in Labels
      BY DEF Labels, Rescued
    <3>3. PICK c \in Procs :
            /\ c # p /\ At(c, "free") /\ proc'[p].pc = "wait" /\ proc'[c].pc = "child"
            /\ \A q \in {p, c} : proc'[q].trap = proc[p].trap /\ proc'[q].known = proc[p].known
            /\ \A q \in Procs \ {p, c} : proc'[q] = proc[q]
      BY <2>1, <3>1, <3>2, ForkEffect
    <3>4. proc[p].trap = TRUE /\ proc[p].known = 1..finished
      BY <2>1 DEF HInv, Trapped, Knows
    <3>5. \A q \in {p, c} : proc'[q].trap = TRUE /\ proc'[q].known = 1..finished
      BY <3>3, <3>4
    <3> QED
      BY <2>1, <2>2, <3>3, <3>5, SMTT(30) DEF HInv, OneKeeper, Trapped, Knows, Saved
  <2> QED  BY <2>3, <2>4
<1>11. ASSUME NEW p \in Procs, Finish(p)
       PROVE  HInv'
  <2>1. proc[p] \in Process /\ proc[p].pc = "finish"
    BY <1>11 DEF Finish, At, TypeOK, Free
  <2>2. CASE finished < MaxFinished
    <3>1. /\ proc'[p].pc = "poll" /\ proc'[p].known = proc[p].known \cup {finished + 1}
          /\ proc'[p].trap = proc[p].trap
          /\ \A q \in Procs \ {p} : proc'[q] = proc[q]
          /\ finished' = finished + 1
      BY <1>11, <2>1, <2>2 DEF Finish, TypeOK, Process
    <3>2. proc[p].known = 1..finished /\ proc[p].trap = TRUE
      BY <2>1 DEF HInv, Knows, Trapped
    <3>3. 1..(finished + 1) = (1..finished) \cup {finished + 1}
      BY SwitchAssumption DEF TypeOK
    <3>4. \A q \in Procs \ {p} : proc[q].pc \notin Keeper
      BY <2>1 DEF HInv, OneKeeper
    <3>5. OneKeeper'
      BY <3>1, <3>4 DEF OneKeeper
    <3>6. Trapped'
      BY <3>1, <3>2 DEF HInv, Trapped
    <3>7. Knows'
      BY <3>1, <3>2, <3>3, <3>4 DEF Knows
    <3>8. Saved'
      BY <3>1 DEF Saved
    <3> QED
      BY <3>5, <3>6, <3>7, <3>8 DEF HInv
  <2>3. CASE ~(finished < MaxFinished)
    <3>1. Goto(p, "poll") /\ UNCHANGED <<state_yaml, finished>>
      BY <1>11, <2>3 DEF Finish
    <3>2. /\ proc'[p].pc = "poll" /\ proc'[p].known = proc[p].known /\ proc'[p].trap = proc[p].trap
          /\ \A q \in Procs \ {p} : proc'[q] = proc[q]
      BY <2>1, <3>1 DEF Goto, TypeOK, Process
    <3>3. \A q \in Procs : Calm(q)
      BY <2>1, <3>2 DEF Calm
    <3> QED  BY <3>1, <3>3, CalmStep
  <2> QED  BY <2>2, <2>3
<1>12. ASSUME NEW p \in Procs, SaveOpen(p)
       PROVE  HInv'
  <2>1. proc[p] \in Process /\ proc[p].pc = "save"
    BY <1>12 DEF SaveOpen, At, TypeOK, Free
  <2>2. /\ proc'[p].pc = "write" /\ proc'[p].known = proc[p].known /\ proc'[p].trap = proc[p].trap
        /\ \A q \in Procs \ {p} : proc'[q] = proc[q]
        /\ UNCHANGED finished
    BY <1>12, <2>1 DEF SaveOpen, Goto, TypeOK, Process
  <2> QED
    BY <2>1, <2>2, SMTT(30) DEF HInv, OneKeeper, Trapped, Knows, Saved
<1>13. ASSUME NEW p \in Procs, SaveWrite(p)
       PROVE  HInv'
  <2>1. proc[p].pc = "write" /\ Exit(p) /\ state_yaml' = proc[p].known /\ UNCHANGED finished
    BY <1>13 DEF SaveWrite, At
  <2>2. \A q \in Procs \ {p} : proc[q].pc \notin Keeper
    BY <2>1 DEF HInv, OneKeeper
  <2>3. \A q \in Procs \ {p} : proc'[q] = proc[q]
    BY <2>1, <2>2, ExitEffect DEF At
  <2>4. proc'[p].pc \notin Keeper \cup {"child"}
    BY <2>1, ExitEffect DEF Free
  <2>5. state_yaml' = 1..finished'
    BY <2>1 DEF HInv, Knows
  <2> QED
    BY <2>2, <2>3, <2>4, <2>5, SMTT(30) DEF HInv, OneKeeper, Trapped, Knows, Saved
<1>14. ASSUME NEW p \in Procs, Term(p)
       PROVE  HInv'
  <2>1. proc[p] \in Process /\ UNCHANGED <<state_yaml, finished>>
    BY <1>14 DEF Term, At, TypeOK, Free
  <2>2. CASE proc[p].trap
    <3>1. proc' = [proc EXCEPT ![p] = [proc[p] EXCEPT !.quit = TRUE]]
      BY <1>14, <2>2 DEF Term
    <3>2. /\ proc'[p].pc = proc[p].pc /\ proc'[p].known = proc[p].known
          /\ proc'[p].trap = proc[p].trap
          /\ \A q \in Procs \ {p} : proc'[q] = proc[q]
      BY <2>1, <3>1 DEF TypeOK, Process
    <3>3. \A q \in Procs : Calm(q)
      BY <3>2 DEF Calm
    <3> QED  BY <2>1, <3>3, CalmStep
  <2>3. CASE ~proc[p].trap
    <3>1. proc[p].pc \notin Armed \cup {"child"}
      BY <2>3 DEF HInv, Trapped
    <3>2. Exit(p)
      BY <1>14, <2>3, <3>1 DEF Term, Rescued
    <3> QED  BY <2>1, <3>1, <3>2, CalmExit
  <2> QED  BY <2>2, <2>3
<1> QED
  BY <1>1, <1>2, <1>3, <1>4, <1>5, <1>6, <1>7, <1>8, <1>9, <1>10, <1>11, <1>12, <1>13, <1>14
  DEF Next

(* Processes!HistoryComplete: a daemon that nobody starts twice loses nothing *)
(* to any number of requests to terminate, at any time.                       *)
THEOREM HistoryCompleteAlways ==
  ASSUME Daemonizes, ~Overlaps
  PROVE  Spec => []HistoryComplete
<1>1. Init => HInv
  BY DEF Init, HInv, OneKeeper, Trapped, Knows, Saved, Free, Keeper, Line, Informed, Armed
<1>2. HInv => HistoryComplete
  BY DEF HInv, Saved, HistoryComplete, Running, Armed, Informed, Keeper, Line
<1>3. TypeOK /\ HInv /\ [Next]_vars => HInv'
  BY HInvStep
<1> QED
  BY TypeCorrect, <1>1, <1>2, <1>3, PTL DEF Spec
===============================================================================
