------------------------------- MODULE Processes -------------------------------
(***************************************************************************)
(* The processes of Yikes in the background: what run forks to become a    *)
(* daemon (lib/daemonize.rb) and to run a command (lib/platform.rb), the   *)
(* signals they get and the state file they share.  A fork copies the      *)
(* whole program, its place in the code, its working directory, its traps  *)
(* and the engines it has loaded, and the copy goes on from there.         *)
(*                                                                         *)
(* Only what the copies can do to each other is here: Daemon has the poll  *)
(* loop, Engine what becomes of a video.                                   *)
(***************************************************************************)
EXTENDS Naturals

CONSTANTS Procs,        \* slots for processes
          Daemonizes,   \* should_daemonize?: not in debug mode
          Absolute,     \* were the directories given on the command line?
          Overlaps,     \* may it be started while it runs?
          MaxStarts, MaxSignals, MaxFinished  \* bounds

ASSUME SwitchAssumption ==
  /\ Daemonizes \in BOOLEAN /\ Absolute \in BOOLEAN /\ Overlaps \in BOOLEAN
  /\ MaxStarts \in Nat /\ MaxSignals \in Nat /\ MaxFinished \in Nat

VARIABLES proc,       \* the processes; each has a memory of its own
          state_yaml, \* the items in the finished lists of the state file
          finished,   \* history: items finished so far, by any process
          scanned,    \* history: directories that "." stood for in a run
          starts, signals

vars == <<proc, state_yaml, finished, scanned, starts, signals>>

\* In the begin block of run, where every exception leads to the save.
Rescued == {"poll", "wait", "finish", "child"}
Labels == Rescued \cup {"load", "fork", "return", "second", "twin", "chdir", "trap",
                        "serve", "save", "write"}
Free == [pc |-> "free"]
Items == 1..MaxFinished
Process == [pc: Labels, cwd: {"here", "tmp"}, trap: BOOLEAN, quit: BOOLEAN,
            known: SUBSET Items, child: Procs]

At(p, l) == proc[p].pc = l
Goto(p, l) == proc' = [proc EXCEPT ![p].pc = l]
Running == {p \in Procs : proc[p].pc \notin {"free", "child"}}

\* The parent goes on at l and the copy at m.
Fork(p, l, m) == \E c \in Procs :
  /\ At(c, "free")
  /\ proc' = [proc EXCEPT ![c] = [proc[p] EXCEPT !.pc = m],
                          ![p] = [proc[p] EXCEPT !.pc = l, !.child = c]]

\* The process is gone; the one in Process.wait for it goes on.
Exit(p) ==
  proc' = [q \in Procs |-> IF q = p THEN Free
                          ELSE IF At(q, "wait") /\ proc[q].child = p
                               THEN [proc[q] EXCEPT !.pc = "finish"]
                               ELSE proc[q]]

Init == /\ proc = [p \in Procs |-> Free]
        /\ state_yaml = {} /\ finished = 0 /\ scanned = {}
        /\ starts = 0 /\ signals = 0

\* Somebody starts the program.
Start(p) ==
  /\ At(p, "free") /\ starts < MaxStarts
  /\ Overlaps \/ Running = {}
  /\ proc' = [proc EXCEPT ![p] = [pc |-> "load", cwd |-> "here", trap |-> FALSE,
                                  quit |-> FALSE, known |-> {}, child |-> p]]
  /\ starts' = starts + 1
  /\ UNCHANGED <<state_yaml, finished, scanned, signals>>

LoadState(p) ==
  /\ At(p, "load")
  /\ proc' = [proc EXCEPT ![p].pc = IF Daemonizes THEN "fork" ELSE "serve",
                          ![p].known = state_yaml]
  /\ UNCHANGED <<state_yaml, finished, scanned, starts, signals>>
-------------------------------------------------------------------------------
(* daemonize: the first child is the daemon, its own child is what exits.    *)

Daemonize(p) ==
  /\ At(p, "fork") /\ Fork(p, "return", "second")
  /\ UNCHANGED <<state_yaml, finished, scanned, starts, signals>>

Return(p) ==
  /\ At(p, "return") /\ Exit(p)
  /\ UNCHANGED <<state_yaml, finished, scanned, starts, signals>>

ForkAgain(p) ==
  /\ At(p, "second") /\ Fork(p, "chdir", "twin")
  /\ UNCHANGED <<state_yaml, finished, scanned, starts, signals>>

\* Mutant: no exit after the second fork.
TwinGoesOn(p) ==
  /\ At(p, "twin") /\ Goto(p, "chdir")
  /\ UNCHANGED <<state_yaml, finished, scanned, starts, signals>>

ExitTwin(p) ==
  /\ At(p, "twin") /\ Exit(p)
  /\ UNCHANGED <<state_yaml, finished, scanned, starts, signals>>

ChangeDir(p) ==
  /\ At(p, "chdir")
  /\ proc' = [proc EXCEPT ![p].pc = "trap", ![p].cwd = "tmp"]
  /\ UNCHANGED <<state_yaml, finished, scanned, starts, signals>>

\* Mutant: no trap for TERM.
TrapNothing(p) ==
  /\ At(p, "trap") /\ Goto(p, "serve")
  /\ UNCHANGED <<state_yaml, finished, scanned, starts, signals>>

Trap(p) ==
  /\ At(p, "trap")
  /\ proc' = [proc EXCEPT ![p].pc = "serve", ![p].trap = TRUE]
  /\ UNCHANGED <<state_yaml, finished, scanned, starts, signals>>
-------------------------------------------------------------------------------
(* run: the loop, an encode with the process that runs its command, the save *)

Serve(p) ==
  /\ At(p, "serve") /\ Goto(p, "poll")
  /\ UNCHANGED <<state_yaml, finished, scanned, starts, signals>>

Poll(p) ==
  /\ At(p, "poll")
  /\ IF proc[p].quit
     THEN Goto(p, "save") /\ UNCHANGED scanned
     ELSE /\ Fork(p, "wait", "child")
          /\ scanned' = scanned \cup {IF Absolute THEN "here" ELSE proc[p].cwd}
  /\ UNCHANGED <<state_yaml, finished, starts, signals>>

\* system(cmd), then exit!
Command(p) ==
  /\ At(p, "child") /\ Exit(p)
  /\ UNCHANGED <<state_yaml, finished, scanned, starts, signals>>

\* Mutant: counted too late.
FinishLate(p) ==
  /\ At(p, "finish")
  /\ IF finished < MaxFinished
     THEN /\ finished' = finished + 1
          /\ proc' = [proc EXCEPT ![p].pc = "poll", ![p].known = @ \cup {finished}]
     ELSE Goto(p, "poll") /\ UNCHANGED finished
  /\ UNCHANGED <<state_yaml, scanned, starts, signals>>

\* encode_succeeded!, in the memory of this process.  At the bound, the video
\* was there.
Finish(p) ==
  /\ At(p, "finish")
  /\ IF finished < MaxFinished
     THEN /\ finished' = finished + 1
          /\ proc' = [proc EXCEPT ![p].pc = "poll", ![p].known = @ \cup {finished + 1}]
     ELSE Goto(p, "poll") /\ UNCHANGED finished
  /\ UNCHANGED <<state_yaml, scanned, starts, signals>>

SaveOpen(p) ==
  /\ At(p, "save") /\ Goto(p, "write")
  /\ state_yaml' = {}
  /\ UNCHANGED <<finished, scanned, starts, signals>>

SaveWrite(p) ==
  /\ At(p, "write") /\ Exit(p)
  /\ state_yaml' = proc[p].known
  /\ UNCHANGED <<finished, scanned, starts, signals>>

(* SIGTERM: $do_quit where it is trapped, an exception elsewhere, which run   *)
(* rescues in the loop, in a copy that runs a command as well.                *)
Term(p) ==
  /\ ~At(p, "free") /\ signals < MaxSignals
  /\ signals' = signals + 1
  /\ IF proc[p].trap THEN proc' = [proc EXCEPT ![p].quit = TRUE]
     ELSE IF proc[p].pc \in Rescued THEN Goto(p, "save")
     ELSE Exit(p)
  /\ UNCHANGED <<state_yaml, finished, scanned, starts>>
-------------------------------------------------------------------------------
Next == \E p \in Procs :
  \/ Start(p) \/ LoadState(p)
  \/ Daemonize(p) \/ Return(p) \/ ForkAgain(p) \/ ExitTwin(p) \/ ChangeDir(p) \/ Trap(p)
  \/ Serve(p) \/ Poll(p) \/ Command(p) \/ Finish(p) \/ SaveOpen(p) \/ SaveWrite(p)
  \/ Term(p)

Spec == Init /\ [][Next]_vars
-------------------------------------------------------------------------------
TypeOK == /\ proc \in [Procs -> Process \cup {Free}]
          /\ state_yaml \in SUBSET Items /\ finished \in 0..MaxFinished
          /\ scanned \in SUBSET {"here", "tmp"}
          /\ starts \in 0..MaxStarts /\ signals \in 0..MaxSignals

(* daemonize, run_external_command_fork: of all the copies that forks make,   *)
(* one at most polls, converts and keeps a finished list.                     *)
OnePolls == \A p, q \in Procs :
  proc[p].pc \in {"poll", "wait", "finish"} /\ proc[q].pc \in {"poll", "wait", "finish"} => p = q

(* load_state, the trap, save_state: whenever and however often the processes *)
(* are told to terminate, once none is left the state file has every item     *)
(* that any of them finished.                                                 *)
HistoryComplete == Running = {} => state_yaml = 1..finished

(* README:8-10: in the background it converts the library it was pointed at:  *)
(* "." is the directory in which it was started.                              *)
LibraryMeant == scanned \subseteq {"here"}
===============================================================================
