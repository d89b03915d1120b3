-------------------------------- MODULE Daemon --------------------------------
(***************************************************************************)
(* Yikes in the background (lib/main.rb run, lib/engine.rb EngineManager): *)
(* the poll loop over the engines, the web thread beside it, the state     *)
(* file that outlives the process, and the ways the process can end: a     *)
(* request to quit, an exception (of an encode, or carried over from the   *)
(* web thread by abort_on_exception), a kill.                              *)
(*                                                                         *)
(* An encode is one step here, and may fail: it leaves a target, a tiny    *)
(* one or none.  How it comes to that is in Engine, what State does under  *)
(* its mutexes in ApplicationState.                                        *)
(***************************************************************************)
EXTENDS Naturals, SequencesExt, FiniteSets

CONSTANTS Keys,                 \* library/target pairs, the keys of @engines
          Videos,
          KeyOf,                \* [Videos -> Keys]: the library a video is in
          ItemsInFinishedList,  \* 30 in the program
          Raises,               \* may exceptions reach the main thread?
          MaxCrashes,           \* how often the process dies without saving
          MaxStarts             \* how often it is started

ASSUME VideosAssumption == IsFiniteSet(Videos)
ASSUME KeyAssumption == KeyOf \in [Videos -> Keys]
ASSUME LimitAssumption == ItemsInFinishedList \in Nat
ASSUME SwitchAssumption == Raises \in BOOLEAN /\ MaxCrashes \in Nat /\ MaxStarts \in Nat

VARIABLES
  main,      \* where the main thread is
  key,       \* the engine it is at; first the one of the command line
  todo,      \* engines that each_pair has not come to yet
  batch,     \* items that do_encode dequeued
  engines,   \* @engines: each key's queue and finished list
  do_quit,   \* $do_quit
  web,       \* is the web thread alive?
  state_yaml,\* what loading the state file would give
  library,   \* videos there to be converted
  target,    \* the target file of each video
  finished,  \* history: per key, the last videos finished, save those a kill took
  saved,     \* history: what finished was at the last save
  cut,       \* history: did a kill fall within a save?
  crashes, starts

procVars == <<key, todo, batch>>
diskVars == <<state_yaml, library, target>>
histVars == <<finished, saved, cut>>
boundVars == <<crashes, starts>>
vars == <<main, procVars, engines, do_quit, web, diskVars, histVars, boundVars>>

\* A hash without entries; also what an absent, empty or unreadable file loads as.
NoEngines == [k \in {} |-> k]
\* whole: has it all that do_encode needs?  A State read from a cut file may
\* lack its mutexes, and its Engine the State.
State == [queue: Seq(Videos), encoded: Seq(Videos), whole: BOOLEAN]
NewState == [queue |-> <<>>, encoded |-> <<>>, whole |-> TRUE]

Files == {"absent", "tiny", "there"}    \* tiny: of at most 256 bytes

\* In the poll loop, where run rescues every exception and goes on to save.
Polling == {"poll", "each", "dequeue", "encode", "transcode", "append", "trim", "sleep"}
Labels == Polling \cup {"down", "load", "add", "save", "write", "exit"}

LastOf(s, n) == IF Len(s) <= n THEN s ELSE SubSeq(s, Len(s) - n + 1, Len(s))
Goto(from, to) == main = from /\ main' = to
Video == Head(batch)

Init ==
  /\ main = "down" /\ key \in Keys /\ todo = {} /\ batch = <<>>
  /\ engines = NoEngines /\ do_quit = FALSE /\ web = FALSE
  /\ state_yaml = NoEngines /\ library = {} /\ target = [v \in Videos |-> "absent"]
  /\ finished = [k \in Keys |-> <<>>] /\ saved = finished /\ cut = FALSE
  /\ crashes = 0 /\ starts = 0
-------------------------------------------------------------------------------
(* run: start, load_state, add_engine, then the web thread and the loop      *)

Start(k) ==
  /\ starts < MaxStarts
  /\ Goto("down", "load")
  /\ starts' = starts + 1 /\ key' = k /\ do_quit' = FALSE
  /\ UNCHANGED <<todo, batch, engines, web, diskVars, histVars, crashes>>

LoadState ==
  /\ Goto("load", "add")
  /\ engines' = state_yaml
  /\ UNCHANGED <<procVars, do_quit, web, diskVars, histVars, boundVars>>

\* Mutant: = instead of ||=.
AddEngineAnew ==
  /\ Goto("add", "poll")
  /\ engines' = [k \in DOMAIN engines \cup {key} |->
                  IF k # key THEN engines[k] ELSE NewState]
  /\ web' = TRUE
  /\ UNCHANGED <<procVars, do_quit, diskVars, histVars, boundVars>>

\* ||= : the engine that was loaded for this key stays.
AddEngine ==
  /\ Goto("add", "poll")
  /\ engines' = [k \in DOMAIN engines \cup {key} |->
                  IF k \in DOMAIN engines THEN engines[k] ELSE NewState]
  /\ web' = TRUE
  /\ UNCHANGED <<procVars, do_quit, diskVars, histVars, boundVars>>

\* Mutant: loop do instead of until $do_quit.
PollForever ==
  /\ Goto("poll", "each") /\ todo' = DOMAIN engines
  /\ UNCHANGED <<key, batch, engines, do_quit, web, diskVars, histVars, boundVars>>

\* Mutant: only the engine it was at last.
PollOne ==
  /\ IF do_quit THEN Goto("poll", "save") /\ UNCHANGED todo
                ELSE Goto("poll", "each") /\ todo' = {key}
  /\ UNCHANGED <<key, batch, engines, do_quit, web, diskVars, histVars, boundVars>>

(* poll_directory_and_encode: $do_quit is read before each round and before  *)
(* each engine, not within a run nor in the sleep.                           *)
Poll ==
  /\ IF do_quit THEN Goto("poll", "save") /\ UNCHANGED todo
                ELSE Goto("poll", "each") /\ todo' = DOMAIN engines
  /\ UNCHANGED <<key, batch, engines, do_quit, web, diskVars, histVars, boundVars>>

LastEngine ==
  /\ todo = {} \/ do_quit
  /\ Goto("each", "poll")
  /\ UNCHANGED <<procVars, engines, do_quit, web, diskVars, histVars, boundVars>>

\* Mutant: the library itself gets queued.
NextEngineItself(k) ==
  /\ k \in todo /\ ~do_quit /\ engines[k].whole
  /\ Goto("each", "dequeue")
  /\ key' = k /\ todo' = todo \ {k}
  /\ engines' = [engines EXCEPT ![k].queue = Append(@, k)]
  /\ UNCHANGED <<batch, do_quit, web, diskVars, histVars, boundVars>>

\* do_encode, enqueue_files_to_encode: every video of the library is queued,
\* behind what an exception may have left there.
NextEngine(k) ==
  /\ k \in todo /\ ~do_quit /\ engines[k].whole
  /\ Goto("each", "dequeue")
  /\ key' = k /\ todo' = todo \ {k}
  /\ \E fl \in SetToSeqs({v \in library : KeyOf[v] = k}) :
       engines' = [engines EXCEPT ![k].queue = @ \o fl]
  /\ UNCHANGED <<batch, do_quit, web, diskVars, histVars, boundVars>>

\* The engine has no State, or a State no mutex: add_to_queue raises.
NoState(k) ==
  /\ k \in todo /\ ~do_quit /\ ~engines[k].whole
  /\ Goto("each", "save")
  /\ batch' = <<>> /\ todo' = {}
  /\ UNCHANGED <<key, engines, do_quit, web, diskVars, histVars, boundVars>>

Dequeue ==
  /\ Goto("dequeue", "encode")
  /\ batch' = engines[key].queue
  /\ engines' = [engines EXCEPT ![key].queue = <<>>]
  /\ UNCHANGED <<key, todo, do_quit, web, diskVars, histVars, boundVars>>

\* should_encode?: the target is there, with more than 256 bytes.
Skip ==
  /\ main = "encode" /\ batch # <<>> /\ target[Video] = "there"
  /\ batch' = Tail(batch)
  /\ UNCHANGED <<main, key, todo, engines, do_quit, web, diskVars, histVars, boundVars>>

Convert ==
  /\ batch # <<>> /\ target[Video] # "there"
  /\ Goto("encode", "transcode")
  /\ UNCHANGED <<procVars, engines, do_quit, web, diskVars, histVars, boundVars>>

\* transcode leaves a target that exists, tiny or not; ffmpeg may make one or fail.
Encode ==
  IF target[Video] = "absent" THEN \E f \in Files : target' = [target EXCEPT ![Video] = f]
                              ELSE UNCHANGED target

\* The exit code is dropped: the video is reported as encoded in any case.
Transcoded ==
  /\ Goto("transcode", "append")
  /\ Encode
  /\ UNCHANGED <<procVars, engines, do_quit, web, state_yaml, library, histVars, boundVars>>

FinishAppend ==
  /\ Goto("append", "trim")
  /\ engines' = [engines EXCEPT ![key].encoded = Append(@, Video)]
  /\ finished' = [finished EXCEPT ![key] = LastOf(Append(@, Video), ItemsInFinishedList)]
  /\ UNCHANGED <<procVars, do_quit, web, diskVars, saved, cut, boundVars>>

FinishTrim ==
  /\ Goto("trim", "encode")
  /\ engines' = [engines EXCEPT ![key].encoded = LastOf(@, ItemsInFinishedList)]
  /\ batch' = Tail(batch)
  /\ UNCHANGED <<key, todo, do_quit, web, diskVars, histVars, boundVars>>

Sleep ==
  /\ batch = <<>>
  /\ Goto("encode", "sleep")
  /\ UNCHANGED <<procVars, engines, do_quit, web, diskVars, histVars, boundVars>>

Wake ==
  /\ Goto("sleep", "each")
  /\ UNCHANGED <<procVars, engines, do_quit, web, diskVars, histVars, boundVars>>
-------------------------------------------------------------------------------
(* save_state: opening the file for writing empties it, the dump follows.    *)

SaveOpen ==
  /\ Goto("save", "write")
  /\ state_yaml' = NoEngines
  /\ UNCHANGED <<procVars, engines, do_quit, web, library, target, histVars, boundVars>>

SaveWrite ==
  /\ Goto("write", "exit")
  /\ state_yaml' = engines
  /\ saved' = finished
  /\ UNCHANGED <<procVars, engines, do_quit, web, library, target, finished, cut, boundVars>>

\* The memory of the process is gone.
Vanish == /\ main' = "down" /\ web' = FALSE /\ do_quit' = FALSE
          /\ engines' = NoEngines /\ batch' = <<>> /\ todo' = {}
          /\ UNCHANGED key

Exit ==
  /\ main = "exit"
  /\ Vanish
  /\ UNCHANGED <<diskVars, histVars, boundVars>>
-------------------------------------------------------------------------------
(* The other actors: whoever asks to quit (/quit, SIGTERM), the web thread,  *)
(* kill, and the users who add videos and delete targets.                    *)

Quit ==
  /\ web /\ ~do_quit
  /\ do_quit' = TRUE
  /\ UNCHANGED <<main, procVars, engines, web, diskVars, histVars, boundVars>>

\* An ffmpeg that runs when its parent goes away may still finish.
Orphan == IF main = "transcode" THEN Encode ELSE UNCHANGED target

\* An exception of do_encode itself (mkdir_p, a file that went away), or one
\* that ended the web thread and that abort_on_exception raises here.
Rescue ==
  /\ Raises /\ main \in Polling
  /\ main' = "save" /\ batch' = <<>> /\ todo' = {}
  /\ web' \in {web, FALSE}
  /\ Orphan
  /\ UNCHANGED <<key, engines, do_quit, state_yaml, library, histVars, boundVars>>

\* A dump of which a part is written loads with engines missing, and the last
\* one with its lists cut or without what do_encode needs.
CutDump ==
  \E K \in SUBSET DOMAIN engines, last \in DOMAIN engines, w \in BOOLEAN :
    \E q \in Prefixes(engines[last].queue), e \in Prefixes(engines[last].encoded) :
      state_yaml' = [k \in K |-> IF k = last THEN [queue |-> q, encoded |-> e,
                                                   whole |-> w /\ engines[k].whole]
                                             ELSE engines[k]]

\* A kill at any time, or an exception when nothing rescues it any more.
Crash ==
  /\ main # "down" /\ crashes < MaxCrashes
  /\ crashes' = crashes + 1
  /\ Orphan
  /\ \/ UNCHANGED state_yaml
     \/ main = "write" /\ CutDump
  /\ finished' = saved /\ cut' = (cut \/ main = "write")
  /\ Vanish
  /\ UNCHANGED <<library, saved, starts>>

Arrive(v) ==
  /\ v \notin library
  /\ library' = library \cup {v}
  /\ UNCHANGED <<main, procVars, engines, do_quit, web, state_yaml, target, histVars, boundVars>>

DeleteTarget(v) ==
  /\ target[v] # "absent"
  /\ target' = [target EXCEPT ![v] = "absent"]
  /\ UNCHANGED <<main, procVars, engines, do_quit, web, state_yaml, library, histVars, boundVars>>
-------------------------------------------------------------------------------
MainStep ==
  \/ LoadState \/ AddEngine
  \/ Poll \/ LastEngine \/ (\E k \in Keys : NextEngine(k) \/ NoState(k)) \/ Dequeue
  \/ Skip \/ Convert \/ Transcoded \/ FinishAppend \/ FinishTrim \/ Sleep \/ Wake
  \/ SaveOpen \/ SaveWrite \/ Exit

Next == \/ MainStep
        \/ \E k \in Keys : Start(k)
        \/ Quit \/ Rescue \/ Crash
        \/ \E v \in Videos : Arrive(v) \/ DeleteTarget(v)

Spec == Init /\ [][Next]_vars

(* The main thread goes on: ffmpeg comes back, the sleep ends.  Nobody has to *)
(* start the program, to quit it or to break it.                              *)
FairSpec == Spec /\ WF_vars(MainStep)
-------------------------------------------------------------------------------
TypeOK ==
  /\ main \in Labels /\ key \in Keys /\ todo \in SUBSET Keys /\ batch \in Seq(Videos)
  /\ DOMAIN engines \subseteq Keys /\ \A k \in DOMAIN engines : engines[k] \in State
  /\ do_quit \in BOOLEAN /\ web \in BOOLEAN
  /\ DOMAIN state_yaml \subseteq Keys /\ \A k \in DOMAIN state_yaml : state_yaml[k] \in State
  /\ library \in SUBSET Videos /\ target \in [Videos -> Files]
  /\ finished \in [Keys -> Seq(Videos)] /\ saved \in [Keys -> Seq(Videos)] /\ cut \in BOOLEAN
  /\ crashes \in 0..MaxCrashes /\ starts \in 0..MaxStarts

\* What is to be seen in a list: its last items, also while it has one more.
Shown(e, k) == IF k \in DOMAIN e THEN LastOf(e[k].encoded, ItemsInFinishedList) ELSE <<>>

(* load_state, add_engine, save_state: however often the program is stopped   *)
(* by a request or by an exception in its loop, between append and trim too,  *)
(* or killed, and started again for this or another library, each list ends   *)
(* with the last ItemsInFinishedList items finished for its library, in       *)
(* order, those apart that were not yet saved when it was killed.  Only a     *)
(* kill while save_state writes the file breaks this.                         *)
HistoryKept == main \in Polling /\ ~cut => \A k \in Keys : Shown(engines, k) = finished[k]

(* $do_quit is read between two engines and after each sleep: the process     *)
(* that was asked to quit ends, whatever its videos, its engines and the web  *)
(* thread do in the meantime.                                                 *)
QuitStops == do_quit ~> main = "down"

(* poll_directory_and_encode goes round all engines, those of the state file  *)
(* included: each video of any of them gets its turn, whatever became of the  *)
(* encodes before, unless the loop is left.                                   *)
EveryEngineServed ==
  \A v \in Videos :
    main \in Polling /\ v \in library /\ KeyOf[v] \in DOMAIN engines
      ~> \/ main = "encode" /\ batch # <<>> /\ Video = v
         \/ main \notin Polling
===============================================================================
