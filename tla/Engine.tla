-------------------------------- MODULE Engine --------------------------------
(***************************************************************************)
(* An encoding run of lib/engine.rb (Engine#do_encode) against the file    *)
(* system and the ffmpeg processes it starts through lib/platform.rb.      *)
(*                                                                         *)
(* Several instances of the program may share a library and a target       *)
(* directory (a cron job that overlaps the previous one).  An instance     *)
(* works through the videos it found, one at a time; for each it looks at  *)
(* the target file, may start ffmpeg and waits for it.  ffmpeg opens the   *)
(* target, writes it and exits, or dies on the way.  Users add videos to   *)
(* the library, downloads grow there, and target files may be deleted.     *)
(***************************************************************************)
EXTENDS Naturals, Sequences, FiniteSets

CONSTANTS Instances,   \* running copies of the program
          Children,    \* process slots: bounds the processes alive at once
          Videos,      \* files of the library that Yikes can convert
          Targets,     \* files of the target directory
          TargetOf,    \* [Videos -> Targets], EncodingItem#target_path
          Failures,    \* the ways in which an encode may fail, see below
          Grows,       \* may a video be seen while it is still downloaded?
          Deletes,     \* may videos and target files be deleted?
          MaxKills,    \* how often an instance may be killed
          Nobody       \* the parent of an orphan

\* "mkdir": a directory for the target or the screenshots cannot be made;
\* "input": ffmpeg cannot read the video; "codec": it gives up with the target opened and empty; "write":
\* it stops with the target half written; "interrupt": the signal that kills
\* an instance reaches its ffmpeg too (Ctrl-C in a terminal).
FailureKinds == {"mkdir", "input", "codec", "write", "interrupt"}

ASSUME InstancesAssumption == IsFiniteSet(Instances)
ASSUME VideosAssumption == IsFiniteSet(Videos)
ASSUME TargetAssumption == TargetOf \in [Videos -> Targets]
ASSUME FailureAssumption == Failures \subseteq FailureKinds
ASSUME SwitchAssumption == Grows \in BOOLEAN /\ Deletes \in BOOLEAN /\ MaxKills \in Nat
ASSUME NobodyAssumption == Nobody \notin Instances
ASSUME SlotAssumption == Cardinality(Children) >= Cardinality(Instances) + MaxKills

VARIABLES
  library,    \* each video: "absent", "growing" or "whole"
  target,     \* each target file: "absent", or what it holds
  source,     \* the videos whose data is in a target file
  pc,         \* where each instance is in its run
  batch,      \* the items it dequeued; the first one is being handled
  succeeded,  \* videos passed to encode_succeeded! in this run
  already,    \* history: videos whose target was there when the run began
  child,      \* the processes started by the instances
  kills       \* how often an instance was killed

fileVars == <<library, target, source>>
runVars  == <<batch, succeeded, already>>
vars == <<fileVars, pc, runVars, child, kills>>

\* A target file is "tiny" up to 256 bytes, "half" while it has no index,
\* "short" when it is a good file made from a part of the video.
FileStates == {"absent", "tiny", "half", "short", "whole"}
Playable == {"short", "whole"}

Free == [stage |-> "free"]
Stages == {"started", "opened", "writing", "stopping", "unlinked"}
Process == [stage: Stages, cmd: {"transcode", "screenshot"},
            video: Videos, parent: Instances \cup {Nobody}]

Labels == {"idle", "next", "size", "mkdir", "transcode", "fork", "wait",
           "screenshot", "waitshot", "report"}

Item(y) == Head(batch[y])
File(v) == target[TargetOf[v]]
Goto(y, from, to) == pc[y] = from /\ pc' = [pc EXCEPT ![y] = to]
Orders(S) == {s \in [1..Cardinality(S) -> S] : \A v \in S : \E i \in DOMAIN s : s[i] = v}

\* The slots of the processes that are alive.
Busy == {c \in Children : child[c] # Free}

\* A target file open for writing by process c.
Writes(c, t) == /\ child[c].stage \in {"opened", "writing", "stopping"}
                /\ TargetOf[child[c].video] = t

Init ==
  /\ library \in [Videos -> {"absent", "whole"}]
  /\ target = [t \in Targets |-> "absent"]
  /\ source = [t \in Targets |-> {}]
  /\ pc = [y \in Instances |-> "idle"]
  /\ batch = [y \in Instances |-> <<>>]
  /\ succeeded = [y \in Instances |-> {}]
  /\ already = [y \in Instances |-> {}]
  /\ child = [c \in Children |-> Free]
  /\ kills = 0
-------------------------------------------------------------------------------
(* do_encode: collect the videos that are there, then handle them in turn.  *)
(* The run begins whenever the poll loop or cron says so.                   *)
Collect(y) ==
  LET found == {v \in Videos : library[v] # "absent"}
  IN /\ Goto(y, "idle", "next")
     /\ \E order \in Orders(found) : batch' = [batch EXCEPT ![y] = order]
     /\ succeeded' = [succeeded EXCEPT ![y] = {}]
     /\ already' = [already EXCEPT ![y] =
                      {v \in found : File(v) \notin {"absent", "tiny"}}]
     /\ UNCHANGED <<fileVars, child, kills>>

Finished(y) ==
  /\ batch[y] = <<>>
  /\ Goto(y, "next", "idle")
  /\ UNCHANGED <<fileVars, runVars, child, kills>>

\* Mutant: the first question of should_encode? the other way round.
ShouldEncodeInverted(y) ==
  /\ pc[y] = "next" /\ batch[y] # <<>>
  /\ pc' = [pc EXCEPT ![y] = IF File(Item(y)) # "absent" THEN "mkdir" ELSE "size"]
  /\ UNCHANGED <<fileVars, runVars, child, kills>>

\* should_encode?, first question: p.exist?
ShouldEncode(y) ==
  /\ pc[y] = "next" /\ batch[y] # <<>>
  /\ pc' = [pc EXCEPT ![y] = IF File(Item(y)) = "absent" THEN "mkdir" ELSE "size"]
  /\ UNCHANGED <<fileVars, runVars, child, kills>>

Skip(y) == batch' = [batch EXCEPT ![y] = Tail(@)]

\* An exception leaves do_encode, and with it the rest of the batch.
Raise(y) == /\ pc' = [pc EXCEPT ![y] = "idle"]
            /\ batch' = [batch EXCEPT ![y] = <<>>]

\* Mutant: a size of the target that is too large to be that of a leftover.
CheckSizeHigh(y) ==
  /\ pc[y] = "size"
  /\ \/ File(Item(y)) = "absent" /\ Raise(y)
     \/ File(Item(y)) \in {"tiny", "half"} /\ Goto(y, "size", "mkdir") /\ UNCHANGED batch
     \/ File(Item(y)) \in Playable /\ Goto(y, "size", "next") /\ Skip(y)
  /\ UNCHANGED <<fileVars, succeeded, already, child, kills>>

\* Mutant: redo instead of next.
CheckSizeRedo(y) ==
  /\ pc[y] = "size"
  /\ \/ File(Item(y)) = "absent" /\ Raise(y)
     \/ File(Item(y)) = "tiny" /\ Goto(y, "size", "mkdir") /\ UNCHANGED batch
     \/ File(Item(y)) \notin {"absent", "tiny"} /\ Goto(y, "size", "next") /\ UNCHANGED batch
  /\ UNCHANGED <<fileVars, succeeded, already, child, kills>>

\* should_encode?, second question: p.size <= 256.  Raises ENOENT when the
\* file went away after the first.
CheckSize(y) ==
  /\ pc[y] = "size"
  /\ \/ File(Item(y)) = "absent" /\ Raise(y)
     \/ File(Item(y)) = "tiny" /\ Goto(y, "size", "mkdir") /\ UNCHANGED batch
     \/ File(Item(y)) \notin {"absent", "tiny"} /\ Goto(y, "size", "next") /\ Skip(y)
  /\ UNCHANGED <<fileVars, succeeded, already, child, kills>>

\* create_path_and_convert: FileUtils.mkdir_p
MakePath(y) ==
  /\ \/ Goto(y, "mkdir", "transcode") /\ UNCHANGED batch
     \/ pc[y] = "mkdir" /\ "mkdir" \in Failures /\ Raise(y)
  /\ UNCHANGED <<fileVars, succeeded, already, child, kills>>

\* Mutant: ffmpeg starts whatever is there.
TranscodeBlind(y) ==
  /\ Goto(y, "transcode", "fork")
  /\ UNCHANGED <<fileVars, runVars, child, kills>>

\* transcode: a file that exists, whatever its size, counts as transcoded.
Transcode(y) ==
  /\ pc[y] = "transcode"
  /\ pc' = [pc EXCEPT ![y] = IF File(Item(y)) = "absent" THEN "fork" ELSE "screenshot"]
  /\ UNCHANGED <<fileVars, runVars, child, kills>>

\* run_external_command: fork a process for the command ...
Spawn(y, from, to, cmd) ==
  /\ Goto(y, from, to)
  /\ \E c \in Children :
       /\ child[c] = Free
       /\ child' = [child EXCEPT ![c] = [stage |-> "started", cmd |-> cmd,
                                         video |-> Item(y), parent |-> y]]
  /\ UNCHANGED <<fileVars, runVars, kills>>

\* ... wait for it, and answer true whatever its exit code was.
Reap(y, from, to, cmd) ==
  /\ Goto(y, from, to)
  /\ ~ \E c \in Busy : child[c].parent = y /\ child[c].cmd = cmd
  /\ UNCHANGED <<fileVars, runVars, child, kills>>

RunTranscoder(y)     == Spawn(y, "fork", "wait", "transcode")

\* Mutant: the child is detached, nobody waits for it.
TranscoderDetached(y) ==
  /\ Goto(y, "wait", "screenshot")
  /\ UNCHANGED <<fileVars, runVars, child, kills>>

TranscoderReturns(y) == Reap(y, "wait", "screenshot", "transcode")

\* screenshot_path: the encode is done, the directory for its preview cannot be
\* made, and the exception leaves it unreported.
NoScreenshotDir(y) ==
  /\ pc[y] = "screenshot" /\ "mkdir" \in Failures
  /\ Raise(y)
  /\ UNCHANGED <<fileVars, succeeded, already, child, kills>>

GetScreenshot(y)     == Spawn(y, "screenshot", "waitshot", "screenshot")
ScreenshotReturns(y) == Reap(y, "waitshot", "report", "screenshot")

\* convert_file: encode_succeeded!, since transcode never answers false.
Report(y) ==
  /\ Goto(y, "report", "next")
  /\ succeeded' = [succeeded EXCEPT ![y] = @ \cup {Item(y)}]
  /\ Skip(y)
  /\ UNCHANGED <<fileVars, already, child, kills>>

(* The instance dies and its child does not: it becomes an orphan.  When the *)
(* signal reaches ffmpeg as well, it dies too, or, once it has installed its *)
(* handlers, it leaves its loop and closes the target in an orderly way.     *)
Signalled(p) == CASE p.stage = "writing" -> [p EXCEPT !.stage = "stopping"]
                  [] p.stage \in {"started", "opened"} -> Free
                  [] OTHER -> p

Kill(y) ==
  /\ pc[y] # "idle" /\ kills < MaxKills
  /\ kills' = kills + 1
  /\ Raise(y)
  /\ \E interrupt \in {FALSE, "interrupt" \in Failures} :
       child' = [c \in Children |->
                  IF c \notin Busy \/ child[c].parent # y THEN child[c]
                  ELSE LET orphan == [child[c] EXCEPT !.parent = Nobody]
                       IN IF interrupt THEN Signalled(orphan) ELSE orphan]
  /\ UNCHANGED <<fileVars, succeeded, already>>
-------------------------------------------------------------------------------
(* ffmpeg -i video -y ... target.  The exit code is not modelled: nobody     *)
(* looks at it.                                                              *)
Exit(c) == child' = [child EXCEPT ![c] = Free]

FFInputFails(c) ==
  /\ child[c].stage = "started" /\ child[c].cmd = "transcode"
  /\ "input" \in Failures \/ library[child[c].video] = "absent"
  /\ Exit(c)
  /\ UNCHANGED <<fileVars, pc, runVars, kills>>

\* -y: the target is opened and truncated even if it is there by now.
FFOpenOutput(c) ==
  LET v == child[c].video
      t == TargetOf[v]
      others == {d \in Busy \ {c} : Writes(d, t)}
  IN /\ child[c].stage = "started" /\ child[c].cmd = "transcode"
     /\ library[v] # "absent"
     /\ child' = [child EXCEPT ![c].stage = "opened"]
     /\ target' = [target EXCEPT ![t] = "tiny"]
     /\ source' = [source EXCEPT ![t] = {v} \cup {child[d].video : d \in others}]
     /\ UNCHANGED <<library, pc, runVars, kills>>

\* A codec that is missing or cannot be opened, a header that cannot be written.
FFCodecFails(c) ==
  /\ child[c].stage = "opened" /\ "codec" \in Failures
  /\ Exit(c)
  /\ UNCHANGED <<fileVars, pc, runVars, kills>>

FFEncode(c) ==
  /\ child[c].stage = "opened"
  /\ child' = [child EXCEPT ![c].stage = "writing"]
  /\ target' = [target EXCEPT ![TargetOf[child[c].video]] = "half"]
  /\ UNCHANGED <<library, source, pc, runVars, kills>>

FFWriteFails(c) ==
  /\ child[c].stage = "writing" /\ "write" \in Failures
  /\ Exit(c)
  /\ UNCHANGED <<fileVars, pc, runVars, kills>>

(* The trailer makes the file playable, unless videos got mixed in it, or     *)
(* another process still writes there.  Two encodes of one video are assumed  *)
(* to write the same bytes (one command, one input, no clock in the output),  *)
(* so that the last of them leaves the file whole; the gap that is left when  *)
(* one of them gives up is left out.  What ffmpeg read of the video ends      *)
(* where the download was at that time.                                       *)
Results(c) ==
  LET v == child[c].video
      t == TargetOf[v]
  IN IF source[t] # {v} \/ \E d \in Busy \ {c} : Writes(d, t) THEN {"half"}
     ELSE IF child[c].stage = "stopping" \/ library[v] = "growing" THEN {"short"}
     ELSE IF library[v] = "whole" THEN {"whole"}
     ELSE Playable

\* Mutant: the child goes down with the pipes of its parent.
FFFinishAsChild(c) ==
  /\ child[c].stage \in {"writing", "stopping"}
  /\ \E result \in IF child[c].parent = Nobody THEN {"half"} ELSE Results(c) :
       target' = [target EXCEPT ![TargetOf[child[c].video]] = result]
  /\ Exit(c)
  /\ UNCHANGED <<library, source, pc, runVars, kills>>

\* Mutant: the process that is done stays in the table.
FFFinishZombie(c) ==
  /\ child[c].stage \in {"writing", "stopping"}
  /\ \E result \in Results(c) :
       target' = [target EXCEPT ![TargetOf[child[c].video]] = result]
  /\ child' = [child EXCEPT ![c].stage = "zombie"]
  /\ UNCHANGED <<library, source, pc, runVars, kills>>

FFFinish(c) ==
  /\ child[c].stage \in {"writing", "stopping"}
  /\ \E result \in Results(c) :
       target' = [target EXCEPT ![TargetOf[child[c].video]] = result]
  /\ Exit(c)
  /\ UNCHANGED <<library, source, pc, runVars, kills>>

\* A screenshot, or an encode whose target was deleted under it.
FFExit(c) ==
  /\ \/ child[c].stage = "started" /\ child[c].cmd = "screenshot"
     \/ child[c].stage = "unlinked"
  /\ Exit(c)
  /\ UNCHANGED <<fileVars, pc, runVars, kills>>
-------------------------------------------------------------------------------
(* The users of the two directories.  Files are deleted only when whole.     *)
Arrive(v) ==
  /\ library[v] = "absent"
  /\ library' = [library EXCEPT ![v] = IF Grows THEN "growing" ELSE "whole"]
  /\ UNCHANGED <<target, source, pc, runVars, child, kills>>

Complete(v) ==
  /\ library[v] = "growing"
  /\ library' = [library EXCEPT ![v] = "whole"]
  /\ UNCHANGED <<target, source, pc, runVars, child, kills>>

RemoveVideo(v) ==
  /\ Deletes /\ library[v] = "whole"
  /\ library' = [library EXCEPT ![v] = "absent"]
  /\ UNCHANGED <<target, source, pc, runVars, child, kills>>

DeleteTarget(t) ==
  /\ Deletes /\ target[t] # "absent"
  /\ target' = [target EXCEPT ![t] = "absent"]
  /\ source' = [source EXCEPT ![t] = {}]
  /\ child' = [c \in Children |-> IF c \in Busy /\ Writes(c, t)
                                  THEN [child[c] EXCEPT !.stage = "unlinked"]
                                  ELSE child[c]]
  /\ already' = [y \in Instances |-> {v \in already[y] : TargetOf[v] # t}]
  /\ UNCHANGED <<library, pc, batch, succeeded, kills>>
-------------------------------------------------------------------------------
RunStep(y) ==
  \/ Finished(y) \/ ShouldEncode(y) \/ CheckSize(y) \/ MakePath(y) \/ Transcode(y)
  \/ RunTranscoder(y) \/ TranscoderReturns(y) \/ NoScreenshotDir(y) \/ GetScreenshot(y)
  \/ ScreenshotReturns(y) \/ Report(y)

FFStep(c) ==
  \/ FFInputFails(c) \/ FFOpenOutput(c) \/ FFCodecFails(c) \/ FFEncode(c)
  \/ FFWriteFails(c) \/ FFFinish(c) \/ FFExit(c)

User == \/ \E v \in Videos : Arrive(v) \/ Complete(v) \/ RemoveVideo(v)
        \/ \E t \in Targets : DeleteTarget(t)

Next == \/ \E y \in Instances : Collect(y) \/ RunStep(y) \/ Kill(y)
        \/ \E c \in Children : FFStep(c)
        \/ User

Spec == Init /\ [][Next]_vars

(* Runs begin again and again (the poll loop, cron), a run goes on as long as *)
(* it can, an ffmpeg that has work finishes it, a download completes.  A      *)
(* failure need not be permanent: when directories are asked for again and    *)
(* again some are made, and of encodes tried again and again some get past    *)
(* each step.                                                                 *)
Fairness ==
  /\ \A y \in Instances : WF_vars(Collect(y)) /\ WF_vars(RunStep(y))
  /\ \A c \in Children : WF_vars(FFStep(c))
  /\ \A v \in Videos : WF_vars(Complete(v))
  /\ SF_vars(\E y \in Instances : MakePath(y) /\ pc'[y] = "transcode")
  /\ SF_vars(\E c \in Children : FFOpenOutput(c))
  /\ SF_vars(\E c \in Children : FFEncode(c))
  /\ SF_vars(\E c \in Children : FFFinish(c))

FairSpec == Spec /\ Fairness
-------------------------------------------------------------------------------
TypeOK ==
  /\ library \in [Videos -> {"absent", "growing", "whole"}]
  /\ target \in [Targets -> FileStates]
  /\ source \in [Targets -> SUBSET Videos]
  /\ pc \in [Instances -> Labels]
  /\ batch \in [Instances -> Seq(Videos)]
  /\ succeeded \in [Instances -> SUBSET Videos]
  /\ already \in [Instances -> SUBSET Videos]
  /\ child \in [Children -> Process \cup {Free}]
  /\ kills \in 0..MaxKills

(* transcode asks whether the target is there and only then forks: no two    *)
(* processes ever write one target file.  (One instance, never killed.)      *)
OneWriter ==
  \A t \in Targets, c, d \in Busy : Writes(c, t) /\ Writes(d, t) => c = d

(* run_external_command waits for its child before it answers: however       *)
(* programs overlap and get killed, the processes alive are at most one for  *)
(* each program, and an orphan for each kill.                                *)
ProcessesBounded == Cardinality(Busy) <= Cardinality(Instances) + kills

(* should_encode? and transcode in front of ffmpeg -y: a target file that    *)
(* can be played is never written again, whatever happens to its video; it   *)
(* only goes away when somebody deletes it.                                  *)
FinishedVideoKept ==
  [][\A t \in Targets : target[t] \in Playable => target'[t] \in {target[t], "absent"}]_vars

(* README: "It skips videos that are already there".  A video whose target   *)
(* was there, and was not tiny, when the run began is not encoded in the run *)
(* nor reported as encoded by it.                                            *)
SkipsExisting ==
  \A y \in Instances :
    /\ succeeded[y] \cap already[y] = {}
    /\ pc[y] \notin {"idle", "next", "size"} => Item(y) \notin already[y]

(* encode_succeeded!: what is reported as encoded is there and plays, until  *)
(* the run ends, unless somebody deletes it.                                 *)
SucceededMeansVideo ==
  \A y \in Instances : \A v \in succeeded[y] : File(v) \in Playable

(* run_external_command waits without a timeout and do_encode goes through a *)
(* batch that is fixed when it starts: every run comes to its end.           *)
RunEnds == \A y \in Instances : pc[y] # "idle" ~> pc[y] = "idle"

Converted(v) == File(v) = "whole" /\ source[TargetOf[v]] = {v}

(* README: Yikes "recreates the same library".  Every whole video of the     *)
(* library gets its whole target file in the end, for good.                  *)
EveryVideoConverted == \A v \in Videos : library[v] = "whole" ~> []Converted(v)

\* How the target directory looks to a user who knows what is being encoded.
FilesThere == {t \in Targets : target[t] # "absent"}
FinishedIn == [t \in Targets |-> IF target[t] \in Playable THEN source[t] ELSE {}]
BeingEncoded == {child[c].video : c \in {d \in Busy : \E t \in Targets : Writes(d, t)}}

Directory == INSTANCE TargetDirectory
               WITH files <- FilesThere, finished <- FinishedIn, encoding <- BeingEncoded

(* do_encode looks at the target twice, forks and waits, and ffmpeg opens the *)
(* target later.  For one instance that is not killed this is as if each      *)
(* encode began in one step with a target that is not there: the directory    *)
(* is that of TargetDirectory.                                                *)
DirectorySpec == Directory!Spec
===============================================================================
