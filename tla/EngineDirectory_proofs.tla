------------------------- MODULE EngineDirectory_proofs -------------------------
(***************************************************************************)
(* A program that runs alone implements TargetDirectory, for any videos,   *)
(* targets, failures and users: the look at the target, the fork and the   *)
(* opening of the target by ffmpeg amount to one step.                     *)
(***************************************************************************)
EXTENDS Engine_proofs

\* Processes that write a target.
Writing == {"opened", "writing", "stopping"}

(* A process that writes has opened its target itself, for its video alone. *)
OwnSource ==
  \A c \in Busy : child[c].stage \in Writing =>
    source[TargetOf[child[c].video]] = {child[c].video}

(* The steps of ffmpeg in which the process goes to another stage. *)
LEMMA EncodesStage ==
  ASSUME AInv, NEW c \in Children, FFOpenOutput(c) \/ FFEncode(c)
  PROVE  /\ Busy = {c} /\ Busy' = {c}
         /\ child[c] \in Process
         /\ child'[c].video = child[c].video
         /\ FFOpenOutput(c) => child'[c].stage = "opened"
         /\ FFEncode(c) => child'[c].stage = "writing"
<1>1. c \in Busy
  BY DEF FFOpenOutput, FFEncode, Busy, Free
<1>2. Busy = {c}
  BY <1>1 DEF AInv, OneChild, Busy
<1>3. child[c] \in Process
  BY <1>1 DEF AInv, TypeOK, Busy
<1>4. ASSUME NEW s \in Stages, child' = [child EXCEPT ![c].stage = s]
      PROVE  Busy' = {c} /\ child'[c].video = child[c].video /\ child'[c].stage = s
  BY <1>1, <1>2, <1>4, StageStep DEF AInv
<1> QED  BY <1>2, <1>3, <1>4 DEF FFOpenOutput, FFEncode, Stages

(* Who ends was the only process. *)
LEMMA ExitLeavesNone ==
  ASSUME AInv, NEW c \in Children, child[c].stage # "free", Exit(c)
  PROVE  Busy = {c} /\ Busy' = {} /\ child[c] \in Process
<1>1. Busy = {c}
  BY DEF AInv, OneChild, Busy, Free
<1>2. Busy' = {}
  BY <1>1 DEF Exit, Busy, AInv, TypeOK
<1> QED  BY <1>1, <1>2 DEF AInv, TypeOK, Busy

(* What is being encoded, in terms of the one process there may be. *)
LEMMA BeingEncodedByOne ==
  ASSUME NEW c, Busy = {c}, TargetOf[child[c].video] \in Targets
  PROVE  BeingEncoded = IF child[c].stage \in Writing THEN {child[c].video} ELSE {}
BY DEF BeingEncoded, Writes, Writing

(* Without a process nothing is encoded. *)
LEMMA BeingEncodedByNone ==
  ASSUME Busy = {} PROVE BeingEncoded = {}
BY DEF BeingEncoded

(* The instance changes neither the files nor the processes that write, *)
(* except that it starts one, which does not write yet.                  *)
LEMMA RunKeepsWriters ==
  ASSUME AInv, Alone, NEW y \in Instances, Collect(y) \/ RunStep(y) \/ Kill(y)
  PROVE  /\ UNCHANGED <<target, source>>
         /\ \A c \in Busy' : child'[c].stage \in Writing => c \in Busy /\ child'[c] = child[c]
         /\ \A c \in Busy : child[c].stage \in Writing => c \in Busy' /\ child'[c] = child[c]
<1> USE DEF fileVars, runVars
<1>1. ASSUME NEW from, NEW to, NEW cmd, Spawn(y, from, to, cmd)
      PROVE  /\ UNCHANGED <<target, source>>
             /\ \A c \in Busy' : child'[c].stage \in Writing => c \in Busy /\ child'[c] = child[c]
             /\ \A c \in Busy : child[c].stage \in Writing => c \in Busy' /\ child'[c] = child[c]
  <2> DEFINE p == [stage |-> "started", cmd |-> cmd, video |-> Item(y), parent |-> y]
  <2>1. PICK c \in Children : child[c] = Free /\ child' = [child EXCEPT ![c] = p]
    BY <1>1 DEF Spawn
  <2>2. p.stage \notin Writing
    BY DEF Writing
  <2>3. child \in [Children -> Process \cup {Free}]
    BY DEF AInv, TypeOK
  <2> HIDE DEF p
  <2>4. child'[c] = p /\ \A d \in Children : d # c => child'[d] = child[d]
    BY <2>1, <2>3
  <2>5. c \notin Busy
    BY <2>1 DEF Busy
  <2> QED  BY <1>1, <2>2, <2>4, <2>5 DEF Spawn, Busy
<1>2. ASSUME Collect(y) \/ Finished(y) \/ ShouldEncode(y) \/ CheckSize(y) \/ MakePath(y)
             \/ Transcode(y) \/ TranscoderReturns(y) \/ NoScreenshotDir(y) \/ ScreenshotReturns(y)
             \/ Report(y)
      PROVE  UNCHANGED <<target, source, child>>
  BY <1>2 DEF Collect, Finished, ShouldEncode, CheckSize, MakePath, Transcode,
              TranscoderReturns, NoScreenshotDir, ScreenshotReturns, Reap, Report
<1>3. ~ Kill(y)
  BY DEF Kill, Alone, AInv, TypeOK
<1> QED  BY <1>1, <1>2, <1>3 DEF RunStep, RunTranscoder, GetScreenshot, Busy

(* A user who deletes a target takes it from the process that writes it. *)
LEMMA DeleteUnlinks ==
  ASSUME AInv, NEW t \in Targets, DeleteTarget(t)
  PROVE  /\ Busy' = Busy
         /\ \A c \in Busy : IF Writes(c, t) THEN child'[c].stage = "unlinked"
                                            ELSE child'[c] = child[c]
<1>1. child \in [Children -> Process \cup {Free}]
  BY DEF AInv, TypeOK
<1>2. \A c \in Children : child'[c] = IF c \in Busy /\ Writes(c, t)
                                      THEN [child[c] EXCEPT !.stage = "unlinked"]
                                      ELSE child[c]
  BY DEF DeleteTarget
<1>3. \A c \in Busy : c \in Children /\ child[c] \in Process
  BY <1>1 DEF Busy
<1>4. \A p \in Process : [p EXCEPT !.stage = "unlinked"].stage = "unlinked"
  BY DEF Process
<1>5. \A c \in Busy : IF Writes(c, t) THEN child'[c].stage = "unlinked"
                                      ELSE child'[c] = child[c]
  BY <1>2, <1>3, <1>4
<1>6. \A c \in Children : child'[c] # Free <=> child[c] # Free
  <2>1. \A c \in Busy : Writes(c, t) => child'[c] # Free
    BY <1>5 DEF Free
  <2>2. \A c \in Children : ~(c \in Busy /\ Writes(c, t)) => child'[c] = child[c]
    BY <1>2
  <2> QED  BY <2>1, <2>2 DEF Busy
<1> QED  BY <1>5, <1>6 DEF Busy

(* What ffmpeg truncated for its video stays its own. *)
LEMMA OwnSourceStep ==
  ASSUME AInv, Alone, OwnSource, [Next]_vars
  PROVE  OwnSource'
<1> USE DEF fileVars, runVars
<1>1. source \in [Targets -> SUBSET Videos] /\ child \in [Children -> Process \cup {Free}]
  BY DEF AInv, TypeOK
<1>2. ASSUME NEW y \in Instances, Collect(y) \/ RunStep(y) \/ Kill(y)
      PROVE  OwnSource'
  BY <1>2, RunKeepsWriters DEF OwnSource
<1>3. ASSUME NEW c \in Children, FFOpenOutput(c)
      PROVE  OwnSource'
  <2>1. /\ Busy = {c} /\ Busy' = {c}
        /\ child[c] \in Process /\ child'[c].video = child[c].video
    BY <1>3, EncodesStage
  <2>2. TargetOf[child[c].video] \in Targets
    BY <2>1, TargetAssumption DEF Process
  <2>3. source' = [source EXCEPT ![TargetOf[child[c].video]] = {child[c].video}]
    BY <1>3, <2>1 DEF FFOpenOutput
  <2> QED  BY <1>1, <2>1, <2>2, <2>3 DEF OwnSource
<1>4. ASSUME NEW c \in Children, FFEncode(c)
      PROVE  OwnSource'
  <2>1. /\ Busy = {c} /\ Busy' = {c} /\ child'[c].video = child[c].video
    BY <1>4, EncodesStage
  <2>2. child[c].stage \in Writing /\ source' = source
    BY <1>4 DEF FFEncode, Writing
  <2> QED  BY <2>1, <2>2 DEF OwnSource
<1>5. ASSUME NEW c \in Children,
             FFInputFails(c) \/ FFCodecFails(c) \/ FFWriteFails(c) \/ FFFinish(c) \/ FFExit(c)
      PROVE  OwnSource'
  <2>1. Busy' = {}
    BY <1>5, ExitLeavesNone DEF FFInputFails, FFCodecFails, FFWriteFails, FFFinish, FFExit
  <2> QED  BY <2>1 DEF OwnSource
<1>6. ASSUME NEW t \in Targets, DeleteTarget(t)
      PROVE  OwnSource'
  <2>1. /\ Busy' = Busy
        /\ \A c \in Busy : IF Writes(c, t) THEN child'[c].stage = "unlinked"
                                           ELSE child'[c] = child[c]
    BY <1>6, DeleteUnlinks
  <2>2. ASSUME NEW c \in Busy', child'[c].stage \in Writing
        PROVE  /\ child'[c] = child[c] /\ child[c].stage \in Writing
               /\ source'[TargetOf[child[c].video]] = source[TargetOf[child[c].video]]
    <3>1. ~Writes(c, t) /\ child'[c] = child[c]
      BY <2>1, <2>2 DEF Writing
    <3>2. child[c] \in Process
      BY <1>1, <2>1 DEF Busy
    <3>3. TargetOf[child[c].video] \in Targets \ {t}
      BY <2>2, <3>1, <3>2, TargetAssumption DEF Writes, Writing, Process
    <3> QED  BY <1>1, <1>6, <2>2, <3>1, <3>3 DEF DeleteTarget
  <2> QED  BY <2>1, <2>2 DEF OwnSource
<1>7. ASSUME NEW v \in Videos, Arrive(v) \/ Complete(v) \/ RemoveVideo(v)
      PROVE  OwnSource'
  BY <1>7 DEF Arrive, Complete, RemoveVideo, OwnSource, Busy
<1>8. CASE UNCHANGED vars
  BY <1>8 DEF vars, OwnSource, Busy
<1> QED
  BY <1>2, <1>3, <1>4, <1>5, <1>6, <1>7, <1>8 DEF Next, FFStep, User

-------------------------------------------------------------------------------
(* The steps of ffmpeg and of the users, seen in the directory *)

(* ffmpeg opens a target that is not there: the encode begins. *)
LEMMA OpenBegins ==
  ASSUME AInv, NEW c \in Children, FFOpenOutput(c)
  PROVE  Directory!Begin(child[c].video) /\ child[c].video \in Videos
<1> DEFINE v == child[c].video
           t == TargetOf[child[c].video]
<1>1. /\ Busy = {c} /\ Busy' = {c} /\ child[c] \in Process
      /\ child'[c].video = v /\ child'[c].stage = "opened"
  BY EncodesStage
<1>2. v \in Videos /\ t \in Targets
  BY <1>1, TargetAssumption DEF Process
<1>3. /\ target \in [Targets -> FileStates] /\ target' = [target EXCEPT ![t] = "tiny"]
      /\ source \in [Targets -> SUBSET Videos]
      /\ \A u \in Targets : u # t => source'[u] = source[u]
  BY DEF FFOpenOutput, AInv, TypeOK
<1>4. child[c].stage = "started" /\ target[t] = "absent"
  BY <1>1 DEF FFOpenOutput, AInv, InStep, File
<1>5. BeingEncoded = {}
  BY <1>1, <1>2, <1>4, BeingEncodedByOne DEF Writing
<1>6. BeingEncoded' = {v}
  BY <1>1, <1>2 DEF BeingEncoded, Writes
<1>7. t \notin FilesThere /\ FilesThere' = FilesThere \cup {t}
  BY <1>2, <1>3, <1>4 DEF FilesThere
<1>8. FinishedIn' = FinishedIn
  BY <1>2, <1>3, <1>4 DEF FinishedIn, Playable
<1> QED  BY <1>2, <1>5, <1>6, <1>7, <1>8 DEF Directory!Begin

(* What ffmpeg writes before the trailer changes nothing there. *)
LEMMA EncodeStutters ==
  ASSUME AInv, NEW c \in Children, FFEncode(c)
  PROVE  UNCHANGED <<FilesThere, FinishedIn, BeingEncoded>>
<1> DEFINE v == child[c].video
           t == TargetOf[child[c].video]
<1>1. /\ Busy = {c} /\ Busy' = {c} /\ child[c] \in Process
      /\ child'[c].video = v /\ child'[c].stage = "writing"
  BY EncodesStage
<1>2. v \in Videos /\ t \in Targets
  BY <1>1, TargetAssumption DEF Process
<1>3. /\ target \in [Targets -> FileStates] /\ target' = [target EXCEPT ![t] = "half"]
      /\ source' = source
  BY DEF FFEncode, AInv, TypeOK
<1>4. child[c].stage = "opened" /\ target[t] = "tiny"
  BY <1>1 DEF FFEncode, AInv, InStep, File
<1>5. BeingEncoded = {v} /\ BeingEncoded' = {v}
  BY <1>1, <1>2, <1>4 DEF BeingEncoded, Writes
<1>6. FilesThere' = FilesThere
  BY <1>2, <1>3, <1>4 DEF FilesThere
<1>7. FinishedIn' = FinishedIn
  BY <1>2, <1>3, <1>4 DEF FinishedIn, Playable
<1> QED  BY <1>5, <1>6, <1>7

(* The trailer finishes the file, with the one video that is in it. *)
LEMMA FinishFinishes ==
  ASSUME AInv, OwnSource, NEW c \in Children, FFFinish(c)
  PROVE  Directory!Finish(child[c].video) /\ child[c].video \in Videos
<1> DEFINE v == child[c].video
           t == TargetOf[child[c].video]
<1>1. Busy = {c} /\ Busy' = {} /\ child[c] \in Process
  BY ExitLeavesNone DEF FFFinish
<1>2. v \in Videos /\ t \in Targets
  BY <1>1, TargetAssumption DEF Process
<1>3. child[c].stage \in Writing /\ target[t] = "half" /\ source[t] = {v}
  BY <1>1 DEF FFFinish, Writing, AInv, InStep, File, OwnSource
<1>4. Results(c) \subseteq Playable
  BY <1>1, <1>3 DEF Results, Playable
<1>5. PICK r \in Playable : target' = [target EXCEPT ![t] = r]
  BY <1>4 DEF FFFinish
<1>6. target \in [Targets -> FileStates] /\ source' = source
  BY DEF FFFinish, fileVars, AInv, TypeOK
<1>7. v \in BeingEncoded /\ BeingEncoded' = {}
  <2>1. BeingEncoded = {v}
    BY <1>1, <1>2, <1>3, BeingEncodedByOne
  <2>2. BeingEncoded' = {}
    BY <1>1 DEF BeingEncoded
  <2> QED  BY <2>1, <2>2
<1>8. FilesThere' = FilesThere
  BY <1>2, <1>3, <1>5, <1>6 DEF FilesThere, Playable
<1>9. FinishedIn' = [FinishedIn EXCEPT ![t] = {v}]
  BY <1>2, <1>3, <1>5, <1>6 DEF FinishedIn
<1> QED  BY <1>2, <1>7, <1>8, <1>9 DEF Directory!Finish

(* An encode that fails with its target open gives up. *)
LEMMA FailureGivesUp ==
  ASSUME AInv, NEW c \in Children, FFCodecFails(c) \/ FFWriteFails(c)
  PROVE  Directory!GiveUp(child[c].video) /\ child[c].video \in Videos
<1>1. Busy = {c} /\ Busy' = {} /\ child[c] \in Process
  BY ExitLeavesNone DEF FFCodecFails, FFWriteFails
<1>2. child[c].video \in Videos /\ TargetOf[child[c].video] \in Targets
  BY <1>1, TargetAssumption DEF Process
<1>3. BeingEncoded = {child[c].video}
  BY <1>1, <1>2, BeingEncodedByOne DEF FFCodecFails, FFWriteFails, Writing
<1>4. BeingEncoded' = {}
  BY <1>1 DEF BeingEncoded
<1>5. UNCHANGED <<FilesThere, FinishedIn>>
  BY DEF FFCodecFails, FFWriteFails, fileVars, FilesThere, FinishedIn
<1> QED  BY <1>2, <1>3, <1>4, <1>5 DEF Directory!GiveUp

(* A process that ends with no target open leaves no trace. *)
LEMMA ExitStutters ==
  ASSUME AInv, NEW c \in Children, FFInputFails(c) \/ FFExit(c)
  PROVE  UNCHANGED <<FilesThere, FinishedIn, BeingEncoded>>
<1>1. Busy = {c} /\ Busy' = {} /\ child[c] \in Process
  BY ExitLeavesNone DEF FFInputFails, FFExit
<1>2. TargetOf[child[c].video] \in Targets
  BY <1>1, TargetAssumption DEF Process
<1>3. BeingEncoded = {}
  BY <1>1, <1>2, BeingEncodedByOne DEF FFInputFails, FFExit, Writing
<1>4. BeingEncoded' = {}
  BY <1>1 DEF BeingEncoded
<1>5. UNCHANGED <<FilesThere, FinishedIn>>
  BY DEF FFInputFails, FFExit, fileVars, FilesThere, FinishedIn
<1> QED  BY <1>3, <1>4, <1>5

(* A target that is deleted is removed, and lost to its encode. *)
LEMMA DeleteRemoves ==
  ASSUME AInv, NEW t \in Targets, DeleteTarget(t)
  PROVE  Directory!Remove(t)
<1>1. /\ Busy' = Busy
      /\ \A c \in Busy : IF Writes(c, t) THEN child'[c].stage = "unlinked"
                                         ELSE child'[c] = child[c]
  BY DeleteUnlinks
<1>2. /\ target \in [Targets -> FileStates] /\ target' = [target EXCEPT ![t] = "absent"]
      /\ source \in [Targets -> SUBSET Videos] /\ source' = [source EXCEPT ![t] = {}]
      /\ target[t] # "absent"
  BY DEF DeleteTarget, AInv, TypeOK
<1>3. t \in FilesThere /\ FilesThere' = FilesThere \ {t}
  BY <1>2 DEF FilesThere
<1>4. FinishedIn' = [FinishedIn EXCEPT ![t] = {}]
  BY <1>2 DEF FinishedIn, Playable
<1>5. \A c \in Busy, u \in Targets : Writes(c, u)' <=> Writes(c, u) /\ u # t
  BY <1>1 DEF Writes
<1>6. BeingEncoded' = {v \in BeingEncoded : TargetOf[v] # t}
  <2> DEFINE W == {c \in Busy : \E u \in Targets : Writes(c, u)}
  <2>1. \A c \in W : Writes(c, t) <=> TargetOf[child[c].video] = t
    BY DEF Writes
  <2>2. W' = {c \in W : TargetOf[child[c].video] # t}
    <3>1. W' = {c \in Busy' : \E u \in Targets : Writes(c, u)'}
      OBVIOUS
    <3>2. W' = {c \in Busy : \E u \in Targets : Writes(c, u) /\ u # t}
      BY <1>1, <1>5, <3>1
    <3>3. \A c \in Busy, u \in Targets : Writes(c, u) => u = TargetOf[child[c].video]
      BY DEF Writes
    <3> QED  BY <3>2, <3>3
  <2>3. \A c \in W' : child'[c].video = child[c].video
    BY <1>1, <2>1, <2>2
  <2>4. BeingEncoded = {child[c].video : c \in W}
    BY DEF BeingEncoded
  <2>5. BeingEncoded' = {child'[c].video : c \in W'}
    BY DEF BeingEncoded
  <2> HIDE DEF W
  <2> QED  BY <2>2, <2>3, <2>4, <2>5
<1> QED  BY <1>3, <1>4, <1>6 DEF Directory!Remove

(* Every step is one of the directory or changes nothing there. *)
LEMMA DirectoryStep ==
  ASSUME AInv, Alone, OwnSource, [Next]_vars
  PROVE  Directory!Next \/ UNCHANGED <<FilesThere, FinishedIn, BeingEncoded>>
<1>1. ASSUME NEW c \in Children, FFStep(c)
      PROVE  Directory!Next \/ UNCHANGED <<FilesThere, FinishedIn, BeingEncoded>>
  <2> USE DEF Directory!Next
  <2>1. CASE FFOpenOutput(c)
    BY <2>1, OpenBegins
  <2>2. CASE FFFinish(c)
    BY <2>2, FinishFinishes
  <2>3. CASE FFCodecFails(c) \/ FFWriteFails(c)
    BY <2>3, FailureGivesUp
  <2>4. CASE FFEncode(c)
    BY <2>4, EncodeStutters
  <2>5. CASE FFInputFails(c) \/ FFExit(c)
    BY <2>5, ExitStutters
  <2> QED  BY <1>1, <2>1, <2>2, <2>3, <2>4, <2>5 DEF FFStep
<1>2. ASSUME NEW y \in Instances, Collect(y) \/ RunStep(y) \/ Kill(y)
      PROVE  UNCHANGED <<FilesThere, FinishedIn, BeingEncoded>>
  <2>1. /\ UNCHANGED <<target, source>>
        /\ \A c \in Busy' : child'[c].stage \in Writing => c \in Busy /\ child'[c] = child[c]
        /\ \A c \in Busy : child[c].stage \in Writing => c \in Busy' /\ child'[c] = child[c]
    BY <1>2, RunKeepsWriters
  <2>2. UNCHANGED BeingEncoded
    BY <2>1 DEF BeingEncoded, Writes, Writing
  <2> QED  BY <2>1, <2>2 DEF FilesThere, FinishedIn
<1>3. ASSUME NEW t \in Targets, DeleteTarget(t)
      PROVE  Directory!Next
  BY <1>3, DeleteRemoves DEF Directory!Next
<1>4. ASSUME NEW v \in Videos, Arrive(v) \/ Complete(v) \/ RemoveVideo(v)
      PROVE  UNCHANGED <<FilesThere, FinishedIn, BeingEncoded>>
  BY <1>4 DEF Arrive, Complete, RemoveVideo, FilesThere, FinishedIn, BeingEncoded, Busy, Writes
<1>5. CASE UNCHANGED vars
  BY <1>5 DEF vars, fileVars, FilesThere, FinishedIn, BeingEncoded, Busy, Writes
<1> QED  BY <1>1, <1>2, <1>3, <1>4, <1>5 DEF Next, User

-------------------------------------------------------------------------------
(* What a program that runs alone does with the directory is what            *)
(* TargetDirectory says: one encode at a time, into a target that is not     *)
(* there, and finished with the video it was begun for.  Videos may share    *)
(* targets, encodes fail in every way, users add, grow and delete files.     *)
THEOREM AloneImplementsDirectory == ASSUME Alone PROVE Spec => DirectorySpec
<1>1. Init => OwnSource /\ Directory!Init
  BY DEF Init, OwnSource, Busy, Directory!Init, FilesThere, FinishedIn, Playable, BeingEncoded
<1>2. AInv /\ OwnSource /\ [Next]_vars => OwnSource'
  BY OwnSourceStep
<1>3. AInv /\ OwnSource /\ [Next]_vars => [Directory!Next]_(Directory!directoryVars)
  BY DirectoryStep DEF Directory!directoryVars
<1> QED
  BY <1>1, <1>2, <1>3, AloneInvariance, PTL DEF Spec, DirectorySpec, Directory!Spec
===============================================================================
