------------------------------ MODULE Engine_proofs ------------------------------
(***************************************************************************)
(* Proofs about Engine, for any videos, targets, failures and users.  The  *)
(* types are right for any number of instances and kills.  For a program   *)
(* that runs alone and is not killed, a target file has one writer, and a  *)
(* finished one is never written again.                                    *)
(***************************************************************************)
EXTENDS Engine, FiniteSetTheorems, SequenceTheorems, TLAPS

\* Beyond "next" an instance has an item at hand.
HasItem == \A y \in Instances : pc[y] \notin {"idle", "next"} => batch[y] # <<>>

(* A process that goes to another stage is still a process. *)
LEMMA StageType ==
  ASSUME NEW p \in Process, NEW s \in Stages
  PROVE  [p EXCEPT !.stage = s] \in Process
  BY DEF Process

(* What an order of a set of videos is: a sequence of videos. *)
LEMMA OrderType ==
  ASSUME NEW S \in SUBSET Videos, NEW s \in Orders(S)
  PROVE  s \in Seq(Videos)
<1>1. Cardinality(S) \in Nat
  BY VideosAssumption, FS_Subset, FS_CardinalityType
<1>2. s \in [1..Cardinality(S) -> Videos]
  BY DEF Orders
<1> QED  BY <1>1, <1>2

(* The process that run_external_command starts is for the item at hand. *)
LEMMA SpawnType ==
  ASSUME TypeOK, NEW y \in Instances, batch[y] # <<>>,
         NEW from, NEW to \in Labels, NEW cmd \in {"transcode", "screenshot"},
         Spawn(y, from, to, cmd)
  PROVE  TypeOK'
<1>1. Item(y) \in Videos
  BY HeadTailProperties DEF TypeOK, Item
<1>2. PICK c \in Children :
        child' = [child EXCEPT ![c] = [stage |-> "started", cmd |-> cmd,
                                       video |-> Item(y), parent |-> y]]
  BY DEF Spawn
<1>3. [stage |-> "started", cmd |-> cmd, video |-> Item(y), parent |-> y] \in Process
  BY <1>1 DEF Process, Stages
<1>4. child' \in [Children -> Process \cup {Free}]
  BY <1>2, <1>3 DEF TypeOK
<1> QED  BY <1>4 DEF TypeOK, Spawn, Goto, fileVars, runVars

(* Every action keeps the types of all variables. *)
LEMMA TypeOKStep ==
  ASSUME TypeOK, HasItem, [Next]_vars
  PROVE  TypeOK'
<1> USE VideosAssumption, TargetAssumption, SwitchAssumption, NobodyAssumption
<1> USE DEF TypeOK, HasItem, Labels, FileStates, fileVars, runVars, Goto
<1>1. ASSUME NEW y \in Instances, Collect(y)
      PROVE  TypeOK'
  <2> DEFINE found == {v \in Videos : library[v] # "absent"}
  <2>1. PICK order \in Orders(found) : batch' = [batch EXCEPT ![y] = order]
    BY <1>1 DEF Collect
  <2>2. order \in Seq(Videos)
    BY OrderType
  <2>3. batch' \in [Instances -> Seq(Videos)]
    BY <2>1, <2>2
  <2>4. already' \in [Instances -> SUBSET Videos]
    BY <1>1 DEF Collect
  <2> QED  BY <1>1, <2>3, <2>4 DEF Collect
<1>2. ASSUME NEW y \in Instances, Finished(y)
      PROVE  TypeOK'
  BY <1>2 DEF Finished
<1>3. ASSUME NEW y \in Instances, ShouldEncode(y)
      PROVE  TypeOK'
  BY <1>3 DEF ShouldEncode
<1>4. ASSUME NEW y \in Instances, CheckSize(y)
      PROVE  TypeOK'
  <2>1. Tail(batch[y]) \in Seq(Videos) /\ <<>> \in Seq(Videos)
    BY <1>4, HeadTailProperties, EmptySeq DEF CheckSize
  <2>2. \/ batch' = [batch EXCEPT ![y] = Tail(batch[y])]
        \/ batch' = [batch EXCEPT ![y] = <<>>]
        \/ batch' = batch
    BY <1>4 DEF CheckSize, Skip, Raise
  <2>3. batch' \in [Instances -> Seq(Videos)]
    BY <2>1, <2>2
  <2>4. pc' \in [Instances -> Labels]
    BY <1>4 DEF CheckSize, Raise
  <2> QED  BY <1>4, <2>3, <2>4 DEF CheckSize
<1>5. ASSUME NEW y \in Instances, MakePath(y) \/ NoScreenshotDir(y)
      PROVE  TypeOK'
  <2>1. batch' = batch \/ batch' = [batch EXCEPT ![y] = <<>>]
    BY <1>5 DEF MakePath, NoScreenshotDir, Raise
  <2>2. batch' \in [Instances -> Seq(Videos)]
    <3>1. <<>> \in Seq(Videos)
      OBVIOUS
    <3> QED  BY <2>1, <3>1
  <2>3. \/ pc' = [pc EXCEPT ![y] = "transcode"]
        \/ pc' = [pc EXCEPT ![y] = "idle"]
    BY <1>5 DEF MakePath, NoScreenshotDir, Raise
  <2>4. pc' \in [Instances -> Labels]
    BY <2>3
  <2> QED  BY <1>5, <2>2, <2>4 DEF MakePath, NoScreenshotDir
<1>6. ASSUME NEW y \in Instances, Transcode(y)
      PROVE  TypeOK'
  BY <1>6 DEF Transcode
<1>7. ASSUME NEW y \in Instances, RunTranscoder(y)
      PROVE  TypeOK'
  <2>1. batch[y] # <<>>
    BY <1>7 DEF RunTranscoder, Spawn
  <2> QED  BY <1>7, <2>1, SpawnType DEF RunTranscoder
<1>8. ASSUME NEW y \in Instances, TranscoderReturns(y)
      PROVE  TypeOK'
  BY <1>8 DEF TranscoderReturns, Reap
<1>9. ASSUME NEW y \in Instances, GetScreenshot(y)
      PROVE  TypeOK'
  <2>1. batch[y] # <<>>
    BY <1>9 DEF GetScreenshot, Spawn
  <2> QED  BY <1>9, <2>1, SpawnType DEF GetScreenshot
<1>10. ASSUME NEW y \in Instances, ScreenshotReturns(y)
      PROVE  TypeOK'
  BY <1>10 DEF ScreenshotReturns, Reap
<1>11. ASSUME NEW y \in Instances, Report(y)
      PROVE  TypeOK'
  <2>1. Item(y) \in Videos /\ Tail(batch[y]) \in Seq(Videos)
    BY <1>11, HeadTailProperties DEF Report, Item
  <2>2. batch' \in [Instances -> Seq(Videos)]
    BY <1>11, <2>1 DEF Report, Skip
  <2>3. succeeded' \in [Instances -> SUBSET Videos]
    BY <1>11, <2>1 DEF Report
  <2> QED  BY <1>11, <2>2, <2>3 DEF Report
<1>12. ASSUME NEW y \in Instances, Kill(y)
      PROVE  TypeOK'
  <2>1. kills' \in 0..MaxKills
    BY <1>12, SwitchAssumption DEF Kill
  <2>2. batch' \in [Instances -> Seq(Videos)] /\ pc' \in [Instances -> Labels]
    BY <1>12 DEF Kill, Raise
  <2>3. ASSUME NEW c \in Busy
        PROVE  LET orphan == [child[c] EXCEPT !.parent = Nobody]
               IN orphan \in Process /\ Signalled(orphan) \in Process \cup {Free}
    <3> DEFINE orphan == [child[c] EXCEPT !.parent = Nobody]
    <3>1. orphan \in Process
      BY DEF Process, Busy
    <3>2. [orphan EXCEPT !.stage = "stopping"] \in Process
      BY <3>1, StageType DEF Stages
    <3> HIDE DEF orphan
    <3>3. Signalled(orphan) \in Process \cup {Free}
      BY <3>1, <3>2 DEF Signalled
    <3> QED  BY <3>1, <3>3 DEF orphan
  <2>4. child' \in [Children -> Process \cup {Free}]
    BY <1>12, <2>3 DEF Kill
  <2> QED  BY <1>12, <2>1, <2>2, <2>4 DEF Kill
<1>13. ASSUME NEW c \in Children, FFInputFails(c)
      PROVE  TypeOK'
  BY <1>13 DEF FFInputFails, Exit
<1>14. ASSUME NEW c \in Children, FFOpenOutput(c)
      PROVE  TypeOK'
  <2>1. child[c] \in Process
    BY <1>14 DEF FFOpenOutput, Free
  <2>2. [child[c] EXCEPT !.stage = "opened"] \in Process
    BY <2>1, StageType DEF Stages
  <2>3. child' \in [Children -> Process \cup {Free}]
    BY <1>14, <2>2 DEF FFOpenOutput
  <2>4. /\ child[c].video \in Videos
        /\ \A d \in Busy : child[d].video \in Videos
    BY <2>1 DEF Process, Busy
  <2>5. source' \in [Targets -> SUBSET Videos]
    BY <1>14, <2>4 DEF FFOpenOutput
  <2>6. target' \in [Targets -> FileStates]
    BY <1>14 DEF FFOpenOutput
  <2> QED  BY <1>14, <2>3, <2>5, <2>6 DEF FFOpenOutput
<1>15. ASSUME NEW c \in Children, FFCodecFails(c)
      PROVE  TypeOK'
  BY <1>15 DEF FFCodecFails, Exit
<1>16. ASSUME NEW c \in Children, FFEncode(c)
      PROVE  TypeOK'
  <2>1. child[c] \in Process
    BY <1>16 DEF FFEncode, Free
  <2>2. [child[c] EXCEPT !.stage = "writing"] \in Process
    BY <2>1, StageType DEF Stages
  <2>3. TargetOf[child[c].video] \in Targets
    BY <2>1, TargetAssumption DEF Process
  <2> QED  BY <1>16, <2>1, <2>2, <2>3 DEF FFEncode
<1>17. ASSUME NEW c \in Children, FFWriteFails(c)
      PROVE  TypeOK'
  BY <1>17 DEF FFWriteFails, Exit
<1>18. ASSUME NEW c \in Children, FFFinish(c)
      PROVE  TypeOK'
  <2>1. Results(c) \subseteq FileStates
    BY DEF Results, Playable
  <2>2. target' \in [Targets -> FileStates]
    BY <1>18, <2>1 DEF FFFinish
  <2> QED  BY <1>18, <2>2 DEF FFFinish, Exit
<1>19. ASSUME NEW c \in Children, FFExit(c)
      PROVE  TypeOK'
  BY <1>19 DEF FFExit, Exit
<1>20. ASSUME NEW v \in Videos, Arrive(v)
      PROVE  TypeOK'
  BY <1>20 DEF Arrive
<1>21. ASSUME NEW v \in Videos, Complete(v)
      PROVE  TypeOK'
  BY <1>21 DEF Complete
<1>22. ASSUME NEW v \in Videos, RemoveVideo(v)
      PROVE  TypeOK'
  BY <1>22 DEF RemoveVideo
<1>23. ASSUME NEW t \in Targets, DeleteTarget(t)
      PROVE  TypeOK'
  <2>1. \A c \in Busy : [child[c] EXCEPT !.stage = "unlinked"] \in Process
    BY StageType DEF Busy, Stages
  <2>2. child' \in [Children -> Process \cup {Free}]
    BY <1>23, <2>1 DEF DeleteTarget
  <2>3. already' \in [Instances -> SUBSET Videos]
    BY <1>23 DEF DeleteTarget
  <2> QED  BY <1>23, <2>2, <2>3 DEF DeleteTarget
<1>24. CASE UNCHANGED vars
  BY <1>24 DEF vars, fileVars, runVars
<1> HIDE DEF TypeOK, HasItem, Labels, FileStates, fileVars, runVars, Goto
<1> QED
  BY <1>1, <1>2, <1>3, <1>4, <1>5, <1>6, <1>7, <1>8, <1>9, <1>10, <1>11,
      <1>12, <1>13, <1>14, <1>15, <1>16, <1>17, <1>18, <1>19, <1>20, <1>21,
      <1>22, <1>23, <1>24 DEF Next, RunStep, FFStep, User

(* An instance beyond its label "next" keeps its first item. *)
LEMMA HasItemStep ==
  ASSUME TypeOK, HasItem, [Next]_vars
  PROVE  HasItem'
<1> USE DEF TypeOK, HasItem, fileVars, runVars, Goto
<1>1. ASSUME NEW y \in Instances, Collect(y)
      PROVE  HasItem'
  BY <1>1 DEF Collect
<1>2. ASSUME NEW y \in Instances, Finished(y)
      PROVE  HasItem'
  BY <1>2 DEF Finished
<1>3. ASSUME NEW y \in Instances, ShouldEncode(y)
      PROVE  HasItem'
  BY <1>3 DEF ShouldEncode
<1>4. ASSUME NEW y \in Instances, CheckSize(y)
      PROVE  HasItem'
  BY <1>4 DEF CheckSize, Skip, Raise
<1>5. ASSUME NEW y \in Instances, MakePath(y) \/ NoScreenshotDir(y)
      PROVE  HasItem'
  BY <1>5 DEF MakePath, NoScreenshotDir, Raise
<1>6. ASSUME NEW y \in Instances, Transcode(y)
      PROVE  HasItem'
  BY <1>6 DEF Transcode
<1>7. ASSUME NEW y \in Instances, RunTranscoder(y)
      PROVE  HasItem'
  BY <1>7 DEF RunTranscoder, Spawn
<1>8. ASSUME NEW y \in Instances, TranscoderReturns(y)
      PROVE  HasItem'
  BY <1>8 DEF TranscoderReturns, Reap
<1>9. ASSUME NEW y \in Instances, GetScreenshot(y)
      PROVE  HasItem'
  BY <1>9 DEF GetScreenshot, Spawn
<1>10. ASSUME NEW y \in Instances, ScreenshotReturns(y)
      PROVE  HasItem'
  BY <1>10 DEF ScreenshotReturns, Reap
<1>11. ASSUME NEW y \in Instances, Report(y)
      PROVE  HasItem'
  BY <1>11 DEF Report, Skip
<1>12. ASSUME NEW y \in Instances, Kill(y)
      PROVE  HasItem'
  BY <1>12 DEF Kill, Raise
<1>13. ASSUME NEW c \in Children, FFInputFails(c)
      PROVE  HasItem'
  BY <1>13 DEF FFInputFails, Exit
<1>14. ASSUME NEW c \in Children, FFOpenOutput(c)
      PROVE  HasItem'
  BY <1>14 DEF FFOpenOutput
<1>15. ASSUME NEW c \in Children, FFCodecFails(c)
      PROVE  HasItem'
  BY <1>15 DEF FFCodecFails, Exit
<1>16. ASSUME NEW c \in Children, FFEncode(c)
      PROVE  HasItem'
  BY <1>16 DEF FFEncode
<1>17. ASSUME NEW c \in Children, FFWriteFails(c)
      PROVE  HasItem'
  BY <1>17 DEF FFWriteFails, Exit
<1>18. ASSUME NEW c \in Children, FFFinish(c)
      PROVE  HasItem'
  BY <1>18 DEF FFFinish, Exit
<1>19. ASSUME NEW c \in Children, FFExit(c)
      PROVE  HasItem'
  BY <1>19 DEF FFExit, Exit
<1>20. ASSUME NEW v \in Videos, Arrive(v)
      PROVE  HasItem'
  BY <1>20 DEF Arrive
<1>21. ASSUME NEW v \in Videos, Complete(v)
      PROVE  HasItem'
  BY <1>21 DEF Complete
<1>22. ASSUME NEW v \in Videos, RemoveVideo(v)
      PROVE  HasItem'
  BY <1>22 DEF RemoveVideo
<1>23. ASSUME NEW t \in Targets, DeleteTarget(t)
      PROVE  HasItem'
  BY <1>23 DEF DeleteTarget
<1>24. CASE UNCHANGED vars
  BY <1>24 DEF vars, fileVars, runVars
<1> HIDE DEF TypeOK, HasItem, fileVars, runVars, Goto
<1> QED
  BY <1>1, <1>2, <1>3, <1>4, <1>5, <1>6, <1>7, <1>8, <1>9, <1>10, <1>11,
      <1>12, <1>13, <1>14, <1>15, <1>16, <1>17, <1>18, <1>19, <1>20, <1>21,
      <1>22, <1>23, <1>24 DEF Next, RunStep, FFStep, User

-------------------------------------------------------------------------------
(* The program alone: one instance, which is not killed.  The instance       *)
(* waits while a child of its own is alive, so there is at most one.         *)

Alone == MaxKills = 0 /\ \A y, z \in Instances : y = z

\* The label at which an instance waits for this kind of child.
WaitsAt(cmd) == IF cmd = "transcode" THEN "wait" ELSE "waitshot"

Owned == \A c \in Busy : /\ child[c].parent \in Instances
                         /\ pc[child[c].parent] = WaitsAt(child[c].cmd)

OneChild == \A c, d \in Busy : c = d

\* What transcode saw is still so when it forks.
Fresh == \A y \in Instances : pc[y] = "fork" => File(Item(y)) = "absent"

\* What the target of an encode is at each of its stages.
InStep ==
  \A c \in Busy :
    \/ child[c].cmd = "screenshot" /\ child[c].stage = "started"
    \/ /\ child[c].cmd = "transcode"
       /\ \/ child[c].stage = "started" /\ File(child[c].video) = "absent"
          \/ child[c].stage = "opened" /\ File(child[c].video) = "tiny"
          \/ child[c].stage = "writing" /\ File(child[c].video) = "half"
          \/ child[c].stage = "unlinked"

AInv == TypeOK /\ HasItem /\ Owned /\ OneChild /\ Fresh /\ InStep

(* A process that goes to another stage is alive and otherwise the same. *)
LEMMA StageStep ==
  ASSUME TypeOK, NEW c \in Busy, NEW s \in Stages,
         child' = [child EXCEPT ![c].stage = s]
  PROVE  /\ Busy' = Busy
         /\ \A d \in Busy : /\ child'[d].parent = child[d].parent
                            /\ child'[d].cmd = child[d].cmd
                            /\ child'[d].video = child[d].video
                            /\ child'[d].stage = IF d = c THEN s ELSE child[d].stage
<1>1. \A d \in Busy : child[d] \in Process /\ d \in Children
  BY DEF TypeOK, Busy
<1>2. \A d \in Children : child'[d] = IF d = c THEN [child[d] EXCEPT !.stage = s] ELSE child[d]
  BY DEF TypeOK
<1>3. /\ child'[c].stage = s /\ child'[c].parent = child[c].parent
      /\ child'[c].cmd = child[c].cmd /\ child'[c].video = child[c].video
  BY <1>1, <1>2 DEF Process
<1>4. child'[c] # Free
  <2>1. s # "free"
    BY DEF Stages
  <2> QED  BY <1>3, <2>1 DEF Free
<1>5. Busy' = Busy
  BY <1>2, <1>4 DEF Busy
<1> QED  BY <1>1, <1>2, <1>3, <1>5

(* The instance that is about to fork has no child: it would wait for it. *)
LEMMA NoChild ==
  ASSUME Alone, Owned, NEW y \in Instances, pc[y] \notin {"wait", "waitshot"}
  PROVE  Busy = {}
  BY DEF Alone, Owned, WaitsAt

(* A child is alive only while its parent waits for it. *)
LEMMA OwnedStep ==
  ASSUME TypeOK, HasItem, Alone, Owned, [Next]_vars
  PROVE  Owned'
<1> USE DEF TypeOK, Process
<1> USE DEF Owned, Busy, WaitsAt, fileVars, runVars, Goto
<1>1. ASSUME NEW y \in Instances, Collect(y)
      PROVE  Owned'
  BY <1>1 DEF Collect
<1>2. ASSUME NEW y \in Instances, Finished(y)
      PROVE  Owned'
  BY <1>2 DEF Finished
<1>3. ASSUME NEW y \in Instances, ShouldEncode(y)
      PROVE  Owned'
  BY <1>3 DEF ShouldEncode
<1>4. ASSUME NEW y \in Instances, CheckSize(y)
      PROVE  Owned'
  BY <1>4 DEF CheckSize, Skip, Raise
<1>5. ASSUME NEW y \in Instances, MakePath(y) \/ NoScreenshotDir(y)
      PROVE  Owned'
  BY <1>5 DEF MakePath, NoScreenshotDir, Raise
<1>6. ASSUME NEW y \in Instances, Transcode(y)
      PROVE  Owned'
  BY <1>6 DEF Transcode
<1>7. ASSUME NEW y \in Instances, RunTranscoder(y)
      PROVE  Owned'
  BY <1>7 DEF RunTranscoder, Spawn
<1>8. ASSUME NEW y \in Instances, TranscoderReturns(y)
      PROVE  Owned'
  BY <1>8 DEF TranscoderReturns, Reap, Owned, WaitsAt, Process, Busy
<1>9. ASSUME NEW y \in Instances, GetScreenshot(y)
      PROVE  Owned'
  BY <1>9 DEF GetScreenshot, Spawn
<1>10. ASSUME NEW y \in Instances, ScreenshotReturns(y)
      PROVE  Owned'
  BY <1>10 DEF ScreenshotReturns, Reap, Owned, WaitsAt, Process, Busy
<1>11. ASSUME NEW y \in Instances, Report(y)
      PROVE  Owned'
  BY <1>11 DEF Report, Skip
<1>12. ASSUME NEW y \in Instances, Kill(y)
      PROVE  Owned'
  <2>1. kills \in 0..0 /\ kills < 0
    BY <1>12 DEF Kill, Alone, TypeOK
  <2> QED  BY <2>1
<1>13. ASSUME NEW c \in Children, FFInputFails(c)
      PROVE  Owned'
  BY <1>13 DEF FFInputFails, Exit
<1>14. ASSUME NEW c \in Children, FFOpenOutput(c)
      PROVE  Owned'
  <2>1. c \in Busy
    BY <1>14 DEF FFOpenOutput, Busy, Free
  <2>2. /\ Busy' = Busy
        /\ \A d \in Busy : /\ child'[d].parent = child[d].parent
                           /\ child'[d].cmd = child[d].cmd
                           /\ child'[d].video = child[d].video
                           /\ child'[d].stage = IF d = c THEN "opened" ELSE child[d].stage
    BY <1>14, <2>1, StageStep DEF FFOpenOutput, Stages
  <2> HIDE DEF Busy
  <2> QED  BY <1>14, <2>2 DEF FFOpenOutput
<1>15. ASSUME NEW c \in Children, FFCodecFails(c)
      PROVE  Owned'
  BY <1>15 DEF FFCodecFails, Exit
<1>16. ASSUME NEW c \in Children, FFEncode(c)
      PROVE  Owned'
  <2>1. c \in Busy
    BY <1>16 DEF FFEncode, Busy, Free
  <2>2. /\ Busy' = Busy
        /\ \A d \in Busy : /\ child'[d].parent = child[d].parent
                           /\ child'[d].cmd = child[d].cmd
                           /\ child'[d].video = child[d].video
                           /\ child'[d].stage = IF d = c THEN "writing" ELSE child[d].stage
    BY <1>16, <2>1, StageStep DEF FFEncode, Stages
  <2> HIDE DEF Busy
  <2> QED  BY <1>16, <2>2 DEF FFEncode
<1>17. ASSUME NEW c \in Children, FFWriteFails(c)
      PROVE  Owned'
  BY <1>17 DEF FFWriteFails, Exit
<1>18. ASSUME NEW c \in Children, FFFinish(c)
      PROVE  Owned'
  BY <1>18 DEF FFFinish, Exit
<1>19. ASSUME NEW c \in Children, FFExit(c)
      PROVE  Owned'
  BY <1>19 DEF FFExit, Exit
<1>20. ASSUME NEW v \in Videos, Arrive(v)
      PROVE  Owned'
  BY <1>20 DEF Arrive
<1>21. ASSUME NEW v \in Videos, Complete(v)
      PROVE  Owned'
  BY <1>21 DEF Complete
<1>22. ASSUME NEW v \in Videos, RemoveVideo(v)
      PROVE  Owned'
  BY <1>22 DEF RemoveVideo
<1>23. ASSUME NEW t \in Targets, DeleteTarget(t)
      PROVE  Owned'
  BY <1>23 DEF DeleteTarget
<1>24. CASE UNCHANGED vars
  BY <1>24 DEF vars, fileVars, runVars
<1> HIDE DEF Owned, Busy, WaitsAt, fileVars, runVars, Goto
<1> QED
  BY <1>1, <1>2, <1>3, <1>4, <1>5, <1>6, <1>7, <1>8, <1>9, <1>10, <1>11,
      <1>12, <1>13, <1>14, <1>15, <1>16, <1>17, <1>18, <1>19, <1>20, <1>21,
      <1>22, <1>23, <1>24 DEF Next, RunStep, FFStep, User

(* An instance that forks has no child left. *)
LEMMA OneChildStep ==
  ASSUME TypeOK, HasItem, Alone, Owned, OneChild, [Next]_vars
  PROVE  OneChild'
<1> USE DEF TypeOK
<1> USE DEF OneChild, Busy, fileVars, runVars, Goto
<1>1. ASSUME NEW y \in Instances, Collect(y)
      PROVE  OneChild'
  BY <1>1 DEF Collect
<1>2. ASSUME NEW y \in Instances, Finished(y)
      PROVE  OneChild'
  BY <1>2 DEF Finished
<1>3. ASSUME NEW y \in Instances, ShouldEncode(y)
      PROVE  OneChild'
  BY <1>3 DEF ShouldEncode
<1>4. ASSUME NEW y \in Instances, CheckSize(y)
      PROVE  OneChild'
  BY <1>4 DEF CheckSize, Skip, Raise
<1>5. ASSUME NEW y \in Instances, MakePath(y) \/ NoScreenshotDir(y)
      PROVE  OneChild'
  BY <1>5 DEF MakePath, NoScreenshotDir, Raise
<1>6. ASSUME NEW y \in Instances, Transcode(y)
      PROVE  OneChild'
  BY <1>6 DEF Transcode
<1>7. ASSUME NEW y \in Instances, RunTranscoder(y)
      PROVE  OneChild'
  <2>1. Busy = {}
    BY <1>7, NoChild DEF RunTranscoder, Spawn
  <2> QED  BY <1>7, <2>1 DEF RunTranscoder, Spawn, Busy
<1>8. ASSUME NEW y \in Instances, TranscoderReturns(y)
      PROVE  OneChild'
  BY <1>8 DEF TranscoderReturns, Reap
<1>9. ASSUME NEW y \in Instances, GetScreenshot(y)
      PROVE  OneChild'
  <2>1. Busy = {}
    BY <1>9, NoChild DEF GetScreenshot, Spawn
  <2> QED  BY <1>9, <2>1 DEF GetScreenshot, Spawn, Busy
<1>10. ASSUME NEW y \in Instances, ScreenshotReturns(y)
      PROVE  OneChild'
  BY <1>10 DEF ScreenshotReturns, Reap
<1>11. ASSUME NEW y \in Instances, Report(y)
      PROVE  OneChild'
  BY <1>11 DEF Report, Skip
<1>12. ASSUME NEW y \in Instances, Kill(y)
      PROVE  OneChild'
  <2>1. kills \in 0..0 /\ kills < 0
    BY <1>12 DEF Kill, Alone, TypeOK
  <2> QED  BY <2>1
<1>13. ASSUME NEW c \in Children, FFInputFails(c)
      PROVE  OneChild'
  BY <1>13 DEF FFInputFails, Exit
<1>14. ASSUME NEW c \in Children, FFOpenOutput(c)
      PROVE  OneChild'
  <2>1. c \in Busy
    BY <1>14 DEF FFOpenOutput, Busy, Free
  <2>2. /\ Busy' = Busy
        /\ \A d \in Busy : /\ child'[d].parent = child[d].parent
                           /\ child'[d].cmd = child[d].cmd
                           /\ child'[d].video = child[d].video
                           /\ child'[d].stage = IF d = c THEN "opened" ELSE child[d].stage
    BY <1>14, <2>1, StageStep DEF FFOpenOutput, Stages
  <2> QED  BY <2>2
<1>15. ASSUME NEW c \in Children, FFCodecFails(c)
      PROVE  OneChild'
  BY <1>15 DEF FFCodecFails, Exit
<1>16. ASSUME NEW c \in Children, FFEncode(c)
      PROVE  OneChild'
  <2>1. c \in Busy
    BY <1>16 DEF FFEncode, Busy, Free
  <2>2. /\ Busy' = Busy
        /\ \A d \in Busy : /\ child'[d].parent = child[d].parent
                           /\ child'[d].cmd = child[d].cmd
                           /\ child'[d].video = child[d].video
                           /\ child'[d].stage = IF d = c THEN "writing" ELSE child[d].stage
    BY <1>16, <2>1, StageStep DEF FFEncode, Stages
  <2> QED  BY <2>2
<1>17. ASSUME NEW c \in Children, FFWriteFails(c)
      PROVE  OneChild'
  BY <1>17 DEF FFWriteFails, Exit
<1>18. ASSUME NEW c \in Children, FFFinish(c)
      PROVE  OneChild'
  BY <1>18 DEF FFFinish, Exit
<1>19. ASSUME NEW c \in Children, FFExit(c)
      PROVE  OneChild'
  BY <1>19 DEF FFExit, Exit
<1>20. ASSUME NEW v \in Videos, Arrive(v)
      PROVE  OneChild'
  BY <1>20 DEF Arrive
<1>21. ASSUME NEW v \in Videos, Complete(v)
      PROVE  OneChild'
  BY <1>21 DEF Complete
<1>22. ASSUME NEW v \in Videos, RemoveVideo(v)
      PROVE  OneChild'
  BY <1>22 DEF RemoveVideo
<1>23. ASSUME NEW t \in Targets, DeleteTarget(t)
      PROVE  OneChild'
  BY <1>23 DEF DeleteTarget
<1>24. CASE UNCHANGED vars
  BY <1>24 DEF vars, fileVars, runVars
<1> HIDE DEF OneChild, Busy, fileVars, runVars, Goto
<1> QED
  BY <1>1, <1>2, <1>3, <1>4, <1>5, <1>6, <1>7, <1>8, <1>9, <1>10, <1>11,
      <1>12, <1>13, <1>14, <1>15, <1>16, <1>17, <1>18, <1>19, <1>20, <1>21,
      <1>22, <1>23, <1>24 DEF Next, RunStep, FFStep, User

(* Between the last look at the target and the fork no process runs. *)
LEMMA FreshStep ==
  ASSUME TypeOK, HasItem, Alone, Owned, Fresh, [Next]_vars
  PROVE  Fresh'
<1> USE DEF TypeOK
<1> USE DEF Fresh, File, Item, Busy, fileVars, runVars, Goto
<1>1. ASSUME NEW y \in Instances, Collect(y)
      PROVE  Fresh'
  BY <1>1 DEF Collect
<1>2. ASSUME NEW y \in Instances, Finished(y)
      PROVE  Fresh'
  BY <1>2 DEF Finished
<1>3. ASSUME NEW y \in Instances, ShouldEncode(y)
      PROVE  Fresh'
  BY <1>3 DEF ShouldEncode
<1>4. ASSUME NEW y \in Instances, CheckSize(y)
      PROVE  Fresh'
  BY <1>4 DEF CheckSize, Skip, Raise
<1>5. ASSUME NEW y \in Instances, MakePath(y) \/ NoScreenshotDir(y)
      PROVE  Fresh'
  BY <1>5 DEF MakePath, NoScreenshotDir, Raise
<1>6. ASSUME NEW y \in Instances, Transcode(y)
      PROVE  Fresh'
  BY <1>6 DEF Transcode
<1>7. ASSUME NEW y \in Instances, RunTranscoder(y)
      PROVE  Fresh'
  BY <1>7 DEF RunTranscoder, Spawn
<1>8. ASSUME NEW y \in Instances, TranscoderReturns(y)
      PROVE  Fresh'
  BY <1>8 DEF TranscoderReturns, Reap
<1>9. ASSUME NEW y \in Instances, GetScreenshot(y)
      PROVE  Fresh'
  BY <1>9 DEF GetScreenshot, Spawn
<1>10. ASSUME NEW y \in Instances, ScreenshotReturns(y)
      PROVE  Fresh'
  BY <1>10 DEF ScreenshotReturns, Reap
<1>11. ASSUME NEW y \in Instances, Report(y)
      PROVE  Fresh'
  BY <1>11 DEF Report, Skip
<1>12. ASSUME NEW y \in Instances, Kill(y)
      PROVE  Fresh'
  <2>1. kills \in 0..0 /\ kills < 0
    BY <1>12 DEF Kill, Alone, TypeOK
  <2> QED  BY <2>1
<1>13. ASSUME NEW c \in Children, FFInputFails(c)
      PROVE  Fresh'
  BY <1>13 DEF FFInputFails, Exit
<1>14. ASSUME NEW c \in Children, FFOpenOutput(c)
      PROVE  Fresh'
  <2>1. Busy # {}
    BY <1>14 DEF FFOpenOutput, Free
  <2>2. \A y \in Instances : pc'[y] # "fork"
    BY <1>14, <2>1, NoChild DEF FFOpenOutput
  <2> QED  BY <2>2
<1>15. ASSUME NEW c \in Children, FFCodecFails(c)
      PROVE  Fresh'
  BY <1>15 DEF FFCodecFails, Exit
<1>16. ASSUME NEW c \in Children, FFEncode(c)
      PROVE  Fresh'
  <2>1. Busy # {}
    BY <1>16 DEF FFEncode, Free
  <2>2. \A y \in Instances : pc'[y] # "fork"
    BY <1>16, <2>1, NoChild DEF FFEncode
  <2> QED  BY <2>2
<1>17. ASSUME NEW c \in Children, FFWriteFails(c)
      PROVE  Fresh'
  BY <1>17 DEF FFWriteFails, Exit
<1>18. ASSUME NEW c \in Children, FFFinish(c)
      PROVE  Fresh'
  <2>1. Busy # {}
    BY <1>18 DEF FFFinish, Free
  <2>2. \A y \in Instances : pc'[y] # "fork"
    BY <1>18, <2>1, NoChild DEF FFFinish
  <2> QED  BY <2>2
<1>19. ASSUME NEW c \in Children, FFExit(c)
      PROVE  Fresh'
  BY <1>19 DEF FFExit, Exit
<1>20. ASSUME NEW v \in Videos, Arrive(v)
      PROVE  Fresh'
  BY <1>20 DEF Arrive
<1>21. ASSUME NEW v \in Videos, Complete(v)
      PROVE  Fresh'
  BY <1>21 DEF Complete
<1>22. ASSUME NEW v \in Videos, RemoveVideo(v)
      PROVE  Fresh'
  BY <1>22 DEF RemoveVideo
<1>23. ASSUME NEW t \in Targets, DeleteTarget(t)
      PROVE  Fresh'
  BY <1>23 DEF DeleteTarget
<1>24. CASE UNCHANGED vars
  BY <1>24 DEF vars, fileVars, runVars
<1> HIDE DEF Fresh, File, Item, Busy, fileVars, runVars, Goto
<1> QED
  BY <1>1, <1>2, <1>3, <1>4, <1>5, <1>6, <1>7, <1>8, <1>9, <1>10, <1>11,
      <1>12, <1>13, <1>14, <1>15, <1>16, <1>17, <1>18, <1>19, <1>20, <1>21,
      <1>22, <1>23, <1>24 DEF Next, RunStep, FFStep, User

(* Only its one encode changes a target, or the user who deletes it. *)
LEMMA InStepStep ==
  ASSUME TypeOK, HasItem, Alone, Owned, OneChild, Fresh, InStep, [Next]_vars
  PROVE  InStep'
<1> USE DEF TypeOK
<1> USE DEF InStep, OneChild, Fresh, File, Busy, fileVars, runVars, Goto
<1>1. ASSUME NEW y \in Instances, Collect(y)
      PROVE  InStep'
  BY <1>1 DEF Collect
<1>2. ASSUME NEW y \in Instances, Finished(y)
      PROVE  InStep'
  BY <1>2 DEF Finished
<1>3. ASSUME NEW y \in Instances, ShouldEncode(y)
      PROVE  InStep'
  BY <1>3 DEF ShouldEncode
<1>4. ASSUME NEW y \in Instances, CheckSize(y)
      PROVE  InStep'
  BY <1>4 DEF CheckSize, Skip, Raise
<1>5. ASSUME NEW y \in Instances, MakePath(y) \/ NoScreenshotDir(y)
      PROVE  InStep'
  BY <1>5 DEF MakePath, NoScreenshotDir, Raise
<1>6. ASSUME NEW y \in Instances, Transcode(y)
      PROVE  InStep'
  BY <1>6 DEF Transcode
<1>7. ASSUME NEW y \in Instances, RunTranscoder(y)
      PROVE  InStep'
  BY <1>7 DEF RunTranscoder, Spawn
<1>8. ASSUME NEW y \in Instances, TranscoderReturns(y)
      PROVE  InStep'
  BY <1>8 DEF TranscoderReturns, Reap
<1>9. ASSUME NEW y \in Instances, GetScreenshot(y)
      PROVE  InStep'
  BY <1>9 DEF GetScreenshot, Spawn
<1>10. ASSUME NEW y \in Instances, ScreenshotReturns(y)
      PROVE  InStep'
  BY <1>10 DEF ScreenshotReturns, Reap
<1>11. ASSUME NEW y \in Instances, Report(y)
      PROVE  InStep'
  BY <1>11 DEF Report, Skip
<1>12. ASSUME NEW y \in Instances, Kill(y)
      PROVE  InStep'
  <2>1. kills \in 0..0 /\ kills < 0
    BY <1>12 DEF Kill, Alone, TypeOK
  <2> QED  BY <2>1
<1>13. ASSUME NEW c \in Children, FFInputFails(c)
      PROVE  InStep'
  BY <1>13 DEF FFInputFails, Exit
<1>14. ASSUME NEW c \in Children, FFOpenOutput(c)
      PROVE  InStep'
  <2>1. c \in Busy
    BY <1>14 DEF FFOpenOutput, Busy, Free
  <2>2. /\ Busy' = Busy
        /\ \A d \in Busy : /\ child'[d].parent = child[d].parent
                           /\ child'[d].cmd = child[d].cmd
                           /\ child'[d].video = child[d].video
                           /\ child'[d].stage = IF d = c THEN "opened" ELSE child[d].stage
    BY <1>14, <2>1, StageStep DEF FFOpenOutput, Stages
  <2>3. TargetOf[child[c].video] \in Targets
    BY <2>1, TargetAssumption DEF Process
  <2>4. \A d \in Busy : d = c
    BY <2>1
  <2>5. child[c].cmd = "transcode" /\ target'[TargetOf[child[c].video]] = "tiny"
    BY <1>14, <2>3 DEF FFOpenOutput
  <2> HIDE DEF Busy
  <2> QED  BY <2>2, <2>4, <2>5
<1>15. ASSUME NEW c \in Children, FFCodecFails(c)
      PROVE  InStep'
  BY <1>15 DEF FFCodecFails, Exit
<1>16. ASSUME NEW c \in Children, FFEncode(c)
      PROVE  InStep'
  <2>1. c \in Busy
    BY <1>16 DEF FFEncode, Busy, Free
  <2>2. /\ Busy' = Busy
        /\ \A d \in Busy : /\ child'[d].parent = child[d].parent
                           /\ child'[d].cmd = child[d].cmd
                           /\ child'[d].video = child[d].video
                           /\ child'[d].stage = IF d = c THEN "writing" ELSE child[d].stage
    BY <1>16, <2>1, StageStep DEF FFEncode, Stages
  <2>3. TargetOf[child[c].video] \in Targets
    BY <2>1, TargetAssumption DEF Process
  <2>4. \A d \in Busy : d = c
    BY <2>1
  <2>5. child[c].cmd = "transcode" /\ target'[TargetOf[child[c].video]] = "half"
    BY <1>16, <2>1, <2>3 DEF FFEncode
  <2> HIDE DEF Busy
  <2> QED  BY <2>2, <2>4, <2>5
<1>17. ASSUME NEW c \in Children, FFWriteFails(c)
      PROVE  InStep'
  BY <1>17 DEF FFWriteFails, Exit
<1>18. ASSUME NEW c \in Children, FFFinish(c)
      PROVE  InStep'
  <2>1. c \in Busy
    BY <1>18 DEF FFFinish, Free
  <2>2. Busy' = {}
    BY <1>18, <2>1 DEF FFFinish, Exit
  <2> QED  BY <2>2
<1>19. ASSUME NEW c \in Children, FFExit(c)
      PROVE  InStep'
  BY <1>19 DEF FFExit, Exit
<1>20. ASSUME NEW v \in Videos, Arrive(v)
      PROVE  InStep'
  BY <1>20 DEF Arrive
<1>21. ASSUME NEW v \in Videos, Complete(v)
      PROVE  InStep'
  BY <1>21 DEF Complete
<1>22. ASSUME NEW v \in Videos, RemoveVideo(v)
      PROVE  InStep'
  BY <1>22 DEF RemoveVideo
<1>23. ASSUME NEW t \in Targets, DeleteTarget(t)
      PROVE  InStep'
  <2>1. ASSUME NEW c \in Busy
        PROVE  /\ Writes(c, t) => child'[c] = [child[c] EXCEPT !.stage = "unlinked"]
               /\ ~Writes(c, t) => child'[c] = child[c]
    BY <1>23, <2>1 DEF DeleteTarget
  <2>2. Busy' = Busy
    BY <1>23 DEF DeleteTarget, Process, Free
  <2>3. ASSUME NEW c \in Busy, Writes(c, t)
        PROVE  /\ child'[c].cmd = "transcode" /\ child'[c].stage = "unlinked"
    <3>1. child[c] \in Process
      OBVIOUS
    <3>2. child[c].cmd = "transcode"
      BY <2>3 DEF Writes
    <3>3. /\ [child[c] EXCEPT !.stage = "unlinked"].cmd = child[c].cmd
          /\ [child[c] EXCEPT !.stage = "unlinked"].stage = "unlinked"
      BY <3>1 DEF Process
    <3> QED  BY <2>1, <2>3, <3>2, <3>3
  <2>4. ASSUME NEW c \in Busy, ~Writes(c, t)
        PROVE  /\ child'[c] = child[c]
               /\ File(child[c].video)' \in {File(child[c].video), "absent"}
               /\ child[c].stage \in {"opened", "writing"} =>
                    File(child[c].video)' = File(child[c].video)
    BY <1>23, <2>1, <2>4, TargetAssumption DEF DeleteTarget, Writes, Process
  <2> HIDE DEF Busy
  <2> QED  BY <2>2, <2>3, <2>4
<1>24. CASE UNCHANGED vars
  BY <1>24 DEF vars, fileVars, runVars
<1> HIDE DEF InStep, OneChild, Fresh, File, Busy, fileVars, runVars, Goto
<1> QED
  BY <1>1, <1>2, <1>3, <1>4, <1>5, <1>6, <1>7, <1>8, <1>9, <1>10, <1>11,
      <1>12, <1>13, <1>14, <1>15, <1>16, <1>17, <1>18, <1>19, <1>20, <1>21,
      <1>22, <1>23, <1>24 DEF Next, RunStep, FFStep, User

-------------------------------------------------------------------------------
(* SkipsExisting.  What was there when the run began is there until somebody  *)
(* deletes it: its own encodes never open it.                                 *)

StillThere == \A y \in Instances : \A v \in already[y] : File(v) \notin {"absent", "tiny"}

(* Opening a target is what could take it away, and Fresh forbids it. *)
LEMMA StillThereStep ==
  ASSUME AInv, StillThere, [Next]_vars
  PROVE  StillThere'
<1> USE DEF StillThere, File, fileVars, runVars
<1>1. ASSUME NEW y \in Instances, Collect(y)
      PROVE  StillThere'
  BY <1>1 DEF Collect, AInv, TypeOK
<1>2. ASSUME NEW y \in Instances, RunStep(y) \/ Kill(y)
      PROVE  StillThere'
  <2>1. UNCHANGED <<target, already>>
    BY <1>2 DEF RunStep, Kill, Finished, ShouldEncode, CheckSize, MakePath, Transcode,
                RunTranscoder, GetScreenshot, Spawn, TranscoderReturns, NoScreenshotDir,
                ScreenshotReturns, Reap, Report
  <2> QED  BY <2>1
<1>3. ASSUME NEW c \in Children, FFOpenOutput(c)
      PROVE  StillThere'
  <2>1. c \in Busy /\ File(child[c].video) = "absent"
    BY <1>3 DEF FFOpenOutput, AInv, InStep, Busy, Free
  <2>2. \A y \in Instances : \A v \in already[y] : TargetOf[v] # TargetOf[child[c].video]
    BY <2>1
  <2>3. already \in [Instances -> SUBSET Videos] /\ target \in [Targets -> FileStates]
    BY DEF AInv, TypeOK
  <2>4. \A t \in Targets : t # TargetOf[child[c].video] => target'[t] = target[t]
    BY <1>3, <2>3 DEF FFOpenOutput
  <2>5. UNCHANGED already
    BY <1>3 DEF FFOpenOutput
  <2> QED  BY <2>2, <2>3, <2>4, <2>5, TargetAssumption
<1>4. ASSUME NEW c \in Children, FFEncode(c) \/ FFFinish(c)
      PROVE  StillThere'
  <2>1. target \in [Targets -> FileStates] /\ already \in [Instances -> SUBSET Videos]
    BY DEF AInv, TypeOK
  <2>2. PICK r \in FileStates \ {"absent", "tiny"} :
          target' = [target EXCEPT ![TargetOf[child[c].video]] = r]
    BY <1>4 DEF FFEncode, FFFinish, Results, Playable, FileStates
  <2>3. UNCHANGED already
    BY <1>4 DEF FFEncode, FFFinish
  <2>4. \A t \in Targets : target'[t] \in {target[t], r}
    BY <2>1, <2>2
  <2> QED  BY <2>1, <2>2, <2>3, <2>4, TargetAssumption
<1>5. ASSUME NEW c \in Children, FFInputFails(c) \/ FFCodecFails(c) \/ FFWriteFails(c) \/ FFExit(c)
      PROVE  StillThere'
  BY <1>5 DEF FFInputFails, FFCodecFails, FFWriteFails, FFExit
<1>6. ASSUME NEW t \in Targets, DeleteTarget(t)
      PROVE  StillThere'
  <2>1. already \in [Instances -> SUBSET Videos] /\ target \in [Targets -> FileStates]
    BY DEF AInv, TypeOK
  <2>2. \A y \in Instances : \A v \in already'[y] : v \in already[y] /\ TargetOf[v] # t
    BY <1>6 DEF DeleteTarget
  <2>3. \A u \in Targets : u # t => target'[u] = target[u]
    BY <1>6, <2>1 DEF DeleteTarget
  <2> QED  BY <2>1, <2>2, <2>3, TargetAssumption
<1>7. ASSUME NEW v \in Videos, Arrive(v) \/ Complete(v) \/ RemoveVideo(v)
      PROVE  StillThere'
  BY <1>7 DEF Arrive, Complete, RemoveVideo
<1>8. CASE UNCHANGED vars
  BY <1>8 DEF vars
<1> QED
  BY <1>1, <1>2, <1>3, <1>4, <1>5, <1>6, <1>7, <1>8 DEF Next, FFStep, User

(* An item gets past should_encode? only if its target was not there when the *)
(* run began, and it is the only item that can get reported.                  *)
LEMMA SkipsStep ==
  ASSUME AInv, StillThere, SkipsExisting, Alone, [Next]_vars
  PROVE  SkipsExisting'
<1> USE DEF fileVars, runVars
<1>1. /\ pc \in [Instances -> Labels] /\ batch \in [Instances -> Seq(Videos)]
      /\ succeeded \in [Instances -> SUBSET Videos] /\ already \in [Instances -> SUBSET Videos]
  BY DEF AInv, TypeOK
<1>2. ASSUME NEW y \in Instances, Collect(y)
      PROVE  SkipsExisting'
  BY <1>1, <1>2 DEF Collect, SkipsExisting, Item, Goto
<1>3. ASSUME NEW y \in Instances, ShouldEncode(y)
      PROVE  SkipsExisting'
  BY <1>1, <1>3 DEF ShouldEncode, SkipsExisting, StillThere, Item
<1>4. ASSUME NEW y \in Instances, CheckSize(y)
      PROVE  SkipsExisting'
  BY <1>1, <1>4 DEF CheckSize, SkipsExisting, StillThere, Item, Goto, Skip, Raise
<1>5. ASSUME NEW y \in Instances, MakePath(y) \/ NoScreenshotDir(y)
      PROVE  SkipsExisting'
  BY <1>1, <1>5 DEF MakePath, NoScreenshotDir, SkipsExisting, Item, Goto, Raise
<1>6. ASSUME NEW y \in Instances,
             \/ Finished(y) \/ Transcode(y) \/ RunTranscoder(y) \/ TranscoderReturns(y)
             \/ GetScreenshot(y) \/ ScreenshotReturns(y)
      PROVE  SkipsExisting'
  <2>1. UNCHANGED runVars
    BY <1>6 DEF Finished, Transcode, RunTranscoder, GetScreenshot, Spawn,
                TranscoderReturns, ScreenshotReturns, Reap
  <2>2. \A z \in Instances : pc'[z] \notin {"idle", "next", "size"} =>
                              pc[z] \notin {"idle", "next", "size"}
    BY <1>1, <1>6 DEF Finished, Transcode, RunTranscoder, GetScreenshot, Spawn,
                      TranscoderReturns, ScreenshotReturns, Reap, Goto
  <2> QED  BY <2>1, <2>2 DEF SkipsExisting, Item
<1>7. ASSUME NEW y \in Instances, Report(y)
      PROVE  SkipsExisting'
  <2>1. Item(y) \notin already[y]
    BY <1>7 DEF Report, Goto, SkipsExisting
  <2> QED  BY <1>1, <1>7, <2>1 DEF Report, Skip, Goto, SkipsExisting, Item
<1>8. ASSUME NEW y \in Instances, Kill(y)
      PROVE  SkipsExisting'
  <2>1. kills \in 0..0 /\ kills < 0
    BY <1>8 DEF Kill, Alone, AInv, TypeOK
  <2> QED  BY <2>1
<1>9. ASSUME NEW c \in Children, FFStep(c)
      PROVE  SkipsExisting'
  <2>1. UNCHANGED <<pc, batch, succeeded, already>>
    BY <1>9 DEF FFStep, FFInputFails, FFOpenOutput, FFCodecFails, FFEncode, FFWriteFails,
                FFFinish, FFExit
  <2> QED  BY <2>1 DEF SkipsExisting, Item
<1>10. CASE User
  <2>1. UNCHANGED <<pc, batch, succeeded>> /\ \A y \in Instances : already'[y] \subseteq already[y]
    BY <1>10 DEF User, Arrive, Complete, RemoveVideo, DeleteTarget
  <2> QED  BY <2>1 DEF SkipsExisting, Item
<1>11. CASE UNCHANGED vars
  BY <1>11 DEF vars, SkipsExisting, Item
<1> QED
  BY <1>2, <1>3, <1>4, <1>5, <1>6, <1>7, <1>8, <1>9, <1>10, <1>11 DEF Next, RunStep

-------------------------------------------------------------------------------
(* Any number of programs, any number of them killed: whose the processes are *)

\* The processes that a program waits for, and those nobody waits for.
Kids    == {c \in Busy : child[c].parent \in Instances}
Orphans == {c \in Busy : child[c].parent = Nobody}

WaitedFor == \A c \in Kids : pc[child[c].parent] = WaitsAt(child[c].cmd)
OneEach   == \A c, d \in Kids : child[c].parent = child[d].parent => c = d
FewOrphans == IsFiniteSet(Orphans) /\ Cardinality(Orphans) <= kills

KinInv == WaitedFor /\ OneEach /\ FewOrphans

(* The families stay as they are, but for processes that end. *)
KeepsKin == \A c \in Busy' : /\ c \in Busy
                             /\ child'[c].parent = child[c].parent
                             /\ child'[c].cmd = child[c].cmd

(* ffmpeg, and a user who deletes its target, do not change whose it is. *)
LEMMA FilesKeepKin ==
  ASSUME TypeOK, (\E c \in Children : FFStep(c)) \/ User
  PROVE  KeepsKin /\ UNCHANGED <<pc, kills>>
<1> USE DEF fileVars, runVars
<1>0. child \in [Children -> Process \cup {Free}]
  BY DEF TypeOK
<1>1. ASSUME NEW c \in Children, FFStep(c)
      PROVE  KeepsKin /\ UNCHANGED <<pc, kills>>
  <2>1. UNCHANGED <<pc, kills>>
    BY <1>1 DEF FFStep, FFInputFails, FFOpenOutput, FFCodecFails, FFEncode, FFWriteFails,
                FFFinish, FFExit
  <2>2. \/ Exit(c)
        \/ child[c] # Free /\ \E s \in Stages : child' = [child EXCEPT ![c].stage = s]
    BY <1>1 DEF FFStep, FFInputFails, FFOpenOutput, FFCodecFails, FFEncode, FFWriteFails,
                FFFinish, FFExit, Stages, Free
  <2>3. ASSUME Exit(c)
        PROVE  KeepsKin
    <3>0. child = [d \in Children |-> child[d]]
      BY <1>0
    <3>1. \A d \in Children : d # c => child'[d] = child[d]
      BY <2>3 DEF Exit
    <3>2. child'[c] = Free
      BY <2>3, <3>0 DEF Exit
    <3> QED  BY <3>1, <3>2 DEF KeepsKin, Busy
  <2>4. ASSUME child[c] # Free, NEW s \in Stages, child' = [child EXCEPT ![c].stage = s]
        PROVE  KeepsKin
    BY <2>4, StageStep DEF KeepsKin, Busy
  <2> QED  BY <2>1, <2>2, <2>3, <2>4
<1>2. ASSUME NEW t \in Targets, DeleteTarget(t)
      PROVE  KeepsKin /\ UNCHANGED <<pc, kills>>
  <2>1. \A c \in Children : \/ child'[c] = child[c]
                            \/ c \in Busy /\ child'[c] = [child[c] EXCEPT !.stage = "unlinked"]
    BY <1>2 DEF DeleteTarget
  <2>2. \A p \in Process : /\ [p EXCEPT !.stage = "unlinked"].parent = p.parent
                           /\ [p EXCEPT !.stage = "unlinked"].cmd = p.cmd
    BY DEF Process
  <2>3. \A c \in Busy : child[c] \in Process
    BY <1>0 DEF Busy
  <2>4. KeepsKin
    BY <2>1, <2>2, <2>3 DEF KeepsKin, Busy
  <2> QED  BY <1>2, <2>4 DEF DeleteTarget
<1>3. ASSUME NEW v \in Videos, Arrive(v) \/ Complete(v) \/ RemoveVideo(v)
      PROVE  KeepsKin /\ UNCHANGED <<pc, kills>>
  BY <1>3 DEF Arrive, Complete, RemoveVideo, KeepsKin, Busy
<1> QED  BY <1>1, <1>2, <1>3 DEF User

(* A program that does not fork leaves all processes alone, and goes on from  *)
(* where it waits only when its child is gone.                                *)
LEMMA RunKeepsKin ==
  ASSUME TypeOK, WaitedFor, NEW y \in Instances,
         \/ Collect(y) \/ Finished(y) \/ ShouldEncode(y) \/ CheckSize(y) \/ MakePath(y)
         \/ Transcode(y) \/ TranscoderReturns(y) \/ NoScreenshotDir(y) \/ ScreenshotReturns(y)
         \/ Report(y)
  PROVE  /\ UNCHANGED <<child, kills>>
         /\ \A z \in Instances : z # y => pc'[z] = pc[z]
         /\ \A c \in Kids : child[c].parent # y
<1> USE DEF fileVars, runVars
<1>1. UNCHANGED <<child, kills>>
  BY DEF Collect, Finished, ShouldEncode, CheckSize, MakePath, Transcode, TranscoderReturns,
         NoScreenshotDir, ScreenshotReturns, Reap, Report
<1>2. \A z \in Instances : z # y => pc'[z] = pc[z]
  BY DEF TypeOK, Goto, Raise, Collect, Finished, ShouldEncode, CheckSize, MakePath, Transcode,
         TranscoderReturns, NoScreenshotDir, ScreenshotReturns, Reap, Report
<1>3. ASSUME NEW c \in Kids, child[c].parent = y
      PROVE  FALSE
  <2>1. c \in Busy /\ pc[y] = WaitsAt(child[c].cmd)
    BY <1>3 DEF WaitedFor, Kids
  <2>2. CASE TranscoderReturns(y)
    <3>1. pc[y] = "wait" /\ child[c].cmd # "transcode"
      BY <1>3, <2>1, <2>2 DEF TranscoderReturns, Reap, Goto
    <3> QED  BY <2>1, <3>1 DEF WaitsAt
  <2>3. CASE ScreenshotReturns(y)
    <3>1. pc[y] = "waitshot" /\ child[c].cmd # "screenshot"
      BY <1>3, <2>1, <2>3 DEF ScreenshotReturns, Reap, Goto
    <3>2. child[c].cmd \in {"transcode", "screenshot"}
      BY <2>1 DEF TypeOK, Process, Busy
    <3> QED  BY <2>1, <3>1, <3>2 DEF WaitsAt
  <2>4. CASE Collect(y) \/ Finished(y) \/ ShouldEncode(y) \/ CheckSize(y) \/ MakePath(y)
             \/ Transcode(y) \/ NoScreenshotDir(y) \/ Report(y)
    <3>1. pc[y] \notin {"wait", "waitshot"}
      BY <2>4 DEF Goto, Collect, Finished, ShouldEncode, CheckSize, MakePath, Transcode,
                    NoScreenshotDir, Report
    <3> QED  BY <2>1, <3>1 DEF WaitsAt
  <2> QED  BY <2>2, <2>3, <2>4
<1> QED  BY <1>1, <1>2, <1>3

(* A program that forks has no child, and waits for the one it gets. *)
LEMMA SpawnKin ==
  ASSUME TypeOK, HasItem, KinInv, NEW y \in Instances,
         RunTranscoder(y) \/ GetScreenshot(y)
  PROVE  KinInv'
<1>0. child \in [Children -> Process \cup {Free}] /\ pc = [z \in Instances |-> pc[z]]
  BY DEF TypeOK
<1>1. PICK cmd \in {"transcode", "screenshot"}, from \in {"fork", "screenshot"} :
        Spawn(y, from, WaitsAt(cmd), cmd)
  BY DEF RunTranscoder, GetScreenshot, WaitsAt
<1>2. PICK c \in Children :
        /\ child[c] = Free
        /\ child' = [child EXCEPT ![c] = [stage |-> "started", cmd |-> cmd,
                                          video |-> Item(y), parent |-> y]]
  BY <1>1 DEF Spawn
<1>3. /\ pc[y] \in {"fork", "screenshot"} /\ kills' = kills
      /\ pc' = [pc EXCEPT ![y] = WaitsAt(cmd)]
  BY <1>1 DEF Spawn, Goto
<1>4. /\ child'[c].cmd = cmd /\ child'[c].parent = y /\ c \notin Busy
      /\ \A d \in Children : d # c => child'[d] = child[d]
  BY <1>0, <1>2 DEF Busy
<1>5. \A d \in Busy' : d = c \/ (d \in Busy /\ child'[d] = child[d])
  BY <1>4 DEF Busy
<1>6. \A d \in Kids : child[d].parent # y
  BY <1>3 DEF KinInv, WaitedFor, WaitsAt
<1>7. \A d \in Kids' : d = c \/ (d \in Kids /\ child'[d] = child[d])
  BY <1>5 DEF Kids
<1>8. WaitedFor'
  <2> SUFFICES ASSUME NEW d \in Kids'
               PROVE  pc'[child'[d].parent] = WaitsAt(child'[d].cmd)
    BY DEF WaitedFor
  <2>1. CASE d = c
    BY <1>0, <1>3, <1>4, <2>1
  <2>2. CASE d \in Kids /\ child'[d] = child[d]
    <3>1. child[d].parent \in Instances /\ child[d].parent # y
      BY <1>6, <2>2 DEF Kids
    <3>2. pc'[child[d].parent] = pc[child[d].parent]
      BY <1>0, <1>3, <3>1
    <3> QED  BY <2>2, <3>2 DEF KinInv, WaitedFor
  <2> QED  BY <1>7, <2>1, <2>2
<1>9. OneEach'
  BY <1>4, <1>6, <1>7 DEF KinInv, OneEach
<1>10. FewOrphans'
  <2>1. y # Nobody
    BY NobodyAssumption
  <2>2. Orphans' = Orphans
    BY <1>4, <1>5, <2>1 DEF Orphans, Busy
  <2> QED  BY <1>3, <2>2 DEF KinInv, FewOrphans
<1> QED  BY <1>8, <1>9, <1>10 DEF KinInv

(* A kill makes an orphan of the one process its victim has. *)
LEMMA KillKin ==
  ASSUME TypeOK, KinInv, NEW y \in Instances, Kill(y)
  PROVE  KinInv'
<1>0. child \in [Children -> Process \cup {Free}] /\ pc = [z \in Instances |-> pc[z]]
  BY DEF TypeOK
<1>1. /\ kills' = kills + 1 /\ kills \in Nat
      /\ \A z \in Instances : z # y => pc'[z] = pc[z]
  BY <1>0, SwitchAssumption DEF Kill, Raise, TypeOK
<1>2. PICK interrupt \in {FALSE, "interrupt" \in Failures} :
        child' = [c \in Children |->
                   IF c \notin Busy \/ child[c].parent # y THEN child[c]
                   ELSE LET orphan == [child[c] EXCEPT !.parent = Nobody]
                        IN IF interrupt THEN Signalled(orphan) ELSE orphan]
  BY DEF Kill
<1>3. ASSUME NEW c \in Children, c \notin Busy \/ child[c].parent # y
      PROVE  child'[c] = child[c]
  BY <1>2, <1>3
<1>4. ASSUME NEW c \in Busy, child[c].parent = y
      PROVE  child'[c] = Free \/ child'[c].parent = Nobody
  <2> DEFINE orphan == [child[c] EXCEPT !.parent = Nobody]
  <2>1. child[c] \in Process /\ c \in Children
    BY <1>0 DEF Busy
  <2>2. orphan \in Process /\ orphan.parent = Nobody
    BY <2>1 DEF Process
  <2>3. child'[c] \in {orphan, Signalled(orphan)}
    BY <1>2, <1>4, <2>1
  <2>4. [orphan EXCEPT !.stage = "stopping"].parent = Nobody
    BY <2>2 DEF Process
  <2> HIDE DEF orphan
  <2>5. Signalled(orphan) \in {[orphan EXCEPT !.stage = "stopping"], Free, orphan}
    BY DEF Signalled
  <2> QED  BY <2>2, <2>3, <2>4, <2>5
<1>5. \A c \in Kids' : c \in Kids /\ child'[c] = child[c] /\ child[c].parent # y
  <2> SUFFICES ASSUME NEW c \in Kids'
               PROVE  c \in Kids /\ child'[c] = child[c] /\ child[c].parent # y
    OBVIOUS
  <2>1. c \in Children /\ child'[c] # Free /\ child'[c].parent \in Instances
    BY DEF Kids, Busy
  <2>2. c \notin Busy \/ child[c].parent # y
    BY <1>4, <2>1, NobodyAssumption
  <2>3. child'[c] = child[c]
    BY <1>3, <2>1, <2>2
  <2> QED  BY <2>1, <2>2, <2>3 DEF Kids, Busy
<1>6. WaitedFor'
  BY <1>1, <1>5 DEF KinInv, WaitedFor, Kids
<1>7. OneEach'
  BY <1>5 DEF KinInv, OneEach
<1>8. FewOrphans'
  <2>1. \A c \in Orphans' : c \in Orphans \/ (c \in Kids /\ child[c].parent = y)
    BY <1>3 DEF Orphans, Kids, Busy
  <2>2. PICK e : Orphans' \subseteq Orphans \cup {e}
    BY <2>1 DEF KinInv, OneEach
  <2>3. /\ IsFiniteSet(Orphans \cup {e})
        /\ Cardinality(Orphans \cup {e}) <= kills + 1
    <3>1. IsFiniteSet(Orphans) /\ Cardinality(Orphans) <= kills /\ Cardinality(Orphans) \in Nat
      BY FS_CardinalityType DEF KinInv, FewOrphans
    <3>2. /\ IsFiniteSet(Orphans \cup {e})
          /\ Cardinality(Orphans \cup {e}) \in {Cardinality(Orphans), Cardinality(Orphans) + 1}
      BY <3>1, FS_AddElement
    <3> QED  BY <1>1, <3>1, <3>2
  <2>4. IsFiniteSet(Orphans') /\ Cardinality(Orphans') <= Cardinality(Orphans \cup {e})
    BY <2>2, <2>3, FS_Subset
  <2>5. Cardinality(Orphans') \in Nat /\ Cardinality(Orphans \cup {e}) \in Nat
    BY <2>3, <2>4, FS_CardinalityType
  <2> QED  BY <1>1, <2>3, <2>4, <2>5 DEF FewOrphans
<1> QED  BY <1>6, <1>7, <1>8 DEF KinInv

(* Every step keeps the families in order. *)
LEMMA KinStep ==
  ASSUME TypeOK, HasItem, KinInv, [Next]_vars
  PROVE  KinInv'
<1>1. ASSUME KeepsKin, UNCHANGED <<pc, kills>>
      PROVE  KinInv'
  <2>1. Orphans' \in SUBSET Orphans /\ \A c \in Kids' : c \in Kids
    BY <1>1 DEF KeepsKin, Orphans, Kids
  <2>2. WaitedFor' /\ OneEach'
    BY <1>1, <2>1 DEF KinInv, WaitedFor, OneEach, KeepsKin, Kids
  <2>3. FewOrphans'
    <3>1. IsFiniteSet(Orphans') /\ Cardinality(Orphans') <= Cardinality(Orphans)
      BY <2>1, FS_Subset DEF KinInv, FewOrphans
    <3>2. /\ Cardinality(Orphans') \in Nat /\ Cardinality(Orphans) \in Nat
          /\ kills \in Nat /\ Cardinality(Orphans) <= kills
      BY <3>1, FS_CardinalityType, SwitchAssumption DEF KinInv, FewOrphans, TypeOK
    <3> QED  BY <1>1, <3>1, <3>2 DEF FewOrphans
  <2> QED  BY <2>2, <2>3 DEF KinInv
<1>2. ASSUME (\E c \in Children : FFStep(c)) \/ User
      PROVE  KinInv'
  BY <1>1, <1>2, FilesKeepKin
<1>3. ASSUME NEW y \in Instances, Collect(y) \/ RunStep(y)
      PROVE  KinInv'
  <2>1. CASE RunTranscoder(y) \/ GetScreenshot(y)
    BY <2>1, SpawnKin
  <2>2. ASSUME \/ Collect(y) \/ Finished(y) \/ ShouldEncode(y) \/ CheckSize(y) \/ MakePath(y)
               \/ Transcode(y) \/ TranscoderReturns(y) \/ NoScreenshotDir(y) \/ ScreenshotReturns(y)
               \/ Report(y)
        PROVE  KinInv'
    <3>1. /\ UNCHANGED <<child, kills>>
          /\ \A z \in Instances : z # y => pc'[z] = pc[z]
          /\ \A c \in Kids : child[c].parent # y
      BY <2>2, RunKeepsKin DEF KinInv
    <3>2. Busy' = Busy /\ Kids' = Kids /\ Orphans' = Orphans
      BY <3>1 DEF Busy, Kids, Orphans
    <3>3. \A c \in Kids : child[c].parent \in Instances
      BY DEF Kids
    <3> QED  BY <3>1, <3>2, <3>3 DEF KinInv, WaitedFor, OneEach, FewOrphans
  <2> QED  BY <1>3, <2>1, <2>2 DEF RunStep
<1>4. ASSUME NEW y \in Instances, Kill(y)
      PROVE  KinInv'
  BY <1>4, KillKin
<1>5. CASE UNCHANGED vars
  <2>1. UNCHANGED <<pc, kills, child>>
    BY <1>5 DEF vars
  <2>2. KeepsKin
    BY <2>1 DEF KeepsKin, Busy
  <2> QED  BY <1>1, <2>1, <2>2
<1> QED  BY <1>2, <1>3, <1>4, <1>5 DEF Next

(* The parents of a set of processes that have different ones are as many. *)
LEMMA KidsBounded ==
  ASSUME OneEach, NEW I, I \subseteq Instances, \A c \in Kids : child[c].parent \in I
  PROVE  /\ IsFiniteSet(Kids) /\ IsFiniteSet(I)
         /\ Cardinality(Kids) <= Cardinality(I)
<1> DEFINE f == [c \in Kids |-> child[c].parent]
<1>1. IsFiniteSet(I)
  BY InstancesAssumption, FS_Subset
<1>2. f \in Injection(Kids, I)
  BY DEF Injection, IsInjective, OneEach
<1> HIDE DEF f
<1> QED  BY <1>1, <1>2, FS_Injection

(* A process is a kid or an orphan. *)
LEMMA BusyBounded ==
  ASSUME TypeOK, KinInv, NEW I, I \subseteq Instances, \A c \in Kids : child[c].parent \in I
  PROVE  IsFiniteSet(Busy) /\ Cardinality(Busy) <= Cardinality(I) + kills
<1>1. Busy = Kids \cup Orphans
  BY DEF TypeOK, Process, Busy, Kids, Orphans
<1>2. /\ IsFiniteSet(Kids) /\ IsFiniteSet(Orphans) /\ IsFiniteSet(I)
      /\ Cardinality(Kids) <= Cardinality(I) /\ Cardinality(Orphans) <= kills
  BY KidsBounded DEF KinInv, FewOrphans
<1>3. /\ IsFiniteSet(Kids \cup Orphans)
      /\ Cardinality(Kids \cup Orphans)
           = Cardinality(Kids) + Cardinality(Orphans) - Cardinality(Kids \cap Orphans)
  BY <1>2, FS_Union
<1>4. IsFiniteSet(Kids \cap Orphans)
  BY <1>2, FS_Subset
<1>5. /\ Cardinality(Kids) \in Nat /\ Cardinality(Orphans) \in Nat /\ Cardinality(I) \in Nat
      /\ Cardinality(Kids \cap Orphans) \in Nat /\ kills \in Nat
  BY <1>2, <1>4, FS_CardinalityType, SwitchAssumption DEF TypeOK
<1> QED  BY <1>1, <1>2, <1>3, <1>5

-------------------------------------------------------------------------------
(* The theorems *)

(* Type correctness, with any number of instances, children and kills.       *)
THEOREM TypeCorrect == Spec => []TypeOK
<1>1. Init => TypeOK /\ HasItem
  BY SwitchAssumption DEF Init, TypeOK, HasItem, FileStates, Labels
<1>2. TypeOK /\ HasItem /\ [Next]_vars => (TypeOK /\ HasItem)'
  BY TypeOKStep, HasItemStep
<1> QED  BY <1>1, <1>2, PTL DEF Spec

(* What holds of the program alone in every reachable state. *)
THEOREM AloneInvariance == ASSUME Alone PROVE Spec => []AInv
<1>1. Init => AInv
  BY SwitchAssumption
     DEF Init, AInv, TypeOK, HasItem, FileStates, Labels, Owned, OneChild, Fresh,
         InStep, Busy
<1>2. AInv /\ [Next]_vars => AInv'
  BY TypeOKStep, HasItemStep, OwnedStep, OneChildStep, FreshStep, InStepStep DEF AInv
<1> QED  BY <1>1, <1>2, PTL DEF Spec

(* A program that runs alone never has two processes writing one target.     *)
THEOREM AloneOneWriter == ASSUME Alone PROVE Spec => []OneWriter
<1>1. AInv => OneWriter
  BY DEF AInv, OneChild, OneWriter
<1> QED  BY <1>1, AloneInvariance, PTL

(* A program that runs alone never writes a finished target again, whatever  *)
(* fails, however downloads, deletions and its own runs follow each other,   *)
(* and also when several videos have one target.                             *)
THEOREM AloneFinishedVideoKept == ASSUME Alone PROVE Spec => FinishedVideoKept
<1> DEFINE Kept == \A t \in Targets :
                     target[t] \in Playable => target'[t] \in {target[t], "absent"}
<1>1. AInv /\ [Next]_vars => Kept
  <2> SUFFICES ASSUME AInv, [Next]_vars, NEW t \in Targets, target[t] \in Playable
               PROVE  target'[t] \in {target[t], "absent"}
    OBVIOUS
  <2> USE DEF fileVars, runVars
  <2>1. ASSUME NEW c \in Children, FFStep(c)
        PROVE  target'[t] \in {target[t], "absent"}
    <3>1. ASSUME FFOpenOutput(c) \/ FFEncode(c) \/ FFFinish(c)
          PROVE  target'[t] = target[t]
      <4>1. c \in Busy
        BY <3>1 DEF FFOpenOutput, FFEncode, FFFinish, Busy, Free
      <4>2. File(child[c].video) \in {"absent", "tiny", "half"}
        BY <3>1, <4>1 DEF AInv, InStep, FFOpenOutput, FFEncode, FFFinish
      <4>3. TargetOf[child[c].video] # t
        BY <4>2 DEF File, Playable
      <4> QED  BY <3>1, <4>3 DEF FFOpenOutput, FFEncode, FFFinish, AInv, TypeOK
    <3> QED
      BY <2>1, <3>1 DEF FFStep, FFInputFails, FFCodecFails, FFWriteFails, FFExit
  <2>2. ASSUME NEW y \in Instances, Collect(y) \/ RunStep(y) \/ Kill(y)
        PROVE  target'[t] = target[t]
    BY <2>2 DEF Collect, RunStep, Kill, Finished, ShouldEncode, CheckSize, MakePath,
                Transcode, RunTranscoder, GetScreenshot, Spawn, TranscoderReturns,
                NoScreenshotDir, ScreenshotReturns, Reap, Report
  <2>3. CASE User
    BY <2>3 DEF User, Arrive, Complete, RemoveVideo, DeleteTarget, AInv, TypeOK
  <2>4. CASE UNCHANGED vars
    BY <2>4 DEF vars
  <2> QED  BY <2>1, <2>2, <2>3, <2>4 DEF Next
<1>2. AInv /\ [Next]_vars => [Kept]_vars
  BY <1>1
<1> QED  BY <1>2, AloneInvariance, PTL DEF Spec, FinishedVideoKept

(* A program that runs alone neither encodes nor reports a video whose target *)
(* was there, and not tiny, when the run began, for any number of videos and  *)
(* whatever fails; a target that is deleted during the run no longer counts.  *)
THEOREM AloneSkipsExisting == ASSUME Alone PROVE Spec => []SkipsExisting
<1>1. Init => StillThere /\ SkipsExisting
  BY DEF Init, StillThere, SkipsExisting
<1>2. AInv /\ StillThere /\ SkipsExisting /\ [Next]_vars => (StillThere /\ SkipsExisting)'
  BY StillThereStep, SkipsStep
<1> QED  BY <1>1, <1>2, AloneInvariance, PTL DEF Spec

(* What holds of the families of any number of programs that overlap and are *)
(* killed.                                                                   *)
THEOREM KinInvariance == Spec => [](TypeOK /\ KinInv)
<1>1. Init => TypeOK /\ HasItem /\ KinInv
  <2> SUFFICES ASSUME Init PROVE TypeOK /\ HasItem /\ KinInv
    OBVIOUS
  <2>1. TypeOK /\ HasItem
    BY SwitchAssumption DEF Init, TypeOK, HasItem, FileStates, Labels
  <2>2. Kids = {} /\ Orphans = {} /\ kills = 0
    BY DEF Init, Kids, Orphans, Busy
  <2> QED  BY <2>1, <2>2, FS_EmptySet DEF KinInv, WaitedFor, OneEach, FewOrphans
<1>2. TypeOK /\ HasItem /\ KinInv /\ [Next]_vars => (TypeOK /\ HasItem /\ KinInv)'
  BY TypeOKStep, HasItemStep, KinStep
<1> QED  BY <1>1, <1>2, PTL DEF Spec

(* However many programs run, overlap, fail and are killed: the processes     *)
(* alive are at most one for each program and one for each kill.              *)
THEOREM ProcessesAlwaysBounded == Spec => []ProcessesBounded
<1>1. TypeOK /\ KinInv => ProcessesBounded
  BY BusyBounded DEF ProcessesBounded, Kids
<1> QED  BY <1>1, KinInvariance, PTL

\* Where a program is about to fork, a slot is free.
ForkNeverWaits == \A y \in Instances : pc[y] \in {"fork", "screenshot"} => Busy # Children

(* The process slots of the model never keep a program from forking: the      *)
(* bound on them cuts no behaviour off.                                       *)
THEOREM ForksNeverWait == Spec => []ForkNeverWaits
<1>1. TypeOK /\ KinInv => ForkNeverWaits
  <2> SUFFICES ASSUME TypeOK, KinInv, NEW y \in Instances, pc[y] \in {"fork", "screenshot"},
                      Busy = Children
               PROVE  FALSE
    BY DEF ForkNeverWaits
  <2> DEFINE I == Instances \ {y}
  <2>1. \A c \in Kids : child[c].parent \in I
    BY DEF KinInv, WaitedFor, WaitsAt, Kids
  <2>2. Cardinality(Children) <= Cardinality(I) + kills /\ IsFiniteSet(Children)
    BY <2>1, BusyBounded
  <2>3. Cardinality(I) = Cardinality(Instances) - 1 /\ Cardinality(Instances) \in Nat
    BY InstancesAssumption, FS_RemoveElement, FS_CardinalityType
  <2>4. kills \in Nat /\ MaxKills \in Nat /\ kills <= MaxKills
    BY SwitchAssumption DEF TypeOK
  <2>5. Cardinality(Children) \in Nat
    BY <2>2, FS_CardinalityType
  <2> QED  BY <2>2, <2>3, <2>4, <2>5, SlotAssumption
<1> QED  BY <1>1, KinInvariance, PTL
===============================================================================
