---------------------------- MODULE TargetDirectory ----------------------------
(***************************************************************************)
(* What an encoding run promises about the target directory, seen from     *)
(* outside: videos are encoded one at a time, each into a file that was    *)
(* not there; a file that gets finished holds this one video, and from     *)
(* then on nobody but a user touches it.  An encode that gives up leaves   *)
(* its file behind, unfinished.  Engine implements this with looks at the  *)
(* directory, processes that it starts and waits for, and no lock.         *)
(***************************************************************************)
CONSTANTS Videos,   \* the videos that can be converted
          Targets,  \* the files of the directory
          TargetOf  \* [Videos -> Targets]

VARIABLES files,    \* the targets that are there
          finished, \* each target: the video it is finished with, if any
          encoding  \* the video that is being encoded, if any

directoryVars == <<files, finished, encoding>>

Init == /\ files = {}
        /\ finished = [t \in Targets |-> {}]
        /\ encoding = {}

Begin(v) == /\ encoding = {} /\ TargetOf[v] \notin files
            /\ files' = files \cup {TargetOf[v]}
            /\ encoding' = {v}
            /\ UNCHANGED finished

Finish(v) == /\ v \in encoding
             /\ finished' = [finished EXCEPT ![TargetOf[v]] = {v}]
             /\ encoding' = {}
             /\ UNCHANGED files

GiveUp(v) == /\ v \in encoding
             /\ encoding' = {}
             /\ UNCHANGED <<files, finished>>

\* A file may be removed while it is written: what is encoded gets lost.
Remove(t) == /\ t \in files
             /\ files' = files \ {t}
             /\ finished' = [finished EXCEPT ![t] = {}]
             /\ encoding' = {v \in encoding : TargetOf[v] # t}

Next == \/ \E v \in Videos : Begin(v) \/ Finish(v) \/ GiveUp(v)
        \/ \E t \in Targets : Remove(t)

Spec == Init /\ [][Next]_directoryVars
================================================================================
