-------------------------------- MODULE Library --------------------------------
(***************************************************************************)
(* The names of lib/state.rb (EncodingItem) and the directory trees that   *)
(* runs make with them: a run lists the videos below the library, takes    *)
(* the subpath of each, and makes the file with this subpath below the     *)
(* target directory unless it is there.  Nothing fails and an encode is    *)
(* one step: Engine has the details.                                       *)
(***************************************************************************)
EXTENDS Naturals, SequencesExt

CONSTANTS EngineSets,  \* the sets of engines, library and target, to look at
          Originals,   \* the files that users may put on the disk
          Filetypes,   \* AllowedFiletypes
          MaxDepth     \* bound: directories above a file

\* A path begins in the working directory ("." is <<>>) and goes name by name.
Dirs == Seq(STRING)
Stems == {f.stem : f \in Originals}
Exts == {f.ext : f \in Originals} \cup {"mp4"}
Paths == [dir: Dirs, stem: Stems, ext: Exts]

ASSUME OriginalsAssumption == Originals \subseteq Paths
ASSUME EnginesAssumption ==
  \A E \in EngineSets : \A e \in E : e \in [library: Dirs, target: Dirs]
ASSUME DepthAssumption == MaxDepth \in Nat

VARIABLES engines,  \* the set of engines of this program
          disk,     \* [path -> the original that is in the file]
          run,      \* the engines that are in do_encode, at most one
          items,    \* the subpaths of its items; glob gives them in any order
          touched,  \* history: engines with new files of others since their run
          quiet     \* history: was nothing new when the run began?

vars == <<engines, disk, run, items, touched, quiet>>

\* File.join
Join(root, path) == [path EXCEPT !.dir = root \o @]
Below(root, path) == IsPrefix(root, path.dir)
Depth(path) == Len(path.dir)

\* Mutant: only the name of the file is left.
ExtractBasename(root, path) == [path EXCEPT !.dir = <<>>]

ExtractSubpath(root, path) ==
  IF Below(root, path)
  THEN [path EXCEPT !.dir = SubSeq(@, Len(root) + 1, Len(@))]
  ELSE path

\* Mutant: the extension is kept and another one appended.
AppendTargetExt(subpath) == [subpath EXCEPT !.stem = @ \o "." \o subpath.ext, !.ext = "mp4"]

SubpathAsTargetExt(subpath) == [subpath EXCEPT !.ext = "mp4"]

BuildTargetPath(target, subpath) == Join(target, SubpathAsTargetExt(subpath))

\* get_file_list and the filter of enqueue_files_to_encode
FileList(library) == {f \in DOMAIN disk : Below(library, f)}
Videos(library) == {f \in FileList(library) : f.ext \in Filetypes}

Init == /\ engines \in EngineSets
        /\ disk = [f \in {} |-> f]
        /\ run = {} /\ items = {}
        /\ touched = engines /\ quiet = FALSE

Write(path, video) == disk' = [f \in DOMAIN disk \cup {path} |->
                                IF f = path THEN video ELSE disk[f]]

\* A user puts a file somewhere.
Arrive(f) == /\ f \notin DOMAIN disk
             /\ Write(f, f)
             /\ touched' = engines
             /\ UNCHANGED <<engines, run, items, quiet>>

Collect(e) == /\ run = {}
              /\ run' = {e}
              /\ items' = {ExtractSubpath(e.library, f) : f \in Videos(e.library)}
              /\ quiet' = (e \notin touched)
              /\ touched' = touched \ {e}
              /\ UNCHANGED <<engines, disk>>

\* Mutant: break instead of next.
SkipRest(e, i) == /\ e \in run /\ i \in items
                  /\ BuildTargetPath(e.target, i) \in DOMAIN disk
                  /\ items' = {}
                  /\ UNCHANGED <<engines, disk, run, touched, quiet>>

Skip(e, i) == /\ e \in run /\ i \in items
              /\ BuildTargetPath(e.target, i) \in DOMAIN disk
              /\ items' = items \ {i}
              /\ UNCHANGED <<engines, disk, run, touched, quiet>>

Convert(e, i) ==
  LET t == BuildTargetPath(e.target, i)
  IN /\ e \in run /\ i \in items
     /\ t \notin DOMAIN disk /\ Depth(t) <= MaxDepth
     /\ Write(t, disk[Join(e.library, i)])
     /\ items' = items \ {i}
     /\ touched' = touched \cup (engines \ {e})
     /\ UNCHANGED <<engines, run, quiet>>

Finished(e) == /\ e \in run
               /\ \A i \in items : Depth(BuildTargetPath(e.target, i)) > MaxDepth
               /\ run' = {} /\ items' = {} /\ quiet' = FALSE
               /\ UNCHANGED <<engines, disk, touched>>

Next == \/ \E f \in Originals : Arrive(f)
        \/ \E e \in engines : \/ Collect(e) \/ Finished(e)
                              \/ \E i \in items : Skip(e, i) \/ Convert(e, i)

Spec == Init /\ [][Next]_vars
-------------------------------------------------------------------------------

TypeOK == /\ engines \in EngineSets
          /\ DOMAIN disk \subseteq Paths /\ disk \in [DOMAIN disk -> Originals]
          /\ run \subseteq engines /\ touched \subseteq engines
          /\ \A e, f \in run : e = f
          /\ items \subseteq Paths /\ (run = {} => items = {})
          /\ quiet \in BOOLEAN

(* EncodingItem#source_path joins to the library what extract_subpath took    *)
(* off: it is a video that is there, whatever directories library and target  *)
(* share.                                                                     *)
ItemsResolve == \A e \in run : \A i \in items : Join(e.library, i) \in Videos(e.library)

(* do_encode, after a run with nothing new since: below the target is a file  *)
(* for each video of the library, with the tree of the library, and it holds  *)
(* a video of that name (one of them, where x.avi and x.mp4 compete) unless   *)
(* it is a user's own.                                                        *)
TargetOf(e, f) == BuildTargetPath(e.target, ExtractSubpath(e.library, f))

Recreated ==
  run = {} => \A e \in engines \ touched : \A f \in Videos(e.library) :
    LET t == TargetOf(e, f)
    IN Depth(t) <= MaxDepth =>
         /\ t \in DOMAIN disk
         /\ disk[t] = t \/ \E g \in Videos(e.library) : TargetOf(e, g) = t /\ disk[t] = disk[g]

(* do_encode, should_encode?: a run that begins when nobody else has put a    *)
(* file there since the last one encodes nothing.                             *)
Made == {f \in DOMAIN disk : disk[f] # f}

RerunQuiet == [][quiet => Made' = Made]_vars
===============================================================================
