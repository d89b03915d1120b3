----------------------------- MODULE Library_proofs -----------------------------
(***************************************************************************)
(* Proofs about Library, for any engines, files and depth of directories.  *)
(* They rest on three facts about paths, read as sequences of names.       *)
(***************************************************************************)
EXTENDS Library, SequenceTheorems, TLAPS

(* What is below a directory is found again below it.                         *)
LEMMA TakeOffJoined ==
  ASSUME NEW root \in Dirs, NEW d \in Dirs
  PROVE  /\ root \o d \in Dirs
         /\ IsPrefix(root, root \o d)
         /\ SubSeq(root \o d, Len(root) + 1, Len(root \o d)) = d
<1>1. /\ root \o d \in Dirs /\ Len(root \o d) = Len(root) + Len(d)
      /\ \A i \in 1..Len(root) : (root \o d)[i] = root[i]
      /\ \A i \in 1..Len(d) : (root \o d)[Len(root) + i] = d[i]
  BY DEF Dirs
<1>2. IsPrefix(root, root \o d)
  <2>1. SubSeq(root, 1, Len(root)) = root
    BY DEF Dirs
  <2>2. /\ SubSeq(root \o d, 1, Len(root)) \in Seq(STRING)
        /\ Len(SubSeq(root \o d, 1, Len(root))) = Len(root)
        /\ \A i \in 1..Len(root) : SubSeq(root \o d, 1, Len(root))[i] = (root \o d)[i]
    BY <1>1 DEF Dirs
  <2>3. SubSeq(root \o d, 1, Len(root)) = root
    BY <1>1, <2>2, SeqEqual DEF Dirs
  <2> QED  BY <1>1, <2>1, <2>3 DEF IsPrefix, Dirs
<1>3. SubSeq(root \o d, Len(root) + 1, Len(root \o d)) = d
  <2> DEFINE r == SubSeq(root \o d, Len(root) + 1, Len(root) + Len(d))
  <2>1. /\ r \in Seq(STRING) /\ Len(r) = Len(d)
        /\ \A i \in 1..Len(d) : r[i] = (root \o d)[Len(root) + i]
    BY <1>1 DEF Dirs
  <2> HIDE DEF r
  <2>2. r = d
    BY <1>1, <2>1, SeqEqual DEF Dirs
  <2> QED  BY <1>1, <2>2 DEF r
<1> QED
  BY <1>1, <1>2, <1>3

(* What was taken off a path can be put back.                                 *)
LEMMA JoinTakenOff ==
  ASSUME NEW root \in Dirs, NEW p \in Dirs, IsPrefix(root, p)
  PROVE  /\ SubSeq(p, Len(root) + 1, Len(p)) \in Dirs
         /\ root \o SubSeq(p, Len(root) + 1, Len(p)) = p
<1>1. Len(root) \in 0..Len(p) /\ SubSeq(p, 1, Len(root)) = root
  BY SubSeqFull DEF IsPrefix, Dirs
<1>2. SubSeq(p, 1, Len(root)) \o SubSeq(p, Len(root) + 1, Len(p)) = SubSeq(p, 1, Len(p))
  <2>1. /\ 1 \in 1..(Len(p) + 1) /\ Len(root) \in (1 - 1)..Len(p)
        /\ Len(p) \in Len(root)..Len(p) /\ p \in Seq(STRING)
    BY <1>1 DEF Dirs
  <2> QED  BY <2>1, ConcatAdjacentSubSeq
<1>3. SubSeq(p, 1, Len(p)) = p
  BY SubSeqFull DEF Dirs
<1>4. SubSeq(p, Len(root) + 1, Len(p)) \in Dirs
  BY <1>1 DEF Dirs
<1> QED
  BY <1>1, <1>2, <1>3, <1>4

(* Of two directories above a file, one is above the other.                   *)
LEMMA AboveTheSame ==
  ASSUME NEW l \in Dirs, NEW t \in Dirs, NEW d \in Dirs, IsPrefix(l, t \o d)
  PROVE  IsPrefix(l, t) \/ IsPrefix(t, l)
<1>1. Len(l) <= Len(t \o d) /\ SubSeq(l, 1, Len(l)) = SubSeq(t \o d, 1, Len(l))
  BY DEF IsPrefix
<1>2. \A i \in 1..Len(l) : l[i] = (t \o d)[i]
  <2> TAKE i \in 1..Len(l)
  <2>1. SubSeq(l, 1, Len(l))[i] = l[i] /\ SubSeq(t \o d, 1, Len(l))[i] = (t \o d)[i]
    BY <1>1 DEF Dirs
  <2> QED  BY <1>1, <2>1
<1>3. \A i \in 1..Len(t) : (t \o d)[i] = t[i]
  BY DEF Dirs
<1>4. CASE Len(l) <= Len(t)
  <2>1. \A i \in 1..Len(l) : l[i] = t[i]
    BY <1>2, <1>3, <1>4 DEF Dirs
  <2>2. /\ SubSeq(t, 1, Len(l)) \in Seq(STRING) /\ Len(SubSeq(t, 1, Len(l))) = Len(l)
        /\ \A i \in 1..Len(l) : SubSeq(t, 1, Len(l))[i] = t[i]
    BY <1>4 DEF Dirs
  <2>3. SubSeq(t, 1, Len(l)) = l /\ SubSeq(l, 1, Len(l)) = l
    BY <2>1, <2>2, SeqEqual DEF Dirs
  <2> QED  BY <1>4, <2>3 DEF IsPrefix
<1>5. CASE Len(t) <= Len(l)
  <2>1. \A i \in 1..Len(t) : l[i] = t[i]
    BY <1>2, <1>3, <1>5 DEF Dirs
  <2>2. /\ SubSeq(l, 1, Len(t)) \in Seq(STRING) /\ Len(SubSeq(l, 1, Len(t))) = Len(t)
        /\ \A i \in 1..Len(t) : SubSeq(l, 1, Len(t))[i] = l[i]
    BY <1>5 DEF Dirs
  <2>3. SubSeq(l, 1, Len(t)) = t /\ SubSeq(t, 1, Len(t)) = t
    BY <2>1, <2>2, SeqEqual DEF Dirs
  <2> QED  BY <1>5, <2>3 DEF IsPrefix
<1> QED
  BY <1>4, <1>5 DEF Dirs
-------------------------------------------------------------------------------
(* EncodingItem: subpaths                                                     *)

(* A subpath leads back to the file, and is a path.                           *)
LEMMA SubpathOfFile ==
  ASSUME NEW root \in Dirs, NEW f \in Paths, Below(root, f)
  PROVE  /\ ExtractSubpath(root, f) \in Paths
         /\ Join(root, ExtractSubpath(root, f)) = f
<1> DEFINE d == SubSeq(f.dir, Len(root) + 1, Len(f.dir))
<1>1. f.dir \in Dirs /\ IsPrefix(root, f.dir)
  BY DEF Paths, Below
<1>2. d \in Dirs /\ root \o d = f.dir
  BY <1>1, JoinTakenOff
<1>3. ExtractSubpath(root, f) = [f EXCEPT !.dir = d]
  BY DEF ExtractSubpath
<1> HIDE DEF d
<1>4. [f EXCEPT !.dir = d] \in Paths /\ [f EXCEPT !.dir = d].dir = d
  BY <1>2 DEF Paths
<1>5. [[f EXCEPT !.dir = d] EXCEPT !.dir = root \o d] = f
  BY <1>2 DEF Paths
<1> QED
  BY <1>3, <1>4, <1>5 DEF Join

(* A path, field by field.                                                    *)
LEMMA Record ==
  ASSUME NEW root \in Dirs, NEW d \in Dirs, NEW s \in Stems, NEW x \in Exts
  PROVE  LET p == [dir |-> d, stem |-> s, ext |-> x]
         IN /\ p \in Paths
            /\ Join(root, p) = [dir |-> root \o d, stem |-> s, ext |-> x]
            /\ SubpathAsTargetExt(p) = [dir |-> d, stem |-> s, ext |-> "mp4"]
<1> DEFINE p == [dir |-> d, stem |-> s, ext |-> x]
<1>1. p \in Paths
  BY DEF Paths
<1>2. Join(root, p) = [dir |-> root \o d, stem |-> s, ext |-> x]
  <2>1. ASSUME NEW j
        PROVE  [p EXCEPT !.dir = j] = [dir |-> j, stem |-> s, ext |-> x]
    OBVIOUS
  <2>2. p.dir = d
    OBVIOUS
  <2> HIDE DEF p
  <2>3. Join(root, p) = [p EXCEPT !.dir = root \o d]
    BY <2>2 DEF Join
  <2> QED  BY <2>1, <2>3
<1>3. SubpathAsTargetExt(p) = [dir |-> d, stem |-> s, ext |-> "mp4"]
  BY DEF SubpathAsTargetExt
<1> QED
  BY <1>1, <1>2, <1>3

(* The target of a subpath is a path below the target directory, whose own    *)
(* subpath there has itself as its target.                                    *)
LEMMA TargetOfSubpath ==
  ASSUME NEW root \in Dirs, NEW i \in Paths
  PROVE  /\ BuildTargetPath(root, i) \in Paths
         /\ BuildTargetPath(root, i).dir = root \o i.dir
         /\ BuildTargetPath(root, ExtractSubpath(root, BuildTargetPath(root, i)))
              = BuildTargetPath(root, i)
<1> DEFINE path(d) == [dir |-> d, stem |-> i.stem, ext |-> "mp4"]
<1>1. i.dir \in Dirs /\ i.stem \in Stems
  BY DEF Paths
<1>2. PICK d \in Dirs : d = root \o i.dir
  BY <1>1, TakeOffJoined
<1>3. IsPrefix(root, d) /\ SubSeq(d, Len(root) + 1, Len(d)) = i.dir
  BY <1>1, <1>2, TakeOffJoined
<1>4. /\ path(d) \in Paths /\ path(d).dir = d
      /\ Join(root, path(i.dir)) = path(d)
      /\ SubpathAsTargetExt(path(i.dir)) = path(i.dir)
  <2>1. "mp4" \in Exts
    BY DEF Exts
  <2> QED  BY <1>1, <1>2, <2>1, Record
<1>5. SubpathAsTargetExt(i) = path(i.dir)
  BY DEF SubpathAsTargetExt, Paths
<1>6. ExtractSubpath(root, path(d)) = path(i.dir)
  BY <1>3 DEF ExtractSubpath, Below
<1> HIDE DEF path
<1> QED
  BY <1>2, <1>4, <1>5, <1>6 DEF BuildTargetPath

(* What was joined to a subpath can be taken off again.                       *)
LEMMA SubpathOfJoin ==
  ASSUME NEW root \in Dirs, NEW i \in Paths
  PROVE  ExtractSubpath(root, Join(root, i)) = i
<1>1. i.dir \in Dirs /\ i.stem \in Stems /\ i.ext \in Exts
  BY DEF Paths
<1> DEFINE path(d) == [dir |-> d, stem |-> i.stem, ext |-> i.ext]
<1>2. path(i.dir) = i
  BY DEF Paths
<1>3. PICK d \in Dirs : d = root \o i.dir
  BY <1>1, TakeOffJoined
<1>4. IsPrefix(root, d) /\ SubSeq(d, Len(root) + 1, Len(d)) = i.dir
  BY <1>1, <1>3, TakeOffJoined
<1>5. Join(root, path(i.dir)) = path(d)
  BY <1>1, <1>3, Record
<1>6. ExtractSubpath(root, path(d)) = path(i.dir)
  BY <1>4 DEF ExtractSubpath, Below
<1> HIDE DEF path
<1> QED
  BY <1>2, <1>5, <1>6
-------------------------------------------------------------------------------
(* TypeOK and ItemsResolve                                                    *)

(* The directories of an engine are directories of the model. *)
LEMMA EngineDirs == ASSUME TypeOK, NEW e \in engines
                    PROVE  e.library \in Dirs /\ e.target \in Dirs
BY EnginesAssumption DEF TypeOK

(* A file that is written is there, and no other file changes. *)
LEMMA Written ==
  ASSUME TypeOK, NEW f \in Paths, NEW v \in Originals, Write(f, v)
  PROVE  /\ DOMAIN disk' = DOMAIN disk \cup {f}
         /\ DOMAIN disk' \subseteq Paths /\ disk' \in [DOMAIN disk' -> Originals]
         /\ \A g \in DOMAIN disk \ {f} : disk'[g] = disk[g]
         /\ disk'[f] = v
BY DEF TypeOK, Write

(* Types and ItemsResolve are inductive together. *)
LEMMA ItemsResolveStep ==
  ASSUME TypeOK, ItemsResolve, [Next]_vars
  PROVE  TypeOK' /\ ItemsResolve'
<1>1. CASE UNCHANGED vars
  BY <1>1 DEF vars, TypeOK, ItemsResolve, Videos, FileList
<1>2. ASSUME NEW f \in Originals, Arrive(f)
      PROVE  TypeOK' /\ ItemsResolve'
  <2>1. Write(f, f) /\ f \in Paths
    BY <1>2, OriginalsAssumption DEF Arrive
  <2>2. DOMAIN disk \subseteq DOMAIN disk' /\ DOMAIN disk' \subseteq Paths /\ disk' \in [DOMAIN disk' -> Originals]
    BY <2>1, Written
  <2> QED  BY <1>2, <2>2 DEF Arrive, TypeOK, ItemsResolve, Videos, FileList
<1>3. ASSUME NEW e \in engines, Collect(e)
      PROVE  TypeOK' /\ ItemsResolve'
  <2>1. e.library \in Dirs
    BY EngineDirs
  <2>2. \A f \in Videos(e.library) : /\ f \in Paths /\ Below(e.library, f)
                                    /\ ExtractSubpath(e.library, f) \in Paths
                                    /\ Join(e.library, ExtractSubpath(e.library, f)) = f
    BY <2>1, SubpathOfFile DEF Videos, FileList, TypeOK
  <2>3. items' \subseteq Paths /\ \A i \in items' : Join(e.library, i) \in Videos(e.library)
    BY <1>3, <2>2 DEF Collect
  <2>4. Videos(e.library)' = Videos(e.library)
    BY <1>3 DEF Collect, Videos, FileList
  <2>5. run' = {e} /\ UNCHANGED <<engines, disk>>
    BY <1>3 DEF Collect
  <2> QED  BY <1>3, <2>3, <2>4, <2>5 DEF Collect, TypeOK, ItemsResolve
<1>4. ASSUME NEW e \in engines, NEW i \in items, Skip(e, i)
      PROVE  TypeOK' /\ ItemsResolve'
  BY <1>4 DEF Skip, TypeOK, ItemsResolve, Videos, FileList
<1>5. ASSUME NEW e \in engines, NEW i \in items, Convert(e, i)
      PROVE  TypeOK' /\ ItemsResolve'
  <2> DEFINE t == BuildTargetPath(e.target, i)
  <2>1. i \in Paths /\ t \in Paths
    BY EngineDirs, TargetOfSubpath DEF TypeOK
  <2>2. disk[Join(e.library, i)] \in Originals
    BY <1>5 DEF Convert, ItemsResolve, Videos, FileList, TypeOK
  <2>3. Write(t, disk[Join(e.library, i)])
    BY <1>5 DEF Convert
  <2> HIDE DEF t
  <2>4. DOMAIN disk \subseteq DOMAIN disk' /\ DOMAIN disk' \subseteq Paths /\ disk' \in [DOMAIN disk' -> Originals]
    BY <2>1, <2>2, <2>3, Written
  <2> QED  BY <1>5, <2>4 DEF Convert, TypeOK, ItemsResolve, Videos, FileList
<1>6. ASSUME NEW e \in engines, Finished(e)
      PROVE  TypeOK' /\ ItemsResolve'
  BY <1>6 DEF Finished, TypeOK, ItemsResolve
<1> QED
  BY <1>1, <1>2, <1>3, <1>4, <1>5, <1>6 DEF Next

(* Library!ItemsResolve, and the types it rests on: whatever the directories, *)
(* every item of a run stands for a video that is there.                      *)
THEOREM ItemsResolveAlways == Spec => [](TypeOK /\ ItemsResolve)
<1>1. Init => TypeOK /\ ItemsResolve
  BY DEF Init, TypeOK, ItemsResolve
<1>2. TypeOK /\ ItemsResolve /\ [Next]_vars => TypeOK' /\ ItemsResolve'
  BY ItemsResolveStep
<1> QED
  BY <1>1, <1>2, PTL DEF Spec

(* Type correctness, for any engines, files and depth. *)
THEOREM TypeCorrect == Spec => []TypeOK
BY ItemsResolveAlways, PTL
-------------------------------------------------------------------------------
(* RerunQuiet, for library directories that neither contain their target nor  *)
(* lie in it, or are the target                                               *)

Separate == \A E \in EngineSets : \A e \in E :
  \/ e.library = e.target
  \/ ~IsPrefix(e.library, e.target) /\ ~IsPrefix(e.target, e.library)

\* A target that a run need not make any more, or cannot within the bound.
Done(t) == t \in DOMAIN disk \/ Depth(t) > MaxDepth

\* What is not touched since an engine's run has its target, or is an item of
\* the run that is on.
Settled == \A e \in engines \ touched : \A f \in Videos(e.library) :
  Done(TargetOf(e, f)) \/ (e \in run /\ ExtractSubpath(e.library, f) \in items)

QuietRun == quiet => \A e \in run : \A i \in items : Done(BuildTargetPath(e.target, i))

RInv == Settled /\ QuietRun

(* RInv is inductive when no library and target lie in each other. *)
LEMMA RInvStep ==
  ASSUME Separate, TypeOK, ItemsResolve, RInv, [Next]_vars
  PROVE  RInv'
<1>1. CASE UNCHANGED vars
  BY <1>1 DEF vars, RInv, Settled, QuietRun, Done, Videos, FileList
<1>2. ASSUME NEW f \in Originals, Arrive(f)
      PROVE  RInv'
  <2>1. DOMAIN disk \subseteq DOMAIN disk'
    BY <1>2 DEF Arrive, Write
  <2>2. touched' = engines' /\ UNCHANGED <<run, items, quiet>>
    BY <1>2 DEF Arrive
  <2> QED  BY <2>1, <2>2 DEF RInv, Settled, QuietRun, Done
<1>3. ASSUME NEW e \in engines, Collect(e)
      PROVE  RInv'
  <2>1. /\ run = {} /\ run' = {e} /\ touched' = touched \ {e} /\ quiet' = (e \notin touched)
        /\ items' = {ExtractSubpath(e.library, f) : f \in Videos(e.library)}
        /\ UNCHANGED <<engines, disk>>
    BY <1>3 DEF Collect
  <2>2. \A g \in engines \ touched : \A f \in Videos(g.library) : Done(TargetOf(g, f))
    BY <2>1 DEF RInv, Settled
  <2>3. \A t : Done(t)' <=> Done(t)
    BY <2>1 DEF Done
  <2>4. \A g \in engines : Videos(g.library)' = Videos(g.library)
    BY <2>1 DEF Videos, FileList
  <2>5. Settled'
    BY <2>1, <2>2, <2>3, <2>4 DEF Settled
  <2>6. QuietRun'
    <3> SUFFICES ASSUME e \notin touched, NEW f \in Videos(e.library)
                 PROVE  Done(BuildTargetPath(e.target, ExtractSubpath(e.library, f)))'
      BY <2>1 DEF QuietRun
    <3> QED  BY <2>2, <2>3 DEF TargetOf
  <2> QED  BY <2>5, <2>6 DEF RInv
<1>4. ASSUME NEW e \in engines, NEW i \in items, Skip(e, i)
      PROVE  RInv'
  <2>1. /\ e \in run /\ items' = items \ {i} /\ UNCHANGED <<engines, disk, run, touched, quiet>>
        /\ Done(BuildTargetPath(e.target, i))
    BY <1>4 DEF Skip, Done
  <2>2. \A g \in run : g = e
    BY <2>1 DEF TypeOK
  <2>3. \A t : Done(t)' <=> Done(t)
    BY <2>1 DEF Done
  <2>4. \A g \in engines : Videos(g.library)' = Videos(g.library)
    BY <2>1 DEF Videos, FileList
  <2>5. Settled'
    <3> SUFFICES ASSUME NEW g \in engines \ touched, NEW f \in Videos(g.library)
                 PROVE  Done(TargetOf(g, f)) \/ (g \in run /\ ExtractSubpath(g.library, f) \in items \ {i})
      BY <2>1, <2>3, <2>4 DEF Settled
    <3>1. CASE g \in run /\ ExtractSubpath(g.library, f) = i
      BY <2>1, <2>2, <3>1 DEF TargetOf
    <3>2. CASE ~(g \in run /\ ExtractSubpath(g.library, f) = i)
      BY <3>2 DEF RInv, Settled
    <3> QED  BY <3>1, <3>2
  <2>6. QuietRun'
    BY <2>1, <2>3 DEF RInv, QuietRun
  <2> QED  BY <2>5, <2>6 DEF RInv
<1>5. ASSUME NEW e \in engines, NEW i \in items, Convert(e, i)
      PROVE  RInv'
  <2> DEFINE t == BuildTargetPath(e.target, i)
  <2>1. /\ e \in run /\ items' = items \ {i} /\ touched' = touched \cup (engines \ {e})
        /\ UNCHANGED <<engines, run, quiet>> /\ DOMAIN disk' = DOMAIN disk \cup {t}
    BY <1>5 DEF Convert, Write
  <2>2. /\ e.library \in Dirs /\ e.target \in Dirs /\ i \in Paths /\ i.dir \in Dirs
        /\ t.dir = e.target \o i.dir
        /\ BuildTargetPath(e.target, ExtractSubpath(e.target, t)) = t
    BY EngineDirs, TargetOfSubpath DEF TypeOK, Paths
  <2>3. Below(e.library, t) => TargetOf(e, t) = t
    <3> SUFFICES ASSUME IsPrefix(e.library, e.target \o i.dir)
                 PROVE  TargetOf(e, t) = t
      BY <2>2 DEF Below
    <3>1. IsPrefix(e.library, e.target) \/ IsPrefix(e.target, e.library)
      BY <2>2, AboveTheSame
    <3>2. e.library = e.target
      BY <3>1 DEF Separate, TypeOK
    <3> QED  BY <2>2, <3>2 DEF TargetOf
  <2> HIDE DEF t
  <2>4. Done(t)' /\ \A u : Done(u) => Done(u)'
    BY <2>1 DEF Done
  <2>5. \A f \in Videos(e.library)' : f \in Videos(e.library) \/ (f = t /\ Below(e.library, t))
    BY <2>1 DEF Videos, FileList
  <2>6. Settled'
    <3> SUFFICES ASSUME e \notin touched, NEW f \in Videos(e.library)'
                 PROVE  Done(TargetOf(e, f))' \/ (e \in run /\ ExtractSubpath(e.library, f) \in items \ {i})
      BY <2>1 DEF Settled
    <3>1. CASE f = t /\ Below(e.library, t)
      BY <2>3, <2>4, <3>1
    <3>2. CASE f \in Videos(e.library) /\ ExtractSubpath(e.library, f) = i
      BY <2>4, <3>2 DEF TargetOf, t
    <3>3. CASE f \in Videos(e.library) /\ ExtractSubpath(e.library, f) # i
      BY <2>1, <2>4, <3>3 DEF RInv, Settled
    <3> QED  BY <2>5, <3>1, <3>2, <3>3
  <2>7. QuietRun'
    BY <2>1, <2>4 DEF RInv, QuietRun
  <2> QED  BY <2>6, <2>7 DEF RInv
<1>6. ASSUME NEW e \in engines, Finished(e)
      PROVE  RInv'
  <2>1. /\ e \in run /\ run' = {} /\ items' = {} /\ UNCHANGED <<engines, disk, touched>>
        /\ \A i \in items : Done(BuildTargetPath(e.target, i))
    BY <1>6 DEF Finished, Done
  <2>2. \A g \in run : g = e
    BY <2>1 DEF TypeOK
  <2>3. \A g \in engines \ touched : \A f \in Videos(g.library) : Done(TargetOf(g, f))
    BY <2>1, <2>2 DEF RInv, Settled, TargetOf
  <2>4. \A u : Done(u)' <=> Done(u)
    BY <2>1 DEF Done
  <2>5. \A g \in engines : Videos(g.library)' = Videos(g.library)
    BY <2>1 DEF Videos, FileList
  <2> QED  BY <2>1, <2>3, <2>4, <2>5 DEF RInv, Settled, QuietRun
<1> QED
  BY <1>1, <1>2, <1>3, <1>4, <1>5, <1>6 DEF Next

(* The steps of a quiet run: none of them makes a file.                       *)
LEMMA QuietStep ==
  ASSUME TypeOK, RInv, [Next]_vars
  PROVE  quiet => Made' = Made
<1> SUFFICES ASSUME quiet
             PROVE  Made' = Made
  OBVIOUS
<1>1. CASE UNCHANGED disk
  BY <1>1 DEF Made
<1>2. ASSUME NEW f \in Originals, Arrive(f)
      PROVE  Made' = Made
  <2>1. /\ DOMAIN disk' = DOMAIN disk \cup {f} /\ disk'[f] = f /\ f \notin DOMAIN disk
        /\ \A g \in DOMAIN disk : disk'[g] = disk[g]
    BY <1>2 DEF Arrive, Write
  <2> QED  BY <2>1 DEF Made
<1>3. ASSUME NEW e \in engines, NEW i \in items, Convert(e, i)
      PROVE  FALSE
  <2>1. /\ e \in run /\ BuildTargetPath(e.target, i) \notin DOMAIN disk
        /\ Depth(BuildTargetPath(e.target, i)) <= MaxDepth
    BY <1>3 DEF Convert
  <2>2. Done(BuildTargetPath(e.target, i))
    BY <2>1 DEF RInv, QuietRun
  <2>3. Depth(BuildTargetPath(e.target, i)) \in Nat
    <3>1. BuildTargetPath(e.target, i) \in Paths
      BY EngineDirs, TargetOfSubpath DEF TypeOK
    <3>2. \A p \in Paths : Len(p.dir) \in Nat
      BY DEF Paths, Dirs
    <3> QED  BY <3>1, <3>2 DEF Depth
  <2> QED  BY <2>1, <2>2, <2>3, DepthAssumption DEF Done
<1> QED
  BY <1>1, <1>2, <1>3 DEF Next, vars, Collect, Skip, Finished

(* Library!RerunQuiet: the promise of README:5-6, where library and target    *)
(* are the same directory or neither is within the other.                     *)
THEOREM RerunQuietAlways ==
  ASSUME Separate
  PROVE  Spec => RerunQuiet
<1>1. Init => RInv
  BY DEF Init, RInv, Settled, QuietRun
<1>2. TypeOK /\ ItemsResolve /\ RInv /\ [Next]_vars => RInv'
  BY RInvStep
<1>3. TypeOK /\ RInv /\ [Next]_vars => [quiet => Made' = Made]_vars
  BY QuietStep
<1> QED
  BY ItemsResolveAlways, <1>1, <1>2, <1>3, PTL DEF Spec, RerunQuiet
-------------------------------------------------------------------------------
(* Recreated, for engines whose targets, besides, do not lie in each other    *)

Apart == \A E \in EngineSets : \A e, f \in E : IsPrefix(e.target, f.target) => e = f

\* A file is a user's own, or an engine has made it from a video of its library.
MadeFrom == \A t \in DOMAIN disk :
  \/ disk[t] = t
  \/ \E e \in engines : \E g \in Videos(e.library) : TargetOf(e, g) = t /\ disk[t] = disk[g]

(* The target of a file of the library lies below the target directory.       *)
LEMMA TargetBelow ==
  ASSUME TypeOK, NEW e \in engines, NEW g \in Videos(e.library)
  PROVE  \E d \in Dirs : TargetOf(e, g).dir = e.target \o d
<1>1. g \in Paths /\ Below(e.library, g)
  BY DEF Videos, FileList, TypeOK
<1>2. ExtractSubpath(e.library, g) \in Paths
  BY <1>1, EngineDirs, SubpathOfFile
<1>3. ExtractSubpath(e.library, g).dir \in Dirs
  BY <1>2 DEF Paths
<1> QED
  BY <1>2, <1>3, EngineDirs, TargetOfSubpath DEF TargetOf

(* Files stay as they are: a new one is made from a video that is there.      *)
LEMMA MadeFromStep ==
  ASSUME TypeOK, ItemsResolve, MadeFrom, [Next]_vars
  PROVE  MadeFrom'
<1>1. ASSUME UNCHANGED <<engines, disk>>
      PROVE  MadeFrom'
  BY <1>1 DEF MadeFrom, Videos, FileList
<1>2. ASSUME NEW t, NEW v, t \notin DOMAIN disk, Write(t, v), UNCHANGED engines,
             \/ v = t
             \/ \E e \in engines : \E g \in Videos(e.library) : TargetOf(e, g) = t /\ v = disk[g]
      PROVE  MadeFrom'
  <2>1. /\ DOMAIN disk' = DOMAIN disk \cup {t} /\ disk'[t] = v
        /\ \A u \in DOMAIN disk : disk'[u] = disk[u]
    BY <1>2 DEF Write
  <2>2. \A e \in engines : \A g \in Videos(e.library) :
          g \in DOMAIN disk /\ g \in Videos(e.library)'
    BY <1>2, <2>1 DEF Videos, FileList
  <2> SUFFICES ASSUME NEW u \in DOMAIN disk', disk'[u] # u
               PROVE  \E e \in engines : \E g \in Videos(e.library)' :
                        TargetOf(e, g) = u /\ disk'[u] = disk'[g]
    BY <1>2 DEF MadeFrom
  <2>3. CASE u = t
    BY <1>2, <2>1, <2>2, <2>3
  <2>4. CASE u # t
    BY <2>1, <2>2, <2>4 DEF MadeFrom
  <2> QED  BY <2>3, <2>4
<1>3. ASSUME NEW f \in Originals, Arrive(f)
      PROVE  MadeFrom'
  BY <1>2, <1>3 DEF Arrive
<1>4. ASSUME NEW e \in engines, NEW i \in items, Convert(e, i)
      PROVE  MadeFrom'
  <2> DEFINE t == BuildTargetPath(e.target, i)
             g == Join(e.library, i)
  <2>1. t \notin DOMAIN disk /\ Write(t, disk[g]) /\ UNCHANGED engines
    BY <1>4 DEF Convert
  <2>2. g \in Videos(e.library)
    BY <1>4 DEF Convert, ItemsResolve
  <2>3. ExtractSubpath(e.library, g) = i
    BY EngineDirs, SubpathOfJoin DEF TypeOK
  <2>4. TargetOf(e, g) = t
    BY <2>3 DEF TargetOf
  <2> QED  BY <1>2, <2>1, <2>2, <2>4
<1> QED
  BY <1>1, <1>3, <1>4 DEF Next, vars, Collect, Skip, Finished

(* Library!Recreated: below the target is the tree of the library, each file  *)
(* with a video of its name, where targets are neither shared nor within      *)
(* each other, and where library and target are as above.                     *)
THEOREM RecreatedAlways ==
  ASSUME Separate, Apart
  PROVE  Spec => []Recreated
<1>1. Init => MadeFrom /\ RInv
  BY DEF Init, MadeFrom, RInv, Settled, QuietRun
<1>2. TypeOK /\ ItemsResolve /\ MadeFrom /\ RInv /\ [Next]_vars => MadeFrom' /\ RInv'
  BY MadeFromStep, RInvStep
<1>3. TypeOK /\ MadeFrom /\ RInv => Recreated
  <2> SUFFICES ASSUME TypeOK, MadeFrom, RInv, run = {},
                      NEW e \in engines \ touched, NEW f \in Videos(e.library),
                      Depth(TargetOf(e, f)) <= MaxDepth
               PROVE  LET t == TargetOf(e, f)
                      IN /\ t \in DOMAIN disk
                         /\ disk[t] = t \/ \E g \in Videos(e.library) :
                                             TargetOf(e, g) = t /\ disk[t] = disk[g]
    BY DEF Recreated
  <2> DEFINE t == TargetOf(e, f)
  <2>1. PICK d \in Dirs : t.dir = e.target \o d
    BY TargetBelow
  <2>2. Depth(t) \in Nat
    BY <2>1, EngineDirs DEF Depth, Dirs
  <2>3. t \in DOMAIN disk
    BY <2>2, DepthAssumption DEF RInv, Settled, Done
  <2>4. ASSUME NEW h \in engines, NEW g \in Videos(h.library), TargetOf(h, g) = t
        PROVE  h = e
    <3>1. PICK c \in Dirs : t.dir = h.target \o c
      BY <2>4, TargetBelow
    <3>2. IsPrefix(h.target, e.target \o d)
      BY <2>1, <3>1, EngineDirs, TakeOffJoined
    <3>3. IsPrefix(h.target, e.target) \/ IsPrefix(e.target, h.target)
      BY <3>2, EngineDirs, AboveTheSame
    <3> QED  BY <3>3 DEF Apart, TypeOK
  <2> HIDE DEF t
  <2>5. disk[t] = t \/ \E g \in Videos(e.library) : TargetOf(e, g) = t /\ disk[t] = disk[g]
    BY <2>3, <2>4 DEF MadeFrom
  <2> QED  BY <2>3, <2>5 DEF t
<1> QED
  BY ItemsResolveAlways, <1>1, <1>2, <1>3, PTL DEF Spec
===============================================================================
