------------------------------ MODULE Daemon_proofs ------------------------------
(***************************************************************************)
(* Proofs about Daemon, for any libraries, videos, starts, exceptions and  *)
(* kills: what the finished lists keep of the history, in memory and in    *)
(* the state file.                                                         *)
(***************************************************************************)
EXTENDS Daemon, FiniteSetTheorems, SequenceTheorems, TLAPS

(* Array#last: the last n elements, at most.                                  *)
LEMMA LastOfMeans ==
  ASSUME NEW S, NEW s \in Seq(S), NEW n \in Nat
  PROVE  /\ LastOf(s, n) \in Seq(S)
         /\ Len(LastOf(s, n)) = IF Len(s) <= n THEN Len(s) ELSE n
         /\ \A i \in 1..Len(LastOf(s, n)) :
              LastOf(s, n)[i] = s[Len(s) - Len(LastOf(s, n)) + i]
<1>1. CASE Len(s) <= n
  BY <1>1 DEF LastOf
<1>2. CASE ~(Len(s) <= n)
  <2>1. /\ LastOf(s, n) = SubSeq(s, Len(s) - n + 1, Len(s))
        /\ Len(s) - n + 1 \in 1..(Len(s) + 1)
    BY <1>2 DEF LastOf
  <2>2. /\ LastOf(s, n) \in Seq(S) /\ Len(LastOf(s, n)) = n
        /\ \A i \in 1..n : LastOf(s, n)[i] = s[Len(s) - n + i]
    BY <1>2, <2>1
  <2> QED  BY <1>2, <2>2
<1> QED
  BY <1>1, <1>2

(* The last n of the last n, and of a list with one item more: an append to   *)
(* the list and an append to its last items end alike, so that it does not    *)
(* matter whether the list was trimmed before.                                *)
LEMMA LastOfTwice ==
  ASSUME NEW S, NEW s \in Seq(S), NEW n \in Nat
  PROVE  LastOf(LastOf(s, n), n) = LastOf(s, n)
  BY LastOfMeans DEF LastOf

(* encode_succeeded!, on a list that is trimmed and on one that is not. *)
LEMMA LastOfAppend ==
  ASSUME NEW S, NEW s \in Seq(S), NEW n \in Nat, NEW x \in S
  PROVE  LastOf(Append(s, x), n) = LastOf(Append(LastOf(s, n), x), n)
<1> DEFINE l == LastOf(s, n)
           long == Append(s, x)
           short == Append(l, x)
           a == LastOf(long, n)
           b == LastOf(short, n)
<1>1. /\ l \in Seq(S) /\ Len(l) = IF Len(s) <= n THEN Len(s) ELSE n
      /\ \A i \in 1..Len(l) : l[i] = s[Len(s) - Len(l) + i]
  BY LastOfMeans
<1> HIDE DEF l
<1>2. /\ long \in Seq(S) /\ Len(long) = Len(s) + 1 /\ Len(s) \in Nat
      /\ \A i \in 1..(Len(s) + 1) : long[i] = IF i <= Len(s) THEN s[i] ELSE x
      /\ short \in Seq(S) /\ Len(short) = Len(l) + 1 /\ Len(l) \in Nat
      /\ \A i \in 1..(Len(l) + 1) : short[i] = IF i <= Len(l) THEN l[i] ELSE x
  BY <1>1
<1> HIDE DEF long, short
<1>3. /\ a \in Seq(S) /\ Len(a) = IF Len(long) <= n THEN Len(long) ELSE n
      /\ \A i \in 1..Len(a) : a[i] = long[Len(long) - Len(a) + i]
  BY <1>2, LastOfMeans, Zenon
<1>4. /\ b \in Seq(S) /\ Len(b) = IF Len(short) <= n THEN Len(short) ELSE n
      /\ \A i \in 1..Len(b) : b[i] = short[Len(short) - Len(b) + i]
  BY <1>2, LastOfMeans, Zenon
<1> HIDE DEF a, b
<1>5. /\ Len(s) \in Nat /\ Len(l) \in Nat /\ Len(a) \in Nat
      /\ Len(a) = Len(b) /\ Len(a) <= Len(l) + 1
  BY <1>1, <1>2, <1>3, <1>4
<1>6. ASSUME NEW i \in 1..Len(a)
      PROVE  a[i] = b[i]
  <2> DEFINE p == Len(s) + 1 - Len(a) + i
             q == Len(l) + 1 - Len(a) + i
  <2>1. /\ p \in 1..(Len(s) + 1) /\ q \in 1..(Len(l) + 1) /\ Len(s) - Len(l) + q = p
        /\ p <= Len(s) <=> q <= Len(l)
    <3>1. i \in Nat /\ 1 <= i /\ i <= Len(a) /\ Len(l) <= Len(s)
      BY <1>1, <1>5, LimitAssumption
    <3> QED  BY <1>5, <3>1
  <2>2. p = Len(long) - Len(a) + i /\ q = Len(short) - Len(b) + i
    BY <1>2, <1>5
  <2> HIDE DEF p, q
  <2>3. a[i] = long[p] /\ b[i] = short[q]
    BY <1>3, <1>4, <1>5, <2>2
  <2>4. q <= Len(l) => l[q] = s[p]
    <3>1. q <= Len(l) => q \in 1..Len(l)
      BY <1>5, <2>1
    <3>2. q \in 1..Len(l) => l[q] = s[Len(s) - Len(l) + q]
      BY <1>1, Zenon
    <3> QED  BY <2>1, <3>1, <3>2, Zenon
  <2> QED  BY <1>2, <2>1, <2>3, <2>4
<1>7. a = b
  BY <1>3, <1>4, <1>5, <1>6, SeqEqual
<1> QED
  BY <1>7 DEF a, b, long, short, l

(* A list without items has no last ones. *)
LEMMA LastOfNone == LastOf(<<>>, ItemsInFinishedList) = <<>>
  BY LimitAssumption DEF LastOf
--------------------------------------------------------------------------------
(* Types.  The main thread is at an engine that is there, with an item where  *)
(* it handles one.                                                            *)

AtEngine == {"dequeue", "encode", "transcode", "append", "trim"}
AtItem == {"transcode", "append", "trim"}
Away == {"down", "load"}

Places == /\ main \in AtEngine => key \in DOMAIN engines
          /\ main \in AtItem => batch # <<>>
          /\ todo \subseteq DOMAIN engines
          /\ main \in Away => todo = {}

(* SetToSeqs: what glob gives is a sequence of videos.                        *)
LEMMA ListOfVideos ==
  ASSUME NEW V \in SUBSET Videos, NEW fl \in SetToSeqs(V)
  PROVE  fl \in Seq(Videos)
<1>1. Cardinality(V) \in Nat
  BY VideosAssumption, FS_Subset, FS_CardinalityType
<1>2. fl \in [1..Cardinality(V) -> Videos]
  BY DEF SetToSeqs
<1> QED
  BY <1>1, <1>2

(* The two lists of a State are changed apart from each other.                *)
LEMMA StateChange ==
  ASSUME NEW s \in State, NEW l \in Seq(Videos)
  PROVE  /\ [s EXCEPT !.queue = l] \in State /\ [s EXCEPT !.queue = l].encoded = s.encoded
         /\ [s EXCEPT !.encoded = l] \in State /\ [s EXCEPT !.encoded = l].encoded = l
  BY DEF State

(* No engines, no items, and the State that new_state makes. *)
LEMMA NothingThere ==
  /\ DOMAIN NoEngines = {} /\ <<>> \in Seq(Videos)
  /\ NewState \in State /\ NewState.encoded = <<>>
  BY DEF NoEngines, NewState, State

(* A cut dump is of engines that are there, the last one with other lists.    *)
LEMMA CutDumpMeans ==
  ASSUME CutDump, \A k \in DOMAIN engines : engines[k] \in State
  PROVE  /\ DOMAIN state_yaml' \subseteq DOMAIN engines
         /\ \A k \in DOMAIN state_yaml' : state_yaml'[k] \in State
<1>1. \A l \in Seq(Videos) : Prefixes(l) \subseteq Seq(Videos)
  <2> SUFFICES ASSUME NEW l \in Seq(Videos)
               PROVE  Prefixes(l) \subseteq Seq(Videos)
    OBVIOUS
  <2>1. \A n \in 0..Len(l) : SubSeq(l, 1, n) \in Seq(Videos)
    OBVIOUS
  <2> QED  BY <2>1 DEF Prefixes
<1> DEFINE Part(K, last, w, q, e) ==
             [k \in K |-> IF k = last THEN [queue |-> q, encoded |-> e,
                                           whole |-> w /\ engines[k].whole]
                                      ELSE engines[k]]
<1>2. PICK K \in SUBSET DOMAIN engines, last \in DOMAIN engines, w \in BOOLEAN :
        \E q \in Prefixes(engines[last].queue), e \in Prefixes(engines[last].encoded) :
          state_yaml' = Part(K, last, w, q, e)
  BY DEF CutDump
<1>3. PICK q \in Prefixes(engines[last].queue), e \in Prefixes(engines[last].encoded) :
        state_yaml' = Part(K, last, w, q, e)
  BY <1>2
<1>4. engines[last].queue \in Seq(Videos) /\ engines[last].encoded \in Seq(Videos)
  BY DEF State
<1>5. q \in Seq(Videos) /\ e \in Seq(Videos)
  BY <1>1, <1>4
<1>6. [queue |-> q, encoded |-> e, whole |-> w /\ engines[last].whole] \in State
  BY <1>5 DEF State
<1> QED
  BY <1>3, <1>6

(* What becomes of the target of a video that is encoded.                     *)
LEMMA EncodeMeans ==
  ASSUME TypeOK, Encode
  PROVE  target' \in [Videos -> Files]
  BY DEF TypeOK, Encode, Files

(* No action leaves the types of the variables, which for a queue or a list   *)
(* needs the engine to be there.                                              *)
LEMMA TypeStep ==
  ASSUME TypeOK, Places, [Next]_vars
  PROVE  TypeOK' /\ Places'
<1> USE DEF TypeOK, Places, AtEngine, AtItem, Away, Labels, Polling, Goto, procVars, diskVars, histVars, boundVars
<1>1. ASSUME NEW k \in Keys, Start(k)
      PROVE  TypeOK' /\ Places'
  <2>1. starts' \in 0..MaxStarts
    BY <1>1, SwitchAssumption DEF Start
  <2> QED  BY <1>1, <2>1 DEF Start
<1>2. CASE LoadState
  BY <1>2 DEF LoadState
<1>3. CASE AddEngine
  <2>1. NewState \in State
    BY NothingThere
  <2>2. /\ DOMAIN engines' = DOMAIN engines \cup {key}
        /\ \A k \in DOMAIN engines' : engines'[k] \in State
    BY <1>3, <2>1 DEF AddEngine
  <2> QED  BY <1>3, <2>2 DEF AddEngine
<1>4. CASE Poll
  BY <1>4 DEF Poll
<1>5. CASE LastEngine
  BY <1>5 DEF LastEngine
<1>6. ASSUME NEW k \in Keys, NextEngine(k)
      PROVE  TypeOK' /\ Places'
  <2>1. PICK fl \in SetToSeqs({v \in library : KeyOf[v] = k}) :
          engines' = [engines EXCEPT ![k].queue = @ \o fl]
    BY <1>6 DEF NextEngine
  <2>2. fl \in Seq(Videos)
    BY ListOfVideos
  <2>3. k \in DOMAIN engines
    BY <1>6 DEF NextEngine
  <2>4. [engines[k] EXCEPT !.queue = @ \o fl] \in State
    <3>1. engines[k] \in State
      BY <2>3
    <3>2. engines[k].queue \in Seq(Videos)
      BY <3>1 DEF State
    <3>3. engines[k].queue \o fl \in Seq(Videos)
      BY <2>2, <3>2
    <3> QED  BY <3>1, <3>3, StateChange
  <2>5. DOMAIN engines' = DOMAIN engines /\ \A j \in DOMAIN engines : engines'[j] \in State
    BY <2>1, <2>3, <2>4
  <2> QED  BY <1>6, <2>3, <2>5 DEF NextEngine
<1>7. CASE Dequeue
  <2>1. key \in DOMAIN engines /\ engines[key].queue \in Seq(Videos)
    BY <1>7 DEF Dequeue, State
  <2>2. [engines[key] EXCEPT !.queue = <<>>] \in State
    BY <2>1, StateChange, NothingThere
  <2>3. DOMAIN engines' = DOMAIN engines /\ \A j \in DOMAIN engines : engines'[j] \in State
    BY <1>7, <2>1, <2>2 DEF Dequeue
  <2> QED  BY <1>7, <2>1, <2>3 DEF Dequeue
<1>8. CASE Skip
  BY <1>8, HeadTailProperties DEF Skip
<1>9. CASE Convert
  BY <1>9 DEF Convert
<1>10. CASE Transcoded
  <2>1. target' \in [Videos -> Files]
    BY <1>10, EncodeMeans DEF Transcoded
  <2> QED  BY <1>10, <2>1 DEF Transcoded
<1>11. CASE FinishAppend
  <2>1. Video \in Videos /\ key \in DOMAIN engines
    BY <1>11, HeadTailProperties DEF FinishAppend, Video
  <2>2. [engines[key] EXCEPT !.encoded = Append(@, Video)] \in State
    <3>1. engines[key] \in State
      BY <2>1
    <3>2. engines[key].encoded \in Seq(Videos)
      BY <3>1 DEF State
    <3>3. Append(engines[key].encoded, Video) \in Seq(Videos)
      BY <2>1, <3>2
    <3> QED  BY <3>1, <3>3, StateChange
  <2>3. DOMAIN engines' = DOMAIN engines /\ \A j \in DOMAIN engines : engines'[j] \in State
    BY <1>11, <2>1, <2>2 DEF FinishAppend
  <2>4. finished' \in [Keys -> Seq(Videos)]
    <3>1. finished[key] \in Seq(Videos)
      OBVIOUS
    <3>2. Append(finished[key], Video) \in Seq(Videos)
      BY <2>1, <3>1
    <3>3. LastOf(Append(finished[key], Video), ItemsInFinishedList) \in Seq(Videos)
      BY <3>2, LastOfMeans, LimitAssumption
    <3> QED  BY <1>11, <3>3 DEF FinishAppend
  <2> QED  BY <1>11, <2>1, <2>3, <2>4 DEF FinishAppend
<1>12. CASE FinishTrim
  <2>1. key \in DOMAIN engines /\ engines[key].encoded \in Seq(Videos) /\ Tail(batch) \in Seq(Videos)
    BY <1>12, HeadTailProperties DEF FinishTrim, State
  <2>2. LastOf(engines[key].encoded, ItemsInFinishedList) \in Seq(Videos)
    BY <2>1, LastOfMeans, LimitAssumption
  <2>3. [engines[key] EXCEPT !.encoded = LastOf(@, ItemsInFinishedList)] \in State
    BY <2>1, <2>2, StateChange
  <2>4. DOMAIN engines' = DOMAIN engines /\ \A j \in DOMAIN engines : engines'[j] \in State
    BY <1>12, <2>1, <2>3 DEF FinishTrim
  <2> QED  BY <1>12, <2>1, <2>4 DEF FinishTrim
<1>13. CASE Sleep
  BY <1>13 DEF Sleep
<1>14. CASE Wake
  BY <1>14 DEF Wake
<1>15. CASE SaveOpen
  BY <1>15, NothingThere DEF SaveOpen
<1>16. CASE SaveWrite
  BY <1>16 DEF SaveWrite
<1>17. CASE Exit
  BY <1>17, NothingThere DEF Exit, Vanish
<1>18. CASE Quit
  BY <1>18 DEF Quit
<1>19. CASE Rescue
  <2>1. target' \in [Videos -> Files]
    BY <1>19, EncodeMeans DEF Rescue, Orphan
  <2> QED  BY <1>19, <2>1, NothingThere DEF Rescue
<1>20. CASE Crash
  <2>1. target' \in [Videos -> Files]
    BY <1>20, EncodeMeans DEF Crash, Orphan
  <2>2. DOMAIN state_yaml' \subseteq Keys /\ \A k \in DOMAIN state_yaml' : state_yaml'[k] \in State
    BY <1>20, CutDumpMeans DEF Crash
  <2>3. crashes' \in 0..MaxCrashes
    BY <1>20, SwitchAssumption DEF Crash
  <2> QED  BY <1>20, <2>1, <2>2, <2>3, NothingThere DEF Crash, Vanish
<1>21. ASSUME NEW v \in Videos, Arrive(v)
       PROVE  TypeOK' /\ Places'
  BY <1>21 DEF Arrive
<1>22. ASSUME NEW v \in Videos, DeleteTarget(v)
       PROVE  TypeOK' /\ Places'
  BY <1>22 DEF DeleteTarget, Files
<1>23. ASSUME NEW k \in Keys, NoState(k)
       PROVE  TypeOK' /\ Places'
  BY <1>23, NothingThere DEF NoState
<1>24. CASE UNCHANGED vars
  BY <1>24 DEF vars
<1> QED
  BY <1>1, <1>2, <1>3, <1>4, <1>5, <1>6, <1>7, <1>8, <1>9, <1>10, <1>11, <1>12, <1>13,
     <1>14, <1>15, <1>16, <1>17, <1>18, <1>19, <1>20, <1>21, <1>22, <1>23, <1>24 DEF Next, MainStep

(* Daemon!TypeOK, in memory and in the state file, a cut one included.        *)
THEOREM TypeCorrect == Spec => [](TypeOK /\ Places)
<1>1. Init => TypeOK /\ Places
  <2> SUFFICES ASSUME Init
               PROVE  TypeOK /\ Places
    OBVIOUS
  <2>1. crashes \in 0..MaxCrashes /\ starts \in 0..MaxStarts
    BY SwitchAssumption DEF Init
  <2>2. /\ finished \in [Keys -> Seq(Videos)] /\ saved \in [Keys -> Seq(Videos)]
        /\ batch \in Seq(Videos) /\ target \in [Videos -> Files]
    BY NothingThere DEF Init, Files
  <2>3. DOMAIN engines = {} /\ DOMAIN state_yaml = {}
    BY NothingThere DEF Init
  <2> QED
    BY <2>1, <2>2, <2>3 DEF Init, TypeOK, Places, AtEngine, AtItem, Away, Labels, Polling
<1>2. TypeOK /\ Places /\ [Next]_vars => (TypeOK /\ Places)'
  BY TypeStep
<1> QED
  BY <1>1, <1>2, PTL DEF Spec
--------------------------------------------------------------------------------
(* HistoryKept.  The history is at home in the memory of the program while    *)
(* one runs, in the state file except while it is written, and the two agree  *)
(* with what was finished and with what was saved.                            *)

KeptIn(e, f) == \A k \in Keys : Shown(e, k) = f[k]

HInv == ~cut => /\ main \in Away \cup {"exit"} => finished = saved
                /\ main \notin Away => KeptIn(engines, finished)
                /\ main # "write" => KeptIn(state_yaml, saved)

\* The finished lists of the engines that are there, unchanged, and new ones.
SameLists == /\ DOMAIN engines \subseteq DOMAIN engines'
             /\ \A k \in DOMAIN engines' :
                  engines'[k].encoded = IF k \in DOMAIN engines THEN engines[k].encoded ELSE <<>>

(* A step within the life of the process that touches no finished list.       *)
LEMMA WithinKeeps ==
  ASSUME HInv, SameLists, UNCHANGED <<histVars, state_yaml>>,
         main \notin Away \cup {"write"}, main' \notin Away \cup {"exit"}
  PROVE  HInv'
<1> SUFFICES ASSUME ~cut
             PROVE  KeptIn(engines', finished) /\ KeptIn(state_yaml, saved)
  BY DEF HInv, histVars, KeptIn, Shown
<1>1. KeptIn(engines, finished) /\ KeptIn(state_yaml, saved)
  BY DEF HInv
<1> QED
  BY <1>1, LastOfNone DEF KeptIn, SameLists, Shown

(* do_encode changes the queue only.                                          *)
LEMMA QueueOnly ==
  ASSUME TypeOK, Places, Dequeue \/ \E k \in Keys : NextEngine(k)
  PROVE  SameLists
<1>1. CASE Dequeue
  <2>1. engines' = [engines EXCEPT ![key].queue = <<>>] /\ key \in DOMAIN engines
    BY <1>1 DEF Dequeue, Goto, Places, AtEngine
  <2>2. engines[key] \in State
    BY <2>1 DEF TypeOK
  <2>3. [engines[key] EXCEPT !.queue = <<>>].encoded = engines[key].encoded
    BY <2>2, NothingThere, StateChange
  <2> QED  BY <2>1, <2>3 DEF SameLists
<1>2. ASSUME NEW k \in Keys, NextEngine(k)
      PROVE  SameLists
  <2>1. PICK fl \in SetToSeqs({v \in library : KeyOf[v] = k}) :
          engines' = [engines EXCEPT ![k].queue = @ \o fl]
    BY <1>2 DEF NextEngine
  <2>2. k \in DOMAIN engines
    BY <1>2 DEF NextEngine, Places
  <2>3. engines[k] \in State
    BY <2>2 DEF TypeOK
  <2>4. [engines[k] EXCEPT !.queue = @ \o fl].encoded = engines[k].encoded
    BY <2>3 DEF State
  <2> QED  BY <2>1, <2>2, <2>4 DEF SameLists
<1> QED
  BY <1>1, <1>2

(* What the append and the trim do to the list of the engine it is at.        *)
LEMMA AppendEffect ==
  ASSUME TypeOK, Places, FinishAppend
  PROVE  /\ key \in DOMAIN engines /\ DOMAIN engines' = DOMAIN engines /\ Video \in Videos
         /\ engines[key].encoded \in Seq(Videos)
         /\ engines'[key].encoded = Append(engines[key].encoded, Video)
         /\ finished'[key] = LastOf(Append(finished[key], Video), ItemsInFinishedList)
         /\ \A k \in DOMAIN engines \ {key} : engines'[k] = engines[k]
         /\ \A k \in Keys \ {key} : finished'[k] = finished[k]
<1>1. /\ key \in DOMAIN engines /\ batch # <<>>
      /\ engines' = [engines EXCEPT ![key].encoded = Append(@, Video)]
      /\ finished' = [finished EXCEPT ![key] = LastOf(Append(@, Video), ItemsInFinishedList)]
  BY DEF FinishAppend, Goto, Places, AtEngine, AtItem
<1>2. engines[key] \in State /\ key \in Keys /\ finished \in [Keys -> Seq(Videos)] /\ batch \in Seq(Videos)
  BY <1>1 DEF TypeOK
<1>3. Video \in Videos
  BY <1>1, <1>2, HeadTailProperties DEF Video
<1>4. engines[key].encoded \in Seq(Videos)
  BY <1>2 DEF State
<1>5. Append(engines[key].encoded, Video) \in Seq(Videos)
  BY <1>3, <1>4
<1>6. [engines[key] EXCEPT !.encoded = Append(@, Video)].encoded = Append(engines[key].encoded, Video)
  BY <1>2, <1>5, StateChange
<1> QED
  BY <1>1, <1>2, <1>3, <1>4, <1>6

(* The trim changes the list of the current engine and nothing else. *)
LEMMA TrimEffect ==
  ASSUME TypeOK, Places, FinishTrim
  PROVE  /\ key \in DOMAIN engines /\ DOMAIN engines' = DOMAIN engines
         /\ engines[key].encoded \in Seq(Videos)
         /\ engines'[key].encoded = LastOf(engines[key].encoded, ItemsInFinishedList)
         /\ \A k \in DOMAIN engines \ {key} : engines'[k] = engines[k]
<1>1. /\ key \in DOMAIN engines
      /\ engines' = [engines EXCEPT ![key].encoded = LastOf(@, ItemsInFinishedList)]
  BY DEF FinishTrim, Goto, Places, AtEngine
<1>2. engines[key] \in State
  BY <1>1 DEF TypeOK
<1>3. engines[key].encoded \in Seq(Videos)
  BY <1>2 DEF State
<1>4. LastOf(engines[key].encoded, ItemsInFinishedList) \in Seq(Videos)
  BY <1>3, LastOfMeans, LimitAssumption
<1>5. [engines[key] EXCEPT !.encoded = LastOf(@, ItemsInFinishedList)].encoded
        = LastOf(engines[key].encoded, ItemsInFinishedList)
  BY <1>2, <1>4, StateChange
<1> QED
  BY <1>1, <1>3, <1>5

(* HInv is inductive: the history changes its home only by load and save.     *)
LEMMA HInvStep ==
  ASSUME TypeOK, Places, HInv, [Next]_vars
  PROVE  HInv'
<1> USE DEF Away, procVars, diskVars, histVars, boundVars
<1>1. ASSUME NEW k \in Keys, Start(k)
      PROVE  HInv'
  BY <1>1 DEF Start, Goto, HInv, KeptIn, Shown
<1>2. CASE LoadState
  BY <1>2 DEF LoadState, Goto, HInv, KeptIn, Shown
<1>3. CASE AddEngine
  <2>1. SameLists
    BY <1>3, NothingThere DEF AddEngine, SameLists
  <2> QED  BY <1>3, <2>1, WithinKeeps DEF AddEngine, Goto
<1>4. CASE Dequeue \/ \E k \in Keys : NextEngine(k)
  <2>1. SameLists
    BY <1>4, QueueOnly
  <2> QED  BY <1>4, <2>1, WithinKeeps DEF Dequeue, NextEngine, Goto
<1>5. CASE \/ Poll \/ LastEngine \/ Skip \/ Convert \/ Transcoded \/ Sleep \/ Wake
           \/ Rescue \/ \E k \in Keys : NoState(k)
  <2>1. SameLists
    BY <1>5 DEF Poll, LastEngine, Skip, Convert, Transcoded, Sleep, Wake, Rescue, NoState,
                SameLists
  <2>2. UNCHANGED <<histVars, state_yaml>>
    BY <1>5 DEF Poll, LastEngine, Skip, Convert, Transcoded, Sleep, Wake, Rescue, NoState
  <2>3. main \notin Away \cup {"write"} /\ main' \notin Away \cup {"exit"}
    BY <1>5 DEF Poll, LastEngine, Skip, Convert, Transcoded, Sleep, Wake, Rescue, NoState,
                Goto, Polling
  <2> QED  BY <2>1, <2>2, <2>3, WithinKeeps
<1>6. CASE FinishAppend
  <2>1. main = "append" /\ main' = "trim" /\ UNCHANGED <<state_yaml, saved, cut>>
    BY <1>6 DEF FinishAppend, Goto
  <2> SUFFICES ASSUME ~cut
               PROVE  KeptIn(engines', finished') /\ KeptIn(state_yaml, saved)
    BY <2>1 DEF HInv, KeptIn, Shown
  <2>2. KeptIn(engines, finished) /\ KeptIn(state_yaml, saved)
    BY <2>1 DEF HInv
  <2>3. finished[key] = LastOf(engines[key].encoded, ItemsInFinishedList)
    BY <1>6, <2>2, AppendEffect DEF KeptIn, Shown, TypeOK
  <2>4. LastOf(engines'[key].encoded, ItemsInFinishedList) = finished'[key]
    <3>1. /\ Video \in Videos /\ engines[key].encoded \in Seq(Videos)
          /\ engines'[key].encoded = Append(engines[key].encoded, Video)
          /\ finished'[key] = LastOf(Append(finished[key], Video), ItemsInFinishedList)
      BY <1>6, AppendEffect
    <3> HIDE DEF Video
    <3>2. \A l \in Seq(Videos), x \in Videos :
            LastOf(Append(l, x), ItemsInFinishedList)
              = LastOf(Append(LastOf(l, ItemsInFinishedList), x), ItemsInFinishedList)
      BY LastOfAppend, LimitAssumption, Zenon
    <3> QED  BY <2>3, <3>1, <3>2, Zenon
  <2> QED  BY <1>6, <2>2, <2>4, AppendEffect DEF KeptIn, Shown
<1>7. CASE FinishTrim
  <2>1. main = "trim" /\ main' = "encode" /\ UNCHANGED <<state_yaml, histVars>>
    BY <1>7 DEF FinishTrim, Goto
  <2> SUFFICES ASSUME ~cut
               PROVE  KeptIn(engines', finished) /\ KeptIn(state_yaml, saved)
    BY <2>1 DEF HInv, KeptIn, Shown
  <2>2. KeptIn(engines, finished) /\ KeptIn(state_yaml, saved)
    BY <2>1 DEF HInv
  <2>3. LastOf(engines'[key].encoded, ItemsInFinishedList)
          = LastOf(engines[key].encoded, ItemsInFinishedList)
    BY <1>7, TrimEffect, LastOfTwice, LimitAssumption
  <2> QED  BY <1>7, <2>2, <2>3, TrimEffect DEF KeptIn, Shown
<1>8. CASE SaveOpen \/ SaveWrite
  BY <1>8 DEF SaveOpen, SaveWrite, Goto, HInv, KeptIn, Shown
<1>9. CASE Exit
  BY <1>9 DEF Exit, Vanish, HInv, KeptIn, Shown
<1>10. CASE Crash
  <2>1. main' = "down" /\ finished' = saved /\ saved' = saved /\ cut' = (cut \/ main = "write")
    BY <1>10 DEF Crash, Vanish
  <2>2. main # "write" => UNCHANGED state_yaml
    BY <1>10 DEF Crash
  <2> SUFFICES ASSUME ~cut, main # "write"
               PROVE  KeptIn(state_yaml, saved)
    BY <2>1, <2>2 DEF HInv, KeptIn, Shown
  <2> QED  BY DEF HInv
<1>11. CASE Quit \/ (\E v \in Videos : Arrive(v) \/ DeleteTarget(v)) \/ UNCHANGED vars
  BY <1>11 DEF Quit, Arrive, DeleteTarget, vars, HInv, KeptIn, Shown
<1> QED
  BY <1>1, <1>2, <1>3, <1>4, <1>5, <1>6, <1>7, <1>8, <1>9, <1>10, <1>11 DEF Next, MainStep

(* However often the program is stopped by a request or by an exception, or   *)
(* killed outside the write of the state file, and started again, for any     *)
(* libraries and whatever ffmpeg does, the finished lists end with the last   *)
(* items finished, save those that a kill took before they were saved.        *)
THEOREM HistoryKeptAlways == Spec => []HistoryKept
<1>1. Init => HInv
  BY NothingThere DEF Init, HInv, KeptIn, Shown, Away
<1>2. TypeOK /\ Places /\ HInv /\ [Next]_vars => HInv'
  BY HInvStep
<1>3. HInv => HistoryKept
  BY DEF HInv, HistoryKept, KeptIn, Away, Polling
<1> QED
  BY <1>1, <1>2, <1>3, TypeCorrect, PTL DEF Spec
================================================================================
