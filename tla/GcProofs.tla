------------------------------ MODULE GcProofs ------------------------------
(***************************************************************************)
(* Proofs about the collector of module Gc, for every set of objects,      *)
(* registers and keys.                                                     *)
(***************************************************************************)
EXTENDS Gc, TLAPS

\* Marking a set of objects keeps the marks well typed.
LEMMA MarkTypes ==
    ASSUME NEW S, mark \in [Obj -> Whites \cup {"gray", "black"}]
    PROVE  MarkAll(S) \in [Obj -> Whites \cup {"gray", "black"}]
BY DEF MarkAll

\* Every step keeps the types.
LEMMA TypeStep == TypeOK /\ [Next]_vars => TypeOK'
<1> SUFFICES ASSUME TypeOK, [Next]_vars PROVE TypeOK'
  OBVIOUS
<1> USE GcAssumption DEF TypeOK, gcVars, heapVars
<1>1. CASE Mutator
  <2>1. ASSUME NEW r \in Reg, NEW o \in Obj, New(o, r) PROVE TypeOK'
    BY <2>1 DEF New, Whites, NoNodes
  <2>2. ASSUME NEW r \in Reg, NEW v \in Obj \cup {Nil}, Move(r, v) PROVE TypeOK'
    BY <2>2 DEF Move
  <2>3. ASSUME NEW t \in Tables, NEW k \in Key, NEW v \in Obj \cup {Nil},
               NEW reused, NEW rehash, SetTable(t, k, v, reused, rehash)
        PROVE TypeOK'
    <3>1. mark' \in [Obj -> Whites \cup {"gray", "black"}]
      BY <2>3, MarkTypes DEF SetTable, Barrier
    <3>2. slot' \in [Tables -> [Key -> Obj \cup {Nil, Unused}]]
      <4>1. CASE slot[t][k] # Unused \/ k \in ArrKey
        <5> DEFINE n == [slot[t] EXCEPT ![k] = v]
        <5>1. n \in [Key -> Obj \cup {Nil, Unused}]
          OBVIOUS
        <5>2. slot' = [slot EXCEPT ![t] = n]
          BY <2>3, <4>1 DEF SetTable
        <5> QED BY <5>1, <5>2
      <4>2. CASE ~(slot[t][k] # Unused \/ k \in ArrKey)
        <5> DEFINE n == [h \in Key |-> IF h = k THEN v
                                      ELSE IF h = reused THEN Unused
                                      ELSE slot[t][h]]
        <5>1. n \in [Key -> Obj \cup {Nil, Unused}]
          OBVIOUS
        <5>2. slot' = [slot EXCEPT ![t] = n]
          BY <2>3, <4>2 DEF SetTable
        <5> QED BY <5>1, <5>2
      <4> QED BY <4>1, <4>2
    <3>3. UNCHANGED <<all, meta, weak, ref, finalized, reg, gcVars>>
      BY <2>3 DEF SetTable
    <3> QED BY <3>1, <3>2, <3>3
  <2>4. ASSUME NEW o \in MetaObj, NEW m \in Tables \cup {Nil}, NEW w \in Modes,
               SetMetatable(o, m, w)
        PROVE TypeOK'
    <3>1. mark' \in [Obj -> Whites \cup {"gray", "black"}]
      BY <2>4, MarkTypes DEF SetMetatable, Barrier
    <3>2. meta' \in [MetaObj -> Tables \cup {Nil}] /\ weak' \in [Tables -> Modes]
      BY <2>4 DEF SetMetatable
    <3>3. UNCHANGED <<all, slot, ref, finalized, reg, gcVars>>
      BY <2>4 DEF SetMetatable
    <3> QED BY <3>1, <3>2, <3>3
  <2>5. ASSUME NEW o \in RefObj, NEW v \in Obj \cup {Nil}, SetRef(o, v) PROVE TypeOK'
    BY <2>5 DEF SetRef, Barrier, MarkAll
  <2>6. Held \subseteq Obj
    BY DEF Held
  <2>7. \A o \in Held : Fields(o) \subseteq Obj
    BY DEF Fields
  <2>8. (Held \cap KeyObj) \cup (Key \ Obj) \subseteq Key
    BY DEF Key
  <2>9. ASSUME NEW r \in Reg, NEW o \in Held, NEW v \in Fields(o), Load(r, o, v) PROVE TypeOK'
    <3>1. v \in Obj /\ Move(r, v)
      BY <2>6, <2>7, <2>9 DEF Load
    <3> QED BY <2>2, <3>1
  <2> HIDE GcAssumption DEF TypeOK, gcVars, heapVars
  <2> QED BY <1>1, <2>1, <2>2, <2>3, <2>4, <2>5, <2>6, <2>8, <2>9 DEF Mutator
<1>2. CASE FullGc
  BY <1>2 DEF FullGc
<1>3. CASE \E opt \in {"step", "cycle"} : CallStep(opt)
  BY <1>3 DEF CallStep
<1>4. CASE Collector
  <2>1. CASE MarkRoots
    BY <2>1 DEF MarkRoots, MarkAll, Driven
  <2>2. CASE EnterSweep
    BY <2>2 DEF EnterSweep, Driven
  <2>3. CASE Separate
    BY <2>3 DEF Separate, ClearValues
  <2>4. CASE Resurrect
    BY <2>4 DEF Resurrect, MarkAll
  <2>5. CASE ClearWeak
    BY <2>5 DEF ClearWeak, ClearValues, ClearKeys
  <2>6. CASE Reclaim
    BY <2>6 DEF Reclaim, Garbage, Other, Whites, NoNodes
  <2>7. CASE EndSweep
    BY <2>7 DEF EndSweep
  <2>8. ASSUME NEW o \in all, PropagateOne(o) PROVE TypeOK'
    BY <2>8 DEF PropagateOne, Propagated, Driven
  <2>9. ASSUME NEW o \in all, ConvergeMark(o) PROVE TypeOK'
    BY <2>9 DEF ConvergeMark, MarkAll
  <2>10. ASSUME NEW o \in all, ConvergeDrain(o) PROVE TypeOK'
    BY <2>10 DEF ConvergeDrain, Propagated
  <2>11. ASSUME NEW o \in all, StartFinalizer(o) PROVE TypeOK'
    BY <2>11 DEF StartFinalizer
  <2>12. ASSUME NEW err \in BOOLEAN, EndFinalizer(err) PROVE TypeOK'
    BY <2>12 DEF EndFinalizer
  <2> QED BY <1>4, <2>1, <2>2, <2>3, <2>4, <2>5, <2>6, <2>7, <2>8, <2>9, <2>10,
             <2>11, <2>12 DEF Collector
<1>5. CASE UNCHANGED vars
  BY <1>5 DEF vars
<1> QED BY <1>1, <1>2, <1>3, <1>4, <1>5 DEF Next

\* The initial state is well typed.
LEMMA InitType == Init => TypeOK
<1> SUFFICES ASSUME Init PROVE TypeOK
  OBVIOUS
<1>1. weak \in [Tables -> Modes]
  <2>1. {} \in Modes
    BY GcAssumption
  <2> QED BY <2>1, Zenon DEF Init
<1>2. slot \in [Tables -> [Key -> Obj \cup {Nil, Unused}]]
  BY DEF Init, NoNodes
<1> QED BY <1>1, <1>2 DEF Init, TypeOK, Whites

\* The parts of the state have their types in every reachable state of Gc.
THEOREM TypeCorrect == Spec => []TypeOK
BY InitType, TypeStep, PTL DEF Spec

-----------------------------------------------------------------------------
(* Lemmas about marking *)

\* What propagate_one scans is part of what the object mentions.
LEMMA KidsMentioned == \A o : Kids(o) \subseteq Mentions(o)
<1> SUFFICES ASSUME NEW o, NEW c \in Kids(o) PROVE c \in Mentions(o)
  OBVIOUS
<1>1. ArrKey \subseteq Key /\ HashKey \subseteq Key
  BY DEF Key, HashKey
<1>2. CASE o \in Tables
  <2>1. c \in Obj /\ c \in TableKids(o)
    BY <1>2 DEF Kids
  <2>2. c = meta[o] \/ (\E k \in Key : c = slot[o][k]) \/ (c \in Key /\ slot[o][c] # Unused)
    BY <1>1, <2>1 DEF TableKids
  <2> QED BY <1>2, <2>1, <2>2 DEF Mentions
<1>3. CASE o \notin Tables
  BY <1>3 DEF Kids, Mentions
<1> QED BY <1>2, <1>3

\* Marking never blackens, never whitens and leaves nothing of S white.
LEMMA MarkAllFacts ==
    ASSUME NEW S, NEW x \in Obj, TypeOK,
           mark[x] \in {white, "gray", "black"}
    PROVE  /\ MarkAll(S)[x] \in {white, "gray", "black"}
           /\ MarkAll(S)[x] = "black" <=> mark[x] = "black"
           /\ mark[x] # white => MarkAll(S)[x] # white
           /\ x \in S => MarkAll(S)[x] # white
BY DEF MarkAll, Marked, TypeOK, Whites

\* propagate_one blackens o, marks its children and whitens nothing.
LEMMA PropagatedFacts ==
    ASSUME NEW o \in Obj, NEW x \in Obj, TypeOK,
           mark[x] \in {white, "gray", "black"}
    PROVE  /\ Propagated(o)[x] \in {white, "gray", "black"}
           /\ Propagated(o)[x] = "black" <=> (x = o \/ mark[x] = "black")
           /\ mark[x] # white => Propagated(o)[x] # white
           /\ x \in Kids(o) => Propagated(o)[x] # white
BY DEF Propagated, Marked, TypeOK, Whites

-----------------------------------------------------------------------------
(* Steps that change only marks and control *)

\* A step that leaves the graph alone and only adds marks, blackening at most an
\* object whose children it marks, keeps the heap part of the invariant.
LEMMA MarkingStep ==
    ASSUME HeapInv, TypeOK', stage' # "reclaim",
           UNCHANGED <<all, slot, meta, weak, ref, white>>,
           \A x \in all : /\ mark'[x] \in {white, "gray", "black"}
                          /\ mark[x] # white => mark'[x] # white,
           \A x \in all : mark'[x] = "black" /\ mark[x] # "black"
                             => \A c \in Kids(x) : mark'[c] # white
    PROVE  HeapClosed' /\ BlackHoldsNoWhite' /\ SurvivorsClosed' /\ MarksCurrent'
<1>1. \A o : Kids(o)' = Kids(o) /\ Mentions(o)' = Mentions(o)
  BY DEF Kids, TableKids, Mentions
<1>2. HeapClosed'
  BY <1>1 DEF HeapInv, HeapClosed
<1>3. BlackHoldsNoWhite'
  <2> SUFFICES ASSUME NEW o \in all, mark'[o] = "black", NEW c \in Kids(o)
               PROVE mark'[c] # white
    BY <1>1 DEF BlackHoldsNoWhite
  <2>1. c \in all
    BY KidsMentioned DEF HeapInv, HeapClosed
  <2>2. CASE mark[o] = "black"
    BY <2>1, <2>2 DEF HeapInv, BlackHoldsNoWhite
  <2>3. CASE mark[o] # "black"
    BY <2>3
  <2> QED BY <2>2, <2>3
<1>4. SurvivorsClosed' /\ MarksCurrent'
  BY DEF SurvivorsClosed, MarksCurrent
<1> QED BY <1>2, <1>3, <1>4

\* Clearing weak entries removes references and adds none.
LEMMA ClearFacts ==
    ASSUME TypeOK,
           slot' = ClearValues(slot) \/ slot' = ClearKeys(ClearValues(slot)),
           UNCHANGED <<all, meta, weak, ref>>
    PROVE  \A o \in all : Kids(o)' \subseteq Kids(o) /\ Mentions(o)' \subseteq Mentions(o)
<1>1. \A t \in Tables, k \in Key :
          /\ slot'[t][k] \in {slot[t][k], Nil, Unused}
          /\ slot[t][k] = Unused => slot'[t][k] = Unused
  BY GcAssumption DEF ClearValues, ClearKeys, Dead, TypeOK
<1> SUFFICES ASSUME NEW o \in all, NEW c
             PROVE  /\ c \in Kids(o)' => c \in Kids(o)
                    /\ c \in Mentions(o)' => c \in Mentions(o)
  OBVIOUS
<1>2. HashKey \subseteq Key /\ ArrKey \subseteq Key
  BY DEF HashKey, Key
<1>3. CASE o \in Tables
  <2>1. ASSUME c \in Mentions(o)' PROVE c \in Mentions(o)
    <3>1. c \in Obj /\ (c = meta[o] \/ (\E k \in Key : c = slot'[o][k])
                         \/ (c \in Key /\ slot'[o][c] # Unused))
      BY <1>3, <2>1 DEF Mentions
    <3>2. c = meta[o] \/ (\E k \in Key : c = slot[o][k]) \/ (c \in Key /\ slot[o][c] # Unused)
      BY <3>1, <1>1, <1>3, GcAssumption
    <3> QED BY <1>3, <3>1, <3>2 DEF Mentions
  <2>2. ASSUME c \in Kids(o)' PROVE c \in Kids(o)
    <3>1. c \in Obj /\ c \in TableKids(o)'
      BY <1>3, <2>2 DEF Kids
    <3>2. \/ meta[o] # Nil /\ c = meta[o]
          \/ "v" \notin weak[o] /\ \E k \in ArrKey : c = slot'[o][k]
          \/ c \in HashKey /\ "k" \notin weak[o] /\ slot'[o][c] # Unused
          \/ weak[o] = {} /\ \E k \in HashKey : c = slot'[o][k]
      BY <3>1 DEF TableKids
    <3>3. \/ meta[o] # Nil /\ c = meta[o]
          \/ "v" \notin weak[o] /\ \E k \in ArrKey : c = slot[o][k]
          \/ c \in HashKey /\ "k" \notin weak[o] /\ slot[o][c] # Unused
          \/ weak[o] = {} /\ \E k \in HashKey : c = slot[o][k]
      BY <3>1, <3>2, <1>1, <1>2, <1>3, GcAssumption
    <3>4. c \in TableKids(o)
      BY <3>3 DEF TableKids
    <3> QED BY <1>3, <3>1, <3>4 DEF Kids
  <2> QED BY <2>1, <2>2
<1>4. CASE o \notin Tables
  BY <1>4 DEF Kids, Mentions
<1> QED BY <1>3, <1>4

-----------------------------------------------------------------------------
(* The collector's steps *)

\* What ClearWeak leaves in a marked object is marked: its strong children by
\* the tri-colour invariant, weak-key values because converge_ephemerons has
\* reached its fixpoint, weak halves because the white ones were just cleared.
LEMMA ClearWeakCloses ==
    ASSUME SafeModes, HeapInv, TypeOK', ClearWeak
    PROVE  SurvivorsClosed'
<1> SUFFICES ASSUME NEW o \in all, o \notin Garbage, NEW c \in Mentions(o)',
                    c \in Garbage
             PROVE  FALSE
  BY DEF SurvivorsClosed, ClearWeak, Garbage
<1>1. c \in all /\ mark[c] = white
  BY DEF Garbage
<1>2. mark[o] = "black"
  <2>1. mark[o] # white
    BY DEF Garbage, HeapInv, ControlOK, ClearWeak
  <2> QED BY <2>1 DEF HeapInv, MarksCurrent, ClearWeak, Converged, Gray
<1>3. c \notin Kids(o)
  BY <1>1, <1>2 DEF HeapInv, BlackHoldsNoWhite
<1>4. UNCHANGED <<all, meta, weak, ref, mark, white>>
  BY DEF ClearWeak
<1>5. CASE o \in Tables
  <2>1. c \in Obj /\ (c = meta[o] \/ (\E k \in Key : c = slot'[o][k])
                       \/ (c \in Key /\ slot'[o][c] # Unused))
    BY <1>4, <1>5 DEF Mentions
  <2>2. c # meta[o]
    BY <2>1, <1>3, <1>5, GcAssumption DEF Kids, TableKids
  <2>3. \A k \in Key : slot'[o][k] =
            IF "k" \in weak[o] /\ Dead(k) THEN Unused
            ELSE IF "v" \in weak[o] /\ Dead(slot[o][k]) THEN Nil ELSE slot[o][k]
    BY <1>5 DEF ClearWeak, ClearKeys, ClearValues
  <2>4. Dead(c)
    BY <1>1, <2>1 DEF Dead
  <2>5. ASSUME NEW k \in Key, c = slot'[o][k] PROVE FALSE
    <3>1. slot[o][k] = c /\ ~("k" \in weak[o] /\ Dead(k)) /\ "v" \notin weak[o]
      BY <2>1, <2>3, <2>4, <2>5, GcAssumption
    <3>2. CASE k \in ArrKey
      BY <1>3, <1>5, <2>1, <3>1, <3>2 DEF Kids, TableKids
    <3>3. CASE k \in HashKey
      <4>1. weak[o] = {} \/ weak[o] = {"k"}
        <5>1. weak[o] \in Modes
          BY <1>5 DEF HeapInv, TypeOK
        <5>2. \A x \in weak[o] : x = "k"
          BY <5>1, <3>1, GcAssumption
        <5> QED BY <5>2, Zenon
      <4>2. weak[o] # {}
        BY <1>3, <1>5, <2>1, <3>1, <3>3 DEF Kids, TableKids
      <4>3. weak[o] = {"k"} /\ {"k"} \in Modes
        <5>1. weak[o] \in Modes
          BY <1>5 DEF HeapInv, TypeOK
        <5>2. weak[o] = {"k"}
          BY <4>1, <4>2
        <5> QED BY <5>1, <5>2, Zenon
      <4>4. k \notin PrimKey
        BY <4>3 DEF SafeModes
      <4>5. KeyMarked(k)
        BY <3>1, <3>3, <4>3, <4>4, GcAssumption DEF KeyMarked, Dead, HashKey, Key
      <4>6. c \in EphemeronValues
        BY <1>1, <1>2, <1>5, <3>1, <3>3, <4>3, <4>5 DEF EphemeronValues, HeapInv, TypeOK, Whites
      <4> QED BY <4>6 DEF ClearWeak, Converged
    <3> QED BY <3>2, <3>3 DEF HashKey
  <2>6. ASSUME c \in Key, slot'[o][c] # Unused PROVE FALSE
    <3>1. "k" \notin weak[o] /\ slot[o][c] # Unused
      BY <2>3, <2>4, <2>6, GcAssumption DEF Dead
    <3>2. c \in HashKey
      BY <2>1, <2>6, GcAssumption DEF HashKey
    <3> QED BY <1>3, <1>5, <2>1, <3>1, <3>2 DEF Kids, TableKids
  <2> QED BY <2>1, <2>2, <2>5, <2>6
<1>6. CASE o \notin Tables
  BY <1>3, <1>4, <1>6 DEF Mentions, Kids
<1> QED BY <1>5, <1>6

\* The sweep loop keeps the heap closed: survivors mention no garbage.
LEMMA ReclaimHeap ==
    ASSUME HeapInv, TypeOK', Reclaim
    PROVE  HeapInv'
<1>1. /\ stage = "reclaim" /\ stage' = "finalize"
      /\ all' = all \ Garbage /\ white' = Other(white)
      /\ UNCHANGED <<phase, driver, toFinalize>>
  BY DEF Reclaim
<1>2. \A o \in all' : mark'[o] = white'
  BY DEF Reclaim, HeapInv, TypeOK
<1>3. \A o \in all' : Mentions(o)' = Mentions(o)
  <2> SUFFICES ASSUME NEW o \in all' PROVE Mentions(o)' = Mentions(o)
    OBVIOUS
  <2>1. o \in Obj /\ o \notin Garbage
    BY <1>1 DEF HeapInv, TypeOK
  <2>2. CASE o \in Tables
    <3>1. slot'[o] = slot[o] /\ meta'[o] = meta[o]
      BY <2>1, <2>2 DEF Reclaim, MetaObj
    <3> QED BY <2>2, <3>1 DEF Mentions
  <2>3. CASE o \notin Tables
    <3>1. (o \in Userdata => meta'[o] = meta[o]) /\ ref'[o] = ref[o]
      BY <2>1, <2>3 DEF Reclaim, MetaObj, RefObj, Obj
    <3> QED BY <2>3, <3>1 DEF Mentions
  <2> QED BY <2>2, <2>3
<1>4. HeapClosed'
  <2> SUFFICES ASSUME NEW o \in all', NEW c \in Mentions(o) PROVE c \in all'
    BY <1>3 DEF HeapClosed
  <2>1. o \in all \ Garbage
    BY <1>1
  <2>2. c \in all
    BY <2>1 DEF HeapInv, HeapClosed
  <2>3. c \notin Garbage
    BY <1>1, <2>1 DEF HeapInv, SurvivorsClosed
  <2> QED BY <1>1, <2>2, <2>3
<1>5. BlackHoldsNoWhite' /\ SurvivorsClosed' /\ MarksCurrent' /\ WhiteAtRest'
  <2>1. \A o \in all' : mark'[o] # "black"
    BY <1>2 DEF TypeOK, Whites
  <2> QED BY <1>1, <1>2, <2>1 DEF BlackHoldsNoWhite, SurvivorsClosed, MarksCurrent, WhiteAtRest
<1>6. ControlOK'
  BY <1>1 DEF HeapInv, ControlOK, OnlyFullCycles
<1> QED BY <1>4, <1>5, <1>6 DEF HeapInv

\* Every step of the collector keeps HeapInv.
LEMMA CollectorHeap ==
    ASSUME SafeModes, HeapInv, TypeOK', Collector
    PROVE  HeapInv'
<1> USE DEF heapVars, gcVars
<1>0. all \subseteq Obj /\ \A x \in all : x \in Obj /\ mark[x] \in {white, "gray", "black"}
  BY DEF HeapInv, TypeOK, MarksCurrent
<1>0a. \A o \in all : \A c \in Kids(o) : c \in all
  BY KidsMentioned DEF HeapInv, HeapClosed
<1>1. CASE MarkRoots
  <2>1. stage = "idle" /\ UNCHANGED <<all, slot, meta, weak, ref, white, stage, toFinalize>>
    BY <1>1 DEF MarkRoots, HeapInv, ControlOK
  <2>2. \A x \in all : /\ mark'[x] \in {white, "gray", "black"}
                       /\ mark'[x] = "black" <=> mark[x] = "black"
                       /\ mark[x] # white => mark'[x] # white
    BY <1>0, <1>1, MarkAllFacts DEF MarkRoots, HeapInv
  <2>3. HeapClosed' /\ BlackHoldsNoWhite' /\ SurvivorsClosed' /\ MarksCurrent'
    BY <2>1, <2>2, MarkingStep
  <2>4. WhiteAtRest' /\ ControlOK'
    BY <1>1, <2>1 DEF MarkRoots, Driven, HeapInv, ControlOK, WhiteAtRest, OnlyFullCycles
  <2> QED BY <2>3, <2>4 DEF HeapInv
<1>2. CASE EnterSweep
  <2>1. stage = "idle" /\ UNCHANGED <<all, slot, meta, weak, ref, white, stage, toFinalize, mark>>
    BY <1>2 DEF EnterSweep, HeapInv, ControlOK
  <2>2. HeapClosed' /\ BlackHoldsNoWhite' /\ SurvivorsClosed' /\ MarksCurrent'
    BY <1>0, <2>1, MarkingStep
  <2>3. WhiteAtRest' /\ ControlOK'
    BY <1>2, <2>1 DEF EnterSweep, Driven, HeapInv, ControlOK, WhiteAtRest, OnlyFullCycles
  <2> QED BY <2>2, <2>3 DEF HeapInv
<1>3. CASE Separate
  <2>1. UNCHANGED <<all, meta, weak, ref, white, mark>> /\ stage' = "ephemerons"
    BY <1>3 DEF Separate
  <2>2. \A o \in all : Kids(o)' \subseteq Kids(o) /\ Mentions(o)' \subseteq Mentions(o)
    BY <1>3, <2>1, ClearFacts DEF Separate, HeapInv
  <2>3. HeapClosed' /\ BlackHoldsNoWhite' /\ SurvivorsClosed' /\ MarksCurrent'
    BY <2>1, <2>2 DEF HeapInv, HeapClosed, BlackHoldsNoWhite, SurvivorsClosed, MarksCurrent
  <2>4. WhiteAtRest' /\ ControlOK'
    BY <1>3, <2>1 DEF Separate, HeapInv, ControlOK, WhiteAtRest, OnlyFullCycles
  <2> QED BY <2>3, <2>4 DEF HeapInv
<1>4. CASE Resurrect
  <2>1. /\ UNCHANGED <<all, slot, meta, weak, ref, white, phase, driver, toFinalize>>
        /\ stage = "ephemerons" /\ stage' = "resurrected"
    BY <1>4 DEF Resurrect
  <2>2. \A x \in all : /\ mark'[x] \in {white, "gray", "black"}
                       /\ mark'[x] = "black" <=> mark[x] = "black"
                       /\ mark[x] # white => mark'[x] # white
                       /\ x \in toFinalize => mark'[x] # white
    BY <1>0, <1>4, MarkAllFacts DEF Resurrect, HeapInv
  <2>3. HeapClosed' /\ BlackHoldsNoWhite' /\ SurvivorsClosed' /\ MarksCurrent'
    BY <2>1, <2>2, MarkingStep
  <2>4. WhiteAtRest' /\ ControlOK'
    BY <2>1, <2>2 DEF HeapInv, ControlOK, WhiteAtRest, OnlyFullCycles, TypeOK
  <2> QED BY <2>3, <2>4 DEF HeapInv
<1>5. CASE ClearWeak
  <2>1. /\ UNCHANGED <<all, meta, weak, ref, white, mark, phase, driver, toFinalize>>
        /\ stage = "resurrected" /\ stage' = "reclaim"
    BY <1>5 DEF ClearWeak
  <2>2. \A o \in all : Kids(o)' \subseteq Kids(o) /\ Mentions(o)' \subseteq Mentions(o)
    BY <1>5, <2>1, ClearFacts DEF ClearWeak, HeapInv
  <2>3. HeapClosed' /\ BlackHoldsNoWhite' /\ MarksCurrent'
    BY <2>1, <2>2 DEF HeapInv, HeapClosed, BlackHoldsNoWhite, MarksCurrent
  <2>4. SurvivorsClosed'
    BY <1>5, ClearWeakCloses
  <2>5. WhiteAtRest' /\ ControlOK'
    BY <2>1 DEF HeapInv, ControlOK, WhiteAtRest, OnlyFullCycles
  <2> QED BY <2>3, <2>4, <2>5 DEF HeapInv
<1>6. CASE Reclaim
  BY <1>6, ReclaimHeap
<1>7. CASE EndSweep
  <2>1. /\ UNCHANGED <<all, slot, meta, weak, ref, white, mark, toFinalize>>
        /\ stage = "finalize" /\ stage' = "idle"
    BY <1>7 DEF EndSweep
  <2>2. HeapClosed' /\ BlackHoldsNoWhite' /\ SurvivorsClosed' /\ MarksCurrent'
    BY <1>0, <2>1, MarkingStep
  <2>3. WhiteAtRest' /\ ControlOK'
    BY <1>7, <2>1 DEF EndSweep, HeapInv, ControlOK, WhiteAtRest, OnlyFullCycles
  <2> QED BY <2>2, <2>3 DEF HeapInv
<1>8. ASSUME NEW o \in all, PropagateOne(o) \/ ConvergeDrain(o) PROVE HeapInv'
  <2>1. /\ UNCHANGED <<all, slot, meta, weak, ref, white, phase, stage, toFinalize>>
        /\ stage \notin {"reclaim", "finalize"} /\ phase # "pause"
    BY <1>8 DEF PropagateOne, ConvergeDrain, Converging, HeapInv, ControlOK
  <2>2. \A x \in all : /\ mark'[x] \in {white, "gray", "black"}
                       /\ mark'[x] = "black" <=> (x = o \/ mark[x] = "black")
                       /\ mark[x] # white => mark'[x] # white
                       /\ x \in Kids(o) => mark'[x] # white
    BY <1>0, <1>8, PropagatedFacts DEF PropagateOne, ConvergeDrain, HeapInv
  <2>3. HeapClosed' /\ BlackHoldsNoWhite' /\ SurvivorsClosed' /\ MarksCurrent'
    BY <1>0a, <2>1, <2>2, MarkingStep
  <2>4. WhiteAtRest' /\ ControlOK'
    <3>1. driver' = driver \/ (phase = "propagate" /\ driver' = Driven)
      BY <1>8 DEF PropagateOne, ConvergeDrain
    <3>2. \A x \in toFinalize : x \in all
      BY DEF HeapInv, TypeOK
    <3> QED BY <2>1, <2>2, <3>1, <3>2 DEF Driven, HeapInv, ControlOK, WhiteAtRest, OnlyFullCycles
  <2> QED BY <2>3, <2>4 DEF HeapInv
<1>9. ASSUME NEW o \in all, ConvergeMark(o) PROVE HeapInv'
  <2>1. /\ UNCHANGED <<all, slot, meta, weak, ref, white, phase, stage, toFinalize, driver>>
        /\ stage \notin {"reclaim", "finalize"} /\ phase # "pause"
    BY <1>9 DEF ConvergeMark, Converging, HeapInv, ControlOK
  <2>2. \A x \in all : /\ mark'[x] \in {white, "gray", "black"}
                       /\ mark'[x] = "black" <=> mark[x] = "black"
                       /\ mark[x] # white => mark'[x] # white
    BY <1>0, <1>9, MarkAllFacts DEF ConvergeMark, HeapInv
  <2>3. HeapClosed' /\ BlackHoldsNoWhite' /\ SurvivorsClosed' /\ MarksCurrent'
    BY <2>1, <2>2, MarkingStep
  <2>4. WhiteAtRest' /\ ControlOK'
    <3>1. \A x \in toFinalize : x \in all
      BY DEF HeapInv, TypeOK
    <3> QED BY <2>1, <2>2, <3>1 DEF HeapInv, ControlOK, WhiteAtRest, OnlyFullCycles
  <2> QED BY <2>3, <2>4 DEF HeapInv
<1>10. ASSUME (\E o \in all : StartFinalizer(o)) \/ (\E err \in BOOLEAN : EndFinalizer(err))
       PROVE HeapInv'
  <2>1. /\ UNCHANGED <<all, slot, meta, weak, ref, white, mark, phase, stage, driver>>
        /\ stage = "finalize"
    BY <1>10 DEF StartFinalizer, EndFinalizer, HeapInv, TypeOK
  <2>2. HeapClosed' /\ BlackHoldsNoWhite' /\ SurvivorsClosed' /\ MarksCurrent'
    BY <1>0, <2>1, MarkingStep
  <2>3. WhiteAtRest' /\ ControlOK'
    BY <2>1 DEF HeapInv, ControlOK, WhiteAtRest, OnlyFullCycles
  <2> QED BY <2>2, <2>3 DEF HeapInv
<1> QED BY <1>1, <1>2, <1>3, <1>4, <1>5, <1>6, <1>7, <1>8, <1>9, <1>10 DEF Collector

-----------------------------------------------------------------------------
(* The mutator's steps *)

\* While the program runs, sweep() is not between two of its stages; and either
\* the collector is at rest, or no table is weak.
LEMMA RunningFacts ==
    ASSUME SafeModes, HeapInv, Running
    PROVE  /\ stage \in {"idle", "finalize"}
           /\ \/ \A o \in all : mark[o] = white
              \/ Modes = {{}}
<1>1. CASE driver = "none"
  BY <1>1 DEF SafeModes, HeapInv, ControlOK, WhiteAtRest
<1>2. CASE fin # Nil
  BY <1>2 DEF HeapInv, TypeOK, WhiteAtRest
<1> QED BY <1>1, <1>2 DEF Running

\* A store into parent, with its barrier on the stored values S, keeps HeapInv:
\* the parent's new children are among the old ones and S, and they are marked if
\* the parent is black.
LEMMA StoreStep ==
    ASSUME SafeModes, HeapInv, TypeOK', Running,
           NEW parent \in all, NEW S, S \cap Obj \subseteq all,
           NEW T, S \subseteq T, mark' = Barrier(parent, T),
           UNCHANGED <<all, gcVars>>,
           \A o \in all : Mentions(o)' \subseteq Mentions(o) \cup (S \cap Obj),
           Modes = {{}} => \A o \in all :
               /\ o # parent => Kids(o)' \subseteq Kids(o)
               /\ o = parent => Kids(o)' \subseteq Kids(o) \cup (S \cap Obj)
    PROVE  HeapInv'
<1> USE DEF gcVars
<1>0. all \subseteq Obj /\ \A x \in all : x \in Obj /\ mark[x] \in {white, "gray", "black"}
  BY DEF HeapInv, TypeOK, MarksCurrent
<1>1. /\ \A x \in all : /\ mark'[x] \in {white, "gray", "black"}
                        /\ mark'[x] = "black" <=> mark[x] = "black"
                        /\ mark[x] # white => mark'[x] # white
      /\ mark[parent] = "black" => \A x \in S \cap Obj : mark'[x] # white
      /\ mark[parent] # "black" => mark' = mark
  <2>2. CASE mark[parent] = "black"
    <3>1. mark' = MarkAll(T \cap Obj)
      BY <2>2 DEF Barrier
    <3>2. \A x \in all : /\ mark'[x] \in {white, "gray", "black"}
                         /\ mark'[x] = "black" <=> mark[x] = "black"
                         /\ mark[x] # white => mark'[x] # white
                         /\ x \in T \cap Obj => mark'[x] # white
      BY <1>0, <3>1, MarkAllFacts DEF HeapInv
    <3> QED BY <2>2, <3>2
  <2>3. CASE mark[parent] # "black"
    BY <1>0, <2>3 DEF Barrier
  <2> QED BY <2>2, <2>3
<1>2. HeapClosed'
  BY DEF HeapInv, HeapClosed
<1>3. stage \in {"idle", "finalize"} /\ SurvivorsClosed' /\ MarksCurrent'
  BY <1>1, RunningFacts DEF SurvivorsClosed, MarksCurrent
<1>4. BlackHoldsNoWhite'
  <2>1. CASE \A o \in all : mark[o] = white
    <3>1. \A o \in all : mark'[o] # "black"
      BY <1>1, <2>1 DEF HeapInv, TypeOK, Whites
    <3> QED BY <3>1 DEF BlackHoldsNoWhite
  <2>2. CASE Modes = {{}}
    <3> SUFFICES ASSUME NEW o \in all, mark'[o] = "black", NEW c \in Kids(o)'
                 PROVE mark'[c] # white
      BY DEF BlackHoldsNoWhite
    <3>1. mark[o] = "black"
      BY <1>1
    <3>2. CASE c \in Kids(o)
      <4>1. c \in all
        BY <3>2, KidsMentioned DEF HeapInv, HeapClosed
      <4> QED BY <1>1, <3>1, <3>2, <4>1 DEF HeapInv, BlackHoldsNoWhite
    <3>3. CASE c \notin Kids(o)
      BY <1>1, <2>2, <3>1, <3>3
    <3> QED BY <3>2, <3>3
  <2> QED BY <2>1, <2>2, RunningFacts
<1>5. WhiteAtRest'
  <2>1. phase = "pause" \/ stage = "finalize" => mark[parent] # "black"
    BY DEF HeapInv, WhiteAtRest, TypeOK, Whites
  <2> QED BY <1>1, <2>1 DEF HeapInv, WhiteAtRest
<1>6. ControlOK'
  BY <1>3 DEF HeapInv, ControlOK, OnlyFullCycles
<1> QED BY <1>2, <1>3, <1>4, <1>5, <1>6 DEF HeapInv

\* Table::set and set_int keep HeapInv.
LEMMA SetTableHeap ==
    ASSUME SafeModes, HeapInv, TypeOK', NEW t \in all \cap Tables, NEW k \in Key,
           k \in Obj => k \in all, NEW v \in all \cup {Nil},
           NEW reused, NEW rehash, SetTable(t, k, v, reused, rehash)
    PROVE  HeapInv'
<1>1. Running /\ UNCHANGED <<all, meta, weak, ref, gcVars>>
  BY DEF SetTable
<1>2. \A o \in Tables, h \in Key :
        \/ slot'[o][h] = slot[o][h]
        \/ slot'[o][h] = Unused
        \/ o = t /\ h = k /\ slot'[o][h] = v
  BY DEF SetTable, HeapInv, TypeOK
<1>3. PICK T : /\ mark' = Barrier(t, T) /\ v \in T
               /\ slot[t][k] = Unused => k \in T \/ k \in ArrKey
  <2>1. CASE slot[t][k] # Unused \/ k \in ArrKey
    BY <2>1 DEF SetTable
  <2>2. CASE ~(slot[t][k] # Unused \/ k \in ArrKey)
    <3>1. PICK more : mark' = Barrier(t, {k, v} \cup more)
      BY <2>2 DEF SetTable
    <3> QED BY <3>1
  <2> QED BY <2>1, <2>2
<1> DEFINE S == {x \in {k, v} : x = v \/ (slot[t][k] = Unused /\ k \notin ArrKey)}
<1>4. S \subseteq T /\ S \cap Obj \subseteq all
  BY <1>3, GcAssumption
<1>5. HashKey \subseteq Key /\ ArrKey \subseteq Key /\ ArrKey \cap Obj = {}
  BY GcAssumption DEF HashKey, Key
<1>6. ASSUME NEW o \in all PROVE Mentions(o)' \subseteq Mentions(o) \cup (S \cap Obj)
  <2> SUFFICES ASSUME NEW c \in Mentions(o)' PROVE c \in Mentions(o) \cup (S \cap Obj)
    OBVIOUS
  <2>1. CASE o \in Tables
    <3>1. c \in Obj /\ (c = meta[o] \/ (\E h \in Key : c = slot'[o][h])
                         \/ (c \in Key /\ slot'[o][c] # Unused))
      BY <1>1, <2>1 DEF Mentions
    <3>2. \/ c = meta[o] \/ (\E h \in Key : c = slot[o][h])
          \/ (c \in Key /\ slot[o][c] # Unused)
          \/ c \in S
      BY <1>2, <1>5, <2>1, <3>1, GcAssumption
    <3> QED BY <2>1, <3>1, <3>2 DEF Mentions
  <2>2. CASE o \notin Tables
    BY <1>1, <2>2 DEF Mentions
  <2> QED BY <2>1, <2>2
<1>7. ASSUME Modes = {{}}, NEW o \in all
      PROVE /\ o # t => Kids(o)' \subseteq Kids(o)
            /\ o = t => Kids(o)' \subseteq Kids(o) \cup (S \cap Obj)
  <2> SUFFICES ASSUME NEW c \in Kids(o)'
               PROVE c \in Kids(o) \/ (o = t /\ c \in S \cap Obj)
    OBVIOUS
  <2>1. CASE o \in Tables
    <3>1. c \in Obj /\ c \in TableKids(o)'
      BY <2>1 DEF Kids
    <3>2. \/ meta[o] # Nil /\ c = meta[o]
          \/ "v" \notin weak[o] /\ \E h \in ArrKey : c = slot'[o][h]
          \/ c \in HashKey /\ "k" \notin weak[o] /\ slot'[o][c] # Unused
          \/ weak[o] = {} /\ \E h \in HashKey : c = slot'[o][h]
      BY <1>1, <3>1 DEF TableKids
    <3>3. \/ meta[o] # Nil /\ c = meta[o]
          \/ "v" \notin weak[o] /\ \E h \in ArrKey : c = slot[o][h]
          \/ c \in HashKey /\ "k" \notin weak[o] /\ slot[o][c] # Unused
          \/ weak[o] = {} /\ \E h \in HashKey : c = slot[o][h]
          \/ o = t /\ c \in S
      BY <1>2, <1>5, <2>1, <3>1, <3>2, GcAssumption
    <3>4. c \in TableKids(o) \/ (o = t /\ c \in S)
      BY <3>3 DEF TableKids
    <3> QED BY <2>1, <3>1, <3>4 DEF Kids
  <2>2. CASE o \notin Tables
    BY <1>1, <2>2 DEF Kids
  <2> QED BY <2>1, <2>2
<1> HIDE DEF S
<1> QED BY <1>1, <1>3, <1>4, <1>6, <1>7, StoreStep

\* setmetatable keeps HeapInv.
LEMMA SetMetatableHeap ==
    ASSUME SafeModes, HeapInv, TypeOK', NEW p \in all \cap MetaObj,
           NEW m \in (all \cap Tables) \cup {Nil}, NEW w \in Modes, SetMetatable(p, m, w)
    PROVE  HeapInv'
<1>1. Running /\ UNCHANGED <<all, slot, ref, gcVars>> /\ mark' = Barrier(p, {m})
  BY DEF SetMetatable
<1>2. \A o \in MetaObj : meta'[o] = IF o = p THEN m ELSE meta[o]
  BY DEF SetMetatable, HeapInv, TypeOK
<1>3. {m} \cap Obj \subseteq all
  BY GcAssumption
<1>4. \A o \in all : Mentions(o)' \subseteq Mentions(o) \cup ({m} \cap Obj)
  BY <1>1, <1>2 DEF Mentions, MetaObj
<1>5. ASSUME Modes = {{}}, NEW o \in all
      PROVE /\ o # p => Kids(o)' \subseteq Kids(o)
            /\ o = p => Kids(o)' \subseteq Kids(o) \cup ({m} \cap Obj)
  <2>1. o \in Tables => weak'[o] = weak[o]
    BY <1>5 DEF HeapInv, TypeOK
  <2>2. CASE o \in Tables
    <3> SUFFICES ASSUME NEW c \in Kids(o)'
                 PROVE c \in Kids(o) \/ (o = p /\ c = m /\ c \in Obj)
      OBVIOUS
    <3>1. c \in Obj /\ c \in TableKids(o)'
      BY <2>2 DEF Kids
    <3>2. c \in TableKids(o) \/ c = meta'[o]
      BY <1>1, <2>1, <2>2, <3>1 DEF TableKids
    <3>3. c = meta'[o] /\ c # m => o # p /\ c = meta[o]
      BY <1>2, <2>2 DEF MetaObj
    <3>4. c = meta[o] => c \in TableKids(o)
      BY <3>1, GcAssumption DEF TableKids
    <3>5. o # p => meta'[o] = meta[o]
      BY <1>2, <2>2 DEF MetaObj
    <3> QED BY <2>2, <3>1, <3>2, <3>3, <3>4, <3>5 DEF Kids
  <2>3. CASE o \notin Tables
    BY <1>1, <1>2, <2>3 DEF Kids, MetaObj
  <2> QED BY <2>2, <2>3
<1> QED BY <1>1, <1>3, <1>4, <1>5, StoreStep

\* Stores into upvalues and uservalues keep HeapInv.
LEMMA SetRefHeap ==
    ASSUME SafeModes, HeapInv, TypeOK', NEW p \in all \cap RefObj,
           NEW v \in all \cup {Nil}, SetRef(p, v)
    PROVE  HeapInv'
<1>1. Running /\ UNCHANGED <<all, slot, meta, weak, gcVars>> /\ mark' = Barrier(p, {v})
  BY DEF SetRef
<1>2. \A o \in RefObj : ref'[o] = IF o = p THEN v ELSE ref[o]
  BY DEF SetRef, HeapInv, TypeOK
<1>3. {v} \cap Obj \subseteq all
  BY GcAssumption
<1>4. \A o \in all : o \in Tables \/ o \in RefObj
  BY DEF HeapInv, TypeOK, Obj, RefObj
<1>5. ASSUME NEW o \in all
      PROVE /\ Mentions(o)' \subseteq Mentions(o) \cup ({v} \cap Obj)
            /\ o # p => Kids(o)' \subseteq Kids(o)
            /\ o = p => Kids(o)' \subseteq Kids(o) \cup ({v} \cap Obj)
  <2>1. CASE o \in Tables
    BY <1>1, <2>1 DEF Mentions, Kids, TableKids
  <2>2. CASE o \notin Tables
    BY <1>1, <1>2, <1>4, <2>2 DEF Mentions, Kids
  <2> QED BY <2>1, <2>2
<1> QED BY <1>1, <1>3, <1>5, StoreStep

\* Allocation keeps HeapInv: nothing mentions the new object, and it is white.
LEMMA NewHeap ==
    ASSUME SafeModes, HeapInv, TypeOK', NEW r \in Reg, NEW n \in Obj, New(n, r)
    PROVE  HeapInv'
<1>1. /\ Running /\ n \notin all /\ all' = all \cup {n} /\ mark'[n] = white
      /\ \A x \in all : mark'[x] = mark[x]
      /\ UNCHANGED gcVars
  BY DEF New, HeapInv, TypeOK
<1>2. UNCHANGED <<white, phase, stage, driver, toFinalize, fin>>
  BY <1>1 DEF gcVars
<1>3. Mentions(n)' = {}
  <2>1. CASE n \in Tables
    <3>1. meta'[n] = Nil /\ \A k \in Key : slot'[n][k] = Unused
      BY <2>1 DEF New, MetaObj, NoNodes
    <3> QED BY <2>1, <3>1, GcAssumption DEF Mentions
  <2>2. CASE n \notin Tables
    <3>1. n \in RefObj /\ ref'[n] = Nil /\ (n \in Userdata => meta'[n] = Nil)
      BY <2>2 DEF New, MetaObj, RefObj, Obj
    <3> QED BY <2>2, <3>1, GcAssumption DEF Mentions
  <2> QED BY <2>1, <2>2
<1>4. \A o \in all : Mentions(o)' = Mentions(o) /\ Kids(o)' = Kids(o)
  <2> SUFFICES ASSUME NEW o \in all PROVE Mentions(o)' = Mentions(o) /\ Kids(o)' = Kids(o)
    OBVIOUS
  <2>1. o \in Obj /\ o # n
    BY <1>1 DEF HeapInv, TypeOK
  <2>2. CASE o \in Tables
    <3>1. slot'[o] = slot[o] /\ meta'[o] = meta[o] /\ weak'[o] = weak[o]
      BY <2>1, <2>2 DEF New, MetaObj
    <3> QED BY <2>2, <3>1 DEF Mentions, Kids, TableKids
  <2>3. CASE o \notin Tables
    <3>1. (o \in Userdata => meta'[o] = meta[o]) /\ ref'[o] = ref[o]
      BY <2>1, <2>3 DEF New, MetaObj, RefObj, Obj
    <3> QED BY <2>3, <3>1 DEF Mentions, Kids
  <2> QED BY <2>2, <2>3
<1>5. HeapClosed'
  BY <1>1, <1>3, <1>4 DEF HeapInv, HeapClosed
<1>6. stage \in {"idle", "finalize"} /\ SurvivorsClosed' /\ MarksCurrent' /\ WhiteAtRest'
  BY <1>1, <1>2, RunningFacts DEF SurvivorsClosed, HeapInv, MarksCurrent, WhiteAtRest
<1>7. BlackHoldsNoWhite'
  <2> SUFFICES ASSUME NEW o \in all, mark'[o] = "black", NEW c \in Kids(o)
               PROVE mark'[c] # white
    BY <1>1, <1>2, <1>4 DEF BlackHoldsNoWhite, HeapInv, TypeOK, Whites
  <2>1. c \in all
    BY KidsMentioned DEF HeapInv, HeapClosed
  <2> QED BY <1>1, <2>1 DEF HeapInv, BlackHoldsNoWhite
<1>8. ControlOK'
  BY <1>2, <1>6 DEF HeapInv, ControlOK, OnlyFullCycles
<1> QED BY <1>5, <1>6, <1>7, <1>8 DEF HeapInv

\* Every step keeps HeapInv.
LEMMA HeapStep ==
    ASSUME SafeModes, HeapInv, [Next]_vars
    PROVE  HeapInv'
<1>1. TypeOK'
  BY TypeStep DEF HeapInv
<1> USE <1>1
<1>0. all \subseteq Obj /\ \A x \in all : x \in Obj /\ mark[x] \in {white, "gray", "black"}
  BY DEF HeapInv, TypeOK, MarksCurrent
<1>2. ASSUME UNCHANGED <<all, slot, meta, weak, ref, white, mark, phase, stage, toFinalize>>,
             ControlOK'
      PROVE HeapInv'
  <2>1. \A o : Kids(o)' = Kids(o) /\ Mentions(o)' = Mentions(o)
    BY <1>2 DEF Kids, TableKids, Mentions
  <2>2. HeapClosed' /\ BlackHoldsNoWhite' /\ MarksCurrent' /\ WhiteAtRest'
    BY <1>2, <2>1 DEF HeapInv, HeapClosed, BlackHoldsNoWhite, MarksCurrent, WhiteAtRest
  <2>3. SurvivorsClosed'
    BY <1>2, <2>1 DEF HeapInv, SurvivorsClosed, Garbage
  <2> QED BY <1>2, <2>2, <2>3 DEF HeapInv
<1>3. CASE Mutator
  <2>1. ASSUME NEW r \in Reg, NEW o \in Obj, New(o, r) PROVE HeapInv'
    BY <2>1, NewHeap
  <2>2. ASSUME NEW r \in Reg, NEW v, Move(r, v) PROVE HeapInv'
    <3>1. /\ UNCHANGED <<all, slot, meta, weak, ref, white, mark, phase, stage, toFinalize>>
          /\ UNCHANGED driver
      BY <2>2 DEF Move, gcVars
    <3>2. ControlOK'
      BY <3>1 DEF HeapInv, ControlOK, OnlyFullCycles
    <3> QED BY <1>2, <3>1, <3>2
  <2>3. ASSUME NEW t \in Held \cap Tables, NEW k \in (Held \cap KeyObj) \cup (Key \ Obj),
               NEW v \in Held \cup {Nil}, NEW reused, NEW rehash,
               SetTable(t, k, v, reused, rehash)
        PROVE HeapInv'
    <3>1. t \in all \cap Tables /\ k \in Key /\ (k \in Obj => k \in all) /\ v \in all \cup {Nil}
      BY DEF Held, Key
    <3> QED BY <2>3, <3>1, SetTableHeap
  <2>4. ASSUME NEW o \in Held \cap MetaObj, NEW m \in (Held \cap Tables) \cup {Nil},
               NEW w \in Modes, SetMetatable(o, m, w)
        PROVE HeapInv'
    <3>1. o \in all \cap MetaObj /\ m \in (all \cap Tables) \cup {Nil}
      BY DEF Held
    <3> QED BY <2>4, <3>1, SetMetatableHeap
  <2>5. ASSUME NEW o \in Held \cap RefObj, NEW v \in Held \cup {Nil}, SetRef(o, v)
        PROVE HeapInv'
    <3>1. o \in all \cap RefObj /\ v \in all \cup {Nil}
      BY DEF Held
    <3> QED BY <2>5, <3>1, SetRefHeap
  <2> QED BY <1>3, <2>1, <2>2, <2>3, <2>4, <2>5 DEF Mutator, Load
<1>4. CASE FullGc \/ \E opt \in {"step", "cycle"} : CallStep(opt)
  <2>1. UNCHANGED <<all, slot, meta, weak, ref, white, mark, phase, stage, toFinalize>>
    BY <1>4 DEF FullGc, CallStep, heapVars
  <2>2. ControlOK'
    BY <1>4, <2>1 DEF FullGc, CallStep, HeapInv, ControlOK, OnlyFullCycles
  <2> QED BY <1>2, <2>1, <2>2
<1>5. CASE Collector
  BY <1>5, CollectorHeap
<1>6. CASE UNCHANGED vars
  <2>1. UNCHANGED <<all, slot, meta, weak, ref, white, mark, phase, stage, toFinalize, driver>>
    BY <1>6 DEF vars, heapVars, gcVars
  <2>2. ControlOK'
    BY <2>1 DEF HeapInv, ControlOK, OnlyFullCycles
  <2> QED BY <1>2, <2>1, <2>2
<1> QED BY <1>3, <1>4, <1>5, <1>6 DEF Next

\* The initial state satisfies the invariants.
LEMMA InitInv == Init => CollectInv
<1> SUFFICES ASSUME Init PROVE CollectInv
  OBVIOUS
<1>1. TypeOK
  BY InitType
<1>2. HeapClosed /\ BlackHoldsNoWhite /\ SurvivorsClosed /\ MarksCurrent /\ WhiteAtRest
  BY DEF Init, HeapClosed, BlackHoldsNoWhite, SurvivorsClosed, MarksCurrent, WhiteAtRest
<1>3. ControlOK /\ RootsLive /\ RootsMarked
  BY DEF Init, ControlOK, RootsLive, RootsMarked
<1> QED BY <1>1, <1>2, <1>3 DEF CollectInv, HeapInv

-----------------------------------------------------------------------------
(* The roots, when every cycle is a full one *)

\* Every step of the collector keeps the roots live, and marked while it marks.
LEMMA CollectorRoots ==
    ASSUME SafeModes, OnlyFullCycles, CollectInv, Collector
    PROVE  RootsLive' /\ RootsMarked'
<1> USE DEF heapVars, gcVars
<1>0. /\ HeapInv /\ TypeOK /\ all \subseteq Obj
      /\ \A x \in all : x \in Obj /\ mark[x] \in {white, "gray", "black"}
      /\ \A r \in Reg : reg[r] # Nil => reg[r] \in all
  BY DEF CollectInv, HeapInv, TypeOK, MarksCurrent, RootsLive
<1>0a. ASSUME UNCHANGED <<all, reg, white>>, phase # "pause", stage # "finalize",
             \A x \in all : mark[x] # white => mark'[x] # white
      PROVE RootsLive' /\ RootsMarked'
  BY <1>0, <1>0a DEF CollectInv, RootsLive, RootsMarked
<1>1. CASE MarkRoots
  <2>1. UNCHANGED <<all, reg, white>>
    BY <1>1 DEF MarkRoots
  <2>2. \A r \in Reg : reg[r] # Nil => mark'[reg[r]] # white
    <3> SUFFICES ASSUME NEW r \in Reg, reg[r] # Nil PROVE mark'[reg[r]] # white
      OBVIOUS
    <3>1. reg[r] \in Obj /\ reg[r] \in all /\ reg[r] \in {reg[q] : q \in Reg} \cap Obj
      BY <1>0
    <3>2. mark' = MarkAll({reg[q] : q \in Reg} \cap Obj)
      BY <1>1 DEF MarkRoots
    <3> QED BY <1>0, <3>1, <3>2, MarkAllFacts
  <2> QED BY <2>1, <2>2 DEF CollectInv, RootsLive, RootsMarked
<1>2. CASE EnterSweep \/ Separate \/ ClearWeak
  BY <1>2, <1>0a DEF EnterSweep, Separate, ClearWeak, CollectInv, HeapInv, ControlOK
<1>3. CASE Resurrect
  <2>1. \A x \in all : mark[x] # white => mark'[x] # white
    BY <1>0, <1>3, MarkAllFacts DEF Resurrect
  <2> QED BY <1>3, <1>0a, <2>1 DEF Resurrect, CollectInv, HeapInv, ControlOK
<1>4. CASE Reclaim
  <2>1. \A r \in Reg : reg[r] # Nil => reg[r] \in all \ Garbage
    BY <1>0, <1>4 DEF Reclaim, Garbage, CollectInv, RootsMarked, HeapInv, ControlOK
  <2> QED BY <1>4, <2>1 DEF Reclaim, RootsLive, RootsMarked
<1>5. CASE EndSweep
  BY <1>5 DEF EndSweep, CollectInv, HeapInv, ControlOK, RootsLive, RootsMarked
<1>6. ASSUME NEW o \in all, PropagateOne(o) \/ ConvergeDrain(o)
      PROVE RootsLive' /\ RootsMarked'
  <2>1. \A x \in all : mark[x] # white => mark'[x] # white
    BY <1>0, <1>6, PropagatedFacts DEF PropagateOne, ConvergeDrain
  <2> QED BY <1>6, <1>0a, <2>1
          DEF PropagateOne, ConvergeDrain, Converging, CollectInv, HeapInv, ControlOK
<1>7. ASSUME NEW o \in all, ConvergeMark(o) PROVE RootsLive' /\ RootsMarked'
  <2>1. \A x \in all : mark[x] # white => mark'[x] # white
    BY <1>0, <1>7, MarkAllFacts DEF ConvergeMark
  <2> QED BY <1>7, <1>0a, <2>1 DEF ConvergeMark, Converging, CollectInv, HeapInv, ControlOK
<1>8. ASSUME (\E o \in all : StartFinalizer(o)) \/ (\E err \in BOOLEAN : EndFinalizer(err))
      PROVE RootsLive' /\ RootsMarked'
  BY <1>0, <1>8 DEF StartFinalizer, EndFinalizer, TypeOK, CollectInv, RootsLive, RootsMarked
<1> QED BY <1>1, <1>2, <1>3, <1>4, <1>5, <1>6, <1>7, <1>8 DEF Collector

\* A mutator runs between cycles or in a finalizer. It leaves the collector's own
\* state alone, allocates an object, changes a register, or changes the fields of
\* an object and neither the list of objects nor a register.
LEMMA MutatorFacts ==
    ASSUME Mutator
    PROVE  /\ Running /\ UNCHANGED gcVars
           /\ \/ \E r \in Reg, o \in Obj : New(o, r)
              \/ \E r \in Reg, v \in Held \cup {Nil} : Move(r, v)
              \/ \E r \in Reg, o \in Held : \E v \in Fields(o) : Load(r, o, v)
              \/ UNCHANGED <<all, reg>>
<1>1. ASSUME NEW r, NEW o, New(o, r) PROVE Running /\ UNCHANGED gcVars
  BY <1>1 DEF New
<1>2. ASSUME NEW r, NEW v, Move(r, v) PROVE Running /\ UNCHANGED gcVars
  BY <1>2 DEF Move
<1>3. ASSUME NEW r, NEW o, NEW v, Load(r, o, v) PROVE Running /\ UNCHANGED gcVars
  BY <1>2, <1>3 DEF Load
<1>4. ASSUME NEW t, NEW k, NEW v, NEW reused, NEW rehash, SetTable(t, k, v, reused, rehash)
      PROVE  Running /\ UNCHANGED gcVars /\ UNCHANGED <<all, reg>>
  BY <1>4 DEF SetTable
<1>5. ASSUME NEW o, NEW m, NEW w, SetMetatable(o, m, w)
      PROVE  Running /\ UNCHANGED gcVars /\ UNCHANGED <<all, reg>>
  BY <1>5 DEF SetMetatable
<1>6. ASSUME NEW o, NEW v, SetRef(o, v) PROVE Running /\ UNCHANGED gcVars /\ UNCHANGED <<all, reg>>
  BY <1>6 DEF SetRef
<1> QED BY Zenon, <1>1, <1>2, <1>3, <1>4, <1>5, <1>6 DEF Mutator

\* Every step keeps CollectInv when programs run full cycles only.
LEMMA CollectStep ==
    ASSUME SafeModes, OnlyFullCycles, CollectInv, [Next]_vars
    PROVE  CollectInv'
<1>1. HeapInv'
  BY HeapStep DEF CollectInv
<1>2. CASE Mutator
  <2>1. phase = "pause" \/ stage = "finalize"
    <3>1. Running
      BY <1>2, MutatorFacts
    <3> QED BY <3>1 DEF Running, CollectInv, HeapInv, ControlOK, TypeOK
  <2>2. UNCHANGED gcVars
    BY <1>2, MutatorFacts
  <2>3. RootsMarked'
    BY <2>1, <2>2 DEF RootsMarked, gcVars
  <2>4. ASSUME NEW r \in Reg, NEW o \in Obj, New(o, r) PROVE RootsLive'
    BY <2>4 DEF New, CollectInv, HeapInv, TypeOK, RootsLive
  <2>5. ASSUME NEW r \in Reg, NEW v \in all \cup {Nil}, Move(r, v) PROVE RootsLive'
    BY <2>5 DEF Move, CollectInv, HeapInv, TypeOK, RootsLive
  <2>6. Held \subseteq all
    BY DEF Held
  <2>7. \A o \in Held : Fields(o) \subseteq all
    <3>1. \A o : Fields(o) \subseteq Mentions(o)
      BY DEF Fields, Mentions
    <3> QED BY <2>6, <3>1 DEF CollectInv, HeapInv, HeapClosed
  <2>8. ASSUME UNCHANGED <<all, reg>> PROVE RootsLive'
    BY <2>8 DEF CollectInv, RootsLive
  <2>9. RootsLive'
    BY <1>2, <2>4, <2>5, <2>6, <2>7, <2>8, MutatorFacts DEF Load
  <2> QED BY <1>1, <2>3, <2>9 DEF CollectInv
<1>3. CASE FullGc \/ \E opt \in {"step", "cycle"} : CallStep(opt)
  BY <1>1, <1>3 DEF FullGc, CallStep, heapVars, CollectInv, RootsLive, RootsMarked
<1>4. CASE Collector
  BY <1>1, <1>4, CollectorRoots DEF CollectInv
<1>5. CASE UNCHANGED vars
  BY <1>1, <1>5 DEF vars, heapVars, gcVars, CollectInv, RootsLive, RootsMarked
<1> QED BY <1>2, <1>3, <1>4, <1>5 DEF Next

-----------------------------------------------------------------------------
(* The theorems *)

\* The heap never holds a reference to a freed object, even when programs run the
\* cycles in steps, as long as no table is weak then: the write barriers are
\* sufficient. With full cycles only it holds with weak tables of every kind
\* whose weak-key nodes have collectable or string keys.
THEOREM HeapSafe == ASSUME SafeModes PROVE Spec => []HeapClosed
<1>1. Init => HeapInv
  BY InitInv DEF CollectInv
<1>2. HeapInv /\ [Next]_vars => HeapInv'
  BY HeapStep
<1>3. HeapInv => HeapClosed
  BY DEF HeapInv
<1> QED BY <1>1, <1>2, <1>3, PTL DEF Spec

\* The tri-colour invariant holds at every instant of an incremental cycle.
THEOREM BarriersSuffice == ASSUME SafeModes PROVE Spec => []BlackHoldsNoWhite
<1>1. Init => HeapInv
  BY InitInv DEF CollectInv
<1>2. HeapInv /\ [Next]_vars => HeapInv'
  BY HeapStep
<1>3. HeapInv => BlackHoldsNoWhite
  BY DEF HeapInv
<1> QED BY <1>1, <1>2, <1>3, PTL DEF Spec

\* Programs that collect with full cycles (every automatic collection is one)
\* never see a freed object, through the heap or through a root.
THEOREM CollectSafe == ASSUME SafeModes, OnlyFullCycles PROVE Spec => []NoDangling
<1>1. Init => CollectInv
  BY InitInv
<1>2. CollectInv /\ [Next]_vars => CollectInv'
  BY CollectStep
<1>3. CollectInv => NoDangling
  BY DEF CollectInv, HeapInv, NoDangling
<1> QED BY <1>1, <1>2, <1>3, PTL DEF Spec

-----------------------------------------------------------------------------
(* Finalization, in every mode *)

\* Clearing weak entries gives no object a __gc.
LEMMA ClearKeepsNoGc ==
    ASSUME TypeOK, UNCHANGED <<meta, finalized>>,
           slot' = ClearValues(slot) \/ slot' = ClearKeys(ClearValues(slot))
    PROVE  \A o : HasGc(o)' => HasGc(o)
<1>1. GcName \in Key
  BY GcAssumption DEF Key
<1>2. \A t \in Tables : slot'[t][GcName] \in {slot[t][GcName], Nil, Unused}
  BY <1>1 DEF ClearValues, ClearKeys
<1>3. \A o \in MetaObj : meta[o] # Nil => meta[o] \in Tables
  BY DEF TypeOK
<1> QED BY <1>2, <1>3, GcAssumption DEF HasGc, GcMethod

\* The program frees nothing, runs only outside a collection or in a finalizer, and
\* leaves the state of the collector alone.
LEMMA MutatorFrame ==
    ASSUME Mutator
    PROVE  /\ Running /\ all \subseteq all' /\ finalized' = finalized
           /\ white' = white /\ phase' = phase /\ stage' = stage /\ driver' = driver
           /\ toFinalize' = toFinalize /\ fin' = fin
<1> DEFINE Frame == /\ Running /\ all \subseteq all' /\ finalized' = finalized
                    /\ white' = white /\ phase' = phase /\ stage' = stage
                    /\ driver' = driver /\ toFinalize' = toFinalize /\ fin' = fin
<1> USE DEF gcVars
<1>1. ASSUME NEW o, NEW r, New(o, r) PROVE Frame
  BY <1>1 DEF New
<1>2. ASSUME NEW r, NEW v, Move(r, v) PROVE Frame
  BY <1>2 DEF Move
<1>3. ASSUME NEW t, NEW k, NEW v, NEW reused, NEW rehash, SetTable(t, k, v, reused, rehash)
      PROVE Frame
  <2>1. Running /\ UNCHANGED <<all, finalized, gcVars>>
    BY <1>3 DEF SetTable
  <2> QED BY <2>1
<1>4. ASSUME NEW o, NEW m, NEW w, SetMetatable(o, m, w) PROVE Frame
  BY <1>4 DEF SetMetatable
<1>5. ASSUME NEW o, NEW v, SetRef(o, v) PROVE Frame
  BY <1>5 DEF SetRef
<1> HIDE DEF Frame
<1>6. Frame
  BY <1>1, <1>2, <1>3, <1>4, <1>5 DEF Mutator, Load
<1> QED BY <1>6 DEF Frame

\* Every step keeps the queue of finalizers consistent.
LEMMA QueueStep ==
    ASSUME TypeOK, QueueInv, [Next]_vars
    PROVE  QueueInv'
<1> USE DEF heapVars, gcVars
<1>1. ASSUME UNCHANGED <<all, slot, meta, finalized, white, toFinalize, fin>>,
             stage' = stage \/ (stage = "ephemerons" /\ stage' = "resurrected"),
             UNCHANGED <<phase, driver>>,
             \A x \in all : mark'[x] = white => mark[x] = white
      PROVE QueueInv'
  BY <1>1 DEF QueueInv, HasGc, GcMethod
<1>2. ASSUME NEW S, mark' = MarkAll(S) PROVE \A x \in all : mark'[x] = white => mark[x] = white
  BY <1>2 DEF MarkAll, TypeOK, Whites
<1>3. ASSUME NEW o, mark' = Propagated(o) PROVE \A x \in all : mark'[x] = white => mark[x] = white
  BY <1>3 DEF Propagated, TypeOK, Whites
<1>4. CASE Mutator
  <2>1. /\ Running /\ UNCHANGED finalized
        /\ UNCHANGED <<white, phase, stage, driver, toFinalize, fin>>
    BY <1>4, MutatorFrame
  <2>2. stage \notin {"ephemerons", "resurrected", "reclaim"}
    BY <2>1 DEF QueueInv, Running
  <2> QED BY <2>1, <2>2 DEF QueueInv
<1>5. CASE FullGc \/ \E opt \in {"step", "cycle"} : CallStep(opt)
  BY <1>5 DEF FullGc, CallStep, QueueInv
<1>6. CASE MarkRoots \/ EnterSweep \/ EndSweep
  BY <1>6 DEF MarkRoots, EnterSweep, EndSweep, QueueInv
<1>7. CASE Separate
  <2>1. toFinalize' \cap finalized' = {}
    BY <1>7 DEF Separate, HasGc
  <2>2. \A o : HasGc(o)' => HasGc(o)
    BY <1>7, ClearKeepsNoGc DEF Separate
  <2>3. fin = Nil
    BY <1>7 DEF Separate, TypeOK
  <2> QED BY <1>7, <2>1, <2>2, <2>3 DEF Separate, QueueInv
<1>8. CASE Resurrect
  BY <1>1, <1>2, <1>8 DEF Resurrect, QueueInv
<1>9. CASE ClearWeak
  <2>1. \A o : HasGc(o)' => HasGc(o)
    BY <1>9, ClearKeepsNoGc DEF ClearWeak
  <2> QED BY <1>9, <2>1 DEF ClearWeak, QueueInv
<1>10. CASE Reclaim
  BY <1>10 DEF Reclaim, QueueInv
<1>11. ASSUME NEW o \in all, PropagateOne(o) PROVE QueueInv'
  BY <1>11 DEF PropagateOne, QueueInv
<1>12. ASSUME NEW o \in all, ConvergeMark(o) PROVE QueueInv'
  BY <1>1, <1>2, <1>12 DEF ConvergeMark, QueueInv
<1>13. ASSUME NEW o \in all, ConvergeDrain(o) PROVE QueueInv'
  BY <1>1, <1>3, <1>13 DEF ConvergeDrain, QueueInv
<1>14. ASSUME NEW o \in all, StartFinalizer(o) PROVE QueueInv'
  BY <1>14 DEF StartFinalizer, QueueInv
<1>15. ASSUME NEW err \in BOOLEAN, EndFinalizer(err) PROVE QueueInv'
  BY <1>15 DEF EndFinalizer, QueueInv, TypeOK
<1>16. CASE UNCHANGED vars
  BY <1>1, <1>16 DEF vars, QueueInv
<1> QED BY <1>4, <1>5, <1>6, <1>7, <1>8, <1>9, <1>10, <1>11, <1>12, <1>13, <1>14, <1>15,
           <1>16 DEF Next, Collector

\* No step calls a finalizer a second time, and none frees an object whose
\* finalizer is still to be run.
LEMMA FinalizeStep ==
    ASSUME TypeOK, QueueInv, [Next]_vars
    PROVE  /\ fin' # fin /\ fin' # Nil => fin' \notin finalized
           /\ \A o \in all \ all' : ~HasGc(o)
<1> USE DEF heapVars, gcVars
<1>1. CASE Mutator
  BY <1>1, MutatorFrame
<1>2. CASE FullGc \/ \E opt \in {"step", "cycle"} : CallStep(opt)
  BY <1>2 DEF FullGc, CallStep
<1>3. CASE MarkRoots \/ EnterSweep \/ Separate \/ Resurrect \/ ClearWeak \/ EndSweep
  BY <1>3 DEF MarkRoots, EnterSweep, Separate, Resurrect, ClearWeak, EndSweep
<1>4. CASE Reclaim
  BY <1>4 DEF Reclaim, Garbage, QueueInv
<1>5. ASSUME NEW o \in all, PropagateOne(o) \/ ConvergeMark(o) \/ ConvergeDrain(o)
      PROVE UNCHANGED <<fin, all>>
  BY <1>5 DEF PropagateOne, ConvergeMark, ConvergeDrain
<1>6. ASSUME NEW o \in all, StartFinalizer(o)
      PROVE (fin' # Nil => fin' \notin finalized) /\ UNCHANGED all
  BY <1>6 DEF StartFinalizer, QueueInv
<1>7. ASSUME NEW err \in BOOLEAN, EndFinalizer(err) PROVE fin' = Nil /\ UNCHANGED all
  BY <1>7 DEF EndFinalizer
<1>8. CASE UNCHANGED vars
  BY <1>8 DEF vars
<1> QED BY <1>1, <1>2, <1>3, <1>4, <1>5, <1>6, <1>7, <1>8 DEF Next, Collector

\* An object's finalizer is called at most once, whatever drives the cycles and
\* whatever the finalizers do.
THEOREM FinalizesOnce == Spec => FinalizeOnce
<1>1. Init => TypeOK /\ QueueInv
  BY InitType DEF Init, QueueInv
<1>2. TypeOK /\ QueueInv /\ [Next]_vars => TypeOK' /\ QueueInv'
  BY TypeStep, QueueStep
<1>3. TypeOK /\ QueueInv /\ [Next]_vars => [fin' # fin /\ fin' # Nil => fin' \notin finalized]_vars
  BY FinalizeStep
<1> QED BY <1>1, <1>2, <1>3, PTL DEF Spec, FinalizeOnce

\* An object with a __gc is not freed before its finalizer was started, even by a
\* cycle run in steps.
THEOREM FinalizesBeforeFree == Spec => FinalizedBeforeFree
<1>1. Init => TypeOK /\ QueueInv
  BY InitType DEF Init, QueueInv
<1>2. TypeOK /\ QueueInv /\ [Next]_vars => TypeOK' /\ QueueInv'
  BY TypeStep, QueueStep
<1>3. TypeOK /\ QueueInv /\ [Next]_vars => [\A o \in all \ all' : ~HasGc(o)]_vars
  BY FinalizeStep
<1> QED BY <1>1, <1>2, <1>3, PTL DEF Spec, FinalizedBeforeFree

-----------------------------------------------------------------------------
(* Weak references to objects that wait for a finalizer, in every mode *)

\* From the selection of the finalizable objects to the sweep loop no weak value
\* refers to one of them, and after the resurrection none of them is white.
QueueOutlivesWeak ==
    /\ stage \in {"ephemerons", "resurrected", "reclaim"} =>
         \A t \in Tables \cap all, k \in Key :
             "v" \in weak[t] => slot[t][k] \notin toFinalize
    /\ stage \in {"resurrected", "reclaim"} => \A o \in toFinalize : mark[o] # white

WeakInv == TypeOK /\ QueueInv /\ QueueOutlivesWeak

\* Clearing takes values away or leaves the node as it is; a table whose values are
\* strong keeps every node under a key that is not dead.
LEMMA ClearNodes ==
    ASSUME NEW t \in Tables, NEW k \in Key
    PROVE  /\ ClearValues(slot)[t][k] \in {slot[t][k], Nil}
           /\ ClearKeys(ClearValues(slot))[t][k] \in {slot[t][k], Nil, Unused}
           /\ "v" \notin weak[t] => ClearValues(slot)[t][k] = slot[t][k]
           /\ "v" \notin weak[t] /\ ~Dead(k) => ClearKeys(ClearValues(slot))[t][k] = slot[t][k]
           /\ t \in all /\ "v" \in weak[t] /\ Dead(slot[t][k]) => ClearValues(slot)[t][k] = Nil
BY DEF ClearValues, ClearKeys

\* Every step keeps WeakInv, and none touches a weak-key node of a queued object
\* before the sweep loop.
LEMMA WeakStep ==
    ASSUME WeakInv, [Next]_vars
    PROVE  /\ WeakInv'
           /\ stage' \in {"ephemerons", "resurrected", "reclaim"} =>
                \A t \in Tables, k \in toFinalize' \cap KeyObj :
                    weak[t] = {"k"} /\ mark[t] # white => slot'[t][k] = slot[t][k]
<1> DEFINE Kept == stage' \in {"ephemerons", "resurrected", "reclaim"} =>
                     \A t \in Tables, k \in toFinalize' \cap KeyObj :
                         weak[t] = {"k"} /\ mark[t] # white => slot'[t][k] = slot[t][k]
<1> USE DEF heapVars, gcVars
<1>0. TypeOK /\ QueueInv /\ QueueOutlivesWeak /\ KeyObj \subseteq Key
  BY DEF WeakInv, Key
<1>1. TypeOK' /\ QueueInv'
  BY <1>0, TypeStep, QueueStep
<1> SUFFICES QueueOutlivesWeak' /\ Kept
  BY <1>1 DEF WeakInv
<1>2. ASSUME stage' \in {"idle", "finalize"} PROVE QueueOutlivesWeak' /\ Kept
  BY <1>2 DEF QueueOutlivesWeak
<1>3. ASSUME UNCHANGED <<all, slot, weak, stage, white, toFinalize>>,
             \A x \in Obj : mark'[x] = white => mark[x] = white
      PROVE  QueueOutlivesWeak' /\ Kept
  BY <1>0, <1>3 DEF QueueOutlivesWeak, TypeOK
<1>4. ASSUME NEW S, mark' = MarkAll(S) PROVE \A x \in Obj : mark'[x] = white => mark[x] = white /\ x \notin S
  BY <1>0, <1>4 DEF MarkAll, Marked, TypeOK, Whites
<1>5. ASSUME NEW o, mark' = Propagated(o) PROVE \A x \in Obj : mark'[x] = white => mark[x] = white
  BY <1>0, <1>5 DEF Propagated, TypeOK, Whites
<1>6. CASE Mutator
  <2>1. Running /\ stage' = stage
    BY <1>6, MutatorFrame
  <2>2. stage' \in {"idle", "finalize"}
    BY <1>0, <2>1 DEF QueueInv, Running, TypeOK
  <2> QED BY <1>2, <2>2
<1>7. CASE FullGc \/ \E opt \in {"step", "cycle"} : CallStep(opt)
  BY <1>3, <1>7 DEF FullGc, CallStep
<1>8. CASE MarkRoots
  BY <1>3, <1>4, <1>8 DEF MarkRoots
<1>9. CASE EnterSweep
  BY <1>3, <1>9 DEF EnterSweep
<1>10. CASE Separate
  <2>1. /\ slot' = ClearValues(slot) /\ stage' = "ephemerons"
        /\ UNCHANGED <<all, weak, mark, white>>
        /\ \A o \in toFinalize' : Dead(o)
    BY <1>0, <1>10 DEF Separate, Dead, TypeOK
  <2>2. QueueOutlivesWeak'
    <3> SUFFICES ASSUME NEW t \in Tables \cap all, NEW k \in Key, "v" \in weak[t],
                        slot'[t][k] \in toFinalize'
                 PROVE FALSE
      BY <2>1 DEF QueueOutlivesWeak
    <3>1. slot'[t][k] # Nil
      BY <1>1, GcAssumption DEF TypeOK
    <3>2. slot'[t][k] = slot[t][k]
      BY <2>1, <3>1, ClearNodes
    <3> QED BY <2>1, <3>1, <3>2, ClearNodes
  <2>3. Kept
    BY <1>0, <2>1, ClearNodes
  <2> QED BY <2>2, <2>3
<1>11. CASE Resurrect
  <2>1. /\ UNCHANGED <<all, slot, weak, white, toFinalize>>
        /\ stage = "ephemerons" /\ stage' = "resurrected"
        /\ mark' = MarkAll({o \in toFinalize : mark[o] = white})
    BY <1>11 DEF Resurrect
  <2>2. \A x \in toFinalize : mark'[x] # white
    BY <1>0, <1>4, <2>1 DEF TypeOK
  <2> QED BY <1>0, <2>1, <2>2 DEF QueueOutlivesWeak
<1>12. CASE ClearWeak
  <2>1. /\ UNCHANGED <<all, weak, white, mark, toFinalize>>
        /\ stage = "resurrected" /\ stage' = "reclaim"
        /\ slot' = ClearKeys(ClearValues(slot))
    BY <1>12 DEF ClearWeak
  <2>2. QueueOutlivesWeak'
    <3>1. \A o \in toFinalize : mark[o] # white /\ o # Nil /\ o # Unused
      BY <1>0, <2>1, GcAssumption DEF QueueOutlivesWeak, TypeOK
    <3>2. \A t \in Tables \cap all, k \in Key : "v" \in weak[t] => slot'[t][k] \notin toFinalize
      BY <1>0, <2>1, <3>1, ClearNodes DEF QueueOutlivesWeak
    <3> QED BY <2>1, <3>1, <3>2 DEF QueueOutlivesWeak
  <2>3. Kept
    <3>1. \A k \in toFinalize : ~Dead(k)
      BY <1>0, <2>1 DEF QueueOutlivesWeak, Dead
    <3> QED BY <1>0, <2>1, <3>1, ClearNodes
  <2> QED BY <2>2, <2>3
<1>13. CASE Reclaim \/ EndSweep
  BY <1>2, <1>13 DEF Reclaim, EndSweep
<1>14. ASSUME NEW o \in all, PropagateOne(o) \/ ConvergeDrain(o) PROVE QueueOutlivesWeak' /\ Kept
  BY <1>3, <1>5, <1>14 DEF PropagateOne, ConvergeDrain
<1>15. ASSUME NEW o \in all, ConvergeMark(o) PROVE QueueOutlivesWeak' /\ Kept
  BY <1>3, <1>4, <1>15 DEF ConvergeMark
<1>16. ASSUME NEW o \in all, StartFinalizer(o) PROVE QueueOutlivesWeak' /\ Kept
  BY <1>2, <1>16 DEF StartFinalizer
<1>17. ASSUME NEW err \in BOOLEAN, EndFinalizer(err) PROVE QueueOutlivesWeak' /\ Kept
  BY <1>0, <1>2, <1>17 DEF EndFinalizer, TypeOK
<1>18. CASE UNCHANGED vars
  BY <1>3, <1>18 DEF vars
<1> HIDE DEF Kept
<1> QED
  BY <1>6, <1>7, <1>8, <1>9, <1>10, <1>11, <1>12, <1>13, <1>14, <1>15, <1>16, <1>17, <1>18
     DEF Next, Collector

\* The initial state satisfies WeakInv.
LEMMA InitWeak == Init => WeakInv
BY InitType DEF Init, WeakInv, QueueInv, QueueOutlivesWeak

\* When the finalizers of a cycle start, no weak value refers to an object that
\* waits for one, whatever drives the cycle.
THEOREM WeakValuesGone == Spec => WeakValuesDropped
<1>1. WeakInv /\ [Next]_vars =>
        [stage = "reclaim" /\ stage' = "finalize" =>
           \A t \in Tables \cap all, k \in Key :
               "v" \in weak[t] => slot[t][k] \notin toFinalize]_vars
  BY DEF WeakInv, QueueOutlivesWeak
<1>2. WeakInv /\ [Next]_vars => WeakInv'
  BY WeakStep
<1> QED BY InitWeak, <1>1, <1>2, PTL DEF Spec, WeakValuesDropped

\* Until the sweep loop a marked weak-key table keeps the nodes whose keys wait for
\* their finalizers.
THEOREM WeakKeysStay == Spec => WeakKeysKept
<1>1. WeakInv /\ [Next]_vars =>
        [stage' \in {"ephemerons", "resurrected", "reclaim"} =>
           \A t \in Tables, k \in toFinalize' \cap KeyObj :
               weak[t] = {"k"} /\ mark[t] # white => slot'[t][k] = slot[t][k]]_vars
  BY WeakStep
<1>2. WeakInv /\ [Next]_vars => WeakInv'
  BY WeakStep
<1> QED BY InitWeak, <1>1, <1>2, PTL DEF Spec, WeakKeysKept

-----------------------------------------------------------------------------
(* A full cycle frees the garbage and nothing else *)

\* The objects that survive if the sweep loop runs now.
MarkedObjects == {o \in all : mark[o] # white}

\* Closed, but a weak-key node counts only while its key is marked: what
\* clear_weak_entries removes makes no difference to it.
ClosedByMarks(L) ==
    \A o \in L :
        /\ Kids(o) \subseteq L
        /\ o \in Tables /\ weak[o] = {"k"} =>
              \A k \in HashKey :
                  slot[o][k] \in Obj /\ (k \in Obj => k \in L /\ mark[k] # white)
                      => slot[o][k] \in L

\* what the cycle has marked from: the roots, then the resurrected objects too
MarkedFrom == Roots \cup (IF stage \in {"resurrected", "reclaim"} THEN toFinalize ELSE {})

\* A full cycle marks nothing but what is live: a closed set that holds what it
\* started from holds all it has marked.
MarksOnlyLive ==
    phase # "pause" /\ stage # "finalize" =>
        \A L \in SUBSET Obj :
            MarkedFrom \subseteq L /\ ClosedByMarks(L) => MarkedObjects \subseteq L

ExactInv == CollectInv /\ MarksOnlyLive

\* Clearing weak entries takes no strong child away.
LEMMA ClearKeepsKids ==
    ASSUME TypeOK, UNCHANGED <<all, meta, weak, ref>>,
           slot' = ClearValues(slot) \/ slot' = ClearKeys(ClearValues(slot))
    PROVE  \A o \in all : Kids(o)' = Kids(o)
<1> SUFFICES ASSUME NEW o \in all PROVE Kids(o)' = Kids(o)
  OBVIOUS
<1>1. CASE o \in Tables
  <2>1. HashKey \subseteq Key /\ ArrKey \subseteq Key
    BY DEF HashKey, Key
  <2>2. \A k \in Key : /\ "v" \notin weak[o] /\ (k \in ArrKey \/ weak[o] = {}) => slot'[o][k] = slot[o][k]
                       /\ "k" \notin weak[o] => (slot'[o][k] = Unused <=> slot[o][k] = Unused)
    <3> SUFFICES ASSUME NEW k \in Key
                 PROVE /\ "v" \notin weak[o] /\ (k \in ArrKey \/ weak[o] = {}) => slot'[o][k] = slot[o][k]
                       /\ "k" \notin weak[o] => (slot'[o][k] = Unused <=> slot[o][k] = Unused)
      OBVIOUS
    <3>1. k \in ArrKey => ~Dead(k)
      BY GcAssumption DEF Dead
    <3>2. slot'[o][k] = ClearValues(slot)[o][k] \/ slot'[o][k] = ClearKeys(ClearValues(slot))[o][k]
      OBVIOUS
    <3>3. Dead(slot[o][k]) => slot[o][k] # Unused
      BY GcAssumption DEF Dead
    <3> QED BY <1>1, <3>1, <3>2, <3>3, GcAssumption DEF ClearValues, ClearKeys
  <2>3. /\ {slot'[o][k] : k \in {a \in ArrKey : "v" \notin weak[o]}}
              = {slot[o][k] : k \in {a \in ArrKey : "v" \notin weak[o]}}
        /\ {k \in HashKey : "k" \notin weak[o] /\ slot'[o][k] # Unused}
              = {k \in HashKey : "k" \notin weak[o] /\ slot[o][k] # Unused}
        /\ {slot'[o][k] : k \in {h \in HashKey : weak[o] = {}}}
              = {slot[o][k] : k \in {h \in HashKey : weak[o] = {}}}
    BY <2>1, <2>2
  <2>4. TableKids(o)' = TableKids(o)
    BY <2>3 DEF TableKids
  <2> QED BY <1>1, <2>4 DEF Kids
<1>2. CASE o \notin Tables
  BY <1>2 DEF Kids
<1> QED BY <1>1, <1>2

\* A step that marks adds only objects that every closed set over the starting
\* points holds.
LEMMA MarkingIsLive ==
    ASSUME TypeOK, MarksOnlyLive, phase # "pause", stage # "finalize",
           UNCHANGED <<all, slot, meta, weak, ref, reg, white>>,
           MarkedFrom \subseteq MarkedFrom',
           \A x \in Obj : mark[x] # white => mark'[x] # white,
           \A L \in SUBSET Obj :
               MarkedFrom' \subseteq L /\ ClosedByMarks(L) /\ MarkedObjects \subseteq L
                   => MarkedObjects' \subseteq L
    PROVE  MarksOnlyLive'
<1> SUFFICES ASSUME NEW L \in SUBSET Obj, MarkedFrom' \subseteq L, ClosedByMarks(L)'
             PROVE  MarkedObjects' \subseteq L
  BY DEF MarksOnlyLive
<1>1. \A o : Kids(o)' = Kids(o)
  BY DEF Kids, TableKids
<1>2. ClosedByMarks(L)
  BY <1>1 DEF ClosedByMarks
<1>3. MarkedObjects \subseteq L
  BY <1>2 DEF MarksOnlyLive
<1> QED BY <1>2, <1>3

\* Every step of the collector keeps MarksOnlyLive.
LEMMA CollectorExact ==
    ASSUME SafeModes, OnlyFullCycles, ExactInv, Collector
    PROVE  MarksOnlyLive'
<1> USE DEF heapVars, gcVars
<1>0. /\ CollectInv /\ HeapInv /\ TypeOK /\ MarksOnlyLive /\ ControlOK /\ all \subseteq Obj
      /\ driver \in {"none", "full"} /\ (driver = "none" => phase = "pause")
  BY DEF ExactInv, CollectInv, HeapInv, ControlOK, TypeOK
<1>1. ASSUME phase' = "pause" \/ stage' = "finalize" PROVE MarksOnlyLive'
  BY <1>1 DEF MarksOnlyLive
<1>2. ASSUME NEW S, mark' = MarkAll(S)
      PROVE \A x \in Obj : /\ mark[x] # white => mark'[x] # white
                           /\ mark'[x] # white => mark[x] # white \/ x \in S
  BY <1>0, <1>2 DEF MarkAll, TypeOK, Whites
<1>3. CASE MarkRoots
  <2>1. \A x \in all : mark[x] = white
    BY <1>0, <1>3 DEF MarkRoots, HeapInv, WhiteAtRest
  <2>2. \A x \in all : mark'[x] # white => x \in Roots
    BY <1>0, <1>2, <1>3, <2>1 DEF MarkRoots, Roots
  <2>3. MarkedObjects' \subseteq Roots' /\ Roots' \subseteq MarkedFrom'
    BY <1>3, <2>2 DEF MarkRoots, MarkedObjects, Roots, MarkedFrom
  <2> QED BY <2>3 DEF MarksOnlyLive
<1>4. CASE EnterSweep
  <2>1. /\ UNCHANGED <<all, slot, meta, weak, ref, reg, white, mark, toFinalize>>
        /\ stage' = stage /\ phase # "pause"
    BY <1>4 DEF EnterSweep
  <2>2. stage # "finalize"
    BY <1>0, <1>4 DEF EnterSweep, ControlOK
  <2> QED BY <1>0, <2>1, <2>2, MarkingIsLive DEF MarkedFrom, Roots, MarkedObjects
<1>5. CASE Separate \/ ClearWeak
  <2>1. /\ UNCHANGED <<all, meta, weak, ref, reg, white, mark>>
        /\ phase # "pause" /\ stage # "finalize"
        /\ slot' = ClearValues(slot) \/ slot' = ClearKeys(ClearValues(slot))
    BY <1>0, <1>5 DEF Separate, ClearWeak, ControlOK
  <2>2. MarkedFrom' = MarkedFrom /\ MarkedObjects' = MarkedObjects
    BY <1>5, <2>1 DEF Separate, ClearWeak, MarkedFrom, MarkedObjects, Roots
  <2>3. \A o \in all : Kids(o)' = Kids(o)
    BY <1>0, <2>1, ClearKeepsKids
  <2> SUFFICES ASSUME NEW L \in SUBSET Obj, MarkedFrom \subseteq L, ClosedByMarks(L)'
               PROVE  MarkedObjects \subseteq L
    BY <2>2 DEF MarksOnlyLive
  <2> DEFINE M == L \cap all
  <2>4. MarkedFrom \subseteq M
    <3>1. Roots \subseteq all
      BY <1>0, GcAssumption DEF Roots, CollectInv, RootsLive
    <3>2. toFinalize \subseteq all
      BY <1>0 DEF TypeOK
    <3> QED BY <3>1, <3>2 DEF MarkedFrom
  <2>5. ClosedByMarks(M)
    <3> SUFFICES ASSUME NEW o \in M
                 PROVE  /\ Kids(o) \subseteq M
                        /\ o \in Tables /\ weak[o] = {"k"} =>
                              \A k \in HashKey :
                                  slot[o][k] \in Obj /\ (k \in Obj => k \in M /\ mark[k] # white)
                                      => slot[o][k] \in M
      BY DEF ClosedByMarks
    <3>1. Kids(o) \subseteq M
      <4>1. Kids(o) \subseteq L
        BY <2>3 DEF ClosedByMarks
      <4>2. Kids(o) \subseteq all
        BY <1>0, KidsMentioned DEF HeapInv, HeapClosed
      <4> QED BY <4>1, <4>2
    <3>2. ASSUME o \in Tables, weak[o] = {"k"}, NEW k \in HashKey,
                 slot[o][k] \in Obj, k \in Obj => k \in M /\ mark[k] # white
          PROVE  slot[o][k] \in M
      <4>1. k \in Key
        BY DEF HashKey
      <4>2. slot'[o][k] = slot[o][k]
        <5>1. ~Dead(k) /\ "v" \notin weak[o]
          BY <3>2 DEF Dead
        <5> QED BY <2>1, <3>2, <4>1, <5>1 DEF ClearValues, ClearKeys
      <4>3. slot[o][k] \in L
        BY <2>1, <3>2, <4>2 DEF ClosedByMarks
      <4>4. slot[o][k] \in Mentions(o)
        BY <3>2, <4>1 DEF Mentions
      <4> QED BY <1>0, <4>3, <4>4 DEF HeapInv, HeapClosed
    <3> QED BY <3>1, <3>2
  <2>6. MarkedObjects \subseteq M
    <3>1. M \in SUBSET Obj
      OBVIOUS
    <3> HIDE DEF M
    <3> QED BY <1>0, <2>1, <2>4, <2>5, <3>1 DEF MarksOnlyLive
  <2> QED BY <2>6
<1>6. CASE Resurrect
  <2>1. /\ UNCHANGED <<all, slot, meta, weak, ref, reg, white, toFinalize>>
        /\ phase # "pause" /\ stage = "ephemerons" /\ stage' = "resurrected"
        /\ mark' = MarkAll({o \in toFinalize : mark[o] = white})
    BY <1>0, <1>6 DEF Resurrect, ControlOK
  <2>2. MarkedFrom' = MarkedFrom \cup toFinalize
    BY <2>1 DEF MarkedFrom, Roots
  <2>3. MarkedObjects' \subseteq MarkedObjects \cup toFinalize
    BY <1>0, <1>2, <2>1 DEF MarkedObjects
  <2>4. \A x \in Obj : mark[x] # white => mark'[x] # white
    BY <1>2, <2>1
  <2> QED BY <1>0, <2>1, <2>2, <2>3, <2>4, MarkingIsLive
<1>7. ASSUME NEW o \in all, PropagateOne(o) \/ ConvergeDrain(o) PROVE MarksOnlyLive'
  <2>1. /\ UNCHANGED <<all, slot, meta, weak, ref, reg, white, toFinalize, stage>>
        /\ phase # "pause" /\ stage # "finalize"
        /\ mark' = Propagated(o) /\ o \in Gray
    BY <1>0, <1>7 DEF PropagateOne, ConvergeDrain, Converging, ControlOK
  <2>2. MarkedFrom' = MarkedFrom
    BY <2>1 DEF MarkedFrom, Roots
  <2>3. \A x \in Obj : /\ mark[x] # white => mark'[x] # white
                       /\ mark'[x] # white => mark[x] # white \/ x = o \/ x \in Kids(o)
    BY <1>0, <2>1 DEF Propagated, TypeOK, Whites
  <2>4. o \in MarkedObjects
    BY <1>0, <2>1 DEF Gray, MarkedObjects, TypeOK, Whites
  <2>5. MarkedObjects' \subseteq MarkedObjects \cup Kids(o)
    BY <1>0, <2>1, <2>3, <2>4 DEF MarkedObjects
  <2>6. \A L \in SUBSET Obj : ClosedByMarks(L) /\ MarkedObjects \subseteq L => MarkedObjects' \subseteq L
    BY <2>4, <2>5 DEF ClosedByMarks
  <2> QED BY <1>0, <2>1, <2>2, <2>3, <2>6, MarkingIsLive
<1>8. ASSUME NEW o \in all, ConvergeMark(o) PROVE MarksOnlyLive'
  <2>1. /\ UNCHANGED <<all, slot, meta, weak, ref, reg, white, toFinalize, stage>>
        /\ phase # "pause" /\ stage # "finalize"
        /\ mark' = MarkAll({o}) /\ o \in EphemeronValues
    BY <1>0, <1>8 DEF ConvergeMark, Converging, ControlOK
  <2>2. MarkedFrom' = MarkedFrom
    BY <2>1 DEF MarkedFrom, Roots
  <2>3. \A x \in Obj : mark[x] # white => mark'[x] # white
    BY <1>2, <2>1
  <2>4. MarkedObjects' \subseteq MarkedObjects \cup {o}
    BY <1>0, <1>2, <2>1 DEF MarkedObjects
  <2>5. PICK t \in Tables \cap all, k \in HashKey :
            weak[t] = {"k"} /\ mark[t] # white /\ KeyMarked(k) /\ slot[t][k] = o
    BY <2>1 DEF EphemeronValues
  <2>6. k \in Obj => k \in MarkedObjects
    <3>1. k \in Obj => k \in Mentions(t)
      BY <1>0, <2>5, GcAssumption DEF Mentions, HashKey
    <3>2. k \in Obj => mark[k] # white
      BY <2>5, GcAssumption DEF KeyMarked
    <3> QED BY <1>0, <3>1, <3>2 DEF MarkedObjects, HeapInv, HeapClosed
  <2>7. t \in MarkedObjects
    BY <2>5 DEF MarkedObjects
  <2>8. \A L \in SUBSET Obj : ClosedByMarks(L) /\ MarkedObjects \subseteq L => MarkedObjects' \subseteq L
    <3> SUFFICES ASSUME NEW L \in SUBSET Obj, ClosedByMarks(L), MarkedObjects \subseteq L
                 PROVE  o \in L
      BY <2>4
    <3>1. t \in L /\ slot[t][k] \in Obj /\ (k \in Obj => k \in L /\ mark[k] # white)
      BY <1>0, <2>5, <2>6, <2>7 DEF MarkedObjects
    <3> QED BY <2>5, <3>1 DEF ClosedByMarks
  <2> QED BY <1>0, <2>1, <2>2, <2>3, <2>8, MarkingIsLive
<1>9. CASE Reclaim
  BY <1>1, <1>9 DEF Reclaim
<1>10. CASE EndSweep
  BY <1>0, <1>1, <1>10 DEF EndSweep
<1>11. ASSUME (\E o \in all : StartFinalizer(o)) \/ (\E err \in BOOLEAN : EndFinalizer(err))
       PROVE MarksOnlyLive'
  BY <1>0, <1>1, <1>11 DEF StartFinalizer, EndFinalizer, TypeOK
<1> QED BY <1>3, <1>4, <1>5, <1>6, <1>7, <1>8, <1>9, <1>10, <1>11 DEF Collector

\* Every step keeps ExactInv when programs run full cycles only.
LEMMA ExactStep ==
    ASSUME SafeModes, OnlyFullCycles, ExactInv, [Next]_vars
    PROVE  ExactInv'
<1>1. CollectInv'
  BY CollectStep DEF ExactInv
<1> SUFFICES MarksOnlyLive'
  BY <1>1 DEF ExactInv
<1>2. CASE Mutator
  <2>1. Running /\ phase' = phase /\ stage' = stage
    BY <1>2, MutatorFrame
  <2>2. phase = "pause" \/ stage = "finalize"
    BY <2>1 DEF Running, ExactInv, CollectInv, HeapInv, ControlOK, TypeOK
  <2> QED BY <2>1, <2>2 DEF MarksOnlyLive
<1>3. CASE FullGc \/ \E opt \in {"step", "cycle"} : CallStep(opt)
  <2>1. phase = "pause" /\ phase' = phase
    BY <1>3 DEF FullGc, CallStep, ExactInv, CollectInv, HeapInv, ControlOK
  <2> QED BY <2>1 DEF MarksOnlyLive
<1>4. CASE Collector
  BY <1>4, CollectorExact
<1>5. CASE UNCHANGED vars
  BY <1>5 DEF vars, heapVars, gcVars, ExactInv, MarksOnlyLive, MarkedFrom, MarkedObjects,
         Roots, ClosedByMarks, Kids, TableKids
<1> QED BY <1>2, <1>3, <1>4, <1>5 DEF Next

\* When the sweep loop runs, what survives is what is live.
LEMMA SweepExact ==
    ASSUME SafeModes, OnlyFullCycles, ExactInv, [Next]_vars,
           stage = "reclaim", stage' # "reclaim"
    PROVE  all' = Live(Roots \cup toFinalize)
<1>0. /\ CollectInv /\ HeapInv /\ TypeOK /\ MarksOnlyLive /\ ControlOK /\ all \subseteq Obj
      /\ phase # "pause" /\ driver # "none" /\ fin = Nil
  BY DEF ExactInv, CollectInv, HeapInv, ControlOK, TypeOK
<1>1. Reclaim
  <2>1. ~Mutator
    BY <1>0, MutatorFrame DEF Running
  <2> QED BY <1>0, <2>1 DEF Next, Collector, FullGc, CallStep, MarkRoots, EnterSweep, Separate,
        Resurrect, ClearWeak, EndSweep, PropagateOne, ConvergeMark, ConvergeDrain, Converging,
        StartFinalizer, EndFinalizer, vars, gcVars
<1>2. all' = all \ Garbage /\ all \ Garbage = MarkedObjects
  BY <1>0, <1>1 DEF Reclaim, Garbage, MarkedObjects, ControlOK
<1>3. Roots \cup toFinalize \subseteq MarkedObjects
  <2>1. Roots \subseteq MarkedObjects
    BY <1>0, GcAssumption DEF Roots, MarkedObjects, CollectInv, RootsLive, RootsMarked
  <2>2. toFinalize \subseteq MarkedObjects
    BY <1>0 DEF MarkedObjects, ControlOK, TypeOK
  <2> QED BY <2>1, <2>2
<1>4. Closed(MarkedObjects)
  <2>1. \A o \in MarkedObjects : Mentions(o) \subseteq MarkedObjects
    BY <1>0, <1>2 DEF HeapInv, HeapClosed, SurvivorsClosed
  <2>2. \A o \in MarkedObjects : Kids(o) \subseteq MarkedObjects
    BY <2>1, KidsMentioned
  <2>3. \A o \in MarkedObjects, k \in HashKey :
            o \in Tables /\ slot[o][k] \in Obj => slot[o][k] \in MarkedObjects
    <3>1. \A o \in MarkedObjects, k \in HashKey :
            o \in Tables /\ slot[o][k] \in Obj => slot[o][k] \in Mentions(o)
      BY DEF Mentions, HashKey
    <3> QED BY <2>1, <3>1
  <2> QED BY <2>2, <2>3 DEF Closed
<1>5. \A L \in SUBSET Obj : Roots \cup toFinalize \subseteq L /\ Closed(L) => MarkedObjects \subseteq L
  <2>1. \A L : Closed(L) => ClosedByMarks(L)
    BY DEF Closed, ClosedByMarks
  <2>2. MarkedFrom = Roots \cup toFinalize
    BY DEF MarkedFrom
  <2> QED BY <1>0, <2>1, <2>2 DEF MarksOnlyLive
<1>6. MarkedObjects \in SUBSET Obj
  BY <1>0 DEF MarkedObjects
<1> QED BY <1>2, <1>3, <1>4, <1>5, <1>6 DEF Live

\* A complete cycle frees exactly the garbage: what survives is what the reference
\* definition of liveness says is live from the roots and from the objects that wait
\* for their finalizers.
THEOREM CycleExact == ASSUME SafeModes, OnlyFullCycles PROVE Spec => FreesExactlyGarbage
<1>1. Init => ExactInv
  BY InitInv DEF Init, ExactInv, MarksOnlyLive
<1>2. ExactInv /\ [Next]_vars => ExactInv'
  BY ExactStep
<1>3. ExactInv /\ [Next]_vars =>
        [stage = "reclaim" /\ stage' # "reclaim" /\ driver = "full"
           => all' = Live(Roots \cup toFinalize)]_vars
  BY SweepExact
<1> QED BY <1>1, <1>2, <1>3, PTL DEF Spec, FreesExactlyGarbage

-----------------------------------------------------------------------------
(* What a full cycle selects for finalization *)

\* Without weak-key tables the marking that precedes the selection is complete: no
\* object is gray until the selected ones are resurrected, and those are all white.
SelectionFinal ==
    /\ phase = "sweep" /\ stage \in {"idle", "ephemerons"} => Gray = {}
    /\ stage = "ephemerons" => \A o \in toFinalize : mark[o] = white

SelectInv == CollectInv /\ SelectionFinal

\* A mode that no program uses is the mode of no table.
LEMMA NoWeakKeys ==
    ASSUME TypeOK, {"k"} \notin Modes
    PROVE  \A t \in Tables : weak[t] # {"k"}
<1> SUFFICES ASSUME NEW t \in Tables, weak[t] = {"k"} PROVE FALSE
  OBVIOUS
<1>1. weak[t] \in Modes
  BY DEF TypeOK
<1> QED BY <1>1, Zenon

\* Every step keeps SelectInv when programs run full cycles only and no table has
\* weak keys.
LEMMA SelectStep ==
    ASSUME SafeModes, OnlyFullCycles, {"k"} \notin Modes, SelectInv, [Next]_vars
    PROVE  SelectInv'
<1> USE DEF heapVars, gcVars
<1>0. /\ CollectInv /\ HeapInv /\ TypeOK /\ SelectionFinal /\ ControlOK
      /\ driver \in {"none", "full"} /\ (driver = "none" => phase = "pause")
  BY DEF SelectInv, CollectInv, HeapInv, ControlOK
<1>1. CollectInv'
  BY CollectStep DEF SelectInv
<1> SUFFICES SelectionFinal'
  BY <1>1 DEF SelectInv
<1>2. ASSUME UNCHANGED <<all, mark, white, phase, stage, toFinalize>> PROVE SelectionFinal'
  BY <1>0, <1>2 DEF SelectionFinal, Gray
<1>3. ASSUME phase' # "sweep" \/ stage' \notin {"idle", "ephemerons"}, stage' # "ephemerons"
      PROVE SelectionFinal'
  BY <1>3 DEF SelectionFinal
<1>4. CASE Mutator
  <2>1. Running /\ phase' = phase /\ stage' = stage
    BY <1>4, MutatorFrame
  <2>2. phase = "pause" \/ stage = "finalize"
    BY <1>0, <2>1 DEF Running, TypeOK
  <2>3. stage # "ephemerons" \/ phase = "sweep"
    BY <1>0 DEF ControlOK
  <2> QED BY <1>3, <2>1, <2>2, <2>3
<1>5. CASE FullGc \/ \E opt \in {"step", "cycle"} : CallStep(opt)
  BY <1>2, <1>5 DEF FullGc, CallStep
<1>6. CASE MarkRoots
  BY <1>0, <1>3, <1>6 DEF MarkRoots, ControlOK
<1>7. CASE EnterSweep
  BY <1>0, <1>7 DEF EnterSweep, ControlOK, SelectionFinal, Gray
<1>8. CASE Separate
  BY <1>0, <1>8 DEF Separate, SelectionFinal, Gray
<1>9. CASE Resurrect \/ ClearWeak \/ Reclaim
  BY <1>3, <1>9 DEF Resurrect, ClearWeak, Reclaim
<1>10. CASE EndSweep
  BY <1>0, <1>3, <1>10 DEF EndSweep
<1>11. ASSUME NEW o \in all, PropagateOne(o) PROVE SelectionFinal'
  BY <1>0, <1>3, <1>11 DEF PropagateOne, ControlOK
<1>12. ASSUME NEW o \in all, ConvergeMark(o) PROVE FALSE
  BY <1>0, <1>12, NoWeakKeys DEF ConvergeMark, EphemeronValues
<1>13. ASSUME NEW o \in all, ConvergeDrain(o) PROVE SelectionFinal'
  BY <1>0, <1>3, <1>13 DEF ConvergeDrain, Converging, ControlOK, SelectionFinal
<1>14. ASSUME (\E o \in all : StartFinalizer(o)) \/ (\E err \in BOOLEAN : EndFinalizer(err))
       PROVE SelectionFinal'
  BY <1>0, <1>3, <1>14 DEF StartFinalizer, EndFinalizer, TypeOK
<1>15. CASE UNCHANGED vars
  BY <1>2, <1>15 DEF vars
<1> QED BY <1>4, <1>5, <1>6, <1>7, <1>8, <1>9, <1>10, <1>11, <1>12, <1>13, <1>14, <1>15
        DEF Next, Collector

\* Full cycles of a program without weak-key tables select for finalization only
\* objects the program cannot reach. (With weak keys they may select a reachable one:
\* the values of the weak-key nodes are marked after the selection.)
THEOREM SelectsOnlyUnreachable ==
    ASSUME SafeModes, OnlyFullCycles, {"k"} \notin Modes
    PROVE  Spec => []FinalizesOnlyUnreachable
<1>1. Init => SelectInv
  BY InitInv DEF Init, SelectInv, SelectionFinal
<1>2. SelectInv /\ [Next]_vars => SelectInv'
  BY SelectStep
<1>3. SelectInv => FinalizesOnlyUnreachable
  <2> SUFFICES ASSUME SelectInv, stage = "ephemerons" PROVE toFinalize \cap Live(Roots) = {}
    BY DEF FinalizesOnlyUnreachable
  <2>0. /\ CollectInv /\ HeapInv /\ TypeOK /\ SelectionFinal /\ all \subseteq Obj
        /\ phase = "sweep"
    BY DEF SelectInv, CollectInv, HeapInv, ControlOK, TypeOK
  <2>1. \A o \in MarkedObjects : mark[o] = "black"
    BY <2>0 DEF MarkedObjects, SelectionFinal, Gray, HeapInv, MarksCurrent
  <2>2. Roots \subseteq MarkedObjects
    BY <2>0, GcAssumption DEF Roots, MarkedObjects, CollectInv, RootsLive, RootsMarked
  <2>3. \A o \in MarkedObjects : Kids(o) \subseteq MarkedObjects
    <3>1. \A o \in MarkedObjects : Kids(o) \subseteq all
      BY <2>0, KidsMentioned DEF MarkedObjects, HeapInv, HeapClosed
    <3> QED BY <2>0, <2>1, <3>1 DEF MarkedObjects, HeapInv, BlackHoldsNoWhite
  <2>4. Closed(MarkedObjects)
    BY <2>0, <2>3, NoWeakKeys DEF Closed
  <2>5. MarkedObjects \in SUBSET Obj /\ toFinalize \cap MarkedObjects = {}
    BY <2>0 DEF MarkedObjects, SelectionFinal
  <2> QED BY <2>2, <2>4, <2>5 DEF Live
<1> QED BY <1>1, <1>2, <1>3, PTL DEF Spec
=============================================================================
