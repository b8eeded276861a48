--------------------------------- MODULE Gc ---------------------------------
(***************************************************************************)
(* The mark-and-sweep collector of src/src/gc/gc.cpp together with the     *)
(* mutator operations that create, load and store references (registers,   *)
(* Table::set, setmetatable, UpVal::set / uservalue) and their barriers.   *)
(*                                                                         *)
(* What is abstracted:                                                     *)
(*   - the gray_ list is the set of objects marked "gray"; propagate_one   *)
(*     takes any of them (the code takes the head, one of those choices);  *)
(*   - the all_ list is the set `all`, so finalizers run in any order;     *)
(*   - everything mark_roots reads (globals, registry, type metatables,    *)
(*     registers of the running threads) is one function `reg`;            *)
(*   - a closure and its closed upvalue are one object with one field;     *)
(*   - strings are interned and immortal (mark_roots marks the whole       *)
(*     intern table), so a string occurs only as a table key;              *)
(*   - debt_/threshold_: a safepoint may start a collection at any time.   *)
(* Bounds: finalizers do not call collectgarbage("step"), and none run by  *)
(* a step-driven sweep calls collectgarbage("collect").                    *)
(***************************************************************************)
EXTENDS Naturals, FiniteSets

CONSTANTS
    Tables, Userdata, Closures, \* addresses available to objects of each kind
    Reg,        \* root slots: registers, globals, registry
    StrKey,     \* string keys (interned, never collected)
    GcName,     \* the string "__gc", a member of StrKey
    PrimKey,    \* non-collectable keys kept in the hash part (booleans, ...)
    ArrKey,     \* integer keys kept in the array part
    Modes,      \* the __mode values in use: subsets of {"k", "v"}
    Options,    \* what programs do: collectgarbage "collect", "step", "cycle"
                \* (many steps), and "error" when finalizers may fail
    KeyObj,     \* bound: the objects that are used as keys
    MaxLinks,   \* bound: nodes, metatables, uservalues and upvalues set at a time
    Nil, Unused

Obj  == Tables \cup Userdata \cup Closures
Key  == KeyObj \cup StrKey \cup PrimKey \cup ArrKey
HashKey == Key \ ArrKey

ASSUME GcAssumption ==
    /\ Tables \cap Userdata = {} /\ Tables \cap Closures = {}
    /\ Userdata \cap Closures = {}
    /\ Obj \cap (StrKey \cup PrimKey \cup ArrKey) = {}
    /\ StrKey \cap PrimKey = {} /\ ArrKey \cap (StrKey \cup PrimKey) = {}
    /\ GcName \in StrKey
    /\ Nil \notin Obj \cup Key /\ Unused \notin Obj \cup Key /\ Nil # Unused
    /\ Modes \subseteq SUBSET {"k", "v"} /\ {} \in Modes
    /\ Options \subseteq {"collect", "step", "cycle", "error"}
    /\ KeyObj \subseteq Obj /\ MaxLinks \in Nat

VARIABLES
    \* the heap
    all,        \* all_: the objects that are allocated
    mark,       \* GcObject::mark
    slot,       \* table contents; a key with value Nil is a used (deleted) node
    meta,       \* metatable of tables and userdata
    weak,       \* Table::weak_mode
    ref,        \* uservalue of userdata, upvalue of closures
    finalized,  \* objects carrying GcFlagFinalized
    reg,        \* the roots
    \* the collector
    white,      \* white_
    phase,      \* phase_
    stage,      \* where sweep() is
    driver,     \* who drives step(): collectgarbage or a safepoint
    toFinalize, \* to_finalize, then finalize_ / pending
    fin,        \* the object whose finalizer is running
    finError    \* first_error is not empty

heapVars == <<all, slot, meta, weak, ref, finalized, reg>>
gcVars   == <<white, phase, stage, driver, toFinalize, fin, finError>>
vars     == <<heapVars, mark, gcVars>>

Whites == {"white0", "white1"}
Other(w) == IF w = "white0" THEN "white1" ELSE "white0"
NoNodes == [k \in Key |-> Unused]
MetaObj == Tables \cup Userdata
RefObj  == Userdata \cup Closures

Init ==
    /\ all = {}
    /\ mark = [o \in Obj |-> "white0"]
    /\ slot = [t \in Tables |-> NoNodes]
    /\ meta = [o \in MetaObj |-> Nil]
    /\ weak = [t \in Tables |-> {}]
    /\ ref = [o \in RefObj |-> Nil]
    /\ finalized = {}
    /\ reg = [r \in Reg |-> Nil]
    /\ white = "white0" /\ phase = "pause" /\ stage = "idle" /\ driver = "none"
    /\ toFinalize = {} /\ fin = Nil /\ finError = FALSE

-----------------------------------------------------------------------------
(* Marking *)

Gray   == {o \in all : mark[o] = "gray"}
Marked(o) == mark[o] \in {"gray", "black"}

\* mark_object / mark_value on every object of S
MarkAll(S) == [o \in Obj |-> IF o \in S /\ ~Marked(o) THEN "gray" ELSE mark[o]]

\* mutants of Barrier: none at all; one that does not look at the parent's colour
BarrierNone(parent, S) == mark
BarrierAlways(parent, S) == MarkAll(S \cap Obj)

\* barrier(parent, child) for every child of S
Barrier(parent, S) == IF mark[parent] = "black" THEN MarkAll(S \cap Obj) ELSE mark

\* what propagate_one marks when it scans o; in a weak table the weak halves of
\* the nodes are skipped, and a weak-key table leaves its hash values to
\* converge_ephemerons
TableKids(t) ==
    (IF meta[t] = Nil THEN {} ELSE {meta[t]})
    \cup {slot[t][k] : k \in {a \in ArrKey : "v" \notin weak[t]}}
    \cup {k \in HashKey : "k" \notin weak[t] /\ slot[t][k] # Unused}
    \cup {slot[t][k] : k \in {h \in HashKey : weak[t] = {}}}

\* mutant: the metatable of a userdata is not traversed
KidsNoMeta(o) ==
    Obj \cap (IF o \in Tables THEN TableKids(o) ELSE {ref[o]})

Kids(o) ==
    Obj \cap (IF o \in Tables THEN TableKids(o)
              ELSE IF o \in Userdata THEN {meta[o], ref[o]} ELSE {ref[o]})

\* propagate_one: blacken o and mark its children
Propagated(o) ==
    [x \in Obj |-> IF x = o THEN "black"
                   ELSE IF x \in Kids(o) /\ ~Marked(x) THEN "gray" ELSE mark[x]]

\* converge_ephemerons: the values that a marked weak-key table holds under a
\* marked key; key_obj is null for a key that is not collectable
KeyMarkedAlways(k) == TRUE     \* mutant: values are kept whatever their key
KeyMarked(k) == k \in StrKey \/ (k \in Obj /\ mark[k] # white)
EphemeronValues ==
    {o \in all : mark[o] = white /\
        \E t \in Tables \cap all, k \in HashKey :
            weak[t] = {"k"} /\ mark[t] # white /\ KeyMarked(k) /\ slot[t][k] = o}

\* object_has_gc
GcMethod(o) == IF o \in MetaObj /\ meta[o] # Nil THEN slot[meta[o]][GcName] ELSE Nil
HasGcAgain(o) == GcMethod(o) \in Obj     \* mutant: the flag is not looked at
HasGc(o) == o \notin finalized /\ GcMethod(o) \in Obj

\* clear_weak_entries for the values (mask 2) and for the keys (mask 1)
Dead(v) == v \in Obj /\ mark[v] = white
ClearValues(s) ==
    [t \in Tables |-> [k \in Key |->
        IF t \in all /\ "v" \in weak[t] /\ Dead(s[t][k]) THEN Nil ELSE s[t][k]]]
ClearKeys(s) ==
    [t \in Tables |-> [k \in Key |->
        IF t \in all /\ "k" \in weak[t] /\ Dead(k) THEN Unused ELSE s[t][k]]]

-----------------------------------------------------------------------------
(* The mutator: a Lua program, or the body of a finalizer *)

Running == driver = "none" \/ fin # Nil

Held == {o \in all : o = fin \/ \E r \in Reg : reg[r] = o}

\* NEWTABLE, CLOSURE, lua_newuserdata: an empty object is linked, then the
\* register is written
New(o, r) ==
    /\ Running /\ o \notin all
    /\ all' = all \cup {o}
    /\ mark' = [mark EXCEPT ![o] = white]
    /\ slot' = [t \in Tables |-> IF t = o THEN NoNodes ELSE slot[t]]
    /\ weak' = [t \in Tables |-> IF t = o THEN {} ELSE weak[t]]
    /\ meta' = [x \in MetaObj |-> IF x = o THEN Nil ELSE meta[x]]
    /\ ref' = [x \in RefObj |-> IF x = o THEN Nil ELSE ref[x]]
    /\ reg' = [reg EXCEPT ![r] = o]
    /\ UNCHANGED <<finalized, gcVars>>

\* a register is overwritten by nil or by another held value
Move(r, v) ==
    /\ Running /\ reg[r] # v
    /\ reg' = [reg EXCEPT ![r] = v]
    /\ UNCHANGED <<all, mark, slot, meta, weak, ref, finalized, gcVars>>

\* the values a held object gives access to (index, next, getmetatable, upvalue)
Fields(o) ==
    Obj \cap
    (IF o \in Tables THEN {meta[o]} \cup {slot[o][k] : k \in Key}
                          \cup {k \in Key : slot[o][k] \notin {Unused, Nil}}
     ELSE IF o \in Userdata THEN {meta[o], ref[o]} ELSE {ref[o]})

Load(r, o, v) ==
    /\ v \in Fields(o)
    /\ Move(r, v)

Bounded ==
    Cardinality({n \in Tables \X Key : slot[n[1]][n[2]] # Unused})
    + Cardinality({o \in MetaObj : meta[o] # Nil})
    + Cardinality({o \in RefObj : ref[o] # Nil}) <= MaxLinks

\* Table::set / set_int. An existing node keeps its key and takes the value; a
\* new node goes to a free slot, to the slot of one deleted node, or, when no
\* deleted node is left, into a rehashed table (every node is inserted again,
\* each with its barriers). A nil for an absent key changes nothing.
SetTable(t, k, v, reused, rehash) ==
    /\ Running
    /\ IF slot[t][k] # Unused \/ k \in ArrKey
       THEN /\ reused = Unused /\ ~rehash
            /\ slot' = [slot EXCEPT ![t][k] = v]
            /\ mark' = Barrier(t, {v})
       ELSE /\ v # Nil
            /\ reused \in {Unused} \cup {h \in HashKey : slot[t][h] = Nil}
            /\ rehash => {h \in HashKey : slot[t][h] = Nil} = {}
            /\ slot' = [slot EXCEPT ![t] =
                           [h \in Key |-> IF h = k THEN v
                                          ELSE IF h = reused THEN Unused
                                          ELSE slot[t][h]]]
            /\ mark' = Barrier(t, {k, v} \cup
                           (IF rehash
                            THEN {h \in HashKey : slot[t][h] # Unused}
                                 \cup {slot[t][h] : h \in Key}
                            ELSE {}))
    /\ UNCHANGED <<all, meta, weak, ref, finalized, reg, gcVars>>
    /\ Bounded'

\* base_setmetatable / debug.setmetatable: m is the metatable or nil, w what its
\* __mode says; update_weak_mode reads it here and nowhere else
SetMetatable(o, m, w) ==
    /\ Running /\ meta[o] # m
    /\ (m = Nil \/ o \notin Tables) => w = {}
    /\ meta' = [meta EXCEPT ![o] = m]
    /\ weak' = IF o \in Tables THEN [weak EXCEPT ![o] = w] ELSE weak
    /\ mark' = Barrier(o, {m})
    /\ UNCHANGED <<all, slot, ref, finalized, reg, gcVars>>
    /\ Bounded'

\* mutant: an upvalue or uservalue is stored without a barrier
SetRefNoBarrier(o, v) ==
    /\ Running /\ ref[o] # v
    /\ ref' = [ref EXCEPT ![o] = v]
    /\ UNCHANGED <<all, mark, slot, meta, weak, finalized, reg, gcVars>>
    /\ Bounded'

\* UpVal::set / UpVal::close on a closed upvalue, setuservalue
SetRef(o, v) ==
    /\ Running /\ ref[o] # v
    /\ ref' = [ref EXCEPT ![o] = v]
    /\ mark' = Barrier(o, {v})
    /\ UNCHANGED <<all, slot, meta, weak, finalized, reg, gcVars>>
    /\ Bounded'

Mutator ==
    \/ \E r \in Reg, o \in Obj : New(o, r)
    \/ \E r \in Reg, v \in Held \cup {Nil} : Move(r, v)
    \/ \E r \in Reg, o \in Held : \E v \in Fields(o) : Load(r, o, v)
    \/ \E t \in Held \cap Tables, k \in (Held \cap KeyObj) \cup (Key \ Obj), v \in Held \cup {Nil},
          reused \in HashKey \cup {Unused}, rehash \in BOOLEAN :
            SetTable(t, k, v, reused, rehash)
    \/ \E o \in Held \cap MetaObj, m \in (Held \cap Tables) \cup {Nil}, w \in Modes :
            SetMetatable(o, m, w)
    \/ \E o \in Held \cap RefObj, v \in Held \cup {Nil} : SetRef(o, v)

-----------------------------------------------------------------------------
(* The collector *)

\* full_gc, called by collectgarbage("collect") or by a safepoint whose debt has
\* reached the threshold. Inside a finalizer it returns at once (collecting_,
\* running_finalizer_), which is a stuttering step. An unfinished cycle is
\* completed first ("finish").
FullGc ==
    /\ "collect" \in Options /\ driver = "none"
    /\ driver' = IF phase = "pause" THEN "full" ELSE "finish"
    /\ UNCHANGED <<heapVars, mark, white, phase, stage, toFinalize, fin, finError>>

\* collectgarbage("step", n) with n < 10000: n calls of step(), stopping when a
\* cycle ends. "step" is n = 1, "cycle" an n large enough for the whole cycle.
CallStep(opt) ==
    /\ opt \in Options /\ driver = "none"
    /\ driver' = opt
    /\ UNCHANGED <<heapVars, mark, white, phase, stage, toFinalize, fin, finError>>

\* driver after one step() that does not end the cycle
Driven == IF driver = "step" THEN "none" ELSE driver

\* step() in Phase::Pause
MarkRoots ==
    /\ driver # "none" /\ phase = "pause"
    /\ mark' = MarkAll({reg[r] : r \in Reg} \cap Obj)
    /\ phase' = "propagate" /\ driver' = Driven
    /\ UNCHANGED <<heapVars, white, stage, toFinalize, fin, finError>>

\* step() in Phase::Propagate
PropagateOne(o) ==
    /\ driver # "none" /\ phase = "propagate" /\ o \in Gray
    /\ mark' = Propagated(o)
    /\ driver' = Driven
    /\ UNCHANGED <<heapVars, white, phase, stage, toFinalize, fin, finError>>

\* mutant: the sweep starts with gray objects left
EnterSweepEarly ==
    /\ driver # "none" /\ phase = "propagate"
    /\ phase' = "sweep" /\ driver' = Driven
    /\ UNCHANGED <<heapVars, mark, white, stage, toFinalize, fin, finError>>

EnterSweep ==
    /\ driver # "none" /\ phase = "propagate" /\ Gray = {}
    /\ phase' = "sweep" /\ driver' = Driven
    /\ UNCHANGED <<heapVars, mark, white, stage, toFinalize, fin, finError>>

\* mutants of Separate: tables have no finalizers; weak values are not cleared yet;
\* weak keys are cleared as well
SeparateUserdata ==
    /\ driver # "none" /\ phase = "sweep" /\ stage = "idle"
    /\ toFinalize' = {o \in all \cap Userdata : mark[o] = white /\ HasGc(o)}
    /\ slot' = ClearValues(slot)
    /\ stage' = "ephemerons"
    /\ UNCHANGED <<all, meta, weak, ref, finalized, reg,
                   mark, white, phase, driver, fin, finError>>
SeparateOnly ==
    /\ driver # "none" /\ phase = "sweep" /\ stage = "idle"
    /\ toFinalize' = {o \in all : mark[o] = white /\ HasGc(o)}
    /\ stage' = "ephemerons"
    /\ UNCHANGED <<heapVars, mark, white, phase, driver, fin, finError>>
SeparateKeys ==
    /\ driver # "none" /\ phase = "sweep" /\ stage = "idle"
    /\ toFinalize' = {o \in all : mark[o] = white /\ HasGc(o)}
    /\ slot' = ClearKeys(ClearValues(slot))
    /\ stage' = "ephemerons"
    /\ UNCHANGED <<all, meta, weak, ref, finalized, reg,
                   mark, white, phase, driver, fin, finError>>

\* sweep(): collect the finalizable whites, then clear weak values
Separate ==
    /\ driver # "none" /\ phase = "sweep" /\ stage = "idle"
    /\ toFinalize' = {o \in all : mark[o] = white /\ HasGc(o)}
    /\ slot' = ClearValues(slot)
    /\ stage' = "ephemerons"
    /\ UNCHANGED <<all, meta, weak, ref, finalized, reg,
                   mark, white, phase, driver, fin, finError>>

Converging == stage \in {"ephemerons", "resurrected"}

\* converge_ephemerons marks a value; the drain loops blacken a gray object
ConvergeMark(o) ==
    /\ Converging /\ o \in EphemeronValues
    /\ mark' = MarkAll({o})
    /\ UNCHANGED <<heapVars, gcVars>>

ConvergeDrain(o) ==
    /\ Converging /\ o \in Gray
    /\ mark' = Propagated(o)
    /\ UNCHANGED <<heapVars, gcVars>>

Converged == Gray = {} /\ EphemeronValues = {}

\* resurrect the finalizable objects; they are drained, then ephemerons again
Resurrect ==
    /\ stage = "ephemerons" /\ Converged
    /\ mark' = MarkAll({o \in toFinalize : mark[o] = white})
    /\ stage' = "resurrected"
    /\ UNCHANGED <<heapVars, white, phase, driver, toFinalize, fin, finError>>

ClearWeak ==
    /\ stage = "resurrected" /\ Converged
    /\ slot' = ClearKeys(ClearValues(slot))
    /\ stage' = "reclaim"
    /\ UNCHANGED <<all, meta, weak, ref, finalized, reg,
                   mark, white, phase, driver, toFinalize, fin, finError>>

\* the sweep loop: free what is still white, whiten the rest, flip white_
Garbage == {o \in all : mark[o] = white /\ o \notin toFinalize}

Reclaim ==
    /\ stage = "reclaim"
    /\ all' = all \ Garbage
    /\ mark' = [o \in Obj |-> Other(white)]
    /\ slot' = [t \in Tables |-> IF t \in Garbage THEN NoNodes ELSE slot[t]]
    /\ meta' = [o \in MetaObj |-> IF o \in Garbage THEN Nil ELSE meta[o]]
    /\ weak' = [t \in Tables |-> IF t \in Garbage THEN {} ELSE weak[t]]
    /\ ref' = [o \in RefObj |-> IF o \in Garbage THEN Nil ELSE ref[o]]
    /\ finalized' = finalized \ Garbage
    /\ white' = Other(white)
    /\ stage' = "finalize"
    /\ UNCHANGED <<reg, phase, driver, toFinalize, fin, finError>>

\* run_finalizers: flag the object, look its __gc up again (a weak metatable may
\* have lost it), call it when it is a function
StartFinalizer(o) ==
    /\ stage = "finalize" /\ fin = Nil /\ o \in toFinalize
    /\ toFinalize' = toFinalize \ {o}
    /\ finalized' = finalized \cup {o}
    /\ fin' = IF GcMethod(o) \in Closures THEN o ELSE Nil
    /\ UNCHANGED <<all, mark, slot, meta, weak, ref, reg,
                   white, phase, stage, driver, finError>>

EndFinalizer(err) ==
    /\ fin # Nil /\ (err => "error" \in Options)
    /\ fin' = Nil
    /\ finError' = (finError \/ err)
    /\ UNCHANGED <<heapVars, mark, white, phase, stage, driver, toFinalize>>

\* mutants of EndSweep: it does not wait for the finalizer; full_gc does not leave
\* the loop that finishes an old cycle
EndSweepEarly ==
    /\ stage = "finalize" /\ toFinalize = {}
    /\ stage' = "idle" /\ phase' = "pause" /\ driver' = "none" /\ finError' = FALSE
    /\ UNCHANGED <<heapVars, mark, white, toFinalize, fin>>
EndSweepAgain ==
    /\ stage = "finalize" /\ fin = Nil /\ toFinalize = {}
    /\ stage' = "idle" /\ phase' = "pause" /\ finError' = FALSE
    /\ driver' = IF driver = "finish" THEN driver ELSE "none"
    /\ UNCHANGED <<heapVars, mark, white, toFinalize, fin>>

\* sweep() returns; or run_finalizers panics with the first error, which
\* full_gc catches (phase_ = Pause) and step(), called directly, does not
EndSweep ==
    /\ stage = "finalize" /\ fin = Nil /\ toFinalize = {}
    /\ stage' = "idle"
    /\ phase' = IF finError /\ driver \in {"step", "cycle"} THEN "sweep" ELSE "pause"
    /\ driver' = IF driver = "finish" /\ ~finError THEN "full" ELSE "none"
    /\ finError' = FALSE
    /\ UNCHANGED <<heapVars, mark, white, toFinalize, fin>>

Collector ==
    \/ MarkRoots \/ EnterSweep \/ Separate \/ Resurrect \/ ClearWeak \/ Reclaim
    \/ EndSweep
    \/ \E o \in all : PropagateOne(o) \/ ConvergeMark(o) \/ ConvergeDrain(o)
    \/ \E o \in all : StartFinalizer(o)
    \/ \E err \in BOOLEAN : EndFinalizer(err)

Next ==
    \/ Mutator
    \/ FullGc
    \/ \E opt \in {"step", "cycle"} : CallStep(opt)
    \/ Collector

Spec == Init /\ [][Next]_vars

\* the collector runs in the caller's thread and a finalizer returns
FairSpec == Spec /\ WF_vars(Collector)
-----------------------------------------------------------------------------
(* Properties *)

\* every variable has its type
TypeOK ==
    /\ all \subseteq Obj /\ finalized \subseteq all /\ toFinalize \subseteq all
    /\ mark \in [Obj -> Whites \cup {"gray", "black"}]
    /\ slot \in [Tables -> [Key -> Obj \cup {Nil, Unused}]]
    /\ meta \in [MetaObj -> Tables \cup {Nil}]
    /\ weak \in [Tables -> Modes]
    /\ ref \in [RefObj -> Obj \cup {Nil}]
    /\ reg \in [Reg -> Obj \cup {Nil}]
    /\ white \in Whites
    /\ phase \in {"pause", "propagate", "sweep"}
    /\ stage \in {"idle", "ephemerons", "resurrected", "reclaim", "finalize"}
    /\ driver \in {"none", "full", "finish", "step", "cycle"}
    /\ fin \in all \cup {Nil} /\ (fin # Nil => stage = "finalize")
    /\ finError \in BOOLEAN

\* everything an object mentions, weak halves of nodes and deleted nodes included
Mentions(o) ==
    Obj \cap
    (IF o \in Tables THEN {meta[o]} \cup {slot[o][k] : k \in Key}
                          \cup {k \in Key : slot[o][k] # Unused}
     ELSE IF o \in Userdata THEN {meta[o], ref[o]} ELSE {ref[o]})

\* no allocated object refers to a freed one: the heap part of the collector's
\* contract, which rests on the write barriers when a cycle is run in steps
HeapClosed == \A o \in all : Mentions(o) \subseteq all

\* no root and no queued finalizer refers to a freed object
RootsLive == \A r \in Reg : reg[r] \in all \cup {Nil}

\* the collector frees nothing the program can still reach
NoDangling == HeapClosed /\ RootsLive

\* Reference definition of liveness (Lua 5.3, 2.5.2): the smallest set that holds
\* S, what a live object holds strongly, and the values of weak-key nodes whose
\* key is live or is not collectable
Closed(L) ==
    \A o \in L :
        /\ Kids(o) \subseteq L
        /\ o \in Tables /\ weak[o] = {"k"} =>
              \A k \in HashKey : slot[o][k] \in Obj /\ (k \in Obj => k \in L)
                                    => slot[o][k] \in L
Live(S) == {o \in Obj : \A L \in SUBSET Obj : S \subseteq L /\ Closed(L) => o \in L}

Roots == {reg[r] : r \in Reg} \cap Obj

\* A complete cycle frees exactly the garbage: what survives is what is live from
\* the roots and from the objects waiting for their finalizer
FreesExactlyGarbage ==
    [][stage = "reclaim" /\ stage' # "reclaim" /\ driver = "full"
         => all' = Live(Roots \cup toFinalize)]_vars

\* only objects the program cannot reach are selected for finalization
FinalizesOnlyUnreachable ==
    stage = "ephemerons" => toFinalize \cap Live(Roots) = {}

\* no finalizer is called a second time for the same object
FinalizeOnce == [][fin' # fin /\ fin' # Nil => fin' \notin finalized]_vars

\* an object whose metatable still has a __gc is not freed before its finalizer
\* was started (gc.md: "Objects with `__gc` are kept alive until finalizer runs")
FinalizedBeforeFree == [][\A o \in all \ all' : ~HasGc(o)]_vars

\* when the finalizers of a cycle start, no weak value refers to an object that
\* waits for one: such values are cleared before the object is resurrected
WeakValuesDropped ==
    [][stage = "reclaim" /\ stage' = "finalize" =>
         \A t \in Tables \cap all, k \in Key :
             "v" \in weak[t] => slot[t][k] \notin toFinalize]_vars

\* until the sweep loop, nothing removes a weak-key node of a marked table whose key
\* waits for its finalizer: keys are cleared only after the resurrection
WeakKeysKept ==
    [][stage' \in {"ephemerons", "resurrected", "reclaim"} =>
         \A t \in Tables, k \in toFinalize' \cap KeyObj :
             weak[t] = {"k"} /\ mark[t] # white => slot'[t][k] = slot[t][k]]_vars

\* tri-colour invariant: a scanned object holds no unscanned white one strongly,
\* whatever the program stored since it was scanned
BlackHoldsNoWhite ==
    \A o \in all : mark[o] = "black" => \A c \in Kids(o) : mark[c] # white

\* when the sweep loop starts, nothing that survives mentions what is freed
SurvivorsClosed ==
    stage = "reclaim" => \A o \in all \ Garbage : Mentions(o) \cap Garbage = {}

\* Inductive strengthenings (proved in GcProofs). The collector's configurations
\* for which the heap stays closed: no weak-key node under a key that is not
\* collectable, and no weak table while programs run cycles in steps
OnlyFullCycles == Options \subseteq {"collect", "error"}
SafeModes ==
    /\ PrimKey = {} \/ {"k"} \notin Modes
    /\ Modes = {{}} \/ OnlyFullCycles

\* marks are of the current cycle; between cycles everything is white
MarksCurrent == \A o \in all : mark[o] \in {white, "gray", "black"}
WhiteAtRest  == phase = "pause" \/ stage = "finalize" => \A o \in all : mark[o] = white

\* where sweep() may be, and who drives it
ControlOK ==
    /\ stage # "idle" => phase = "sweep" /\ driver # "none"
    /\ OnlyFullCycles => driver \in {"none", "full"} /\ (driver = "none" => phase = "pause")
    /\ stage \in {"resurrected", "reclaim"} => \A o \in toFinalize : mark[o] # white

HeapInv ==
    /\ TypeOK /\ HeapClosed /\ BlackHoldsNoWhite /\ SurvivorsClosed
    /\ MarksCurrent /\ WhiteAtRest /\ ControlOK

\* from mark_roots to the sweep loop the roots are marked
RootsMarked ==
    phase # "pause" /\ stage # "finalize" =>
        \A r \in Reg : reg[r] # Nil => mark[reg[r]] # white

CollectInv == HeapInv /\ RootsLive /\ RootsMarked

\* queued objects are unfinalized, and from their selection to the sweep loop the
\* queue holds every white object with a __gc
QueueInv ==
    /\ toFinalize \cap finalized = {}
    /\ stage # "idle" => phase = "sweep" /\ driver # "none"
    /\ stage \in {"ephemerons", "resurrected", "reclaim"} =>
          /\ fin = Nil
          /\ \A o \in all : mark[o] = white /\ HasGc(o) => o \in toFinalize

\* a collection that has started ends and control returns to the program
CollectionEnds == driver # "none" ~> driver = "none"
=============================================================================
