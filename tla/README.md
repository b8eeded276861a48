# Verification of LuaTier's run time

TLA+ models of LuaTier (`src/`, a Lua 5.3 run time in C++17): the way of a program
from its tokens to what it returns (parser, semantic pass, code generator,
interpreter), the collector and the programs that run against it, the hash table,
coroutines with protected calls, the pattern matcher and the table library. Each
model is checked by TLC on small instances; what matters most of the collector, the
tables, the coroutines, the table library and the scans of the string library is
also proved by TLAPS for every instance.

Paths below are relative to the repository root (`src/gc/gc.cpp` is the file
`gc/gc.cpp` of its source directory).

## 1. Inventory

| Component | State | Operations | Interacts with |
|---|---|---|---|
| Collector `src/gc` | `all_`, `gray_`, `white_`, `phase_`, `finalize_`, `collecting_`, `running_finalizer_`, `debt_` | `link`, `barrier`, `step`, `full_gc`, `safepoint`, `run_finalizers`, `clear_dead_stack` | every store (barriers), interpreter safepoints, `collectgarbage`, Lua code run as `__gc` |
| Tables `src/runtime/table.cpp` | `array`, `hash`, `weak_mode`, `opt_flags`, metatable | `get`, `set`, `set_int`, `rehash`, `clear_weak_entries` | collector (clears entries), `next`, `#`, `get_tm` |
| Front end `src/frontend` | tokens, scopes, registers, jump lists, labels | lex, parse, analyse, lower | produces the `Proto` the interpreter runs |
| Interpreter `src/vm/interpreter.cpp` | stack, `top`, `stack_base`, frames, `pc` | one per opcode, calls, returns, safepoints | everything below |
| Upvalues and closures `src/runtime/upvalue.cpp`, `src/vm/state.cpp` | open list per thread, closure cache | find, get, set, close | interpreter (blocks, returns, errors), collector |
| Metamethods `src/vm/meta.cpp` | absent-metamethod cache | index, newindex, call, arithmetic, comparison | tables; calls Lua from the middle of an instruction |
| Coroutines `src/lib/lcorolib.cpp`, `src/lib/lbaselib.cpp` | `current`, and per thread `status`, `frames`, `nny`, `nCcalls`, `yield_*`, `err_obj` | `resume`, `wrap`, `yield`, `pcall`, `xpcall`, `dofile`, `run_c_call`, `call_closure`, `resume_after_yield` | each other through the C++ stack and C++ exceptions |
| String library `src/lib/lstrlib.cpp` | `MatchState`, the state of a `gmatch` iterator | `find`, `match`, `gmatch`, `gsub`, formatting | Lua callbacks of `gsub` |
| Table library `src/lib/ltablib.cpp` | none between calls | `insert`, `remove`, `move`, `unpack`, `concat`, `sort` | metamethods of the tables, Lua comparison functions |
| Strings `src/runtime/string.cpp` | intern table | intern | collector (all marked as roots) |
| C API `src/api`, `src/vm/state.cpp` | stack windows `stack_base`/`top` | push, pop, `lua_pcall` | all of the above |
| Debug library and hooks | hook mask, `in_hook` | hooks on call, return, line, count | interpreter, coroutines |
| Package, io, os, math, utf8 libraries | loaded modules, file handles | `require`, `open`/`close` | interpreter callbacks |
| Binary chunks `src/lib/ldump.cpp` | none | dump, undump | loader |
| JIT tiers `src/jit` | hotness counters, inline caches | count | interpreter (no code is generated yet) |

Hard behaviours, with the lines where they bite, are `hazards` in
`PROJECT.json`. In short:

* **Collector.** `collectgarbage("step")` interleaves marking with the program,
  so every store needs its barrier. Inside `sweep()` five passes must come in one
  order (select finalizable objects, clear weak values, converge ephemerons,
  resurrect, clear weak keys). Finalizers are Lua code that runs in the middle of
  a collection and may resurrect, allocate, relink or fail. Which stack slots are
  alive at a safepoint is estimated from frames, `top` and `stack_base`.
* **Tables.** Long sequences of insertions, deletions, reuse of deleted slots,
  growth of the array part and weak clearing must keep every key findable exactly
  once, also while `next` is walking.
* **Code generation.** Registers are freed before the code that still needs them is
  complete, calls and varargs are patched to another number of results afterwards,
  tests become jumps that later code inverts and moves, and every way out of a
  block has to close the upvalues of that block.
* **Interpreter.** A metamethod called by an instruction, a tail call, a vararg
  call and an error caught by `pcall` all move frames and `top` while the register
  windows of waiting functions have to survive.
* **Coroutines.** A call can be left by return, yield or exception, each on its
  own path with its own decrements of `nny` and `nCcalls`; a yielded call is
  finished later by another piece of code than the one that started it.
* **Libraries.** The matcher shares one array of captures between all branches it
  tries; scans must get past empty matches; `sort` must stay inside its range with
  any comparison function; loops over ranges must stop at the largest integer.

## 2. Modules

| Module | What it is |
|---|---|
| `Gc` | the collector with its mutator |
| `LuaTable`, `LuaMap` | one table: both parts, rehash, weak clearing, `next`, `#`, metamethod cache; and the abstract map it implements |
| `Coroutine` | threads, frames, the C++ stack, protected calls, resume and yield |
| `Parser` | tokens to syntax trees, with the limits on nesting and locals |
| `Sema` | `break`, labels and `goto` |
| `Lowering` | syntax trees to bytecode |
| `Frontend` | `State::load_string`: the three in a row |
| `Bytecode`, `LuaValue` | limits, values, raw access and metamethod lookup, shared by the modules around |
| `Vm` | the interpreter on one thread |
| `LuaSem` | the reference: what a syntax tree means |
| `LuaText` | the reference: the text of a syntax tree |
| `Pattern` | the pattern matcher |
| `PatternSem` | the reference: what a pattern matches |
| `StringLib` | `find`, `match`, `gmatch`, `gsub` over any matcher |
| `TableLib` | `insert`, `remove`, `move`, `unpack`, `concat`, `sort` |
| `MC...` | constants and inputs of the TLC instances |
| `GcProofs`, `LuaTableProofs`, `CoroutineProofs`, `CoroutineFrameProofs`, `CoroutineErrorProofs`, `TableLibProofs`, `StringLibProofs` | theorems about the module each is named after |
| `ProofFacts` | facts about numbers and finite sets that these share |

Operators whose comment says *mutant* are deliberately wrong variants of the
definition that follows them. They are used to check that a property notices the
bug, and never occur in a specification.

### Gc

`all`, `mark`, `white`, `phase` are the fields of the same name; `stage` says where
`sweep()` is between two of its passes, `driver` which loop calls `step()`
(`full_gc`, its first loop that finishes an old cycle, or `collectgarbage("step")`
with one or many steps), `fin` the object whose `__gc` is running. `slot[t][k]` is
a node: `Unused` (free), `Nil` (deleted, the key is still in the node) or a value.
`reg` is everything `mark_roots` reads.

Actions: `New` (`link`), `Move`, `Load` (registers), `SetTable` (`Table::set` and
`set_int`, with reuse of a deleted node or a rehash, and their barriers),
`SetMetatable` (with `update_weak_mode`), `SetRef` (`UpVal::set`, uservalue);
`FullGc`, `CallStep`; `MarkRoots`, `PropagateOne`, `EnterSweep` (`GC::step`);
`Separate`, `ConvergeMark`, `ConvergeDrain`, `Resurrect`, `ClearWeak`, `Reclaim`,
`StartFinalizer`, `EndFinalizer`, `EndSweep` (`GC::sweep`, `run_finalizers`). The
mutator acts between collections, between two steps of a cycle, and as the body of
a finalizer.

Abstracted: the order of `gray_` and `all_` (any order), `debt_` (a safepoint may
collect whenever the program runs), strings (immortal, so only keys), a closure
and its closed upvalue (one object). Bounds of the model, named there: finalizers
do not call `collectgarbage("step")`, and no finalizer of a step-driven sweep calls
`collectgarbage("collect")`. In the code `collecting_` is not set in that case and
`sweep()` would be entered again from inside itself.

### LuaTable and LuaMap

Probing (`Probe`, `StopAt`, `Target`) follows `Table::get` and `Table::set`,
including the reuse of the first deleted slot of a chain. `hash_key` is a parameter
`home`, and a run covers all ways keys can collide and wrap around. `rehash` is
several steps (`BeginRehash`, `RehashOne` per node of `old_hash` that has a value,
`EndRehash` for the recursive `set`), because the questions are whether each
insertion finds a slot and whether something is lost in between. `old` is the rest of
`old_hash` from the node the loop looks at next; `Roomy` is the condition of the loop
that picks the new size. `LuaMap` is a partial map; `MapSpec` is `LuaMap`'s
specification under the mapping `Contents` (nodes not yet inserted again count) and
`pending`.

### Coroutine

`frames[t]` is `Thread::frames`; `native` is the C++ stack: activations of
`interpret` and of C functions that call back, each with the point it is at.
`mode` says how the innermost activation goes on: it runs, or its callee returned
`LUA_OK`, returned `LUA_YIELD` or threw. Yield and error unwind `native` one
activation per step through the code of each function. `wait` in a frame records
that a call it made has not delivered results, the only thing kept of values.

Programs make any of the modelled calls in any order. `Features` chooses among
`xpcall`, `dofile`, `wrap`, `sort` (any C function that calls back and is not
yieldable) and `call` (a `__call` metamethod); `resume`, `yield`, `pcall`, `error`
and Lua calls are always there.

### Parser, Sema, Lowering, Frontend

Pure operators, one per function of the source and with its name. `Parser` passes
a state along: the tokens, the position, the nesting that `LevelGuard` counts and
the number of locals. `Sema` passes the `Ctx` along. `Lowering` passes the chain of
`FuncState`s along, with `freereg`, `nactvar`, jump lists, pending gotos and the
constants; what it returns is the `Proto` with the code's own instructions,
registers and jump offsets. Line numbers, names kept for debugging, floats and
messages are left out. `load_string` is the composition, as in the code.

### Vm

`vm` holds the stack, `top`, `stack_base`, the frames, the list of open upvalues,
closures, tables and the closure caches. There is one action per opcode, which does
all the instruction does; a metamethod that is a Lua function pushes a frame that
remembers where its result goes, and `ReturnOp`/`Finish` complete the instruction
when it returns. `pcall` is a C frame (`CallPcall`, `EndPcall`), an error unwinds to
it (`Catch`, `Unwound`) with what `base_pcall` restores. `GcStep` does to the stack
what a collection does: `ClearDeadStack` clears the slots above the high water mark.
`pressure` chooses between no collection and the setting
`LUATIER_STRESS_GC_EVERY_SAFEPOINT` of the build: a collection before every
instruction (`Fetched`) and again at the safepoints in it (`NEWTABLE`, `CLOSURE`,
jumps, loops, calls and returns).

`MeansWhatItSays` composes everything: a syntax tree is written as tokens by the
grammar (`LuaText`), loaded by `Frontend`, run by `Vm`, and what comes out must be
what `LuaSem` says of the tree. `LuaSem` and `LuaText` come from the language's
reference manual and share nothing with the code but values and raw table access:
no registers, jumps or upvalues, a variable is a cell and a block an environment.

### Pattern, PatternSem, StringLib

`Pattern` is `match`, `max_expand`, `min_expand`, captures, balanced and frontier
items on a `MatchState`. A call that fails hands its captures back as the code
leaves them. `PatternSem` writes a pattern as a sequence of items and lets each
item map an outcome to the outcomes it allows, the preferred one first: no
backtracking, and so nothing to undo. `StringLib` takes the matcher as a parameter;
its actions are one iteration of `gsub`'s loop, the return of `gsub`'s callback,
`gmatch` and one call of its iterator. A callback may run an iterator meanwhile, and
an iterator may be called again after its nil or after an error. Reading a capture of
an anchored match past the end of the subject ends in `out_of_range`, a C++ exception
that no `pcall` catches.

### TableLib

A call is one step per round of its loop; `sort` is one step per comparison, with
the stack of ranges that its recursion makes. Integers have the width `MaxInt`, and
additions that overflow in the code wrap here. A comparison is an order or answers
anything. The calls a program makes come from sets of scripts, one per function,
whose types are assumptions of the module; `Tables` are the tables `move` may copy
between.

## 3. Runs

| Run | Instance | Shows |
|---|---|---|
| `gc_collect` | a table, a userdata (also as key), a closure, 2 roots, weak-value and fully weak tables, 4 links, full cycles without limit | nothing reachable is freed (`NoDangling`) or finalized (`FinalizesOnlyUnreachable`); a cycle frees exactly the garbage (`FreesExactlyGarbage`); finalizers run once, before the object goes, and weak values drop it first |
| `gc_ephemeron` | 2 tables (also as keys), a closure, weak keys, 4 links, one whole collection | survivors are the least fixpoint of strong and ephemeron edges; keys that wait for a finalizer keep their nodes |
| `gc_step` | a table, a closure, stepped and full cycles, failing finalizers | barriers keep the tri-colour invariant and the heap closed; every call of the collector returns (`CollectionEnds`) |
| `table` | 3 hash keys beside the array part, all collisions in a part that starts with 1, 2 or 4 slots and has at most 4 | refinement of `LuaMap`, chains never break, rehash always fits, `next` complete and without repetition, `#` a border, cache sound |
| `coroutine_results` | one coroutine, 6 frames deep, `sort`, `wrap`, `dofile` | counters exact, no lost results, a coroutine ends only when its frames are gone, the first error of a resume stops at the innermost protected call |
| `coroutine_chain` | two coroutines resuming each other, `xpcall`, the C-call limit at 7 | statuses follow the chain of resumes |
| `vm` | 1767 programs, 480 of them with and without a collection before every instruction | each returns, or fails as, its tree means (`MeansWhatItSays`); an open upvalue belongs to a local in scope (`OpenUpvalsInScope`); no call, metamethod, unwinding or collection touches the registers of a waiting function (`FramesIsolated`) |
| `strings` | all patterns of up to 2 items of every kind and longer ones with captures, subjects of up to 4 characters, replacements by string, table and function | `find` and `match` return the leftmost, preferred match with its captures; `gsub` and `gmatch` visit exactly the matches, empty ones too, and advance, iterators also after an error |
| `table_library` | all arrays of up to 5 small numbers and longer ones, ranges at both ends of the integers | copies are simultaneous, reads go through exactly their range, `sort` permutes inside its range whatever the comparison answers and sorts when it is an order, every call ends |

Three runs end in a violation, each against a sentence of `docs/spec` or a comment
of the code:

| Run | Violates | Because |
|---|---|---|
| `gc_step_roots` | `NoDangling` | `step()` enters the sweep without marking the roots again; gc.md promises an atomic phase. Automatic collections are full cycles and are not affected |
| `vm_unary` | `MeansWhatItSays` | the register of a unary operator's result is free while the right operand is evaluated: `#t == t.a` is always true |
| `vm_pressure` | `MeansWhatItSays` | below `pcall` the collector takes `top` for the end of the live stack, and `top` is wherever the last C call left it: live locals become nil |

The passing runs are set beside these on purpose, so that the rest of the promise
is known to hold: `gc_step` checks the heap without the roots and with strong
tables, `gc_ephemeron` has only collectable keys, `vm` has no unary operator on a
computed value as left operand and puts no pressure on programs with `pcall`.

**Bounds.** A dangling reference needs one holder, one object and one root that
changes; an ephemeron chain needs two tables of which one is a key of the other;
resurrection followed by a second cycle is in `gc_collect`, which does not limit
the number of cycles. `gc_ephemeron` stops after one sweep (`FirstCycle`):
everything it asks about happens within one. Four links are the fewest that give a
key of a weak table a finalizer (the weak table's metatable, the node, the key's
metatable, its `__gc`). Tables and roots are interchangeable, hence the symmetry in
these two runs. `table_new` makes 2 slots in the model (8 in the code), or 1, 2 or 4
for a `hash_hint`. In a table of two slots, three keys fill the part, wrap around,
meet deleted slots and force a rehash. `MaxFrames` limits which frames make another
call, not what is already there; six frames hold two nested protected calls that
were yielded through, plus the frames that fail inside them. In `coroutine_chain`
the limit of C calls is lowered from 200 to 7 so that it is met, inside handlers
too.

The programs of `vm` are products of families: operators with operands of every
kind (constant, local, upvalue, global, field, call, vararg), expressions with the
places they are compiled into, loops with ways out and captures, metamethods,
ways to fail below `pcall`, operators side by side, gotos with labels and what is
between them, limits, and larger whole programs. Operands of 8 bits are cut to 0..3
(`MAXARG`) so that constants and table sizes outgrow them, `SETLIST` stores 2
elements at a time instead of 50 (`FIELDS`), a function has at most 16 locals
instead of 200 (`MAXVARS`), the stack has 48 slots (`STACKSIZE`) and a program runs
for at most 250 instructions (`MAXSTEPS`); every program ends before that.
`kMaxMatchDepth` is 7 instead of 200: two groups fit, an item more does not. In `table_library`
the integers end at 9 (`MaxInt`), random pivots start at ranges of 4 (`RANLIMIT`)
and at any imbalance (`Imbalance`), so that arrays of up to 8 reach every branch.

**Fairness.** `Gc!FairSpec`: the collector runs in the thread of its caller, so once
it has been called it goes on, and a finalizer returns (a finalizer that loops for
ever stops the program in the code as well). `LuaTable!FairSpec`: `rehash` is a
sequential loop. `TableLib!Spec`: a library call runs in the thread of its caller,
and a comparison function returns. Nothing is assumed of programs.

Deadlock is checked except in `strings` and `table_library`, where a state without
successor is a finished case. `Coroutine!Exit` is the end of the main chunk,
`Vm!Halted` that of a program.

**Comparison with the build.** The model and the compiled program were run side by
side. The 1767 programs of `vm` return on the build what `LuaSem` says, apart from
those about the limit of 16 locals, and the 480 programs under pressure do so with
`LUATIER_STRESS_GC_EVERY_SAFEPOINT=1`. The bytecode of 1434 programs, compiled with
the model's operand limits set to the code's, is the same instruction for
instruction. 3794 pairs of subject and pattern give the results of `string.find`.

## 4. Proofs

`GcProofs`, for every number of objects, roots, keys, modes and links:

| Theorem | Assumes | States |
|---|---|---|
| `TypeCorrect` | | `[]TypeOK` |
| `HeapSafe` | `SafeModes` | `[]HeapClosed`: no object mentions a freed one |
| `BarriersSuffice` | `SafeModes` | `[]BlackHoldsNoWhite` |
| `CollectSafe` | `SafeModes`, `OnlyFullCycles` | `[]NoDangling`: nor does a root |
| `FinalizesOnce` | | no finalizer is called twice for an object |
| `FinalizesBeforeFree` | | no object is freed with its `__gc` still to run |
| `WeakValuesGone` | | `WeakValuesDropped`: no weak value refers to an object whose finalizer is due |
| `WeakKeysStay` | | `WeakKeysKept`: the ephemerons of such an object are still there |
| `CycleExact` | `SafeModes`, `OnlyFullCycles` | `FreesExactlyGarbage`: a cycle keeps what is live, and only that |
| `SelectsOnlyUnreachable` | the same, and no table of weak keys alone | `[]FinalizesOnlyUnreachable` |

`SafeModes` excludes what is unsafe in the code: weak-key tables with keys that are
not collectable (section 6), and weak tables in programs that step the collector
(a table made strong between two steps has been scanned as weak). `OnlyFullCycles`
says that programs do not call `collectgarbage("step")`.

*Inductive invariants.* `HeapClosed` is not inductive: that freeing is safe follows
from marks, and marks from the history of the cycle. `HeapInv` adds the tri-colour
invariant, `SurvivorsClosed` (when the sweep loop starts, survivors mention no
garbage, in weak halves and deleted nodes too), `MarksCurrent` and `WhiteAtRest`
(no mark of another cycle is left) and `ControlOK`. Three lemmas carry it:
`StoreStep` (a store with its barrier), `MarkingStep` (marking that blackens only
what it scans), `ClearWeakCloses` (after convergence and clearing, what a marked
table still mentions is marked). `CollectInv` adds `RootsMarked`, which only full
cycles keep. `QueueInv` says that the queue is unfinalized and holds every white
object with a `__gc` from the selection to the sweep loop; it needs no assumption,
because the mutator cannot run between those. All three were checked by TLC first.

`WeakInv` adds to `QueueInv` that an object of the queue stays there until the sweep
loop. `ExactInv` adds to `CollectInv` the other half of exactness, `MarksOnlyLive`:
every set that holds what the cycle marked from and is closed under what a table of
each mode passes on (an ephemeron when its key is in the set) holds every marked
object. It says of the least fixpoint `Live` what the proof needs, without an
induction over its stages; that the marked objects are such a set themselves is what
`CollectInv` gives at the end of the cycle. `SelectInv` adds that nothing is gray when
the queue is filled. The last theorem excludes weak keys because the code selects
before it marks the values of weak-key nodes: an object that only such a value refers
to is selected although it is reachable (section 6).

`LuaTableProofs`, for every set of keys and values, every hash function, every size
of the two parts:

| Theorem | States |
|---|---|
| `TypeCorrect` | `[]TypeOK` |
| `ProbesSound` | `[]ProbesFindNodes`: the search for the key of a node ends at the node |
| `PartsDisjoint` | `[]NoShadowedNode`: no key is in both parts |
| `RehashHasRoom` | `[]RehashFits`: a rehash finds a slot for all nodes and for the key that caused it |
| `ImplementsMap` | `Spec => MapSpec`: the table refines `LuaMap` |
| `TmCacheCorrect` | `[]TmCacheSound` |
| `LengthCorrect` | `[]LengthIsBorder` |
| `CursorStaysValid` | `[]NextKeyValid`: `next` does not lose its key, whatever is erased or cleared meanwhile |
| `TraversalCorrect` | `TraversalComplete`: no key twice, none left out |

*Inductive invariant.* `TableInv`. `ProbesFindNodes` alone is not inductive through
`set`, which reuses the first deleted slot: what keeps it is that a slot on the way to a
node may lose its value and never its key, that only one node has a key, and that an
insertion goes to a slot its own search comes to before it stops. `TargetFacts` says
this of the slot `set` chooses, `ChainedReplace` that all chains survive, `UnusedSlotStops`
that a part with an unused slot ends every search. While `old_hash` is emptied, `Apart` says
that no key is in both parts of the hash, and `Rehashing` that the key of the waiting
assignment is in neither and that there is room for it and for all values still to
come; `Roomy`, the condition of the loop in `rehash`, is used there. `TmInv` says
that a remembered name is absent and that an assignment to such a name forgets them
before it rehashes; `TravInv` how the positions of returned and of expected keys lie
to the cursor. In the refinement each step changes `Contents` at one key at most
(`SetContents`, `RehashOneContents`, `EndRehashContents`).

`CoroutineProofs`, for every number of coroutines, frames and nested calls:

| Theorem | Assumes | States |
|---|---|---|
| `TypeCorrect` | | `[]TypeOK` |
| `NnyCorrect` | | `[]NnyBalanced`: on every way out of a call `nny` is what it was |
| `ChainCorrect` | `"call" \notin Features` | `[]StatusMatchesChain` |
| `DepthCorrect` | `"call" \notin Features`, `[][~CallOverflow]_vars` | `[]DepthCounted` |

The two assumptions are where the code departs from its promise (section 6): a call
through `__call` loses the `LUA_YIELD` of its callee, so a suspended thread goes on
running; and a call at the limit counts itself without ever being counted back. The
second is a condition on the behaviour, not on the constants: the theorem says that
the count is right as long as the limit is not met, even where it is nearly met.

*Inductive invariants.* `CoInv` says whose activations lie where on the C++ stack
(`NativeOwned`: each activation belongs to the thread of the innermost resume below
it), what each kind of activation is like (`Shaped`), and that `nny` counts those that
block. `ChainInv` adds that a thread is on the stack at most once, and that statuses
tell which are. `DepthInv` says that every thread that waits in a resume still has the
depth at which it resumed: `nCcalls` is copied to the coroutine and not copied back, so
the count of the thread below has to be right already when the resume ends.

`CoroutineFrameProofs`, for every number of coroutines, frames and nested calls, the
limit of C calls included:

| Theorem | Assumes | States |
|---|---|---|
| `ResultsDelivered` | `"xpcall" \notin Features` | `[]NoLostResult`: no Lua frame goes on before its call has delivered |
| `CompletionCorrect` | `PlainFeatures`: no `xpcall`, no `__call` | `CompletesOnlyWhenDone`: a coroutine ends normally only without frames |

The assumptions leave out what the code gets wrong (section 6). With
`Features = {"xpcall"}` TLC finds `NoLostResult` and `CompletesOnlyWhenDone` violated,
with `Features = {"call"}` `CompletesOnlyWhenDone` and `FirstErrorStops`: the frame
that yielded through `__call` is left on its thread.

*Inductive invariant.* `NoLostResult` needs little: `WaitsInv` says that the last frame
of the running thread does not wait unless an error is on its way, and `PlainInv` that
there is no `xpcall` and no message handler. Completion needs to know which frames
belong to which activation of the C++ stack, because `YieldC`, `CatchC` and
`ResumeRecovers` cut and relabel frames at a depth that was noted when the activation
began. `FrameInv` says so in four parts. `Stand`: each activation stands on its own
thread at the frame it was started for, and between it and the activation it called are
only frames it may have (`Own`: Lua frames for `interpret`, also calls to be continued
for the loop that `resume` runs, none for a C function). `Tops`: what the
innermost activation finds above its base while it runs, has returned, yields or
throws. `SleptInv`: a suspended coroutine ends in the C call that yielded, above Lua
frames and calls to be continued. `CalmInv`: below a call to be continued are only
frames that can go on. `ChainInv` is needed too: a thread that were on the C++ stack
twice would have two activations cut the same frames.

`CoroutineErrorProofs`, with the same generality:

| Theorem | Assumes | States |
|---|---|---|
| `ErrorsStop` | `"call" \notin Features` | `FirstErrorStops`: the innermost protected call catches an error |

*Inductive invariant.* An error stops where it should because of `Exposed`: above the
base of the innermost activation the only protected calls are those to be continued
after a yield, and there are none if that activation is itself a protected call. Without
`xpcall`, `FrameInv` implies it. With `xpcall`, `FrameInv` is too strong: a message
handler that fails after a yield leaves frames of any kind on its coroutine, and later
continuations work above them. What remains true, which TLC found no violation of before
it was proved, is `Stand`; `Footing`, the part of `Tops` about an activation that runs or
has returned; and `GuardInv`. This last says that every protected call that has not been
continued is that of an activation of the C++ stack (`Guarded`), that none of those is
below a call to be continued on its thread, unless a yield is on its way and is still
turning calls into such (`Settled`), and that protected calls are C functions
(`Compiled`).

`TableLibProofs`, for every width of integers, every set of scripts and every length:

| Theorem | States |
|---|---|
| `StaysInRange` | `[]SortStaysInRange`: whatever the comparison answers, `sort` stays in its range, its waiting ranges are apart, and its recursion halves |
| `SortPermutesTable` | `[]SortPermutes`, also when the comparison raises an error |
| `SortCorrect` | `[]SortSorts`: with an order, no error and a sorted table |
| `CopiesCorrect` | `[]CopiesAreSimultaneous` |
| `ReadsRange` | `[]ReadsItsRange` |

*Inductive invariants.* `LibInv` holds for all of them: types, positions that are
integers wherever a call copies or reads (`CopyInts`, `ReadInts`), and for `sort`
`RangesApart` (the range and those that wait are disjoint parts of the array, each
waiting for a call on less than half of the one it was split from) and
`ScansInside`. The scans of a partition have no bound in the code but the elements
they stop at; with a comparison that is no order it is the tests of `call.i = call.up
- 1` and `call.j < call.i` that keep them inside, and `ScansInside` is what those
tests establish. `PermInv` counts occurrences (`CountOf`): every write of `sort` is an
exchange. `CopyInv` says which elements have moved, and that the direction of the copy
is such that the others have not been overwritten (`Planned`, `CopyKeeps`). `SortInv` is
`Ordered` (two elements that no range of the stack holds together are in order) with
`Partitioned` (what the scans have passed is on its side of the pivot).

`StringLibProofs`, for every matcher, subject and pattern:

| Theorem | Assumes | States |
|---|---|---|
| `ScansEnd` | | `ScansAdvance`: each round of `gsub` and each match of `gmatch` gets further |
| `FindCorrect` | `MatcherAgrees` | `[]FindsLeftmost` |
| `GmatchCorrect` | `IterAgrees` | `[]GmatchReturnsScan`, also for iterators that callbacks of `gsub` call, and after errors |
| `GsubCorrect` | `MatcherAgrees`, `GsubCases` | `[]GsubReplacesScan` |

`MatcherAgrees` and `IterAgrees` say that the matcher finds at each place of a subject
what the pattern means there. They separate the scans from the matcher: the matcher is
recursive, and `strings` is the run that compares it with `PatternSem`. `GsubCases`
says what the code ensures about the data of `gsub`: a subject is made of characters, a
replacement string is the text of its items, the captures of a match lie inside the
subject, and the place a position capture stands for can be written as a number (the
model's `NumberText` knows one digit). All of these hold of the cases of that run, where
TLC has evaluated them. The items are characters and `%0` to `%9`; an ill-formed
replacement string (`%` at its end or before another character, which the code rejects
at the first match) is outside `GsubCases`. `FindsLeftmost` leaves aside an anchored
search that starts past the end of the subject, which the code tries (section 6).

*Inductive invariants.* `StrInv` is the shape of a scan and of its position;
`ReportsMeant` and `SeenInv` say of the values that have been returned so far that they
are the first ones of the scan (`NextMatch`), which places lie between them, and from
where the next one is looked for. `ReplaceInv` and `ReturnInv` add what `gsub` has put
out: the pieces are the first matches of the scan, nothing was found between them
(`Passed`), the output is the subject with exactly those replaced (`PutOut`), a match
that waits for its callback is the next one, and a returned text is the output with the
rest of the subject. The loop that expands a replacement string works character by
character while the reference works item by item: `ExpandItems` shows that they agree
by the least prefix of the items for which they would not, and `FlattenAppend`, one
more part in a concatenation, is proved from the fold's definition. Both invariants
were checked by TLC on the run's instance first.

The assumptions of the modules about their constants (`GcAssumption`,
`TableAssumption`, `CoroutineAssumption`, `TableLibAssumption`, `MatchAssumption`) are
types, limits and, for `StringLib`, that start arguments and limits are integers and a
match ends at or after its start;
TLC evaluates each of them in the runs.

*Only model-checked:*
* liveness (`CollectionEnds`, `AssignmentEnds`, `CallsEnd`), which rests on fairness;
* `Vm`, the front end and `Pattern`: recursive over trees or patterns, and compared
  with reference definitions that are recursive too.

## 5. Not modelled

* The lexer (characters, escapes, numerals): a conversion.
* In the code generator, its own checks for too many locals, too many upvalues and
  duplicate labels (lowering.cpp:114, 356, 1079): the parser and the semantic pass
  reject programs with the first and the last before; the limit on upvalues is left
  out.
* In the table library, lengths given by `__len`. In `Coroutine`, message handlers that
  are C functions, and more than one callback of the same `sort`.
* In the patterns, a frontier past the end of the subject: the code reads outside the
  text there, and no case of `strings` does.
* Floats, the arithmetic and bitwise opcodes other than `+`, `-`, `*` and unary
  operators, and wrap-around of integers in `Vm`; conversions between numbers and
  text.
* Debug hooks and the debug library; the C API beyond what the libraries use;
  `require`; file handles; `table.pack`; the formatting, packing and character
  functions of the string library; `math`, `utf8`, `os`. Binary chunks.
* Yields inside `Vm`, `xpcall` and `dofile` there (`Coroutine` has them, without
  values), the finishing of metamethod opcodes after a yield, suspended threads'
  stacks as roots, values held only in C++ locals.
* String interning (strings are immortal), JIT counters (no code is generated),
  the command line, messages and printing.

`PROJECT.json` lists each with its reason.

## 6. Where the code departs from its promise

Met while modelling; those with a run are in section 3, the others were seen in the
source or on the build, and the instances of the passing runs keep clear of them.

Collector:
* `converge_ephemerons` skips nodes whose key is not an object (`t[true] = {}` in a
  weak-key table): the value is freed, the node stays (gc.cpp:323).
* Finalizable objects are selected before ephemerons converge, so that a reachable
  object may be finalized (gc.cpp:433).
* The values of a `return` are not counted in `maxstack` (lowering.cpp:1348): a
  collection at `RETURN` may clear them. The programs of `vm` make their frames
  large enough (`Room`).
* `tab_unpack` leaves its table unrooted (ltablib.cpp:183).

Front end:
* A nested `goto` may jump to the wrong one of two outer labels
  (lowering.cpp:1096). `Sema` compares visible locals by name, and binds a `goto` to
  a label of a later sibling block (sema.cpp:281).
* `break` before a capture in the text, reached again by a `goto` back, leaves the
  upvalue open (lowering.cpp:1453).
* `{f(), x = 1}` drops `x` (lowering.cpp:934). A constructor whose last item is a
  call after a full batch of 50 stores it at index 1, and the batch number wraps at
  256 (lowering.cpp:957).
* The parser never lowers its count of locals at the end of a block (parser.cpp:54),
  does not count loop variables, and accepts `(a) = 1` and suffixes after `...`.

Interpreter:
* A call through `__call` with all results kept keeps one (interpreter.cpp:1698),
  `pcall` of a table with `__call` fails, and `OP_CALL` ignores the `LUA_YIELD` of
  `meta_call`.
* Each metamethod call leaves `top` one higher (interpreter.cpp:433). A `__len` that
  is not a function is ignored, and a `__le` that is not a function is passed over
  for `__lt` (interpreter.cpp:1403); the programs of `vm` have no such `__len`, and no
  such `__le` beside a `__lt`.

Coroutines:
* `co_resume` recovers once; a second error in the same resume ends the coroutine
  inside another continued `pcall` (lcorolib.cpp:161).
* With `xpcall`, `NoLostResult` and `CompletesOnlyWhenDone` fail: a message handler
  that `finish_continue_frame` calls may yield (its `xpcall` never delivers) or fail
  (its frames stay). `DepthCounted` fails once the limit is met: `CCallDepth` counts
  before it throws, and the destructor of an object whose constructor threw does not
  run. `dofile`'s continuation catches errors although `dofile` is not protected.
* `lua_pcall` leaves the frames and upvalues of the failed call (state.cpp:168).

Libraries:
* `string.match("abc", "^", 10)` ends in `std::out_of_range` (lstrlib.cpp:758);
  `[a-%]x]` is read differently by the two functions that parse a set; a malformed
  `%f[` does not match instead of failing; `gsub` converts any value its function
  returns (lstrlib.cpp:926).
* `table.remove(t, #t + 1)` does not clear the element when `__len` is defined, and
  `insert` overflows when `__len` is the largest integer (ltablib.cpp:88).

## 7. Plan

1. Proofs: `Vm`, `Lowering`, `LuaSem`, `Parser`, `Sema` and `Pattern` are recursive and
   stay with TLC; the other components' checked invariants are proved (section 4).
2. `Hooks`: re-entrancy of debug hooks, yields and errors inside them.
3. `CApi`: stack windows, `lua_pcall` and the frames it leaves.
4. `Package` (`require`: loaded, searchers, recursion), `Files` (io handles).
5. The round trip of binary chunks; the lexer's numerals and escapes.
