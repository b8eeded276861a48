--------------------------------- MODULE Vm ---------------------------------
(***************************************************************************)
(* The bytecode interpreter on one thread (src/src/vm/interpreter.cpp):    *)
(* the register stack, call frames, open and closed upvalues, the closure  *)
(* cache, metamethods called from the middle of an instruction, protected  *)
(* calls, and what a collection does to the stack.  It runs the code the   *)
(* front end makes of a program and is compared with what LuaSem says the  *)
(* program means.  Both come in as constant operators.                     *)
(*                                                                         *)
(* prog names the program, main is its Proto, pressure says whether there  *)
(* is a collection before every instruction and at every safepoint in one, *)
(* or none at all, steps counts instructions, and vm is the machine: the   *)
(* stack, its top and the base of the C window, the frames, the list of    *)
(* open upvalues, the heap (upvals, closures, tables), the Proto caches,   *)
(* and whether an error is on its way.  A Proto is named by its path, the  *)
(* indices from the main Proto to it; cl = 0 in the frame of a C function. *)
(* Floats and integer wrap-around, lengths and numeric values of strings,  *)
(* yields, hooks, what a collection frees and the cap on frames are left   *)
(* out; Coroutine, Gc and LuaTable model those parts.                      *)
(***************************************************************************)
EXTENDS Bytecode, FiniteSetsExt, LuaValue

CONSTANTS
  Programs,    \* function from names of programs to their syntax trees
  Compile(_),  \* the main Proto load_string makes of a program, or a failed one
  Means(_, _), \* what a tree returns for some arguments: Meaning
  ChunkArgs,   \* values the chunk is called with
  Stressed,    \* programs run under memory pressure too
  STACKSIZE,   \* stack slots of the model
  MAXSTEPS     \* instructions a program may take: one that needs more deadlocks

ASSUME BoundsAssumption == {STACKSIZE, MAXSTEPS} \subseteq Nat \ {0}

MULTRET == -1

VARIABLES prog, main, pressure, steps, vm
vars == <<prog, main, pressure, steps, vm>>

---------------------------------------------------------------------------
\* Frames and registers

Proto(path) == FoldLeft(LAMBDA p, i : p.protos[i + 1], main, path)
ProtoOf(v, cl) == Proto(v.closures[cl].path)

IsC(fr) == fr.cl = 0
Current(v) == v.frames[Len(v.frames)]
Reg(v, r) == v.stack[Current(v).base + r]
SetReg(v, r, x) == [v EXCEPT !.stack[Current(v).base + r] = x]
SkipIf(v, cond) == IF cond THEN [v EXCEPT !.frames[Len(v.frames)].pc = @ + 1] ELSE v
JumpBy(v, offset) == [v EXCEPT !.frames[Len(v.frames)].pc = @ + offset]

\* xs into the slots from at on
Place(stack, at, xs) ==
  [i \in DOMAIN stack |-> IF i \in at..(at + Len(xs) - 1) THEN xs[i - at + 1] ELSE stack[i]]
Nils(n) == [i \in 1..n |-> Nil]
Slice(stack, at, n) == [i \in 1..n |-> stack[at + i - 1]]

\* push_lua_frame: the parameters slide down over the function, the other
\* registers are nil, extra arguments of a vararg function are copied out.
PushLuaFrame(v, cl, func_idx, nargs, nresults) ==
  LET p == ProtoOf(v, cl)
      nfixed == p.numparams
      want == Max2(p.maxstack, nfixed)
      nvar == IF p.is_vararg THEN Max2(nargs - nfixed, 0) ELSE 0
      params == [i \in 1..nfixed |-> IF i <= nargs THEN v.stack[func_idx + i] ELSE Nil]
  IN [v EXCEPT !.stack = Place(@, func_idx, params \o Nils(want - nfixed)),
               !.top = func_idx + want,
               !.frames = Append(@, [cl |-> cl, base |-> func_idx, pc |-> 0,
                                     expected_results |-> nresults,
                                     varargs |-> Slice(v.stack, func_idx + 1 + nfixed, nvar),
                                     pending |-> FALSE, meta_res |-> 0,
                                     le_invert |-> FALSE])]

\* The slots from start on are nil after a collection.  Inside a C call only
\* those below top are kept, otherwise the registers of every Lua frame too.
HighWater(v) ==
  Max({0} \cup {fr.base + ProtoOf(v, fr.cl).maxstack : fr \in {x \in Range(v.frames) : ~IsC(x)}})
\* mutant: the registers of the frames are not looked at
ClearDeadStackAtTop(v) == [v EXCEPT !.stack = Place(@, v.top, Nils(STACKSIZE - v.top))]
ClearDeadStack(v) ==
  LET start == IF v.stack_base # 0 THEN v.top ELSE Max2(v.top, HighWater(v))
  IN [v EXCEPT !.stack = Place(@, start, Nils(STACKSIZE - start))]

GcStep(v) == IF pressure THEN ClearDeadStack(v) ELSE v

\* The end of run_c_call: the results land on the function's slot, what is left
\* of the C window above them is cleared.
EndC(v, func_idx, clear_to, results, nresults) ==
  LET nret == Len(results)
      want == IF nresults = MULTRET THEN nret ELSE nresults
      cleared == Place(Place(v.stack, func_idx, results), func_idx + want,
                       Nils(Max2(clear_to - (func_idx + want), 0)))
  IN [v EXCEPT !.stack = Place(cleared, func_idx + nret, Nils(Max2(want - nret, 0))),
               !.top = func_idx + want]

\* run_c_call of a function that calls nothing.  collectgarbage empties its
\* window first.
RunC(v, name, func_idx, nargs, nresults) ==
  LET r == CFunction(v, name, Slice(v.stack, func_idx + 1, nargs))
      window == [v EXCEPT !.stack_base = func_idx + 1, !.top = func_idx + 1]
      after == IF name = "collectgarbage" THEN [v EXCEPT !.stack = ClearDeadStack(window).stack]
               ELSE r[1]
      clear_to == Max2(v.top, func_idx + 1 + nargs)
  IN IF r[1].err THEN [r[1] EXCEPT !.stack = Place(@, func_idx, Nils(clear_to - func_idx)),
                                   !.top = func_idx]
     ELSE EndC(after, func_idx, clear_to, r[2], nresults)

\* run_c_call of base_pcall, up to the call of its first argument: the C frame
\* stays below what that call does, and the C window opens at its arguments.
RECURSIVE CallClosure(_, _, _, _, _)
CallPcall(v, func_idx, nargs, nresults) ==
  LET f == v.stack[func_idx + 1]
      framed == [v EXCEPT !.stack_base = func_idx + 1,
                          !.frames = Append(@, [cl |-> 0, base |-> func_idx, prev_base |-> v.stack_base,
                                                clear_to |-> Max2(v.top, func_idx + 1 + nargs),
                                                expected_results |-> nresults])]
  IN IF nargs = 0 THEN Err([v EXCEPT !.top = func_idx])
     ELSE IF ~IsFunction(f) THEN Err(framed)
     ELSE CallClosure(framed, f, func_idx + 1, nargs - 1, MULTRET)

CallClosure(v, f, func_idx, nargs, nresults) ==
  CASE f[1] = "fn" -> PushLuaFrame(v, f[2], func_idx, nargs, nresults)
    [] f = <<"c", "pcall">> -> CallPcall(v, func_idx, nargs, nresults)
    [] OTHER -> RunC(v, f[2], func_idx, nargs, nresults)

\* base_pcall leaves with results, and run_c_call ends.
LeavePcall(v, results) ==
  LET fr == Current(v)
  IN EndC([v EXCEPT !.frames = Front(@), !.stack_base = fr.prev_base],
          fr.base, fr.clear_to, results, fr.expected_results)

\* meta_call: __call goes below the called value.
MetaCall(v, func_idx, nargs, nresults) ==
  LET mm == Method(v, v.stack[func_idx], "__call")
      shifted == Place(v.stack, func_idx, <<mm>> \o Slice(v.stack, func_idx, nargs + 1))
  IN IF ~IsFunction(mm) THEN Err(v)
     ELSE CallClosure([v EXCEPT !.stack = shifted, !.top = func_idx + 2 + nargs],
                      mm, func_idx, nargs + 1, nresults)

\* The first slot above top and above the registers of every frame.
\* mutant: top is trusted
LiveRegsTopTrusting(v) == v.top
LiveRegsTop(v) ==
  Max({v.top, HighWater(v)} \cup {fr.base + 1 : fr \in {x \in Range(v.frames) : IsC(x)}})

---------------------------------------------------------------------------
\* Upvalues

\* close_upvals: every open upvalue at or above level keeps its value.
CloseUpvals(v, level) ==
  LET gone == {u \in Range(v.open_upvals) : v.upvals[u].at >= level}
  IN [v EXCEPT !.open_upvals = SelectSeq(@, LAMBDA u : u \notin gone),
               !.upvals = [u \in DOMAIN @ |->
                             IF u \in gone THEN [open |-> FALSE, at |-> -1,
                                                 closed |-> v.stack[@[u].at]]
                             ELSE @[u]]]

\* find_upval: <<v, upvalue>>
FindUpval(v, level) ==
  LET found == SelectSeq(v.open_upvals, LAMBDA u : v.upvals[u].at = level)
      u == Len(v.upvals) + 1
  IN IF found # <<>> THEN <<v, found[1]>>
     ELSE <<[v EXCEPT !.upvals = Append(@, [open |-> TRUE, at |-> level, closed |-> Nil]),
                      !.open_upvals = <<u>> \o @], u>>

GetUpval(v, u) == IF v.upvals[u].open THEN v.stack[v.upvals[u].at] ELSE v.upvals[u].closed
SetUpval(v, u, x) == IF v.upvals[u].open THEN [v EXCEPT !.stack[v.upvals[u].at] = x]
                     ELSE [v EXCEPT !.upvals[u].closed = x]

\* The upvalue d of a Proto names, for a closure made in the current frame.
Captured(v, d) == IF d.instack THEN FindUpval(v, Current(v).base + d.idx)
                  ELSE <<v, v.closures[Current(v).cl].upvals[d.idx + 1]>>

\* getcached: the last closure of the Proto, when every upvalue of it is the
\* one a new closure would get.
Reusable(v, path) ==
  /\ path \in DOMAIN v.cache
  /\ LET have == v.closures[v.cache[path]].upvals
         want == Proto(path).upvalues
     IN \A i \in DOMAIN want :
          IF want[i].instack
          THEN /\ v.upvals[have[i]].open
               /\ v.upvals[have[i]].at = Current(v).base + want[i].idx
          ELSE have[i] = v.closures[Current(v).cl].upvals[want[i].idx + 1]

\* The CLOSURE instruction: <<v, closure>>
MakeClosure(v, path) ==
  LET made == FoldLeft(LAMBDA s, d : LET c == Captured(s[1], d) IN <<c[1], Append(s[2], c[2])>>,
                       <<v, <<>> >>, Proto(path).upvalues)
      cl == Len(v.closures) + 1
      cache == [q \in DOMAIN v.cache \cup {path} |-> IF q = path THEN cl ELSE v.cache[q]]
  IN IF Reusable(v, path) THEN <<v, v.cache[path]>>
     ELSE <<[made[1] EXCEPT !.closures = Append(@, [path |-> path, upvals |-> made[2]]),
                            !.cache = cache], cl>>

---------------------------------------------------------------------------
\* Metamethods called from an instruction

Sets == {"SETTABUP", "SETTABLE", "SETI", "SETFIELD"}
Compares == {"EQ", "LT", "LE"}

\* finish_interrupted_op: the result of the metamethod goes where the
\* instruction before pc wants it.
FinishOp(v) ==
  LET fr == Current(v)
      ins == ProtoOf(v, fr.cl).code[fr.pc]
      res == v.stack[fr.meta_res]
      holds == Truthy(res) # fr.le_invert
      done == [v EXCEPT !.frames[Len(v.frames)].pending = FALSE]
  IN CASE ins[1] \in Compares -> SkipIf([done EXCEPT !.frames[Len(v.frames)].le_invert = FALSE],
                                        holds # (ins[2] # 0))
       [] ins[1] \in Sets -> done
       [] OTHER -> SetReg(done, ins[2], res)

\* invoke_mm: a Lua metamethod gets a frame, and FinishOp is left pending; a C
\* one that calls nothing is run and finished at once.
InvokeMm(v, mm, args, nout) ==
  LET call_base == LiveRegsTop(v)
      ready == [v EXCEPT !.stack = Place(@, call_base, <<mm>> \o args),
                         !.top = call_base + 1 + Len(args),
                         !.frames[Len(v.frames)].pending = TRUE,
                         !.frames[Len(v.frames)].meta_res = call_base]
      called == CallClosure(ready, mm, call_base, Len(args), nout)
  IN IF ~IsFunction(mm) THEN Err(v)
     ELSE IF Len(called.frames) = Len(v.frames) /\ ~called.err THEN FinishOp(called)
     ELSE called

Binary(v, event, x, y) ==
  LET mm == Method(v, x, event)
  IN InvokeMm(v, IF mm # Nil THEN mm ELSE Method(v, y, event), <<x, y>>, 1)

\* index_yieldable, into register dest
RECURSIVE GetIndex(_, _, _, _)
GetIndex(v, t, key, dest) ==
  LET mm == Method(v, t, "__index")
  IN CASE IsTable(t) /\ RawGet(v, t, key) # Nil -> SetReg(v, dest, RawGet(v, t, key))
       [] mm = Nil /\ IsTable(t) /\ RawGet(v, t, key) = Nil -> SetReg(v, dest, Nil)
       [] mm = Nil /\ ~IsTable(t) -> Err(v)
       [] IsFunction(mm) /\ (IsTable(t) => RawGet(v, t, key) = Nil) ->
            InvokeMm(v, mm, <<t, key>>, 1)
       [] OTHER -> GetIndex(v, mm, key, dest)

\* newindex_yieldable
RECURSIVE NewIndex(_, _, _, _)
NewIndex(v, t, key, x) ==
  LET mm == Method(v, t, "__newindex")
      raw == IsTable(t) /\ (RawGet(v, t, key) # Nil \/ mm = Nil)
  IN CASE raw -> RawSet(v, t, key, x)
       [] mm = Nil /\ ~raw -> Err(v)
       [] IsFunction(mm) /\ ~raw -> InvokeMm(v, mm, <<t, key, x>>, 0)
       [] OTHER -> NewIndex(v, mm, key, x)

---------------------------------------------------------------------------
\* One action per instruction

CFrames(v) == {i \in DOMAIN v.frames : IsC(v.frames[i])}
Done == vm.frames = <<>> \/ (vm.err /\ CFrames(vm) = {})

\* The instruction about to run, its operands, and the machine once it is fetched:
\* under pressure there is a collection before it reads a register.
Ins == ProtoOf(vm, Current(vm).cl).code[Current(vm).pc + 1]
A == Ins[2]
B == Ins[3]
C == Ins[4]
Fetched == GcStep(JumpBy(vm, 1))
Step == ~Done /\ steps < MAXSTEPS /\ steps' = steps + 1 /\ UNCHANGED <<prog, main, pressure>>
InLua == ~vm.err /\ ~IsC(Current(vm))
Fetch(ops) == Step /\ InLua /\ ~Current(vm).pending /\ Ins[1] \in ops

KOf(i) == ProtoOf(vm, Current(vm).cl).consts[i + 1]
UpvalOf(i) == vm.closures[Current(vm).cl].upvals[i + 1]
BaseReg == Current(vm).base
RB == Reg(Fetched, B)
RC == Reg(Fetched, C)

Move == Fetch({"MOVE"}) /\ vm' = SetReg(Fetched, A, RB)
LoadNil == Fetch({"LOADNIL"}) /\ vm' = [Fetched EXCEPT !.stack = Place(@, BaseReg + A, Nils(B + 1))]
LoadBool == Fetch({"LOADBOOL"}) /\ vm' = SkipIf(SetReg(Fetched, A, Bool(B # 0)), C # 0)
LoadInt == Fetch({"LOADINT"}) /\ vm' = SetReg(Fetched, A, Num(B))
LoadConstant == Fetch({"LOADK"}) /\ vm' = SetReg(Fetched, A, KOf(B))

GetUp == Fetch({"GETUPVAL"}) /\ vm' = SetReg(Fetched, A, GetUpval(Fetched, UpvalOf(B)))
SetUp == Fetch({"SETUPVAL"}) /\ vm' = SetUpval(Fetched, UpvalOf(B), Reg(Fetched, A))

GetTabUp == Fetch({"GETTABUP"}) /\ vm' = GetIndex(Fetched, GetUpval(Fetched, UpvalOf(B)), KOf(C), A)
GetTable == Fetch({"GETTABLE"}) /\ vm' = GetIndex(Fetched, RB, RC, A)
GetI == Fetch({"GETI"}) /\ vm' = GetIndex(Fetched, RB, Num(C), A)
GetField == Fetch({"GETFIELD"}) /\ vm' = GetIndex(Fetched, RB, KOf(C), A)

SetTabUp == Fetch({"SETTABUP"}) /\ vm' = NewIndex(Fetched, GetUpval(Fetched, UpvalOf(A)), KOf(B), RC)
SetTable == Fetch({"SETTABLE"}) /\ vm' = NewIndex(Fetched, Reg(Fetched, A), RB, RC)
SetI == Fetch({"SETI"}) /\ vm' = NewIndex(Fetched, Reg(Fetched, A), Num(B), RC)
SetField == Fetch({"SETFIELD"}) /\ vm' = NewIndex(Fetched, Reg(Fetched, A), KOf(B), RC)

NewTab == Fetch({"NEWTABLE"}) /\ LET n == NewTable(Fetched) IN vm' = GcStep(SetReg(n[1], A, n[2]))

Self == Fetch({"SELF"}) /\ vm' = GetIndex(SetReg(Fetched, A + 1, RB), RB, RC, A)

OpOf == [m \in {"ADD", "SUB", "MUL"} |-> CASE m = "ADD" -> "+" [] m = "SUB" -> "-" [] OTHER -> "*"]

Arith ==
  /\ Fetch(DOMAIN OpOf)
  /\ vm' = IF RB[1] = "int" /\ RC[1] = "int"
           THEN SetReg(Fetched, A, Num(Arith2(OpOf[Ins[1]], RB[2], RC[2])))
           ELSE Binary(Fetched, Event(OpOf[Ins[1]]), RB, RC)

Unm ==
  /\ Fetch({"UNM"})
  /\ vm' = IF RB[1] = "int" THEN SetReg(Fetched, A, Num(-RB[2]))
           ELSE InvokeMm(Fetched, Method(vm, RB, "__unm"), <<RB>>, 1)

Not == Fetch({"NOT"}) /\ vm' = SetReg(Fetched, A, Bool(~Truthy(RB)))

Length ==
  /\ Fetch({"LEN"})
  /\ vm' = IF IsTable(RB) /\ ~IsFunction(Method(vm, RB, "__len"))
           THEN SetReg(Fetched, A, Num(Border(vm, RB)))
           ELSE InvokeMm(Fetched, Method(vm, RB, "__len"), <<RB>>, 1)

\* Lowering only makes concatenations of two registers.
ConcatOp ==
  /\ Fetch({"CONCAT"})
  /\ vm' = IF IsText(RB) /\ IsText(RC)
           THEN SetReg(Fetched, A, <<"str", Text(RB) \o Text(RC)>>)
           ELSE Binary(Fetched, "__concat", RB, RC)

Eq ==
  /\ Fetch({"EQ"})
  /\ LET mm == IF Method(vm, RB, "__eq") # Nil THEN Method(vm, RB, "__eq")
               ELSE Method(vm, RC, "__eq")
     IN vm' = IF IsTable(RB) /\ IsTable(RC) /\ RB # RC /\ IsFunction(mm)
              THEN InvokeMm(Fetched, mm, <<RB, RC>>, 1)
              ELSE SkipIf(Fetched, (RB = RC) # (A # 0))

Lt ==
  /\ Fetch({"LT"})
  /\ vm' = IF RB[1] = "int" /\ RC[1] = "int"
           THEN SkipIf(Fetched, (RB[2] < RC[2]) # (A # 0))
           ELSE Binary(Fetched, "__lt", RB, RC)

\* Without a function for __le,  b <= c  is  not (c < b).
Le ==
  /\ Fetch({"LE"})
  /\ LET no_le == ~IsFunction(IF Method(vm, RB, "__le") # Nil THEN Method(vm, RB, "__le")
                               ELSE Method(vm, RC, "__le"))
     IN vm' = CASE RB[1] = "int" /\ RC[1] = "int" ->
                     SkipIf(Fetched, (RB[2] <= RC[2]) # (A # 0))
                [] no_le /\ ~(RB[1] = "int" /\ RC[1] = "int") ->
                     Binary([Fetched EXCEPT !.frames[Len(vm.frames)].le_invert = TRUE],
                            "__lt", RC, RB)
                [] OTHER -> Binary(Fetched, "__le", RB, RC)

Test == Fetch({"TEST"}) /\ vm' = SkipIf(Fetched, Truthy(Reg(Fetched, A)) # (C # 0))

Jmp ==
  /\ Fetch({"JMP"})
  /\ vm' = GcStep(JumpBy(IF A = 0 THEN Fetched ELSE CloseUpvals(Fetched, BaseReg + A - 1), B))

\* The index register is moved one step back and FORLOOP tests it first.
ForPrep ==
  /\ Fetch({"FORPREP"})
  /\ LET init == Reg(Fetched, A)
         step == Reg(Fetched, A + 2)
     IN vm' = IF \A i \in 0..2 : Reg(Fetched, A + i)[1] = "int"
              THEN JumpBy(SetReg(Fetched, A, Num(init[2] - step[2])), B)
              ELSE Err(Fetched)

ForLoop ==
  /\ Fetch({"FORLOOP"})
  /\ LET limit == Reg(Fetched, A + 1)[2]
         step == Reg(Fetched, A + 2)[2]
         idx == Reg(Fetched, A)[2] + step
         again == IF step > 0 THEN idx <= limit ELSE limit <= idx
         body == JumpBy(SetReg(SetReg(Fetched, A, Num(idx)), A + 3, Num(idx)), B)
     IN vm' = IF again THEN GcStep(body) ELSE Fetched

TForCall ==
  /\ Fetch({"TFORCALL"})
  /\ LET cb == BaseReg + A + 3
         f == Reg(Fetched, A)
         ready == [Fetched EXCEPT !.stack = Place(@, cb, Slice(@, BaseReg + A, 3)),
                                  !.top = cb + 3]
     IN vm' = IF IsFunction(f) THEN CallClosure(ready, f, cb, 2, C)
              ELSE MetaCall(ready, cb, 2, C)

TForLoop ==
  /\ Fetch({"TFORLOOP"})
  /\ LET ctl == Reg(Fetched, A + 1)
     IN vm' = IF ctl # Nil THEN GcStep(JumpBy(SetReg(Fetched, A, ctl), B)) ELSE Fetched

SetListOp ==
  /\ Fetch({"SETLIST"})
  /\ LET n == IF B = 0 THEN vm.top - (BaseReg + A) - 1 ELSE B
         put[i \in 0..n] == IF i = 0 THEN Fetched
                            ELSE RawSet(put[i - 1], Reg(Fetched, A), Num((C - 1) * FIELDS + i),
                                        Reg(Fetched, A + i))
     IN vm' = put[n]

ClosureOp ==
  /\ Fetch({"CLOSURE"})
  /\ LET made == MakeClosure(Fetched, Append(vm.closures[Current(vm).cl].path, B))
         reused == Len(made[1].closures) = Len(vm.closures)
         stored == SetReg(made[1], A, <<"fn", made[2]>>)
     IN vm' = IF reused THEN stored ELSE GcStep(stored)

VarargOp ==
  /\ Fetch({"VARARG"})
  /\ LET va == Current(vm).varargs
         nwant == IF B = 0 THEN Len(va) ELSE B - 1
     IN vm' = [Fetched EXCEPT !.stack = Place(@, BaseReg + A, [i \in 1..nwant |-> Nth(va, i)]),
                              !.top = IF B = 0 THEN BaseReg + A + nwant ELSE @]

\* B = 0: the arguments end at top.
NArgs == IF B = 0 THEN Max2(vm.top - (BaseReg + A) - 1, 0) ELSE B - 1

CallOp ==
  /\ Fetch({"CALL"})
  /\ LET cb == BaseReg + A
         collected == GcStep(Fetched)
         f == Reg(collected, A)
         ready == [collected EXCEPT !.top = cb + 1 + NArgs]
     IN vm' = IF IsFunction(f) THEN CallClosure(ready, f, cb, NArgs, C - 1)
              ELSE MetaCall(ready, cb, NArgs, IF C = 0 THEN 1 ELSE C - 1)

\* Upvalues are closed before the callee slides over the caller's registers.
TailCallOp ==
  /\ Fetch({"TAILCALL"})
  /\ LET collected == GcStep(Fetched)
         f == Reg(collected, A)
         want == Current(vm).expected_results
         moved == Slice(collected.stack, BaseReg + A, NArgs + 1)
         closed == CloseUpvals(collected, BaseReg)
         ready == [closed EXCEPT !.stack = Place(Place(@, LiveRegsTop(vm), moved), BaseReg, moved),
                                 !.top = BaseReg + 1 + NArgs,
                                 !.frames = Front(@)]
     IN vm' = IF IsFunction(f) THEN CallClosure(ready, f, BaseReg, NArgs, want)
              ELSE MetaCall(ready, BaseReg, NArgs, IF want = MULTRET THEN 1 ELSE want)

ReturnOp ==
  /\ Fetch({"RETURN"})
  /\ LET nret == IF B = 0 THEN Max2(vm.top - (BaseReg + A), 0) ELSE B - 1
         want == Current(vm).expected_results
         placed == IF want = MULTRET THEN nret ELSE want
         collected == GcStep(Fetched)
         closed == CloseUpvals(collected, BaseReg)
         results == Slice(collected.stack, BaseReg + A, nret)
     IN vm' = [closed EXCEPT !.stack = Place(@, BaseReg, results \o Nils(Max2(placed - nret, 0))),
                             !.top = BaseReg + placed,
                             !.frames = Front(@)]

\* A metamethod returned to the frame it interrupted.
Finish == Step /\ InLua /\ Current(vm).pending /\ vm' = FinishOp(vm)

\* What base_pcall called has returned: its results are the C window.
EndPcall ==
  /\ Step /\ ~vm.err /\ IsC(Current(vm))
  /\ vm' = LeavePcall(vm, <<Bool(TRUE)>> \o Slice(vm.stack, vm.stack_base, vm.top - vm.stack_base))

\* base_pcall catches the error: it drops the frames above its own and closes
\* their upvalues.
\* mutant: the upvalues stay open
UnwoundOpen(v) == [v EXCEPT !.frames = SubSeq(@, 1, Max(CFrames(v))), !.err = FALSE]
Unwound(v) ==
  LET own == Max(CFrames(v))
      closed == IF own = Len(v.frames) THEN v ELSE CloseUpvals(v, v.frames[own + 1].base)
  IN [closed EXCEPT !.frames = SubSeq(@, 1, own), !.err = FALSE]

Catch ==
  /\ Step /\ vm.err
  /\ vm' = LeavePcall(Unwound(vm), <<Bool(FALSE), Message>>)

Halted == Done /\ UNCHANGED vars

\* load_string, then a call of the chunk with every result kept.
Init ==
  /\ prog \in DOMAIN Programs
  /\ main = Compile(Programs[prog])
  /\ pressure \in BOOLEAN /\ (pressure => prog \in Stressed)
  /\ steps = 0
  /\ LET empty == [stack |-> [i \in 0..(STACKSIZE - 1) |-> Nil], top |-> 0, stack_base |-> 0,
                   frames |-> <<>>, open_upvals |-> <<>>,
                   upvals |-> <<[open |-> FALSE, at |-> -1, closed |-> <<"tab", 1>>]>>,
                   closures |-> <<[path |-> <<>>, upvals |-> <<1>>]>>, cache |-> <<>>,
                   tables |-> <<[fields |-> Globals, mt |-> 0]>>, err |-> main.failed]
         n == Len(ChunkArgs)
     IN vm = PushLuaFrame([empty EXCEPT !.stack = Place(@, 0, <<<<"fn", 1>>>> \o ChunkArgs),
                                        !.top = n + 1], 1, 0, n, MULTRET)

Next ==
  \/ Move \/ LoadNil \/ LoadBool \/ LoadInt \/ LoadConstant \/ GetUp \/ SetUp
  \/ GetTabUp \/ GetTable \/ GetI \/ GetField
  \/ SetTabUp \/ SetTable \/ SetI \/ SetField \/ NewTab \/ Self \/ Arith \/ Unm \/ Not \/ Length \/ ConcatOp
  \/ Eq \/ Lt \/ Le \/ Test \/ Jmp \/ ForPrep \/ ForLoop \/ TForCall \/ TForLoop
  \/ SetListOp \/ ClosureOp \/ VarargOp \/ CallOp \/ TailCallOp \/ ReturnOp \/ Finish
  \/ EndPcall \/ Catch \/ Halted

Spec == Init /\ [][Next]_vars

---------------------------------------------------------------------------
\* Properties

Outcome == IF vm.err THEN <<"error">>
           ELSE <<"done", [i \in 1..vm.top |-> Seen(vm.stack[i - 1])]>>

\* What the compiled chunk returns, or that it fails, is what the syntax tree
\* means: lowering's register allocation, jump patching, constant operands and
\* closing of upvalues, and the interpreter's calls, returns and metamethods,
\* lose no value, store no value over a live one and run no branch they should
\* not (lower_chunk, interpret).
MeansWhatItSays == Done => Outcome = Means(Programs[prog], ChunkArgs)

\* Slots of the locals of frame fr that are in scope.
InScope(fr) ==
  {fr.base + x.reg : x \in {y \in ProtoOf(vm, fr.cl).locvars :
                              y.startpc <= fr.pc /\ fr.pc <= y.endpc}}

\* An open upvalue refers to a local that is still in scope in some frame: every
\* way out of a block (its end, break, goto, return, a tail call, a new
\* iteration) has closed the upvalues of the block's locals, so no closure sees
\* the next variable that gets the register (close_upvals, the A operand of JMP).
OpenUpvalsInScope ==
  ~vm.err => \A u \in Range(vm.open_upvals) :
               \E i \in DOMAIN vm.frames \ CFrames(vm) : vm.upvals[u].at \in InScope(vm.frames[i])

\* A step never changes a local of a function that is waiting for a call or for
\* a metamethod, unless it assigns to an open upvalue of that local: frames and
\* the temporary slots metamethods are called in lie above every live register
\* (push_lua_frame, live_regs_top, run_c_call).
FramesIsolated ==
  [][LET waiting == IF Len(vm'.frames) > Len(vm.frames) THEN Len(vm.frames)
                    ELSE Min({Len(vm.frames) - 1, Len(vm'.frames)})
         live == UNION {{vm'.frames[i].base + x.reg :
                           x \in {y \in ProtoOf(vm', vm'.frames[i].cl).locvars :
                                    y.startpc < vm'.frames[i].pc /\ vm'.frames[i].pc <= y.endpc}} :
                        i \in (1..waiting) \ CFrames(vm')}
         assigned == IF ~Done /\ InLua /\ Ins[1] = "SETUPVAL" /\ vm.upvals[UpvalOf(B)].open
                     THEN {vm.upvals[UpvalOf(B)].at} ELSE {}
     IN \A i \in live \ assigned : vm'.stack[i] = vm.stack[i]]_vars
=============================================================================
