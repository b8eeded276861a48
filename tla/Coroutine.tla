----------------------------- MODULE Coroutine -----------------------------
(***************************************************************************)
(* Coroutines, protected calls and errors: coroutine.resume / wrap / yield *)
(* (lib/lcorolib.cpp), pcall / xpcall / dofile (lib/lbaselib.cpp), and the *)
(* interpreter's C calls, nested activations and continuation of yielded   *)
(* calls (run_c_call, call_closure, interpret, resume_after_yield in       *)
(* vm/interpreter.cpp).                                                    *)
(*                                                                         *)
(* Two stacks are kept: frames[t], the Lua-visible frames of thread t, and *)
(* `native`, the activations on the C++ stack. A yield and an error unwind *)
(* `native`, one activation per step; a yielded thread keeps its frames    *)
(* and is driven by resume_after_yield when it is resumed.                 *)
(*                                                                         *)
(* Abstracted: values, registers and stack windows (a frame only records   *)
(* whether the call it made has delivered its results), tail calls, the    *)
(* opcodes. "sort" stands for every C function that calls back and is not  *)
(* yieldable; a Lua frame makes any of the modelled calls in any order.    *)
(* Bound: message handlers are Lua functions.                              *)
(***************************************************************************)
EXTENDS Naturals, Sequences, FiniteSets, SequencesExt

CONSTANTS
    Main, Co,    \* the main thread, the coroutines
    Features,    \* what programs use besides resume, yield, pcall and error
    MaxCcalls,   \* LUAI_MAXCCALLS
    ExtraCcalls, \* LUAI_MAXCCALLS >> 3
    MaxFrames,   \* bound, per thread: frames that still make another call
    MaxCount     \* bound: nCcalls of a Lua frame that still exceeds the limit

Thread == {Main} \cup Co

ASSUME CoroutineAssumption ==
    /\ Main \notin Co
    /\ Features \subseteq {"xpcall", "dofile", "sort", "wrap", "call"}
    /\ MaxCcalls \in Nat \ {0} /\ ExtraCcalls \in Nat
    /\ MaxFrames \in [Thread -> Nat] /\ MaxCount \in Nat

VARIABLES
    current,   \* State::current
    status,    \* Thread::status
    frames,    \* Thread::frames
    nny,       \* Thread::nny
    nCcalls,   \* Thread::nCcalls
    native,    \* activations on the C++ stack
    mode       \* how the innermost one goes on: it runs, or its callee has
               \* returned LUA_OK ("ok"), LUA_YIELD ("yield") or thrown ("throw")

vars == <<current, status, frames, nny, nCcalls, native, mode>>

\* wait: the frame has called something that has not delivered its results
Frame(kind, fn) == [kind |-> kind, fn |-> fn, wait |-> FALSE]

\* interpret() on behalf of call_closure ("nested"), of a __call metamethod
\* ("meta") or of resume_after_yield ("drain"); depth is entry_depth
Interp(fn, depth) ==
    [kind |-> "interp", th |-> current, fn |-> fn, depth |-> depth, co |-> Main, pc |-> "loop"]

\* run_c_call of a C function that calls back; depth is the position of its frame
\* or, once co_resume recovers from an error, of the frame that gets the result
CCall(fn, co, pc) ==
    [kind |-> "ccall", th |-> current, fn |-> fn, depth |-> Len(frames[current]) + 1,
     co |-> co, pc |-> pc]

Yieldable == {"pcall", "xpcall", "dofile"}   \* they undo run_c_call's nny++
Protected == {"pcall", "xpcall"}
Resumers  == {"resume", "wrap"}

\* the main chunk is running; co_create has made the coroutines
Init ==
    /\ current = Main
    /\ status = [t \in Thread |-> IF t = Main THEN "Running" ELSE "Fresh"]
    /\ frames = [t \in Thread |-> IF t = Main THEN <<Frame("lua", "lua")>> ELSE <<>>]
    /\ nny = [t \in Thread |-> 0]
    /\ nCcalls = [t \in Thread |-> IF t = Main THEN 1 ELSE 0]
    /\ native = <<Interp("nested", 1)>>
    /\ mode = "run"

-----------------------------------------------------------------------------
Top == Last(native)
Stack == frames[current]
BackIs(kind) == Stack # <<>> /\ Last(Stack).kind = kind

\* the last frame of s starts to wait, or gets its results
Waiting(s, b) == IF s = <<>> THEN s ELSE [s EXCEPT ![Len(s)].wait = b]
Pushed(s, f) == Append(Waiting(s, TRUE), f)
Returned(s) == IF s = <<>> THEN s ELSE Waiting(Front(s), FALSE)
Cut(s, n) == SubSeq(s, 1, IF n < Len(s) THEN n ELSE Len(s))
Delivered(s, n) == IF n \in DOMAIN s THEN [s EXCEPT ![n].wait = FALSE] ELSE s

\* CCallDepth: its constructor counts first and throws afterwards
Overflows ==
    LET n == nCcalls[current] + 1
    IN  n = MaxCcalls \/ n >= MaxCcalls + ExtraCcalls
Deeper == [nCcalls EXCEPT ![current] = @ + 1]
Less(n) == IF n > 0 THEN n - 1 ELSE 0
Shallower == [nCcalls EXCEPT ![current] = Less(@)]

\* what the innermost activation does when its callee returns LUA_OK
Landed(nat) == IF nat # <<>> /\ Last(nat).kind = "interp" THEN "run" ELSE "ok"

\* a Lua frame executes, or a C function calls a function it was given
LuaRuns ==
    /\ mode = "run" /\ native # <<>> /\ Top.kind = "interp"
    /\ Len(Stack) >= Top.depth /\ BackIs("lua")
CBody ==
    mode = "run" /\ native # <<>> /\ Top.kind = "ccall"
                 /\ Top.pc \in {"call", "handler", "first", "rehandler"}
Calls == TRUE \in {LuaRuns, CBody}
Room == Len(Stack) < MaxFrames[current]

LuaFrame == Frame("lua", IF CBody /\ Top.pc = "rehandler" THEN "handler" ELSE "lua")

-----------------------------------------------------------------------------
(* Calls *)

\* OP_CALL of a Lua function: push_lua_frame in the same interpret()
CallLua ==
    /\ LuaRuns /\ Room
    /\ frames' = [frames EXCEPT ![current] = Pushed(@, Frame("lua", "lua"))]
    /\ UNCHANGED <<current, status, nny, nCcalls, native, mode>>

\* call_closure of a Lua function: by a C function, or by meta_call
CallClosure ==
    /\ Calls /\ ~Overflows /\ (LuaRuns => Room /\ "call" \in Features)
    /\ frames' = [frames EXCEPT ![current] = Pushed(@, LuaFrame)]
    /\ native' = Append(native, Interp(IF CBody THEN "nested" ELSE "meta", Len(Stack) + 1))
    /\ nCcalls' = Deeper
    /\ UNCHANGED <<current, status, nny, mode>>

\* any call of a C function or from one, at the depth limit
CallOverflow ==
    /\ Calls /\ Overflows /\ (LuaRuns => nCcalls[current] < MaxCount)
    /\ nCcalls' = Deeper
    /\ mode' = "throw"
    /\ UNCHANGED <<current, status, frames, nny, native>>

\* RETURN; the loop leaves interpret() when it finds no Lua frame of its own
ReturnLua ==
    /\ LuaRuns
    /\ frames' = [frames EXCEPT ![current] =
                     IF Last(@).fn = "handler" THEN Front(@) ELSE Returned(@)]
    /\ UNCHANGED <<current, status, nny, nCcalls, native, mode>>

LeaveInterp ==
    /\ mode = "run" /\ native # <<>> /\ Top.kind = "interp" /\ ~LuaRuns
    /\ native' = Front(native)
    /\ nCcalls' = IF Top.fn = "drain" THEN nCcalls ELSE Shallower
    /\ mode' = Landed(Front(native))
    /\ UNCHANGED <<current, status, frames, nny>>

\* mutant: pcall does not undo run_c_call's nny++
CallCNoUndo(fn) ==
    /\ Calls /\ Room /\ ~Overflows
    /\ frames' = [frames EXCEPT ![current] = Pushed(@, Frame("capi", fn))]
    /\ nny' = [nny EXCEPT ![current] = @ + 1]
    /\ nCcalls' = Deeper
    /\ native' = Append(native, CCall(fn, Main, "call"))
    /\ UNCHANGED <<current, status, mode>>

\* run_c_call of pcall, xpcall, dofile or a function that is not yieldable
CallC(fn) ==
    /\ Calls /\ Room /\ ~Overflows
    /\ frames' = [frames EXCEPT ![current] = Pushed(@, Frame("capi", fn))]
    /\ nny' = [nny EXCEPT ![current] = IF fn \in Yieldable THEN @ ELSE @ + 1]
    /\ nCcalls' = Deeper
    /\ native' = Append(native, CCall(fn, Main, "call"))
    /\ UNCHANGED <<current, status, mode>>

\* a C function throws: run_c_call drops its frame, but keeps it on a coroutine
ThrownBy(fn) ==
    /\ frames' = IF current = Main THEN frames
                 ELSE [frames EXCEPT ![current] = Pushed(@, Frame("capi", fn))]
    /\ mode' = "throw"
    /\ UNCHANGED <<current, status, nny, nCcalls, native>>

CallError == Calls /\ ~Overflows /\ ThrownBy("error")

\* an opcode fails: no C frame
LuaError ==
    /\ LuaRuns
    /\ mode' = "throw"
    /\ UNCHANGED <<current, status, frames, nny, nCcalls, native>>

\* coroutine.yield: run_c_call keeps its frame and returns LUA_YIELD
CanYield == current # Main /\ nny[current] + 1 <= 1

CallYield ==
    /\ Calls /\ ~Overflows
    /\ IF CanYield
       THEN /\ frames' = [frames EXCEPT ![current] = Pushed(@, Frame("capi", "yield"))]
            /\ status' = [status EXCEPT ![current] = "Suspended"]
            /\ mode' = "yield"
            /\ UNCHANGED <<current, nny, nCcalls, native>>
       ELSE ThrownBy("yield")

-----------------------------------------------------------------------------
(* coroutine.resume and coroutine.wrap *)

\* nCcalls of the caller, run_c_call of resume included, plus one
InheritedLess == nCcalls[current] + 1     \* mutant: resume itself is not counted
Inherited == nCcalls[current] + 2
\* mutant: a coroutine that has resumed another is resumed
ResumableNormal(co) == status[co] \notin {"Dead"} /\ Inherited < MaxCcalls
Resumable(co) == status[co] \in {"Fresh", "Suspended"} /\ Inherited < MaxCcalls

\* the yielded C call is finished: its frame goes, the values reach its caller
\* mutant: the values passed to resume are not written
ResumedNoValues(s) == IF s # <<>> /\ Last(s).kind = "capi" THEN Front(s) ELSE s
Resumed(s) ==
    IF s # <<>> /\ Last(s).kind = "capi" THEN Returned(s) ELSE Waiting(s, FALSE)

CallResume(fn, co) ==
    /\ Calls /\ Room /\ ~Overflows /\ Resumable(co)
    /\ nny' = [nny EXCEPT ![current] = @ + 1]
    /\ nCcalls' = [Deeper EXCEPT ![co] = Inherited]
    /\ status' = [status EXCEPT ![co] = "Running"]
    /\ LET caller == [frames EXCEPT ![current] = Pushed(@, Frame("capi", fn))]
       IN  frames' = IF status[co] = "Fresh" THEN [caller EXCEPT ![co] = <<>>]
                     ELSE [caller EXCEPT ![co] = Resumed(@)]
    /\ native' = Append(native,
                        CCall(fn, co, IF status[co] = "Fresh" THEN "first" ELSE "drain"))
    /\ current' = co
    /\ UNCHANGED mode

\* resume returns false and a message; wrap turns that into an error
RefuseWrap(co) == Calls /\ ~Overflows /\ ~Resumable(co) /\ ThrownBy("wrap")

\* one turn of resume_after_yield's loop: finish a continued call, or run Lua
Draining == mode = "run" /\ native # <<>> /\ Top.kind = "ccall"
                         /\ Top.pc \in {"drain", "redrain"}

FinishContinue ==
    /\ Draining /\ BackIs("continue")
    /\ frames' = [frames EXCEPT ![current] = Returned(@)]
    /\ UNCHANGED <<current, status, nny, nCcalls, native, mode>>

RunResumed ==
    /\ Draining /\ ~BackIs("continue")
    /\ IF BackIs("lua")
       THEN /\ native' = Append(native, Interp("drain", 1))
            /\ UNCHANGED mode
       ELSE /\ mode' = "ok"
            /\ UNCHANGED native
    /\ UNCHANGED <<current, status, frames, nny, nCcalls>>

\* co_resume is done: ResumeCcalls and CCallDepth count down, `current` is the
\* resumer again, and run_c_call returns; wrap throws on failure
Resumer(ok) ==
    LET from == Top.th
        threw == Top.fn = "wrap" /\ ~ok
        left == [nCcalls EXCEPT ![Top.co] = Less(@)]
    IN  /\ current' = from
        /\ nny' = [nny EXCEPT ![from] = @ - 1]
        /\ nCcalls' = [left EXCEPT ![from] = Less(@)]
        /\ frames' = IF threw /\ from # Main THEN frames
                     ELSE [frames EXCEPT ![from] = IF threw THEN Front(@) ELSE Returned(@)]
        /\ native' = Front(native)
        /\ mode' = IF threw THEN "throw" ELSE Landed(Front(native))

InResume == native # <<>> /\ Top.kind = "ccall" /\ Top.fn \in Resumers

\* resume_after_yield goes on when interpret() stopped at a continued call, and
\* after the message handler; otherwise the coroutine has finished
GoesOnNot == FALSE     \* mutant: the loop is left at the first continued call
GoesOn ==
    \/ Top.pc = "rehandler"
    \/ Top.pc \in {"drain", "redrain"} /\ BackIs("continue")

ResumeGoesOn ==
    /\ mode = "ok" /\ InResume /\ GoesOn
    /\ frames' = [frames EXCEPT ![current] =
                     IF Top.pc = "rehandler" THEN Delivered(@, Top.depth) ELSE @]
    /\ native' = [native EXCEPT ![Len(native)].pc =
                     IF Top.pc = "rehandler" THEN "redrain" ELSE @]
    /\ mode' = "run"
    /\ UNCHANGED <<current, status, nny, nCcalls>>

ResumeEnds ==
    /\ mode = "ok" /\ InResume /\ ~GoesOn
    /\ status' = [status EXCEPT ![Top.co] = "Dead"]
    /\ Resumer(TRUE)

ResumeYields ==
    /\ mode = "yield" /\ InResume
    /\ status' = [status EXCEPT ![Top.co] = "Suspended"]
    /\ Resumer(TRUE)

\* co_resume catches an error: the first one unwinds to the innermost continued
\* call, which returns false (xpcall after its handler); any other is fatal
Continues(s) == {i \in DOMAIN s : s[i].kind = "continue"}
\* mutant: the first continued call found from the bottom
Outermost(s) == CHOOSE i \in Continues(s) : \A j \in Continues(s) : i <= j
Innermost(s) == CHOOSE i \in Continues(s) : \A j \in Continues(s) : j <= i
Recovers == Top.pc \in {"first", "drain"} /\ Continues(frames[Top.co]) # {}

ResumeRecovers ==
    /\ mode = "throw" /\ InResume /\ Recovers
    /\ LET s == frames[Top.co]
           i == Innermost(s)
           handler == s[i].fn = "xpcall"
       IN  /\ frames' = [frames EXCEPT ![Top.co] =
                            IF handler THEN Cut(s, i - 1) ELSE Returned(Cut(s, i))]
           /\ native' = [native EXCEPT ![Len(native)].depth = i - 1,
                            ![Len(native)].pc = IF handler THEN "rehandler" ELSE "redrain"]
    /\ mode' = "run"
    /\ UNCHANGED <<current, status, nny, nCcalls>>

\* the handler called by finish_continue_frame fails: the frames it left stay
HandlerFails ==
    /\ mode = "throw" /\ InResume /\ Top.pc = "rehandler"
    /\ frames' = [frames EXCEPT ![current] = Delivered(@, Top.depth)]
    /\ native' = [native EXCEPT ![Len(native)].pc = "redrain"]
    /\ mode' = "run"
    /\ UNCHANGED <<current, status, nny, nCcalls>>

ResumeFails ==
    /\ mode = "throw" /\ InResume /\ ~Recovers /\ Top.pc # "rehandler"
    /\ status' = [status EXCEPT ![Top.co] = "Dead"]
    /\ Resumer(FALSE)

-----------------------------------------------------------------------------
(* Returning, yielding and throwing through the other activations *)

InC(fns) == native # <<>> /\ Top.kind = "ccall" /\ Top.fn \in fns
Counted == IF Top.fn \notin Yieldable \/ Top.pc = "handler" THEN 1 ELSE 0

\* the callee of a C function returned; a C function that is not yieldable does
\* not look at the status
ReturnC ==
    /\ InC(Yieldable \cup {"sort"})
    /\ mode \in IF Top.fn = "sort" THEN {"ok", "yield"} ELSE {"ok"}
    /\ frames' = [frames EXCEPT ![current] = Returned(@)]
    /\ nny' = [nny EXCEPT ![current] = @ - Counted]
    /\ nCcalls' = Shallower
    /\ native' = Front(native)
    /\ mode' = Landed(Front(native))
    /\ UNCHANGED <<current, status>>

\* propagate_yieldable: the C frame stays, as a continuation
YieldC ==
    /\ mode = "yield" /\ InC(Yieldable)
    /\ frames' = [frames EXCEPT ![current][Top.depth].kind = "continue"]
    /\ nCcalls' = Shallower
    /\ native' = Front(native)
    /\ UNCHANGED <<current, status, nny, mode>>

\* interpret() returns LUA_YIELD; OP_CALL ignores what meta_call returns
YieldInterp ==
    /\ mode = "yield" /\ native # <<>> /\ Top.kind = "interp"
    /\ native' = Front(native)
    /\ nCcalls' = IF Top.fn = "drain" THEN nCcalls ELSE Shallower
    /\ mode' = IF Top.fn = "meta" THEN "run" ELSE "yield"
    /\ UNCHANGED <<current, status, frames, nny>>

\* interpret() does not catch
ThrowInterp ==
    /\ mode = "throw" /\ native # <<>> /\ Top.kind = "interp"
    /\ native' = Front(native)
    /\ nCcalls' = IF Top.fn = "drain" THEN nCcalls ELSE Shallower
    /\ UNCHANGED <<current, status, frames, nny, mode>>

\* run_c_call's handler: it throws again, and on the main thread pops a frame
ThrowC ==
    /\ mode = "throw" /\ InC({"sort", "dofile"})
    /\ frames' = IF current # Main \/ Stack = <<>> THEN frames
                 ELSE [frames EXCEPT ![current] = Front(@)]
    /\ nny' = [nny EXCEPT ![current] = @ - Counted]
    /\ nCcalls' = Shallower
    /\ native' = Front(native)
    /\ UNCHANGED <<current, status, mode>>

\* pcall, or xpcall whose handler has failed: frames back to protect_frames, then
\* false and the message are returned
CatchC ==
    /\ mode = "throw" /\ InC(Protected) /\ (Top.fn = "xpcall" => Top.pc = "handler")
    /\ frames' = [frames EXCEPT ![current] = Returned(Cut(@, Top.depth))]
    /\ nny' = [nny EXCEPT ![current] = @ - Counted]
    /\ nCcalls' = Shallower
    /\ native' = Front(native)
    /\ mode' = Landed(Front(native))
    /\ UNCHANGED <<current, status>>

\* xpcall calls the message handler, not yieldable any more
CallHandler ==
    /\ mode = "throw" /\ InC({"xpcall"}) /\ Top.pc = "call"
    /\ frames' = [frames EXCEPT ![current] = Cut(@, Top.depth)]
    /\ nny' = [nny EXCEPT ![current] = @ + 1]
    /\ native' = [native EXCEPT ![Len(native)].pc = "handler"]
    /\ mode' = "run"
    /\ UNCHANGED <<current, status, nCcalls>>

\* the main chunk has returned or failed
Exit == native = <<>> /\ UNCHANGED vars

Next ==
    \/ CallLua \/ CallClosure \/ CallOverflow \/ ReturnLua \/ LeaveInterp
    \/ \E fn \in {"pcall"} \cup (Features \cap {"xpcall", "dofile", "sort"}) : CallC(fn)
    \/ CallError \/ LuaError \/ CallYield
    \/ \E fn \in {"resume"} \cup (Features \cap {"wrap"}), co \in Co : CallResume(fn, co)
    \/ \E co \in Co : "wrap" \in Features /\ RefuseWrap(co)
    \/ FinishContinue \/ RunResumed \/ ResumeGoesOn \/ ResumeEnds \/ ResumeYields
    \/ ResumeRecovers \/ HandlerFails \/ ResumeFails
    \/ ReturnC \/ YieldC \/ YieldInterp \/ ThrowInterp \/ ThrowC \/ CatchC \/ CallHandler
    \/ Exit

Spec == Init /\ [][Next]_vars

-----------------------------------------------------------------------------
(* Properties *)

FrameSet == [kind : {"lua", "capi", "continue"},
             fn : Yieldable \cup Resumers \cup {"lua", "handler", "sort", "error", "yield"},
             wait : BOOLEAN]
Activation == [kind : {"interp", "ccall"}, th : Thread, co : Thread, depth : Nat,
               fn : Yieldable \cup Resumers \cup {"nested", "meta", "drain", "sort"},
               pc : {"loop", "call", "handler", "first", "drain", "redrain", "rehandler"}]

\* every variable has its type
TypeOK ==
    /\ current \in Thread
    /\ status \in [Thread -> {"Fresh", "Running", "Suspended", "Dead"}]
    /\ frames \in [Thread -> Seq(FrameSet)]
    /\ nny \in [Thread -> Nat] /\ nCcalls \in [Thread -> Nat]
    /\ native \in Seq(Activation)
    /\ mode \in {"run", "ok", "yield", "throw"}

\* nny counts the C calls of a thread that are on the C++ stack and cannot yield,
\* whichever way calls were left: a suspended or dead coroutine has none, so it
\* is never refused a yield because of an error or a yield that came before
NnyBalanced ==
    \A t \in Thread :
        nny[t] = Cardinality({i \in DOMAIN native :
                    /\ native[i].kind = "ccall" /\ native[i].th = t
                    /\ native[i].fn \notin Yieldable \/ native[i].pc = "handler"})

\* coroutine.status: exactly the threads on the chain of resumes are running or
\* normal, each of them once, and the last one is `current`
Resumes == {i \in DOMAIN native : native[i].fn \in Resumers}
StatusMatchesChain ==
    /\ current = IF Resumes = {} THEN Main ELSE native[Max(Resumes)].co
    /\ \A i, j \in Resumes : native[i].co # Main /\ (native[i].co = native[j].co => i = j)
    /\ \A t \in Thread :
          t = Main \/ (\E i \in Resumes : native[i].co = t)
             <=> status[t] = "Running" \/ (mode = "yield" /\ t = current)

\* nCcalls of the running thread is the depth of the C++ stack (state.hpp: "Nested
\* C-call / resume depth"), so the limit is met neither early nor late
DepthCounted ==
    nCcalls[current] =
        Cardinality({i \in DOMAIN native : native[i].fn # "drain"})
        + Cardinality({i \in DOMAIN native : native[i].fn \in Resumers})

\* a Lua frame goes on only after the call it made has delivered its results
NoLostResult == LuaRuns => ~Last(Stack).wait

\* a coroutine ends normally only when it has no frame left to run
CompletesOnlyWhenDone ==
    [][\A t \in Co : status[t] # "Dead" /\ status'[t] = "Dead" /\ mode = "ok"
                       => frames[t] = <<>>]_vars

\* the protected calls a thread is in
Boundaries(t) == {i \in DOMAIN frames[t] : frames[t][i].fn \in Protected}

\* no step takes away two protected calls, and an error ends a coroutine only if
\* it is inside none
Stops ==
    /\ \A t \in Thread : Cardinality(Boundaries(t)) - Cardinality(Boundaries(t)') <= 1
    /\ \A t \in Co : status[t] # "Dead" /\ status'[t] = "Dead" => Boundaries(t) = {}

\* an error stops at the innermost protected call (co_resume, resume_after_yield,
\* base_pcall; frame-model.md: "Stop at protected boundary; return status to
\* caller"), unless an earlier error was caught by a continued call during the same
\* resume: the second one then ends the coroutine whatever protects it
FirstErrorStops ==
    [][mode = "throw" /\ ~(InResume /\ Top.pc \in {"redrain", "rehandler"}) => Stops]_vars

=============================================================================
