------------------------ MODULE CoroutineFrameProofs ------------------------
(***************************************************************************)
(* Proofs about the frames of the threads of module Coroutine. Results are *)
(* delivered in every program without xpcall: a handler that fails after a *)
(* yield leaves the frame of its xpcall waiting. That completion is right  *)
(* is proved of programs that also call no value through __call: OP_CALL   *)
(* goes on when such a call yields, and the frames it leaves behind belong *)
(* to no activation of the C++ stack.                                      *)
(***************************************************************************)
EXTENDS CoroutineProofs

\* the programs of the last theorem
PlainFeatures == {"xpcall", "call"} \cap Features = {}

-----------------------------------------------------------------------------
(* What the operations on frames do *)

\* the same call, whether or not its results have been delivered
Alike(f, g) == f.kind = g.kind /\ f.fn = g.fn
SameBelow(g, s, n) == \A p \in 1..n : Alike(g[p], s[p])
Delivers(s) == s # <<>> => ~Last(s).wait

\* The last frame starts to wait, or gets its results.
LEMMA WaitingFacts ==
    ASSUME NEW s \in Seq(FrameSet), NEW b \in BOOLEAN
    PROVE  /\ Waiting(s, b) \in Seq(FrameSet) /\ Len(Waiting(s, b)) = Len(s)
           /\ SameBelow(Waiting(s, b), s, Len(s))
           /\ Waiting(s, b) # <<>> => s # <<>> /\ Last(Waiting(s, b)).wait = b
<1>1. Waiting(s, b) \in Seq(FrameSet) /\ Len(s) \in Nat
  <2>1. Waiting(s, b) \in Seq(FrameSet)
    BY FrameOps
  <2> QED BY <2>1
<1>2. CASE s = <<>>
  BY <1>1, <1>2 DEF Waiting, SameBelow, Alike
<1>3. CASE s # <<>>
  <2> DEFINE n == Len(s)  f == [s[n] EXCEPT !.wait = b]
  <2>1. n \in Nat \ {0} /\ s[n] \in FrameSet
    BY <1>3, FrontFacts DEF Last
  <2>2. f \in FrameSet /\ Alike(f, s[n]) /\ f.wait = b
    BY <2>1 DEF FrameSet, Alike
  <2> DEFINE g == Waiting(s, b)
  <2>3. g = [s EXCEPT ![Len(s)] = f]
    BY <1>3 DEF Waiting
  <2> HIDE DEF f, g, FrameSet
  <2>4. Last(g) = f /\ Len(g) = n /\ \A i \in 1..(n - 1) : g[i] = s[i]
    <3>1. f \in FrameSet /\ n \in 1..n
      BY <2>1, <2>2
    <3> HIDE DEF n
    <3>2. Len(g) = n /\ \A i \in 1..n : g[i] = IF i = n THEN f ELSE s[i]
      BY <1>3, <2>3, <3>1, ExceptSeq DEF n
    <3> QED BY <2>1, <3>1, <3>2 DEF Last
  <2>5. g[n] = f
    BY <2>4 DEF Last
  <2>6. \A p \in 1..n : p = n \/ p \in 1..(n - 1)
    BY <2>1
  <2> QED BY <1>1, <1>3, <2>2, <2>4, <2>5, <2>6 DEF SameBelow, Alike, g
<1> QED BY <1>2, <1>3

\* A call: the caller waits, the callee does not.
LEMMA PushedFacts ==
    ASSUME NEW s \in Seq(FrameSet), NEW f \in FrameSet
    PROVE  /\ Pushed(s, f) \in Seq(FrameSet) /\ Pushed(s, f) # <<>>
           /\ Len(s) \in Nat /\ Len(Pushed(s, f)) = Len(s) + 1
           /\ SameBelow(Pushed(s, f), s, Len(s))
           /\ Last(Pushed(s, f)) = f /\ Pushed(s, f)[Len(s) + 1] = f
<1> DEFINE w == Waiting(s, TRUE)
<1>1. w \in Seq(FrameSet) /\ Len(w) = Len(s) /\ SameBelow(w, s, Len(s))
  BY WaitingFacts
<1> HIDE DEF w, FrameSet
<1>2. /\ Append(w, f) \in Seq(FrameSet) /\ Append(w, f) # <<>> /\ Last(Append(w, f)) = f
      /\ Len(w) \in Nat /\ Len(Append(w, f)) = Len(w) + 1
      /\ \A i \in 1..Len(w) : Append(w, f)[i] = w[i]
  BY <1>1, AppendFacts
<1>3. Append(w, f)[Len(w) + 1] = f
  BY <1>2 DEF Last
<1>4. Pushed(s, f) = Append(w, f)
  BY DEF Pushed, w
<1> QED BY <1>1, <1>2, <1>3, <1>4 DEF SameBelow

\* A return: the last frame goes, and its caller has the results.
LEMMA ReturnedFacts ==
    ASSUME NEW s \in Seq(FrameSet)
    PROVE  /\ Returned(s) \in Seq(FrameSet) /\ Delivers(Returned(s))
           /\ s = <<>> => Returned(s) = <<>>
           /\ s # <<>> => /\ Len(s) \in Nat \ {0} /\ Len(Returned(s)) = Len(s) - 1
                          /\ SameBelow(Returned(s), s, Len(s) - 1)
<1>1. CASE s = <<>>
  BY <1>1, EmptySeq DEF Returned, Delivers
<1>2. CASE s # <<>>
  <2> DEFINE g == Front(s)
  <2>1. /\ g \in Seq(FrameSet) /\ Len(s) \in Nat \ {0} /\ Len(g) = Len(s) - 1
        /\ \A i \in 1..(Len(s) - 1) : g[i] = s[i]
    BY <1>2, FrontFacts
  <2>2. Returned(s) = Waiting(g, FALSE)
    BY <1>2 DEF Returned
  <2> HIDE DEF g, FrameSet
  <2>3. /\ Waiting(g, FALSE) \in Seq(FrameSet) /\ Len(Waiting(g, FALSE)) = Len(g)
        /\ SameBelow(Waiting(g, FALSE), g, Len(g))
        /\ Waiting(g, FALSE) # <<>> => Last(Waiting(g, FALSE)).wait = FALSE
    BY <2>1, WaitingFacts
  <2> QED BY <1>2, <2>1, <2>2, <2>3 DEF SameBelow, Delivers
<1> QED BY <1>1, <1>2

\* An error cuts the frames off above a protected call.
LEMMA CutFacts ==
    ASSUME NEW s \in Seq(FrameSet), NEW n \in Nat
    PROVE  /\ Cut(s, n) \in Seq(FrameSet)
           /\ Len(Cut(s, n)) = IF n < Len(s) THEN n ELSE Len(s)
           /\ \A p \in 1..Len(Cut(s, n)) : Cut(s, n)[p] = s[p]
<1> DEFINE m == IF n < Len(s) THEN n ELSE Len(s)
<1>1. m \in Nat /\ m <= Len(s) /\ Len(s) \in Nat /\ Cut(s, n) = SubSeq(s, 1, m)
  BY DEF Cut
<1>2. \A i \in 1..m : s[i] \in FrameSet
  BY <1>1
<1> HIDE DEF m, FrameSet
<1>3. /\ SubSeq(s, 1, m) \in Seq(FrameSet)
      /\ Len(SubSeq(s, 1, m)) = IF 1 <= m THEN m - 1 + 1 ELSE 0
      /\ \A i \in 1..(m - 1 + 1) : SubSeq(s, 1, m)[i] = s[1 + i - 1]
  BY <1>1, <1>2, SubSeqProperties
<1>4. Len(Cut(s, n)) = m /\ \A p \in 1..m : Cut(s, n)[p] = s[p]
  BY <1>1, <1>3
<1> QED BY <1>1, <1>3, <1>4 DEF m

\* The call that has yielded is finished when its coroutine is resumed.
LEMMA ResumedFacts ==
    ASSUME NEW s \in Seq(FrameSet)
    PROVE  Resumed(s) \in Seq(FrameSet) /\ Delivers(Resumed(s))
<1>1. Returned(s) \in Seq(FrameSet) /\ Delivers(Returned(s))
  BY ReturnedFacts
<1>2. Waiting(s, FALSE) \in Seq(FrameSet) /\ Delivers(Waiting(s, FALSE))
  BY WaitingFacts DEF Delivers
<1> QED BY <1>1, <1>2 DEF Resumed

-----------------------------------------------------------------------------
(* No xpcall and no message handler *)

PlainFrame(f) == f.fn \notin {"xpcall", "handler"} /\ (f.kind = "lua" => f.fn = "lua")
PlainStack(s) == \A p \in 1..Len(s) : PlainFrame(s[p])
PlainCall(a) == a.fn # "xpcall" /\ a.pc \notin {"handler", "rehandler"}
PlainFrames(f) == \A t \in Thread : PlainStack(f[t])
PlainCalls(s) == \A i \in 1..Len(s) : PlainCall(s[i])
PlainInv == PlainFrames(frames) /\ PlainCalls(native)

\* the last frame of the running thread has the results of what it has called,
\* unless an error is on its way
WaitsInv == mode # "throw" => Delivers(Stack)

\* No operation on frames brings one.
LEMMA PlainOps ==
    ASSUME NEW s \in Seq(FrameSet), PlainStack(s)
    PROVE  /\ \A f \in FrameSet : PlainFrame(f) => PlainStack(Pushed(s, f))
           /\ PlainStack(Front(s)) /\ PlainStack(Returned(s)) /\ PlainStack(Resumed(s))
           /\ \A n \in Nat : PlainStack(Cut(s, n)) /\ PlainStack(Returned(Cut(s, n)))
<1>1. Len(s) \in Nat
  OBVIOUS
<1>2. ASSUME NEW f \in FrameSet, PlainFrame(f) PROVE PlainStack(Pushed(s, f))
  <2> HIDE DEF FrameSet
  <2>1. /\ Len(Pushed(s, f)) = Len(s) + 1 /\ Pushed(s, f)[Len(s) + 1] = f
        /\ SameBelow(Pushed(s, f), s, Len(s))
    BY PushedFacts
  <2>2. \A p \in 1..(Len(s) + 1) : p \in 1..Len(s) \/ p = Len(s) + 1
    BY <1>1
  <2> QED BY <1>2, <2>1, <2>2 DEF PlainStack, PlainFrame, SameBelow, Alike
<1> HIDE DEF FrameSet
<1>3. \A u : u = <<>> => PlainStack(u)
  BY DEF PlainStack
<1>4. PlainStack(Front(s))
  <2>1. CASE s = <<>>
    <3>1. Front(s) \in Seq(FrameSet) /\ Len(s) = 0
      BY <2>1, FrontFacts
    <3>2. Front(s) = SubSeq(s, 1, Len(s) - 1)
      BY DEF Front
    <3>3. Front(s) = <<>>
      BY <2>1, <3>1, <3>2, SubSeqEmpty
    <3> QED BY <1>3, <3>3
  <2>2. CASE s # <<>>
    <3>1. Len(Front(s)) = Len(s) - 1 /\ \A i \in 1..(Len(s) - 1) : Front(s)[i] = s[i]
      BY <2>2, FrontFacts
    <3> QED BY <1>1, <3>1 DEF PlainStack
  <2> QED BY <2>1, <2>2
<1>5. ASSUME NEW u \in Seq(FrameSet), PlainStack(u) PROVE PlainStack(Returned(u))
  <2>1. CASE u = <<>>
    BY <1>3, <2>1, ReturnedFacts
  <2>2. CASE u # <<>>
    <3>1. /\ Len(u) \in Nat \ {0} /\ Len(Returned(u)) = Len(u) - 1
          /\ SameBelow(Returned(u), u, Len(u) - 1)
      BY <2>2, ReturnedFacts
    <3>2. \A p \in 1..(Len(u) - 1) : p \in 1..Len(u)
      BY <3>1
    <3> QED BY <1>5, <3>1, <3>2 DEF PlainStack, PlainFrame, SameBelow, Alike
  <2> QED BY <2>1, <2>2
<1>6. PlainStack(Resumed(s))
  <2>1. PlainStack(Waiting(s, FALSE))
    <3>1. Len(Waiting(s, FALSE)) = Len(s) /\ SameBelow(Waiting(s, FALSE), s, Len(s))
      BY WaitingFacts
    <3> QED BY <3>1 DEF PlainStack, PlainFrame, SameBelow, Alike
  <2> QED BY <1>5, <2>1 DEF Resumed
<1>7. ASSUME NEW n \in Nat PROVE PlainStack(Cut(s, n)) /\ PlainStack(Returned(Cut(s, n)))
  <2>1. /\ Cut(s, n) \in Seq(FrameSet) /\ Len(Cut(s, n)) = IF n < Len(s) THEN n ELSE Len(s)
        /\ \A p \in 1..Len(Cut(s, n)) : Cut(s, n)[p] = s[p]
    BY CutFacts
  <2>2. \A p \in 1..Len(Cut(s, n)) : p \in 1..Len(s)
    BY <1>1, <2>1
  <2>3. PlainStack(Cut(s, n))
    BY <2>1, <2>2 DEF PlainStack
  <2> QED BY <1>5, <2>1, <2>3
<1> QED BY <1>2, <1>4, <1>5, <1>6, <1>7

\* Nor does any operation on the C++ stack.
LEMMA PlainNative ==
    ASSUME CoInv, PlainInv
    PROVE  /\ native # <<>> => PlainCall(Top) /\ PlainCalls(Front(native))
           /\ \A a \in Activation : PlainCall(a) => PlainCalls(Append(native, a))
           /\ native # <<>> => \A a \in Activation : PlainCall(a) => PlainCalls([native EXCEPT ![Len(native)] = a])
<1> DEFINE n == Len(native)
<1>1. native \in Seq(Activation) /\ n \in Nat /\ PlainCalls(native)
  BY DEF CoInv, TypeOK, PlainInv
<1> HIDE DEF n
<1>2. ASSUME native # <<>> PROVE PlainCall(Top) /\ PlainCalls(Front(native))
  <2>1. /\ n \in Nat \ {0} /\ Top = native[n] /\ Len(Front(native)) = n - 1
        /\ \A i \in 1..(n - 1) : Front(native)[i] = native[i]
    BY <1>1, <1>2, FrontFacts DEF Top, Last, n
  <2>2. n \in 1..n /\ \A i \in 1..(n - 1) : i \in 1..n
    BY <2>1
  <2> QED BY <1>1, <2>1, <2>2 DEF PlainCalls, n
<1>3. ASSUME NEW a \in Activation, PlainCall(a) PROVE PlainCalls(Append(native, a))
  <2>1. /\ Len(Append(native, a)) = n + 1 /\ Append(native, a)[n + 1] = a
        /\ \A i \in 1..n : Append(native, a)[i] = native[i]
    BY <1>1, AppendProperties DEF n
  <2>2. \A i \in 1..(n + 1) : i \in 1..n \/ i = n + 1
    BY <1>1
  <2> QED BY <1>1, <1>3, <2>1, <2>2 DEF PlainCalls, n
<1>4. ASSUME native # <<>>, NEW a \in Activation, PlainCall(a)
      PROVE  PlainCalls([native EXCEPT ![Len(native)] = a])
  <2> DEFINE g == [native EXCEPT ![Len(native)] = a]
  <2>1. n \in 1..n
    BY <1>1, <1>4, FrontFacts DEF n
  <2>2. Len(g) = n /\ \A i \in 1..n : g[i] = IF i = n THEN a ELSE native[i]
    BY <1>1, <2>1, ExceptSeq DEF n
  <2> HIDE DEF g
  <2>3. PlainCalls(g)
    BY <1>1, <1>4, <2>2 DEF PlainCalls, n
  <2> QED BY <2>3 DEF g
<1> QED BY <1>2, <1>3, <1>4

\* Every step keeps both.
LEMMA PlainStep ==
    ASSUME "xpcall" \notin Features, CoInv, PlainInv, WaitsInv, [Next]_vars
    PROVE  PlainInv' /\ WaitsInv'
<1> DEFINE Frames == [Thread -> Seq(FrameSet)]
           Good == PlainFrames(frames') /\ PlainCalls(native') /\ (mode' # "throw" => Delivers(frames'[current']))
<1>1. /\ current \in Thread /\ frames \in Frames /\ Co \subseteq Thread
      /\ PlainFrames(frames) /\ PlainCalls(native) /\ (mode # "throw" => Delivers(frames[current]))
  BY DEF CoInv, TypeOK, Thread, PlainInv, WaitsInv, Stack
<1>2. SUFFICES Good
  BY DEF PlainInv, WaitsInv, Stack
<1>3. \A f \in Frames, t \in Thread : f[t] \in Seq(FrameSet)
  OBVIOUS
<1>4. ASSUME NEW f \in Frames, PlainFrames(f), NEW t \in Thread, NEW s \in Seq(FrameSet), PlainStack(s)
      PROVE  /\ [f EXCEPT ![t] = s] \in Frames /\ PlainFrames([f EXCEPT ![t] = s])
             /\ [f EXCEPT ![t] = s][t] = s
  BY <1>4 DEF PlainFrames
<1>5. \A t \in Thread : frames[t] \in Seq(FrameSet) /\ PlainStack(frames[t])
  BY <1>1, <1>3 DEF PlainFrames
<1> HIDE DEF Frames
<1>6. \A fn \in Yieldable \cup Resumers \cup {"sort", "error", "yield"} :
         /\ Frame("capi", fn) \in FrameSet /\ ~Frame("capi", fn).wait
         /\ fn # "xpcall" => PlainFrame(Frame("capi", fn))
  BY NewFrames DEF Frame, PlainFrame, Yieldable, Resumers
<1>7. /\ Frame("lua", "lua") \in FrameSet /\ PlainFrame(Frame("lua", "lua")) /\ ~Frame("lua", "lua").wait
      /\ LuaFrame = Frame("lua", "lua")
  <2>1. native # <<>> => PlainCall(Top)
    BY PlainNative
  <2>2. ~(CBody /\ Top.pc = "rehandler")
    BY <2>1 DEF CBody, PlainCall
  <2> QED BY <2>2, NewFrames DEF Frame, LuaFrame, PlainFrame
<1> HIDE DEF FrameSet
\* a call of the running thread
<1>8. ASSUME NEW g \in FrameSet, PlainFrame(g), ~g.wait
      PROVE  LET h == [frames EXCEPT ![current] = Pushed(@, g)]
             IN  h \in Frames /\ PlainFrames(h) /\ Delivers(h[current])
  <2> DEFINE s == Pushed(frames[current], g)
  <2>1. s \in Seq(FrameSet) /\ PlainStack(s) /\ Delivers(s)
    BY <1>1, <1>5, <1>8, PushedFacts, PlainOps DEF Delivers
  <2> HIDE DEF s
  <2>2. LET h == [frames EXCEPT ![current] = s] IN h \in Frames /\ PlainFrames(h) /\ Delivers(h[current])
    BY <1>1, <1>4, <2>1
  <2> QED BY <2>2 DEF s
\* a return to a thread
<1>9. ASSUME NEW t \in Thread, NEW s \in Seq(FrameSet), PlainStack(s)
      PROVE  LET h == [frames EXCEPT ![t] = Returned(s)] IN PlainFrames(h) /\ Delivers(h[t])
  <2>1. Returned(s) \in Seq(FrameSet) /\ PlainStack(Returned(s)) /\ Delivers(Returned(s))
    BY <1>9, ReturnedFacts, PlainOps
  <2> QED BY <1>1, <1>4, <2>1
<1>10. \A t \in Thread : LET h == [frames EXCEPT ![t] = Returned(@)] IN PlainFrames(h) /\ Delivers(h[t])
  BY <1>5, <1>9
<1>11. /\ native # <<>> => PlainCall(Top) /\ PlainCalls(Front(native)) /\ Top \in Activation /\ Shaped(Top)
       /\ \A a \in Activation : PlainCall(a) => PlainCalls(Append(native, a))
       /\ native # <<>> => \A a \in Activation : PlainCall(a) => PlainCalls([native EXCEPT ![Len(native)] = a])
  BY PlainNative, TopOwned
<1>12. native # <<>> => /\ Top.th \in Thread /\ Top.co \in Thread /\ Top.depth \in Nat
                        /\ Top.fn # "xpcall" /\ Top.pc # "handler" /\ Top.pc # "rehandler"
  BY <1>11 DEF Activation, Shaped, PlainCall, Resumers, Yieldable
<1>13. Calls => mode = "run"
  BY DEF Calls, LuaRuns, CBody
<1>14. \A fn \in Yieldable \cup Resumers \cup {"sort", "error", "yield"} :
          fn # "xpcall" /\ ThrownBy(fn) => PlainFrames(frames') /\ mode' = "throw" /\ native' = native
  <2> SUFFICES ASSUME NEW fn \in Yieldable \cup Resumers \cup {"sort", "error", "yield"},
                      fn # "xpcall", ThrownBy(fn)
               PROVE  PlainFrames(frames') /\ mode' = "throw" /\ native' = native
    OBVIOUS
  <2>1. PlainFrames([frames EXCEPT ![current] = Pushed(@, Frame("capi", fn))])
    BY <1>6, <1>8
  <2> QED BY <1>1, <2>1 DEF ThrownBy
<1>15. CASE CallLua
  BY <1>1, <1>7, <1>8, <1>15 DEF CallLua
<1>16. CASE CallClosure
  <2> DEFINE fn == IF CBody THEN "nested" ELSE "meta"
             a == Interp(fn, Len(Stack) + 1)
  <2>1. a \in Activation /\ a.fn = fn /\ a.pc = "loop"
    <3>1. Len(Stack) \in Nat
      BY <1>1, <1>3 DEF Stack
    <3>2. Len(Stack) + 1 \in Nat /\ fn \in {"nested", "meta", "drain"}
      BY <3>1
    <3> HIDE DEF fn
    <3> QED BY <3>2, NewActivations
  <2>2. PlainCall(a)
    BY <2>1 DEF PlainCall
  <2>3. native' = Append(native, a) /\ frames' = [frames EXCEPT ![current] = Pushed(@, LuaFrame)] /\ current' = current
    BY <1>16 DEF CallClosure
  <2> HIDE DEF a
  <2> QED BY <1>7, <1>8, <1>11, <2>1, <2>2, <2>3
<1>17. CASE CallOverflow \/ LuaError
  BY <1>1, <1>17 DEF CallOverflow, LuaError
<1>18. CASE ReturnLua
  <2>1. Stack # <<>> /\ Stack \in Seq(FrameSet) /\ PlainStack(Stack)
    BY <1>1, <1>5, <1>18 DEF ReturnLua, LuaRuns, BackIs, Stack
  <2>2. Last(Stack).fn # "handler"
    <3>1. Len(Stack) \in 1..Len(Stack)
      BY <2>1, FrontFacts
    <3> QED BY <2>1, <3>1 DEF PlainStack, PlainFrame, Last
  <2>3. frames' = [frames EXCEPT ![current] = Returned(@)] /\ native' = native /\ current' = current
    BY <1>18, <2>2 DEF ReturnLua, Stack
  <2> QED BY <1>1, <1>10, <2>3
<1>19. CASE LeaveInterp
  BY <1>1, <1>11, <1>19 DEF LeaveInterp
<1>20. ASSUME NEW fn \in {"pcall"} \cup (Features \cap {"xpcall", "dofile", "sort"}), CallC(fn)
       PROVE  Good
  <2>1. fn \in Yieldable \cup {"sort"} /\ fn # "xpcall"
    BY DEF Yieldable
  <2> DEFINE a == CCall(fn, Main, "call")
  <2>2. a \in Activation /\ a.fn = fn /\ a.pc = "call"
    BY <2>1, NewActivations DEF Thread
  <2>3. /\ native' = Append(native, a) /\ current' = current
        /\ frames' = [frames EXCEPT ![current] = Pushed(@, Frame("capi", fn))]
    BY <1>20 DEF CallC
  <2>4. PlainCall(a)
    BY <2>1, <2>2 DEF PlainCall
  <2>5. PlainFrames(frames') /\ Delivers(frames'[current])
    BY <1>6, <1>8, <2>1, <2>3
  <2> HIDE DEF a
  <2> QED BY <1>11, <2>2, <2>3, <2>4, <2>5
<1>21. CASE CallError
  BY <1>1, <1>14, <1>21 DEF CallError
<1>22. CASE CallYield
  <2> DEFINE h == [frames EXCEPT ![current] = Pushed(@, Frame("capi", "yield"))]
  <2>1. PlainFrames(h) /\ Delivers(h[current])
    BY <1>6, <1>8
  <2> HIDE DEF h
  <2>2. CASE CanYield
    BY <1>1, <1>22, <2>1, <2>2 DEF CallYield, h
  <2>3. CASE ~CanYield
    BY <1>1, <1>14, <1>22, <2>3 DEF CallYield
  <2> QED BY <2>2, <2>3
<1>23. ASSUME NEW fn \in {"resume"} \cup (Features \cap {"wrap"}), NEW co \in Co, CallResume(fn, co)
       PROVE  Good
  <2> DEFINE caller == [frames EXCEPT ![current] = Pushed(@, Frame("capi", fn))]
             pc == IF status[co] = "Fresh" THEN "first" ELSE "drain"
             a == CCall(fn, co, pc)
  <2>1. fn \in Resumers /\ fn # "xpcall" /\ co \in Thread /\ pc \in {"first", "drain"}
    BY <1>1 DEF Resumers
  <2>2. caller \in Frames /\ PlainFrames(caller)
    BY <1>6, <1>8, <2>1
  <2> HIDE DEF pc
  <2>3. a \in Activation /\ a.fn = fn /\ a.pc = pc
    BY <2>1, NewActivations
  <2>4. PlainCalls(Append(native, a))
    BY <1>11, <2>1, <2>3 DEF PlainCall
  <2>5. native' = Append(native, a) /\ current' = co
    BY <1>23 DEF CallResume, pc
  <2>6. frames' = [caller EXCEPT ![co] = <<>>] \/ frames' = [caller EXCEPT ![co] = Resumed(@)]
    BY <1>23 DEF CallResume
  <2> HIDE DEF caller, a
  <2>7. caller[co] \in Seq(FrameSet) /\ PlainStack(caller[co])
    BY <1>3, <2>1, <2>2 DEF PlainFrames
  <2>8. /\ Resumed(caller[co]) \in Seq(FrameSet) /\ PlainStack(Resumed(caller[co]))
        /\ Delivers(Resumed(caller[co]))
    BY <2>7, ResumedFacts, PlainOps
  <2>9. <<>> \in Seq(FrameSet) /\ PlainStack(<<>>) /\ Delivers(<<>>)
    BY EmptySeq DEF PlainStack, Delivers
  <2>10. PlainFrames(frames') /\ Delivers(frames'[co])
    <3>1. frames' = [caller EXCEPT ![co] = <<>>] \/ frames' = [caller EXCEPT ![co] = Resumed(caller[co])]
      BY <2>6
    <3>2. CASE frames' = [caller EXCEPT ![co] = <<>>]
      BY <1>4, <2>1, <2>2, <2>9, <3>2
    <3>3. CASE frames' = [caller EXCEPT ![co] = Resumed(caller[co])]
      BY <1>4, <2>1, <2>2, <2>8, <3>3
    <3> QED BY <3>1, <3>2, <3>3
  <2> QED BY <2>4, <2>5, <2>10
<1>24. ASSUME NEW co \in Co, RefuseWrap(co) PROVE Good
  BY <1>1, <1>14, <1>24 DEF RefuseWrap, Resumers
<1>25. CASE FinishContinue
  BY <1>1, <1>10, <1>25 DEF FinishContinue
<1>26. CASE RunResumed
  <2> DEFINE a == Interp("drain", 1)
  <2>1. a \in Activation /\ PlainCall(a)
    BY NewActivations DEF PlainCall
  <2>2. native' = native \/ native' = Append(native, a)
    BY <1>26 DEF RunResumed
  <2>3. frames' = frames /\ current' = current /\ mode = "run"
    BY <1>26 DEF RunResumed, Draining
  <2> HIDE DEF a
  <2> QED BY <1>1, <1>11, <2>1, <2>2, <2>3
<1>27. CASE ResumeGoesOn
  <2>1. Top.pc # "rehandler" /\ native # <<>> /\ native \in Seq(Activation)
    BY <1>12, <1>27 DEF ResumeGoesOn, InResume, CoInv, TypeOK
  <2>2. frames' = [frames EXCEPT ![current] = @] /\ current' = current /\ mode = "ok"
    BY <1>27, <2>1 DEF ResumeGoesOn
  <2>3. frames' = frames
    BY <1>1, <2>2 DEF Frames
  <2>4. native' = [native EXCEPT ![Len(native)].pc = @]
    BY <1>27, <2>1 DEF ResumeGoesOn
  <2>5. native' = [native EXCEPT ![Len(native)] = [Top EXCEPT !.pc = @]]
    BY <2>4 DEF Top, Last
  <2>6. [Top EXCEPT !.pc = @] = Top
    BY <1>11, <2>1 DEF Activation
  <2> QED BY <1>1, <1>11, <2>1, <2>2, <2>3, <2>5, <2>6
\* leaving a resume
<1>28. ASSUME NEW ok \in BOOLEAN, native # <<>>, Resumer(ok) PROVE Good
  <2>1. PlainCalls(native') /\ Top.th \in Thread /\ current' = Top.th
    BY <1>11, <1>12, <1>28 DEF Resumer
  <2>2. frames[Top.th] \in Seq(FrameSet) /\ PlainStack(frames[Top.th])
    BY <1>5, <2>1
  <2>3. Front(frames[Top.th]) \in Seq(FrameSet) /\ PlainStack(Front(frames[Top.th]))
    BY <2>2, FrontFacts, PlainOps
  <2>4. CASE Top.fn = "wrap" /\ ~ok
    <3>1. mode' = "throw" /\ (frames' = frames \/ frames' = [frames EXCEPT ![Top.th] = Front(@)])
      BY <1>28, <2>4 DEF Resumer
    <3>2. PlainFrames([frames EXCEPT ![Top.th] = Front(@)])
      BY <1>1, <1>4, <2>1, <2>3
    <3> QED BY <1>1, <2>1, <3>1, <3>2
  <2>5. CASE ~(Top.fn = "wrap" /\ ~ok)
    <3>1. frames' = [frames EXCEPT ![Top.th] = Returned(@)]
      BY <1>28, <2>5 DEF Resumer
    <3> QED BY <1>10, <2>1, <3>1
  <2> QED BY <2>4, <2>5
<1>29. CASE ResumeEnds \/ ResumeYields \/ ResumeFails
  BY <1>28, <1>29 DEF ResumeEnds, ResumeYields, ResumeFails, InResume
<1>30. CASE ResumeRecovers
  <2> DEFINE s == frames[Top.co]  i == Innermost(s)
             d == i - 1
             a == [Top EXCEPT !.depth = d, !.pc = "redrain"]
  <2>1. native # <<>> /\ Top.co \in Thread /\ Top.co = current /\ Top.fn \in Resumers
    BY <1>12, <1>30, TopOwned DEF ResumeRecovers, InResume
  <2>2. s \in Seq(FrameSet) /\ PlainStack(s)
    BY <1>5, <2>1
  <2>3. i \in 1..Len(s) /\ Len(s) \in Nat
    <3>1. Continues(s) # {} /\ Continues(s) \subseteq 1..Len(s) /\ Len(s) \in Nat
      BY <1>30, <2>2 DEF ResumeRecovers, Recovers, Continues
    <3> HIDE DEF s
    <3>2. i \in Continues(s)
      BY <3>1, InnermostExists
    <3> QED BY <3>1, <3>2
  <2>4. s[i].fn # "xpcall"
    BY <2>2, <2>3 DEF PlainStack, PlainFrame
  <2>5. frames' = [frames EXCEPT ![current] = Returned(Cut(s, i))] /\ current' = current
    BY <1>30, <2>1, <2>4 DEF ResumeRecovers
  <2>6. native' = [native EXCEPT ![Len(native)].depth = i - 1, ![Len(native)].pc = "redrain"]
    BY <1>30, <2>4 DEF ResumeRecovers
  <2>7. native' = [native EXCEPT ![Len(native)] = a]
    <3>1. native \in Seq(Activation) /\ Len(native) \in Nat \ {0} /\ Top = native[Len(native)]
      BY <2>1, TopOwned DEF CoInv, TypeOK, Top, Last
    <3> HIDE DEF i
    <3> QED BY <2>6, <3>1
  <2> HIDE DEF s, i
  <2>8. a \in Activation /\ PlainCall(a)
    <3>1. d \in Nat /\ Top \in Activation /\ PlainCall(Top)
      BY <1>11, <2>1, <2>3
    <3> HIDE DEF d
    <3>2. a \in Activation /\ a.fn = Top.fn /\ a.pc = "redrain"
      BY <3>1 DEF Activation
    <3> QED BY <3>1, <3>2 DEF PlainCall
  <2> HIDE DEF a
  <2>9. Cut(s, i) \in Seq(FrameSet) /\ PlainStack(Cut(s, i))
    BY <2>2, <2>3, CutFacts, PlainOps
  <2> QED BY <1>1, <1>9, <1>11, <2>1, <2>5, <2>7, <2>8, <2>9
<1>31. CASE HandlerFails \/ CallHandler
  BY <1>12, <1>31 DEF HandlerFails, CallHandler, InResume, InC
<1>32. CASE ReturnC
  BY <1>1, <1>10, <1>11, <1>32 DEF ReturnC, InC
<1>33. CASE YieldC
  <2> DEFINE s == frames[current]  d == Top.depth
             g == [s EXCEPT ![d].kind = "continue"]
  <2>1. s \in Seq(FrameSet) /\ d \in Nat /\ PlainStack(s) /\ native # <<>>
    BY <1>1, <1>5, <1>12, <1>33 DEF YieldC, InC
  <2>2. frames' = [frames EXCEPT ![current] = g] /\ native' = Front(native) /\ mode' = "yield"
    BY <1>33 DEF YieldC
  <2>3. Len(g) = Len(s) /\ \A p \in 1..Len(s) : g[p].fn = s[p].fn /\ g[p].kind \in {s[p].kind, "continue"}
                            /\ g[p].wait = s[p].wait
    <3>1. s \in [1..Len(s) -> FrameSet] /\ Len(s) \in Nat
      BY <2>1
    <3>2. DOMAIN g = 1..Len(s) /\ \A p \in 1..Len(s) : g[p] = IF p = d THEN [s[p] EXCEPT !.kind = "continue"] ELSE s[p]
      BY <3>1
    <3>3. \A f \in FrameSet : /\ [f EXCEPT !.kind = "continue"].fn = f.fn
                              /\ [f EXCEPT !.kind = "continue"].kind = "continue"
                              /\ [f EXCEPT !.kind = "continue"].wait = f.wait
      BY DEF FrameSet
    <3>4. g \in Seq(FrameSet)
      <4>1. \A f \in FrameSet : [f EXCEPT !.kind = "continue"] \in FrameSet
        BY DEF FrameSet
      <4>2. g \in [1..Len(s) -> FrameSet]
        BY <3>1, <4>1
      <4> QED BY <3>1, <4>2
    <3> QED BY <3>1, <3>2, <3>3, <3>4
  <2>4. PlainStack(g)
    BY <2>1, <2>3 DEF PlainStack, PlainFrame
  <2> HIDE DEF g
  <2>5. PlainFrames([frames EXCEPT ![current] = g]) /\ [frames EXCEPT ![current] = g][current] = g
    BY <1>1, <2>4 DEF PlainFrames, Frames
  <2>6. Delivers(s) /\ current' = current
    BY <1>1, <1>33 DEF YieldC
  <2>7. Delivers(g)
    <3>1. g # <<>> => s # <<>> /\ Len(s) \in 1..Len(s)
      BY <2>1, <2>3, FrontFacts
    <3> QED BY <2>3, <2>6, <3>1 DEF Delivers, Last
  <2> QED BY <1>11, <2>1, <2>2, <2>5, <2>6, <2>7
<1>34. CASE YieldInterp \/ ThrowInterp
  BY <1>1, <1>11, <1>12, <1>34 DEF YieldInterp, ThrowInterp
<1>35. CASE ThrowC
  <2>1. Front(frames[current]) \in Seq(FrameSet) /\ PlainStack(Front(frames[current]))
    BY <1>1, <1>5, FrontFacts, PlainOps
  <2>2. PlainFrames([frames EXCEPT ![current] = Front(@)])
    BY <1>1, <1>4, <2>1
  <2> QED BY <1>1, <1>11, <1>35, <2>2 DEF ThrowC, InC
<1>36. CASE CatchC
  <2>1. native # <<>> /\ Top.depth \in Nat
    BY <1>12, <1>36 DEF CatchC, InC
  <2>2. Cut(frames[current], Top.depth) \in Seq(FrameSet) /\ PlainStack(Cut(frames[current], Top.depth))
    BY <1>1, <1>5, <2>1, CutFacts, PlainOps
  <2>3. frames' = [frames EXCEPT ![current] = Returned(Cut(@, Top.depth))] /\ native' = Front(native) /\ current' = current
    BY <1>36 DEF CatchC
  <2> QED BY <1>1, <1>9, <1>11, <2>1, <2>2, <2>3
<1>37. CASE Exit \/ UNCHANGED vars
  BY <1>1, <1>37 DEF Exit, vars
<1> HIDE DEF Good
<1> QED BY <1>15, <1>16, <1>17, <1>18, <1>19, <1>20, <1>21, <1>22, <1>23, <1>24, <1>25, <1>26,
           <1>27, <1>29, <1>30, <1>31, <1>32, <1>33, <1>34, <1>35, <1>36, <1>37
           DEF Next

\* Both hold at first.
LEMMA PlainInit == Init => PlainInv /\ WaitsInv
<1> SUFFICES ASSUME Init PROVE PlainInv /\ WaitsInv
  OBVIOUS
<1>1. \A t \in Thread : frames[t] = IF t = Main THEN <<Frame("lua", "lua")>> ELSE <<>>
  BY DEF Init
<1>2. PlainFrames(frames)
  BY <1>1 DEF PlainFrames, PlainStack, PlainFrame, Frame
<1>3. PlainCalls(native)
  BY DEF Init, Interp, PlainCalls, PlainCall
<1>4. Delivers(Stack)
  BY <1>1 DEF Init, Stack, Thread, Delivers, Frame, Last
<1> QED BY <1>2, <1>3, <1>4 DEF PlainInv, WaitsInv

\* A Lua frame goes on only after the call it has made delivered its results,
\* whatever was called, yielded, resumed or thrown in between (write_call_results,
\* resume_after_yield, finish_continue_frame, co_resume).
THEOREM ResultsDelivered ==
    ASSUME "xpcall" \notin Features
    PROVE  Spec => []NoLostResult
<1> DEFINE Inv == CoInv /\ PlainInv /\ WaitsInv
<1>1. Init => Inv
  BY CoInit, PlainInit
<1>2. Inv /\ [Next]_vars => Inv'
  BY CoStep, PlainStep
<1>3. Inv => NoLostResult
  BY DEF WaitsInv, Delivers, NoLostResult, LuaRuns, BackIs
<1> QED BY <1>1, <1>2, <1>3, PTL DEF Spec

-----------------------------------------------------------------------------
(* Which frames belong to which activation *)

\* the thread whose frames activation a works on; how many of them were there when
\* a started working; how many there were before the call that started a
Callee(a) == IF a.fn \in Resumers THEN a.co ELSE a.th
Base(a) == IF a.fn \in Resumers THEN 0 ELSE IF a.kind = "interp" THEN a.depth - 1 ELSE a.depth
Place(a, f) == IF a.fn \in Resumers THEN Len(f[a.th]) - 1 ELSE a.depth - 1

\* the frames of a.th up to the one of a itself
Reach(a, f) == IF a.fn \in Resumers THEN Len(f[a.th]) ELSE Base(a)

\* the kinds of frame a may have above its base while it runs or has called: the
\* Lua frames it executes, and the continued calls it finishes. A message handler
\* called after a yield that fails leaves its frames, also those of C calls
Continued == {"drain", "redrain"}
Goes == {"lua", "continue"}
Left == IF "xpcall" \in Features THEN Goes \cup {"capi"} ELSE Goes
Own(a) ==
    IF a.fn = "nested" THEN {"lua"}
    ELSE IF a.fn = "drain" \/ a.pc \in Continued \cup {"rehandler"} THEN Left ELSE {}

\* No frames are left without xpcall.
LEMMA PlainLeft == PlainFeatures => Left = {"lua", "continue"}
  BY DEF PlainFeatures, Left, Goes

\* a stands where its thread has the frame it was started for
Stands(a, f) ==
    /\ Place(a, f) \in Nat /\ Reach(a, f) <= Len(f[a.th])
    /\ a.kind = "ccall" => /\ f[a.th][Place(a, f) + 1].kind = "capi"
                           /\ f[a.th][Place(a, f) + 1].fn = a.fn
    /\ a.fn = "drain" => a.depth = 1

\* a has called b: between them there are only frames that a may have
Carries(a, b, f) ==
    /\ \A p \in (Base(a) + 1)..Place(b, f) : f[b.th][p].kind \in Own(a)
    /\ b.fn = "drain" <=> a.pc \in Continued

\* the C++ stack s stands on the frames f of the threads
Standing(s, f) ==
    /\ \A i \in 1..Len(s) : Stands(s[i], f)
    /\ \A i \in 1..(Len(s) - 1) : Carries(s[i], s[i + 1], f)
    /\ \A i, j \in 1..Len(s) : i < j /\ Callee(s[i]) = s[j].th => Base(s[i]) <= Place(s[j], f)

\* the frames u that the innermost activation a works on, when it goes on as m
Foot(a, u, m) ==
    /\ Base(a) <= Len(u)
    /\ m \in {"run", "ok"} => \A p \in (Base(a) + 1)..Len(u) : u[p].kind \in Own(a)
    /\ m = "ok" /\ a.pc \in Continued /\ u # <<>> => Last(u).kind # "lua"
    /\ m = "yield" => /\ Base(a) < Len(u) /\ u[Len(u)].kind = "capi"
                      /\ \A p \in (Base(a) + 1)..(Len(u) - 1) : u[p].kind \in {"lua", "continue"}
    /\ m = "throw" => \A p \in (Base(a) + 1)..Len(u) : u[p].kind = "continue" \/ u[p].fn # "pcall"

\* a step from f to g leaves the frames up to the one of a
Kept(a, f, g) ==
    /\ Reach(a, f) <= Len(g[a.th]) /\ SameBelow(g[a.th], f[a.th], Reach(a, f))
    /\ a.fn \in Resumers => Len(g[a.th]) = Len(f[a.th])

Framed(f) == f \in [Thread -> Seq(FrameSet)]

\* The frame of a C call is the last one it reaches; the interpreter has none.
LEMMA PlaceFacts ==
    ASSUME NEW a \in Activation, Shaped(a), NEW f, Framed(f), Stands(a, f)
    PROVE  /\ a.th \in Thread /\ Place(a, f) \in Nat /\ Base(a) \in Nat /\ Reach(a, f) \in Nat
           /\ Len(f[a.th]) \in Nat
           /\ a.kind = "ccall" => Reach(a, f) = Place(a, f) + 1
           /\ a.kind = "interp" => Reach(a, f) = Place(a, f)
           /\ a.fn \in Resumers => a.kind = "ccall" /\ Base(a) = 0
           /\ a.fn \notin Resumers => Reach(a, f) = Base(a)
<1>1. /\ a.th \in Thread /\ a.depth \in Nat /\ a.kind \in {"interp", "ccall"}
      /\ a.fn \in Resumers => a.kind = "ccall"
  BY DEF Activation, Shaped, Resumers, Yieldable
<1>2. Len(f[a.th]) \in Nat
  BY <1>1 DEF Framed
<1> QED BY <1>1, <1>2 DEF Place, Base, Reach, Stands

\* An activation whose frames are left stays where it stands.
LEMMA StandsKept ==
    ASSUME NEW a \in Activation, Shaped(a), NEW f, Framed(f), NEW g, Framed(g), Stands(a, f), Kept(a, f, g)
    PROVE  Stands(a, g) /\ Place(a, g) = Place(a, f) /\ Reach(a, g) = Reach(a, f)
<1>1. /\ Place(a, f) \in Nat /\ Base(a) \in Nat /\ Reach(a, f) \in Nat
      /\ a.kind = "ccall" => Reach(a, f) = Place(a, f) + 1
  BY PlaceFacts
<1>2. Place(a, g) = Place(a, f) /\ Reach(a, g) = Reach(a, f)
  BY DEF Kept, Place, Reach
<1>3. a.kind = "ccall" => Place(a, f) + 1 \in 1..Reach(a, f)
  BY <1>1
<1> QED BY <1>1, <1>2, <1>3 DEF Kept, Stands, SameBelow, Alike

\* So does a C++ stack of them.
LEMMA StandingKept ==
    ASSUME NEW s \in Seq(Activation), \A i \in 1..Len(s) : Shaped(s[i]),
           NEW f, Framed(f), NEW g, Framed(g), Standing(s, f), \A i \in 1..Len(s) : Kept(s[i], f, g)
    PROVE  Standing(s, g)
<1> DEFINE n == Len(s)
<1>1. n \in Nat /\ \A i \in 1..n : s[i] \in Activation
  OBVIOUS
<1> HIDE DEF n
<1>2. ASSUME NEW i \in 1..n
      PROVE  Stands(s[i], g) /\ Place(s[i], g) = Place(s[i], f)
  <2>1. s[i] \in Activation /\ Shaped(s[i]) /\ Stands(s[i], f) /\ Kept(s[i], f, g)
    BY <1>1, <1>2 DEF Standing, n
  <2> QED BY <2>1, StandsKept
<1>3. ASSUME NEW i \in 1..(n - 1) PROVE Carries(s[i], s[i + 1], g)
  <2> DEFINE a == s[i]  b == s[i + 1]
  <2>1. i + 1 \in 1..n
    BY <1>1
  <2>2. Carries(a, b, f) /\ Stands(b, f) /\ Kept(b, f, g) /\ b \in Activation /\ Shaped(b)
    BY <1>1, <1>3, <2>1 DEF Standing, n
  <2>3. Stands(a, f) /\ a \in Activation /\ Shaped(a)
    BY <1>1, <1>3 DEF Standing, n
  <2>4. Place(b, g) = Place(b, f)
    BY <1>2, <2>1
  <2> HIDE DEF a, b
  <2>5. Place(b, f) \in Nat /\ Place(b, f) <= Reach(b, f) /\ Base(a) \in Nat /\ Reach(b, f) \in Nat
    <3>1. b.kind \in {"interp", "ccall"}
      BY <2>2 DEF Activation
    <3> QED BY <2>2, <2>3, <3>1, PlaceFacts
  <2>6. \A p \in (Base(a) + 1)..Place(b, f) : g[b.th][p].kind = f[b.th][p].kind
    BY <2>2, <2>5 DEF Kept, SameBelow, Alike
  <2> QED BY <2>2, <2>4, <2>6 DEF Carries, a, b
<1> QED BY <1>2, <1>3 DEF Standing, n

\* What the innermost activation stands on may go with it.
LEMMA StandingFront ==
    ASSUME NEW s \in Seq(Activation), s # <<>>, NEW f, Standing(s, f)
    PROVE  Standing(Front(s), f)
<1> DEFINE n == Len(s)  h == Front(s)
<1>1. n \in Nat \ {0} /\ Len(h) = n - 1 /\ \A i \in 1..(n - 1) : h[i] = s[i]
  BY FrontFacts
<1>2. \A i \in 1..(n - 1) : i \in 1..n
  BY <1>1
<1>3. \A i \in 1..(n - 1 - 1) : i \in 1..(n - 1) /\ i + 1 \in 1..(n - 1)
  BY <1>1
<1>4. /\ \A i \in 1..n : Stands(s[i], f)
      /\ \A i \in 1..(n - 1) : Carries(s[i], s[i + 1], f)
      /\ \A i, j \in 1..n : i < j /\ Callee(s[i]) = s[j].th => Base(s[i]) <= Place(s[j], f)
  BY DEF Standing
<1> HIDE DEF n, h
<1>5. \A i \in 1..Len(h) : Stands(h[i], f)
  BY <1>1, <1>2, <1>4
<1>6. \A i \in 1..(Len(h) - 1) : Carries(h[i], h[i + 1], f)
  <2> SUFFICES ASSUME NEW i \in 1..(n - 1 - 1) PROVE Carries(h[i], h[i + 1], f)
    BY <1>1
  <2>1. h[i] = s[i] /\ h[i + 1] = s[i + 1] /\ i \in 1..(n - 1)
    BY <1>1, <1>3
  <2> QED BY <1>4, <2>1
<1>7. \A i, j \in 1..Len(h) : i < j /\ Callee(h[i]) = h[j].th => Base(h[i]) <= Place(h[j], f)
  BY <1>1, <1>2, <1>4
<1>8. Standing(h, f)
  BY <1>5, <1>6, <1>7 DEF Standing
<1> QED BY <1>8 DEF h

\* A new activation stands on the one that has called it.
LEMMA StandingPush ==
    ASSUME NEW s \in Seq(Activation), s # <<>>, NEW f, Standing(s, f),
           NEW a \in Activation, Stands(a, f), Carries(Last(s), a, f),
           \A i \in 1..Len(s) : Callee(s[i]) = a.th => Base(s[i]) <= Place(a, f)
    PROVE  Standing(Append(s, a), f)
<1> DEFINE n == Len(s)  h == Append(s, a)
<1>1. n \in Nat \ {0} /\ Last(s) = s[n]
  BY FrontFacts DEF Last
<1>2. Len(h) = n + 1 /\ h[n + 1] = a /\ \A i \in 1..n : h[i] = s[i]
  BY AppendProperties
<1>3. /\ \A i \in 1..n : Stands(s[i], f)
      /\ \A i \in 1..(n - 1) : Carries(s[i], s[i + 1], f)
      /\ \A i, j \in 1..n : i < j /\ Callee(s[i]) = s[j].th => Base(s[i]) <= Place(s[j], f)
      /\ \A i \in 1..n : Callee(s[i]) = a.th => Base(s[i]) <= Place(a, f)
  BY DEF Standing
<1> HIDE DEF n, h
<1>4. \A i \in 1..(n + 1) : Stands(h[i], f)
  <2>1. \A i \in 1..(n + 1) : i \in 1..n \/ i = n + 1
    BY <1>1
  <2> QED BY <1>2, <1>3, <2>1
<1>5. ASSUME NEW i \in 1..(n + 1 - 1) PROVE Carries(h[i], h[i + 1], f)
  <2>1. CASE i = n
    <3>1. n \in 1..n
      BY <1>1
    <3> QED BY <1>1, <1>2, <2>1, <3>1
  <2>2. CASE i \in 1..(n - 1)
    <3>1. i \in 1..n /\ i + 1 \in 1..n
      BY <1>1, <2>2
    <3> QED BY <1>2, <1>3, <2>2, <3>1
  <2> QED BY <1>1, <2>1, <2>2
<1>6. ASSUME NEW i \in 1..(n + 1), NEW j \in 1..(n + 1), i < j, Callee(h[i]) = h[j].th
      PROVE  Base(h[i]) <= Place(h[j], f)
  <2>1. i \in 1..n /\ (j = n + 1 \/ j \in 1..n)
    BY <1>1, <1>6
  <2> QED BY <1>2, <1>3, <1>6, <2>1
<1>7. Standing(h, f)
  <2>1. \A i \in 1..Len(h) : Stands(h[i], f)
    BY <1>2, <1>4
  <2>2. \A i \in 1..(Len(h) - 1) : Carries(h[i], h[i + 1], f)
    BY <1>1, <1>2, <1>5
  <2>3. \A i, j \in 1..Len(h) : i < j /\ Callee(h[i]) = h[j].th => Base(h[i]) <= Place(h[j], f)
    BY <1>2, <1>6
  <2> QED BY <2>1, <2>2, <2>3 DEF Standing
<1> QED BY <1>7 DEF h

\* The innermost activation may go on at another point; only a resume may note
\* another frame.
LEMMA StandingRetop ==
    ASSUME NEW s \in Seq(Activation), s # <<>>, NEW f, Standing(s, f), NEW a \in Activation,
           Last(s).kind = "ccall", a.kind = Last(s).kind, a.fn = Last(s).fn,
           a.th = Last(s).th, a.co = Last(s).co,
           Last(s).fn \in Resumers \/ a.depth = Last(s).depth
    PROVE  Standing([s EXCEPT ![Len(s)] = a], f)
<1> DEFINE n == Len(s)  h == [s EXCEPT ![Len(s)] = a]
<1>1. n \in Nat \ {0} /\ Last(s) = s[n]
  BY FrontFacts DEF Last
<1>2. Len(h) = n /\ \A i \in 1..n : h[i] = IF i = n THEN a ELSE s[i]
  BY <1>1, ExceptSeq
<1>3. /\ \A i \in 1..n : Stands(s[i], f)
      /\ \A i \in 1..(n - 1) : Carries(s[i], s[i + 1], f)
      /\ \A i, j \in 1..n : i < j /\ Callee(s[i]) = s[j].th => Base(s[i]) <= Place(s[j], f)
  BY DEF Standing
<1> HIDE DEF n, h
<1>4. /\ Place(a, f) = Place(s[n], f) /\ Base(a) = Base(s[n]) /\ Callee(a) = Callee(s[n])
      /\ Reach(a, f) = Reach(s[n], f) /\ (a.fn = "drain" => a.depth = s[n].depth)
  BY <1>1 DEF Place, Base, Reach, Callee, Resumers
<1>5. /\ Stands(s[n], f) => Stands(a, f)
      /\ \A b : Carries(b, s[n], f) => Carries(b, a, f)
  <2>1. Stands(s[n], f) => Stands(a, f)
    BY <1>1, <1>4 DEF Stands
  <2>2. \A b : Carries(b, s[n], f) => Carries(b, a, f)
    BY <1>1, <1>4 DEF Carries
  <2> QED BY <2>1, <2>2
<1>6. \A i \in 1..n : Stands(h[i], f)
  BY <1>2, <1>3, <1>5
<1>7. ASSUME NEW i \in 1..(n - 1) PROVE Carries(h[i], h[i + 1], f)
  <2>1. i \in 1..n /\ i # n /\ i + 1 \in 1..n /\ Carries(s[i], s[i + 1], f)
    BY <1>1, <1>3
  <2>2. CASE i + 1 = n
    BY <1>2, <1>5, <2>1, <2>2
  <2>3. CASE i + 1 # n
    BY <1>2, <2>1, <2>3
  <2> QED BY <2>2, <2>3
<1>8. ASSUME NEW i \in 1..n, NEW j \in 1..n, i < j, Callee(h[i]) = h[j].th
      PROVE  Base(h[i]) <= Place(h[j], f)
  <2>1. i # n /\ h[i] = s[i] /\ h[j].th = s[j].th /\ Place(h[j], f) = Place(s[j], f)
    BY <1>1, <1>2, <1>4, <1>8
  <2> QED BY <1>3, <1>8, <2>1
<1>9. Standing(h, f)
  BY <1>2, <1>6, <1>7, <1>8 DEF Standing
<1> QED BY <1>9 DEF h

-----------------------------------------------------------------------------
(* Which thread runs which activation *)

\* A thread that waits for a resume it has made starts nothing.
LEMMA ThreadsApart ==
    ASSUME CoInv, ChainInv, NEW r \in 1..Len(native), native[r].fn \in Resumers,
           NEW j \in 1..Len(native), r < j
    PROVE  native[j].th # native[r].th
<1> DEFINE n == Len(native)
<1>1. n \in Nat /\ Main \notin Co
  BY CoroutineAssumption DEF CoInv, TypeOK
<1> HIDE DEF n
<1>2. \A i \in 1..n : native[i].fn \in Resumers => native[i].co \in Co
  BY DEF CoInv, Shaped, Resumers, Yieldable, n
<1>3. Owner(native, j, native[j].th) /\ Owner(native, r, native[r].th) /\ r \in 1..(j - 1)
  BY <1>1 DEF CoInv, NativeOwned, n
<1>4. PICK m \in 1..(j - 1) : /\ native[m].fn \in Resumers /\ native[m].co = native[j].th
                              /\ \A i \in (m + 1)..(j - 1) : native[i].fn \notin Resumers
  BY <1>3 DEF Owner
<1>5. m \in 1..n /\ r <= m /\ native[j].th # Main
  BY <1>1, <1>2, <1>3, <1>4 DEF n
<1>6. CASE native[r].th = Main
  BY <1>5, <1>6
<1>7. CASE native[r].th # Main
  <2>1. PICK i \in 1..(r - 1) : native[i].fn \in Resumers /\ native[i].co = native[r].th
    BY <1>3, <1>7 DEF Owner
  <2>2. i \in 1..n /\ i # m
    BY <1>1, <1>3, <1>5, <2>1 DEF n
  <2> QED BY <1>4, <1>5, <2>1, <2>2 DEF ChainInv, Once, n
<1> QED BY <1>6, <1>7

\* Nothing runs on a coroutine that has not been entered.
LEMMA NothingOff ==
    ASSUME CoInv, NEW t, t # Main, ~OnChain(native, t), NEW i \in 1..Len(native)
    PROVE  native[i].th # t /\ Callee(native[i]) # t
<1> DEFINE n == Len(native)
<1>1. n \in Nat /\ \A j \in 1..n : native[j].fn \in Resumers => native[j].co # t
  BY DEF CoInv, TypeOK, OnChain
<1>2. Owner(native, i, native[i].th)
  BY DEF CoInv, NativeOwned
<1>3. \A j \in 1..(i - 1) : j \in 1..n
  BY <1>1
<1>4. native[i].th # t
  BY <1>1, <1>2, <1>3 DEF Owner
<1> QED BY <1>1, <1>4 DEF Callee

\* The last resume has just entered its coroutine.
LEMMA RunsAlone ==
    ASSUME CoInv, ChainInv, native # <<>>, Top.fn \in Resumers, NEW i \in 1..(Len(native) - 1)
    PROVE  native[i].th # current /\ Callee(native[i]) # current
<1> DEFINE n == Len(native)
<1>1. n \in Nat \ {0} /\ Top.co = current /\ current \in Co /\ Top = native[n] /\ Main \notin Co
  BY TopOwned, CoroutineAssumption DEF Top, Last
<1> HIDE DEF n
<1>2. i \in 1..n /\ i # n /\ n \in 1..n
  BY <1>1 DEF n
<1>3. \A j \in 1..(n - 1) : native[j].fn \in Resumers => native[j].co # current
  <2>1. \A j \in 1..(n - 1) : j \in 1..n /\ j # n
    BY <1>1
  <2> QED BY <1>1, <1>2, <2>1 DEF ChainInv, Once, n
<1>4. Owner(native, i, native[i].th)
  BY <1>2 DEF CoInv, NativeOwned, n
<1>5. native[i].th # current
  <2>1. \A j \in 1..(i - 1) : j \in 1..(n - 1)
    BY <1>1, <1>2
  <2> QED BY <1>1, <1>3, <1>4, <2>1 DEF Owner
<1> QED BY <1>3, <1>5 DEF Callee, n

\* An activation is started by the thread that the one below works on.
LEMMA CalleeNext ==
    ASSUME CoInv
    PROVE  /\ \A i \in 1..(Len(native) - 1) : Callee(native[i]) = native[i + 1].th
           /\ native # <<>> => Callee(Top) = current
<1> DEFINE n == Len(native)
<1>1. n \in Nat
  BY DEF CoInv, TypeOK
<1>2. ASSUME NEW i \in 1..(n - 1) PROVE Callee(native[i]) = native[i + 1].th
  <2>1. /\ i \in Nat \ {0} /\ i \in 1..n /\ i + 1 \in 1..n /\ i \in Nat
    BY <1>1
  <2>2. Owner(native, i, native[i].th) /\ Owner(native, i + 1, native[i + 1].th)
    BY <2>1 DEF CoInv, NativeOwned
  <2>3. CASE native[i].fn \in Resumers
    BY <2>1, <2>2, <2>3, OwnerStep DEF Callee
  <2>4. CASE native[i].fn \notin Resumers
    <3>1. Owner(native, i, native[i + 1].th)
      BY <2>1, <2>2, <2>4, OwnerStep
    <3> QED BY <2>1, <2>2, <2>4, <3>1, OwnerUnique DEF Callee
  <2> QED BY <2>3, <2>4
<1>3. native # <<>> => Callee(Top) = current
  BY TopOwned DEF Callee
<1> QED BY <1>2, <1>3

-----------------------------------------------------------------------------
(* What a step leaves standing *)

Stand == Standing(native, frames)

\* g has the frames of f below n
Holds(g, f, n) == n <= Len(g) /\ SameBelow(g, f, n)

\* What works on the running thread is below the innermost activation.
LEMMA BaseBelow ==
    ASSUME CoInv, ChainInv, Stand, native # <<>>
    PROVE  /\ Top = native[Len(native)] /\ Len(native) \in 1..Len(native) /\ Len(native) \in Nat \ {0}
           /\ Top \in Activation /\ Shaped(Top) /\ Framed(frames) /\ Stands(Top, frames)
           /\ Base(Top) \in Nat /\ Base(Top) <= Len(Stack) /\ Len(Stack) \in Nat
           /\ \A i \in 1..Len(native) : Callee(native[i]) = current => Base(native[i]) <= Base(Top)
           /\ \A i \in 1..Len(native) : native[i] \in Activation /\ Shaped(native[i])
           /\ \A i \in 1..Len(native) : Stands(native[i], frames) /\ Base(native[i]) \in Nat
<1> DEFINE n == Len(native)
<1>1. /\ n \in Nat \ {0} /\ Top = native[n] /\ Top \in Activation /\ Shaped(Top)
      /\ \A i \in 1..n : native[i] \in Activation /\ Shaped(native[i]) /\ Stands(native[i], frames)
      /\ Framed(frames)
  BY TopOwned DEF Top, Last, CoInv, TypeOK, Stand, Standing, Framed
<1> HIDE DEF n
<1>2. n \in 1..n
  BY <1>1
<1>3. \A i \in 1..n : Base(native[i]) \in Nat
  BY <1>1, PlaceFacts
<1>4. Base(Top) \in Nat /\ Stands(Top, frames)
  BY <1>1, <1>2, <1>3
<1>5. Len(Stack) \in Nat /\ Base(Top) <= Len(Stack)
  <2>1. current \in Thread /\ Len(Stack) \in Nat
    BY <1>1 DEF Stack, Framed, CoInv, TypeOK
  <2>2. CASE Top.fn \in Resumers
    BY <2>1, <2>2 DEF Base
  <2>3. CASE Top.fn \notin Resumers
    <3>1. Top.th = current
      BY <1>1, <2>3, TopOwned DEF n
    <3> QED BY <1>4, <2>1, <2>3, <3>1 DEF Stands, Reach, Stack
  <2> QED BY <2>2, <2>3
<1>6. ASSUME NEW i \in 1..n, Callee(native[i]) = current PROVE Base(native[i]) <= Base(Top)
  <2>1. CASE i = n
    BY <1>1, <1>4, <2>1
  <2>2. CASE i \in 1..(n - 1) /\ Top.fn \in Resumers
    BY <1>6, <2>2, RunsAlone DEF n
  <2>3. CASE i \in 1..(n - 1) /\ Top.fn \notin Resumers
    <3>1. i < n /\ Callee(native[i]) = native[n].th
      BY <1>1, <1>6, <2>3, TopOwned
    <3>2. Base(native[i]) <= Place(Top, frames)
      BY <1>1, <1>2, <3>1 DEF Stand, Standing, n
    <3>3. Place(Top, frames) <= Base(Top) /\ Place(Top, frames) \in Nat
      <4>1. Top.kind \in {"interp", "ccall"}
        BY <1>1 DEF Activation
      <4> QED BY <1>1, <1>4, <2>3, <4>1, PlaceFacts
    <3> QED BY <1>3, <1>4, <3>2, <3>3
  <2> QED BY <1>1, <2>1, <2>2, <2>3
<1> QED BY <1>1, <1>2, <1>3, <1>4, <1>5, <1>6 DEF n

\* A step of the running thread above the base of the innermost activation, and of
\* a coroutine that has not been entered.
LEMMA StandsHere ==
    ASSUME CoInv, ChainInv, Stand, native # <<>>, NEW g, Framed(g),
           Holds(g[current], Stack, Base(Top)),
           \A t \in Thread : t = current \/ g[t] = frames[t] \/ (t # Main /\ ~OnChain(native, t))
    PROVE  Standing(native, g)
<1> DEFINE n == Len(native)
<1>1. /\ native \in Seq(Activation) /\ n \in Nat /\ Framed(frames) /\ Base(Top) \in Nat
      /\ \A i \in 1..n : native[i] \in Activation /\ Shaped(native[i]) /\ Stands(native[i], frames)
      /\ \A i \in 1..n : Base(native[i]) \in Nat
      /\ \A i \in 1..n : Callee(native[i]) = current => Base(native[i]) <= Base(Top)
  BY BaseBelow DEF CoInv, TypeOK
<1> HIDE DEF n
<1>2. ASSUME NEW i \in 1..n PROVE Kept(native[i], frames, g)
  <2> DEFINE a == native[i]
  <2>1. a \in Activation /\ Shaped(a) /\ Stands(a, frames) /\ a.th \in Thread /\ Reach(a, frames) \in Nat
    BY <1>1, <1>2, PlaceFacts
  <2>2. CASE a.th = current
    <3>1. a.fn \notin Resumers
      BY <1>2, <2>2, WaitsNotRuns DEF NoneWaits, n
    <3>2. Callee(a) = current /\ Reach(a, frames) = Base(a)
      BY <2>2, <3>1 DEF Callee, Reach
    <3>3. Base(a) <= Base(Top) /\ Base(a) \in Nat
      BY <1>1, <3>2
    <3> HIDE DEF a
    <3>4. Base(a) <= Len(g[current]) /\ SameBelow(g[current], frames[current], Base(a))
      <4>1. current \in Thread
        BY <2>1, <2>2
      <4>2. Len(g[current]) \in Nat
        BY <4>1 DEF Framed
      <4> QED BY <1>1, <3>3, <4>2 DEF Holds, SameBelow, Stack
    <3>5. Kept(a, frames, g)
      BY <2>2, <3>1, <3>2, <3>4 DEF Kept
    <3> QED BY <3>5 DEF a
  <2>3. CASE a.th # current
    <3>1. g[a.th] = frames[a.th]
      BY <1>2, <2>1, <2>3, NothingOff DEF n
    <3> QED BY <2>1, <3>1 DEF Kept, Stands, SameBelow, Alike
  <2> QED BY <2>2, <2>3
<1> QED BY <1>1, <1>2, StandingKept DEF Stand, n

\* The innermost activation goes, with the frames from its own on.
LEMMA StandsBelow ==
    ASSUME CoInv, ChainInv, Stand, native # <<>>, NEW g, Framed(g),
           Holds(g[Top.th], frames[Top.th], Place(Top, frames)),
           \A t \in Thread : t = Top.th \/ g[t] = frames[t]
    PROVE  Standing(Front(native), g)
<1> DEFINE n == Len(native)  h == Front(native)
<1>1. /\ native \in Seq(Activation) /\ n \in Nat \ {0} /\ Framed(frames) /\ Top = native[n] /\ n \in 1..n
      /\ \A i \in 1..n : native[i] \in Activation /\ Shaped(native[i]) /\ Stands(native[i], frames)
      /\ \A i \in 1..n : Base(native[i]) \in Nat
  BY BaseBelow DEF CoInv, TypeOK
<1>2. h \in Seq(Activation) /\ Len(h) = n - 1 /\ \A i \in 1..(n - 1) : h[i] = native[i]
  BY <1>1, FrontFacts
<1>3. Standing(h, frames)
  BY <1>1, StandingFront DEF Stand
<1> HIDE DEF n, h
<1>4. \A i \in 1..(n - 1) : i \in 1..n /\ i < n
  BY <1>1
<1>5. \A i \in 1..Len(h) : Shaped(h[i])
  BY <1>1, <1>2, <1>4
<1>6. ASSUME NEW i \in 1..(n - 1) PROVE Kept(native[i], frames, g)
  <2> DEFINE a == native[i]
  <2>1. a \in Activation /\ Shaped(a) /\ Stands(a, frames) /\ a.th \in Thread /\ Reach(a, frames) \in Nat
    BY <1>1, <1>4, PlaceFacts
  <2>2. CASE a.th = Top.th
    <3>1. a.fn \notin Resumers
      BY <1>1, <1>4, <2>2, ThreadsApart DEF n
    <3>2. Callee(a) = Top.th /\ Reach(a, frames) = Base(a)
      BY <2>2, <3>1 DEF Callee, Reach
    <3>3. Base(a) <= Place(Top, frames) /\ Base(a) \in Nat
      BY <1>1, <1>4, <3>2 DEF Stand, Standing, n
    <3>4. Place(Top, frames) \in Nat /\ Top.th \in Thread
      BY <1>1, PlaceFacts
    <3> HIDE DEF a
    <3>5. Base(a) <= Len(g[Top.th]) /\ SameBelow(g[Top.th], frames[Top.th], Base(a))
      <4>1. Len(g[Top.th]) \in Nat
        BY <3>4 DEF Framed
      <4> QED BY <3>3, <3>4, <4>1 DEF Holds, SameBelow
    <3>6. Kept(a, frames, g)
      BY <2>2, <3>1, <3>2, <3>5 DEF Kept
    <3> QED BY <3>6 DEF a
  <2>3. CASE a.th # Top.th
    <3>1. g[a.th] = frames[a.th]
      BY <2>1, <2>3
    <3> QED BY <2>1, <3>1 DEF Kept, Stands, SameBelow, Alike
  <2> QED BY <2>2, <2>3
<1>7. \A i \in 1..Len(h) : Kept(h[i], frames, g)
  BY <1>2, <1>6
<1>8. Standing(h, g)
  BY <1>1, <1>2, <1>3, <1>5, <1>7, StandingKept
<1> QED BY <1>8 DEF h

-----------------------------------------------------------------------------
(* Where a return, a yield or an error lands *)

Tops == native # <<>> => Foot(Top, Stack, mode)

\* the activation below the innermost one
Below == Last(Front(native))

\* It has called the innermost one.
LEMMA BelowFacts ==
    ASSUME CoInv, ChainInv, Stand, native # <<>>, Front(native) # <<>>
    PROVE  /\ Below \in Activation /\ Shaped(Below) /\ Base(Below) \in Nat
           /\ Place(Top, frames) \in Nat /\ Base(Below) <= Place(Top, frames)
           /\ Carries(Below, Top, frames) /\ Callee(Below) = Top.th
           /\ Below.pc \in Continued => Base(Below) = 0
           /\ Own(Below) \subseteq Left
<1> DEFINE n == Len(native)
<1>1. /\ n \in Nat \ {0} /\ Top = native[n] /\ native \in Seq(Activation) /\ Framed(frames) /\ Top \in Activation
      /\ Shaped(Top) /\ Stands(Top, frames)
      /\ \A i \in 1..n : native[i] \in Activation /\ Shaped(native[i]) /\ Base(native[i]) \in Nat
  BY BaseBelow DEF CoInv, TypeOK
<1>2. /\ Len(Front(native)) = n - 1 /\ Front(native) \in Seq(Activation)
      /\ \A i \in 1..(n - 1) : Front(native)[i] = native[i]
  BY <1>1, FrontFacts
<1>3. Len(Front(native)) \in Nat \ {0}
  BY <1>2, FrontFacts
<1> HIDE DEF n
<1>4. n - 1 \in 1..n /\ n - 1 \in 1..(n - 1) /\ n \in 1..n /\ n - 1 + 1 = n /\ n - 1 < n
  BY <1>1, <1>2, <1>3
<1>5. Below = native[n - 1]
  BY <1>2, <1>4 DEF Below, Last
<1>6. Callee(Below) = Top.th
  BY <1>1, <1>4, <1>5, CalleeNext DEF n
<1>7. Carries(Below, Top, frames)
  BY <1>1, <1>4, <1>5 DEF Stand, Standing, n
<1>8. Base(Below) <= Place(Top, frames)
  BY <1>1, <1>4, <1>5, <1>6 DEF Stand, Standing, n
<1>9. Below \in Activation /\ Shaped(Below) /\ Base(Below) \in Nat
  BY <1>1, <1>4, <1>5
<1>10. Place(Top, frames) \in Nat
  BY <1>1, PlaceFacts
<1>11. Below.pc \in Continued => Base(Below) = 0
  BY <1>9 DEF Shaped, Continued, Base, Resumers, Yieldable
<1>12. Own(Below) \subseteq Left
  BY DEF Own, Left, Goes
<1> QED BY <1>6, <1>7, <1>8, <1>9, <1>10, <1>11, <1>12

\* A return: the frames are those there were before the call.
LEMMA LandReturned ==
    ASSUME CoInv, ChainInv, Stand, native # <<>>, Front(native) # <<>>, Top.fn # "drain",
           NEW u \in Seq(FrameSet), Len(u) = Place(Top, frames),
           SameBelow(u, frames[Top.th], Place(Top, frames)), NEW m \in {"run", "ok"}
    PROVE  Foot(Below, u, m)
<1>1. /\ Base(Below) \in Nat /\ Place(Top, frames) \in Nat /\ Base(Below) <= Place(Top, frames)
      /\ Carries(Below, Top, frames)
  BY BelowFacts
<1>2. Below.pc \notin Continued
  BY <1>1 DEF Carries
<1>3. \A p \in (Base(Below) + 1)..Len(u) : u[p].kind \in Own(Below)
  BY <1>1 DEF Carries, SameBelow, Alike
<1> QED BY <1>1, <1>2, <1>3 DEF Foot

\* An error: nothing protected is left behind.
LEMMA LandThrown ==
    ASSUME PlainFeatures, CoInv, ChainInv, Stand, native # <<>>, Front(native) # <<>>,
           NEW u \in Seq(FrameSet), PlainStack(u), Holds(u, frames[Top.th], Place(Top, frames)),
           \A p \in (Place(Top, frames) + 1)..Len(u) : u[p].kind = "continue" \/ u[p].fn # "pcall"
    PROVE  Foot(Below, u, "throw")
<1>1. /\ Base(Below) \in Nat /\ Place(Top, frames) \in Nat /\ Base(Below) <= Place(Top, frames)
      /\ Carries(Below, Top, frames) /\ Own(Below) \subseteq {"lua", "continue"}
  BY BelowFacts, PlainLeft
<1>2. Len(u) \in Nat /\ Place(Top, frames) <= Len(u)
  BY DEF Holds
<1>3. ASSUME NEW p \in (Base(Below) + 1)..Len(u) PROVE u[p].kind = "continue" \/ u[p].fn # "pcall"
  <2>1. CASE p <= Place(Top, frames)
    <3>1. p \in 1..Place(Top, frames) /\ p \in (Base(Below) + 1)..Place(Top, frames) /\ p \in 1..Len(u)
      BY <1>1, <1>2, <2>1
    <3>2. u[p].kind \in {"lua", "continue"}
      BY <1>1, <3>1 DEF Carries, Holds, SameBelow, Alike
    <3> QED BY <3>1, <3>2 DEF PlainStack, PlainFrame
  <2>2. CASE ~(p <= Place(Top, frames))
    <3>1. p \in (Place(Top, frames) + 1)..Len(u)
      BY <1>1, <1>2, <2>2
    <3> QED BY <3>1
  <2> QED BY <2>1, <2>2
<1> QED BY <1>1, <1>2, <1>3 DEF Foot

\* A yield: the call that has yielded is on top, and the others can go on.
LEMMA LandYielded ==
    ASSUME PlainFeatures, CoInv, ChainInv, Stand, native # <<>>, Front(native) # <<>>,
           NEW u \in Seq(FrameSet), Holds(u, frames[Top.th], Place(Top, frames)),
           Place(Top, frames) < Len(u), u[Len(u)].kind = "capi",
           \A p \in (Place(Top, frames) + 1)..(Len(u) - 1) : u[p].kind \in {"lua", "continue"}
    PROVE  Foot(Below, u, "yield")
<1>1. /\ Base(Below) \in Nat /\ Place(Top, frames) \in Nat /\ Base(Below) <= Place(Top, frames)
      /\ Carries(Below, Top, frames) /\ Own(Below) \subseteq {"lua", "continue"}
  BY BelowFacts, PlainLeft
<1>2. Len(u) \in Nat
  OBVIOUS
<1>3. ASSUME NEW p \in (Base(Below) + 1)..(Len(u) - 1) PROVE u[p].kind \in {"lua", "continue"}
  <2>1. CASE p <= Place(Top, frames)
    <3>1. p \in 1..Place(Top, frames) /\ p \in (Base(Below) + 1)..Place(Top, frames)
      BY <1>1, <1>2, <2>1
    <3> QED BY <1>1, <3>1 DEF Carries, Holds, SameBelow, Alike
  <2>2. CASE ~(p <= Place(Top, frames))
    <3>1. p \in (Place(Top, frames) + 1)..(Len(u) - 1)
      BY <1>1, <1>2, <2>2
    <3> QED BY <3>1
  <2> QED BY <2>1, <2>2
<1> QED BY <1>1, <1>2, <1>3 DEF Foot

-----------------------------------------------------------------------------
(* The kinds of step *)

\* The innermost activation goes on.
LEMMA GoesOnThere ==
    ASSUME CoInv, ChainInv, Stand, native # <<>>, native' = native, current' = current,
           NEW u \in Seq(FrameSet), frames' = [frames EXCEPT ![current] = u],
           Holds(u, Stack, Base(Top)), Foot(Top, u, mode')
    PROVE  Stand' /\ Tops'
<1>1. Framed(frames) /\ current \in Thread
  BY DEF CoInv, TypeOK, Framed
<1>2. Framed(frames') /\ frames'[current] = u /\ \A t \in Thread : t # current => frames'[t] = frames[t]
  BY <1>1 DEF Framed
<1>3. Standing(native, frames')
  BY <1>2, StandsHere
<1>4. Foot(Top', Stack', mode')
  BY <1>2 DEF Top, Stack
<1> QED BY <1>3, <1>4 DEF Stand, Tops

\* It goes, and the one below goes on.
LEMMA GoesBelow ==
    ASSUME CoInv, ChainInv, Stand, native # <<>>, native' = Front(native), current' = Top.th,
           NEW u \in Seq(FrameSet), frames' = [frames EXCEPT ![Top.th] = u],
           Holds(u, frames[Top.th], Place(Top, frames)),
           Front(native) # <<>> => Foot(Below, u, mode')
    PROVE  Stand' /\ Tops'
<1>1. Framed(frames) /\ Top.th \in Thread
  BY TopOwned DEF CoInv, TypeOK, Framed, Activation
<1>2. Framed(frames') /\ frames'[Top.th] = u /\ \A t \in Thread : t # Top.th => frames'[t] = frames[t]
  BY <1>1 DEF Framed
<1>3. Standing(Front(native), frames')
  BY <1>2, StandsBelow
<1>4. native' # <<>> => Foot(Top', Stack', mode')
  BY <1>2 DEF Top, Stack, Below
<1> QED BY <1>3, <1>4 DEF Stand, Tops

\* It calls another one.
LEMMA GoesAbove ==
    ASSUME CoInv, ChainInv, Stand, native # <<>>,
           NEW a \in Activation, native' = Append(native, a), a.th = current, Framed(frames'),
           Holds(frames'[current], Stack, Base(Top)),
           \A t \in Thread : t = current \/ frames'[t] = frames[t] \/ (t # Main /\ ~OnChain(native, t)),
           Stands(a, frames'), Carries(Top, a, frames'), Base(Top) <= Place(a, frames'),
           Foot(a, frames'[current'], mode')
    PROVE  Stand' /\ Tops'
<1>1. native \in Seq(Activation) /\ Last(native) = Top
  BY DEF CoInv, TypeOK, Top
<1>2. Standing(native, frames')
  BY StandsHere
<1>3. \A i \in 1..Len(native) : Callee(native[i]) = a.th => Base(native[i]) <= Place(a, frames')
  <2>1. /\ Base(Top) \in Nat /\ \A i \in 1..Len(native) : Base(native[i]) \in Nat
        /\ \A i \in 1..Len(native) : Callee(native[i]) = current => Base(native[i]) <= Base(Top)
    BY BaseBelow
  <2>2. Place(a, frames') \in Nat
    BY DEF Stands
  <2> QED BY <2>1, <2>2
<1>4. Standing(Append(native, a), frames')
  BY <1>1, <1>2, <1>3, StandingPush
<1>5. Last(native') = a
  BY <1>1, PushFacts
<1>6. Foot(Top', Stack', mode')
  BY <1>5 DEF Top, Stack
<1> QED BY <1>4, <1>6 DEF Stand, Tops

-----------------------------------------------------------------------------
(* Calls keep the C++ stack standing *)

\* a suspended coroutine has yielded in a C call made by a Lua function, or by
\* functions that can be continued
SleptInv ==
    \A t \in Thread : status[t] = "Suspended" /\ ~(mode = "yield" /\ t = current) =>
        /\ frames[t] # <<>> /\ Last(frames[t]).kind = "capi"
        /\ \A p \in 1..(Len(frames[t]) - 1) : frames[t][p].kind \in {"lua", "continue"}

\* What is known when a call is made.
LEMMA CallerFacts ==
    ASSUME PlainFeatures, CoInv, ChainInv, PlainInv, Stand, Tops, Calls
    PROVE  /\ mode = "run" /\ native # <<>> /\ Top \in Activation /\ Shaped(Top)
           /\ current \in Thread /\ Framed(frames) /\ Stack \in Seq(FrameSet) /\ PlainStack(Stack)
           /\ Len(Stack) \in Nat /\ Base(Top) \in Nat /\ Base(Top) <= Len(Stack)
           /\ \A p \in (Base(Top) + 1)..Len(Stack) : Stack[p].kind \in Own(Top)
           /\ Own(Top) \subseteq {"lua", "continue"} /\ Top.pc \notin Continued
           /\ LuaRuns => "lua" \in Own(Top) /\ Base(Top) < Len(Stack)
           /\ ~LuaRuns => CBody /\ Base(Top) = Len(Stack)
<1>1. mode = "run" /\ native # <<>> /\ (LuaRuns \/ CBody)
  BY DEF Calls, LuaRuns, CBody
<1>2. /\ Top \in Activation /\ Shaped(Top) /\ Framed(frames) /\ current \in Thread
      /\ Base(Top) \in Nat /\ Base(Top) <= Len(Stack) /\ Len(Stack) \in Nat
  BY <1>1, BaseBelow DEF CoInv, TypeOK
<1>3. Stack \in Seq(FrameSet) /\ PlainStack(Stack)
  BY <1>2 DEF Stack, Framed, PlainInv, PlainFrames
<1>4. Own(Top) \subseteq {"lua", "continue"}
  BY PlainLeft DEF Own
<1>5. \A p \in (Base(Top) + 1)..Len(Stack) : Stack[p].kind \in Own(Top)
  BY <1>1 DEF Tops, Foot
<1>6. PlainCall(Top)
  BY <1>1, PlainNative
<1>7. ASSUME LuaRuns PROVE "lua" \in Own(Top) /\ Base(Top) < Len(Stack) /\ Top.pc \notin Continued
  <2>1. Top.kind = "interp" /\ Top.depth <= Len(Stack) /\ Top.depth \in Nat
    BY <1>2, <1>7 DEF LuaRuns, Activation
  <2>2. Top.fn \in {"nested", "drain"} /\ Top.pc = "loop"
    BY <1>2, <2>1 DEF Shaped, PlainFeatures
  <2> QED BY <1>2, <2>1, <2>2, PlainLeft DEF Own, Base, Resumers, Continued
<1>8. ASSUME CBody PROVE Own(Top) = {} /\ Base(Top) = Len(Stack) /\ Top.pc \notin Continued
  <2>1. Top.kind = "ccall" /\ Top.pc \in {"call", "first"}
    BY <1>6, <1>8 DEF CBody, PlainCall
  <2>2. Top.fn \notin {"nested", "drain"}
    BY <1>2, <2>1 DEF Shaped, Yieldable, Resumers
  <2>3. Own(Top) = {} /\ Top.pc \notin Continued
    BY <2>1, <2>2 DEF Own, Continued
  <2>4. ~(Base(Top) < Len(Stack))
    <3>1. Base(Top) < Len(Stack) => Len(Stack) \in (Base(Top) + 1)..Len(Stack)
      BY <1>2
    <3> QED BY <1>5, <2>3, <3>1
  <2> QED BY <1>2, <2>3, <2>4
<1> QED BY <1>1, <1>2, <1>3, <1>4, <1>5, <1>7, <1>8

\* A new frame on top.
LEMMA PushedAbove ==
    ASSUME NEW s \in Seq(FrameSet), NEW f \in FrameSet, NEW b \in Nat, b <= Len(s), NEW K,
           \A p \in (b + 1)..Len(s) : s[p].kind \in K
    PROVE  /\ Holds(Pushed(s, f), s, b) /\ Holds(Pushed(s, f), s, Len(s))
           /\ \A p \in (b + 1)..Len(s) : Pushed(s, f)[p].kind \in K
           /\ \A p \in (b + 1)..Len(Pushed(s, f)) : p = Len(s) + 1 \/ p \in (b + 1)..Len(s)
<1> HIDE DEF FrameSet
<1>1. /\ Len(s) \in Nat /\ Len(Pushed(s, f)) = Len(s) + 1
      /\ SameBelow(Pushed(s, f), s, Len(s))
  BY PushedFacts
<1>2. \A p \in 1..Len(s) : Pushed(s, f)[p].kind = s[p].kind
  BY <1>1 DEF SameBelow, Alike
<1>3. \A p \in (b + 1)..Len(s) : p \in 1..Len(s)
  BY <1>1
<1>4. Holds(Pushed(s, f), s, b) /\ Holds(Pushed(s, f), s, Len(s))
  BY <1>1 DEF Holds, SameBelow
<1> QED BY <1>1, <1>2, <1>3, <1>4

\* A C function that throws.
LEMMA ThrownStand ==
    ASSUME PlainFeatures, CoInv, ChainInv, PlainInv, Stand, Tops, Calls,
           NEW fn \in {"error", "yield", "wrap"}, ThrownBy(fn)
    PROVE  Stand' /\ Tops'
<1>1. /\ native # <<>> /\ current \in Thread /\ Framed(frames) /\ Stack \in Seq(FrameSet) /\ PlainStack(Stack)
      /\ Len(Stack) \in Nat /\ Base(Top) \in Nat /\ Base(Top) <= Len(Stack)
      /\ \A p \in (Base(Top) + 1)..Len(Stack) : Stack[p].kind \in {"lua", "continue"}
  BY CallerFacts
<1>2. native' = native /\ current' = current /\ mode' = "throw"
  BY DEF ThrownBy
<1>3. \A p \in (Base(Top) + 1)..Len(Stack) : Stack[p].kind = "continue" \/ Stack[p].fn # "pcall"
  <2>1. \A p \in (Base(Top) + 1)..Len(Stack) : p \in 1..Len(Stack)
    BY <1>1
  <2> QED BY <1>1, <2>1 DEF PlainStack, PlainFrame
<1>4. CASE current = Main
  <2>1. frames' = [frames EXCEPT ![current] = Stack]
    BY <1>1, <1>4 DEF ThrownBy, Stack, Framed
  <2>2. Holds(Stack, Stack, Base(Top))
    BY <1>1 DEF Holds, SameBelow, Alike
  <2>3. Foot(Top, Stack, mode')
    BY <1>1, <1>2, <1>3 DEF Foot
  <2> QED BY <1>1, <1>2, <2>1, <2>2, <2>3, GoesOnThere
<1>5. CASE current # Main
  <2> DEFINE f == Frame("capi", fn)  u == Pushed(Stack, f)
  <2>1. f \in FrameSet /\ f.fn # "pcall"
    BY NewFrames DEF Resumers, Frame
  <2>2. frames' = [frames EXCEPT ![current] = u]
    BY <1>5 DEF ThrownBy, Stack
  <2> HIDE DEF f, FrameSet
  <2>3. u \in Seq(FrameSet) /\ Len(u) = Len(Stack) + 1 /\ u[Len(Stack) + 1] = f /\ SameBelow(u, Stack, Len(Stack))
    BY <1>1, <2>1, PushedFacts
  <2>4. /\ Holds(u, Stack, Base(Top))
        /\ \A p \in (Base(Top) + 1)..Len(u) : p = Len(Stack) + 1 \/ p \in (Base(Top) + 1)..Len(Stack)
    BY <1>1, <2>1, PushedAbove
  <2> HIDE DEF u
  <2>5. \A p \in (Base(Top) + 1)..Len(u) : u[p].kind = "continue" \/ u[p].fn # "pcall"
    BY <1>1, <1>3, <2>1, <2>3, <2>4 DEF SameBelow, Alike
  <2>6. Foot(Top, u, mode')
    BY <1>1, <1>2, <2>3, <2>5 DEF Foot
  <2> QED BY <1>1, <1>2, <2>2, <2>3, <2>4, <2>6, GoesOnThere
<1> QED BY <1>4, <1>5

\* A call of a Lua function or of a C function that calls back, and a yield.
LEMMA CallsStand ==
    ASSUME PlainFeatures, CoInv, ChainInv, PlainInv, Stand, Tops,
           \/ CallLua \/ CallClosure \/ CallYield \/ CallError
           \/ \E fn \in {"pcall"} \cup (Features \cap {"xpcall", "dofile", "sort"}) : CallC(fn)
           \/ \E co \in Co : "wrap" \in Features /\ RefuseWrap(co)
    PROVE  Stand' /\ Tops'
<1> DEFINE n == Len(Stack)
<1>1. Calls
  BY DEF CallLua, CallClosure, CallC, CallYield, CallError, RefuseWrap, Calls
<1>2. /\ mode = "run" /\ native # <<>> /\ Top \in Activation /\ Shaped(Top)
      /\ current \in Thread /\ Framed(frames) /\ Stack \in Seq(FrameSet) /\ PlainStack(Stack)
      /\ n \in Nat /\ Base(Top) \in Nat /\ Base(Top) <= n
      /\ \A p \in (Base(Top) + 1)..n : Stack[p].kind \in Own(Top)
      /\ Own(Top) \subseteq {"lua", "continue"} /\ Top.pc \notin Continued
      /\ LuaRuns => "lua" \in Own(Top) /\ Base(Top) < n
      /\ ~LuaRuns => CBody /\ Base(Top) = n
  BY <1>1, CallerFacts
<1>3. /\ Frame("lua", "lua") \in FrameSet /\ Frame("lua", "lua").kind = "lua"
      /\ LuaFrame \in FrameSet /\ LuaFrame.kind = "lua"
      /\ \A fn \in Yieldable \cup Resumers \cup {"sort", "error", "yield"} :
            /\ Frame("capi", fn) \in FrameSet /\ Frame("capi", fn).kind = "capi"
            /\ Frame("capi", fn).fn = fn
  BY NewFrames DEF Frame, LuaFrame
<1> HIDE DEF n, FrameSet
<1>4. ASSUME NEW f \in FrameSet
      PROVE  LET u == Pushed(Stack, f)
             IN  /\ u \in Seq(FrameSet) /\ Len(u) = n + 1 /\ u[n + 1] = f
                 /\ Holds(u, Stack, Base(Top)) /\ Holds(u, Stack, n)
                 /\ \A p \in (Base(Top) + 1)..n : u[p].kind \in Own(Top)
                 /\ \A p \in (Base(Top) + 1)..(n + 1) : p = n + 1 \/ p \in (Base(Top) + 1)..n
  BY <1>2, PushedFacts, PushedAbove DEF n
\* an activation that starts with a new frame
<1>5. ASSUME NEW a \in Activation, a.th = current, a.fn \notin Resumers, a.fn # "drain", a.depth = n + 1,
             native' = Append(native, a), current' = current, mode' = "run",
             NEW f \in FrameSet, frames' = [frames EXCEPT ![current] = Pushed(Stack, f)],
             \/ a.kind = "ccall" /\ f.kind = "capi" /\ f.fn = a.fn
             \/ a.kind = "interp" /\ a.fn = "nested" /\ f.kind = "lua"
      PROVE  Stand' /\ Tops'
  <2> DEFINE u == Pushed(Stack, f)
  <2>1. /\ u \in Seq(FrameSet) /\ Len(u) = n + 1 /\ u[n + 1] = f
        /\ Holds(u, Stack, Base(Top)) /\ Holds(u, Stack, n)
        /\ \A p \in (Base(Top) + 1)..n : u[p].kind \in Own(Top)
    BY <1>4
  <2> HIDE DEF u
  <2>2. /\ Framed(frames') /\ frames'[current] = u
        /\ \A t \in Thread : t = current \/ frames'[t] = frames[t]
    BY <1>2, <1>5, <2>1 DEF Framed, u
  <2>3. Place(a, frames') = n /\ (n + 1) - 1 = n /\ "drain" # "nested"
    BY <1>2, <1>5 DEF Place
  <2>4. Base(a) = (IF a.kind = "interp" THEN n ELSE n + 1)
    BY <1>2, <1>5 DEF Base
  <2>5. Stands(a, frames')
    BY <1>2, <1>5, <2>1, <2>2, <2>3, <2>4 DEF Stands, Reach
  <2>6. Carries(Top, a, frames')
    BY <1>2, <1>5, <2>1, <2>2, <2>3 DEF Carries
  <2>7. Foot(a, u, mode')
    <3>1. \A p \in (Base(a) + 1)..Len(u) : u[p].kind \in Own(a)
      <4>1. CASE a.kind = "ccall"
        BY <1>2, <2>1, <2>4, <4>1
      <4>2. CASE a.kind = "interp" /\ a.fn = "nested" /\ f.kind = "lua"
        <5>1. \A p \in (Base(a) + 1)..Len(u) : p = n + 1
          BY <1>2, <2>1, <2>4, <4>2
        <5> QED BY <2>1, <4>2, <5>1 DEF Own
      <4> QED BY <1>5, <4>1, <4>2
    <3>2. Base(a) <= Len(u)
      BY <1>2, <2>1, <2>4
    <3> QED BY <1>5, <3>1, <3>2 DEF Foot
  <2> QED BY <1>2, <1>5, <2>1, <2>2, <2>3, <2>5, <2>6, <2>7, GoesAbove
<1>6. CASE CallLua
  <2> DEFINE f == Frame("lua", "lua")  u == Pushed(Stack, f)
  <2>1. /\ LuaRuns /\ frames' = [frames EXCEPT ![current] = u] /\ native' = native /\ current' = current
        /\ mode' = "run"
    BY <1>2, <1>6 DEF CallLua, Stack
  <2>2. /\ u \in Seq(FrameSet) /\ Len(u) = n + 1 /\ u[n + 1].kind = "lua" /\ Holds(u, Stack, Base(Top))
        /\ \A p \in (Base(Top) + 1)..n : u[p].kind \in Own(Top)
        /\ \A p \in (Base(Top) + 1)..(n + 1) : p = n + 1 \/ p \in (Base(Top) + 1)..n
    BY <1>3, <1>4
  <2> HIDE DEF u
  <2>3. \A p \in (Base(Top) + 1)..Len(u) : u[p].kind \in Own(Top)
    BY <1>2, <2>1, <2>2
  <2>4. Foot(Top, u, mode')
    BY <1>2, <2>1, <2>2, <2>3 DEF Foot
  <2> QED BY <1>2, <2>1, <2>2, <2>4, GoesOnThere
<1>7. CASE CallClosure
  <2> DEFINE a == Interp("nested", n + 1)
  <2>1. CBody
    BY <1>2, <1>7 DEF CallClosure, PlainFeatures
  <2>2. a \in Activation /\ a.th = current /\ a.fn = "nested" /\ a.kind = "interp"
    BY <1>2, NewActivations
  <2>3. a.depth = n + 1
    BY DEF Interp
  <2>4. /\ native' = Append(native, a) /\ frames' = [frames EXCEPT ![current] = Pushed(Stack, LuaFrame)]
        /\ current' = current /\ mode' = "run"
    BY <1>2, <1>7, <2>1 DEF CallClosure, Stack, n
  <2> HIDE DEF a
  <2> QED BY <1>3, <1>5, <2>2, <2>3, <2>4 DEF Resumers
<1>8. ASSUME NEW fn \in {"pcall"} \cup (Features \cap {"xpcall", "dofile", "sort"}), CallC(fn)
      PROVE  Stand' /\ Tops'
  <2> DEFINE a == CCall(fn, Main, "call")
  <2>1. fn \in Yieldable \cup {"sort"} /\ Main \in Thread
    BY DEF Yieldable, Thread
  <2>2. a \in Activation /\ a.th = current /\ a.fn = fn /\ a.kind = "ccall"
    BY <2>1, NewActivations
  <2>3. a.depth = n + 1
    BY DEF CCall, Stack, n
  <2>4. /\ native' = Append(native, a)
        /\ frames' = [frames EXCEPT ![current] = Pushed(Stack, Frame("capi", fn))]
        /\ current' = current /\ mode' = "run"
    BY <1>2, <1>8 DEF CallC, Stack
  <2>5. fn \notin Resumers /\ fn # "drain"
    BY <2>1 DEF Yieldable, Resumers
  <2>6. Frame("capi", fn) \in FrameSet /\ Frame("capi", fn).kind = "capi" /\ Frame("capi", fn).fn = fn
    BY <1>3, <2>1
  <2> HIDE DEF a
  <2> QED BY <1>5, <2>2, <2>3, <2>4, <2>5, <2>6
<1>9. CASE CallYield
  <2>1. CASE ~CanYield
    BY <1>1, <1>9, <2>1, ThrownStand DEF CallYield
  <2>2. CASE CanYield
    <3> DEFINE f == Frame("capi", "yield")  u == Pushed(Stack, f)
    <3>1. /\ frames' = [frames EXCEPT ![current] = u] /\ native' = native /\ current' = current
          /\ mode' = "yield"
      BY <1>9, <2>2 DEF CallYield, Stack
    <3>2. /\ u \in Seq(FrameSet) /\ Len(u) = n + 1 /\ u[n + 1].kind = "capi" /\ Holds(u, Stack, Base(Top))
          /\ \A p \in (Base(Top) + 1)..n : u[p].kind \in Own(Top)
      BY <1>3, <1>4
    <3> HIDE DEF u
    <3>3. Len(u) - 1 = n /\ Base(Top) < Len(u)
      BY <1>2, <3>2
    <3>4. Foot(Top, u, mode')
      BY <1>2, <3>1, <3>2, <3>3 DEF Foot
    <3> QED BY <1>2, <3>1, <3>2, <3>4, GoesOnThere
  <2> QED BY <2>1, <2>2
<1>10. CASE CallError
  BY <1>1, <1>10, ThrownStand DEF CallError
<1>11. ASSUME NEW co \in Co, RefuseWrap(co) PROVE Stand' /\ Tops'
  BY <1>1, <1>11, ThrownStand DEF RefuseWrap
<1> QED BY <1>6, <1>7, <1>8, <1>9, <1>10, <1>11

\* A coroutine that can be resumed is not on the C++ stack.
LEMMA ResumableOff ==
    ASSUME CoInv, ChainInv, mode = "run", NEW co \in Co, Resumable(co)
    PROVE  co \in Thread /\ co # Main /\ co # current /\ ~OnChain(native, co)
<1>1. co \in Thread /\ co # Main
  BY CoroutineAssumption DEF Thread
<1>2. status[co] # "Running"
  BY DEF Resumable
<1>3. ~OnChain(native, co)
  BY <1>1, <1>2 DEF ChainInv, StatusTells
<1> QED BY <1>1, <1>3, CurrentOnChain

\* A resume.
LEMMA EntersStand ==
    ASSUME PlainFeatures, CoInv, ChainInv, PlainInv, Stand, Tops, SleptInv,
           NEW fn \in {"resume"} \cup (Features \cap {"wrap"}), NEW co \in Co, CallResume(fn, co)
    PROVE  Stand' /\ Tops'
<1> DEFINE n == Len(Stack)
           pc == IF status[co] = "Fresh" THEN "first" ELSE "drain"
           a == CCall(fn, co, pc)
           f == Frame("capi", fn)
           u == Pushed(Stack, f)
           v == IF status[co] = "Fresh" THEN <<>> ELSE Resumed(frames[co])
<1>1. Calls /\ Resumable(co)
  BY DEF CallResume
<1>2. /\ mode = "run" /\ native # <<>> /\ Top \in Activation /\ Shaped(Top)
      /\ current \in Thread /\ Framed(frames) /\ Stack \in Seq(FrameSet)
      /\ n \in Nat /\ Base(Top) \in Nat /\ Base(Top) <= n
      /\ \A p \in (Base(Top) + 1)..n : Stack[p].kind \in Own(Top)
      /\ Top.pc \notin Continued
  BY <1>1, CallerFacts
<1>3. co \in Thread /\ co # Main /\ co # current /\ ~OnChain(native, co)
  BY <1>1, <1>2, ResumableOff
<1>4. fn \in Resumers /\ pc \in {"call", "first", "drain"}
  BY DEF Resumers
<1>5. a \in Activation /\ a.th = current /\ a.fn = fn /\ a.kind = "ccall" /\ a.co = co /\ a.pc = pc
  BY <1>3, <1>4, NewActivations
<1>6. f \in FrameSet /\ f.kind = "capi" /\ f.fn = fn
  BY <1>4, NewFrames DEF Frame
<1> HIDE DEF n, f, FrameSet
<1>7. /\ u \in Seq(FrameSet) /\ Len(u) = n + 1 /\ u[n + 1] = f
      /\ Holds(u, Stack, Base(Top)) /\ \A p \in (Base(Top) + 1)..n : u[p].kind \in Own(Top)
  BY <1>2, <1>6, PushedFacts, PushedAbove DEF n
<1>8. frames' = [[frames EXCEPT ![current] = u] EXCEPT ![co] = v]
  <2>1. frames' = LET caller == [frames EXCEPT ![current] = u]
                  IN  IF status[co] = "Fresh" THEN [caller EXCEPT ![co] = <<>>]
                      ELSE [caller EXCEPT ![co] = Resumed(caller[co])]
    BY DEF CallResume, Stack, f
  <2>2. [frames EXCEPT ![current] = u][co] = frames[co]
    BY <1>2, <1>3 DEF Framed
  <2> HIDE DEF u
  <2> QED BY <2>1, <2>2
<1>9. native' = Append(native, a) /\ current' = co /\ mode' = "run"
  BY <1>2 DEF CallResume
<1>10. frames[co] \in Seq(FrameSet)
  BY <1>2, <1>3 DEF Framed
<1>11. v \in Seq(FrameSet) /\ \A p \in 1..Len(v) : v[p].kind \in {"lua", "continue"} /\ status[co] # "Fresh"
  <2>1. CASE status[co] = "Fresh"
    BY <2>1, EmptySeq
  <2>2. CASE status[co] # "Fresh"
    <3> DEFINE w == frames[co]
    <3>1. status[co] = "Suspended"
      BY <1>1, <2>2 DEF Resumable
    <3>2. w # <<>> /\ Last(w).kind = "capi" /\ \A p \in 1..(Len(w) - 1) : w[p].kind \in {"lua", "continue"}
      BY <1>2, <1>3, <3>1 DEF SleptInv
    <3>3. v = Returned(w)
      BY <2>2, <3>2 DEF Resumed
    <3> HIDE DEF v, w
    <3>4. w \in Seq(FrameSet)
      BY <1>10 DEF w
    <3>5. v \in Seq(FrameSet) /\ Len(v) = Len(w) - 1 /\ SameBelow(v, w, Len(w) - 1)
      BY <3>2, <3>3, <3>4, ReturnedFacts
    <3> QED BY <2>2, <3>2, <3>5 DEF SameBelow, Alike
  <2> QED BY <2>1, <2>2
<1> HIDE DEF u, v
<1>12. /\ Framed(frames') /\ frames'[current] = u /\ frames'[co] = v
       /\ \A t \in Thread : t = current \/ frames'[t] = frames[t] \/ t = co
  BY <1>2, <1>3, <1>7, <1>8, <1>11 DEF Framed
<1> HIDE DEF a, pc
<1>13. Place(a, frames') = n /\ Reach(a, frames') = n + 1 /\ Base(a) = 0
  BY <1>2, <1>4, <1>5, <1>7, <1>12 DEF Place, Reach, Base
<1>14. fn # "drain" /\ fn # "nested"
  BY <1>4 DEF Resumers
<1>15. Stands(a, frames')
  BY <1>2, <1>5, <1>6, <1>7, <1>12, <1>13, <1>14 DEF Stands
<1>16. Carries(Top, a, frames')
  BY <1>2, <1>5, <1>7, <1>12, <1>13, <1>14 DEF Carries
<1>17. Foot(a, v, mode')
  <2>1. \A p \in 1..Len(v) : v[p].kind \in Own(a)
    BY <1>5, <1>11, PlainLeft DEF Own, Continued, pc
  <2>2. Len(v) \in Nat
    BY <1>11
  <2> QED BY <1>9, <1>13, <2>1, <2>2 DEF Foot
<1>18. \A t \in Thread : t = current \/ frames'[t] = frames[t] \/ (t # Main /\ ~OnChain(native, t))
  BY <1>3, <1>12
<1> QED BY <1>2, <1>5, <1>7, <1>9, <1>12, <1>13, <1>15, <1>16, <1>17, <1>18, GoesAbove

-----------------------------------------------------------------------------
(* Going on *)

\* The innermost activation goes on, with the same frames.
LEMMA SameFrames ==
    ASSUME CoInv, ChainInv, Stand, native # <<>>, native' = native, current' = current,
           frames' = frames, Foot(Top, Stack, mode')
    PROVE  Stand' /\ Tops'
  BY DEF Stand, Tops, Top, Stack

\* An error leaves nothing protected that has not been continued.
LEMMA ZoneThrows ==
    ASSUME NEW s \in Seq(FrameSet), PlainStack(s), NEW b \in Nat,
           \A p \in (b + 1)..Len(s) : s[p].kind \in {"lua", "continue"}
    PROVE  \A p \in (b + 1)..Len(s) : s[p].kind = "continue" \/ s[p].fn # "pcall"
<1>1. \A p \in (b + 1)..Len(s) : p \in 1..Len(s)
  OBVIOUS
<1> QED BY <1>1 DEF PlainStack, PlainFrame

\* resume_after_yield runs on the frames of its coroutine.
LEMMA ContinuedFacts ==
    ASSUME CoInv, ChainInv, Stand, native # <<>>, Top.pc \in Continued
    PROVE  /\ Top.fn \in Resumers /\ Top.kind = "ccall" /\ Base(Top) = 0
           /\ Own(Top) = Left
<1>1. Shaped(Top)
  BY BaseBelow
<1>2. Top.fn \in Resumers /\ Top.kind = "ccall"
  BY <1>1 DEF Shaped, Continued, Resumers, Yieldable
<1> QED BY <1>2 DEF Own, Base, Resumers

\* A step of the innermost activation that calls nothing keeps the C++ stack standing.
LEMMA RunsStand ==
    ASSUME PlainFeatures, CoInv, ChainInv, PlainInv, Stand, Tops,
           \/ CallOverflow \/ LuaError \/ ReturnLua \/ FinishContinue \/ RunResumed
           \/ ResumeGoesOn \/ HandlerFails \/ CallHandler \/ Exit \/ UNCHANGED vars
    PROVE  Stand' /\ Tops'
<1> DEFINE n == Len(Stack)
<1>1. CASE Exit \/ UNCHANGED vars
  BY <1>1 DEF Exit, vars, Stand, Tops, Top, Stack
<1>2. CASE HandlerFails \/ CallHandler
  <2>1. native # <<>> => PlainCall(Top)
    BY PlainNative
  <2> QED BY <1>2, <2>1 DEF HandlerFails, CallHandler, InResume, InC, PlainCall
<1>3. ASSUME LuaRuns PROVE Calls
  BY <1>3 DEF Calls
<1>4. ASSUME Calls
      PROVE  /\ native # <<>> /\ Stack \in Seq(FrameSet) /\ PlainStack(Stack) /\ n \in Nat
             /\ Base(Top) \in Nat /\ Base(Top) <= n /\ (LuaRuns => Base(Top) < n)
             /\ \A p \in (Base(Top) + 1)..n : Stack[p].kind \in Own(Top)
             /\ \A p \in (Base(Top) + 1)..n : Stack[p].kind \in {"lua", "continue"}
             /\ mode = "run"
  BY <1>4, CallerFacts
<1>5. current \in Thread /\ Stack \in Seq(FrameSet) /\ PlainStack(Stack)
  BY DEF CoInv, TypeOK, Stack, PlainInv, PlainFrames
<1> HIDE DEF FrameSet
<1>6. CASE CallOverflow \/ LuaError
  <2>1. Calls /\ native' = native /\ current' = current /\ frames' = frames /\ mode' = "throw"
    BY <1>3, <1>6 DEF CallOverflow, LuaError
  <2>2. Foot(Top, Stack, "throw")
    BY <1>4, <2>1, ZoneThrows DEF Foot
  <2> QED BY <1>4, <2>1, <2>2, SameFrames
<1>7. CASE ReturnLua
  <2> DEFINE u == Returned(Stack)
  <2>1. Calls /\ LuaRuns /\ native' = native /\ current' = current /\ mode' = mode /\ Stack # <<>>
    BY <1>3, <1>7 DEF ReturnLua, LuaRuns, BackIs
  <2>2. Last(Stack).fn # "handler"
    <3>1. n \in 1..n
      BY <1>5, <2>1, FrontFacts
    <3> QED BY <1>5, <3>1 DEF PlainStack, PlainFrame, Last
  <2>3. frames' = [frames EXCEPT ![current] = u]
    BY <1>7, <2>2 DEF ReturnLua, Stack
  <2>4. u \in Seq(FrameSet) /\ Len(u) = n - 1 /\ SameBelow(u, Stack, n - 1)
    BY <1>5, <2>1, ReturnedFacts
  <2> HIDE DEF u, n
  <2>5. Holds(u, Stack, Base(Top))
    BY <1>4, <2>1, <2>4 DEF Holds, SameBelow
  <2>6. Foot(Top, u, mode')
    BY <1>4, <2>1, <2>4 DEF Foot, SameBelow, Alike
  <2> QED BY <1>4, <2>1, <2>3, <2>4, <2>5, <2>6, GoesOnThere
<1>8. ASSUME native # <<>>, Top.pc \in Continued, mode \in {"run", "ok"}
      PROVE  /\ Base(Top) = 0 /\ Own(Top) = {"lua", "continue"} /\ n \in Nat /\ Top.fn \in Resumers
             /\ \A p \in 1..n : Stack[p].kind \in {"lua", "continue"}
  <2>1. Base(Top) = 0 /\ Own(Top) = {"lua", "continue"} /\ Top.fn \in Resumers
    BY <1>8, ContinuedFacts, PlainLeft
  <2> QED BY <1>5, <1>8, <2>1 DEF Tops, Foot
<1>9. CASE FinishContinue
  <2> DEFINE u == Returned(Stack)
  <2>1. /\ native # <<>> /\ Top.pc \in Continued /\ mode = "run" /\ mode' = "run" /\ Stack # <<>>
        /\ native' = native /\ current' = current /\ frames' = [frames EXCEPT ![current] = u]
    BY <1>9 DEF FinishContinue, Draining, BackIs, Continued, Stack
  <2>2. u \in Seq(FrameSet) /\ Len(u) = n - 1 /\ SameBelow(u, Stack, n - 1)
    BY <1>5, <2>1, ReturnedFacts
  <2>3. /\ Base(Top) = 0 /\ Own(Top) = {"lua", "continue"} /\ n \in Nat
        /\ \A p \in 1..n : Stack[p].kind \in {"lua", "continue"}
    BY <1>8, <2>1
  <2> HIDE DEF u, n
  <2>4. Len(u) \in Nat
    BY <2>2
  <2>5. Holds(u, Stack, Base(Top))
    BY <2>3, <2>4 DEF Holds, SameBelow
  <2>6. Foot(Top, u, mode')
    BY <2>1, <2>2, <2>3, <2>4 DEF Foot, SameBelow, Alike
  <2> QED BY <2>1, <2>2, <2>5, <2>6, GoesOnThere
<1>10. CASE ResumeGoesOn
  <2>1. native # <<>> /\ mode = "ok" /\ mode' = "run" /\ current' = current
    BY <1>10 DEF ResumeGoesOn, InResume
  <2>2. PlainCall(Top) /\ Top \in Activation /\ Framed(frames) /\ native \in Seq(Activation)
    BY <2>1, PlainNative, TopOwned DEF Framed, CoInv, TypeOK
  <2>3. frames' = frames
    BY <1>5, <1>10, <2>2 DEF ResumeGoesOn, PlainCall, Framed
  <2>4. native' = native
    <3>1. native' = [native EXCEPT ![Len(native)].pc = @]
      BY <1>10, <2>2 DEF ResumeGoesOn, PlainCall
    <3>2. native' = [native EXCEPT ![Len(native)] = [Top EXCEPT !.pc = @]]
      BY <3>1 DEF Top, Last
    <3>3. [Top EXCEPT !.pc = @] = Top
      BY <2>2 DEF Activation
    <3> QED BY <2>2, <3>2, <3>3 DEF Top, Last
  <2>5. Foot(Top, Stack, mode')
    BY <2>1 DEF Tops, Foot
  <2> QED BY <2>1, <2>3, <2>4, <2>5, SameFrames
<1>11. CASE RunResumed
  <2>1. /\ native # <<>> /\ Top.pc \in Continued /\ mode = "run" /\ frames' = frames /\ current' = current
    BY <1>11 DEF RunResumed, Draining, Continued
  <2>2. /\ Base(Top) = 0 /\ Own(Top) = {"lua", "continue"} /\ n \in Nat
        /\ \A p \in 1..n : Stack[p].kind \in {"lua", "continue"}
    BY <1>8, <2>1
  <2>3. CASE ~BackIs("lua")
    <3>1. native' = native /\ mode' = "ok"
      BY <1>11, <2>3 DEF RunResumed
    <3>2. Foot(Top, Stack, "ok")
      BY <2>2, <2>3 DEF Foot, BackIs
    <3> QED BY <2>1, <3>1, <3>2, SameFrames
  <2>4. CASE BackIs("lua")
    <3> DEFINE a == Interp("drain", 1)
    <3>1. a \in Activation /\ a.th = current /\ a.fn = "drain" /\ a.kind = "interp"
      BY NewActivations
    <3>2. a.depth = 1
      BY DEF Interp
    <3>3. native' = Append(native, a) /\ mode' = "run"
      BY <1>11, <2>1, <2>4 DEF RunResumed
    <3> HIDE DEF a, n
    <3>4. Base(a) = 0 /\ Place(a, frames') = 0 /\ Reach(a, frames') = 0 /\ Own(a) = {"lua", "continue"}
      BY <3>1, <3>2, PlainLeft DEF Base, Place, Reach, Resumers, Own
    <3>5. Stands(a, frames') /\ Carries(Top, a, frames')
      BY <1>5, <2>1, <2>2, <3>1, <3>2, <3>4 DEF Stands, Carries, Stack, n
    <3>6. Foot(a, Stack, mode')
      BY <2>2, <3>3, <3>4 DEF Foot, n
    <3>7. Framed(frames') /\ Holds(frames'[current], Stack, Base(Top))
      BY <2>1, <2>2 DEF Framed, CoInv, TypeOK, Holds, SameBelow, Alike, Stack, n
    <3> QED BY <2>1, <2>2, <3>1, <3>3, <3>4, <3>5, <3>6, <3>7, GoesAbove DEF Stack
  <2> QED BY <2>3, <2>4
<1> QED BY <1>1, <1>2, <1>6, <1>7, <1>9, <1>10, <1>11

-----------------------------------------------------------------------------
(* Returns, yields and errors leave the C++ stack standing *)

\* What is known of the activation that goes.
LEMMA GoingFacts ==
    ASSUME CoInv, ChainInv, Stand, native # <<>>, Top.fn \notin Resumers
    PROVE  /\ Top.th = current /\ current \in Thread /\ Framed(frames)
           /\ Stack = frames[Top.th] /\ Stack \in Seq(FrameSet) /\ Len(Stack) \in Nat
           /\ PlainInv => PlainStack(Stack) /\ PlainCall(Top)
           /\ Top \in Activation /\ Shaped(Top) /\ Top.depth \in Nat
           /\ Base(Top) \in Nat /\ Base(Top) <= Len(Stack)
           /\ Place(Top, frames) = Top.depth - 1 /\ Place(Top, frames) \in Nat
           /\ Top.kind = "interp" => Base(Top) = Place(Top, frames)
           /\ Top.kind = "ccall" => /\ Base(Top) = Top.depth /\ Base(Top) = Place(Top, frames) + 1
                                    /\ Stack[Top.depth].kind = "capi" /\ Stack[Top.depth].fn = Top.fn
           /\ Top.fn = "drain" => Top.depth = 1
<1>1. /\ Top.th = current /\ current \in Thread /\ Top \in Activation /\ Shaped(Top) /\ Framed(frames)
      /\ Top.depth \in Nat
  BY TopOwned DEF CoInv, TypeOK, Framed, Activation
<1>2. Stack = frames[Top.th] /\ Stack \in Seq(FrameSet) /\ Len(Stack) \in Nat
  BY <1>1 DEF Stack, Framed
<1>9. PlainInv => PlainStack(Stack) /\ PlainCall(Top)
  BY <1>1, <1>2, PlainNative DEF PlainInv, PlainFrames
<1>3. Base(Top) \in Nat /\ Base(Top) <= Len(Stack) /\ Stands(Top, frames)
  BY BaseBelow
<1>4. Place(Top, frames) = Top.depth - 1 /\ Place(Top, frames) \in Nat
  BY <1>3 DEF Place, Stands
<1>5. Base(Top) = IF Top.kind = "interp" THEN Top.depth - 1 ELSE Top.depth
  BY DEF Base
<1>6. Top.depth - 1 + 1 = Top.depth
  BY <1>1
<1>7. Top.kind = "ccall" => Stack[Top.depth].kind = "capi" /\ Stack[Top.depth].fn = Top.fn
  BY <1>2, <1>3, <1>4, <1>6 DEF Stands
<1>8. Top.fn = "drain" => Top.depth = 1
  BY <1>3 DEF Stands
<1> HIDE DEF Base, Place
<1> QED BY <1>1, <1>2, <1>3, <1>4, <1>5, <1>6, <1>7, <1>8, <1>9

\* The interpreter is left: every frame from its entry frame on has returned.
LEMMA LeaveInterpStand ==
    ASSUME PlainFeatures, CoInv, ChainInv, PlainInv, Stand, Tops, LeaveInterp
    PROVE  Stand' /\ Tops'
<1> DEFINE n == Len(Stack)
<1>1. /\ native # <<>> /\ mode = "run" /\ Top.kind = "interp" /\ ~LuaRuns /\ native' = Front(native)
      /\ frames' = frames /\ current' = current /\ mode' = Landed(Front(native))
  BY DEF LeaveInterp
<1>2. Top.fn \notin Resumers
  <2>1. Shaped(Top)
    BY <1>1, TopOwned
  <2> QED BY <1>1, <2>1 DEF Shaped, Resumers
<1>3. /\ Top.th = current /\ current \in Thread /\ Framed(frames) /\ Stack = frames[Top.th]
      /\ Stack \in Seq(FrameSet) /\ n \in Nat /\ Shaped(Top) /\ Top.depth \in Nat
      /\ Base(Top) \in Nat /\ Base(Top) <= n
      /\ Base(Top) = Place(Top, frames) /\ Place(Top, frames) = Top.depth - 1
      /\ Top.fn = "drain" => Top.depth = 1
  BY <1>1, <1>2, GoingFacts
<1>4. Top.fn \in {"nested", "drain"}
  BY <1>1, <1>3 DEF Shaped, PlainFeatures
<1>5. \A p \in (Base(Top) + 1)..n : Stack[p].kind \in Own(Top)
  BY <1>1 DEF Tops, Foot
<1>6. Base(Top) < n => ~BackIs("lua")
  BY <1>1, <1>3 DEF LuaRuns
<1>7. mode' \in {"run", "ok"}
  BY <1>1 DEF Landed
<1>8. Holds(Stack, frames[Top.th], Place(Top, frames))
  BY <1>3 DEF Holds, SameBelow, Alike
<1>9. frames' = [frames EXCEPT ![Top.th] = Stack]
  BY <1>1, <1>3 DEF Framed
<1>10. CASE Top.fn = "nested"
  <2>1. n = Place(Top, frames)
    <3>1. SUFFICES ASSUME Base(Top) < n PROVE FALSE
      BY <1>3
    <3>2. n \in (Base(Top) + 1)..n /\ Stack # <<>>
      BY <1>3, <3>1
    <3>3. Last(Stack).kind = "lua"
      BY <1>5, <1>10, <3>2 DEF Own, Last
    <3> QED BY <1>6, <3>1, <3>2, <3>3 DEF BackIs
  <2>2. Front(native) # <<>> => Foot(Below, Stack, mode')
    BY <1>1, <1>3, <1>7, <1>8, <1>10, <2>1, LandReturned DEF Holds
  <2> QED BY <1>1, <1>3, <1>8, <1>9, <2>2, GoesBelow
<1>11. CASE Top.fn = "drain"
  <2>1. Base(Top) = 0 /\ Place(Top, frames) = 0
    BY <1>3, <1>11
  <2>2. \A p \in 1..n : Stack[p].kind \in {"lua", "continue"}
    BY <1>5, <1>11, <2>1, PlainLeft DEF Own
  <2>3. Stack # <<>> => Last(Stack).kind # "lua"
    <3>1. Stack # <<>> => 0 < n
      BY <1>3, FrontFacts
    <3> QED BY <1>6, <2>1, <3>1 DEF BackIs
  <2>4. ASSUME Front(native) # <<>> PROVE Foot(Below, Stack, mode')
    <3>1. Below.pc \in Continued /\ Base(Below) = 0
      BY <1>1, <1>11, <2>4, BelowFacts DEF Carries
    <3>2. {"lua", "continue"} \subseteq Own(Below)
      <4>1. Shaped(Below)
        BY <1>1, <2>4, BelowFacts
      <4> QED BY <3>1, <4>1, PlainLeft DEF Own, Shaped, Continued, Resumers, Yieldable
    <3> QED BY <1>3, <1>7, <2>2, <2>3, <3>1, <3>2 DEF Foot
  <2> QED BY <1>1, <1>3, <1>8, <1>9, <2>4, GoesBelow
<1> QED BY <1>4, <1>10, <1>11

\* A C function that is not yieldable is never yielded through.
LEMMA ReturnsOk ==
    ASSUME CoInv, ReturnC PROVE mode = "ok"
<1>1. native # <<>> /\ Top.kind = "ccall" /\ (mode = "ok" \/ (mode = "yield" /\ Top.fn = "sort"))
  BY DEF ReturnC, InC
<1>2. Top.fn \notin Resumers
  BY DEF ReturnC, InC, Yieldable, Resumers
<1>3. SUFFICES ASSUME mode = "yield", Top.fn = "sort" PROVE FALSE
  BY <1>1
<1>4. Unit(Top, current) = 1
  BY <1>1, <1>2, <1>3, TopOwned DEF Unit, Blocks, Yieldable
<1> DEFINE x == Cardinality(Blocking(Front(native), current))
<1>5. /\ native \in Seq(Activation) /\ nny[current] = Cardinality(Blocking(native, current))
      /\ nny[current] = 0
  BY <1>3 DEF CoInv, TypeOK, YieldAllowed
<1>6. Cardinality(Blocking(native, current)) = x + Unit(Top, current) /\ x \in Nat
  BY <1>1, <1>5, BlockingCount DEF Top
<1>7. x \in Nat /\ 0 = x + 1
  BY <1>4, <1>5, <1>6
<1> HIDE DEF x
<1> QED BY <1>7

\* A C function returns, yields, throws or catches an error.
LEMMA UnwindStand ==
    ASSUME PlainFeatures, CoInv, ChainInv, PlainInv, Stand, Tops,
           ReturnC \/ YieldC \/ YieldInterp \/ ThrowInterp \/ ThrowC \/ CatchC
    PROVE  Stand' /\ Tops'
<1> DEFINE n == Len(Stack)  k == Place(Top, frames)
<1>1. native # <<>> /\ native' = Front(native) /\ current' = current /\ mode # "run"
  BY DEF ReturnC, YieldC, YieldInterp, ThrowInterp, ThrowC, CatchC, InC
<1>2. Top.fn \notin Resumers
  <2>1. Shaped(Top)
    BY <1>1, TopOwned
  <2> QED BY <2>1 DEF Shaped, Resumers, ReturnC, YieldC, YieldInterp, ThrowInterp, ThrowC, CatchC, InC,
                     Yieldable, Protected
<1>3. /\ Top.th = current /\ current \in Thread /\ Framed(frames) /\ Stack = frames[Top.th]
      /\ Stack \in Seq(FrameSet) /\ PlainStack(Stack) /\ n \in Nat /\ Shaped(Top) /\ PlainCall(Top)
      /\ Top.depth \in Nat /\ Base(Top) \in Nat /\ Base(Top) <= n /\ k = Top.depth - 1 /\ k \in Nat
      /\ Top.kind = "interp" => Base(Top) = k
      /\ Top.kind = "ccall" => /\ Base(Top) = Top.depth /\ Base(Top) = k + 1
                               /\ Stack[Top.depth].kind = "capi" /\ Stack[Top.depth].fn = Top.fn
  BY <1>1, <1>2, GoingFacts
<1>4. Foot(Top, Stack, mode)
  BY <1>1 DEF Tops
<1>5. frames = [frames EXCEPT ![Top.th] = Stack]
  BY <1>3 DEF Framed
<1> HIDE DEF FrameSet, n, k
<1>6. ASSUME NEW u \in Seq(FrameSet), frames' = [frames EXCEPT ![Top.th] = u], Holds(u, Stack, k),
             Front(native) # <<>> => Foot(Below, u, mode')
      PROVE  Stand' /\ Tops'
  BY <1>1, <1>3, <1>6, GoesBelow DEF k
<1>7. ASSUME NEW u \in Seq(FrameSet), frames' = [frames EXCEPT ![Top.th] = u], Len(u) = k, SameBelow(u, Stack, k),
             Top.fn # "drain", mode' = Landed(Front(native))
      PROVE  Stand' /\ Tops'
  <2>1. mode' \in {"run", "ok"} /\ Holds(u, Stack, k)
    BY <1>3, <1>7 DEF Landed, Holds
  <2>2. Front(native) # <<>> => Foot(Below, u, mode')
    BY <1>1, <1>3, <1>7, <2>1, LandReturned DEF k
  <2> QED BY <1>6, <1>7, <2>1, <2>2
<1>8. ASSUME NEW u \in Seq(FrameSet), frames' = [frames EXCEPT ![Top.th] = u], Holds(u, Stack, k), PlainStack(u),
             \A p \in (k + 1)..Len(u) : u[p].kind = "continue" \/ u[p].fn # "pcall", mode' = "throw"
      PROVE  Stand' /\ Tops'
  <2>1. Front(native) # <<>> => Foot(Below, u, mode')
    BY <1>1, <1>3, <1>8, LandThrown DEF k
  <2> QED BY <1>6, <1>8, <2>1
<1>9. ASSUME NEW u \in Seq(FrameSet), frames' = [frames EXCEPT ![Top.th] = u], Holds(u, Stack, k),
             k < Len(u), u[Len(u)].kind = "capi",
             \A p \in (k + 1)..(Len(u) - 1) : u[p].kind \in {"lua", "continue"}, mode' = "yield"
      PROVE  Stand' /\ Tops'
  <2>1. Front(native) # <<>> => Foot(Below, u, mode')
    BY <1>1, <1>3, <1>9, LandYielded DEF k
  <2> QED BY <1>6, <1>9, <2>1
<1>10. Holds(Stack, Stack, k)
  BY <1>3 DEF Holds, SameBelow, Alike, Shaped, n
<1>11. CASE ReturnC
  <2>1. /\ Top.kind = "ccall" /\ Top.fn \in Yieldable \cup {"sort"} /\ Top.fn # "drain" /\ Top.pc = "call"
        /\ mode' = Landed(Front(native)) /\ frames' = [frames EXCEPT ![Top.th] = Returned(Stack)]
    <3>1. Top.kind = "ccall" /\ Top.fn \in Yieldable \cup {"sort"}
      BY <1>11 DEF ReturnC, InC
    <3>2. Top.fn # "drain" /\ Top.pc = "call"
      BY <1>3, <3>1 DEF Shaped, PlainCall, Yieldable, Resumers
    <3> QED BY <1>3, <1>11, <3>1, <3>2 DEF ReturnC, Stack
  <2>2. mode = "ok"
    BY <1>11, ReturnsOk
  <2>3. n = k + 1
    <3>1. Own(Top) = {}
      BY <2>1 DEF Own, Continued, Yieldable
    <3>2. Base(Top) < n => n \in (Base(Top) + 1)..n
      BY <1>3
    <3> QED BY <1>3, <1>4, <2>1, <2>2, <3>1, <3>2 DEF Foot, n
  <2> DEFINE u == Returned(Stack)
  <2>4. u \in Seq(FrameSet) /\ Len(u) = n - 1 /\ SameBelow(u, Stack, n - 1)
    <3>1. Stack # <<>>
      BY <1>3, <2>3 DEF n
    <3> QED BY <1>3, <3>1, ReturnedFacts DEF n
  <2>5. n - 1 = k
    BY <1>3, <2>3
  <2> HIDE DEF u
  <2> QED BY <1>7, <2>1, <2>4, <2>5 DEF u
<1>12. CASE YieldC
  <2>1. mode = "yield" /\ mode' = "yield" /\ Top.kind = "ccall"
    BY <1>12 DEF YieldC, InC
  <2>2. /\ Base(Top) < n /\ Stack[n].kind = "capi"
        /\ \A p \in (Base(Top) + 1)..(n - 1) : Stack[p].kind \in {"lua", "continue"}
    BY <1>4, <2>1 DEF Foot, n
  <2> DEFINE f == [Stack[Top.depth] EXCEPT !.kind = "continue"]
             u == [Stack EXCEPT ![Top.depth] = f]
  <2>3. Top.depth \in 1..n /\ Top.depth < n /\ Stack[Top.depth] \in FrameSet
    BY <1>3, <2>1, <2>2 DEF n
  <2>4. f \in FrameSet /\ f.kind = "continue"
    BY <2>3 DEF FrameSet
  <2>5. frames' = [frames EXCEPT ![Top.th] = u]
    BY <1>3, <1>12 DEF YieldC, Stack
  <2> HIDE DEF f
  <2>6. u \in Seq(FrameSet) /\ Len(u) = n /\ \A p \in 1..n : u[p] = IF p = Top.depth THEN f ELSE Stack[p]
    BY <1>3, <2>3, <2>4, ExceptSeq DEF n
  <2> HIDE DEF u
  <2>7. Holds(u, Stack, k)
    <3>1. k <= n /\ \A p \in 1..k : p \in 1..n /\ p # Top.depth
      BY <1>3, <2>3
    <3> QED BY <2>6, <3>1 DEF Holds, SameBelow, Alike
  <2>8. k < Len(u) /\ u[Len(u)].kind = "capi"
    <3>1. n \in 1..n /\ n # Top.depth /\ k < n
      BY <1>3, <2>1, <2>2, <2>3
    <3> QED BY <2>2, <2>6, <3>1
  <2>9. \A p \in (k + 1)..(Len(u) - 1) : u[p].kind \in {"lua", "continue"}
    <3> SUFFICES ASSUME NEW p \in (k + 1)..(n - 1) PROVE u[p].kind \in {"lua", "continue"}
      BY <2>6
    <3>1. p = Top.depth \/ p \in (Base(Top) + 1)..(n - 1)
      BY <1>3, <2>1
    <3>2. p \in 1..n
      BY <1>3
    <3> QED BY <2>2, <2>4, <2>6, <3>1, <3>2
  <2> QED BY <1>9, <2>1, <2>5, <2>6, <2>7, <2>8, <2>9
<1>13. CASE YieldInterp
  <2>1. /\ mode = "yield" /\ Top.kind = "interp" /\ frames' = [frames EXCEPT ![Top.th] = Stack]
        /\ mode' = IF Top.fn = "meta" THEN "run" ELSE "yield"
    BY <1>5, <1>13 DEF YieldInterp
  <2>2. Top.fn # "meta"
    BY <1>3, <2>1 DEF Shaped, PlainFeatures
  <2>3. /\ Base(Top) < n /\ Stack[n].kind = "capi"
        /\ \A p \in (Base(Top) + 1)..(n - 1) : Stack[p].kind \in {"lua", "continue"}
    BY <1>4, <2>1 DEF Foot, n
  <2> QED BY <1>3, <1>9, <1>10, <2>1, <2>2, <2>3 DEF n
<1>14. CASE ThrowInterp
  <2>1. mode = "throw" /\ mode' = "throw" /\ Top.kind = "interp" /\ frames' = [frames EXCEPT ![Top.th] = Stack]
    BY <1>5, <1>14 DEF ThrowInterp
  <2>2. \A p \in (Base(Top) + 1)..n : Stack[p].kind = "continue" \/ Stack[p].fn # "pcall"
    BY <1>4, <2>1 DEF Foot, n
  <2> QED BY <1>3, <1>8, <1>10, <2>1, <2>2 DEF n
<1>15. CASE ThrowC
  <2>1. /\ mode = "throw" /\ mode' = "throw" /\ Top.kind = "ccall" /\ Top.fn \in {"sort", "dofile"}
        /\ frames' = IF current # Main \/ Stack = <<>> THEN frames ELSE [frames EXCEPT ![Top.th] = Front(Stack)]
    BY <1>3, <1>15 DEF ThrowC, InC, Stack
  <2>2. \A p \in (k + 1)..n : Stack[p].kind = "continue" \/ Stack[p].fn # "pcall"
    <3>1. \A p \in (k + 1)..n : p = k + 1 \/ p \in (Base(Top) + 1)..n
      BY <1>3, <2>1
    <3>2. Stack[k + 1].fn # "pcall"
      BY <1>3, <2>1
    <3> QED BY <1>4, <2>1, <3>1, <3>2 DEF Foot, n
  <2>3. CASE current # Main \/ Stack = <<>>
    BY <1>3, <1>5, <1>8, <1>10, <2>1, <2>2, <2>3 DEF n
  <2>4. CASE ~(current # Main \/ Stack = <<>>)
    <3> DEFINE u == Front(Stack)
    <3>1. u \in Seq(FrameSet) /\ Len(u) = n - 1 /\ \A p \in 1..(n - 1) : u[p] = Stack[p]
      BY <1>3, <2>4, FrontFacts DEF n
    <3>2. PlainStack(u) /\ frames' = [frames EXCEPT ![Top.th] = u]
      BY <1>3, <2>1, <2>4, PlainOps
    <3> HIDE DEF u
    <3>3. Holds(u, Stack, k)
      BY <1>3, <2>1, <3>1 DEF Holds, SameBelow, Alike
    <3>4. \A p \in (k + 1)..Len(u) : u[p].kind = "continue" \/ u[p].fn # "pcall"
      <4>1. \A p \in (k + 1)..(n - 1) : p \in 1..(n - 1) /\ p \in (k + 1)..n
        BY <1>3
      <4> QED BY <2>2, <3>1, <4>1
    <3> QED BY <1>8, <2>1, <3>1, <3>2, <3>3, <3>4
  <2> QED BY <2>3, <2>4
<1>16. CASE CatchC
  <2> DEFINE s == Cut(Stack, Top.depth)  u == Returned(s)
  <2>1. /\ mode = "throw" /\ mode' = Landed(Front(native)) /\ Top.kind = "ccall" /\ Top.fn # "drain"
        /\ frames' = [frames EXCEPT ![Top.th] = u]
    BY <1>3, <1>16 DEF CatchC, InC, Protected, Stack
  <2>2. s \in Seq(FrameSet) /\ Len(s) = k + 1 /\ \A p \in 1..(k + 1) : s[p] = Stack[p]
    BY <1>3, <2>1, CutFacts DEF n
  <2>3. s # <<>>
    BY <1>3, <2>2
  <2> HIDE DEF s
  <2>4. u \in Seq(FrameSet) /\ Len(u) = k + 1 - 1 /\ SameBelow(u, s, k + 1 - 1)
    <3>1. u \in Seq(FrameSet) /\ Len(u) = Len(s) - 1 /\ SameBelow(u, s, Len(s) - 1)
      BY <2>2, <2>3, ReturnedFacts
    <3> QED BY <1>3, <2>2, <3>1
  <2>5. k + 1 - 1 = k /\ \A p \in 1..k : p \in 1..(k + 1)
    BY <1>3
  <2> HIDE DEF u
  <2>6. SameBelow(u, Stack, k)
    BY <2>2, <2>4, <2>5 DEF SameBelow, Alike
  <2> QED BY <1>7, <2>1, <2>4, <2>5, <2>6
<1> QED BY <1>11, <1>12, <1>13, <1>14, <1>15, <1>16

\* A coroutine is left: its resumer has a frame less, unless wrap throws on a
\* coroutine.
LEMMA LeavesStand ==
    ASSUME PlainFeatures, CoInv, ChainInv, PlainInv, Stand, Tops,
           ResumeEnds \/ ResumeYields \/ ResumeFails
    PROVE  Stand' /\ Tops'
<1> DEFINE s == frames[Top.th]  n == Len(s)
<1>1. InResume /\ native # <<>> /\ Top.kind = "ccall" /\ Top.fn \in Resumers
  BY DEF ResumeEnds, ResumeYields, ResumeFails, InResume
<1>2. PICK ok \in BOOLEAN : Resumer(ok)
  BY DEF ResumeEnds, ResumeYields, ResumeFails
<1>3. native' = Front(native) /\ current' = Top.th
  BY <1>2 DEF Resumer
<1>4. Top \in Activation /\ Shaped(Top) /\ Stands(Top, frames) /\ Framed(frames) /\ Top.th \in Thread
  BY <1>1, BaseBelow DEF Activation
<1>5. s \in Seq(FrameSet) /\ PlainStack(s) /\ n \in Nat
  BY <1>4 DEF Framed, PlainInv, PlainFrames
<1> DEFINE k == Place(Top, frames)
<1>6. k = n - 1 /\ k \in Nat /\ k + 1 = n
  <2>1. k = n - 1 /\ k \in Nat
    BY <1>1, <1>4 DEF Stands, Place
  <2> HIDE DEF k, n
  <2> QED BY <1>5, <2>1
<1>7. s[n].fn = Top.fn
  <2>1. s[k + 1].fn = Top.fn
    BY <1>1, <1>4 DEF Stands
  <2> QED BY <1>6, <2>1
<1> HIDE DEF FrameSet, k
<1>8. s # <<>>
  BY <1>5, <1>6
<1>9. CASE ~(Top.fn = "wrap" /\ ~ok)
  <2> DEFINE u == Returned(s)
  <2>1. frames' = [frames EXCEPT ![Top.th] = u] /\ mode' = Landed(Front(native))
    BY <1>2, <1>9 DEF Resumer
  <2>2. u \in Seq(FrameSet) /\ Len(u) = k /\ SameBelow(u, s, k)
    <3>1. u \in Seq(FrameSet) /\ Len(u) = Len(s) - 1 /\ SameBelow(u, s, Len(s) - 1)
      BY <1>5, <1>8, ReturnedFacts
    <3> QED BY <1>6, <3>1
  <2> HIDE DEF u, s
  <2>3. Holds(u, s, k) /\ mode' \in {"run", "ok"} /\ Top.fn # "drain"
    BY <1>1, <1>6, <2>1, <2>2 DEF Holds, Landed, Resumers
  <2>4. Front(native) # <<>> => Foot(Below, u, mode')
    BY <1>1, <2>2, <2>3, LandReturned DEF k, s
  <2> QED BY <1>1, <1>3, <2>1, <2>2, <2>3, <2>4, GoesBelow DEF k, s
<1>10. CASE Top.fn = "wrap" /\ ~ok
  <2>1. mode' = "throw" /\ frames' = IF Top.th # Main THEN frames ELSE [frames EXCEPT ![Top.th] = Front(s)]
    BY <1>2, <1>10 DEF Resumer
  <2>2. ASSUME NEW u \in Seq(FrameSet), frames' = [frames EXCEPT ![Top.th] = u], Holds(u, s, k), PlainStack(u),
               Len(u) = k \/ u = s
        PROVE  Stand' /\ Tops'
    <3>1. \A p \in (k + 1)..Len(u) : u[p].kind = "continue" \/ u[p].fn # "pcall"
      <4>1. CASE Len(u) = k
        BY <1>6, <4>1
      <4>2. CASE u = s
        <5>1. \A p \in (k + 1)..Len(u) : p = n
          BY <1>5, <1>6, <4>2
        <5> QED BY <1>7, <1>10, <4>2, <5>1
      <4> QED BY <2>2, <4>1, <4>2
    <3>2. Front(native) # <<>> => Foot(Below, u, mode')
      BY <1>1, <2>1, <2>2, <3>1, LandThrown DEF k
    <3> QED BY <1>1, <1>3, <2>2, <3>2, GoesBelow DEF k
  <2>3. CASE Top.th # Main
    <3>1. frames' = [frames EXCEPT ![Top.th] = s]
      BY <1>4, <2>1, <2>3 DEF Framed
    <3>2. Holds(s, s, k)
      BY <1>5, <1>6 DEF Holds, SameBelow, Alike
    <3> QED BY <1>5, <2>2, <3>1, <3>2
  <2>4. CASE Top.th = Main
    <3> DEFINE u == Front(s)
    <3>1. u \in Seq(FrameSet) /\ Len(u) = n - 1 /\ \A p \in 1..(n - 1) : u[p] = s[p]
      BY <1>5, <1>8, FrontFacts
    <3>2. PlainStack(u)
      BY <1>5, PlainOps
    <3>3. Holds(u, s, k)
      BY <1>6, <3>1 DEF Holds, SameBelow, Alike
    <3> QED BY <1>6, <2>1, <2>2, <2>4, <3>1, <3>2, <3>3
  <2> QED BY <2>3, <2>4
<1> QED BY <1>9, <1>10

-----------------------------------------------------------------------------
(* An error that a continued call catches *)

\* co_resume cuts the frames off from the innermost continued call on.
LEMMA RecoverFacts ==
    ASSUME CoInv, ResumeRecovers
    PROVE  LET s == Stack
               i == Innermost(s)
           IN  /\ native # <<>> /\ Top.kind = "ccall" /\ Top.fn \in Resumers
               /\ current' = current /\ status' = status /\ mode = "throw" /\ mode' = "run"
               /\ Len(s) \in Nat /\ i \in 1..Len(s) /\ s[i].kind = "continue"
               /\ \A p \in 1..Len(s) : s[p].kind = "continue" => p <= i
               /\ \E u \in Seq(FrameSet) : /\ Len(u) = i - 1 /\ SameBelow(u, s, i - 1)
                                           /\ frames' = [frames EXCEPT ![current] = u]
               /\ \E a \in Activation : /\ native' = [native EXCEPT ![Len(native)] = a]
                                        /\ a.kind = Top.kind /\ a.fn = Top.fn /\ a.th = Top.th
                                        /\ a.co = Top.co /\ a.pc \in {"redrain", "rehandler"}
<1> DEFINE s == Stack  i == Innermost(s)  d == i - 1
           pc == IF s[i].fn = "xpcall" THEN "rehandler" ELSE "redrain"
           a == [Top EXCEPT !.depth = d, !.pc = pc]
<1>1. /\ native # <<>> /\ Top.kind = "ccall" /\ Top.fn \in Resumers /\ Top.co = current
      /\ Top \in Activation /\ s = frames[Top.co]
  BY TopOwned DEF ResumeRecovers, InResume, Stack
<1>2. s \in Seq(FrameSet) /\ Len(s) \in Nat
  BY DEF CoInv, TypeOK, Stack
<1>3. i \in 1..Len(s) /\ s[i].kind = "continue" /\ \A p \in 1..Len(s) : s[p].kind = "continue" => p <= i
  <2> DEFINE C == Continues(s)
  <2>1. C # {} /\ C \subseteq 1..Len(s) /\ \A p \in 1..Len(s) : p \in C <=> s[p].kind = "continue"
    BY <1>1, <1>2 DEF ResumeRecovers, Recovers, Continues
  <2> HIDE DEF s, C
  <2>2. Max(C) \in C /\ \A y \in C : y <= Max(C)
    <3>1. Len(s) \in Int /\ C \subseteq Int /\ \A y \in C : y <= Len(s)
      BY <1>2, <2>1
    <3> QED BY <2>1, <3>1, MaxBounded
  <2>3. \E x \in C : \A y \in C : y <= x
    BY <2>2
  <2>4. i = CHOOSE x \in C : \A y \in C : y <= x
    BY DEF Innermost, C
  <2> HIDE DEF i
  <2>5. i \in C /\ \A y \in C : y <= i
    BY <2>3, <2>4, Zenon
  <2> QED BY <2>1, <2>5
<1>4. /\ frames' = [frames EXCEPT ![current] = IF s[i].fn = "xpcall" THEN Cut(s, i - 1) ELSE Returned(Cut(s, i))]
      /\ current' = current /\ status' = status /\ mode = "throw" /\ mode' = "run"
  BY <1>1 DEF ResumeRecovers
<1>5. native' = [native EXCEPT ![Len(native)].depth = d, ![Len(native)].pc = pc]
  BY <1>1 DEF ResumeRecovers
<1> HIDE DEF s, i, pc, FrameSet
<1>6. Cut(s, i - 1) \in Seq(FrameSet) /\ Len(Cut(s, i - 1)) = i - 1 /\ SameBelow(Cut(s, i - 1), s, i - 1)
  <2>1. i - 1 \in Nat /\ i - 1 < Len(s)
    BY <1>2, <1>3
  <2> QED BY <1>2, <2>1, CutFacts DEF SameBelow, Alike
<1>7. LET u == Returned(Cut(s, i)) IN u \in Seq(FrameSet) /\ Len(u) = i - 1 /\ SameBelow(u, s, i - 1)
  <2> DEFINE c == Cut(s, i)
  <2>1. i \in Nat /\ i <= Len(s) /\ 1 <= i
    BY <1>2, <1>3
  <2>2. c \in Seq(FrameSet) /\ Len(c) = i /\ \A p \in 1..i : c[p] = s[p]
    BY <1>2, <2>1, CutFacts
  <2>3. c # <<>>
    BY <2>1, <2>2
  <2> HIDE DEF c
  <2>4. Returned(c) \in Seq(FrameSet) /\ Len(Returned(c)) = Len(c) - 1 /\ SameBelow(Returned(c), c, Len(c) - 1)
    BY <2>2, <2>3, ReturnedFacts
  <2>5. \A p \in 1..(i - 1) : p \in 1..i
    BY <2>1
  <2> QED BY <2>2, <2>4, <2>5 DEF SameBelow, Alike, c
<1>8. \E u \in Seq(FrameSet) : /\ Len(u) = i - 1 /\ SameBelow(u, s, i - 1)
                               /\ frames' = [frames EXCEPT ![current] = u]
  BY <1>4, <1>6, <1>7
<1>9. native' = [native EXCEPT ![Len(native)] = a]
  <2>1. native \in Seq(Activation) /\ Len(native) \in Nat \ {0} /\ Top = native[Len(native)]
    BY <1>1, TopOwned DEF CoInv, TypeOK, Top, Last
  <2> HIDE DEF d
  <2> QED BY <1>5, <2>1
<1>10. /\ a \in Activation /\ a.kind = Top.kind /\ a.fn = Top.fn /\ a.th = Top.th /\ a.co = Top.co
       /\ a.pc \in {"redrain", "rehandler"}
  <2>1. d \in Nat /\ pc \in {"redrain", "rehandler"}
    BY <1>2, <1>3 DEF pc
  <2> HIDE DEF d
  <2> QED BY <1>1, <2>1 DEF Activation
<1> HIDE DEF a
<1> QED BY <1>1, <1>2, <1>3, <1>4, <1>8, <1>9, <1>10 DEF s, i

\* Of the first n frames of s, what is below a continued call can go on with it.
Calm(s, n) == \A q \in 1..n : s[q].kind = "continue" => \A p \in 1..q : s[p].kind \in {"lua", "continue"}

\* It keeps the C++ stack standing.
LEMMA RecoversStand ==
    ASSUME PlainFeatures, CoInv, ChainInv, PlainInv, Stand, Calm(Stack, Len(Stack)), ResumeRecovers
    PROVE  Stand' /\ Tops'
<1> DEFINE i == Innermost(Stack)
<1>0. PICK u \in Seq(FrameSet) : /\ Len(u) = i - 1 /\ SameBelow(u, Stack, i - 1)
                                 /\ frames' = [frames EXCEPT ![current] = u]
  BY RecoverFacts
<1>1. /\ native # <<>> /\ Top.kind = "ccall" /\ Top.fn \in Resumers /\ current' = current /\ mode' = "run"
      /\ Len(Stack) \in Nat /\ i \in 1..Len(Stack) /\ Stack[i].kind = "continue"
      /\ u \in Seq(FrameSet) /\ Len(u) = i - 1 /\ SameBelow(u, Stack, i - 1)
      /\ frames' = [frames EXCEPT ![current] = u]
  BY <1>0, RecoverFacts
<1>2. PICK a \in Activation : /\ native' = [native EXCEPT ![Len(native)] = a]
                              /\ a.kind = Top.kind /\ a.fn = Top.fn /\ a.th = Top.th
                              /\ a.co = Top.co /\ a.pc \in {"redrain", "rehandler"}
  BY RecoverFacts
<1> HIDE DEF FrameSet, i
<1>3. Framed(frames) /\ current \in Thread /\ native \in Seq(Activation) /\ Last(native) = Top
  BY DEF CoInv, TypeOK, Framed, Top
<1>4. Framed(frames') /\ frames'[current] = u /\ \A t \in Thread : t = current \/ frames'[t] = frames[t]
  BY <1>1, <1>3 DEF Framed
<1>5. Base(Top) = 0 /\ Base(a) = 0
  BY <1>1, <1>2 DEF Base
<1>6. Holds(frames'[current], Stack, Base(Top))
  BY <1>1, <1>4, <1>5 DEF Holds, SameBelow
<1>7. Standing(native, frames')
  BY <1>1, <1>4, <1>6, StandsHere
<1>8. Standing(native', frames')
  BY <1>1, <1>2, <1>3, <1>7, StandingRetop
<1>9. native' # <<>> /\ Last(native') = a
  <2> DEFINE g == [native EXCEPT ![Len(native)] = a]
  <2>1. native # <<>> /\ a \in Activation /\ native \in Seq(Activation)
    BY <1>1, <1>3
  <2> HIDE DEF g
  <2>2. g # <<>> /\ Last(g) = a
    BY <2>1, RetopFacts DEF g
  <2> QED BY <1>2, <2>2 DEF g
<1>10. Own(a) = {"lua", "continue"}
  BY <1>1, <1>2, PlainLeft DEF Own, Continued, Resumers
<1>11. \A p \in 1..(i - 1) : u[p].kind \in {"lua", "continue"}
  <2>1. \A p \in 1..(i - 1) : p \in 1..i
    BY <1>1
  <2>2. \A p \in 1..i : Stack[p].kind \in {"lua", "continue"}
    BY <1>1 DEF Calm
  <2> QED BY <1>1, <2>1, <2>2 DEF SameBelow, Alike
<1>12. Foot(a, u, "run")
  BY <1>1, <1>5, <1>10, <1>11 DEF Foot
<1>13. Foot(Top', Stack', mode')
  BY <1>1, <1>4, <1>9, <1>12 DEF Top, Stack
<1> QED BY <1>8, <1>13 DEF Stand, Tops

-----------------------------------------------------------------------------
(* What is below a continued call *)

Quiet(s) == Calm(s, Len(s))

\* while it yields, the running thread has frames above the innermost activation
\* that the yield has not reached
CalmInv ==
    \A t \in Thread : Calm(frames[t], IF mode = "yield" /\ t = current THEN Base(Top) ELSE Len(frames[t]))

\* The same calls below.
LEMMA CalmBelow ==
    ASSUME NEW s, NEW u, NEW n \in Nat, NEW m \in Nat, m <= n, Calm(s, n), SameBelow(u, s, m)
    PROVE  Calm(u, m)
<1> SUFFICES ASSUME NEW q \in 1..m, u[q].kind = "continue", NEW p \in 1..q
             PROVE  u[p].kind \in {"lua", "continue"}
  BY DEF Calm
<1>1. q \in 1..n /\ p \in 1..m
  OBVIOUS
<1> QED BY <1>1 DEF Calm, SameBelow, Alike

\* No operation on frames puts a call that cannot go on below a continued one.
LEMMA CalmOps ==
    ASSUME NEW s \in Seq(FrameSet), Quiet(s)
    PROVE  /\ \A f \in FrameSet : f.kind # "continue" => Quiet(Pushed(s, f))
           /\ Quiet(Front(s)) /\ Quiet(Returned(s)) /\ Quiet(Resumed(s))
           /\ \A n \in Nat : Quiet(Returned(Cut(s, n)))
<1>1. Len(s) \in Nat
  OBVIOUS
<1> HIDE DEF FrameSet
<1>2. ASSUME NEW v \in Seq(FrameSet), Quiet(v), NEW u \in Seq(FrameSet), Len(u) <= Len(v), SameBelow(u, v, Len(u))
      PROVE  Quiet(u)
  <2>1. Len(v) \in Nat /\ Len(u) \in Nat
    OBVIOUS
  <2> QED BY <1>2, <2>1, CalmBelow DEF Quiet
<1>3. \A u : u = <<>> => Quiet(u)
  BY DEF Quiet, Calm
<1>4. ASSUME NEW f \in FrameSet, f.kind # "continue" PROVE Quiet(Pushed(s, f))
  <2> DEFINE u == Pushed(s, f)
  <2>1. Len(u) = Len(s) + 1 /\ u[Len(s) + 1] = f /\ SameBelow(u, s, Len(s))
    BY PushedFacts
  <2> HIDE DEF u
  <2>2. Calm(u, Len(s))
    BY <1>1, <2>1, CalmBelow DEF Quiet
  <2>3. \A q \in 1..Len(u) : u[q].kind = "continue" => q \in 1..Len(s)
    BY <1>1, <1>4, <2>1
  <2>4. Calm(u, Len(u))
    BY <2>2, <2>3 DEF Calm
  <2> QED BY <2>4 DEF Quiet, u
<1>5. Quiet(Front(s))
  <2>1. CASE s = <<>>
    <3>1. Front(s) = SubSeq(s, 1, Len(s) - 1)
      BY DEF Front
    <3>2. Front(s) = <<>>
      BY <2>1, <3>1, SubSeqEmpty
    <3> QED BY <1>3, <3>2
  <2>2. CASE s # <<>>
    <3>1. Front(s) \in Seq(FrameSet) /\ Len(Front(s)) = Len(s) - 1 /\ \A i \in 1..(Len(s) - 1) : Front(s)[i] = s[i]
      BY <2>2, FrontFacts
    <3>2. Len(Front(s)) <= Len(s) /\ SameBelow(Front(s), s, Len(Front(s)))
      BY <1>1, <3>1 DEF SameBelow, Alike
    <3> QED BY <1>2, <3>1, <3>2
  <2> QED BY <2>1, <2>2
<1>6. ASSUME NEW v \in Seq(FrameSet), Quiet(v) PROVE Quiet(Returned(v))
  <2>1. CASE v = <<>>
    BY <1>3, <2>1, ReturnedFacts
  <2>2. CASE v # <<>>
    <3>1. /\ Returned(v) \in Seq(FrameSet) /\ Len(v) \in Nat \ {0} /\ Len(Returned(v)) = Len(v) - 1
          /\ SameBelow(Returned(v), v, Len(v) - 1)
      BY <2>2, ReturnedFacts
    <3>2. Len(Returned(v)) <= Len(v)
      BY <3>1
    <3> QED BY <1>2, <1>6, <3>1, <3>2
  <2> QED BY <2>1, <2>2
<1>7. Quiet(Resumed(s))
  <2> DEFINE u == Waiting(s, FALSE)
  <2>1. u \in Seq(FrameSet) /\ Len(u) = Len(s) /\ SameBelow(u, s, Len(s))
    BY WaitingFacts
  <2> HIDE DEF u
  <2>2. u \in Seq(FrameSet) /\ Len(u) <= Len(s) /\ SameBelow(u, s, Len(u))
    BY <1>1, <2>1
  <2>3. Quiet(u)
    BY <1>2, <2>2
  <2> QED BY <1>6, <2>2, <2>3 DEF Resumed, u
<1>8. ASSUME NEW n \in Nat PROVE Quiet(Returned(Cut(s, n)))
  <2>1. /\ Cut(s, n) \in Seq(FrameSet) /\ Len(Cut(s, n)) = IF n < Len(s) THEN n ELSE Len(s)
        /\ \A p \in 1..Len(Cut(s, n)) : Cut(s, n)[p] = s[p]
    BY CutFacts
  <2>2. Len(Cut(s, n)) <= Len(s) /\ SameBelow(Cut(s, n), s, Len(Cut(s, n)))
    BY <1>1, <2>1 DEF SameBelow, Alike
  <2>3. Quiet(Cut(s, n))
    BY <1>2, <2>1, <2>2
  <2> QED BY <1>6, <2>1, <2>3
<1> QED BY <1>4, <1>5, <1>6, <1>7, <1>8

RunsEntered == current # Main => OnChain(native, current)

\* A coroutine that runs has been entered.
LEMMA RunningEntered == CoInv => RunsEntered
  BY CurrentOnChain DEF RunsEntered

\* Also after a step.
LEMMA RunningEnteredNext == CoInv' => RunsEntered'
  BY RunningEntered, PTL

\* Every step keeps what is below a continued call able to go on.
LEMMA CalmStep ==
    ASSUME PlainFeatures, CoInv, CoInv', ChainInv, PlainInv, Stand, Tops, CalmInv, [Next]_vars
    PROVE  CalmInv'
<1> DEFINE Goal == \A t \in Thread :
                      Calm(frames'[t], IF mode' = "yield" /\ t = current' THEN Base(Top') ELSE Len(frames'[t]))
<1>1. SUFFICES Goal
  BY DEF CalmInv
<1>2. /\ current \in Thread /\ Framed(frames) /\ Stack = frames[current] /\ Stack \in Seq(FrameSet)
      /\ Len(Stack) \in Nat /\ Co \subseteq Thread /\ PlainStack(Stack)
      /\ \A t \in Thread : frames[t] \in Seq(FrameSet)
  BY DEF CoInv, TypeOK, Framed, Stack, Thread, PlainInv, PlainFrames
<1>3. \A t \in Thread : (mode # "yield" \/ t # current) => Quiet(frames[t])
  BY DEF CalmInv, Quiet
<1>4. Calls => mode = "run" /\ native # <<>>
  BY DEF Calls, LuaRuns, CBody
<1>5. \A fn \in Yieldable \cup Resumers \cup {"sort", "error", "yield"} :
         Frame("capi", fn) \in FrameSet /\ Frame("capi", fn).kind # "continue"
  BY NewFrames DEF Frame
<1>6. /\ Frame("lua", "lua") \in FrameSet /\ Frame("lua", "lua").kind # "continue"
      /\ LuaFrame \in FrameSet /\ LuaFrame.kind # "continue"
  BY NewFrames DEF Frame, LuaFrame
<1> HIDE DEF FrameSet
\* no yield, and thread c gets the frames u
<1>7. ASSUME mode # "yield", mode' # "yield", NEW c \in Thread, NEW u \in Seq(FrameSet), Quiet(u),
             frames' = [frames EXCEPT ![c] = u]
      PROVE  Goal
  <2>1. \A t \in Thread : frames'[t] = IF t = c THEN u ELSE frames[t]
    BY <1>2, <1>7 DEF Framed
  <2> QED BY <1>3, <1>7, <2>1 DEF Quiet
<1>8. ASSUME mode # "yield", mode' # "yield", frames' = frames
      PROVE  Goal
  BY <1>3, <1>8 DEF Quiet
<1>9. ASSUME mode # "yield", mode' # "yield", NEW f \in FrameSet, f.kind # "continue",
             frames' = [frames EXCEPT ![current] = Pushed(Stack, f)]
      PROVE  Goal
  <2>1. Quiet(Pushed(Stack, f)) /\ Pushed(Stack, f) \in Seq(FrameSet)
    BY <1>2, <1>3, <1>9, CalmOps, PushedFacts
  <2> QED BY <1>2, <1>7, <1>9, <2>1
<1>10. ASSUME mode # "yield", mode' # "yield", frames' = [frames EXCEPT ![current] = Returned(Stack)]
       PROVE  Goal
  <2>1. Quiet(Returned(Stack)) /\ Returned(Stack) \in Seq(FrameSet)
    BY <1>2, <1>3, <1>10, CalmOps, ReturnedFacts
  <2> QED BY <1>2, <1>7, <1>10, <2>1
\* a yield on its way, and the running thread gets the frames u
<1>11. ASSUME mode' = "yield", current' = current, NEW u \in Seq(FrameSet), NEW n \in Nat,
              frames' = [frames EXCEPT ![current] = u], Calm(Stack, n),
              NEW b \in Nat, Base(Top') = b, b <= n, SameBelow(u, Stack, b)
       PROVE  Goal
  <2>1. \A t \in Thread : frames'[t] = IF t = current THEN u ELSE frames[t]
    BY <1>2, <1>11 DEF Framed
  <2>2. Calm(u, b)
    BY <1>11, CalmBelow
  <2> QED BY <1>3, <1>11, <2>1, <2>2 DEF Quiet
<1>12. ASSUME NEW fn \in {"error", "yield", "wrap"}, Calls, ThrownBy(fn) PROVE Goal
  <2>1. mode # "yield" /\ mode' # "yield"
    BY <1>4, <1>12 DEF ThrownBy
  <2>2. frames' = frames \/ frames' = [frames EXCEPT ![current] = Pushed(Stack, Frame("capi", fn))]
    BY <1>12 DEF ThrownBy, Stack
  <2>3. fn \in Resumers \cup {"error", "yield"}
    BY DEF Resumers
  <2> QED BY <1>5, <1>8, <1>9, <2>1, <2>2, <2>3
<1>13. CASE CallLua
  <2>1. /\ mode # "yield" /\ mode' # "yield"
        /\ frames' = [frames EXCEPT ![current] = Pushed(Stack, Frame("lua", "lua"))]
    BY <1>13 DEF CallLua, LuaRuns, Stack
  <2> QED BY <1>6, <1>9, <2>1
<1>14. CASE CallClosure
  <2>1. /\ mode # "yield" /\ mode' # "yield"
        /\ frames' = [frames EXCEPT ![current] = Pushed(Stack, LuaFrame)]
    BY <1>4, <1>14 DEF CallClosure, Stack
  <2> QED BY <1>6, <1>9, <2>1
<1>15. CASE CallOverflow \/ LuaError
  BY <1>4, <1>8, <1>15 DEF CallOverflow, LuaError, LuaRuns
<1>16. CASE ReturnLua
  <2>1. Stack # <<>> /\ mode # "yield" /\ mode' # "yield"
    BY <1>16 DEF ReturnLua, LuaRuns, BackIs
  <2>2. Last(Stack).fn # "handler"
    <3>1. Len(Stack) \in 1..Len(Stack)
      BY <1>2, <2>1, FrontFacts
    <3> QED BY <1>2, <3>1 DEF PlainStack, PlainFrame, Last
  <2>3. frames' = [frames EXCEPT ![current] = Returned(Stack)]
    BY <1>16, <2>2 DEF ReturnLua, Stack
  <2> QED BY <1>10, <2>1, <2>3
<1>17. CASE LeaveInterp
  BY <1>8, <1>17 DEF LeaveInterp, Landed
<1>18. ASSUME NEW fn \in {"pcall"} \cup (Features \cap {"xpcall", "dofile", "sort"}), CallC(fn) PROVE Goal
  <2>1. /\ mode # "yield" /\ mode' # "yield" /\ fn \in Yieldable \cup {"sort"}
        /\ frames' = [frames EXCEPT ![current] = Pushed(Stack, Frame("capi", fn))]
    BY <1>4, <1>18 DEF CallC, Stack, Yieldable
  <2> QED BY <1>5, <1>9, <2>1
<1>19. CASE CallError
  BY <1>12, <1>19 DEF CallError
<1>20. ASSUME NEW co \in Co, RefuseWrap(co) PROVE Goal
  BY <1>12, <1>20 DEF RefuseWrap
<1>21. CASE CallYield
  <2>1. CASE ~CanYield
    BY <1>12, <1>21, <2>1 DEF CallYield
  <2>2. CASE CanYield
    <3> DEFINE f == Frame("capi", "yield")  u == Pushed(Stack, f)
    <3>1. /\ mode # "yield" /\ native # <<>> /\ mode' = "yield" /\ current' = current /\ native' = native
          /\ frames' = [frames EXCEPT ![current] = u]
      BY <1>4, <1>21, <2>2 DEF CallYield, Stack
    <3>2. u \in Seq(FrameSet) /\ SameBelow(u, Stack, Len(Stack))
      BY <1>2, <1>5, PushedFacts
    <3> HIDE DEF u
    <3>3. Base(Top) \in Nat /\ Base(Top) <= Len(Stack)
      BY <3>1, BaseBelow
    <3>4. Top' = Top
      BY <3>1 DEF Top
    <3>5. SameBelow(u, Stack, Base(Top))
      BY <1>2, <3>2, <3>3 DEF SameBelow
    <3>6. Calm(Stack, Len(Stack))
      BY <1>2, <1>3, <3>1 DEF Quiet
    <3> QED BY <1>2, <1>11, <3>1, <3>2, <3>3, <3>4, <3>5, <3>6
  <2> QED BY <2>1, <2>2
<1>22. ASSUME NEW fn \in {"resume"} \cup (Features \cap {"wrap"}), NEW co \in Co, CallResume(fn, co)
       PROVE  Goal
  <2> DEFINE u == Pushed(Stack, Frame("capi", fn))
             v == IF status[co] = "Fresh" THEN <<>> ELSE Resumed(frames[co])
  <2>1. mode = "run" /\ mode' = "run" /\ co \in Thread /\ co # current /\ fn \in Resumers
    <3>1. mode = "run" /\ mode' = "run" /\ Resumable(co) /\ fn \in Resumers
      BY <1>4, <1>22 DEF CallResume, Resumers
    <3> QED BY <3>1, ResumableOff
  <2>2. frames' = [[frames EXCEPT ![current] = u] EXCEPT ![co] = v]
    <3>1. frames' = LET caller == [frames EXCEPT ![current] = u]
                    IN  IF status[co] = "Fresh" THEN [caller EXCEPT ![co] = <<>>]
                        ELSE [caller EXCEPT ![co] = Resumed(caller[co])]
      BY <1>22 DEF CallResume, Stack
    <3>2. [frames EXCEPT ![current] = u][co] = frames[co]
      BY <1>2, <2>1 DEF Framed
    <3> HIDE DEF u
    <3> QED BY <3>1, <3>2
  <2>3. Quiet(u)
    BY <1>2, <1>3, <1>5, <2>1, CalmOps
  <2>4. Quiet(v)
    <3>1. Quiet(Resumed(frames[co]))
      BY <1>2, <1>3, <2>1, CalmOps
    <3>2. Quiet(<<>>)
      BY DEF Quiet, Calm
    <3> QED BY <3>1, <3>2
  <2> HIDE DEF u, v
  <2>5. \A t \in Thread : frames'[t] = IF t = co THEN v ELSE IF t = current THEN u ELSE frames[t]
    BY <1>2, <2>1, <2>2 DEF Framed
  <2> QED BY <1>3, <2>1, <2>3, <2>4, <2>5 DEF Quiet
<1>23. CASE FinishContinue
  <2>1. mode # "yield" /\ mode' # "yield" /\ frames' = [frames EXCEPT ![current] = Returned(Stack)]
    BY <1>23 DEF FinishContinue, Draining, Stack
  <2> QED BY <1>10, <2>1
<1>24. CASE RunResumed
  BY <1>8, <1>24 DEF RunResumed, Draining
<1>25. native # <<>> => PlainCall(Top) /\ Top.th \in Thread
  BY PlainNative, TopOwned DEF Activation
<1>26. CASE ResumeGoesOn
  <2>1. frames' = frames /\ mode # "yield" /\ mode' # "yield"
    BY <1>2, <1>25, <1>26 DEF ResumeGoesOn, InResume, PlainCall, Framed
  <2> QED BY <1>8, <2>1
<1>27. CASE HandlerFails \/ CallHandler
  BY <1>25, <1>27 DEF HandlerFails, CallHandler, InResume, InC, PlainCall
\* leaving a resume
<1>28. CASE ResumeEnds \/ ResumeYields \/ ResumeFails
  <2>1. InResume /\ native # <<>> /\ Top.fn \in Resumers /\ (mode = "yield" <=> ResumeYields)
    BY <1>28 DEF ResumeEnds, ResumeYields, ResumeFails, InResume
  <2>2. PICK ok \in BOOLEAN : Resumer(ok)
    BY <1>28 DEF ResumeEnds, ResumeYields, ResumeFails
  <2>3. mode' # "yield"
    BY <2>2 DEF Resumer, Landed
  <2>4. Top.th \in Thread /\ Top.th # current
    <3>1. NoneWaits
      BY WaitsNotRuns
    <3> QED BY <1>25, <2>1, <3>1, BaseBelow DEF NoneWaits
  <2>5. \A t \in Thread : Quiet(frames[t])
    <3>1. CASE mode # "yield"
      BY <1>3, <3>1
    <3>2. CASE mode = "yield"
      <4>1. Base(Top) = 0 /\ Foot(Top, Stack, "yield")
        BY <2>1, <3>2 DEF Base, Tops
      <4>2. /\ Stack[Len(Stack)].kind = "capi"
            /\ \A p \in 1..(Len(Stack) - 1) : Stack[p].kind \in {"lua", "continue"}
        BY <4>1 DEF Foot
      <4>3. Calm(Stack, Len(Stack))
        <5> SUFFICES ASSUME NEW q \in 1..Len(Stack), Stack[q].kind = "continue", NEW p \in 1..q
                     PROVE  Stack[p].kind \in {"lua", "continue"}
          BY DEF Calm
        <5>1. q # Len(Stack)
          BY <4>2
        <5>2. p \in 1..(Len(Stack) - 1)
          BY <1>2, <5>1
        <5> QED BY <4>2, <5>2
      <4> QED BY <1>2, <1>3, <4>3 DEF Quiet
    <3> QED BY <3>1, <3>2
  <2> DEFINE s == frames[Top.th]
  <2>6. s \in Seq(FrameSet) /\ Quiet(s)
    BY <1>2, <2>4, <2>5
  <2>7. \/ frames' = frames \/ frames' = [frames EXCEPT ![Top.th] = Front(s)]
        \/ frames' = [frames EXCEPT ![Top.th] = Returned(s)]
    BY <2>2 DEF Resumer
  <2>8. Quiet(Front(s)) /\ Quiet(Returned(s))
    BY <2>6, CalmOps
  <2> HIDE DEF s
  <2>9. \A t \in Thread : Quiet(frames'[t])
    <3>1. ASSUME NEW u, Quiet(u), frames' = [frames EXCEPT ![Top.th] = u] PROVE \A t \in Thread : Quiet(frames'[t])
      <4>1. \A t \in Thread : frames'[t] = IF t = Top.th THEN u ELSE frames[t]
        BY <1>2, <3>1 DEF Framed
      <4> QED BY <2>5, <3>1, <4>1
    <3> QED BY <2>5, <2>7, <2>8, <3>1
  <2> QED BY <2>3, <2>9 DEF Quiet
<1>29. CASE ResumeRecovers
  <2> DEFINE i == Innermost(Stack)  m == i - 1
  <2>1. PICK u \in Seq(FrameSet) : /\ Len(u) = i - 1 /\ SameBelow(u, Stack, i - 1)
                                   /\ frames' = [frames EXCEPT ![current] = u]
    BY <1>29, RecoverFacts
  <2>2. mode = "throw" /\ mode' = "run" /\ i \in 1..Len(Stack)
    BY <1>29, RecoverFacts
  <2>3. m \in Nat /\ m <= Len(Stack) /\ Len(u) = m /\ SameBelow(u, Stack, m)
    BY <1>2, <2>1, <2>2
  <2> HIDE DEF i, m
  <2>4. Quiet(u)
    BY <1>2, <1>3, <2>2, <2>3, CalmBelow DEF Quiet
  <2> QED BY <1>2, <1>7, <2>1, <2>2, <2>4
<1>30. CASE ReturnC
  <2>1. mode # "yield" /\ mode' # "yield" /\ frames' = [frames EXCEPT ![current] = Returned(Stack)]
    BY <1>30, ReturnsOk DEF ReturnC, Stack, Landed
  <2> QED BY <1>10, <2>1
<1>31. CASE YieldC \/ YieldInterp
  <2>1. native # <<>> /\ mode = "yield" /\ current' = current /\ native' = Front(native)
    BY <1>31 DEF YieldC, YieldInterp, InC
  <2>2. Top.fn \notin Resumers /\ (YieldInterp => Top.fn # "meta")
    <3>1. Shaped(Top)
      BY <2>1, TopOwned
    <3> QED BY <1>31, <3>1 DEF Shaped, YieldC, YieldInterp, InC, Resumers, Yieldable, PlainFeatures
  <2>3. mode' = "yield"
    BY <1>31, <2>2 DEF YieldC, YieldInterp
  <2>4. Front(native) # <<>>
    <3>1. current' # Main
      BY <2>3 DEF CoInv, YieldAllowed
    <3>2. OnChain(native', current')
      BY <3>1, RunningEnteredNext DEF RunsEntered
    <3>3. Len(native') = 0 => ~OnChain(native', current')
      BY DEF OnChain
    <3> QED BY <2>1, <3>2, <3>3
  <2>5. Base(Below) \in Nat /\ Base(Below) <= Place(Top, frames) /\ Top' = Below
    BY <2>1, <2>4, BelowFacts DEF Top, Below
  <2>6. /\ Place(Top, frames) <= Base(Top) /\ Base(Top) \in Nat /\ Place(Top, frames) \in Nat
        /\ Base(Top) <= Len(Stack) /\ Place(Top, frames) = Top.depth - 1 /\ Top.depth \in Nat
    <3>1. /\ Base(Top) \in Nat /\ Base(Top) <= Len(Stack) /\ Place(Top, frames) = Top.depth - 1
          /\ Place(Top, frames) \in Nat /\ Top.depth \in Nat /\ Shaped(Top)
          /\ Top.kind = "interp" => Base(Top) = Place(Top, frames)
          /\ Top.kind = "ccall" => Base(Top) = Place(Top, frames) + 1
      BY <2>1, <2>2, GoingFacts
    <3> QED BY <3>1 DEF Shaped
  <2>7. Calm(Stack, Base(Top))
    BY <1>2, <2>1 DEF CalmInv
  <2>8. ASSUME NEW u \in Seq(FrameSet), frames' = [frames EXCEPT ![current] = u],
               SameBelow(u, Stack, Place(Top, frames))
        PROVE  Goal
    <3>1. SameBelow(u, Stack, Base(Below))
      BY <2>5, <2>6, <2>8 DEF SameBelow
    <3>2. Base(Below) <= Base(Top) /\ Base(Top') = Base(Below)
      BY <2>5, <2>6
    <3> QED BY <1>11, <2>1, <2>3, <2>5, <2>6, <2>7, <2>8, <3>1, <3>2
  <2>9. CASE YieldInterp
    <3>1. frames' = [frames EXCEPT ![current] = Stack]
      BY <1>2, <2>9 DEF YieldInterp, Framed
    <3> QED BY <1>2, <2>8, <3>1 DEF SameBelow, Alike
  <2>10. CASE YieldC
    <3> DEFINE f == [Stack[Top.depth] EXCEPT !.kind = "continue"]
               u == [Stack EXCEPT ![Top.depth] = f]
    <3>1. frames' = [frames EXCEPT ![current] = u]
      BY <2>10 DEF YieldC, Stack
    <3>2. Top.depth \in 1..Len(Stack)
      <4>1. Base(Top) = Top.depth
        BY <2>1, <2>2, <2>10, GoingFacts DEF YieldC, InC
      <4> QED BY <1>2, <2>6, <4>1
    <3>3. f \in FrameSet
      <4>1. Stack[Top.depth] \in FrameSet
        BY <1>2, <3>2
      <4> QED BY <4>1 DEF FrameSet
    <3> HIDE DEF f
    <3>4. u \in Seq(FrameSet) /\ \A p \in 1..Len(Stack) : u[p] = IF p = Top.depth THEN f ELSE Stack[p]
      BY <1>2, <3>2, <3>3, ExceptSeq
    <3> HIDE DEF u
    <3>5. SameBelow(u, Stack, Place(Top, frames))
      <4>1. \A p \in 1..(Top.depth - 1) : p \in 1..Len(Stack) /\ p # Top.depth
        BY <1>2, <3>2
      <4> QED BY <2>6, <3>4, <4>1 DEF SameBelow, Alike
    <3> QED BY <2>8, <3>1, <3>4, <3>5
  <2> QED BY <1>31, <2>9, <2>10
<1>32. CASE ThrowInterp
  BY <1>8, <1>32 DEF ThrowInterp
<1>33. CASE ThrowC
  <2>1. /\ mode # "yield" /\ mode' # "yield"
        /\ frames' = frames \/ frames' = [frames EXCEPT ![current] = Front(Stack)]
    BY <1>33 DEF ThrowC, Stack
  <2>2. Quiet(Front(Stack)) /\ Front(Stack) \in Seq(FrameSet)
    BY <1>2, <1>3, <2>1, CalmOps, FrontFacts
  <2> QED BY <1>2, <1>7, <1>8, <2>1, <2>2
<1>34. CASE CatchC
  <2>1. /\ mode # "yield" /\ mode' # "yield" /\ Top.depth \in Nat
        /\ frames' = [frames EXCEPT ![current] = Returned(Cut(Stack, Top.depth))]
    BY <1>34, TopOwned DEF CatchC, InC, Landed, Stack, Activation
  <2>2. Quiet(Returned(Cut(Stack, Top.depth))) /\ Returned(Cut(Stack, Top.depth)) \in Seq(FrameSet)
    BY <1>2, <1>3, <2>1, CalmOps, CutFacts, ReturnedFacts
  <2> QED BY <1>2, <1>7, <2>1, <2>2
<1>35. CASE Exit \/ UNCHANGED vars
  <2>1. frames' = frames /\ current' = current /\ mode' = mode /\ Top' = Top
    BY <1>35 DEF Exit, vars, Top
  <2> QED BY <2>1 DEF CalmInv
<1> HIDE DEF Goal
<1> QED BY <1>13, <1>14, <1>15, <1>16, <1>17, <1>18, <1>19, <1>20, <1>21, <1>22, <1>23, <1>24, <1>26,
           <1>27, <1>28, <1>29, <1>30, <1>31, <1>32, <1>33, <1>34, <1>35 DEF Next

-----------------------------------------------------------------------------
(* The inductive invariant of the frames *)

FrameInv == Stand /\ Tops /\ SleptInv /\ CalmInv

\* Every step keeps the C++ stack standing on the frames.
LEMMA StandStep ==
    ASSUME PlainFeatures, CoInv, ChainInv, PlainInv, FrameInv, [Next]_vars
    PROVE  Stand' /\ Tops'
<1>1. Stand /\ Tops /\ SleptInv /\ CalmInv
  BY DEF FrameInv
<1>2. CASE \/ CallLua \/ CallClosure \/ CallYield \/ CallError
           \/ \E fn \in {"pcall"} \cup (Features \cap {"xpcall", "dofile", "sort"}) : CallC(fn)
           \/ \E co \in Co : "wrap" \in Features /\ RefuseWrap(co)
  BY <1>1, <1>2, CallsStand
<1>3. ASSUME NEW fn \in {"resume"} \cup (Features \cap {"wrap"}), NEW co \in Co, CallResume(fn, co)
      PROVE  Stand' /\ Tops'
  BY <1>1, <1>3, EntersStand
<1>4. CASE \/ CallOverflow \/ LuaError \/ ReturnLua \/ FinishContinue \/ RunResumed
           \/ ResumeGoesOn \/ HandlerFails \/ CallHandler \/ Exit \/ UNCHANGED vars
  BY <1>1, <1>4, RunsStand
<1>5. CASE LeaveInterp
  BY <1>1, <1>5, LeaveInterpStand
<1>6. CASE ReturnC \/ YieldC \/ YieldInterp \/ ThrowInterp \/ ThrowC \/ CatchC
  BY <1>1, <1>6, UnwindStand
<1>7. CASE ResumeEnds \/ ResumeYields \/ ResumeFails
  BY <1>1, <1>7, LeavesStand
<1>8. CASE ResumeRecovers
  <2>1. mode = "throw" /\ current \in Thread
    BY <1>8 DEF ResumeRecovers, CoInv, TypeOK
  <2>2. Calm(Stack, Len(Stack))
    BY <1>1, <2>1 DEF CalmInv, Stack
  <2> QED BY <1>1, <1>8, <2>2, RecoversStand
<1> QED BY <1>2, <1>3, <1>4, <1>5, <1>6, <1>7, <1>8 DEF Next

\* A step changes nothing of a thread that does not run.
LEMMA OthersKept ==
    ASSUME CoInv, [Next]_vars, NEW t \in Thread, t # current, t # current'
    PROVE  frames'[t] = frames[t] /\ status'[t] = status[t]
<1>1. /\ DOMAIN frames = Thread /\ DOMAIN status = Thread /\ current \in Thread /\ Co \subseteq Thread
      /\ frames = [c \in Thread |-> frames[c]] /\ status = [c \in Thread |-> status[c]]
  BY DEF CoInv, TypeOK, Thread
<1>2. ASSUME NEW u, frames' = [frames EXCEPT ![current] = u] PROVE frames'[t] = frames[t]
  BY <1>1, <1>2
<1>3. ASSUME NEW u, status' = [status EXCEPT ![current] = u] PROVE status'[t] = status[t]
  BY <1>1, <1>3
<1>4. \A fn : ThrownBy(fn) => frames'[t] = frames[t] /\ status'[t] = status[t]
  BY <1>2 DEF ThrownBy
<1>5. CASE CallLua \/ CallClosure \/ CallOverflow \/ ReturnLua \/ LeaveInterp \/ LuaError
  BY <1>2, <1>5 DEF CallLua, CallClosure, CallOverflow, ReturnLua, LeaveInterp, LuaError
<1>6. ASSUME NEW fn, CallC(fn) PROVE frames'[t] = frames[t] /\ status'[t] = status[t]
  BY <1>2, <1>6 DEF CallC
<1>7. CASE CallError \/ CallYield
  BY <1>2, <1>3, <1>4, <1>7 DEF CallError, CallYield
<1>8. ASSUME NEW fn, NEW co \in Co, CallResume(fn, co) PROVE frames'[t] = frames[t] /\ status'[t] = status[t]
  <2> DEFINE u == Pushed(frames[current], Frame("capi", fn))  caller == [frames EXCEPT ![current] = u]
  <2>1. /\ current' = co /\ status' = [status EXCEPT ![co] = "Running"]
        /\ \E v : frames' = [caller EXCEPT ![co] = v]
    BY <1>8 DEF CallResume
  <2> HIDE DEF u
  <2>2. caller[t] = frames[t] /\ DOMAIN caller = Thread
    BY <1>1
  <2> HIDE DEF caller
  <2> QED BY <1>1, <2>1, <2>2
<1>9. ASSUME NEW co, RefuseWrap(co) PROVE frames'[t] = frames[t] /\ status'[t] = status[t]
  BY <1>4, <1>9 DEF RefuseWrap
<1>10. CASE FinishContinue \/ RunResumed \/ ResumeGoesOn \/ HandlerFails
  BY <1>2, <1>10 DEF FinishContinue, RunResumed, ResumeGoesOn, HandlerFails
<1>11. CASE ResumeEnds \/ ResumeYields \/ ResumeFails
  <2>1. PICK ok \in BOOLEAN : Resumer(ok)
    BY <1>11 DEF ResumeEnds, ResumeYields, ResumeFails
  <2>2. Top.co = current
    BY <1>11, TopOwned DEF ResumeEnds, ResumeYields, ResumeFails, InResume
  <2>3. status'[t] = status[t]
    BY <1>3, <1>11, <2>2 DEF ResumeEnds, ResumeYields, ResumeFails
  <2>4. frames' = frames \/ \E u : frames' = [frames EXCEPT ![current'] = u]
    BY <2>1 DEF Resumer
  <2> QED BY <1>1, <2>3, <2>4
<1>12. CASE ResumeRecovers
  <2>1. Top.co = current
    BY <1>12, TopOwned DEF ResumeRecovers, InResume
  <2>2. \E u : frames' = [frames EXCEPT ![current] = u]
    BY <1>12, <2>1 DEF ResumeRecovers
  <2> QED BY <1>2, <1>12, <2>2 DEF ResumeRecovers
<1>13. CASE ReturnC \/ YieldInterp \/ ThrowInterp \/ ThrowC \/ CatchC \/ CallHandler
  BY <1>2, <1>13 DEF ReturnC, YieldInterp, ThrowInterp, ThrowC, CatchC, CallHandler
<1>14. CASE YieldC
  <2>1. \E u : frames' = [frames EXCEPT ![current] = u]
    BY <1>14 DEF YieldC
  <2> QED BY <1>2, <1>14, <2>1 DEF YieldC
<1>15. CASE Exit \/ UNCHANGED vars
  BY <1>15 DEF Exit, vars
<1> QED BY <1>5, <1>6, <1>7, <1>8, <1>9, <1>10, <1>11, <1>12, <1>13, <1>14, <1>15 DEF Next

\* A coroutine that has yielded stays as it is until it is resumed.
LEMMA SleptStep ==
    ASSUME PlainFeatures, CoInv, CoInv', ChainInv, ChainInv', Stand, Tops, SleptInv, [Next]_vars
    PROVE  SleptInv'
<1> SUFFICES ASSUME NEW t \in Thread, status'[t] = "Suspended", ~(mode' = "yield" /\ t = current')
             PROVE  LET s == frames'[t]
                    IN  /\ s # <<>> /\ Last(s).kind = "capi"
                        /\ \A p \in 1..(Len(s) - 1) : s[p].kind \in {"lua", "continue"}
  BY DEF SleptInv
<1>1. t # Main /\ ~OnChain(native', t)
  BY DEF ChainInv, StatusTells
<1>2. t # current'
  BY <1>1, RunningEnteredNext DEF RunsEntered
<1>3. CASE t # current
  <2>1. frames'[t] = frames[t] /\ status[t] = "Suspended"
    BY <1>2, <1>3, OthersKept
  <2> QED BY <1>3, <2>1 DEF SleptInv
<1>4. CASE t = current
  <2>1. \/ ResumeEnds \/ ResumeYields \/ ResumeFails
        \/ \E fn \in {"resume"} \cup (Features \cap {"wrap"}), co \in Co : CallResume(fn, co)
    <3>1. StepKinds /\ current' # current
      BY <1>2, <1>4, AllKinds
    <3> QED BY <3>1 DEF Next, vars, CallLua, CallClosure, CallOverflow, ReturnLua, LeaveInterp, CallC, CallError,
                 LuaError, CallYield, ThrownBy, RefuseWrap, FinishContinue, RunResumed, ResumeGoesOn,
                 ResumeRecovers, HandlerFails, ReturnC, YieldC, YieldInterp, ThrowInterp, ThrowC, CatchC,
                 CallHandler, Exit
  <2>2. CASE \E fn \in {"resume"} \cup (Features \cap {"wrap"}), co \in Co : CallResume(fn, co)
    <3>1. PICK fn \in {"resume"} \cup (Features \cap {"wrap"}), co \in Co : CallResume(fn, co)
      BY <2>2
    <3>2. mode = "run" /\ Resumable(co) /\ status' = [status EXCEPT ![co] = "Running"]
      BY <3>1 DEF CallResume, Calls, LuaRuns, CBody
    <3>3. co # current
      BY <3>2, ResumableOff
    <3>4. status[t] = "Suspended"
      BY <1>4, <3>2, <3>3 DEF CoInv, TypeOK
    <3>5. OnChain(native, t)
      BY <1>1, <1>4, CurrentOnChain
    <3> QED BY <3>2, <3>4, <3>5 DEF ChainInv, StatusTells
  <2>3. CASE ResumeEnds \/ ResumeFails
    <3>1. Top.co = current
      BY <2>3, TopOwned DEF ResumeEnds, ResumeFails, InResume
    <3> QED BY <1>4, <2>3, <3>1 DEF ResumeEnds, ResumeFails, CoInv, TypeOK
  <2>4. CASE ResumeYields
    <3>1. native # <<>> /\ Top.fn \in Resumers /\ mode = "yield" /\ Resumer(TRUE)
      BY <2>4 DEF ResumeYields, InResume
    <3>2. Foot(Top, Stack, "yield") /\ Base(Top) = 0
      BY <3>1 DEF Tops, Base
    <3>3. /\ 0 < Len(Stack) /\ Stack[Len(Stack)].kind = "capi"
          /\ \A p \in 1..(Len(Stack) - 1) : Stack[p].kind \in {"lua", "continue"}
      BY <3>2 DEF Foot
    <3>4. Stack # <<>>
      BY <3>3
    <3>5. frames'[t] = Stack
      <4>1. frames' = [frames EXCEPT ![current'] = Returned(@)]
        BY <3>1 DEF Resumer
      <4> QED BY <1>2, <1>4, <4>1 DEF Stack, CoInv, TypeOK
    <3> QED BY <3>3, <3>4, <3>5 DEF Last
  <2> QED BY <2>1, <2>2, <2>3, <2>4
<1> QED BY <1>3, <1>4

\* The main chunk has just been called.
LEMMA FrameInit == Init => FrameInv
<1> SUFFICES ASSUME Init PROVE FrameInv
  OBVIOUS
<1> DEFINE a == Interp("nested", 1)  f == Frame("lua", "lua")
<1>1. /\ current = Main /\ mode = "run" /\ native = <<a>> /\ Main \in Thread
      /\ frames = [t \in Thread |-> IF t = Main THEN <<f>> ELSE <<>>]
      /\ status = [t \in Thread |-> IF t = Main THEN "Running" ELSE "Fresh"]
  BY DEF Init, Thread
<1>2. a.kind = "interp" /\ a.fn = "nested" /\ a.depth = 1 /\ a.th = Main /\ f.kind = "lua"
  BY <1>1 DEF Interp, Frame
<1> HIDE DEF a, f
<1>3. Len(native) = 1 /\ native[1] = a /\ Top = a
  BY <1>1 DEF Top, Last
<1>4. Len(frames[Main]) = 1 /\ frames[Main][1] = f /\ Stack = frames[Main]
  BY <1>1 DEF Stack
<1>5. Base(a) = 0 /\ Place(a, frames) = 0 /\ Reach(a, frames) = 0 /\ Own(a) = {"lua"}
  BY <1>2 DEF Base, Place, Reach, Own, Resumers
<1>6. Stand
  <2>1. Stands(a, frames)
    BY <1>2, <1>4, <1>5 DEF Stands
  <2> QED BY <1>3, <2>1 DEF Stand, Standing
<1>7. Tops
  BY <1>1, <1>2, <1>3, <1>4, <1>5 DEF Tops, Foot
<1>8. SleptInv
  BY <1>1 DEF SleptInv
<1>9. CalmInv
  <2> SUFFICES ASSUME NEW t \in Thread PROVE Calm(frames[t], Len(frames[t]))
    BY <1>1 DEF CalmInv
  <2>1. CASE t = Main
    BY <1>2, <1>4, <2>1 DEF Calm
  <2>2. CASE t # Main
    <3>1. Len(frames[t]) = 0
      BY <1>1, <2>2
    <3> QED BY <3>1 DEF Calm
  <2> QED BY <2>1, <2>2
<1> QED BY <1>6, <1>7, <1>8, <1>9 DEF FrameInv

\* Where the activations stand on the frames is an invariant.
LEMMA FrameInvariance ==
    ASSUME PlainFeatures
    PROVE  Spec => [](CoInv /\ ChainInv /\ PlainInv /\ WaitsInv /\ FrameInv)
<1> DEFINE Inv == CoInv /\ ChainInv /\ PlainInv /\ WaitsInv /\ FrameInv
<1>1. Init => Inv
  BY CoInit, ChainInit, PlainInit, FrameInit
<1>2. Inv /\ [Next]_vars => Inv'
  <2> SUFFICES ASSUME Inv, [Next]_vars PROVE Inv'
    OBVIOUS
  <2>1. "call" \notin Features
    BY DEF PlainFeatures
  <2>2. CoInv' /\ ChainInv'
    BY <2>1, CoStep, ChainStep
  <2>3. PlainInv' /\ WaitsInv'
    BY PlainStep DEF PlainFeatures
  <2>4. Stand' /\ Tops'
    BY StandStep
  <2>5. SleptInv' /\ CalmInv'
    BY <2>2, SleptStep, CalmStep DEF FrameInv
  <2> QED BY <2>2, <2>3, <2>4, <2>5 DEF FrameInv
<1> QED BY <1>1, <1>2, PTL DEF Spec

-----------------------------------------------------------------------------
(* How coroutines end *)

\* A coroutine dies when its resume is over, by a return or an error.
LEMMA DiesBy ==
    ASSUME CoInv, [Next]_vars, NEW t \in Co, status[t] # "Dead", status'[t] = "Dead"
    PROVE  /\ t = current /\ t \in Thread /\ native # <<>> /\ Top.fn \in Resumers /\ Top.co = t
           /\ ResumeEnds \/ ResumeFails
<1>1. t \in Thread /\ DOMAIN status = Thread /\ status' # status
  BY DEF CoInv, TypeOK, Thread
<1>2. CASE ResumeEnds \/ ResumeFails
  <2>1. native # <<>> /\ Top.fn \in Resumers /\ Top.co = current
    BY <1>2, TopOwned DEF ResumeEnds, ResumeFails, InResume
  <2>2. status' = [status EXCEPT ![Top.co] = "Dead"]
    BY <1>2 DEF ResumeEnds, ResumeFails
  <2> QED BY <1>1, <1>2, <2>1, <2>2
<1>3. ASSUME NEW c, NEW v \in {"Running", "Suspended"}, status' = [status EXCEPT ![c] = v] PROVE FALSE
  BY <1>1, <1>3
<1>4. CASE CallYield \/ ResumeYields
  BY <1>1, <1>3, <1>4 DEF CallYield, ThrownBy, ResumeYields
<1>5. ASSUME NEW fn, NEW co, CallResume(fn, co) PROVE FALSE
  BY <1>3, <1>5 DEF CallResume
<1> QED BY <1>1, <1>2, <1>4, <1>5
        DEF Next, vars, CallLua, CallClosure, CallOverflow, ReturnLua, LeaveInterp, CallC, CallError,
            LuaError, ThrownBy, RefuseWrap, FinishContinue, RunResumed, ResumeGoesOn,
            ResumeRecovers, HandlerFails, ReturnC, YieldC, YieldInterp, ThrowInterp, ThrowC, CatchC,
            CallHandler, Exit

\* co_resume reports that a coroutine has ended only when nothing of it is left to
\* run: resume_after_yield has finished every call it had made before it yielded.
THEOREM CompletionCorrect ==
    ASSUME PlainFeatures PROVE Spec => CompletesOnlyWhenDone
<1> DEFINE A == \A t \in Co : status[t] # "Dead" /\ status'[t] = "Dead" /\ mode = "ok" => frames[t] = <<>>
           Inv == CoInv /\ ChainInv /\ PlainInv /\ WaitsInv /\ FrameInv
<1>1. Inv /\ [Next]_vars => [A]_vars
  <2> SUFFICES ASSUME Inv, [Next]_vars, NEW t \in Co, status[t] # "Dead", status'[t] = "Dead", mode = "ok"
               PROVE  frames[t] = <<>>
    OBVIOUS
  <2>1. /\ t = current /\ t \in Thread /\ native # <<>> /\ Top.fn \in Resumers
        /\ ResumeEnds \/ ResumeFails
    BY DiesBy
  <2>2. ~GoesOn
    BY <2>1 DEF ResumeEnds, ResumeFails
  <2>3. Stack = frames[t] /\ Stack \in Seq(FrameSet) /\ Len(Stack) \in Nat
    BY <2>1 DEF Stack, CoInv, TypeOK
  <2>4. SUFFICES ASSUME Stack # <<>> PROVE FALSE
    BY <2>3
  <2>5. Len(Stack) \in 1..Len(Stack) /\ Last(Stack) = Stack[Len(Stack)]
    BY <2>3, <2>4 DEF Last
  <2>6. Shaped(Top) /\ Top.pc # "rehandler"
    BY <2>1, <2>2, BaseBelow DEF FrameInv, GoesOn
  <2>7. Foot(Top, Stack, "ok") /\ Base(Top) = 0
    BY <2>1 DEF FrameInv, Tops, Base
  <2>8. Last(Stack).kind \in Own(Top)
    BY <2>5, <2>7 DEF Foot
  <2>9. CASE Top.pc \in Continued
    <3>1. Last(Stack).kind # "lua"
      BY <2>4, <2>7, <2>9 DEF Foot
    <3>2. Last(Stack).kind # "continue"
      BY <2>2, <2>4, <2>9 DEF GoesOn, BackIs, Continued
    <3>3. Last(Stack).kind \in {"lua", "continue"}
      BY <2>8, PlainLeft DEF Own
    <3> QED BY <3>1, <3>2, <3>3
  <2>10. CASE Top.pc \notin Continued
    BY <2>1, <2>6, <2>8, <2>10 DEF Own, Resumers
  <2> QED BY <2>9, <2>10
<1>2. Spec => []Inv
  BY FrameInvariance
<1> QED BY <1>1, <1>2, PTL DEF Spec, CompletesOnlyWhenDone
=============================================================================
