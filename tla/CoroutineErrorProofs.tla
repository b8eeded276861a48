------------------------ MODULE CoroutineErrorProofs ------------------------
(***************************************************************************)
(* Where errors stop in module Coroutine: at the innermost protected call. *)
(* With xpcall a message handler that fails after a yield leaves frames    *)
(* behind, also those of C calls, so that the frames of a coroutine need   *)
(* not be those that its activations wait for (CoroutineFrameProofs). What *)
(* remains is that a protected call which has not been continued is on the *)
(* C++ stack, and that no continued call is above it.                      *)
(***************************************************************************)
EXTENDS CoroutineFrameProofs

-----------------------------------------------------------------------------
(* What an error takes away *)

\* the protected calls of the frames s
Protecting(s) == {i \in 1..Len(s) : s[i].fn \in Protected}

\* Frames that lose what is above k lose one protected call at most, if there is no
\* other one.
LEMMA LosesOne ==
    ASSUME NEW s \in Seq(FrameSet), NEW u \in Seq(FrameSet), NEW k \in Nat, k <= Len(u), SameBelow(u, s, k),
           NEW x \in 1..Len(s), \A p \in (k + 1)..Len(s) : p = x \/ s[p].fn \notin Protected
    PROVE  Cardinality(Protecting(s)) - Cardinality(Protecting(u)) <= 1
<1> DEFINE B == Protecting(s)  D == Protecting(u)
<1>1. Len(s) \in Nat /\ Len(u) \in Nat
  OBVIOUS
<1>2. B \subseteq 1..Len(s) /\ D \subseteq 1..Len(u)
  BY DEF Protecting
<1>3. /\ IsFiniteSet(D) /\ Cardinality(D) \in Nat /\ Cardinality(B) \in Nat
  BY <1>1, <1>2, FiniteInterval
<1>4. B \subseteq D \cup {x}
  <2> SUFFICES ASSUME NEW p \in 1..Len(s), s[p].fn \in Protected, p # x PROVE p \in 1..Len(u) /\ u[p].fn \in Protected
    BY DEF Protecting
  <2>1. p \in 1..k
    BY <1>1
  <2> QED BY <1>1, <2>1 DEF SameBelow, Alike
<1> HIDE DEF B, D
<1>5. IsFiniteSet(D \cup {x}) /\ Cardinality(D \cup {x}) \in Nat /\ Cardinality(D \cup {x}) <= Cardinality(D) + 1
  <2> DEFINE E == D \cup {x}
  <2>1. IsFiniteSet(E) /\ Cardinality(E) = IF x \in D THEN Cardinality(D) ELSE Cardinality(D) + 1
    BY <1>3, FS_AddElement
  <2> HIDE DEF E
  <2>2. Cardinality(E) \in Nat /\ Cardinality(E) <= Cardinality(D) + 1
    BY <1>3, <2>1
  <2> QED BY <2>1, <2>2 DEF E
<1>6. Cardinality(B) <= Cardinality(D \cup {x})
  BY <1>4, <1>5, FS_Subset
<1>7. Cardinality(B) - Cardinality(D) <= 1
  BY <1>3, <1>5, <1>6
<1> QED BY <1>7 DEF B, D

\* above the base of the innermost activation the protected calls are to be
\* continued, and there is none if the activation is itself one
Exposed ==
    native # <<>> =>
        \A p \in (Base(Top) + 1)..Len(Stack) :
            Stack[p].fn \in Protected => Stack[p].kind = "continue" /\ Top.fn \notin Protected

\* An error takes away the innermost protected call, if any, and ends no coroutine
\* that is inside one.
LEMMA ErrorStops ==
    ASSUME CoInv, ChainInv, Stand, Exposed, [Next]_vars, mode = "throw",
           ~(InResume /\ Top.pc \in {"redrain", "rehandler"})
    PROVE  Stops
<1> DEFINE n == Len(Stack)
<1>1. /\ current \in Thread /\ Framed(frames) /\ Stack = frames[current] /\ Stack \in Seq(FrameSet)
      /\ n \in Nat /\ \A t \in Thread : frames[t] \in Seq(FrameSet)
  BY DEF CoInv, TypeOK, Framed, Stack
<1>2. \A t \in Thread : Boundaries(t) = Protecting(frames[t])
  BY <1>1 DEF Boundaries, Protecting
<1> HIDE DEF FrameSet, n
<1>6. ASSUME NEW t \in Thread, status[t] # "Dead", status'[t] = "Dead", t \in Co PROVE Boundaries(t) = {}
  <2>1. t = current /\ native # <<>> /\ Top.fn \in Resumers /\ Top.co = t /\ (ResumeEnds \/ ResumeFails)
    BY <1>6, DiesBy
  <2>2. InResume /\ ~Recovers
    BY <2>1 DEF ResumeEnds, ResumeFails
  <2>3. Top.pc \in {"first", "drain"}
    <3>1. Shaped(Top)
      BY <2>1, TopOwned
    <3> QED BY <2>1, <2>2, <3>1 DEF Shaped, Resumers, Yieldable
  <2>4. Continues(Stack) = {}
    BY <1>1, <2>1, <2>2, <2>3 DEF Recovers
  <2>5. \A p \in 1..n : Stack[p].kind # "continue"
    BY <1>1, <2>4 DEF Continues, n
  <2>6. \A p \in 1..n : Stack[p].fn \notin Protected
    BY <2>1, <2>5 DEF Exposed, Base, n
  <2> QED BY <1>1, <1>2, <2>1, <2>6 DEF Protecting, n
<1>7. SUFFICES ASSUME NEW t \in Thread PROVE Cardinality(Boundaries(t)) - Cardinality(Boundaries(t)') <= 1
  <2>1. Co \subseteq Thread
    BY DEF Thread
  <2> QED BY <1>6, <1>7, <2>1 DEF Stops
<1>8. ASSUME NEW u \in Seq(FrameSet), frames'[t] = u PROVE Boundaries(t)' = Protecting(u)
  BY <1>8 DEF Boundaries, Protecting
\* thread c gets the frames u: no other protected call than x goes
<1>9. ASSUME NEW c \in Thread, NEW u \in Seq(FrameSet), frames' = [frames EXCEPT ![c] = u],
             NEW k \in Nat, k <= Len(u), SameBelow(u, frames[c], k), NEW x \in 1..Len(frames[c]),
             \A p \in (k + 1)..Len(frames[c]) : p = x \/ frames[c][p].fn \notin Protected
      PROVE  Cardinality(Boundaries(t)) - Cardinality(Boundaries(t)') <= 1
  <2>1. CASE t = c
    <3>1. frames'[t] = u
      BY <1>1, <1>9, <2>1 DEF Framed
    <3>2. Boundaries(t)' = Protecting(u) /\ Boundaries(t) = Protecting(frames[t])
      BY <1>2, <1>8, <1>9, <3>1
    <3> QED BY <1>1, <1>9, <2>1, <3>2, LosesOne
  <2>2. CASE t # c
    <3>1. frames'[t] = frames[t]
      BY <1>1, <1>9, <2>2 DEF Framed
    <3>2. Boundaries(t)' = Boundaries(t)
      BY <1>1, <1>2, <1>8, <3>1
    <3>3. Cardinality(Boundaries(t)) \in Nat
      <4>1. Len(frames[t]) \in Nat /\ Boundaries(t) \subseteq 1..Len(frames[t])
        BY <1>1, <1>2 DEF Protecting
      <4> QED BY <4>1, FiniteInterval
    <3> QED BY <3>2, <3>3
  <2> QED BY <2>1, <2>2
<1>10. ASSUME frames' = frames PROVE Cardinality(Boundaries(t)) - Cardinality(Boundaries(t)') <= 1
  <2>1. Boundaries(t)' = Boundaries(t)
    BY <1>1, <1>2, <1>8, <1>10
  <2>2. Len(frames[t]) \in Nat /\ Boundaries(t) \subseteq 1..Len(frames[t])
    BY <1>1, <1>2 DEF Protecting
  <2>3. Cardinality(Boundaries(t)) \in Nat
    BY <2>2, FiniteInterval
  <2> QED BY <2>1, <2>3
\* thread c loses its last frame
<1>11. ASSUME NEW c \in Thread, frames[c] # <<>>,
              \/ frames' = [frames EXCEPT ![c] = Front(frames[c])]
              \/ frames' = [frames EXCEPT ![c] = Returned(frames[c])]
       PROVE  Cardinality(Boundaries(t)) - Cardinality(Boundaries(t)') <= 1
  <2> DEFINE s == frames[c]  k == Len(s) - 1
  <2>1. s \in Seq(FrameSet) /\ k \in Nat /\ Len(s) \in 1..Len(s) /\ \A p \in (k + 1)..Len(s) : p = Len(s)
    <3>1. s \in Seq(FrameSet) /\ Len(s) \in Nat \ {0}
      BY <1>1, <1>11, FrontFacts
    <3> QED BY <3>1
  <2>2. Front(s) \in Seq(FrameSet) /\ Len(Front(s)) = k /\ SameBelow(Front(s), s, k)
    BY <1>11, <2>1, FrontFacts DEF SameBelow, Alike
  <2>3. Returned(s) \in Seq(FrameSet) /\ Len(Returned(s)) = k /\ SameBelow(Returned(s), s, k)
    BY <1>11, <2>1, ReturnedFacts
  <2>4. PICK u \in Seq(FrameSet) : frames' = [frames EXCEPT ![c] = u] /\ Len(u) = k /\ SameBelow(u, s, k)
    BY <1>11, <2>2, <2>3
  <2> HIDE DEF k
  <2>5. k <= Len(u)
    BY <2>1, <2>4
  <2> QED BY <1>9, <2>1, <2>4, <2>5
<1>12. native # <<>> => Top.th \in Thread /\ Top \in Activation /\ Shaped(Top)
  BY TopOwned DEF Activation
<1>13. ~Calls /\ ~Draining
  BY DEF Calls, LuaRuns, CBody, Draining
<1>14. CASE ResumeFails
  <2>1. native # <<>> /\ Top.kind = "ccall" /\ Top.fn \in Resumers /\ Resumer(FALSE)
    BY <1>14 DEF ResumeFails, InResume
  <2>2. frames[Top.th] # <<>>
    <3>1. Stands(Top, frames) /\ Len(frames[Top.th]) \in Nat
      BY <1>1, <1>12, <2>1, BaseBelow
    <3>2. Len(frames[Top.th]) - 1 \in Nat
      BY <2>1, <3>1 DEF Stands, Place
    <3>3. Len(frames[Top.th]) # 0
      BY <3>1, <3>2
    <3> QED BY <3>3
  <2>3. \/ frames' = frames \/ frames' = [frames EXCEPT ![Top.th] = Front(frames[Top.th])]
        \/ frames' = [frames EXCEPT ![Top.th] = Returned(frames[Top.th])]
    BY <2>1 DEF Resumer
  <2> QED BY <1>10, <1>11, <1>12, <2>1, <2>2, <2>3
<1>15. CASE ResumeRecovers
  <2> DEFINE i == Innermost(Stack)
  <2>0. PICK u \in Seq(FrameSet) : /\ Len(u) = i - 1 /\ SameBelow(u, Stack, i - 1)
                                   /\ frames' = [frames EXCEPT ![current] = u]
    BY <1>15, RecoverFacts
  <2>1. /\ native # <<>> /\ Top.fn \in Resumers /\ i \in 1..n /\ \A p \in 1..n : Stack[p].kind = "continue" => p <= i
        /\ Len(u) = i - 1 /\ SameBelow(u, Stack, i - 1) /\ frames' = [frames EXCEPT ![current] = u]
    BY <1>15, <2>0, RecoverFacts DEF n
  <2> HIDE DEF i
  <2>2. \A p \in 1..n : Stack[p].fn \in Protected => Stack[p].kind = "continue"
    BY <2>1 DEF Exposed, Base, n
  <2>3. i - 1 \in Nat /\ i - 1 <= Len(u)
    BY <1>1, <2>1
  <2>4. \A p \in (i - 1 + 1)..n : p = i \/ Stack[p].fn \notin Protected
    <3> SUFFICES ASSUME NEW p \in (i - 1 + 1)..n, p # i PROVE Stack[p].fn \notin Protected
      OBVIOUS
    <3>1. p \in 1..n /\ ~(p <= i)
      BY <1>1, <2>1
    <3> QED BY <2>1, <2>2, <3>1
  <2> QED BY <1>1, <1>9, <2>1, <2>3, <2>4 DEF n
<1>16. CASE ThrowC
  <2>1. frames' = frames \/ (Stack # <<>> /\ frames' = [frames EXCEPT ![current] = Front(frames[current])])
    BY <1>1, <1>16 DEF ThrowC
  <2> QED BY <1>1, <1>10, <1>11, <2>1
<1>17. CASE CatchC \/ CallHandler
  <2> DEFINE d == Top.depth  c == Cut(Stack, d)
  <2>1. native # <<>> /\ Top.kind = "ccall" /\ Top.fn \in Protected /\ Top.fn \notin Resumers
    BY <1>17 DEF CatchC, CallHandler, InC, Protected, Resumers
  <2>2. d \in Nat /\ d - 1 \in Nat /\ Base(Top) = d /\ d <= n
    <3>1. /\ Top.depth \in Nat /\ Place(Top, frames) = Top.depth - 1 /\ Place(Top, frames) \in Nat
          /\ Base(Top) <= Len(Stack) /\ Base(Top) = Top.depth
      BY <2>1, GoingFacts
    <3> QED BY <3>1 DEF n
  <2>3. frames' = [frames EXCEPT ![current] = Returned(c)] \/ frames' = [frames EXCEPT ![current] = c]
    BY <1>1, <1>17 DEF CatchC, CallHandler
  <2> HIDE DEF d
  <2>4. d \in 1..n /\ n \in Nat
    BY <1>1, <2>2
  <2>5. c \in Seq(FrameSet) /\ Len(c) = d /\ \A p \in 1..d : c[p] = Stack[p]
    BY <1>1, <2>2, CutFacts DEF n
  <2>6. c # <<>>
    BY <2>4, <2>5
  <2> HIDE DEF c
  <2>7. Returned(c) \in Seq(FrameSet) /\ Len(Returned(c)) = Len(c) - 1 /\ SameBelow(Returned(c), c, Len(c) - 1)
    BY <2>5, <2>6, ReturnedFacts
  <2> DEFINE k == d - 1
  <2>8. k \in Nat /\ k <= d /\ d = k + 1
    BY <2>2
  <2>9. PICK u \in Seq(FrameSet) : frames' = [frames EXCEPT ![current] = u] /\ k <= Len(u) /\ SameBelow(u, Stack, k)
    <3>1. \A p \in 1..k : p \in 1..d
      BY <2>8
    <3>2. k <= Len(c) /\ SameBelow(c, Stack, k)
      BY <2>5, <2>8, <3>1 DEF SameBelow, Alike
    <3>3. k <= Len(Returned(c)) /\ SameBelow(Returned(c), Stack, k)
      BY <2>5, <2>7, <3>1 DEF SameBelow, Alike
    <3> QED BY <2>3, <2>5, <2>7, <3>2, <3>3
  <2>10. \A p \in (k + 1)..n : p = d \/ Stack[p].fn \notin Protected
    <3> SUFFICES ASSUME NEW p \in (k + 1)..n, p # d PROVE Stack[p].fn \notin Protected
      OBVIOUS
    <3>1. p \in (d + 1)..n
      BY <1>1, <2>4
    <3> QED BY <2>1, <2>2, <3>1 DEF Exposed, n
  <2> HIDE DEF k
  <2> QED BY <1>1, <1>9, <2>4, <2>8, <2>9, <2>10 DEF n
<1>18. CASE HandlerFails
  BY <1>18 DEF HandlerFails
<1>19. CASE ThrowInterp \/ Exit \/ UNCHANGED vars
  BY <1>10, <1>19 DEF ThrowInterp, Exit, vars
<1> QED BY <1>13, <1>14, <1>15, <1>16, <1>17, <1>18, <1>19
        DEF Next, CallLua, CallClosure, CallOverflow, ReturnLua, LeaveInterp, CallC, CallError,
            LuaError, CallYield, CallResume, RefuseWrap, FinishContinue, RunResumed, ResumeGoesOn, Calls,
            ResumeEnds, ResumeYields, ReturnC, YieldC, YieldInterp

\* Without xpcall, what errors and yields leave is to be continued.
LEMMA PlainExposed ==
    ASSUME PlainFeatures, CoInv, ChainInv, PlainInv, FrameInv, mode = "throw"
    PROVE  Exposed
<1> SUFFICES ASSUME native # <<>>, NEW p \in (Base(Top) + 1)..Len(Stack), Stack[p].fn \in Protected
             PROVE  Stack[p].kind = "continue" /\ Top.fn \notin Protected
  BY DEF Exposed
<1>1. /\ current \in Thread /\ Stack = frames[current] /\ Len(Stack) \in Nat /\ PlainStack(Stack)
      /\ Base(Top) \in Nat /\ Stand /\ Foot(Top, Stack, "throw") /\ Calm(Stack, Len(Stack))
  <2>1. current \in Thread /\ Stack = frames[current] /\ Len(Stack) \in Nat /\ PlainStack(Stack)
    BY DEF CoInv, TypeOK, Stack, PlainInv, PlainFrames
  <2>2. Stand /\ Foot(Top, Stack, "throw") /\ Calm(Stack, Len(Stack))
    BY <2>1 DEF FrameInv, Tops, CalmInv
  <2> QED BY <2>1, <2>2, BaseBelow
<1>2. p \in 1..Len(Stack)
  BY <1>1
<1>3. Stack[p].kind = "continue"
  BY <1>1, <1>2 DEF PlainStack, PlainFrame, Protected, Foot
<1>4. Top.fn \notin Protected
  <2> SUFFICES ASSUME Top.fn \in Protected PROVE FALSE
    OBVIOUS
  <2>1. Top.kind = "ccall" /\ Top.fn \notin Resumers
    <3>1. Shaped(Top)
      BY TopOwned
    <3> QED BY <3>1 DEF Shaped, Protected, Resumers
  <2>2. Base(Top) = Top.depth /\ Stack[Top.depth].kind = "capi" /\ Top.depth - 1 \in Nat /\ Top.depth \in Nat
    BY <1>1, <2>1, GoingFacts
  <2>3. Top.depth \in 1..p
    BY <1>2, <2>2
  <2> QED BY <1>1, <1>2, <1>3, <2>2, <2>3 DEF Calm
<1> QED BY <1>3, <1>4

-----------------------------------------------------------------------------
(* With xpcall: where the C++ stack stands *)

\* the programs of this part
HandledFeatures == "xpcall" \in Features /\ "call" \notin Features

\* the frames u that the innermost activation a works on, when it goes on as m:
\* those it found, and when nothing is on its way, only frames it may have above
Rests(a, u, m) ==
    /\ Base(a) <= Len(u)
    /\ m \in {"run", "ok"} => \A p \in (Base(a) + 1)..Len(u) : u[p].kind \in Own(a)

Footing == native # <<>> => Rests(Top, Stack, mode)

\* A handler may leave any frame.
LEMMA AnyLeft == HandledFeatures => \A f \in FrameSet : f.kind \in Left
  BY DEF HandledFeatures, Left, Goes, FrameSet

\* resume_after_yield may find any.
LEMMA RestsAnywhere ==
    ASSUME HandledFeatures, NEW a, a.fn \in Resumers, a.pc \in Continued \cup {"rehandler"},
           NEW u \in Seq(FrameSet), NEW m
    PROVE  Rests(a, u, m)
<1>1. Base(a) = 0 /\ Own(a) = Left /\ Len(u) \in Nat
  BY DEF Base, Own, Resumers
<1>2. \A p \in 1..Len(u) : u[p].kind \in Left
  BY AnyLeft
<1> QED BY <1>1, <1>2 DEF Rests

\* Only the wait of a frame changes.
LEMMA DeliveredFacts ==
    ASSUME NEW s \in Seq(FrameSet), NEW n \in Nat
    PROVE  /\ Delivered(s, n) \in Seq(FrameSet) /\ Len(Delivered(s, n)) = Len(s)
           /\ SameBelow(Delivered(s, n), s, Len(s))
<1>1. CASE n \notin DOMAIN s
  BY <1>1 DEF Delivered, SameBelow, Alike
<1>2. CASE n \in DOMAIN s
  <2> DEFINE f == [s[n] EXCEPT !.wait = FALSE]
  <2>1. n \in 1..Len(s) /\ s[n] \in FrameSet
    BY <1>2
  <2>2. f \in FrameSet /\ Alike(f, s[n]) /\ Delivered(s, n) = [s EXCEPT ![n] = f]
    BY <1>2, <2>1 DEF FrameSet, Alike, Delivered
  <2> HIDE DEF f, FrameSet
  <2>3. /\ Delivered(s, n) \in Seq(FrameSet) /\ Len(Delivered(s, n)) = Len(s)
        /\ \A i \in 1..Len(s) : Delivered(s, n)[i] = IF i = n THEN f ELSE s[i]
    BY <2>1, <2>2, ExceptSeq
  <2> QED BY <2>2, <2>3 DEF SameBelow, Alike
<1> QED BY <1>1, <1>2

\* The innermost activation goes on.
LEMMA StaysThere ==
    ASSUME CoInv, ChainInv, Stand, native # <<>>, native' = native, current' = current,
           NEW u \in Seq(FrameSet), frames' = [frames EXCEPT ![current] = u],
           Holds(u, Stack, Base(Top)), Rests(Top, u, mode')
    PROVE  Stand' /\ Footing'
<1>1. Framed(frames) /\ current \in Thread
  BY DEF CoInv, TypeOK, Framed
<1>2. Framed(frames') /\ frames'[current] = u /\ \A t \in Thread : t # current => frames'[t] = frames[t]
  BY <1>1 DEF Framed
<1>3. Standing(native, frames')
  BY <1>2, StandsHere
<1>4. Rests(Top', Stack', mode')
  BY <1>2 DEF Top, Stack
<1> QED BY <1>3, <1>4 DEF Stand, Footing

\* It goes on at another point.
LEMMA TurnsThere ==
    ASSUME CoInv, ChainInv, Stand, native # <<>>, current' = current,
           NEW a \in Activation, native' = [native EXCEPT ![Len(native)] = a],
           Top.kind = "ccall", a.kind = Top.kind, a.fn = Top.fn, a.th = Top.th, a.co = Top.co,
           Top.fn \in Resumers \/ a.depth = Top.depth,
           NEW u \in Seq(FrameSet), frames' = [frames EXCEPT ![current] = u],
           Holds(u, Stack, Base(Top)), Rests(a, u, mode')
    PROVE  Stand' /\ Footing'
<1>1. Framed(frames) /\ current \in Thread /\ native \in Seq(Activation) /\ Last(native) = Top
  BY DEF CoInv, TypeOK, Framed, Top
<1>2. Framed(frames') /\ frames'[current] = u /\ \A t \in Thread : t # current => frames'[t] = frames[t]
  BY <1>1 DEF Framed
<1>3. Standing(native, frames')
  BY <1>2, StandsHere
<1>4. Standing(native', frames')
  BY <1>1, <1>3, StandingRetop
<1>5. native' # <<>> /\ Last(native') = a
  BY <1>1, ChangeFacts
<1>6. Rests(Top', Stack', mode')
  BY <1>2, <1>5 DEF Top, Stack
<1> QED BY <1>4, <1>6 DEF Stand, Footing

\* It goes, and the one below goes on.
LEMMA FallsBelow ==
    ASSUME CoInv, ChainInv, Stand, native # <<>>, native' = Front(native), current' = Top.th,
           NEW u \in Seq(FrameSet), frames' = [frames EXCEPT ![Top.th] = u],
           Holds(u, frames[Top.th], Place(Top, frames)),
           Front(native) # <<>> => Rests(Below, u, mode')
    PROVE  Stand' /\ Footing'
<1>1. Framed(frames) /\ Top.th \in Thread
  BY TopOwned DEF CoInv, TypeOK, Framed, Activation
<1>2. Framed(frames') /\ frames'[Top.th] = u /\ \A t \in Thread : t # Top.th => frames'[t] = frames[t]
  BY <1>1 DEF Framed
<1>3. Standing(Front(native), frames')
  BY <1>2, StandsBelow
<1>4. native' # <<>> => Rests(Top', Stack', mode')
  BY <1>2 DEF Top, Stack, Below
<1> QED BY <1>3, <1>4 DEF Stand, Footing

\* It calls another one.
LEMMA CallsAbove ==
    ASSUME CoInv, ChainInv, Stand, native # <<>>,
           NEW a \in Activation, native' = Append(native, a), a.th = current, Framed(frames'),
           Holds(frames'[current], Stack, Base(Top)),
           \A t \in Thread : t = current \/ frames'[t] = frames[t] \/ (t # Main /\ ~OnChain(native, t)),
           Stands(a, frames'), Carries(Top, a, frames'), Base(Top) <= Place(a, frames'),
           Rests(a, frames'[current'], mode')
    PROVE  Stand' /\ Footing'
<1>1. native \in Seq(Activation) /\ Last(native) = Top
  BY DEF CoInv, TypeOK, Top
<1>2. Standing(native, frames')
  BY StandsHere
<1>3. \A i \in 1..Len(native) : Callee(native[i]) = a.th => Base(native[i]) <= Place(a, frames')
  <2>1. /\ Base(Top) \in Nat /\ \A i \in 1..Len(native) : Base(native[i]) \in Nat
        /\ \A i \in 1..Len(native) : Callee(native[i]) = current => Base(native[i]) <= Base(Top)
    BY BaseBelow
  <2>2. Place(a, frames') \in Nat
    BY DEF Stands
  <2> QED BY <2>1, <2>2
<1>4. Standing(Append(native, a), frames')
  BY <1>1, <1>2, <1>3, StandingPush
<1>5. Last(native') = a
  BY <1>1, PushFacts
<1>6. Rests(Top', Stack', mode')
  BY <1>5 DEF Top, Stack
<1> QED BY <1>4, <1>6 DEF Stand, Footing

\* It returns: the one below finds the frames there were before the call.
LEMMA LandsReturned ==
    ASSUME CoInv, ChainInv, Stand, native # <<>>, native' = Front(native), current' = Top.th, Top.fn # "drain",
           NEW u \in Seq(FrameSet), frames' = [frames EXCEPT ![Top.th] = u],
           Len(u) = Place(Top, frames), SameBelow(u, frames[Top.th], Place(Top, frames)),
           mode' = Landed(Front(native))
    PROVE  Stand' /\ Footing'
<1>1. mode' \in {"run", "ok"}
  BY DEF Landed
<1>2. Place(Top, frames) \in Nat
  BY BaseBelow DEF Stands
<1>3. Front(native) # <<>> => Rests(Below, u, mode')
  BY <1>1, LandReturned DEF Foot, Rests
<1>4. Holds(u, frames[Top.th], Place(Top, frames))
  BY <1>2 DEF Holds
<1> QED BY <1>3, <1>4, FallsBelow

\* It yields or throws: the one below finds those frames, and others above.
LEMMA LandsAway ==
    ASSUME CoInv, ChainInv, Stand, native # <<>>, native' = Front(native), current' = Top.th,
           NEW u \in Seq(FrameSet), frames' = [frames EXCEPT ![Top.th] = u],
           Holds(u, frames[Top.th], Place(Top, frames)), mode' \in {"yield", "throw"}
    PROVE  Stand' /\ Footing'
<1>1. Place(Top, frames) <= Len(u) /\ Len(u) \in Nat
  BY DEF Holds
<1>2. Front(native) # <<>> => Rests(Below, u, mode')
  BY <1>1, BelowFacts DEF Rests
<1> QED BY <1>2, FallsBelow

-----------------------------------------------------------------------------
(* With xpcall: every step keeps the C++ stack standing *)

\* What is known when a call is made.
LEMMA StarterFacts ==
    ASSUME HandledFeatures, CoInv, ChainInv, Stand, Footing, Calls
    PROVE  /\ mode = "run" /\ native # <<>> /\ Top \in Activation /\ Shaped(Top)
           /\ current \in Thread /\ Framed(frames) /\ Stack \in Seq(FrameSet) /\ Len(Stack) \in Nat
           /\ Base(Top) \in Nat /\ Base(Top) <= Len(Stack) /\ Top.pc \notin Continued
           /\ \A p \in (Base(Top) + 1)..Len(Stack) : Stack[p].kind \in Own(Top)
           /\ LuaRuns => "lua" \in Own(Top) /\ Base(Top) < Len(Stack)
           /\ ~LuaRuns => CBody
<1>1. mode = "run" /\ native # <<>> /\ (LuaRuns \/ CBody)
  BY DEF Calls, LuaRuns, CBody
<1>2. /\ Top \in Activation /\ Shaped(Top) /\ Framed(frames) /\ current \in Thread
      /\ Base(Top) \in Nat /\ Base(Top) <= Len(Stack) /\ Len(Stack) \in Nat
  BY <1>1, BaseBelow DEF CoInv, TypeOK
<1>3. Stack \in Seq(FrameSet)
  BY <1>2 DEF Stack, Framed
<1>4. \A p \in (Base(Top) + 1)..Len(Stack) : Stack[p].kind \in Own(Top)
  BY <1>1 DEF Footing, Rests
<1>5. ASSUME LuaRuns PROVE "lua" \in Own(Top) /\ Base(Top) < Len(Stack) /\ Top.pc \notin Continued
  <2>1. Top.kind = "interp" /\ Top.depth <= Len(Stack) /\ Top.depth \in Nat
    BY <1>2, <1>5 DEF LuaRuns, Activation
  <2>2. Top.fn \in {"nested", "drain"} /\ Top.pc = "loop"
    BY <1>2, <2>1 DEF Shaped, HandledFeatures
  <2>3. "lua" \in Left
    BY DEF Left, Goes
  <2> QED BY <1>2, <2>1, <2>2, <2>3 DEF Own, Base, Resumers, Continued
<1>6. CBody => Top.pc \notin Continued
  BY DEF CBody, Continued
<1> QED BY <1>1, <1>2, <1>3, <1>4, <1>5, <1>6

\* A C function that throws.
LEMMA ThrownHeld ==
    ASSUME HandledFeatures, CoInv, ChainInv, Stand, Footing, Calls,
           NEW fn \in {"error", "yield", "wrap"}, ThrownBy(fn)
    PROVE  Stand' /\ Footing'
<1>1. /\ native # <<>> /\ current \in Thread /\ Framed(frames) /\ Stack \in Seq(FrameSet)
      /\ Len(Stack) \in Nat /\ Base(Top) \in Nat /\ Base(Top) <= Len(Stack)
  BY StarterFacts
<1>2. native' = native /\ current' = current /\ mode' = "throw"
  BY DEF ThrownBy
<1>3. PICK u \in Seq(FrameSet) : /\ frames' = [frames EXCEPT ![current] = u]
                                 /\ Len(Stack) <= Len(u) /\ SameBelow(u, Stack, Len(Stack))
  <2>1. CASE current = Main
    <3>1. frames' = [frames EXCEPT ![current] = Stack]
      BY <1>1, <2>1 DEF ThrownBy, Stack, Framed
    <3>2. SameBelow(Stack, Stack, Len(Stack)) /\ Len(Stack) <= Len(Stack)
      BY <1>1 DEF SameBelow, Alike
    <3> HIDE DEF FrameSet
    <3> QED BY <1>1, <3>1, <3>2
  <2>2. CASE current # Main
    <3> DEFINE f == Frame("capi", fn)
    <3>1. f \in FrameSet
      BY NewFrames DEF Resumers
    <3>2. frames' = [frames EXCEPT ![current] = Pushed(Stack, f)]
      BY <2>2 DEF ThrownBy, Stack
    <3> HIDE DEF f, FrameSet
    <3>3. /\ Pushed(Stack, f) \in Seq(FrameSet) /\ Len(Pushed(Stack, f)) = Len(Stack) + 1
          /\ SameBelow(Pushed(Stack, f), Stack, Len(Stack))
      BY <1>1, <3>1, PushedFacts
    <3>4. Len(Stack) <= Len(Pushed(Stack, f))
      BY <1>1, <3>3
    <3> QED BY <3>2, <3>3, <3>4
  <2> QED BY <2>1, <2>2
<1>4. Len(u) \in Nat
  BY <1>3
<1>5. Holds(u, Stack, Base(Top))
  BY <1>1, <1>3, <1>4 DEF Holds, SameBelow
<1>6. Rests(Top, u, mode')
  BY <1>1, <1>2, <1>3, <1>4 DEF Rests
<1> QED BY <1>1, <1>2, <1>3, <1>5, <1>6, StaysThere

\* A call of a Lua function or of a C function that calls back, and a yield.
LEMMA CallsHeld ==
    ASSUME HandledFeatures, CoInv, ChainInv, Stand, Footing,
           \/ CallLua \/ CallClosure \/ CallYield \/ CallError
           \/ \E fn \in {"pcall"} \cup (Features \cap {"xpcall", "dofile", "sort"}) : CallC(fn)
           \/ \E co \in Co : "wrap" \in Features /\ RefuseWrap(co)
    PROVE  Stand' /\ Footing'
<1> DEFINE n == Len(Stack)
<1>1. Calls
  BY DEF CallLua, CallClosure, CallC, CallYield, CallError, RefuseWrap, Calls
<1>2. /\ mode = "run" /\ native # <<>> /\ Top \in Activation /\ Shaped(Top)
      /\ current \in Thread /\ Framed(frames) /\ Stack \in Seq(FrameSet)
      /\ n \in Nat /\ Base(Top) \in Nat /\ Base(Top) <= n /\ Top.pc \notin Continued
      /\ \A p \in (Base(Top) + 1)..n : Stack[p].kind \in Own(Top)
      /\ LuaRuns => "lua" \in Own(Top) /\ Base(Top) < n
      /\ ~LuaRuns => CBody
  BY <1>1, StarterFacts
<1>3. /\ Frame("lua", "lua") \in FrameSet /\ Frame("lua", "lua").kind = "lua"
      /\ LuaFrame \in FrameSet /\ LuaFrame.kind = "lua"
      /\ \A fn \in Yieldable \cup Resumers \cup {"sort", "error", "yield"} :
            /\ Frame("capi", fn) \in FrameSet /\ Frame("capi", fn).kind = "capi"
            /\ Frame("capi", fn).fn = fn
  BY NewFrames DEF Frame, LuaFrame
<1> HIDE DEF n, FrameSet
<1>4. ASSUME NEW f \in FrameSet
      PROVE  LET u == Pushed(Stack, f)
             IN  /\ u \in Seq(FrameSet) /\ Len(u) = n + 1 /\ u[n + 1] = f
                 /\ Holds(u, Stack, Base(Top)) /\ Holds(u, Stack, n)
                 /\ \A p \in (Base(Top) + 1)..n : u[p].kind \in Own(Top)
                 /\ \A p \in (Base(Top) + 1)..(n + 1) : p = n + 1 \/ p \in (Base(Top) + 1)..n
  BY <1>2, PushedFacts, PushedAbove DEF n
\* an activation that starts with a new frame
<1>5. ASSUME NEW a \in Activation, a.th = current, a.fn \notin Resumers, a.fn # "drain", a.depth = n + 1,
             native' = Append(native, a), current' = current, mode' = "run",
             NEW f \in FrameSet, frames' = [frames EXCEPT ![current] = Pushed(Stack, f)],
             \/ a.kind = "ccall" /\ f.kind = "capi" /\ f.fn = a.fn
             \/ a.kind = "interp" /\ a.fn = "nested" /\ f.kind = "lua"
      PROVE  Stand' /\ Footing'
  <2> DEFINE u == Pushed(Stack, f)
  <2>1. /\ u \in Seq(FrameSet) /\ Len(u) = n + 1 /\ u[n + 1] = f
        /\ Holds(u, Stack, Base(Top)) /\ Holds(u, Stack, n)
        /\ \A p \in (Base(Top) + 1)..n : u[p].kind \in Own(Top)
    BY <1>4
  <2> HIDE DEF u
  <2>2. /\ Framed(frames') /\ frames'[current] = u
        /\ \A t \in Thread : t = current \/ frames'[t] = frames[t]
    BY <1>2, <1>5, <2>1 DEF Framed, u
  <2>3. Place(a, frames') = n /\ (n + 1) - 1 = n /\ "drain" # "nested"
    BY <1>2, <1>5 DEF Place
  <2>4. Base(a) = (IF a.kind = "interp" THEN n ELSE n + 1)
    BY <1>2, <1>5 DEF Base
  <2>5. Stands(a, frames')
    BY <1>2, <1>5, <2>1, <2>2, <2>3, <2>4 DEF Stands, Reach
  <2>6. Carries(Top, a, frames')
    BY <1>2, <1>5, <2>1, <2>2, <2>3 DEF Carries
  <2>7. Rests(a, u, mode')
    <3>1. \A p \in (Base(a) + 1)..Len(u) : u[p].kind \in Own(a)
      <4>1. CASE a.kind = "ccall"
        BY <1>2, <2>1, <2>4, <4>1
      <4>2. CASE a.kind = "interp" /\ a.fn = "nested" /\ f.kind = "lua"
        <5>1. \A p \in (Base(a) + 1)..Len(u) : p = n + 1
          BY <1>2, <2>1, <2>4, <4>2
        <5> QED BY <2>1, <4>2, <5>1 DEF Own
      <4> QED BY <1>5, <4>1, <4>2
    <3>2. Base(a) <= Len(u)
      BY <1>2, <2>1, <2>4
    <3> QED BY <3>1, <3>2 DEF Rests
  <2> QED BY <1>2, <1>5, <2>1, <2>2, <2>3, <2>5, <2>6, <2>7, CallsAbove
<1>6. CASE CallLua
  <2> DEFINE f == Frame("lua", "lua")  u == Pushed(Stack, f)
  <2>1. /\ LuaRuns /\ frames' = [frames EXCEPT ![current] = u] /\ native' = native /\ current' = current
    BY <1>6 DEF CallLua, Stack
  <2>2. /\ u \in Seq(FrameSet) /\ Len(u) = n + 1 /\ u[n + 1].kind = "lua" /\ Holds(u, Stack, Base(Top))
        /\ \A p \in (Base(Top) + 1)..n : u[p].kind \in Own(Top)
        /\ \A p \in (Base(Top) + 1)..(n + 1) : p = n + 1 \/ p \in (Base(Top) + 1)..n
    BY <1>3, <1>4
  <2> HIDE DEF u
  <2>3. \A p \in (Base(Top) + 1)..Len(u) : u[p].kind \in Own(Top)
    BY <1>2, <2>1, <2>2
  <2>4. Rests(Top, u, mode')
    BY <1>2, <2>1, <2>2, <2>3 DEF Rests
  <2> QED BY <1>2, <2>1, <2>2, <2>4, StaysThere
<1>7. CASE CallClosure
  <2> DEFINE a == Interp("nested", n + 1)
  <2>1. CBody
    BY <1>2, <1>7 DEF CallClosure, HandledFeatures
  <2>2. a \in Activation /\ a.th = current /\ a.fn = "nested" /\ a.kind = "interp"
    BY <1>2, NewActivations
  <2>3. a.depth = n + 1
    BY DEF Interp
  <2>4. /\ native' = Append(native, a) /\ frames' = [frames EXCEPT ![current] = Pushed(Stack, LuaFrame)]
        /\ current' = current /\ mode' = "run"
    BY <1>2, <1>7, <2>1 DEF CallClosure, Stack, n
  <2> HIDE DEF a
  <2> QED BY <1>3, <1>5, <2>2, <2>3, <2>4 DEF Resumers
<1>8. ASSUME NEW fn \in {"pcall"} \cup (Features \cap {"xpcall", "dofile", "sort"}), CallC(fn)
      PROVE  Stand' /\ Footing'
  <2> DEFINE a == CCall(fn, Main, "call")
  <2>1. fn \in Yieldable \cup {"sort"} /\ Main \in Thread
    BY DEF Yieldable, Thread
  <2>2. a \in Activation /\ a.th = current /\ a.fn = fn /\ a.kind = "ccall"
    BY <2>1, NewActivations
  <2>3. a.depth = n + 1
    BY DEF CCall, Stack, n
  <2>4. /\ native' = Append(native, a)
        /\ frames' = [frames EXCEPT ![current] = Pushed(Stack, Frame("capi", fn))]
        /\ current' = current /\ mode' = "run"
    BY <1>2, <1>8 DEF CallC, Stack
  <2>5. fn \notin Resumers /\ fn # "drain"
    BY <2>1 DEF Yieldable, Resumers
  <2>6. Frame("capi", fn) \in FrameSet /\ Frame("capi", fn).kind = "capi" /\ Frame("capi", fn).fn = fn
    BY <1>3, <2>1
  <2> HIDE DEF a
  <2> QED BY <1>5, <2>2, <2>3, <2>4, <2>5, <2>6
<1>9. CASE CallYield
  <2>1. CASE ~CanYield
    BY <1>1, <1>9, <2>1, ThrownHeld DEF CallYield
  <2>2. CASE CanYield
    <3> DEFINE f == Frame("capi", "yield")  u == Pushed(Stack, f)
    <3>1. /\ frames' = [frames EXCEPT ![current] = u] /\ native' = native /\ current' = current
          /\ mode' = "yield"
      BY <1>9, <2>2 DEF CallYield, Stack
    <3>2. u \in Seq(FrameSet) /\ Len(u) = n + 1 /\ Holds(u, Stack, Base(Top))
      BY <1>3, <1>4
    <3> HIDE DEF u
    <3>3. Rests(Top, u, mode')
      BY <1>2, <3>1, <3>2 DEF Rests
    <3> QED BY <1>2, <3>1, <3>2, <3>3, StaysThere
  <2> QED BY <2>1, <2>2
<1>10. CASE CallError
  BY <1>1, <1>10, ThrownHeld DEF CallError
<1>11. ASSUME NEW co \in Co, RefuseWrap(co) PROVE Stand' /\ Footing'
  BY <1>1, <1>11, ThrownHeld DEF RefuseWrap
<1> QED BY <1>6, <1>7, <1>8, <1>9, <1>10, <1>11

\* A resume.
LEMMA EntersHeld ==
    ASSUME HandledFeatures, CoInv, ChainInv, Stand, Footing,
           NEW fn \in {"resume"} \cup (Features \cap {"wrap"}), NEW co \in Co, CallResume(fn, co)
    PROVE  Stand' /\ Footing'
<1> DEFINE n == Len(Stack)
           pc == IF status[co] = "Fresh" THEN "first" ELSE "drain"
           a == CCall(fn, co, pc)
           f == Frame("capi", fn)
           u == Pushed(Stack, f)
           v == IF status[co] = "Fresh" THEN <<>> ELSE Resumed(frames[co])
<1>1. Calls /\ Resumable(co)
  BY DEF CallResume
<1>2. /\ mode = "run" /\ native # <<>> /\ Top \in Activation /\ Shaped(Top)
      /\ current \in Thread /\ Framed(frames) /\ Stack \in Seq(FrameSet)
      /\ n \in Nat /\ Base(Top) \in Nat /\ Base(Top) <= n /\ Top.pc \notin Continued
      /\ \A p \in (Base(Top) + 1)..n : Stack[p].kind \in Own(Top)
  BY <1>1, StarterFacts
<1>3. co \in Thread /\ co # Main /\ co # current /\ ~OnChain(native, co)
  BY <1>1, <1>2, ResumableOff
<1>4. fn \in Resumers /\ pc \in {"call", "first", "drain"}
  BY DEF Resumers
<1>5. a \in Activation /\ a.th = current /\ a.fn = fn /\ a.kind = "ccall" /\ a.co = co /\ a.pc = pc
  BY <1>3, <1>4, NewActivations
<1>6. f \in FrameSet /\ f.kind = "capi" /\ f.fn = fn
  BY <1>4, NewFrames DEF Frame
<1> HIDE DEF n, f, FrameSet
<1>7. /\ u \in Seq(FrameSet) /\ Len(u) = n + 1 /\ u[n + 1] = f
      /\ Holds(u, Stack, Base(Top)) /\ \A p \in (Base(Top) + 1)..n : u[p].kind \in Own(Top)
  BY <1>2, <1>6, PushedFacts, PushedAbove DEF n
<1>8. frames' = [[frames EXCEPT ![current] = u] EXCEPT ![co] = v]
  <2>1. frames' = LET caller == [frames EXCEPT ![current] = u]
                  IN  IF status[co] = "Fresh" THEN [caller EXCEPT ![co] = <<>>]
                      ELSE [caller EXCEPT ![co] = Resumed(caller[co])]
    BY DEF CallResume, Stack, f
  <2>2. [frames EXCEPT ![current] = u][co] = frames[co]
    BY <1>2, <1>3 DEF Framed
  <2> HIDE DEF u
  <2> QED BY <2>1, <2>2
<1>9. native' = Append(native, a) /\ current' = co /\ mode' = "run"
  BY <1>2 DEF CallResume
<1>10. v \in Seq(FrameSet) /\ (pc = "first" => v = <<>>)
  <2>1. frames[co] \in Seq(FrameSet)
    BY <1>2, <1>3 DEF Framed
  <2> QED BY <2>1, EmptySeq, ResumedFacts
<1> HIDE DEF u, v
<1>11. /\ Framed(frames') /\ frames'[current] = u /\ frames'[co] = v
       /\ \A t \in Thread : t = current \/ frames'[t] = frames[t] \/ t = co
  BY <1>2, <1>3, <1>7, <1>8, <1>10 DEF Framed
<1>12. pc \in {"first", "drain"}
  OBVIOUS
<1> HIDE DEF a, pc
<1>13. Place(a, frames') = n /\ Reach(a, frames') = n + 1 /\ Base(a) = 0
  BY <1>2, <1>4, <1>5, <1>7, <1>11 DEF Place, Reach, Base
<1>14. fn # "drain" /\ fn # "nested"
  BY <1>4 DEF Resumers
<1>15. Stands(a, frames')
  BY <1>2, <1>5, <1>6, <1>7, <1>11, <1>13, <1>14 DEF Stands
<1>16. Carries(Top, a, frames')
  BY <1>2, <1>5, <1>7, <1>11, <1>13, <1>14 DEF Carries
<1>17. Rests(a, v, mode')
  <2>1. CASE pc = "drain"
    BY <1>4, <1>5, <1>10, <2>1, RestsAnywhere DEF Continued
  <2>2. CASE pc = "first"
    BY <1>10, <1>13, <2>2 DEF Rests
  <2> QED BY <1>12, <2>1, <2>2
<1>18. \A t \in Thread : t = current \/ frames'[t] = frames[t] \/ (t # Main /\ ~OnChain(native, t))
  BY <1>3, <1>11
<1> QED BY <1>2, <1>5, <1>7, <1>9, <1>11, <1>13, <1>15, <1>16, <1>17, <1>18, CallsAbove

\* A step of the innermost activation that calls nothing.
LEMMA RunsHeld ==
    ASSUME HandledFeatures, CoInv, ChainInv, Stand, Footing,
           \/ CallOverflow \/ LuaError \/ ReturnLua \/ FinishContinue \/ RunResumed
           \/ ResumeGoesOn \/ HandlerFails \/ CallHandler \/ Exit \/ UNCHANGED vars
    PROVE  Stand' /\ Footing'
<1> DEFINE n == Len(Stack)
<1>1. CASE Exit \/ UNCHANGED vars
  BY <1>1 DEF Exit, vars, Stand, Footing, Top, Stack
<1>2. CASE native # <<>>
  <2>1. /\ Framed(frames) /\ current \in Thread /\ native \in Seq(Activation) /\ Top \in Activation
        /\ Shaped(Top) /\ Base(Top) \in Nat /\ Base(Top) <= n /\ n \in Nat
        /\ Top = native[Len(native)] /\ Len(native) \in Nat \ {0}
    BY <1>2, BaseBelow DEF CoInv, TypeOK
  <2>2. Stack \in Seq(FrameSet) /\ frames = [frames EXCEPT ![current] = Stack]
    BY <2>1 DEF Stack, Framed
  <2>3. Holds(Stack, Stack, Base(Top))
    BY <2>1 DEF Holds, SameBelow, Alike
  <2>4. ASSUME LuaRuns PROVE Calls
    BY <2>4 DEF Calls
  <2> HIDE DEF FrameSet
  \* the last frame goes
  <2>5. ASSUME NEW u \in Seq(FrameSet), Len(u) = n - 1, SameBelow(u, Stack, n - 1), Base(Top) < n,
               frames' = [frames EXCEPT ![current] = u], native' = native, current' = current,
               mode = "run", mode' = "run"
        PROVE  Stand' /\ Footing'
    <3>1. \A p \in (Base(Top) + 1)..n : Stack[p].kind \in Own(Top)
      BY <1>2, <2>5 DEF Footing, Rests, n
    <3> HIDE DEF n
    <3>2. Holds(u, Stack, Base(Top))
      BY <2>1, <2>5 DEF Holds, SameBelow
    <3>3. \A p \in (Base(Top) + 1)..(n - 1) : p \in 1..(n - 1) /\ p \in (Base(Top) + 1)..n
      BY <2>1
    <3>4. Rests(Top, u, mode')
      BY <2>1, <2>5, <3>1, <3>3 DEF Rests, SameBelow, Alike
    <3> QED BY <1>2, <2>5, <3>2, <3>4, StaysThere
  \* resume_after_yield goes on
  <2>6. ASSUME Top.fn \in Resumers, NEW pc \in {"redrain", "drain"}, NEW u \in Seq(FrameSet),
               native' = [native EXCEPT ![Len(native)].pc = pc], frames' = [frames EXCEPT ![current] = u],
               current' = current
        PROVE  Stand' /\ Footing'
    <3> DEFINE a == [Top EXCEPT !.pc = pc]
    <3>1. /\ a \in Activation /\ a.kind = Top.kind /\ a.fn = Top.fn /\ a.th = Top.th /\ a.co = Top.co
          /\ a.pc = pc
      BY <2>1, <2>6 DEF Activation
    <3>2. native' = [native EXCEPT ![Len(native)] = a]
      BY <2>1, <2>6
    <3> HIDE DEF a
    <3>3. Top.kind = "ccall" /\ Base(Top) = 0
      BY <2>1, <2>6 DEF Shaped, Resumers, Base
    <3>4. Holds(u, Stack, Base(Top))
      <4>1. Len(u) \in Nat
        OBVIOUS
      <4> QED BY <3>3, <4>1 DEF Holds, SameBelow
    <3>5. Rests(a, u, mode')
      BY <2>6, <3>1, RestsAnywhere DEF Continued
    <3> QED BY <1>2, <2>6, <3>1, <3>2, <3>3, <3>4, <3>5, TurnsThere
  <2>7. CASE CallOverflow \/ LuaError
    <3>1. native' = native /\ current' = current /\ frames' = frames /\ mode' = "throw"
      BY <2>7 DEF CallOverflow, LuaError
    <3>2. Rests(Top, Stack, mode')
      BY <2>1, <3>1 DEF Rests
    <3> QED BY <1>2, <2>2, <2>3, <3>1, <3>2, StaysThere
  <2>8. CASE ReturnLua
    <3>1. /\ LuaRuns /\ native' = native /\ current' = current /\ mode = "run" /\ mode' = "run" /\ Stack # <<>>
          /\ frames' = [frames EXCEPT ![current] = IF Last(Stack).fn = "handler" THEN Front(Stack)
                                                   ELSE Returned(Stack)]
      BY <2>8 DEF ReturnLua, LuaRuns, BackIs, Stack
    <3>2. Base(Top) < n
      BY <2>4, <3>1, StarterFacts
    <3>3. LET u == Front(Stack) IN u \in Seq(FrameSet) /\ Len(u) = n - 1 /\ SameBelow(u, Stack, n - 1)
      BY <2>2, <3>1, FrontFacts DEF SameBelow, Alike
    <3>4. LET u == Returned(Stack) IN u \in Seq(FrameSet) /\ Len(u) = n - 1 /\ SameBelow(u, Stack, n - 1)
      BY <2>2, <3>1, ReturnedFacts
    <3> QED BY <2>5, <3>1, <3>2, <3>3, <3>4
  <2>9. ASSUME Top.pc \in Continued PROVE Top.fn \in Resumers /\ Base(Top) = 0 /\ Own(Top) = Left
    BY <1>2, <2>9, ContinuedFacts
  <2>10. CASE FinishContinue
    <3>1. /\ Top.pc \in Continued /\ mode = "run" /\ mode' = "run" /\ Stack # <<>>
          /\ native' = native /\ current' = current /\ frames' = [frames EXCEPT ![current] = Returned(Stack)]
      BY <2>10 DEF FinishContinue, Draining, BackIs, Continued, Stack
    <3>2. LET u == Returned(Stack) IN u \in Seq(FrameSet) /\ Len(u) = n - 1 /\ SameBelow(u, Stack, n - 1)
      BY <2>2, <3>1, ReturnedFacts
    <3>3. Base(Top) < n
      <4>1. n # 0
        BY <2>2, <3>1
      <4> QED BY <2>1, <2>9, <3>1, <4>1
    <3> QED BY <2>5, <3>1, <3>2, <3>3
  <2>11. CASE RunResumed
    <3>1. Top.pc \in Continued /\ mode = "run" /\ frames' = frames /\ current' = current
      BY <2>11 DEF RunResumed, Draining, Continued
    <3>2. CASE ~BackIs("lua")
      <4>1. native' = native /\ mode' = "ok"
        BY <2>11, <3>2 DEF RunResumed
      <4>2. Rests(Top, Stack, mode')
        BY <2>2, <2>9, <3>1, RestsAnywhere
      <4> QED BY <1>2, <2>2, <2>3, <3>1, <4>1, <4>2, StaysThere
    <3>3. CASE BackIs("lua")
      <4> DEFINE a == Interp("drain", 1)
      <4>1. a \in Activation /\ a.th = current /\ a.fn = "drain" /\ a.kind = "interp"
        BY NewActivations
      <4>2. a.depth = 1
        BY DEF Interp
      <4>3. native' = Append(native, a)
        BY <2>11, <3>3 DEF RunResumed
      <4> HIDE DEF a, n
      <4>4. Base(a) = 0 /\ Place(a, frames') = 0 /\ Reach(a, frames') = 0 /\ Own(a) = Left
        BY <4>1, <4>2 DEF Base, Place, Reach, Resumers, Own
      <4>5. Stands(a, frames') /\ Carries(Top, a, frames')
        BY <2>1, <2>9, <3>1, <4>1, <4>2, <4>4 DEF Stands, Carries, Stack, n
      <4>6. Rests(a, Stack, mode')
        <5>1. \A p \in 1..n : Stack[p].kind \in Left
          BY <2>2, AnyLeft DEF n
        <5> QED BY <2>1, <4>4, <5>1 DEF Rests, n
      <4>7. Framed(frames') /\ Holds(frames'[current], Stack, Base(Top))
        BY <2>1, <2>3, <3>1 DEF Stack
      <4> QED BY <1>2, <2>9, <3>1, <4>1, <4>3, <4>4, <4>5, <4>6, <4>7, CallsAbove DEF Stack
    <3> QED BY <3>2, <3>3
  <2>12. CASE ResumeGoesOn
    <3>1. /\ Top.fn \in Resumers /\ current' = current /\ Top.pc \in {"rehandler", "drain", "redrain"}
          /\ frames' = [frames EXCEPT ![current] = IF Top.pc = "rehandler" THEN Delivered(Stack, Top.depth)
                                                   ELSE Stack]
      BY <2>12 DEF ResumeGoesOn, InResume, GoesOn, Stack
    <3>2. native' = [native EXCEPT ![Len(native)].pc = IF Top.pc = "rehandler" THEN "redrain" ELSE Top.pc]
      BY <2>1, <2>12 DEF ResumeGoesOn
    <3>3. Delivered(Stack, Top.depth) \in Seq(FrameSet)
      BY <2>1, <2>2, DeliveredFacts DEF Activation
    <3>4. CASE Top.pc = "rehandler"
      BY <2>6, <3>1, <3>2, <3>3, <3>4
    <3>5. CASE Top.pc # "rehandler"
      BY <2>2, <2>6, <3>1, <3>2, <3>5
    <3> QED BY <3>4, <3>5
  <2>13. CASE HandlerFails
    <3>1. /\ Top.fn \in Resumers /\ current' = current
          /\ frames' = [frames EXCEPT ![current] = Delivered(Stack, Top.depth)]
          /\ native' = [native EXCEPT ![Len(native)].pc = "redrain"]
      BY <2>13 DEF HandlerFails, InResume, Stack
    <3>2. Delivered(Stack, Top.depth) \in Seq(FrameSet)
      BY <2>1, <2>2, DeliveredFacts DEF Activation
    <3> QED BY <2>6, <3>1, <3>2
  <2>14. CASE CallHandler
    <3> DEFINE a == [Top EXCEPT !.pc = "handler"]  u == Cut(Stack, Top.depth)
    <3>1. /\ Top.kind = "ccall" /\ Top.fn = "xpcall" /\ Top.fn \notin Resumers /\ current' = current
          /\ frames' = [frames EXCEPT ![current] = u] /\ native' = [native EXCEPT ![Len(native)].pc = "handler"]
      BY <2>14 DEF CallHandler, InC, Resumers, Stack
    <3>2. /\ a \in Activation /\ a.kind = Top.kind /\ a.fn = Top.fn /\ a.th = Top.th /\ a.co = Top.co
          /\ a.depth = Top.depth
      BY <2>1 DEF Activation
    <3>3. native' = [native EXCEPT ![Len(native)] = a]
      BY <2>1, <3>1
    <3>4. Base(Top) = Top.depth /\ Base(a) = Top.depth /\ Top.depth \in Nat
      <4>1. Base(Top) = Top.depth /\ Top.depth \in Nat
        BY <1>2, <3>1, GoingFacts
      <4> QED BY <3>1, <3>2, <4>1 DEF Base
    <3> HIDE DEF a
    <3>5. u \in Seq(FrameSet) /\ Len(u) = Top.depth /\ \A p \in 1..Top.depth : u[p] = Stack[p]
      BY <2>1, <2>2, <3>4, CutFacts
    <3> HIDE DEF u
    <3>6. Holds(u, Stack, Base(Top))
      BY <3>4, <3>5 DEF Holds, SameBelow, Alike
    <3>7. Rests(a, u, mode')
      BY <3>4, <3>5 DEF Rests
    <3> QED BY <1>2, <3>1, <3>2, <3>3, <3>5, <3>6, <3>7, TurnsThere
  <2> QED BY <1>1, <2>7, <2>8, <2>10, <2>11, <2>12, <2>13, <2>14
<1>3. CASE native = <<>>
  BY <1>1, <1>3 DEF CallOverflow, LuaError, ReturnLua, FinishContinue, RunResumed, Draining, ResumeGoesOn,
                    HandlerFails, CallHandler, InResume, InC, Calls, LuaRuns, CBody
<1> QED BY <1>2, <1>3

\* The interpreter is left.
LEMMA LeaveInterpHeld ==
    ASSUME HandledFeatures, CoInv, ChainInv, Stand, Footing, LeaveInterp
    PROVE  Stand' /\ Footing'
<1> DEFINE n == Len(Stack)
<1>1. /\ native # <<>> /\ mode = "run" /\ Top.kind = "interp" /\ ~LuaRuns /\ native' = Front(native)
      /\ frames' = frames /\ current' = current /\ mode' = Landed(Front(native))
  BY DEF LeaveInterp
<1>2. Top.fn \notin Resumers
  <2>1. Shaped(Top)
    BY <1>1, TopOwned
  <2> QED BY <1>1, <2>1 DEF Shaped, Resumers
<1>3. /\ Top.th = current /\ current \in Thread /\ Framed(frames) /\ Stack = frames[Top.th]
      /\ Stack \in Seq(FrameSet) /\ n \in Nat /\ Shaped(Top) /\ Top.depth \in Nat
      /\ Base(Top) \in Nat /\ Base(Top) <= n
      /\ Base(Top) = Place(Top, frames) /\ Place(Top, frames) = Top.depth - 1
  BY <1>1, <1>2, GoingFacts
<1>4. Top.fn \in {"nested", "drain"}
  BY <1>1, <1>3 DEF Shaped, HandledFeatures
<1>5. frames' = [frames EXCEPT ![Top.th] = Stack]
  BY <1>1, <1>3 DEF Framed
<1>6. SameBelow(Stack, frames[Top.th], Place(Top, frames)) /\ Place(Top, frames) <= n
  BY <1>3 DEF SameBelow, Alike
<1> HIDE DEF FrameSet
<1>7. CASE Top.fn = "nested"
  <2>1. n = Place(Top, frames)
    <3>1. SUFFICES ASSUME Base(Top) < n PROVE FALSE
      BY <1>3
    <3>2. n \in (Base(Top) + 1)..n /\ Stack # <<>>
      BY <1>3, <3>1
    <3>3. \A p \in (Base(Top) + 1)..n : Stack[p].kind \in Own(Top)
      BY <1>1 DEF Footing, Rests
    <3>4. Last(Stack).kind = "lua"
      BY <1>7, <3>2, <3>3 DEF Own, Last
    <3>5. Top.depth <= n
      BY <1>3, <3>1
    <3> QED BY <1>1, <1>3, <3>2, <3>4, <3>5 DEF BackIs, LuaRuns
  <2> QED BY <1>1, <1>3, <1>5, <1>6, <1>7, <2>1, LandsReturned
<1>8. CASE Top.fn = "drain"
  <2>1. ASSUME Front(native) # <<>> PROVE Rests(Below, Stack, mode')
    <3>1. Below.pc \in Continued /\ Shaped(Below)
      BY <1>1, <1>8, <2>1, BelowFacts DEF Carries
    <3>2. Below.fn \in Resumers
      BY <3>1 DEF Shaped, Continued, Resumers, Yieldable
    <3> QED BY <1>3, <3>1, <3>2, RestsAnywhere
  <2>2. Holds(Stack, frames[Top.th], Place(Top, frames))
    BY <1>6 DEF Holds
  <2> QED BY <1>1, <1>3, <1>5, <2>1, <2>2, FallsBelow
<1> QED BY <1>4, <1>7, <1>8

\* A C function returns, yields, throws or catches an error, and the interpreter
\* yields or throws.
LEMMA UnwindHeld ==
    ASSUME HandledFeatures, CoInv, ChainInv, Stand, Footing,
           ReturnC \/ YieldC \/ YieldInterp \/ ThrowInterp \/ ThrowC \/ CatchC
    PROVE  Stand' /\ Footing'
<1> DEFINE n == Len(Stack)  k == Place(Top, frames)
<1>1. native # <<>> /\ native' = Front(native) /\ current' = current
  BY DEF ReturnC, YieldC, YieldInterp, ThrowInterp, ThrowC, CatchC, InC
<1>2. Top.fn \notin Resumers
  <2>1. Shaped(Top)
    BY <1>1, TopOwned
  <2> QED BY <2>1 DEF ReturnC, YieldC, YieldInterp, ThrowInterp, ThrowC, CatchC, InC, Shaped, Yieldable,
                     Protected, Resumers
<1>3. /\ Top.th = current /\ current \in Thread /\ Framed(frames) /\ Stack = frames[Top.th]
      /\ Stack \in Seq(FrameSet) /\ n \in Nat /\ Shaped(Top) /\ Top.depth \in Nat
      /\ Base(Top) \in Nat /\ Base(Top) <= n /\ k = Top.depth - 1 /\ k \in Nat
      /\ Top.kind = "interp" => Base(Top) = k
      /\ Top.kind = "ccall" => Base(Top) = Top.depth /\ Base(Top) = k + 1
  BY <1>1, <1>2, GoingFacts
<1>4. k <= n
  <2>1. Top.kind \in {"interp", "ccall"}
    BY <1>3 DEF Shaped
  <2> HIDE DEF k, n
  <2> QED BY <1>3, <2>1
<1>5. frames = [frames EXCEPT ![Top.th] = Stack]
  BY <1>3 DEF Framed
<1> HIDE DEF FrameSet, k, n
<1>6. ASSUME NEW u \in Seq(FrameSet), frames' = [frames EXCEPT ![Top.th] = u], Len(u) = k,
             SameBelow(u, Stack, k), mode' = Landed(Front(native)), Top.fn # "drain"
      PROVE  Stand' /\ Footing'
  BY <1>1, <1>3, <1>6, LandsReturned DEF k
<1>7. ASSUME NEW u \in Seq(FrameSet), frames' = [frames EXCEPT ![Top.th] = u], k <= Len(u),
             SameBelow(u, Stack, k), mode' \in {"yield", "throw"}
      PROVE  Stand' /\ Footing'
  BY <1>1, <1>3, <1>7, LandsAway DEF k, Holds
<1>8. ASSUME NEW u \in Seq(FrameSet), k <= Len(u), \A p \in 1..k : u[p] = Stack[p] PROVE SameBelow(u, Stack, k)
  BY <1>8 DEF SameBelow, Alike
<1>9. SameBelow(Stack, Stack, k)
  BY <1>3, <1>4, <1>8 DEF n
<1>10. CASE ReturnC
  <2> DEFINE u == Returned(Stack)
  <2>1. /\ mode = "ok" /\ mode' = Landed(Front(native)) /\ Top.kind = "ccall" /\ Top.fn # "drain"
        /\ frames' = [frames EXCEPT ![Top.th] = u] /\ Top.fn \in Yieldable \cup {"sort"}
    BY <1>3, <1>10, ReturnsOk DEF ReturnC, InC, Yieldable, Stack
  <2>2. Own(Top) = {}
    BY <1>3, <2>1 DEF Own, Shaped, Yieldable, Continued, Resumers
  <2>3. n = k + 1
    <3>1. \A p \in (Base(Top) + 1)..n : Stack[p].kind \in Own(Top)
      BY <1>1, <2>1 DEF Footing, Rests, n
    <3>2. Base(Top) < n => n \in (Base(Top) + 1)..n
      BY <1>3
    <3> QED BY <1>3, <2>1, <2>2, <3>1, <3>2
  <2>4. Stack # <<>>
    BY <1>3, <2>3 DEF n
  <2>5. u \in Seq(FrameSet) /\ Len(u) = n - 1 /\ SameBelow(u, Stack, n - 1)
    BY <1>3, <2>4, ReturnedFacts DEF n
  <2>6. n - 1 = k
    BY <1>3, <2>3
  <2> QED BY <1>6, <2>1, <2>5, <2>6
<1>11. CASE YieldC
  <2> DEFINE f == [Stack[Top.depth] EXCEPT !.kind = "continue"]
             u == [Stack EXCEPT ![Top.depth] = f]
  <2>1. mode' = "yield" /\ Top.kind = "ccall" /\ frames' = [frames EXCEPT ![Top.th] = u]
    BY <1>3, <1>11 DEF YieldC, InC, Stack
  <2>2. Top.depth \in 1..n /\ Stack[Top.depth] \in FrameSet
    <3>1. Top.depth \in 1..n
      BY <1>3, <2>1
    <3> QED BY <1>3, <3>1 DEF n
  <2>3. f \in FrameSet
    BY <2>2 DEF FrameSet
  <2> HIDE DEF f
  <2>4. u \in Seq(FrameSet) /\ Len(u) = n /\ \A p \in 1..n : u[p] = IF p = Top.depth THEN f ELSE Stack[p]
    BY <1>3, <2>2, <2>3, ExceptSeq DEF n
  <2> HIDE DEF u
  <2>5. \A p \in 1..k : p \in 1..n /\ p # Top.depth
    BY <1>3, <1>4, <2>1
  <2> QED BY <1>4, <1>7, <1>8, <2>1, <2>4, <2>5
<1>12. CASE YieldInterp \/ ThrowInterp
  <2>1. Top.kind = "interp" /\ frames' = frames
    BY <1>12 DEF YieldInterp, ThrowInterp
  <2>2. Top.fn # "meta"
    BY <1>3, <2>1 DEF Shaped, HandledFeatures, Yieldable
  <2>3. mode' \in {"yield", "throw"}
    BY <1>12, <2>2 DEF YieldInterp, ThrowInterp
  <2> QED BY <1>3, <1>4, <1>5, <1>7, <1>9, <2>1, <2>3 DEF n
<1>13. CASE ThrowC
  <2>1. /\ mode' = "throw" /\ Top.kind = "ccall"
        /\ frames' = IF current # Main \/ Stack = <<>> THEN frames ELSE [frames EXCEPT ![Top.th] = Front(Stack)]
    BY <1>3, <1>13 DEF ThrowC, InC, Stack
  <2>2. CASE current # Main \/ Stack = <<>>
    BY <1>3, <1>4, <1>5, <1>7, <1>9, <2>1, <2>2 DEF n
  <2>3. CASE ~(current # Main \/ Stack = <<>>)
    <3> DEFINE u == Front(Stack)
    <3>1. u \in Seq(FrameSet) /\ Len(u) = n - 1 /\ \A p \in 1..(n - 1) : u[p] = Stack[p]
      BY <1>3, <2>3, FrontFacts DEF n
    <3>2. frames' = [frames EXCEPT ![Top.th] = u]
      BY <2>1, <2>3
    <3> HIDE DEF u
    <3>3. k <= Len(u) /\ \A p \in 1..k : p \in 1..(n - 1)
      BY <1>3, <2>1, <3>1
    <3> QED BY <1>7, <1>8, <2>1, <3>1, <3>2, <3>3
  <2> QED BY <2>2, <2>3
<1>14. CASE CatchC
  <2> DEFINE s == Cut(Stack, Top.depth)  u == Returned(s)
  <2>1. /\ mode' = Landed(Front(native)) /\ Top.kind = "ccall" /\ Top.fn # "drain"
        /\ frames' = [frames EXCEPT ![Top.th] = u]
    BY <1>3, <1>14 DEF CatchC, InC, Protected, Stack
  <2>2. s \in Seq(FrameSet) /\ Len(s) = k + 1 /\ \A p \in 1..(k + 1) : s[p] = Stack[p]
    BY <1>3, <2>1, CutFacts DEF n
  <2>3. s # <<>>
    BY <1>3, <2>2
  <2> HIDE DEF s
  <2>4. u \in Seq(FrameSet) /\ Len(u) = Len(s) - 1 /\ SameBelow(u, s, Len(s) - 1)
    BY <2>2, <2>3, ReturnedFacts
  <2> HIDE DEF u
  <2>5. Len(s) - 1 = k /\ \A p \in 1..k : p \in 1..(k + 1)
    BY <1>3, <2>2
  <2>6. SameBelow(u, Stack, k)
    BY <2>2, <2>4, <2>5 DEF SameBelow, Alike
  <2> QED BY <1>6, <2>1, <2>4, <2>5, <2>6
<1> QED BY <1>10, <1>11, <1>12, <1>13, <1>14

\* A coroutine is left.
LEMMA LeavesHeld ==
    ASSUME HandledFeatures, CoInv, ChainInv, Stand, Footing, ResumeEnds \/ ResumeYields \/ ResumeFails
    PROVE  Stand' /\ Footing'
<1> DEFINE s == frames[Top.th]  n == Len(s)  k == Place(Top, frames)
<1>1. InResume /\ native # <<>> /\ Top.kind = "ccall" /\ Top.fn \in Resumers
  BY DEF ResumeEnds, ResumeYields, ResumeFails, InResume
<1>2. PICK ok \in BOOLEAN : Resumer(ok)
  BY DEF ResumeEnds, ResumeYields, ResumeFails
<1>3. native' = Front(native) /\ current' = Top.th
  BY <1>2 DEF Resumer
<1>4. Top \in Activation /\ Stands(Top, frames) /\ Framed(frames) /\ Top.th \in Thread
  BY <1>1, BaseBelow DEF Activation
<1>5. s \in Seq(FrameSet) /\ n \in Nat
  BY <1>4 DEF Framed
<1>6. k = n - 1 /\ k \in Nat
  BY <1>1, <1>4 DEF Stands, Place
<1> HIDE DEF FrameSet, k, n
<1>7. s # <<>> /\ k <= n
  <2>1. n # 0 /\ k <= n
    BY <1>5, <1>6
  <2> QED BY <2>1 DEF n
<1>8. CASE ~(Top.fn = "wrap" /\ ~ok)
  <2> DEFINE u == Returned(s)
  <2>1. frames' = [frames EXCEPT ![Top.th] = u] /\ mode' = Landed(Front(native)) /\ Top.fn # "drain"
    BY <1>1, <1>2, <1>8 DEF Resumer, Resumers
  <2>2. u \in Seq(FrameSet) /\ Len(u) = k /\ SameBelow(u, s, k)
    BY <1>5, <1>6, <1>7, ReturnedFacts DEF n
  <2> QED BY <1>1, <1>3, <2>1, <2>2, LandsReturned DEF k
<1>9. CASE Top.fn = "wrap" /\ ~ok
  <2>1. mode' = "throw" /\ frames' = IF Top.th # Main THEN frames ELSE [frames EXCEPT ![Top.th] = Front(s)]
    BY <1>2, <1>9 DEF Resumer
  <2>2. frames = [frames EXCEPT ![Top.th] = s] /\ Holds(s, s, k)
    BY <1>4, <1>5, <1>7 DEF Framed, Holds, SameBelow, Alike, n
  <2>3. Front(s) \in Seq(FrameSet) /\ Holds(Front(s), s, k)
    <3>1. Front(s) \in Seq(FrameSet) /\ Len(Front(s)) = n - 1 /\ \A p \in 1..(n - 1) : Front(s)[p] = s[p]
      BY <1>5, <1>7, FrontFacts DEF n
    <3> QED BY <1>6, <3>1 DEF Holds, SameBelow, Alike
  <2> HIDE DEF s
  <2>4. PICK u \in Seq(FrameSet) : frames' = [frames EXCEPT ![Top.th] = u] /\ Holds(u, s, k)
    BY <1>5, <2>1, <2>2, <2>3
  <2> QED BY <1>1, <1>3, <2>1, <2>4, LandsAway DEF k, s
<1> QED BY <1>8, <1>9

\* co_resume catches an error.
LEMMA RecoversHeld ==
    ASSUME HandledFeatures, CoInv, ChainInv, Stand, Footing, ResumeRecovers
    PROVE  Stand' /\ Footing'
<1>1. native # <<>> /\ Top.kind = "ccall" /\ Top.fn \in Resumers /\ current' = current
  BY RecoverFacts
<1>2. PICK u \in Seq(FrameSet) : frames' = [frames EXCEPT ![current] = u]
  BY RecoverFacts
<1>3. PICK a \in Activation : /\ native' = [native EXCEPT ![Len(native)] = a]
                              /\ a.kind = Top.kind /\ a.fn = Top.fn /\ a.th = Top.th
                              /\ a.co = Top.co /\ a.pc \in {"redrain", "rehandler"}
  BY RecoverFacts
<1> HIDE DEF FrameSet
<1>4. Base(Top) = 0 /\ Len(u) \in Nat
  BY <1>1 DEF Base
<1>5. Holds(u, Stack, Base(Top))
  BY <1>4 DEF Holds, SameBelow
<1>6. Rests(a, u, mode')
  BY <1>1, <1>3, RestsAnywhere DEF Continued
<1> QED BY <1>1, <1>2, <1>3, <1>5, <1>6, TurnsThere

\* Every step keeps the C++ stack standing on the frames.
LEMMA HeldStep ==
    ASSUME HandledFeatures, CoInv, ChainInv, Stand, Footing, [Next]_vars
    PROVE  Stand' /\ Footing'
<1>1. CASE \/ CallLua \/ CallClosure \/ CallYield \/ CallError
           \/ \E fn \in {"pcall"} \cup (Features \cap {"xpcall", "dofile", "sort"}) : CallC(fn)
           \/ \E co \in Co : "wrap" \in Features /\ RefuseWrap(co)
  BY <1>1, CallsHeld
<1>2. ASSUME NEW fn \in {"resume"} \cup (Features \cap {"wrap"}), NEW co \in Co, CallResume(fn, co)
      PROVE  Stand' /\ Footing'
  BY <1>2, EntersHeld
<1>3. CASE \/ CallOverflow \/ LuaError \/ ReturnLua \/ FinishContinue \/ RunResumed
           \/ ResumeGoesOn \/ HandlerFails \/ CallHandler \/ Exit \/ UNCHANGED vars
  BY <1>3, RunsHeld
<1>4. CASE LeaveInterp
  BY <1>4, LeaveInterpHeld
<1>5. CASE ReturnC \/ YieldC \/ YieldInterp \/ ThrowInterp \/ ThrowC \/ CatchC
  BY <1>5, UnwindHeld
<1>6. CASE ResumeEnds \/ ResumeYields \/ ResumeFails
  BY <1>6, LeavesHeld
<1>7. CASE ResumeRecovers
  BY <1>7, RecoversHeld
<1> QED BY <1>1, <1>2, <1>3, <1>4, <1>5, <1>6, <1>7 DEF Next

-----------------------------------------------------------------------------
(* With xpcall: the protected calls of a thread *)

\* s without some of its last frames
Trims(u, s) == u \in Seq(FrameSet) /\ Len(u) <= Len(s) /\ SameBelow(u, s, Len(u))

\* Every operation on frames but a call leaves out frames.
LEMMA TrimsOps ==
    ASSUME NEW s \in Seq(FrameSet)
    PROVE  /\ Trims(s, s) /\ Trims(<<>>, s) /\ Trims(Front(s), s)
           /\ Trims(Returned(s), s) /\ Trims(Resumed(s), s)
           /\ \A n \in Nat : Trims(Cut(s, n), s) /\ Trims(Returned(Cut(s, n)), s) /\ Trims(Delivered(s, n), s)
<1>1. Len(s) \in Nat
  OBVIOUS
<1>2. Trims(s, s)
  BY <1>1 DEF Trims, SameBelow, Alike
<1>3. Trims(<<>>, s)
  <2>1. <<>> \in Seq(FrameSet) /\ Len(<<>>) = 0
    BY EmptySeq
  <2> QED BY <1>1, <2>1 DEF Trims, SameBelow
<1>4. Trims(Front(s), s)
  <2>1. CASE s # <<>>
    <3>1. Front(s) \in Seq(FrameSet) /\ Len(Front(s)) = Len(s) - 1 /\ \A i \in 1..(Len(s) - 1) : Front(s)[i] = s[i]
      BY <2>1, FrontFacts
    <3> HIDE DEF FrameSet
    <3> QED BY <1>1, <3>1 DEF Trims, SameBelow, Alike
  <2>2. CASE s = <<>>
    <3>1. Front(s) = <<>>
      BY <2>2, SubSeqEmpty DEF Front
    <3> QED BY <1>3, <3>1
  <2> QED BY <2>1, <2>2
<1> HIDE DEF FrameSet
<1>5. ASSUME NEW v \in Seq(FrameSet) PROVE Trims(v, v)
  BY <1>5 DEF Trims, SameBelow, Alike
<1>6. ASSUME NEW v \in Seq(FrameSet) PROVE Trims(Returned(v), v)
  <2>1. CASE v = <<>>
    <3>1. Returned(v) = v
      BY <2>1, ReturnedFacts
    <3> QED BY <1>6, <1>5, <3>1
  <2>2. CASE v # <<>>
    <3>1. /\ Returned(v) \in Seq(FrameSet) /\ Len(v) \in Nat /\ Len(Returned(v)) = Len(v) - 1
          /\ SameBelow(Returned(v), v, Len(v) - 1)
      BY <1>6, <2>2, ReturnedFacts
    <3> QED BY <3>1 DEF Trims
  <2> QED BY <2>1, <2>2
<1>7. Trims(Resumed(s), s)
  <2> DEFINE w == Waiting(s, FALSE)
  <2>1. w \in Seq(FrameSet) /\ Len(w) = Len(s) /\ SameBelow(w, s, Len(s))
    BY WaitingFacts
  <2> HIDE DEF w
  <2>2. Trims(w, s)
    BY <1>1, <2>1 DEF Trims
  <2>3. Trims(Returned(s), s)
    BY <1>6
  <2> QED BY <2>2, <2>3, Zenon DEF Resumed, w
<1>8. ASSUME NEW n \in Nat PROVE Trims(Cut(s, n), s) /\ Trims(Returned(Cut(s, n)), s) /\ Trims(Delivered(s, n), s)
  <2> DEFINE c == Cut(s, n)
  <2>1. c \in Seq(FrameSet) /\ Len(c) = (IF n < Len(s) THEN n ELSE Len(s)) /\ \A p \in 1..Len(c) : c[p] = s[p]
    BY <1>8, CutFacts
  <2>2. Trims(Delivered(s, n), s)
    <3>1. Delivered(s, n) \in Seq(FrameSet) /\ Len(Delivered(s, n)) = Len(s) /\ SameBelow(Delivered(s, n), s, Len(s))
      BY <1>8, DeliveredFacts
    <3> QED BY <1>1, <3>1 DEF Trims
  <2> HIDE DEF c
  <2>3. Trims(Returned(c), c)
    BY <1>6, <2>1
  <2>4. Len(c) <= Len(s) /\ Len(c) \in Nat /\ Len(Returned(c)) \in Nat
    BY <1>1, <1>8, <2>1, <2>3 DEF Trims
  <2>5. Trims(c, s)
    BY <2>1, <2>4 DEF Trims, SameBelow, Alike
  <2>6. \A p \in 1..Len(Returned(c)) : p \in 1..Len(c)
    BY <2>3, <2>4 DEF Trims
  <2>7. SameBelow(Returned(c), s, Len(Returned(c)))
    BY <2>1, <2>3, <2>6 DEF Trims, SameBelow, Alike
  <2>8. Trims(Returned(c), s)
    BY <2>3, <2>4, <2>7 DEF Trims
  <2> QED BY <2>2, <2>5, <2>8 DEF c
<1> QED BY <1>2, <1>3, <1>4, <1>6, <1>7, <1>8

\* the running thread calls f; a call of pcall or xpcall is an activation
Grows(f) ==
    /\ mode = "run" /\ frames'[current] = Pushed(Stack, f) /\ f.kind \in {"lua", "capi"}
    /\ f.fn \in Protected => f.kind = "capi" /\ CallC(f.fn)

\* a step leaves out frames, or the running thread calls
Moves ==
    /\ \A t \in Thread : t = current \/ Trims(frames'[t], frames[t])
    /\ Trims(frames'[current], Stack) \/ \E f \in FrameSet : Grows(f)

\* Only a yield changes what a frame is.
LEMMA FramesChange == ASSUME CoInv, ChainInv, [Next]_vars, ~YieldC PROVE Moves
<1>1. /\ Framed(frames) /\ current \in Thread /\ Stack = frames[current] /\ Stack \in Seq(FrameSet)
      /\ Co \subseteq Thread
  BY DEF CoInv, TypeOK, Framed, Stack, Thread
<1>2. native # <<>> => Top.th \in Thread /\ Top.depth \in Nat
  BY TopOwned DEF Activation
<1> HIDE DEF FrameSet
<1>3. ASSUME NEW t \in Thread PROVE Trims(frames[t], frames[t])
  <2>1. frames[t] \in Seq(FrameSet)
    BY <1>1 DEF Framed
  <2> QED BY <2>1, TrimsOps
\* thread c keeps the frames u
<1>4. ASSUME NEW c \in Thread, NEW u, frames' = [frames EXCEPT ![c] = u], Trims(u, frames[c]) PROVE Moves
  <2>1. frames'[c] = u /\ \A t \in Thread : t # c => frames'[t] = frames[t]
    BY <1>1, <1>4 DEF Framed
  <2>2. \A t \in Thread : Trims(frames'[t], frames[t])
    BY <1>3, <1>4, <2>1
  <2> QED BY <1>1, <2>2 DEF Moves
<1>5. ASSUME frames' = frames PROVE Moves
  BY <1>1, <1>3, <1>5 DEF Moves
\* the running thread calls f
<1>6. ASSUME NEW f \in FrameSet, frames' = [frames EXCEPT ![current] = Pushed(Stack, f)],
             f.kind \in {"lua", "capi"}, f.fn \in Protected => f.kind = "capi" /\ CallC(f.fn), Calls
      PROVE  Moves
  <2>1. frames'[current] = Pushed(Stack, f) /\ \A t \in Thread : t # current => frames'[t] = frames[t]
    BY <1>1, <1>6 DEF Framed
  <2>2. mode = "run"
    BY <1>6 DEF Calls, LuaRuns, CBody
  <2>3. Grows(f)
    BY <1>6, <2>1, <2>2 DEF Grows
  <2> QED BY <1>3, <2>1, <2>3 DEF Moves
<1>7. /\ Frame("lua", "lua") \in FrameSet /\ Frame("lua", "lua").kind = "lua" /\ Frame("lua", "lua").fn = "lua"
      /\ LuaFrame \in FrameSet /\ LuaFrame.kind = "lua" /\ LuaFrame.fn \in {"lua", "handler"}
      /\ \A fn \in Yieldable \cup Resumers \cup {"sort", "error", "yield"} :
            /\ Frame("capi", fn) \in FrameSet /\ Frame("capi", fn).kind = "capi"
            /\ Frame("capi", fn).fn = fn
  BY NewFrames DEF Frame, LuaFrame
<1>8. CASE CallLua \/ CallClosure
  <2>1. Calls
    BY <1>8 DEF CallLua, CallClosure, Calls
  <2>2. PICK f \in {Frame("lua", "lua"), LuaFrame} : frames' = [frames EXCEPT ![current] = Pushed(Stack, f)]
    BY <1>8 DEF CallLua, CallClosure, Stack
  <2>3. f \in FrameSet /\ f.kind = "lua" /\ f.fn \notin Protected
    BY <1>7, <2>2 DEF Protected
  <2> QED BY <1>6, <2>1, <2>2, <2>3
<1>9. ASSUME NEW fn \in {"pcall"} \cup (Features \cap {"xpcall", "dofile", "sort"}), CallC(fn) PROVE Moves
  <2> DEFINE f == Frame("capi", fn)
  <2>1. f \in FrameSet /\ f.kind = "capi" /\ f.fn = fn
    <3>1. fn \in Yieldable \cup Resumers \cup {"sort", "error", "yield"}
      BY DEF Yieldable
    <3> QED BY <1>7, <3>1
  <2>2. Calls /\ frames' = [frames EXCEPT ![current] = Pushed(Stack, f)]
    BY <1>9 DEF CallC, Stack
  <2> HIDE DEF f
  <2> QED BY <1>6, <1>9, <2>1, <2>2
<1>10. ASSUME NEW fn \in {"error", "yield", "wrap"}, Calls,
              frames' = frames \/ frames' = [frames EXCEPT ![current] = Pushed(Stack, Frame("capi", fn))]
       PROVE  Moves
  <2>1. Frame("capi", fn) \in FrameSet /\ Frame("capi", fn).kind = "capi" /\ Frame("capi", fn).fn \notin Protected
    <3>1. fn \in Yieldable \cup Resumers \cup {"sort", "error", "yield"} /\ fn \notin Protected
      BY DEF Resumers, Protected
    <3> QED BY <1>7, <3>1
  <2> QED BY <1>5, <1>6, <1>10, <2>1
<1>11. CASE CallError \/ CallYield \/ \E co \in Co : RefuseWrap(co)
  <2>1. Calls
    BY <1>11 DEF CallError, CallYield, RefuseWrap
  <2>2. \E fn \in {"error", "yield", "wrap"} :
           frames' = frames \/ frames' = [frames EXCEPT ![current] = Pushed(Stack, Frame("capi", fn))]
    <3>1. CASE CallError
      BY <3>1 DEF CallError, ThrownBy, Stack
    <3>2. CASE CallYield
      BY <3>2 DEF CallYield, ThrownBy, Stack
    <3>3. ASSUME NEW co \in Co, RefuseWrap(co)
          PROVE  frames' = frames \/ frames' = [frames EXCEPT ![current] = Pushed(Stack, Frame("capi", "wrap"))]
      BY <3>3 DEF RefuseWrap, ThrownBy, Stack
    <3> QED BY <1>11, <3>1, <3>2, <3>3
  <2> QED BY <1>10, <2>1, <2>2
<1>12. ASSUME NEW fn \in Resumers, NEW co \in Co, CallResume(fn, co) PROVE Moves
  <2> DEFINE f == Frame("capi", fn)
             u == Pushed(Stack, f)
             v == IF status[co] = "Fresh" THEN <<>> ELSE Resumed(frames[co])
  <2>1. Calls /\ mode = "run" /\ Resumable(co)
    BY <1>12 DEF CallResume, Calls, LuaRuns, CBody
  <2>2. co \in Thread /\ co # current
    BY <2>1, ResumableOff
  <2>3. f \in FrameSet /\ f.kind = "capi" /\ f.fn \notin Protected
    <3>1. fn \in Yieldable \cup Resumers \cup {"sort", "error", "yield"} /\ fn \notin Protected
      BY DEF Resumers, Protected
    <3> QED BY <1>7, <3>1
  <2>4. frames' = [[frames EXCEPT ![current] = u] EXCEPT ![co] = v]
    <3>1. frames' = LET caller == [frames EXCEPT ![current] = u]
                    IN  IF status[co] = "Fresh" THEN [caller EXCEPT ![co] = <<>>]
                        ELSE [caller EXCEPT ![co] = Resumed(caller[co])]
      BY <1>12 DEF CallResume, Stack
    <3>2. [frames EXCEPT ![current] = u][co] = frames[co]
      BY <1>1, <2>2 DEF Framed
    <3> HIDE DEF u
    <3> QED BY <3>1, <3>2
  <2>5. Trims(v, frames[co])
    <3>1. frames[co] \in Seq(FrameSet)
      BY <1>1, <2>2 DEF Framed
    <3>2. Trims(<<>>, frames[co]) /\ Trims(Resumed(frames[co]), frames[co])
      BY <3>1, TrimsOps
    <3> QED BY <3>2
  <2> HIDE DEF v, f
  <2> DEFINE w == u
  <2> HIDE DEF w
  <2>6. frames' = [[frames EXCEPT ![current] = w] EXCEPT ![co] = v]
    BY <2>4 DEF w
  <2>7. frames'[current] = w /\ frames'[co] = v /\ \A t \in Thread : t # current /\ t # co => frames'[t] = frames[t]
    BY <1>1, <2>2, <2>6 DEF Framed
  <2>8. Grows(f)
    BY <2>1, <2>3, <2>7 DEF Grows, w
  <2>9. \A t \in Thread : t = current \/ Trims(frames'[t], frames[t])
    BY <1>3, <2>5, <2>7
  <2> QED BY <2>3, <2>8, <2>9 DEF Moves
<1>13. CASE ReturnLua
  <2>1. Stack # <<>> /\ current \in Thread
    BY <1>1, <1>13 DEF ReturnLua, LuaRuns, BackIs
  <2>2. frames' = [frames EXCEPT ![current] = IF Last(Stack).fn = "handler" THEN Front(Stack) ELSE Returned(Stack)]
    BY <1>13 DEF ReturnLua, Stack
  <2> QED BY <1>1, <1>4, <2>1, <2>2, TrimsOps
<1>14. CASE FinishContinue \/ ReturnC
  <2>1. frames' = [frames EXCEPT ![current] = Returned(Stack)]
    BY <1>14 DEF FinishContinue, ReturnC, Stack
  <2> QED BY <1>1, <1>4, <2>1, TrimsOps
<1>15. CASE ResumeGoesOn \/ HandlerFails
  <2>1. native # <<>>
    BY <1>15 DEF ResumeGoesOn, HandlerFails, InResume
  <2>2. \/ frames' = [frames EXCEPT ![current] = Delivered(Stack, Top.depth)]
        \/ frames' = [frames EXCEPT ![current] = Stack]
    BY <1>15 DEF ResumeGoesOn, HandlerFails, Stack
  <2> QED BY <1>1, <1>2, <1>4, <2>1, <2>2, TrimsOps
<1>16. CASE ResumeEnds \/ ResumeYields \/ ResumeFails
  <2>1. PICK ok \in BOOLEAN : Resumer(ok)
    BY <1>16 DEF ResumeEnds, ResumeYields, ResumeFails
  <2>2. native # <<>> /\ Top.kind = "ccall" /\ Top.fn \in Resumers
    BY <1>16 DEF ResumeEnds, ResumeYields, ResumeFails, InResume
  <2> DEFINE s == frames[Top.th]
  <2>3. s \in Seq(FrameSet)
    BY <1>1, <1>2, <2>2 DEF Framed
  <2>4. Trims(Returned(s), s)
    BY <2>3, TrimsOps
  <2>5. CASE ~(Top.fn = "wrap" /\ ~ok)
    <3>1. frames' = [frames EXCEPT ![Top.th] = Returned(s)]
      BY <2>1, <2>5 DEF Resumer
    <3> QED BY <1>2, <1>4, <2>2, <2>4, <3>1
  <2>6. CASE Top.fn = "wrap" /\ ~ok /\ Top.th # Main
    BY <1>5, <2>1, <2>6 DEF Resumer
  <2>7. CASE Top.fn = "wrap" /\ ~ok /\ Top.th = Main
    <3>1. frames' = [frames EXCEPT ![Top.th] = Front(s)]
      BY <2>1, <2>7 DEF Resumer
    <3>2. Trims(Front(s), s)
      BY <2>3, TrimsOps
    <3> QED BY <1>2, <1>4, <2>2, <3>1, <3>2
  <2> QED BY <2>5, <2>6, <2>7
<1>17. CASE ResumeRecovers
  <2>1. PICK u \in Seq(FrameSet) : /\ Len(u) = Innermost(Stack) - 1 /\ SameBelow(u, Stack, Innermost(Stack) - 1)
                                   /\ frames' = [frames EXCEPT ![current] = u]
    BY <1>17, RecoverFacts
  <2>2. Len(Stack) \in Nat /\ Innermost(Stack) \in 1..Len(Stack)
    BY <1>17, RecoverFacts
  <2>3. Trims(u, Stack)
    BY <2>1, <2>2 DEF Trims
  <2> QED BY <1>1, <1>4, <2>1, <2>3
<1>18. CASE ThrowC
  <2>1. frames' = frames \/ (Stack # <<>> /\ frames' = [frames EXCEPT ![current] = Front(Stack)])
    BY <1>18 DEF ThrowC, Stack
  <2> QED BY <1>1, <1>4, <1>5, <2>1, TrimsOps
<1>19. CASE CatchC \/ CallHandler
  <2>1. native # <<>>
    BY <1>19 DEF CatchC, CallHandler, InC
  <2>2. \/ frames' = [frames EXCEPT ![current] = Returned(Cut(Stack, Top.depth))]
        \/ frames' = [frames EXCEPT ![current] = Cut(Stack, Top.depth)]
    BY <1>19 DEF CatchC, CallHandler, Stack
  <2> QED BY <1>1, <1>2, <1>4, <2>1, <2>2, TrimsOps
<1>20. CASE \/ CallOverflow \/ LeaveInterp \/ LuaError \/ RunResumed \/ YieldInterp \/ ThrowInterp
            \/ Exit \/ UNCHANGED vars
  BY <1>5, <1>20 DEF CallOverflow, LeaveInterp, LuaError, RunResumed, YieldInterp, ThrowInterp, Exit, vars
<1> QED
  BY <1>8, <1>9, <1>11, <1>12, <1>13, <1>14, <1>15, <1>16, <1>17, <1>18, <1>19, <1>20 DEF Next, Resumers

\* a protected call that has not been continued, and the activation that runs it
Guards(f) == f.kind = "capi" /\ f.fn \in Protected
Minds(a, t, p) == a.kind = "ccall" /\ a.fn \in Protected /\ a.th = t /\ a.depth = p

\* there is one for each of them
Guarded ==
    \A t \in Thread : \A p \in 1..Len(frames[t]) :
        Guards(frames[t][p]) => \E i \in 1..Len(native) : Minds(native[i], t, p)

\* a yield goes on until nothing that it leaves is below a continued call
Settles(s) == \A q \in 1..Len(s) : \A p \in 1..(q - 1) : Guards(s[p]) => s[q].kind # "continue"
Settled == \A t \in Thread : (t = current /\ mode = "yield") \/ Settles(frames[t])

\* only C functions are protected calls
Compiled(s) == \A p \in 1..Len(s) : s[p].fn \in Protected => s[p].kind # "lua"
GuardInv == Guarded /\ Settled /\ \A t \in Thread : Compiled(frames[t])

\* Leaving frames out leaves them so.
LEMMA TrimsKeep ==
    ASSUME NEW s \in Seq(FrameSet), NEW u, Trims(u, s)
    PROVE  /\ Len(u) \in Nat /\ \A p \in 1..Len(u) : p \in 1..Len(s) /\ (Guards(u[p]) <=> Guards(s[p]))
           /\ Settles(s) => Settles(u)
           /\ Compiled(s) => Compiled(u)
<1> HIDE DEF FrameSet
<1>1. u \in Seq(FrameSet) /\ Len(u) \in Nat /\ Len(s) \in Nat /\ Len(u) <= Len(s)
  BY DEF Trims
<1>2. \A p \in 1..Len(u) : p \in 1..Len(s) /\ u[p].kind = s[p].kind /\ u[p].fn = s[p].fn
  BY <1>1 DEF Trims, SameBelow, Alike
<1>3. \A q \in 1..Len(u) : \A p \in 1..(q - 1) : p \in 1..Len(u)
  BY <1>1
<1> QED BY <1>1, <1>2, <1>3 DEF Guards, Settles, Compiled

\* So does a call.
LEMMA GrowsKeep ==
    ASSUME NEW s \in Seq(FrameSet), NEW f \in FrameSet, f.kind \in {"lua", "capi"},
           f.fn \in Protected => f.kind = "capi"
    PROVE  LET u == Pushed(s, f)
           IN  /\ Len(s) \in Nat /\ Len(u) = Len(s) + 1 /\ u[Len(s) + 1] = f
               /\ \A p \in 1..Len(s) : Guards(u[p]) <=> Guards(s[p])
               /\ Settles(s) => Settles(u)
               /\ Compiled(s) => Compiled(u)
<1> DEFINE u == Pushed(s, f)  n == Len(s)
<1> HIDE DEF FrameSet
<1>1. n \in Nat /\ Len(u) = n + 1 /\ u[n + 1] = f /\ SameBelow(u, s, n)
  BY PushedFacts
<1> HIDE DEF u, n
<1>2. \A p \in 1..n : u[p].kind = s[p].kind /\ u[p].fn = s[p].fn
  BY <1>1 DEF SameBelow, Alike
<1>3. \A q \in 1..Len(u) : (q \in 1..n \/ q = n + 1) /\ \A p \in 1..(q - 1) : p \in 1..n
  BY <1>1
<1>4. f.kind # "continue" /\ (f.fn \in Protected => f.kind # "lua")
  OBVIOUS
<1>5. \A p \in 1..n : Guards(u[p]) <=> Guards(s[p])
  BY <1>2 DEF Guards
<1>6. Settles(s) => Settles(u)
  BY <1>1, <1>2, <1>3, <1>4, <1>5 DEF Settles, n
<1>7. Compiled(s) => Compiled(u)
  BY <1>1, <1>2, <1>3, <1>4 DEF Compiled, n
<1> QED BY <1>1, <1>5, <1>6, <1>7 DEF u, n

\* The activation of a protected call goes with its frame, or when the call has been
\* made one to continue.
LEMMA MindsStay ==
    ASSUME CoInv, [Next]_vars, NEW i \in 1..Len(native), NEW t, NEW p, Minds(native[i], t, p)
    PROVE  \/ \E j \in 1..Len(native') : Minds(native'[j], t, p)
           \/ Minds(Top, t, p) /\ native # <<>> /\ (ReturnC \/ YieldC \/ CatchC)
<1> DEFINE n == Len(native)
           Goal == \/ \E j \in 1..Len(native') : Minds(native'[j], t, p)
                   \/ Minds(Top, t, p) /\ native # <<>> /\ (ReturnC \/ YieldC \/ CatchC)
<1>1. /\ native \in Seq(Activation) /\ n \in Nat \ {0} /\ native # <<>> /\ Top = native[n]
  BY DEF CoInv, TypeOK, Top, Last
<1>2. Top \in Activation
  BY <1>1, TopOwned
<1>3. CASE native' = native
  BY <1>3
<1>4. ASSUME NEW a \in Activation, native' = Append(native, a) PROVE Goal
  <2>1. Len(native') = n + 1 /\ \A j \in 1..n : native'[j] = native[j]
    BY <1>1, <1>4, PushFacts
  <2> HIDE DEF n
  <2>2. i \in 1..(n + 1) /\ i \in 1..n
    BY <1>1 DEF n
  <2> QED BY <2>1, <2>2
<1>5. CASE native' = Front(native) /\ i # n
  <2>1. Len(native') = n - 1 /\ \A j \in 1..(n - 1) : native'[j] = native[j]
    BY <1>1, <1>5, FrontFacts
  <2> HIDE DEF n
  <2>2. i \in 1..(n - 1)
    BY <1>1, <1>5 DEF n
  <2> QED BY <2>1, <2>2
<1>6. ASSUME NEW a \in Activation, native' = [native EXCEPT ![n] = a], i # n PROVE Goal
  <2>1. Len(native') = n /\ \A j \in 1..(n - 1) : native'[j] = native[j]
    BY <1>1, <1>6, ChangeFacts
  <2> HIDE DEF n
  <2>2. i \in 1..(n - 1) /\ i \in 1..n
    BY <1>1, <1>6 DEF n
  <2> QED BY <2>1, <2>2
<1>7. CASE i # n
  BY <1>3, <1>4, <1>5, <1>6, <1>7, AllKinds
     DEF StepKinds, Stays, Yields, Pops, Leaves, Pushes, Enters, Retops, n
<1>8. CASE i = n
  <2>1. Top.kind = "ccall" /\ Top.fn \in Protected /\ Minds(Top, t, p) /\ Top.fn \notin Resumers
    BY <1>1, <1>8 DEF Minds, Protected, Resumers
  <2>2. CASE CallHandler
    <3> DEFINE a == [Top EXCEPT !.pc = "handler"]
    <3>1. native' = [native EXCEPT ![n] = a]
      BY <1>1, <2>2 DEF CallHandler
    <3>2. a \in Activation /\ Minds(a, t, p)
      BY <1>2, <2>1 DEF Activation, Minds
    <3> HIDE DEF a
    <3>3. Len(native') = n /\ native'[n] = a /\ n \in 1..n
      BY <1>1, <3>1, <3>2, ChangeFacts
    <3> QED BY <3>2, <3>3
  <2>3. CASE ReturnC \/ YieldC \/ CatchC
    BY <1>1, <2>1, <2>3
  <2>4. CASE \/ LeaveInterp \/ YieldInterp \/ ThrowInterp \/ ThrowC \/ ResumeEnds \/ ResumeYields \/ ResumeFails
             \/ ResumeGoesOn \/ ResumeRecovers \/ HandlerFails
    BY <2>1, <2>4 DEF LeaveInterp, YieldInterp, ThrowInterp, ThrowC, ResumeEnds, ResumeYields, ResumeFails,
                      ResumeGoesOn, ResumeRecovers, HandlerFails, InResume, InC, Protected
  <2>5. CASE \/ CallLua \/ CallOverflow \/ ReturnLua \/ CallError \/ LuaError \/ CallYield
             \/ (\E co \in Co : RefuseWrap(co)) \/ FinishContinue \/ Exit \/ UNCHANGED vars
    BY <1>3, <2>5 DEF CallLua, CallOverflow, ReturnLua, CallError, LuaError, CallYield, RefuseWrap, ThrownBy,
                      FinishContinue, Exit, vars
  <2>6. CASE RunResumed
    BY <1>3, <1>4, <2>6, NewActivations DEF RunResumed
  <2>7. CASE CallClosure
    <3>1. CBody \/ LuaRuns
      BY <2>7 DEF CallClosure, Calls, LuaRuns, CBody
    <3>2. ~LuaRuns
      BY <2>1 DEF LuaRuns
    <3>3. native' = Append(native, Interp("nested", Len(Stack) + 1))
      BY <2>7, <3>1, <3>2 DEF CallClosure
    <3>4. Len(Stack) + 1 \in Nat
      BY DEF CoInv, TypeOK, Stack
    <3> QED BY <1>4, <3>3, <3>4, NewActivations
  <2>8. ASSUME NEW fn \in {"pcall"} \cup (Features \cap {"xpcall", "dofile", "sort"}), CallC(fn) PROVE Goal
    <3>1. fn \in Yieldable \cup {"sort"} /\ Main \in Thread
      BY DEF Yieldable, Thread
    <3>2. native' = Append(native, CCall(fn, Main, "call"))
      BY <2>8 DEF CallC
    <3> QED BY <1>4, <3>1, <3>2, NewActivations
  <2>9. ASSUME NEW fn \in Resumers, NEW co \in Co, CallResume(fn, co) PROVE Goal
    <3>1. PICK pc \in {"first", "drain"} : native' = Append(native, CCall(fn, co, pc))
      BY <2>9 DEF CallResume
    <3>2. co \in Thread
      BY DEF Thread
    <3> QED BY <1>4, <3>1, <3>2, NewActivations
  <2> QED BY <2>2, <2>3, <2>4, <2>5, <2>6, <2>7, <2>8, <2>9 DEF Next, Resumers
<1> QED BY <1>7, <1>8

\* The frame of a protected call goes when it returns or has caught an error.
LEMMA GoesWithIt ==
    ASSUME HandledFeatures, CoInv, ChainInv, Stand, Footing, ReturnC \/ CatchC
    PROVE  Len(frames'[current]) < Top.depth
<1> DEFINE n == Len(Stack)  d == Top.depth
<1>1. native # <<>> /\ Top.kind = "ccall" /\ Top.fn \in Yieldable \cup {"sort"} /\ Top.fn \notin Resumers
  BY DEF ReturnC, CatchC, InC, Yieldable, Protected, Resumers
<1>2. /\ current \in Thread /\ Framed(frames) /\ Stack \in Seq(FrameSet) /\ n \in Nat /\ Shaped(Top)
      /\ d \in Nat /\ Base(Top) = d /\ d <= n /\ d - 1 \in Nat
  <2>1. Base(Top) = d /\ Base(Top) <= n
    BY <1>1, GoingFacts
  <2> QED BY <1>1, <2>1, GoingFacts
<1> HIDE DEF FrameSet, n, d
<1>3. CASE ReturnC
  <2>1. mode = "ok" /\ frames'[current] = Returned(Stack)
    BY <1>2, <1>3, ReturnsOk DEF ReturnC, Framed, Stack
  <2>2. Own(Top) = {}
    BY <1>1, <1>2 DEF Own, Shaped, Yieldable, Continued, Resumers
  <2>3. n = d
    <3>1. \A p \in (Base(Top) + 1)..n : Stack[p].kind \in Own(Top)
      BY <1>1, <2>1 DEF Footing, Rests, n
    <3>2. d < n => n \in (d + 1)..n
      BY <1>2
    <3> QED BY <1>2, <2>2, <3>1, <3>2
  <2>4. Stack # <<>>
    BY <1>2, <2>3 DEF n
  <2>5. Len(Returned(Stack)) = n - 1
    BY <1>2, <2>4, ReturnedFacts DEF n
  <2> QED BY <1>2, <2>1, <2>3, <2>5 DEF d
<1>4. CASE CatchC
  <2> DEFINE s == Cut(Stack, d)
  <2>1. frames'[current] = Returned(s)
    BY <1>2, <1>4 DEF CatchC, Framed, Stack, d
  <2>2. s \in Seq(FrameSet) /\ Len(s) = d
    BY <1>2, CutFacts DEF n
  <2>3. s # <<>>
    BY <1>2, <2>2
  <2> HIDE DEF s
  <2>4. Len(Returned(s)) = d - 1
    BY <2>2, <2>3, ReturnedFacts
  <2> QED BY <1>2, <2>1, <2>4 DEF d
<1> QED BY <1>3, <1>4

\* A call that yields is to be continued.
LEMMA YieldsKeep ==
    ASSUME CoInv, ChainInv, Stand, GuardInv, [Next]_vars, YieldC PROVE GuardInv'
<1> DEFINE d == Top.depth  n == Len(Stack)
           f == [Stack[d] EXCEPT !.kind = "continue"]
           u == [Stack EXCEPT ![d] = f]
<1>1. /\ native # <<>> /\ Top.kind = "ccall" /\ Top.fn \notin Resumers /\ mode' = "yield" /\ current' = current
      /\ frames' = [frames EXCEPT ![current] = u]
  BY DEF YieldC, InC, Yieldable, Resumers, Stack
<1>2. /\ Top.th = current /\ current \in Thread /\ Framed(frames) /\ Stack = frames[current]
      /\ Stack \in Seq(FrameSet) /\ n \in Nat /\ d \in Nat /\ Base(Top) = d /\ d <= n /\ d - 1 \in Nat
  <2>1. Base(Top) = d /\ Base(Top) <= n
    BY <1>1, GoingFacts
  <2> QED BY <1>1, <2>1, GoingFacts
<1>3. d \in 1..n
  <2> HIDE DEF n, d
  <2> QED BY <1>2
<1>4. f \in FrameSet /\ f.kind = "continue"
  <2>1. Stack[d] \in FrameSet
    BY <1>2, <1>3
  <2> HIDE DEF d
  <2> QED BY <2>1 DEF FrameSet
<1> HIDE DEF FrameSet, f
<1>5. u \in Seq(FrameSet) /\ Len(u) = n /\ \A p \in 1..n : u[p] = IF p = d THEN f ELSE Stack[p]
  BY <1>2, <1>3, <1>4, ExceptSeq
<1> HIDE DEF u
<1>6. frames'[current] = u /\ \A t \in Thread : t # current => frames'[t] = frames[t]
  BY <1>1, <1>2 DEF Framed
<1> HIDE DEF n, d
<1>7. \A t \in Thread : Compiled(frames'[t])
  <2>1. Compiled(Stack) => Compiled(u)
    BY <1>4, <1>5 DEF Compiled, n
  <2> QED BY <1>2, <1>6, <2>1 DEF GuardInv
<1>8. Settled'
  BY <1>1, <1>6 DEF GuardInv, Settled
<1>9. Guarded'
  <2> SUFFICES ASSUME NEW t \in Thread, NEW p \in 1..Len(frames'[t]), Guards(frames'[t][p])
               PROVE  \E j \in 1..Len(native') : Minds(native'[j], t, p)
    BY DEF Guarded
  <2>1. p \in 1..Len(frames[t]) /\ Guards(frames[t][p]) /\ ~(t = current /\ p = d)
    <3>1. CASE t = current
      <4>1. p # d
        BY <1>4, <1>5, <1>6, <3>1 DEF Guards
      <4> QED BY <1>2, <1>5, <1>6, <3>1, <4>1 DEF n
    <3>2. CASE t # current
      BY <1>6, <3>2
    <3> QED BY <3>1, <3>2
  <2>2. PICK i \in 1..Len(native) : Minds(native[i], t, p)
    BY <2>1 DEF GuardInv, Guarded
  <2>3. ~Minds(Top, t, p)
    BY <1>2, <2>1 DEF Minds, d
  <2> QED BY <2>2, <2>3, MindsStay
<1> QED BY <1>7, <1>8, <1>9 DEF GuardInv

\* Every other step.
LEMMA GuardStep ==
    ASSUME HandledFeatures, CoInv, ChainInv, Stand, Footing, GuardInv, [Next]_vars
    PROVE  GuardInv'
<1>1. CASE YieldC
  BY <1>1, YieldsKeep
<1> SUFFICES ASSUME ~YieldC PROVE GuardInv'
  BY <1>1
<1>2. /\ \A t \in Thread : t = current \/ Trims(frames'[t], frames[t])
      /\ Trims(frames'[current], Stack) \/ \E f \in FrameSet : Grows(f)
  BY FramesChange DEF Moves
<1>3. current \in Thread /\ Stack = frames[current] /\ \A t \in Thread : frames[t] \in Seq(FrameSet)
  BY DEF CoInv, TypeOK, Stack
<1> HIDE DEF FrameSet
\* a frame that stays
<1>4. ASSUME NEW t \in Thread, NEW p \in 1..Len(frames[t]), Guards(frames[t][p]), p \in 1..Len(frames'[t])
      PROVE  \E j \in 1..Len(native') : Minds(native'[j], t, p)
  <2>1. PICK i \in 1..Len(native) : Minds(native[i], t, p)
    BY <1>4 DEF GuardInv, Guarded
  <2>2. SUFFICES ASSUME Minds(Top, t, p), native # <<>>, ReturnC \/ CatchC PROVE FALSE
    BY <2>1, MindsStay
  <2>3. t = current /\ p = Top.depth
    <3>1. Top.fn \notin Resumers
      BY <2>2 DEF Minds, Protected, Resumers
    <3> QED BY <2>2, <3>1, TopOwned DEF Minds
  <2>4. Len(frames'[current]) < Top.depth
    BY <2>2, GoesWithIt
  <2>5. Len(frames'[current]) \in Nat
    <3>1. mode # "run"
      BY <2>2, ReturnsOk DEF CatchC
    <3>2. Trims(frames'[current], Stack)
      BY <1>2, <3>1 DEF Grows
    <3> QED BY <1>3, <3>2, TrimsKeep
  <2> QED BY <1>4, <2>3, <2>4, <2>5
\* threads whose frames are left out
<1>5. ASSUME NEW t \in Thread, Trims(frames'[t], frames[t])
      PROVE  /\ \A p \in 1..Len(frames'[t]) :
                    Guards(frames'[t][p]) => \E j \in 1..Len(native') : Minds(native'[j], t, p)
             /\ (t = current' /\ mode' = "yield") \/ Settles(frames'[t])
             /\ Compiled(frames'[t])
  <2>1. /\ \A p \in 1..Len(frames'[t]) : p \in 1..Len(frames[t]) /\ (Guards(frames'[t][p]) <=> Guards(frames[t][p]))
        /\ Settles(frames[t]) => Settles(frames'[t])
        /\ Compiled(frames[t]) => Compiled(frames'[t])
    BY <1>3, <1>5, TrimsKeep
  <2>2. Compiled(frames'[t])
    BY <2>1 DEF GuardInv
  <2>3. (t = current' /\ mode' = "yield") \/ Settles(frames'[t])
    <3>1. SUFFICES ASSUME t = current, mode = "yield", ~(t = current' /\ mode' = "yield")
                   PROVE  Settles(frames[t])
      BY <2>1 DEF GuardInv, Settled
    <3>2. ResumeYields
      <4>1. ~YieldInterp
        BY <3>1, TopOwned DEF YieldInterp, Shaped, HandledFeatures, Yieldable, Resumers
      <4>2. ~ReturnC
        BY <3>1, ReturnsOk
      <4>3. ~Calls /\ ~Draining
        BY <3>1 DEF Calls, LuaRuns, CBody, Draining
      <4> QED BY <3>1, <4>1, <4>2, <4>3
              DEF Next, vars, CallLua, CallClosure, CallOverflow, ReturnLua, LeaveInterp, CallC, CallError,
                  LuaError, CallYield, CallResume, RefuseWrap, FinishContinue, RunResumed, ResumeGoesOn, Calls,
                  ResumeEnds, ResumeRecovers, HandlerFails, ResumeFails, ThrowInterp, ThrowC, CatchC,
                  CallHandler, Exit
    <3>3. native # <<>> /\ Top.fn \in Resumers
      BY <3>2 DEF ResumeYields, InResume
    <3>4. ASSUME NEW p \in 1..Len(frames[t]), Guards(frames[t][p]) PROVE FALSE
      <4>1. PICK i \in 1..Len(native) : Minds(native[i], t, p)
        BY <3>4 DEF GuardInv, Guarded
      <4>2. native[i].th = current /\ native[i].fn \notin Resumers
        BY <3>1, <4>1 DEF Minds, Protected, Resumers
      <4>3. i # Len(native) /\ Len(native) \in Nat
        BY <3>3, <4>2, TopOwned DEF Top, Last
      <4>4. i \in 1..(Len(native) - 1)
        BY <4>3
      <4> QED BY <3>3, <4>2, <4>4, RunsAlone
    <3>5. Len(frames[t]) \in Nat /\ \A q \in 1..Len(frames[t]) : \A p \in 1..(q - 1) : p \in 1..Len(frames[t])
      BY <1>3
    <3> QED BY <3>4, <3>5 DEF Settles
  <2>4. ASSUME NEW p \in 1..Len(frames'[t]), Guards(frames'[t][p])
        PROVE  \E j \in 1..Len(native') : Minds(native'[j], t, p)
    BY <1>4, <2>1, <2>4
  <2> QED BY <2>2, <2>3, <2>4
\* the thread that has called
<1>6. ASSUME NEW f \in FrameSet, Grows(f)
      PROVE  /\ \A p \in 1..Len(frames'[current]) :
                    Guards(frames'[current][p]) => \E j \in 1..Len(native') : Minds(native'[j], current, p)
             /\ Settles(frames'[current]) /\ Compiled(frames'[current])
  <2> DEFINE n == Len(Stack)
  <2>1. /\ mode = "run" /\ frames'[current] = Pushed(Stack, f) /\ f.kind \in {"lua", "capi"}
        /\ f.fn \in Protected => f.kind = "capi" /\ CallC(f.fn)
    BY <1>6 DEF Grows
  <2>2. /\ n \in Nat /\ Len(frames'[current]) = n + 1 /\ frames'[current][n + 1] = f
        /\ \A p \in 1..n : Guards(frames'[current][p]) <=> Guards(Stack[p])
        /\ Settles(Stack) => Settles(frames'[current])
        /\ Compiled(Stack) => Compiled(frames'[current])
    BY <1>3, <2>1, GrowsKeep
  <2>3. Settles(frames'[current]) /\ Compiled(frames'[current])
    BY <1>3, <2>1, <2>2 DEF GuardInv, Settled
  <2>4. ASSUME Guards(f) PROVE \E j \in 1..Len(native') : Minds(native'[j], current, n + 1)
    <3> DEFINE a == CCall(f.fn, Main, "call")
    <3>1. f.fn \in Protected /\ native' = Append(native, a)
      BY <2>1, <2>4 DEF Guards, CallC
    <3>2. a \in Activation /\ a.th = current /\ a.fn = f.fn /\ a.kind = "ccall"
      <4>1. f.fn \in Yieldable /\ Main \in Thread
        BY <3>1 DEF Protected, Yieldable, Thread
      <4> QED BY <4>1, NewActivations
    <3>3. a.depth = n + 1
      BY DEF CCall, Stack
    <3> HIDE DEF a, n
    <3>4. native \in Seq(Activation)
      BY DEF CoInv, TypeOK
    <3>5. Len(native) \in Nat /\ Len(native') = Len(native) + 1 /\ native'[Len(native) + 1] = a
      BY <3>1, <3>2, <3>4, PushFacts
    <3>6. Minds(a, current, n + 1) /\ Len(native) + 1 \in 1..Len(native')
      BY <3>1, <3>2, <3>3, <3>5 DEF Minds
    <3> QED BY <3>5, <3>6
  <2> HIDE DEF n
  <2>5. ASSUME NEW p \in 1..Len(frames'[current]), Guards(frames'[current][p])
        PROVE  \E j \in 1..Len(native') : Minds(native'[j], current, p)
    <3>1. CASE p = n + 1
      BY <2>2, <2>4, <2>5, <3>1
    <3>2. CASE p # n + 1
      <4>1. p \in 1..n
        BY <2>2, <3>2
      <4> QED BY <1>3, <1>4, <2>2, <2>5, <4>1 DEF n
    <3> QED BY <3>1, <3>2
  <2> QED BY <2>3, <2>5
<1>7. ASSUME NEW t \in Thread
      PROVE  /\ \A p \in 1..Len(frames'[t]) :
                    Guards(frames'[t][p]) => \E j \in 1..Len(native') : Minds(native'[j], t, p)
             /\ (t = current' /\ mode' = "yield") \/ Settles(frames'[t])
             /\ Compiled(frames'[t])
  BY <1>2, <1>3, <1>5, <1>6
<1> QED BY <1>7 DEF GuardInv, Guarded, Settled

-----------------------------------------------------------------------------
(* Errors stop *)

\* With xpcall, a protected call above the base of the innermost activation is to be
\* continued: if not, its activation would be above.
LEMMA HandledExposed ==
    ASSUME CoInv, ChainInv, Stand, GuardInv, mode = "throw" PROVE Exposed
<1> SUFFICES ASSUME native # <<>>, NEW p \in (Base(Top) + 1)..Len(Stack), Stack[p].fn \in Protected
             PROVE  Stack[p].kind = "continue" /\ Top.fn \notin Protected
  BY DEF Exposed
<1>1. /\ current \in Thread /\ Stack = frames[current] /\ Stack \in Seq(FrameSet) /\ Len(Stack) \in Nat
      /\ Base(Top) \in Nat /\ Settles(Stack) /\ Compiled(Stack)
      /\ \A i \in 1..Len(native) : Callee(native[i]) = current => Base(native[i]) <= Base(Top)
  BY BaseBelow DEF CoInv, TypeOK, Stack, GuardInv, Settled
<1>2. p \in 1..Len(Stack) /\ ~(p <= Base(Top))
  BY <1>1
<1>3. Stack[p].kind \in {"lua", "capi", "continue"}
  <2>1. Stack[p] \in FrameSet
    BY <1>1, <1>2
  <2> QED BY <2>1 DEF FrameSet
<1> HIDE DEF FrameSet
<1>4. Stack[p].kind = "continue"
  <2>1. SUFFICES ASSUME Guards(Stack[p]) PROVE FALSE
    BY <1>1, <1>2, <1>3 DEF Compiled, Guards
  <2>2. PICK i \in 1..Len(native) : Minds(native[i], current, p)
    BY <1>1, <1>2, <2>1 DEF GuardInv, Guarded
  <2>3. Callee(native[i]) = current /\ Base(native[i]) = p
    BY <2>2 DEF Minds, Callee, Base, Protected, Resumers
  <2> QED BY <1>1, <1>2, <2>3
<1>5. Top.fn \notin Protected
  <2> SUFFICES ASSUME Top.fn \in Protected PROVE FALSE
    OBVIOUS
  <2>1. Top.kind = "ccall" /\ Top.fn \notin Resumers
    <3>1. Shaped(Top)
      BY TopOwned
    <3> QED BY <3>1 DEF Shaped, Protected, Resumers
  <2>2. /\ Base(Top) = Top.depth /\ Stack[Top.depth].kind = "capi" /\ Stack[Top.depth].fn = Top.fn
        /\ Top.depth - 1 \in Nat /\ Top.depth \in Nat
    BY <2>1, GoingFacts
  <2>3. Top.depth \in 1..(p - 1)
    BY <1>1, <1>2, <2>2
  <2> QED BY <1>1, <1>2, <1>4, <2>2, <2>3 DEF Settles, Guards
<1> QED BY <1>4, <1>5

\* The main chunk has just been called.
LEMMA HeldInit == Init => Stand /\ Footing /\ GuardInv
<1> SUFFICES ASSUME Init PROVE Stand /\ Footing /\ GuardInv
  OBVIOUS
<1>1. Stand /\ Footing
  BY FrameInit DEF FrameInv, Tops, Foot, Footing, Rests
<1>2. ASSUME NEW t \in Thread
      PROVE  Len(frames[t]) \in Nat /\ Len(frames[t]) <= 1 /\ \A p \in 1..Len(frames[t]) : frames[t][p].fn \notin Protected
  <2> DEFINE f == Frame("lua", "lua")
  <2>1. frames[t] = <<f>> \/ frames[t] = <<>>
    BY DEF Init
  <2>2. f.fn \notin Protected
    BY DEF Frame, Protected
  <2> HIDE DEF f
  <2>3. CASE frames[t] = <<>>
    <3>1. Len(frames[t]) = 0
      BY <2>3
    <3> QED BY <3>1
  <2>4. CASE frames[t] = <<f>>
    <3>1. Len(frames[t]) = 1 /\ frames[t][1] = f
      BY <2>4
    <3> QED BY <2>2, <3>1
  <2> QED BY <2>1, <2>3, <2>4
<1>3. \A t \in Thread : Compiled(frames[t]) /\ \A p \in 1..Len(frames[t]) : ~Guards(frames[t][p])
  BY <1>2 DEF Compiled, Guards
<1>4. \A t \in Thread : Settles(frames[t])
  <2> SUFFICES ASSUME NEW t \in Thread, NEW q \in 1..Len(frames[t]), NEW p \in 1..(q - 1) PROVE ~Guards(frames[t][p])
    BY DEF Settles
  <2>1. p \in 1..Len(frames[t])
    BY <1>2
  <2> QED BY <1>3, <2>1
<1> QED BY <1>1, <1>3, <1>4 DEF GuardInv, Guarded, Settled

\* With xpcall too the C++ stack stands on the frames.
LEMMA HeldInvariance ==
    ASSUME HandledFeatures
    PROVE  Spec => [](CoInv /\ ChainInv /\ Stand /\ Footing /\ GuardInv)
<1> DEFINE Inv == CoInv /\ ChainInv /\ Stand /\ Footing /\ GuardInv
<1>1. Init => Inv
  BY CoInit, ChainInit, HeldInit
<1>2. Inv /\ [Next]_vars => Inv'
  <2> SUFFICES ASSUME Inv, [Next]_vars PROVE Inv'
    OBVIOUS
  <2>1. CoInv' /\ ChainInv'
    BY CoStep, ChainStep DEF HandledFeatures
  <2>2. Stand' /\ Footing' /\ GuardInv'
    BY HeldStep, GuardStep
  <2> QED BY <2>1, <2>2
<1> QED BY <1>1, <1>2, PTL DEF Spec

\* An error stops at the innermost protected call; it ends a coroutine only if that
\* is inside none, or if it is the second one that co_resume catches.
THEOREM ErrorsStop ==
    ASSUME "call" \notin Features PROVE Spec => FirstErrorStops
<1> DEFINE A == mode = "throw" /\ ~(InResume /\ Top.pc \in {"redrain", "rehandler"}) => Stops
<1>1. CASE "xpcall" \notin Features
  <2> DEFINE Inv == CoInv /\ ChainInv /\ PlainInv /\ WaitsInv /\ FrameInv
  <2>1. PlainFeatures
    BY <1>1 DEF PlainFeatures
  <2>2. Inv /\ [Next]_vars => [A]_vars
    BY <2>1, PlainExposed, ErrorStops DEF FrameInv
  <2>3. Spec => []Inv
    BY <2>1, FrameInvariance
  <2> QED BY <2>2, <2>3, PTL DEF Spec, FirstErrorStops
<1>2. CASE "xpcall" \in Features
  <2> DEFINE Inv == CoInv /\ ChainInv /\ Stand /\ Footing /\ GuardInv
  <2>1. Inv /\ [Next]_vars => [A]_vars
    BY HandledExposed, ErrorStops
  <2>2. Spec => []Inv
    BY <1>2, HeldInvariance DEF HandledFeatures
  <2> QED BY <2>1, <2>2, PTL DEF Spec, FirstErrorStops
<1> QED BY <1>1, <1>2
=============================================================================
