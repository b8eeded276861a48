-------------------------- MODULE CoroutineProofs --------------------------
(***************************************************************************)
(* Proofs about the coroutines of module Coroutine, for every number of    *)
(* coroutines, depth limit and nesting of calls.                           *)
(***************************************************************************)
EXTENDS Coroutine, ProofFacts

-----------------------------------------------------------------------------
(* Sequences *)

\* Taking the last element off a sequence.
LEMMA FrontFacts ==
    ASSUME NEW S, NEW s \in Seq(S)
    PROVE  /\ Front(s) \in Seq(S)
           /\ s # <<>> => /\ Len(s) \in Nat \ {0} /\ Last(s) \in S
                          /\ Len(Front(s)) = Len(s) - 1
                          /\ \A i \in 1..(Len(s) - 1) : Front(s)[i] = s[i]
<1>1. Len(s) \in Nat /\ (s # <<>> => Len(s) # 0) /\ \A i \in 1..Len(s) : s[i] \in S
  BY EmptySeq
<1>2. CASE s = <<>>
  <2>1. Len(s) = 0
    BY <1>2
  <2>2. Front(s) = <<>>
    BY <1>2, <2>1, SubSeqEmpty DEF Front
  <2> QED BY <1>2, <2>2
<1>3. CASE s # <<>>
  <2> DEFINE n == Len(s) - 1
  <2>1. n \in Nat /\ n < Len(s) /\ Front(s) = SubSeq(s, 1, n)
    BY <1>1, <1>3 DEF Front
  <2>2. \A i \in 1..n : s[i] \in S
    BY <1>1, <2>1
  <2> HIDE DEF n
  <2>3. /\ SubSeq(s, 1, n) \in Seq(S)
        /\ Len(SubSeq(s, 1, n)) = IF 1 <= n THEN n - 1 + 1 ELSE 0
        /\ \A i \in 1..(n - 1 + 1) : SubSeq(s, 1, n)[i] = s[1 + i - 1]
    BY <2>1, <2>2, SubSeqProperties
  <2>4. Len(Front(s)) = n /\ \A i \in 1..n : Front(s)[i] = s[i]
    BY <2>1, <2>3
  <2>5. Len(s) \in 1..Len(s)
    BY <1>1, <1>3
  <2> QED BY <1>1, <1>3, <2>1, <2>3, <2>4, <2>5 DEF n, Last
<1> QED BY <1>2, <1>3

\* Adding an element.
LEMMA AppendFacts ==
    ASSUME NEW S, NEW s \in Seq(S), NEW a \in S
    PROVE  /\ Append(s, a) \in Seq(S) /\ Append(s, a) # <<>>
           /\ Last(Append(s, a)) = a
           /\ Len(s) \in Nat /\ Len(Append(s, a)) = Len(s) + 1
           /\ \A i \in 1..Len(s) : Append(s, a)[i] = s[i]
  BY AppendProperties DEF Last

\* Changing the last one.
LEMMA RetopFacts ==
    ASSUME NEW S, NEW s \in Seq(S), s # <<>>, NEW a \in S,
           NEW g, g = [s EXCEPT ![Len(s)] = a]
    PROVE  /\ g \in Seq(S) /\ g # <<>> /\ Last(g) = a /\ Len(g) = Len(s)
           /\ \A i \in 1..(Len(s) - 1) : g[i] = s[i]
<1>1. Len(s) \in Nat \ {0}
  BY FrontFacts
<1>2. /\ g \in Seq(S) /\ Len(g) = Len(s)
      /\ \A i \in 1..Len(s) : g[i] = IF i = Len(s) THEN a ELSE s[i]
  BY <1>1, ExceptSeq
<1>3. g # <<>> /\ Last(g) = a
  BY <1>1, <1>2 DEF Last
<1>4. \A i \in 1..(Len(s) - 1) : g[i] = s[i]
  <2> TAKE i \in 1..(Len(s) - 1)
  <2>1. i \in 1..Len(s) /\ i # Len(s)
    BY <1>1
  <2> QED BY <1>2, <2>1
<1> QED BY <1>2, <1>3, <1>4

\* The operations on frames keep them frames.
LEMMA FrameOps ==
    ASSUME NEW s \in Seq(FrameSet)
    PROVE  /\ \A b \in BOOLEAN : Waiting(s, b) \in Seq(FrameSet)
           /\ \A f \in FrameSet : Pushed(s, f) \in Seq(FrameSet)
           /\ Front(s) \in Seq(FrameSet) /\ Returned(s) \in Seq(FrameSet)
           /\ \A n \in Nat : Cut(s, n) \in Seq(FrameSet) /\ Delivered(s, n) \in Seq(FrameSet)
           /\ Resumed(s) \in Seq(FrameSet)
<1>1. ASSUME NEW u \in Seq(FrameSet), NEW n \in DOMAIN u, NEW b \in BOOLEAN
      PROVE  [u EXCEPT ![n].wait = b] \in Seq(FrameSet)
  <2>1. u[n] \in FrameSet
    BY <1>1
  <2>2. [u[n] EXCEPT !.wait = b] \in FrameSet
    BY <2>1 DEF FrameSet
  <2> DEFINE f == [u[n] EXCEPT !.wait = b]
  <2> HIDE DEF f, FrameSet
  <2>3. [u EXCEPT ![n] = f] \in Seq(FrameSet)
    BY <2>2, ExceptSeq DEF f
  <2> QED BY <2>3 DEF f
<1> HIDE DEF FrameSet
<1>2. \A u \in Seq(FrameSet), b \in BOOLEAN : Waiting(u, b) \in Seq(FrameSet)
  <2> TAKE u \in Seq(FrameSet), b \in BOOLEAN
  <2>1. u # <<>> => Len(u) \in DOMAIN u
    BY FrontFacts
  <2> QED BY <1>1, <2>1 DEF Waiting
<1>3. Front(s) \in Seq(FrameSet)
  BY FrontFacts
<1>4. Returned(s) \in Seq(FrameSet)
  BY <1>2, <1>3 DEF Returned
<1>5. \A f \in FrameSet : Pushed(s, f) \in Seq(FrameSet)
  BY <1>2, AppendProperties DEF Pushed
<1>6. ASSUME NEW n \in Nat PROVE Cut(s, n) \in Seq(FrameSet)
  <2> DEFINE m == IF n < Len(s) THEN n ELSE Len(s)
  <2>1. m \in Nat /\ m <= Len(s) /\ Len(s) \in Nat
    OBVIOUS
  <2>2. \A i \in 1..m : s[i] \in FrameSet
    BY <2>1
  <2> HIDE DEF m
  <2>3. SubSeq(s, 1, m) \in Seq(FrameSet)
    BY <2>1, <2>2, SubSeqProperties
  <2> QED BY <2>3 DEF Cut, m
<1>7. ASSUME NEW n \in Nat PROVE Delivered(s, n) \in Seq(FrameSet)
  BY <1>1 DEF Delivered
<1>8. Resumed(s) \in Seq(FrameSet)
  BY <1>2, <1>4 DEF Resumed
<1> QED BY <1>2, <1>3, <1>4, <1>5, <1>6, <1>7, <1>8

-----------------------------------------------------------------------------
(* Whose activation it is *)

\* The thread that runs the n-th activation of s: the one the last resume before it
\* has entered.
Owner(s, n, t) ==
    \/ t = Main /\ \A j \in 1..(n - 1) : s[j].fn \notin Resumers
    \/ \E j \in 1..(n - 1) : /\ s[j].fn \in Resumers /\ s[j].co = t
                             /\ \A m \in (j + 1)..(n - 1) : s[m].fn \notin Resumers

\* One thread does.
LEMMA OwnerUnique ==
    ASSUME NEW s, NEW n \in Nat, NEW t, NEW u, Owner(s, n, t), Owner(s, n, u)
    PROVE  t = u
<1>1. CASE \A j \in 1..(n - 1) : s[j].fn \notin Resumers
  BY <1>1 DEF Owner
<1>2. CASE \E j \in 1..(n - 1) : s[j].fn \in Resumers
  <2>1. PICK j \in 1..(n - 1) : /\ s[j].fn \in Resumers /\ s[j].co = t
                                /\ \A m \in (j + 1)..(n - 1) : s[m].fn \notin Resumers
    BY <1>2 DEF Owner
  <2>2. PICK k \in 1..(n - 1) : /\ s[k].fn \in Resumers /\ s[k].co = u
                                /\ \A m \in (k + 1)..(n - 1) : s[m].fn \notin Resumers
    BY <1>2 DEF Owner
  <2>3. ~(j < k) /\ ~(k < j)
    BY <2>1, <2>2
  <2>4. j = k
    BY <2>3
  <2> QED BY <2>1, <2>2, <2>4
<1> QED BY <1>1, <1>2

\* A resume changes it, any other activation does not.
LEMMA OwnerStep ==
    ASSUME NEW s, NEW n \in Nat \ {0}, NEW t
    PROVE  /\ s[n].fn \notin Resumers => (Owner(s, n + 1, t) <=> Owner(s, n, t))
           /\ s[n].fn \in Resumers => (Owner(s, n + 1, t) <=> t = s[n].co)
<1>1. (n + 1) - 1 = n
  OBVIOUS
<1>2. ASSUME s[n].fn \notin Resumers PROVE Owner(s, n + 1, t) <=> Owner(s, n, t)
  <2>1. ASSUME Owner(s, n + 1, t) PROVE Owner(s, n, t)
    <3>1. CASE t = Main /\ \A j \in 1..n : s[j].fn \notin Resumers
      BY <3>1 DEF Owner
    <3>2. CASE \E j \in 1..n : /\ s[j].fn \in Resumers /\ s[j].co = t
                               /\ \A m \in (j + 1)..n : s[m].fn \notin Resumers
      <4>1. PICK j \in 1..n : /\ s[j].fn \in Resumers /\ s[j].co = t
                              /\ \A m \in (j + 1)..n : s[m].fn \notin Resumers
        BY <3>2
      <4>2. j \in 1..(n - 1)
        BY <1>2, <4>1
      <4>3. \A m \in (j + 1)..(n - 1) : s[m].fn \notin Resumers
        BY <4>1
      <4> QED BY <4>1, <4>2, <4>3 DEF Owner
    <3> QED BY <1>1, <2>1, <3>1, <3>2 DEF Owner
  <2>2. ASSUME Owner(s, n, t) PROVE Owner(s, n + 1, t)
    <3>1. CASE t = Main /\ \A j \in 1..(n - 1) : s[j].fn \notin Resumers
      <4>1. \A j \in 1..n : j \in 1..(n - 1) \/ j = n
        OBVIOUS
      <4> QED BY <1>1, <1>2, <3>1, <4>1 DEF Owner
    <3>2. CASE \E j \in 1..(n - 1) : /\ s[j].fn \in Resumers /\ s[j].co = t
                                     /\ \A m \in (j + 1)..(n - 1) : s[m].fn \notin Resumers
      <4>1. PICK j \in 1..(n - 1) : /\ s[j].fn \in Resumers /\ s[j].co = t
                                    /\ \A m \in (j + 1)..(n - 1) : s[m].fn \notin Resumers
        BY <3>2
      <4>2. \A m \in (j + 1)..n : m \in (j + 1)..(n - 1) \/ m = n
        OBVIOUS
      <4>3. j \in 1..n /\ \A m \in (j + 1)..n : s[m].fn \notin Resumers
        BY <1>2, <4>1, <4>2
      <4> QED BY <1>1, <4>1, <4>3 DEF Owner
    <3> QED BY <2>2, <3>1, <3>2 DEF Owner
  <2> QED BY <2>1, <2>2
<1>3. ASSUME s[n].fn \in Resumers PROVE Owner(s, n + 1, t) <=> t = s[n].co
  <2>1. Owner(s, n + 1, s[n].co)
    <3>1. n \in 1..n /\ \A m \in (n + 1)..n : s[m].fn \notin Resumers
      OBVIOUS
    <3> QED BY <1>1, <1>3, <3>1 DEF Owner
  <2> QED BY <2>1, OwnerUnique
<1> QED BY <1>2, <1>3

\* It depends on the activations before it only.
LEMMA OwnerSame ==
    ASSUME NEW s, NEW g, NEW n \in Nat, NEW t,
           \A j \in 1..(n - 1) : g[j].fn = s[j].fn /\ g[j].co = s[j].co
    PROVE  Owner(g, n, t) <=> Owner(s, n, t)
<1>1. \A j \in 1..(n - 1) : \A m \in (j + 1)..(n - 1) : m \in 1..(n - 1)
  OBVIOUS
<1> QED BY <1>1 DEF Owner

-----------------------------------------------------------------------------
(* What is counted *)

\* a: a C call of thread t that cannot yield
Blocks(a, t) ==
    /\ a.kind = "ccall" /\ a.th = t
    /\ a.fn \notin Yieldable \/ a.pc = "handler"
Blocking(s, t) == {i \in DOMAIN s : Blocks(s[i], t)}
Unit(a, t) == IF Blocks(a, t) THEN 1 ELSE 0

\* The last activation counts if it blocks.
LEMMA BlockingCount ==
    ASSUME NEW s \in Seq(Activation), s # <<>>, NEW t
    PROVE  /\ Cardinality(Blocking(s, t)) \in Nat
           /\ Cardinality(Blocking(Front(s), t)) \in Nat
           /\ Cardinality(Blocking(s, t)) = Cardinality(Blocking(Front(s), t)) + Unit(Last(s), t)
<1> DEFINE n == Len(s)  B == Blocking(s, t)  F == Blocking(Front(s), t)
<1>1. /\ n \in Nat \ {0} /\ DOMAIN s = 1..n /\ Front(s) \in Seq(Activation) /\ Len(Front(s)) = n - 1
      /\ \A i \in 1..(n - 1) : Front(s)[i] = s[i]
  BY FrontFacts
<1>2. DOMAIN Front(s) = 1..(n - 1) /\ n - 1 \in Nat
  BY <1>1
<1>3. B \subseteq 1..n /\ F \subseteq 1..(n - 1)
  BY <1>1, <1>2 DEF Blocking
<1>4. /\ IsFiniteSet(B) /\ Cardinality(B) \in Nat
      /\ IsFiniteSet(F) /\ Cardinality(F) \in Nat
  BY <1>1, <1>2, <1>3, FiniteInterval
<1>5. CASE Blocks(Last(s), t)
  <2>1. B = F \cup {n} /\ n \notin F
    BY <1>1, <1>2, <1>5 DEF Blocking, Last
  <2>2. Cardinality(B) = Cardinality(F) + 1
    BY <1>4, <2>1, FS_AddElement
  <2> QED BY <1>4, <1>5, <2>2 DEF Unit
<1>6. CASE ~Blocks(Last(s), t)
  <2>1. B = F
    BY <1>1, <1>2, <1>6 DEF Blocking, Last
  <2> QED BY <1>4, <1>6, <2>1 DEF Unit
<1> QED BY <1>5, <1>6

-----------------------------------------------------------------------------
(* The inductive invariant *)

\* the activations there are, and where each of them can be
Shaped(a) ==
    \/ /\ a.kind = "interp" /\ a.fn \in {"nested", "meta", "drain"} /\ a.pc = "loop"
       /\ a.fn = "meta" => "call" \in Features
    \/ /\ a.kind = "ccall" /\ a.fn \in Yieldable \cup {"sort"} /\ a.pc \in {"call", "handler"}
    \/ /\ a.kind = "ccall" /\ a.fn \in Resumers /\ a.co \in Co
       /\ a.pc \in {"first", "drain", "redrain", "rehandler"}

\* every activation runs for the thread that the resume below it has entered
NativeOwned ==
    /\ \A i \in 1..Len(native) : Owner(native, i, native[i].th)
    /\ Owner(native, Len(native) + 1, current)

\* only a coroutine yields, and not across a C call that cannot yield
YieldAllowed == mode = "yield" => current # Main /\ nny[current] = 0

CoInv ==
    /\ TypeOK
    /\ \A i \in 1..Len(native) : Shaped(native[i])
    /\ NativeOwned
    /\ \A t \in Thread : nny[t] = Cardinality(Blocking(native, t))
    /\ YieldAllowed

\* The innermost activation runs for `current`, or is the resume that entered it.
LEMMA TopOwned ==
    ASSUME CoInv, native # <<>>
    PROVE  /\ Top \in Activation /\ Shaped(Top) /\ Len(native) \in Nat \ {0}
           /\ Top.fn \notin Resumers => Top.th = current
           /\ Top.fn \in Resumers => Top.co = current /\ current \in Co
<1> DEFINE n == Len(native)
<1>1. native \in Seq(Activation)
  BY DEF CoInv, TypeOK
<1>2. n \in Nat \ {0} /\ Top = native[n] /\ Top \in Activation
  BY <1>1, FrontFacts DEF Top, Last
<1>3. n \in 1..n /\ n \in Nat /\ n + 1 \in Nat
  BY <1>2
<1>4. Shaped(Top) /\ Owner(native, n, Top.th) /\ Owner(native, n + 1, current)
  BY <1>2, <1>3 DEF CoInv, NativeOwned
<1>5. ASSUME Top.fn \notin Resumers PROVE Top.th = current
  <2>1. Owner(native, n, current)
    BY <1>2, <1>4, <1>5, OwnerStep
  <2> QED BY <1>3, <1>4, <2>1, OwnerUnique
<1>6. ASSUME Top.fn \in Resumers PROVE Top.co = current /\ current \in Co
  <2>1. current = Top.co
    BY <1>2, <1>4, <1>6, OwnerStep
  <2>2. Top.co \in Co
    BY <1>4, <1>6 DEF Shaped, Yieldable, Resumers
  <2> QED BY <2>1, <2>2
<1> QED BY <1>2, <1>4, <1>5, <1>6

-----------------------------------------------------------------------------
(* What a step does to the C++ stack *)

\* the C++ stack is left alone, and no yield starts or ends
Stays ==
    /\ UNCHANGED <<native, current, nny, status>>
    /\ mode' = "yield" <=> mode = "yield"
    /\ nCcalls' = nCcalls \/ CallOverflow

\* coroutine.yield
Yields ==
    /\ CanYield /\ mode = "run" /\ mode' = "yield"
    /\ status' = [status EXCEPT ![current] = "Suspended"]
    /\ UNCHANGED <<native, current, nny, nCcalls>>

\* an activation of the running thread is added
Pushes(a) ==
    /\ a \in Activation /\ Shaped(a) /\ a.th = current /\ a.fn \notin Resumers
    /\ native' = Append(native, a)
    /\ nny' = [nny EXCEPT ![current] = @ + Unit(a, current)]
    /\ nCcalls' = [nCcalls EXCEPT ![current] = IF a.fn = "drain" THEN @ ELSE @ + 1]
    /\ mode = "run" /\ mode' = "run"
    /\ UNCHANGED <<current, status>>

\* a coroutine is entered
Enters(a) ==
    /\ a \in Activation /\ Shaped(a) /\ a.th = current /\ a.fn \in Resumers
    /\ Resumable(a.co)
    /\ native' = Append(native, a)
    /\ current' = a.co
    /\ nny' = [nny EXCEPT ![current] = @ + 1]
    /\ nCcalls' = [Deeper EXCEPT ![a.co] = Inherited]
    /\ status' = [status EXCEPT ![a.co] = "Running"]
    /\ mode = "run" /\ mode' = "run"

\* the innermost activation goes, for whatever reason
Pops ==
    /\ native # <<>> /\ Top.fn \notin Resumers
    /\ native' = Front(native)
    /\ nny' = [nny EXCEPT ![current] = @ - Unit(Top, current)]
    /\ nCcalls' = IF Top.fn = "drain" THEN nCcalls ELSE Shallower
    /\ mode' = "yield" => mode = "yield"
    /\ mode = "yield" /\ mode' # "yield" => "call" \in Features
    /\ UNCHANGED <<current, status>>

\* a coroutine is left
Leaves ==
    /\ native # <<>> /\ Top.fn \in Resumers
    /\ native' = Front(native)
    /\ current' = Top.th
    /\ nny' = [nny EXCEPT ![Top.th] = @ - 1]
    /\ nCcalls' = [[nCcalls EXCEPT ![Top.co] = Less(@)] EXCEPT ![Top.th] = Less(@)]
    /\ status' = [status EXCEPT ![Top.co] = "Dead"] \/ status' = [status EXCEPT ![Top.co] = "Suspended"]
    /\ mode' # "yield"

\* the innermost activation goes on somewhere else
Retops(a) ==
    /\ native # <<>> /\ a \in Activation /\ Shaped(a)
    /\ a.kind = Top.kind /\ a.fn = Top.fn /\ a.th = Top.th /\ a.co = Top.co
    /\ native' = [native EXCEPT ![Len(native)] = a]
    /\ nny' = [nny EXCEPT ![current] = @ - Unit(Top, current) + Unit(a, current)]
    /\ mode # "yield" /\ mode' = "run"
    /\ UNCHANGED <<current, status, nCcalls>>

StepKinds ==
    \/ Stays \/ Yields \/ Pops \/ Leaves
    \/ \E a : Pushes(a) \/ Enters(a) \/ Retops(a)

\* The activation that a call adds.
LEMMA NewActivations ==
    ASSUME CoInv
    PROVE  /\ \A fn \in {"nested", "meta", "drain"}, d \in Nat :
                 /\ Interp(fn, d) \in Activation
                 /\ Interp(fn, d).th = current /\ Interp(fn, d).fn = fn
                 /\ Interp(fn, d).kind = "interp" /\ Interp(fn, d).pc = "loop"
           /\ \A fn \in Yieldable \cup Resumers \cup {"sort"}, co \in Thread,
                 pc \in {"call", "first", "drain"} :
                 /\ CCall(fn, co, pc) \in Activation
                 /\ CCall(fn, co, pc).th = current /\ CCall(fn, co, pc).fn = fn
                 /\ CCall(fn, co, pc).kind = "ccall" /\ CCall(fn, co, pc).co = co
                 /\ CCall(fn, co, pc).pc = pc
<1>1. current \in Thread /\ Main \in Thread /\ Len(Stack) \in Nat /\ Len(Stack) + 1 \in Nat
  BY DEF CoInv, TypeOK, Stack, Thread
<1> HIDE DEF Stack, Thread
<1>2. Len(frames[current]) + 1 \in Nat
  BY <1>1 DEF Stack
<1> QED BY <1>1, <1>2 DEF Interp, CCall, Activation, Yieldable, Resumers

\* Every step is of one of these kinds: calls.
LEMMA CallKinds ==
    ASSUME CoInv,
           \/ CallLua \/ CallClosure \/ CallOverflow \/ ReturnLua
           \/ \E fn \in {"pcall"} \cup (Features \cap {"xpcall", "dofile", "sort"}) : CallC(fn)
           \/ CallError \/ LuaError \/ CallYield
           \/ \E fn \in {"resume"} \cup (Features \cap {"wrap"}), co \in Co : CallResume(fn, co)
           \/ \E co \in Co : "wrap" \in Features /\ RefuseWrap(co)
           \/ FinishContinue \/ RunResumed
    PROVE  StepKinds
<1>1. current \in Thread /\ Len(Stack) \in Nat /\ nny \in [Thread -> Nat] /\ nCcalls \in [Thread -> Nat]
  BY DEF CoInv, TypeOK, Stack
<1>2. Calls => mode = "run" /\ (~LuaRuns => CBody)
  BY DEF Calls, LuaRuns, CBody
<1>3. CASE CallLua
  BY <1>3 DEF CallLua, StepKinds, Stays
<1>4. CASE CallClosure
  <2> DEFINE fn == IF CBody THEN "nested" ELSE "meta"
             a == Interp(fn, Len(Stack) + 1)
  <2>1. Len(Stack) + 1 \in Nat /\ fn \in {"nested", "meta", "drain"}
    BY <1>1
  <2> HIDE DEF fn
  <2>2. /\ a \in Activation /\ a.th = current /\ a.fn = fn /\ a.kind = "interp" /\ a.pc = "loop"
    BY <2>1, NewActivations
  <2>3. fn = "meta" => "call" \in Features
    BY <1>2, <1>4 DEF fn, CallClosure
  <2>4. fn = "nested" \/ fn = "meta"
    BY DEF fn
  <2>5. native' = Append(native, a) /\ nCcalls' = Deeper /\ mode = "run"
    BY <1>2, <1>4 DEF CallClosure, fn
  <2> HIDE DEF a
  <2>6. Shaped(a) /\ a.fn \notin Resumers /\ Unit(a, current) = 0 /\ a.fn # "drain"
    BY <2>2, <2>3, <2>4 DEF Shaped, Resumers, Unit, Blocks
  <2>7. nny' = [nny EXCEPT ![current] = @ + Unit(a, current)]
    BY <1>1, <1>4, <2>6 DEF CallClosure
  <2>8. Pushes(a)
    BY <1>4, <2>2, <2>5, <2>6, <2>7 DEF Pushes, CallClosure, Deeper
  <2> QED BY <2>8 DEF StepKinds
<1>5. CASE CallOverflow
  BY <1>2, <1>5 DEF CallOverflow, StepKinds, Stays
<1>6. CASE ReturnLua
  BY <1>6 DEF ReturnLua, StepKinds, Stays
<1>7. ASSUME NEW fn \in {"pcall"} \cup (Features \cap {"xpcall", "dofile", "sort"}), CallC(fn)
      PROVE  StepKinds
  <2> DEFINE a == CCall(fn, Main, "call")
  <2>1. fn \in Yieldable \cup {"sort"}
    BY DEF Yieldable
  <2>2. /\ a \in Activation /\ a.th = current /\ a.fn = fn /\ a.kind = "ccall" /\ a.pc = "call"
    BY <2>1, NewActivations DEF Thread
  <2>3. native' = Append(native, a) /\ nCcalls' = Deeper /\ mode = "run"
    BY <1>2, <1>7 DEF CallC
  <2> HIDE DEF a
  <2>4. Shaped(a) /\ a.fn \notin Resumers /\ a.fn # "drain"
    BY <2>1, <2>2 DEF Shaped, Resumers, Yieldable
  <2>5. Unit(a, current) = IF fn \in Yieldable THEN 0 ELSE 1
    BY <2>2 DEF Unit, Blocks
  <2>6. nny' = [nny EXCEPT ![current] = @ + Unit(a, current)]
    <3>1. nny' = [nny EXCEPT ![current] = IF fn \in Yieldable THEN @ ELSE @ + 1]
      BY <1>7 DEF CallC
    <3>2. nny[current] \in Nat
      BY <1>1
    <3>3. (IF fn \in Yieldable THEN nny[current] ELSE nny[current] + 1)
             = nny[current] + Unit(a, current)
      BY <2>5, <3>2
    <3> QED BY <3>1, <3>3
  <2>7. Pushes(a)
    BY <1>7, <2>2, <2>3, <2>4, <2>6 DEF Pushes, CallC, Deeper
  <2> QED BY <2>7 DEF StepKinds
<1>8. CASE CallError
  BY <1>2, <1>8 DEF CallError, ThrownBy, StepKinds, Stays
<1>9. CASE LuaError
  BY <1>9 DEF LuaError, LuaRuns, StepKinds, Stays
<1>10. CASE CallYield
  BY <1>2, <1>10 DEF CallYield, ThrownBy, StepKinds, Stays, Yields
<1>11. ASSUME NEW fn \in {"resume"} \cup (Features \cap {"wrap"}), NEW co \in Co, CallResume(fn, co)
       PROVE  StepKinds
  <2> DEFINE pc == IF status[co] = "Fresh" THEN "first" ELSE "drain"
             a == CCall(fn, co, pc)
  <2>1. fn \in Resumers /\ co \in Thread /\ pc \in {"call", "first", "drain"}
    BY DEF Resumers, Thread
  <2>2. pc \in {"first", "drain"}
    OBVIOUS
  <2> HIDE DEF pc
  <2>3. /\ a \in Activation /\ a.th = current /\ a.fn = fn /\ a.kind = "ccall"
        /\ a.co = co /\ a.pc = pc
    BY <2>1, NewActivations
  <2>4. native' = Append(native, a) /\ mode = "run" /\ mode' = "run"
    BY <1>2, <1>11 DEF CallResume, pc
  <2> HIDE DEF a
  <2>5. Shaped(a)
    BY <2>1, <2>2, <2>3 DEF Shaped
  <2>6. Enters(a)
    BY <1>11, <2>1, <2>3, <2>4, <2>5 DEF Enters, CallResume
  <2> QED BY <2>6 DEF StepKinds
<1>12. ASSUME NEW co \in Co, RefuseWrap(co) PROVE StepKinds
  BY <1>2, <1>12 DEF RefuseWrap, ThrownBy, StepKinds, Stays
<1>13. CASE FinishContinue
  BY <1>13 DEF FinishContinue, StepKinds, Stays
<1>14. CASE RunResumed
  <2>1. CASE BackIs("lua")
    <3> DEFINE a == Interp("drain", 1)
    <3>1. /\ a \in Activation /\ a.th = current /\ a.fn = "drain" /\ a.kind = "interp" /\ a.pc = "loop"
      BY NewActivations
    <3>2. native' = Append(native, a) /\ mode = "run" /\ mode' = "run" /\ UNCHANGED <<current, status, nny, nCcalls>>
      BY <1>14, <2>1 DEF RunResumed, Draining
    <3> HIDE DEF a
    <3>3. Shaped(a) /\ a.fn \notin Resumers /\ Unit(a, current) = 0
      BY <3>1 DEF Shaped, Resumers, Unit, Blocks
    <3>4. /\ nny' = [nny EXCEPT ![current] = @ + Unit(a, current)]
          /\ nCcalls' = [nCcalls EXCEPT ![current] = IF a.fn = "drain" THEN @ ELSE @ + 1]
      BY <1>1, <3>1, <3>2, <3>3
    <3>5. Pushes(a)
      BY <3>1, <3>2, <3>3, <3>4 DEF Pushes
    <3> QED BY <3>5 DEF StepKinds
  <2>2. CASE ~BackIs("lua")
    BY <1>14, <2>2 DEF RunResumed, Draining, StepKinds, Stays
  <2> QED BY <2>1, <2>2
<1> QED BY <1>3, <1>4, <1>5, <1>6, <1>7, <1>8, <1>9, <1>10, <1>11, <1>12, <1>13, <1>14

\* The innermost activation of a resume goes on at another point.
LEMMA RetopResume ==
    ASSUME CoInv, InResume, NEW pc \in {"first", "drain", "redrain", "rehandler"}, NEW d \in Nat,
           native' = [native EXCEPT ![Len(native)] = [Top EXCEPT !.depth = d, !.pc = pc]],
           UNCHANGED <<current, status, nny, nCcalls>>,
           mode # "yield", mode' = "run"
    PROVE  StepKinds
<1> DEFINE a == [Top EXCEPT !.depth = d, !.pc = pc]
<1>1. native # <<>> /\ Top \in Activation /\ Shaped(Top) /\ Top.kind = "ccall" /\ Top.fn \in Resumers
  BY TopOwned DEF InResume
<1>2. Top.co \in Co
  BY <1>1 DEF Shaped, Resumers, Yieldable
<1>3. /\ a \in Activation /\ a.kind = Top.kind /\ a.fn = Top.fn /\ a.th = Top.th
      /\ a.co = Top.co /\ a.pc = pc
  BY <1>1 DEF Activation
<1>4. native' = [native EXCEPT ![Len(native)] = a]
  OBVIOUS
<1> HIDE DEF a
<1>5. Shaped(a)
  BY <1>1, <1>2, <1>3 DEF Shaped
<1>6. Unit(a, current) = Unit(Top, current) /\ Unit(a, current) \in Nat
  BY <1>1, <1>3 DEF Unit, Blocks, Resumers, Yieldable
<1>7. current \in Thread /\ nny \in [Thread -> Nat]
  BY DEF CoInv, TypeOK
<1>8. nny[current] = nny[current] - Unit(Top, current) + Unit(a, current)
  BY <1>6, <1>7
<1>9. nny' = [nny EXCEPT ![current] = @ - Unit(Top, current) + Unit(a, current)]
  BY <1>7, <1>8
<1>10. Retops(a)
  BY <1>1, <1>3, <1>4, <1>5, <1>9 DEF Retops
<1> QED BY <1>10 DEF StepKinds

\* Where there is a continued call, there is an innermost one.
LEMMA InnermostExists ==
    ASSUME NEW s, NEW n \in Nat, Continues(s) # {}, Continues(s) \subseteq 1..n
    PROVE  Innermost(s) \in Continues(s)
<1>1. Max(Continues(s)) \in Continues(s) /\ \A y \in Continues(s) : y <= Max(Continues(s))
  BY MaxBounded
<1>2. \E x \in Continues(s) : \A y \in Continues(s) : y <= x
  BY <1>1
<1> QED BY <1>2, Zenon DEF Innermost

\* Every step is of one of these kinds: steps of a resume.
LEMMA ResumeKinds ==
    ASSUME CoInv,
           \/ ResumeGoesOn \/ ResumeEnds \/ ResumeYields
           \/ ResumeRecovers \/ HandlerFails \/ ResumeFails
    PROVE  StepKinds
<1>1. InResume
  BY DEF ResumeGoesOn, ResumeEnds, ResumeYields, ResumeRecovers, HandlerFails, ResumeFails
<1>2. /\ native # <<>> /\ Top \in Activation /\ Shaped(Top) /\ Len(native) \in Nat \ {0}
      /\ Top.fn \in Resumers /\ Top.depth \in Nat /\ Top = native[Len(native)]
      /\ native \in Seq(Activation)
  BY <1>1, TopOwned DEF InResume, Activation, Top, Last, CoInv, TypeOK
<1>3. Top.pc \in {"first", "drain", "redrain", "rehandler"}
  BY <1>2 DEF Shaped, Resumers, Yieldable
<1>4. \A pc : [Top EXCEPT !.pc = pc] = [Top EXCEPT !.depth = Top.depth, !.pc = pc]
  BY <1>2 DEF Activation
<1>5. Len(native) \in DOMAIN native
  BY <1>2
<1>6. \A b : Landed(b) # "yield"
  BY DEF Landed
<1>7. CASE ResumeGoesOn
  <2> DEFINE pc == IF Top.pc = "rehandler" THEN "redrain" ELSE Top.pc
  <2>1. pc \in {"first", "drain", "redrain", "rehandler"}
    BY <1>3
  <2>2. native' = [native EXCEPT ![Len(native)] = [Top EXCEPT !.pc = pc]]
    BY <1>2, <1>7 DEF ResumeGoesOn
  <2> HIDE DEF pc
  <2>3. native' = [native EXCEPT ![Len(native)] = [Top EXCEPT !.depth = Top.depth, !.pc = pc]]
    BY <1>4, <2>2
  <2>4. UNCHANGED <<current, status, nny, nCcalls>> /\ mode # "yield" /\ mode' = "run"
    BY <1>7 DEF ResumeGoesOn
  <2> QED BY <1>1, <1>2, <2>1, <2>3, <2>4, RetopResume
<1>8. CASE ResumeEnds
  BY <1>2, <1>6, <1>8 DEF ResumeEnds, Resumer, Leaves, StepKinds
<1>9. CASE ResumeYields
  BY <1>2, <1>6, <1>9 DEF ResumeYields, Resumer, Leaves, StepKinds
<1>10. CASE ResumeFails
  BY <1>2, <1>6, <1>10 DEF ResumeFails, Resumer, Leaves, StepKinds
<1>11. CASE HandlerFails
  <2>1. native' = [native EXCEPT ![Len(native)] = [Top EXCEPT !.pc = "redrain"]]
    BY <1>2, <1>11 DEF HandlerFails
  <2>2. native' = [native EXCEPT ![Len(native)] = [Top EXCEPT !.depth = Top.depth, !.pc = "redrain"]]
    BY <1>4, <2>1
  <2>3. UNCHANGED <<current, status, nny, nCcalls>> /\ mode # "yield" /\ mode' = "run"
    BY <1>11 DEF HandlerFails
  <2> QED BY <1>1, <1>2, <2>2, <2>3, RetopResume
<1>12. CASE ResumeRecovers
  <2> DEFINE s == frames[Top.co]  i == Innermost(s)
             pc == IF s[i].fn = "xpcall" THEN "rehandler" ELSE "redrain"
  <2>1. i - 1 \in Nat
    <3>1. s \in Seq(FrameSet)
      BY <1>2 DEF CoInv, TypeOK, Activation
    <3>2. Continues(s) # {} /\ Continues(s) \subseteq 1..Len(s) /\ Len(s) \in Nat
      BY <1>12, <3>1 DEF ResumeRecovers, Recovers, Continues
    <3> HIDE DEF s
    <3>5. i \in Continues(s)
      BY <3>2, InnermostExists
    <3> HIDE DEF i
    <3> QED BY <3>2, <3>5
  <2>2. native' = [native EXCEPT ![Len(native)] = [Top EXCEPT !.depth = i - 1, !.pc = pc]]
    <3>1. native' = [native EXCEPT ![Len(native)].depth = i - 1, ![Len(native)].pc = pc]
      BY <1>12 DEF ResumeRecovers
    <3> HIDE DEF i, pc
    <3> QED BY <1>2, <1>5, <3>1
  <2>3. UNCHANGED <<current, status, nny, nCcalls>> /\ mode # "yield" /\ mode' = "run"
    BY <1>12 DEF ResumeRecovers
  <2>4. pc \in {"first", "drain", "redrain", "rehandler"}
    OBVIOUS
  <2> HIDE DEF i, pc
  <2> QED BY <1>1, <2>1, <2>2, <2>3, <2>4, RetopResume
<1> QED BY <1>7, <1>8, <1>9, <1>10, <1>11, <1>12

\* Every step is of one of these kinds: returns, yields and errors in the others.
LEMMA UnwindKinds ==
    ASSUME CoInv,
           \/ LeaveInterp \/ ReturnC \/ YieldC \/ YieldInterp \/ ThrowInterp
           \/ ThrowC \/ CatchC \/ CallHandler
    PROVE  StepKinds
<1>1. /\ native # <<>>
      /\ Top.kind = "interp" \/ InC(Yieldable \cup {"sort"})
  BY DEF LeaveInterp, ReturnC, YieldC, YieldInterp, ThrowInterp, ThrowC, CatchC, CallHandler,
         InC, Protected, Yieldable
<1>2. /\ Top \in Activation /\ Shaped(Top) /\ Len(native) \in Nat \ {0}
      /\ Top = native[Len(native)] /\ native \in Seq(Activation)
      /\ current \in Thread /\ nny \in [Thread -> Nat] /\ nny[current] \in Nat
  BY <1>1, TopOwned DEF Top, Last, CoInv, TypeOK
<1>3. Top.fn \notin Resumers
  BY <1>1, <1>2 DEF InC, Shaped, Resumers, Yieldable
<1>4. Top.th = current
  BY <1>1, <1>3, TopOwned
<1>5. Top.kind = "interp" => Unit(Top, current) = 0
  BY DEF Unit, Blocks
<1>6. Top.kind = "ccall" => Unit(Top, current) = Counted /\ Top.fn # "drain"
  BY <1>2, <1>4 DEF Unit, Blocks, Counted, Shaped, Resumers, Yieldable
<1>7. mode = "yield" => Unit(Top, current) = 0
  <2> SUFFICES ASSUME mode = "yield" PROVE Unit(Top, current) = 0
    OBVIOUS
  <2>1. nny[current] = 0 /\ nny[current] = Cardinality(Blocking(native, current))
    BY <1>2 DEF CoInv, YieldAllowed
  <2>2. /\ Cardinality(Blocking(Front(native), current)) \in Nat
        /\ Cardinality(Blocking(native, current))
              = Cardinality(Blocking(Front(native), current)) + Unit(Top, current)
    BY <1>1, <1>2, BlockingCount DEF Top
  <2>3. Unit(Top, current) \in {0, 1}
    BY DEF Unit
  <2> QED BY <2>1, <2>2, <2>3
<1>8. nny = [nny EXCEPT ![current] = @ - 0]
  BY <1>2
<1>9. \A b : Landed(b) # "yield"
  BY DEF Landed
<1>10. CASE LeaveInterp
  BY <1>1, <1>3, <1>5, <1>8, <1>9, <1>10 DEF LeaveInterp, Pops, StepKinds
<1>11. CASE ReturnC
  <2>1. Top.kind = "ccall" /\ (Top.fn = "sort" => Unit(Top, current) = 1)
    BY <1>6, <1>11 DEF ReturnC, InC, Counted, Yieldable
  <2>2. mode # "yield"
    BY <1>7, <1>11, <2>1 DEF ReturnC
  <2> QED BY <1>1, <1>3, <1>6, <1>9, <1>11, <2>1, <2>2 DEF ReturnC, Pops, StepKinds
<1>12. CASE YieldC
  BY <1>1, <1>3, <1>6, <1>7, <1>8, <1>12 DEF YieldC, InC, Pops, StepKinds
<1>13. CASE YieldInterp
  <2>1. Top.fn = "meta" => "call" \in Features
    BY <1>2 DEF Shaped, Resumers, Yieldable
  <2> QED BY <1>1, <1>3, <1>5, <1>8, <1>13, <2>1 DEF YieldInterp, Pops, StepKinds
<1>14. CASE ThrowInterp
  BY <1>1, <1>3, <1>5, <1>8, <1>14 DEF ThrowInterp, Pops, StepKinds
<1>15. CASE ThrowC
  BY <1>1, <1>3, <1>6, <1>15 DEF ThrowC, InC, Pops, StepKinds
<1>16. CASE CatchC
  BY <1>1, <1>3, <1>6, <1>9, <1>16 DEF CatchC, InC, Pops, StepKinds
<1>17. CASE CallHandler
  <2> DEFINE a == [Top EXCEPT !.pc = "handler"]
  <2>1. Top.kind = "ccall" /\ Top.fn = "xpcall" /\ Top.pc = "call"
    BY <1>17 DEF CallHandler, InC
  <2>2. /\ a \in Activation /\ a.kind = Top.kind /\ a.fn = Top.fn /\ a.th = Top.th
        /\ a.co = Top.co /\ a.pc = "handler"
    BY <1>2 DEF Activation
  <2>3. native' = [native EXCEPT ![Len(native)] = a]
    BY <1>2, <1>17 DEF CallHandler
  <2> HIDE DEF a
  <2>4. Shaped(a)
    BY <2>1, <2>2 DEF Shaped, Yieldable
  <2>5. Unit(Top, current) = 0 /\ Unit(a, current) = 1
    BY <1>4, <2>1, <2>2 DEF Unit, Blocks, Yieldable
  <2>6. nny' = [nny EXCEPT ![current] = @ - Unit(Top, current) + Unit(a, current)]
    <3>1. nny[current] + 1 = nny[current] - Unit(Top, current) + Unit(a, current)
      BY <1>2, <2>5
    <3>2. nny' = [nny EXCEPT ![current] = @ + 1]
      BY <1>17 DEF CallHandler
    <3> QED BY <3>1, <3>2
  <2>7. Retops(a)
    BY <1>1, <1>17, <2>2, <2>3, <2>4, <2>6 DEF Retops, CallHandler
  <2> QED BY <2>7 DEF StepKinds
<1> QED BY <1>10, <1>11, <1>12, <1>13, <1>14, <1>15, <1>16, <1>17

\* Every step is of one of these kinds.
LEMMA AllKinds ==
    ASSUME CoInv, [Next]_vars PROVE StepKinds
<1>1. CASE UNCHANGED vars
  BY <1>1 DEF vars, StepKinds, Stays
<1>2. CASE Exit
  BY <1>1, <1>2 DEF Exit
<1> QED BY <1>1, <1>2, CallKinds, ResumeKinds, UnwindKinds DEF Next

-----------------------------------------------------------------------------
(* Types *)

\* The frames that calls push are frames.
LEMMA NewFrames ==
    /\ \A fn \in Yieldable \cup Resumers \cup {"sort", "error", "yield"} :
          Frame("capi", fn) \in FrameSet
    /\ Frame("lua", "lua") \in FrameSet /\ LuaFrame \in FrameSet
  BY DEF Frame, FrameSet, LuaFrame, Yieldable, Resumers

\* Frames, counters, status and mode stay in their types.
LEMMA OtherTypes ==
    ASSUME CoInv, [Next]_vars
    PROVE  /\ status' \in [Thread -> {"Fresh", "Running", "Suspended", "Dead"}]
           /\ frames' \in [Thread -> Seq(FrameSet)]
           /\ nCcalls' \in [Thread -> Nat]
           /\ mode' \in {"run", "ok", "yield", "throw"}
<1> DEFINE Frames == [Thread -> Seq(FrameSet)]
           Statuses == [Thread -> {"Fresh", "Running", "Suspended", "Dead"}]
           Counters == [Thread -> Nat]
           Modes == {"run", "ok", "yield", "throw"}
<1>1. /\ current \in Thread /\ status \in Statuses /\ frames \in Frames
      /\ nCcalls \in Counters /\ mode \in Modes
  BY DEF CoInv, TypeOK
<1>2. \A fn \in Yieldable \cup Resumers \cup {"sort", "error", "yield"} :
         Frame("capi", fn) \in FrameSet
  BY NewFrames
<1>3. Frame("lua", "lua") \in FrameSet /\ LuaFrame \in FrameSet
  BY NewFrames
<1> HIDE DEF Frames, Statuses, Counters
<1>4. \A t \in Thread, s \in Seq(FrameSet), f \in Frames : [f EXCEPT ![t] = s] \in Frames
  BY DEF Frames
<1>5. \A f \in Frames, t \in Thread : f[t] \in Seq(FrameSet)
  BY DEF Frames
<1>6. \A s \in Seq(FrameSet), f \in FrameSet : Pushed(s, f) \in Seq(FrameSet)
  BY FrameOps
<1>7. \A s \in Seq(FrameSet) : /\ Returned(s) \in Seq(FrameSet) /\ Front(s) \in Seq(FrameSet)
                               /\ Resumed(s) \in Seq(FrameSet)
  BY FrameOps
<1>8. \A s \in Seq(FrameSet), n \in Nat : Cut(s, n) \in Seq(FrameSet) /\ Delivered(s, n) \in Seq(FrameSet)
  BY FrameOps
<1>9. Less(0) \in Nat /\ \A n \in Nat : Less(n) \in Nat
  BY DEF Less
<1>10. /\ \A t \in Thread : nCcalls[t] \in Nat
       /\ \A c \in Counters, t \in Thread, n \in Nat : [c EXCEPT ![t] = n] \in Counters
  BY <1>1 DEF Counters
<1>11. /\ Deeper \in Counters /\ Shallower \in Counters
       /\ \A co \in Thread : [Deeper EXCEPT ![co] = Inherited] \in Counters
       /\ \A t, u \in Thread : [[nCcalls EXCEPT ![t] = Less(@)] EXCEPT ![u] = Less(@)] \in Counters
  <2>1. Deeper \in Counters
    BY <1>1, <1>10 DEF Deeper
  <2>2. Shallower \in Counters
    BY <1>1, <1>9, <1>10 DEF Shallower
  <2>3. Inherited \in Nat
    BY <1>1, <1>10 DEF Inherited
  <2>4. ASSUME NEW t \in Thread, NEW u \in Thread
        PROVE  [[nCcalls EXCEPT ![t] = Less(@)] EXCEPT ![u] = Less(@)] \in Counters
    <3> DEFINE c == [nCcalls EXCEPT ![t] = Less(@)]
    <3>1. c \in Counters
      BY <1>1, <1>9, <1>10
    <3>2. c[u] \in Nat
      BY <3>1 DEF Counters
    <3> HIDE DEF c
    <3>3. [c EXCEPT ![u] = Less(@)] \in Counters
      BY <1>9, <1>10, <3>1, <3>2
    <3> QED BY <3>3 DEF c
  <2> QED BY <1>10, <2>1, <2>2, <2>3, <2>4
<1>12. \A s \in Statuses, t \in Thread, v \in {"Fresh", "Running", "Suspended", "Dead"} :
          [s EXCEPT ![t] = v] \in Statuses
  BY DEF Statuses
<1>13. native # <<>> => Top.th \in Thread /\ Top.co \in Thread /\ Top.depth \in Nat
  BY TopOwned DEF Activation
<1>14. \A b : Landed(b) \in Modes
  BY DEF Landed
<1>15. nCcalls' \in Counters /\ status' \in Statuses
  <2>1. StepKinds
    BY AllKinds
  <2>2. CASE Stays
    BY <1>1, <1>11, <2>2 DEF Stays, CallOverflow
  <2>3. CASE Yields
    BY <1>1, <1>12, <2>3 DEF Yields
  <2>4. CASE Pops
    BY <1>1, <1>11, <2>4 DEF Pops
  <2>5. CASE Leaves
    BY <1>1, <1>11, <1>12, <1>13, <2>5 DEF Leaves
  <2>6. ASSUME NEW a, Pushes(a) PROVE nCcalls' \in Counters /\ status' \in Statuses
    <3>1. nCcalls' = nCcalls \/ nCcalls' = Deeper
      BY <1>1, <2>6 DEF Pushes, Deeper, Counters
    <3> QED BY <1>1, <1>11, <2>6, <3>1 DEF Pushes
  <2>7. ASSUME NEW a, Enters(a) PROVE nCcalls' \in Counters /\ status' \in Statuses
    <3>1. a.co \in Thread
      BY <2>7 DEF Enters, Activation
    <3> QED BY <1>1, <1>11, <1>12, <2>7, <3>1 DEF Enters
  <2>8. ASSUME NEW a, Retops(a) PROVE nCcalls' \in Counters /\ status' \in Statuses
    BY <1>1, <2>8 DEF Retops
  <2> QED BY <2>1, <2>2, <2>3, <2>4, <2>5, <2>6, <2>7, <2>8 DEF StepKinds
<1>16. frames' \in Frames /\ mode' \in Modes
  <2>1. \A fn \in Yieldable \cup Resumers \cup {"sort", "error", "yield"} :
           [frames EXCEPT ![current] = Pushed(@, Frame("capi", fn))] \in Frames
    BY <1>1, <1>2, <1>4, <1>5, <1>6
  <2>2. \A fn \in Yieldable \cup Resumers \cup {"sort", "error", "yield"} :
           ThrownBy(fn) => frames' \in Frames /\ mode' \in Modes
    BY <1>1, <2>1 DEF ThrownBy
  <2>3. CASE CallLua
    BY <1>1, <1>3, <1>4, <1>5, <1>6, <2>3 DEF CallLua
  <2>4. CASE CallClosure
    BY <1>1, <1>3, <1>4, <1>5, <1>6, <2>4 DEF CallClosure
  <2>5. CASE CallOverflow
    BY <1>1, <2>5 DEF CallOverflow
  <2>6. CASE ReturnLua
    BY <1>1, <1>4, <1>5, <1>7, <2>6 DEF ReturnLua
  <2>7. CASE LeaveInterp
    BY <1>1, <1>14, <2>7 DEF LeaveInterp
  <2>8. ASSUME NEW fn \in {"pcall"} \cup (Features \cap {"xpcall", "dofile", "sort"}), CallC(fn)
        PROVE  frames' \in Frames /\ mode' \in Modes
    BY <1>1, <2>1, <2>8 DEF CallC, Yieldable
  <2>9. CASE CallError
    BY <2>2, <2>9 DEF CallError
  <2>10. CASE LuaError
    BY <1>1, <2>10 DEF LuaError
  <2>11. CASE CallYield
    BY <1>1, <2>1, <2>2, <2>11 DEF CallYield
  <2>12. ASSUME NEW fn \in {"resume"} \cup (Features \cap {"wrap"}), NEW co \in Co, CallResume(fn, co)
         PROVE  frames' \in Frames /\ mode' \in Modes
    <3> DEFINE caller == [frames EXCEPT ![current] = Pushed(@, Frame("capi", fn))]
    <3>1. caller \in Frames /\ co \in Thread
      BY <2>1 DEF Resumers, Thread
    <3>2. frames' = [caller EXCEPT ![co] = <<>>] \/ frames' = [caller EXCEPT ![co] = Resumed(@)]
      BY <2>12 DEF CallResume
    <3> HIDE DEF caller
    <3>3. <<>> \in Seq(FrameSet) /\ caller[co] \in Seq(FrameSet)
      BY <1>5, <3>1, EmptySeq
    <3>4. Resumed(caller[co]) \in Seq(FrameSet)
      BY <1>7, <3>3
    <3> QED BY <1>1, <1>4, <2>12, <3>1, <3>2, <3>3, <3>4 DEF CallResume
  <2>13. ASSUME NEW co \in Co, RefuseWrap(co) PROVE frames' \in Frames /\ mode' \in Modes
    BY <2>2, <2>13 DEF RefuseWrap, Resumers
  <2>14. CASE FinishContinue
    BY <1>1, <1>4, <1>5, <1>7, <2>14 DEF FinishContinue
  <2>15. CASE RunResumed
    BY <1>1, <2>15 DEF RunResumed
  <2>16. CASE ResumeGoesOn
    BY <1>1, <1>4, <1>5, <1>8, <1>13, <2>16 DEF ResumeGoesOn, InResume
  <2>17. ASSUME NEW ok \in BOOLEAN, native # <<>>, Resumer(ok) PROVE frames' \in Frames /\ mode' \in Modes
    BY <1>1, <1>4, <1>5, <1>7, <1>13, <1>14, <2>17 DEF Resumer
  <2>18. CASE ResumeEnds \/ ResumeYields \/ ResumeFails
    BY <2>17, <2>18 DEF ResumeEnds, ResumeYields, ResumeFails, InResume
  <2>19. CASE ResumeRecovers
    <3> DEFINE s == frames[Top.co]  i == Innermost(s)
    <3>1. s \in Seq(FrameSet) /\ Top.co \in Thread
      BY <1>1, <1>5, <1>13, <2>19 DEF ResumeRecovers, InResume
    <3>2. frames' = [frames EXCEPT ![Top.co] = Cut(s, i - 1)] \/ frames' = [frames EXCEPT ![Top.co] = Returned(Cut(s, i))]
      BY <2>19 DEF ResumeRecovers
    <3>3. i \in Nat /\ i - 1 \in Nat
      <4>1. Continues(s) # {} /\ Continues(s) \subseteq 1..Len(s) /\ Len(s) \in Nat
        BY <2>19, <3>1 DEF ResumeRecovers, Recovers, Continues
      <4> HIDE DEF s
      <4>2. i \in Continues(s)
        BY <4>1, InnermostExists
      <4> HIDE DEF i
      <4> QED BY <4>1, <4>2
    <3> HIDE DEF s, i
    <3>4. Cut(s, i - 1) \in Seq(FrameSet) /\ Returned(Cut(s, i)) \in Seq(FrameSet)
      BY <1>7, <1>8, <3>1, <3>3
    <3> QED BY <1>1, <1>4, <2>19, <3>1, <3>2, <3>4 DEF ResumeRecovers
  <2>20. CASE HandlerFails
    BY <1>1, <1>4, <1>5, <1>8, <1>13, <2>20 DEF HandlerFails, InResume
  <2>21. CASE ReturnC
    BY <1>1, <1>4, <1>5, <1>7, <1>14, <2>21 DEF ReturnC
  <2>22. CASE YieldC
    <3> DEFINE s == frames[current]  d == Top.depth
    <3>1. s \in Seq(FrameSet) /\ d \in Nat
      BY <1>1, <1>5, <1>13, <2>22 DEF YieldC, InC
    <3>2. frames' = [frames EXCEPT ![current] = [s EXCEPT ![d].kind = "continue"]]
      BY <2>22 DEF YieldC
    <3>3. [s EXCEPT ![d].kind = "continue"] \in Seq(FrameSet)
      <4>1. CASE d \in DOMAIN s
        <5> DEFINE f == [s[d] EXCEPT !.kind = "continue"]
        <5>1. s[d] \in FrameSet
          BY <3>1, <4>1
        <5> HIDE DEF s, d
        <5>2. f \in FrameSet
          BY <5>1 DEF FrameSet
        <5> HIDE DEF f
        <5>3. [s EXCEPT ![d] = f] \in Seq(FrameSet)
          BY <3>1, <4>1, <5>2, ExceptSeq
        <5> QED BY <5>3 DEF f
      <4>2. CASE d \notin DOMAIN s
        <5>1. [s EXCEPT ![d].kind = "continue"] = s
          BY <3>1, <4>2
        <5> QED BY <3>1, <5>1
      <4> QED BY <4>1, <4>2
    <3> DEFINE g == [s EXCEPT ![d].kind = "continue"]
    <3>4. g \in Seq(FrameSet) /\ frames' = [frames EXCEPT ![current] = g] /\ mode' = mode
      BY <2>22, <3>2, <3>3 DEF YieldC
    <3> HIDE DEF g
    <3> QED BY <1>1, <1>4, <3>4
  <2>23. CASE YieldInterp
    BY <1>1, <2>23 DEF YieldInterp
  <2>24. CASE ThrowInterp
    BY <1>1, <2>24 DEF ThrowInterp
  <2>25. CASE ThrowC
    BY <1>1, <1>4, <1>5, <1>7, <2>25 DEF ThrowC
  <2>26. CASE CatchC
    BY <1>1, <1>4, <1>5, <1>7, <1>8, <1>13, <1>14, <2>26 DEF CatchC, InC
  <2>27. CASE CallHandler
    BY <1>1, <1>4, <1>5, <1>8, <1>13, <2>27 DEF CallHandler, InC
  <2>28. CASE Exit \/ UNCHANGED vars
    BY <1>1, <2>28 DEF Exit, vars
  <2> QED BY <2>3, <2>4, <2>5, <2>6, <2>7, <2>8, <2>9, <2>10, <2>11, <2>12, <2>13, <2>14, <2>15,
             <2>16, <2>18, <2>19, <2>20, <2>21, <2>22, <2>23, <2>24, <2>25, <2>26, <2>27, <2>28
             DEF Next
<1> QED BY <1>15, <1>16 DEF Frames, Statuses, Counters

-----------------------------------------------------------------------------
(* The invariant is kept *)

\* What is below the innermost activation.
LEMMA FrontSame ==
    ASSUME NEW S, NEW s \in Seq(S), NEW a \in S
    PROVE  /\ Front(Append(s, a)) = s
           /\ s # <<>> => Front([s EXCEPT ![Len(s)] = a]) = Front(s)
<1>1. Front(Append(s, a)) = s
  <2> DEFINE g == Append(s, a)
  <2>1. /\ g \in Seq(S) /\ g # <<>> /\ Len(s) \in Nat /\ Len(g) = Len(s) + 1
        /\ \A i \in 1..Len(s) : g[i] = s[i]
    BY AppendFacts
  <2> HIDE DEF g
  <2>2. /\ Front(g) \in Seq(S) /\ Len(Front(g)) = Len(g) - 1
        /\ \A i \in 1..(Len(g) - 1) : Front(g)[i] = g[i]
    BY <2>1, FrontFacts
  <2>3. Len(Front(g)) = Len(s) /\ \A i \in 1..Len(s) : Front(g)[i] = s[i]
    BY <2>1, <2>2
  <2>4. Front(g) = s
    BY <2>2, <2>3, SeqEqual
  <2> QED BY <2>4 DEF g
<1>2. ASSUME s # <<>> PROVE Front([s EXCEPT ![Len(s)] = a]) = Front(s)
  <2> DEFINE g == [s EXCEPT ![Len(s)] = a]
  <2>1. /\ g \in Seq(S) /\ g # <<>> /\ Len(g) = Len(s)
        /\ \A i \in 1..(Len(s) - 1) : g[i] = s[i]
    BY <1>2, RetopFacts
  <2> HIDE DEF g
  <2>2. /\ Front(g) \in Seq(S) /\ Len(Front(g)) = Len(g) - 1
        /\ \A i \in 1..(Len(g) - 1) : Front(g)[i] = g[i]
    BY <2>1, FrontFacts
  <2>3. /\ Front(s) \in Seq(S) /\ Len(Front(s)) = Len(s) - 1
        /\ \A i \in 1..(Len(s) - 1) : Front(s)[i] = s[i]
    BY <1>2, FrontFacts
  <2>4. Len(Front(g)) = Len(Front(s)) /\ \A i \in 1..Len(Front(g)) : Front(g)[i] = Front(s)[i]
    BY <2>1, <2>2, <2>3
  <2>5. Front(g) = Front(s)
    BY <2>2, <2>3, <2>4, SeqEqual
  <2> QED BY <2>5 DEF g
<1> QED BY <1>1, <1>2

\* The C++ stack with a new activation ...
LEMMA PushFacts ==
    ASSUME native \in Seq(Activation), NEW a \in Activation, native' = Append(native, a)
    PROVE  /\ native' \in Seq(Activation) /\ native' # <<>> /\ Last(native') = a
           /\ Front(native') = native
           /\ Len(native) \in Nat /\ Len(native') = Len(native) + 1
           /\ \A i \in 1..Len(native) : native'[i] = native[i]
           /\ native'[Len(native) + 1] = a
<1>1. /\ native' \in Seq(Activation) /\ native' # <<>>
      /\ Len(native) \in Nat /\ Len(native') = Len(native) + 1
      /\ \A i \in 1..Len(native) : native'[i] = native[i]
  BY AppendFacts
<1>2. native'[Len(native) + 1] = a
  BY AppendProperties
<1>3. Last(native') = a
  BY <1>1, <1>2 DEF Last
<1>4. Front(native') = native
  BY FrontSame
<1> QED BY <1>1, <1>2, <1>3, <1>4

\* ... and with another innermost one.
LEMMA ChangeFacts ==
    ASSUME native \in Seq(Activation), native # <<>>, NEW a \in Activation,
           native' = [native EXCEPT ![Len(native)] = a]
    PROVE  /\ native' \in Seq(Activation) /\ native' # <<>> /\ Last(native') = a
           /\ Front(native') = Front(native) /\ Last(native) = Top
           /\ Len(native) \in Nat \ {0} /\ Len(native') = Len(native)
           /\ \A i \in 1..(Len(native) - 1) : native'[i] = native[i]
           /\ native'[Len(native)] = a
<1>1. Len(native) \in Nat \ {0} /\ Last(native) = Top
  BY FrontFacts DEF Top
<1>2. /\ native' \in Seq(Activation) /\ native' # <<>> /\ Last(native') = a
      /\ Len(native') = Len(native)
      /\ \A i \in 1..(Len(native) - 1) : native'[i] = native[i]
  BY RetopFacts DEF Last
<1>3. Front(native') = Front(native)
  BY FrontSame
<1> QED BY <1>1, <1>2, <1>3 DEF Last

\* A new activation runs for `current`; the next one will run for the same thread,
\* or for the coroutine that it enters.
LEMMA PushOwned ==
    ASSUME native \in Seq(Activation), NativeOwned, NEW a \in Activation, a.th = current,
           native' = Append(native, a),
           current' = IF a.fn \in Resumers THEN a.co ELSE current
    PROVE  NativeOwned'
<1> DEFINE n == Len(native)
<1>1. /\ n \in Nat /\ native' \in Seq(Activation) /\ Len(native') = n + 1
      /\ \A i \in 1..n : native'[i] = native[i]
      /\ native'[n + 1] = a
  BY AppendFacts, AppendProperties
<1> HIDE DEF n
<1>2. ASSUME NEW i \in 1..(n + 1), NEW t PROVE Owner(native', i, t) <=> Owner(native, i, t)
  <2>1. i \in Nat /\ \A j \in 1..(i - 1) : j \in 1..n
    BY <1>1
  <2>2. \A j \in 1..(i - 1) : native'[j].fn = native[j].fn /\ native'[j].co = native[j].co
    BY <1>1, <2>1
  <2> QED BY <2>1, <2>2, OwnerSame
<1>3. ASSUME NEW i \in 1..(n + 1) PROVE Owner(native', i, native'[i].th)
  <2>1. CASE i = n + 1
    BY <1>1, <1>2, <2>1 DEF NativeOwned, n
  <2>2. CASE i # n + 1
    <3>1. i \in 1..n
      BY <1>1, <2>2
    <3> QED BY <1>1, <1>2, <3>1 DEF NativeOwned, n
  <2> QED BY <2>1, <2>2
<1>4. Owner(native', (n + 1) + 1, current')
  <2>1. Owner(native', n + 1, current) /\ n + 1 \in Nat \ {0}
    BY <1>1, <1>3
  <2>2. CASE a.fn \in Resumers
    BY <1>1, <2>1, <2>2, OwnerStep
  <2>3. CASE a.fn \notin Resumers
    BY <1>1, <2>1, <2>3, OwnerStep
  <2> QED BY <2>2, <2>3
<1> QED BY <1>1, <1>3, <1>4 DEF NativeOwned

\* When the innermost activation ends, the thread it ran for runs.
LEMMA PopOwned ==
    ASSUME native \in Seq(Activation), NativeOwned, native # <<>>,
           native' = Front(native), current' = Top.th
    PROVE  NativeOwned'
<1> DEFINE n == Len(native)
<1>1. /\ n \in Nat \ {0} /\ native' \in Seq(Activation) /\ Len(native') = n - 1
      /\ \A i \in 1..(n - 1) : native'[i] = native[i]
      /\ Top = native[n]
  BY FrontFacts DEF Top, Last
<1> HIDE DEF n
<1>2. ASSUME NEW i \in 1..n, NEW t PROVE Owner(native', i, t) <=> Owner(native, i, t)
  <2>1. i \in Nat /\ \A j \in 1..(i - 1) : j \in 1..(n - 1)
    BY <1>1
  <2>2. \A j \in 1..(i - 1) : native'[j].fn = native[j].fn /\ native'[j].co = native[j].co
    BY <1>1, <2>1
  <2> QED BY <2>1, <2>2, OwnerSame
<1>3. ASSUME NEW i \in 1..(n - 1) PROVE Owner(native', i, native'[i].th)
  <2>1. i \in 1..n
    BY <1>1
  <2> QED BY <1>1, <1>2, <2>1 DEF NativeOwned, n
<1>4. Owner(native', (n - 1) + 1, current')
  <2>1. n \in 1..n /\ (n - 1) + 1 = n
    BY <1>1
  <2>2. Owner(native', n, current')
    BY <1>1, <1>2, <2>1 DEF NativeOwned, n
  <2> QED BY <2>1, <2>2
<1> QED BY <1>1, <1>3, <1>4 DEF NativeOwned

\* Nor does it matter where an activation is.
LEMMA RetopOwned ==
    ASSUME native \in Seq(Activation), NativeOwned, native # <<>>, NEW a \in Activation,
           a.fn = Top.fn, a.th = Top.th, a.co = Top.co,
           native' = [native EXCEPT ![Len(native)] = a], current' = current
    PROVE  NativeOwned'
<1> DEFINE n == Len(native)
<1>1. /\ n \in Nat \ {0} /\ native' \in Seq(Activation) /\ Len(native') = n
      /\ \A i \in 1..(n - 1) : native'[i] = native[i]
      /\ Top = native[n] /\ native'[n] = a
  BY FrontFacts, RetopFacts DEF Top, Last
<1> HIDE DEF n
<1>2. \A i \in 1..n : /\ native'[i].fn = native[i].fn /\ native'[i].co = native[i].co
                      /\ native'[i].th = native[i].th
  BY <1>1
<1>3. ASSUME NEW i \in 1..(n + 1), NEW t PROVE Owner(native', i, t) <=> Owner(native, i, t)
  <2>1. i \in Nat /\ \A j \in 1..(i - 1) : j \in 1..n
    BY <1>1
  <2>2. \A j \in 1..(i - 1) : native'[j].fn = native[j].fn /\ native'[j].co = native[j].co
    BY <1>2, <2>1
  <2> QED BY <2>1, <2>2, OwnerSame
<1>4. n + 1 \in 1..(n + 1) /\ \A i \in 1..n : i \in 1..(n + 1)
  BY <1>1
<1> QED BY <1>1, <1>2, <1>3, <1>4 DEF NativeOwned, n

\* The shapes, owners and counts after each kind of step.
LEMMA NativeKept ==
    ASSUME CoInv, [Next]_vars
    PROVE  /\ native' \in Seq(Activation) /\ current' \in Thread /\ nny' \in [Thread -> Nat]
           /\ \A i \in 1..Len(native') : Shaped(native'[i])
           /\ NativeOwned'
           /\ \A t \in Thread : nny'[t] = Cardinality(Blocking(native', t))
           /\ YieldAllowed'
<1>1. /\ native \in Seq(Activation) /\ current \in Thread /\ nny \in [Thread -> Nat]
      /\ \A i \in 1..Len(native) : Shaped(native[i])
      /\ NativeOwned /\ YieldAllowed /\ Main \notin Co
      /\ \A t \in Thread : nny[t] = Cardinality(Blocking(native, t))
  BY CoroutineAssumption DEF CoInv, TypeOK
<1>2. StepKinds
  BY AllKinds
<1>3. \A a, t : Unit(a, t) \in {0, 1} /\ (a.th # t => Unit(a, t) = 0)
  BY DEF Unit, Blocks
<1> DEFINE Goal == /\ native' \in Seq(Activation) /\ current' \in Thread /\ nny' \in [Thread -> Nat]
                   /\ \A i \in 1..Len(native') : Shaped(native'[i])
                   /\ NativeOwned'
                   /\ \A t \in Thread : nny'[t] = Cardinality(Blocking(native', t))
                   /\ YieldAllowed'
<1>4. ASSUME Stays PROVE Goal
  BY <1>1, <1>4 DEF Stays, NativeOwned, YieldAllowed
<1>5. ASSUME Yields PROVE Goal
  <2>1. current # Main /\ nny[current] = 0
    BY <1>1, <1>5 DEF Yields, CanYield
  <2> QED BY <1>1, <1>5, <2>1 DEF Yields, NativeOwned, YieldAllowed
\* a step that adds an activation
<1>6. ASSUME NEW a \in Activation, Shaped(a), a.th = current, native' = Append(native, a),
             nny' = [nny EXCEPT ![current] = @ + Unit(a, current)],
             current' = IF a.fn \in Resumers THEN a.co ELSE current, mode' = "run"
      PROVE  Goal
  <2>1. /\ native' \in Seq(Activation) /\ native' # <<>> /\ Last(native') = a
        /\ Len(native') = Len(native) + 1 /\ Len(native) \in Nat /\ Front(native') = native
        /\ \A i \in 1..Len(native) : native'[i] = native[i]
    BY <1>1, <1>6, PushFacts
  <2>2. native'[Len(native) + 1] = a
    BY <1>1, <1>6, PushFacts
  <2>3. \A i \in 1..Len(native') : Shaped(native'[i])
    <3> TAKE i \in 1..Len(native')
    <3>1. i \in 1..Len(native) \/ i = Len(native) + 1
      BY <2>1
    <3> QED BY <1>1, <1>6, <2>1, <2>2, <3>1
  <2>4. NativeOwned'
    BY <1>1, <1>6, PushOwned
  <2>5. ASSUME NEW t \in Thread
        PROVE  nny'[t] \in Nat /\ nny'[t] = Cardinality(Blocking(native', t))
    <3>1. /\ Cardinality(Blocking(native, t)) \in Nat
          /\ Cardinality(Blocking(native', t)) = Cardinality(Blocking(native, t)) + Unit(a, t)
      BY <2>1, BlockingCount
    <3>2. nny'[t] = nny[t] + Unit(a, t)
      <4>1. CASE t = current
        BY <1>1, <1>6, <4>1
      <4>2. CASE t # current
        BY <1>1, <1>3, <1>6, <4>2
      <4> QED BY <4>1, <4>2
    <3> QED BY <1>1, <1>3, <3>1, <3>2
  <2>6. nny' \in [Thread -> Nat]
    <3>1. DOMAIN nny' = Thread /\ nny' = [t \in Thread |-> nny'[t]]
      BY <1>1, <1>6
    <3> QED BY <2>5, <3>1
  <2>7. current' \in Thread
    BY <1>1, <1>6 DEF Activation
  <2>8. YieldAllowed'
    BY <1>6 DEF YieldAllowed
  <2> QED BY <2>1, <2>3, <2>4, <2>5, <2>6, <2>7, <2>8
<1>7. ASSUME NEW a, Pushes(a) PROVE Goal
  <2>1. /\ a \in Activation /\ Shaped(a) /\ a.th = current /\ native' = Append(native, a)
        /\ nny' = [nny EXCEPT ![current] = @ + Unit(a, current)] /\ mode' = "run"
        /\ current' = IF a.fn \in Resumers THEN a.co ELSE current
    BY <1>7 DEF Pushes
  <2> QED BY <1>6, <2>1
<1>8. ASSUME NEW a, Enters(a) PROVE Goal
  <2>1. /\ a \in Activation /\ Shaped(a) /\ a.th = current /\ native' = Append(native, a)
        /\ nny' = [nny EXCEPT ![current] = @ + 1] /\ mode' = "run" /\ a.fn \in Resumers
        /\ current' = IF a.fn \in Resumers THEN a.co ELSE current
    BY <1>8 DEF Enters
  <2>2. Unit(a, current) = 1
    BY <2>1 DEF Unit, Blocks, Shaped, Resumers, Yieldable
  <2>3. nny' = [nny EXCEPT ![current] = @ + Unit(a, current)]
    BY <2>1, <2>2
  <2> QED BY <1>6, <2>1, <2>3
\* a step that takes one away
<1>9. ASSUME native # <<>>, native' = Front(native), current' = Top.th,
             nny' = [nny EXCEPT ![Top.th] = @ - Unit(Top, Top.th)], YieldAllowed'
      PROVE  Goal
  <2>1. /\ native' \in Seq(Activation) /\ Len(native') = Len(native) - 1 /\ Len(native) \in Nat \ {0}
        /\ \A i \in 1..(Len(native) - 1) : native'[i] = native[i]
        /\ Top \in Activation
    BY <1>1, <1>9, FrontFacts DEF Top
  <2>2. \A i \in 1..Len(native') : Shaped(native'[i])
    BY <1>1, <2>1
  <2>3. NativeOwned'
    BY <1>1, <1>9, PopOwned
  <2>4. ASSUME NEW t \in Thread
        PROVE  nny'[t] \in Nat /\ nny'[t] = Cardinality(Blocking(native', t))
    <3>1. /\ Cardinality(Blocking(native', t)) \in Nat
          /\ Cardinality(Blocking(native, t)) = Cardinality(Blocking(native', t)) + Unit(Top, t)
      BY <1>1, <1>9, BlockingCount DEF Top
    <3>2. nny'[t] = nny[t] - Unit(Top, t)
      <4>1. CASE t = Top.th
        BY <1>1, <1>9, <4>1
      <4>2. CASE t # Top.th
        BY <1>1, <1>3, <1>9, <4>2
      <4> QED BY <4>1, <4>2
    <3> QED BY <1>1, <1>3, <3>1, <3>2
  <2>5. nny' \in [Thread -> Nat]
    <3>1. DOMAIN nny' = Thread /\ nny' = [t \in Thread |-> nny'[t]]
      BY <1>1, <1>9
    <3> QED BY <2>4, <3>1
  <2>6. Top.th \in Thread
    BY <2>1 DEF Activation
  <2> QED BY <1>9, <2>1, <2>2, <2>3, <2>4, <2>5, <2>6
<1>10. ASSUME Pops PROVE Goal
  <2>1. Top.th = current
    BY <1>10, TopOwned DEF Pops
  <2>2. YieldAllowed'
    <3> SUFFICES ASSUME mode' = "yield" PROVE current' # Main /\ nny'[current'] = 0
      BY DEF YieldAllowed
    <3>1. mode = "yield" /\ current' = current /\ nny[current] = 0 /\ current # Main
      BY <1>1, <1>10 DEF Pops, YieldAllowed
    <3>2. /\ Cardinality(Blocking(Front(native), current)) \in Nat
          /\ nny[current] = Cardinality(Blocking(Front(native), current)) + Unit(Top, current)
      BY <1>1, <1>10, BlockingCount DEF Pops, Top
    <3>3. Unit(Top, current) = 0
      BY <1>3, <3>1, <3>2
    <3>4. nny'[current] = nny[current] - 0
      BY <1>1, <1>10, <3>3 DEF Pops
    <3> QED BY <3>1, <3>4
  <2> QED BY <1>9, <1>10, <2>1, <2>2 DEF Pops
<1>11. ASSUME Leaves PROVE Goal
  <2>1. Unit(Top, Top.th) = 1
    BY <1>11, TopOwned DEF Leaves, Unit, Blocks, Shaped, Resumers, Yieldable
  <2>2. YieldAllowed'
    BY <1>11 DEF Leaves, YieldAllowed
  <2>3. nny' = [nny EXCEPT ![Top.th] = @ - Unit(Top, Top.th)]
    BY <1>11, <2>1 DEF Leaves
  <2> QED BY <1>9, <1>11, <2>2, <2>3 DEF Leaves
\* a step that changes one
<1>12. ASSUME NEW a, Retops(a) PROVE Goal
  <2>1. /\ native # <<>> /\ a \in Activation /\ Shaped(a) /\ native' = [native EXCEPT ![Len(native)] = a]
        /\ a.fn = Top.fn /\ a.th = Top.th /\ a.co = Top.co /\ a.kind = Top.kind
        /\ nny' = [nny EXCEPT ![current] = @ - Unit(Top, current) + Unit(a, current)]
        /\ mode' = "run" /\ current' = current
    BY <1>12 DEF Retops
  <2>2. /\ native' \in Seq(Activation) /\ native' # <<>> /\ Last(native') = a /\ Len(native') = Len(native)
        /\ \A i \in 1..(Len(native) - 1) : native'[i] = native[i]
        /\ Len(native) \in Nat \ {0} /\ Front(native') = Front(native) /\ native'[Len(native)] = a
    BY <1>1, <2>1, ChangeFacts
  <2>3. \A i \in 1..Len(native') : Shaped(native'[i])
    <3> TAKE i \in 1..Len(native')
    <3>1. i \in 1..Len(native) /\ (i \in 1..(Len(native) - 1) \/ i = Len(native))
      BY <2>2
    <3> QED BY <1>1, <2>1, <2>2, <3>1
  <2>4. NativeOwned'
    BY <1>1, <2>1, RetopOwned
  <2>5. ASSUME NEW t \in Thread, t # current PROVE Unit(a, t) = Unit(Top, t)
    <3>1. CASE Top.fn \in Resumers
      BY <2>1, <3>1 DEF Unit, Blocks, Resumers, Yieldable
    <3>2. CASE Top.fn \notin Resumers
      <4>1. Top.th = current
        BY <2>1, <3>2, TopOwned
      <4> QED BY <1>3, <2>1, <2>5, <4>1
    <3> QED BY <3>1, <3>2
  <2>6. ASSUME NEW t \in Thread
        PROVE  nny'[t] \in Nat /\ nny'[t] = Cardinality(Blocking(native', t))
    <3>1. /\ Cardinality(Blocking(Front(native), t)) \in Nat
          /\ Cardinality(Blocking(native, t)) = Cardinality(Blocking(Front(native), t)) + Unit(Top, t)
      BY <1>1, <2>1, BlockingCount DEF Top
    <3>2. Cardinality(Blocking(native', t)) = Cardinality(Blocking(Front(native), t)) + Unit(a, t)
      BY <2>2, BlockingCount
    <3>3. nny'[t] = nny[t] - Unit(Top, t) + Unit(a, t)
      <4>1. CASE t = current
        BY <1>1, <2>1, <4>1
      <4>2. CASE t # current
        BY <1>1, <1>3, <2>1, <2>5, <4>2
      <4> QED BY <4>1, <4>2
    <3> QED BY <1>1, <1>3, <3>1, <3>2, <3>3
  <2>7. nny' \in [Thread -> Nat]
    <3>1. DOMAIN nny' = Thread /\ nny' = [t \in Thread |-> nny'[t]]
      BY <1>1, <2>1
    <3> QED BY <2>6, <3>1
  <2>8. YieldAllowed'
    BY <2>1 DEF YieldAllowed
  <2> QED BY <1>1, <2>1, <2>2, <2>3, <2>4, <2>6, <2>7, <2>8
<1> HIDE DEF Goal
<1>13. Goal
  BY <1>2, <1>4, <1>5, <1>7, <1>8, <1>10, <1>11, <1>12 DEF StepKinds
<1> QED BY <1>13 DEF Goal

\* The invariant holds at first ...
LEMMA CoInit == Init => CoInv
<1> SUFFICES ASSUME Init PROVE CoInv
  OBVIOUS
<1> DEFINE a == native[1]
<1>1. /\ current = Main /\ Main \in Thread /\ mode = "run"
      /\ native = <<Interp("nested", 1)>>
  BY DEF Init, Thread
<1>2. /\ native \in Seq(Activation) /\ Len(native) = 1 /\ DOMAIN native = 1..1
      /\ a.kind = "interp" /\ a.fn = "nested" /\ a.pc = "loop" /\ a.th = Main
  BY <1>1 DEF Interp, Activation
<1>3. status \in [Thread -> {"Fresh", "Running", "Suspended", "Dead"}]
  BY DEF Init
<1>4. frames \in [Thread -> Seq(FrameSet)]
  <2>1. Frame("lua", "lua") \in FrameSet
    BY NewFrames
  <2>2. <<Frame("lua", "lua")>> \in Seq(FrameSet) /\ <<>> \in Seq(FrameSet)
    BY <2>1
  <2> HIDE DEF FrameSet, Frame
  <2> QED BY <2>2 DEF Init
<1>5. nny \in [Thread -> Nat] /\ nCcalls \in [Thread -> Nat]
  BY DEF Init
<1>6. TypeOK
  BY <1>1, <1>2, <1>3, <1>4, <1>5 DEF TypeOK
<1>7. \A i \in 1..Len(native) : i = 1 /\ Shaped(native[i])
  BY <1>2 DEF Shaped
<1>8. NativeOwned
  <2>1. Owner(native, 1, Main)
    BY DEF Owner
  <2>2. Owner(native, 2, Main)
    BY <1>2 DEF Owner, Resumers
  <2> QED BY <1>1, <1>2, <1>7, <2>1, <2>2 DEF NativeOwned
<1>9. ASSUME NEW t \in Thread PROVE nny[t] = Cardinality(Blocking(native, t))
  <2>1. Blocking(native, t) = {}
    BY <1>2, <1>7 DEF Blocking, Blocks
  <2> QED BY <2>1, FS_EmptySet DEF Init
<1> QED BY <1>1, <1>6, <1>7, <1>8, <1>9 DEF CoInv, YieldAllowed

\* ... and after every step.
LEMMA CoStep == CoInv /\ [Next]_vars => CoInv'
<1> SUFFICES ASSUME CoInv, [Next]_vars PROVE CoInv'
  OBVIOUS
<1>1. TypeOK'
  BY NativeKept, OtherTypes DEF TypeOK
<1> QED BY <1>1, NativeKept DEF CoInv

\* The invariant is one of the specification.
LEMMA CoInvariance == Spec => []CoInv
  BY CoInit, CoStep, PTL DEF Spec

-----------------------------------------------------------------------------
(* Theorems *)

\* State, Thread and the C++ stack stay well formed, whatever is called, yields or
\* fails; in particular nny, which run_c_call and co_resume count down, never goes
\* below zero.
THEOREM TypeCorrect == Spec => []TypeOK
<1>1. CoInv => TypeOK
  BY DEF CoInv
<1> QED BY <1>1, CoInvariance, PTL

\* nny is the number of C calls of a thread on the C++ stack that cannot yield,
\* whichever way calls were left (run_c_call, base_pcall, co_resume).
THEOREM NnyCorrect == Spec => []NnyBalanced
<1>1. CoInv => NnyBalanced
  BY DEF CoInv, NnyBalanced, Blocking, Blocks
<1> QED BY <1>1, CoInvariance, PTL

-----------------------------------------------------------------------------
(* The chain of resumes *)

\* thread t has been entered by a resume that is still on the C++ stack
OnChain(s, t) == \E i \in 1..Len(s) : s[i].fn \in Resumers /\ s[i].co = t

\* no coroutine is on the chain twice, and status tells who is
Once(s) ==
    \A i, j \in 1..Len(s) :
        s[i].fn \in Resumers /\ s[j].fn \in Resumers /\ s[i].co = s[j].co => i = j
StatusTells ==
    \A t \in Thread :
        t = Main \/ OnChain(native, t) <=> status[t] = "Running" \/ (mode = "yield" /\ t = current)
ChainInv == Once(native) /\ StatusTells

\* What the innermost activation adds to the chain.
LEMMA ChainTop ==
    ASSUME NEW s \in Seq(Activation), s # <<>>
    PROVE  /\ \A t : OnChain(s, t) <=> \/ OnChain(Front(s), t)
                                       \/ Last(s).fn \in Resumers /\ Last(s).co = t
           /\ Once(s) <=> /\ Once(Front(s))
                          /\ Last(s).fn \in Resumers => ~OnChain(Front(s), Last(s).co)
<1> DEFINE n == Len(s)  g == Front(s)
<1>1. /\ n \in Nat \ {0} /\ Len(g) = n - 1
      /\ \A i \in 1..(n - 1) : g[i] = s[i]
      /\ Last(s) = s[n]
  BY FrontFacts DEF Last
<1> HIDE DEF n, g
<1>2. \A i \in 1..n : i \in 1..(n - 1) \/ i = n
  BY <1>1
<1>3. n \in 1..n /\ n \notin 1..(n - 1) /\ \A i \in 1..(n - 1) : i \in 1..n
  BY <1>1
<1>4. ASSUME NEW t
      PROVE  OnChain(s, t) <=> OnChain(g, t) \/ (Last(s).fn \in Resumers /\ Last(s).co = t)
  <2>1. ASSUME OnChain(s, t) PROVE OnChain(g, t) \/ (Last(s).fn \in Resumers /\ Last(s).co = t)
    <3>1. PICK i \in 1..n : s[i].fn \in Resumers /\ s[i].co = t
      BY <2>1 DEF OnChain, n
    <3> QED BY <1>1, <1>2, <3>1 DEF OnChain
  <2>2. ASSUME OnChain(g, t) PROVE OnChain(s, t)
    <3>1. PICK i \in 1..(n - 1) : g[i].fn \in Resumers /\ g[i].co = t
      BY <1>1, <2>2 DEF OnChain
    <3> QED BY <1>1, <1>3, <3>1 DEF OnChain, n
  <2>3. ASSUME Last(s).fn \in Resumers, Last(s).co = t PROVE OnChain(s, t)
    BY <1>1, <1>3, <2>3 DEF OnChain, n
  <2> QED BY <2>1, <2>2, <2>3
<1>5. ASSUME Once(s) PROVE Once(g)
  BY <1>1, <1>3, <1>5 DEF Once, n
<1>6. ASSUME Once(s), Last(s).fn \in Resumers PROVE ~OnChain(g, Last(s).co)
  BY <1>1, <1>3, <1>6 DEF Once, OnChain, n
<1>7. ASSUME Once(g), Last(s).fn \in Resumers => ~OnChain(g, Last(s).co) PROVE Once(s)
  <2> SUFFICES ASSUME NEW i \in 1..n, NEW j \in 1..n, s[i].fn \in Resumers, s[j].fn \in Resumers,
                      s[i].co = s[j].co
               PROVE  i = j
    BY DEF Once, n
  <2>1. CASE i = n /\ j \in 1..(n - 1)
    BY <1>1, <1>7, <2>1 DEF OnChain
  <2>2. CASE j = n /\ i \in 1..(n - 1)
    BY <1>1, <1>7, <2>2 DEF OnChain
  <2>3. CASE i \in 1..(n - 1) /\ j \in 1..(n - 1)
    BY <1>1, <1>7, <2>3 DEF Once
  <2> QED BY <1>2, <2>1, <2>2, <2>3
<1> QED BY <1>4, <1>5, <1>6, <1>7 DEF g

\* A running coroutine has been entered.
LEMMA CurrentOnChain ==
    ASSUME CoInv, current # Main PROVE OnChain(native, current)
<1>1. Len(native) \in Nat
  BY DEF CoInv, TypeOK
<1>2. (Len(native) + 1) - 1 = Len(native)
  BY <1>1
<1>3. \E j \in 1..Len(native) : native[j].fn \in Resumers /\ native[j].co = current
  BY <1>2 DEF CoInv, NativeOwned, Owner
<1> QED BY <1>3 DEF OnChain

\* A call through __call ignores that its callee has yielded; without one, every
\* step keeps the chain.
LEMMA ChainStep ==
    ASSUME "call" \notin Features, CoInv, ChainInv, [Next]_vars
    PROVE  ChainInv'
<1>1. StepKinds
  BY AllKinds
<1>2. /\ native \in Seq(Activation) /\ current \in Thread /\ Main \notin Co /\ Co \subseteq Thread
      /\ status \in [Thread -> {"Fresh", "Running", "Suspended", "Dead"}]
  BY CoroutineAssumption DEF CoInv, TypeOK, Thread
<1>3. Once(native) /\ StatusTells
  BY DEF ChainInv
<1>4. CASE Stays
  BY <1>3, <1>4 DEF Stays, ChainInv, StatusTells
<1>5. CASE Yields
  <2>1. OnChain(native, current) /\ current # Main
    BY <1>5, CurrentOnChain DEF Yields, CanYield
  <2> QED BY <1>2, <1>3, <1>5, <2>1 DEF Yields, ChainInv, StatusTells
<1>6. ASSUME NEW a, Pushes(a) PROVE ChainInv'
  <2>1. /\ native' \in Seq(Activation) /\ native' # <<>> /\ Last(native') = a /\ Front(native') = native
        /\ a.fn \notin Resumers
    BY <1>2, <1>6, PushFacts DEF Pushes
  <2>2. Once(native') /\ \A t : OnChain(native', t) <=> OnChain(native, t)
    BY <1>3, <2>1, ChainTop
  <2>3. status' = status /\ mode = "run" /\ mode' = "run"
    BY <1>6 DEF Pushes
  <2> QED BY <1>3, <2>2, <2>3 DEF ChainInv, StatusTells
<1>7. ASSUME NEW a, Enters(a) PROVE ChainInv'
  <2>1. /\ native' \in Seq(Activation) /\ native' # <<>> /\ Last(native') = a /\ Front(native') = native
        /\ a.fn \in Resumers
    BY <1>2, <1>7, PushFacts DEF Enters
  <2>2. a.co \in Co
    BY <1>7 DEF Enters, Shaped, Resumers, Yieldable
  <2>3. /\ status' = [status EXCEPT ![a.co] = "Running"] /\ mode = "run" /\ mode' = "run"
        /\ status[a.co] # "Running"
    BY <1>7 DEF Enters, Resumable
  <2>4. ~OnChain(native, a.co)
    BY <1>2, <1>3, <2>2, <2>3 DEF StatusTells
  <2>5. Once(native') /\ \A t : OnChain(native', t) <=> OnChain(native, t) \/ t = a.co
    BY <1>3, <2>1, <2>4, ChainTop
  <2> QED BY <1>2, <1>3, <2>2, <2>3, <2>5 DEF ChainInv, StatusTells
<1>8. CASE Pops
  <2>1. Once(native') /\ \A t : OnChain(native', t) <=> OnChain(native, t)
    BY <1>2, <1>3, <1>8, ChainTop DEF Pops, Top
  <2>2. status' = status /\ current' = current /\ (mode' = "yield" <=> mode = "yield")
    BY <1>8 DEF Pops
  <2> QED BY <1>3, <2>1, <2>2 DEF ChainInv, StatusTells
<1>9. CASE Leaves
  <2>1. /\ native # <<>> /\ native' = Front(native) /\ Last(native) = Top /\ Top.fn \in Resumers
        /\ mode' # "yield"
    BY <1>9 DEF Leaves, Top
  <2>2. Top.co = current /\ current \in Co
    BY <2>1, TopOwned
  <2>3. /\ Once(native') /\ ~OnChain(native', current)
        /\ \A t : OnChain(native, t) <=> OnChain(native', t) \/ t = current
    BY <1>2, <1>3, <2>1, <2>2, ChainTop
  <2>4. /\ status'[current] # "Running"
        /\ \A t \in Thread : t # current => status'[t] = status[t]
    BY <1>2, <1>9, <2>2 DEF Leaves
  <2>5. current # Main
    BY <1>2, <2>2
  <2> QED BY <1>2, <1>3, <2>1, <2>3, <2>4, <2>5 DEF ChainInv, StatusTells
<1>10. ASSUME NEW a, Retops(a) PROVE ChainInv'
  <2>1. /\ native # <<>> /\ a \in Activation /\ native' = [native EXCEPT ![Len(native)] = a]
        /\ a.fn = Top.fn /\ a.co = Top.co /\ mode # "yield" /\ mode' = "run" /\ status' = status
    BY <1>10 DEF Retops
  <2>2. /\ native' \in Seq(Activation) /\ native' # <<>> /\ Last(native') = a
        /\ Front(native') = Front(native) /\ Last(native) = Top
    BY <1>2, <2>1, ChangeFacts
  <2>3. Once(native') /\ \A t : OnChain(native', t) <=> OnChain(native, t)
    <3>1. /\ \A t : OnChain(native', t) <=> OnChain(Front(native), t) \/ (a.fn \in Resumers /\ a.co = t)
          /\ Once(native') <=> /\ Once(Front(native))
                               /\ a.fn \in Resumers => ~OnChain(Front(native), a.co)
      BY <2>2, ChainTop
    <3>2. /\ \A t : OnChain(native, t) <=> OnChain(Front(native), t) \/ (Top.fn \in Resumers /\ Top.co = t)
          /\ Once(native) <=> /\ Once(Front(native))
                              /\ Top.fn \in Resumers => ~OnChain(Front(native), Top.co)
      BY <1>2, <2>1, <2>2, ChainTop
    <3> QED BY <1>3, <2>1, <3>1, <3>2
  <2> QED BY <1>3, <2>1, <2>3 DEF ChainInv, StatusTells
<1> QED BY <1>1, <1>4, <1>5, <1>6, <1>7, <1>8, <1>9, <1>10 DEF StepKinds

\* It holds at first.
LEMMA ChainInit == Init => ChainInv
<1> SUFFICES ASSUME Init PROVE ChainInv
  OBVIOUS
<1>1. \A i \in 1..Len(native) : native[i].fn \notin Resumers
  BY DEF Init, Interp, Resumers
<1>2. Once(native) /\ \A t : ~OnChain(native, t)
  BY <1>1 DEF Once, OnChain
<1>3. \A t \in Thread : (t = Main <=> status[t] = "Running") /\ mode = "run"
  BY DEF Init
<1> QED BY <1>2, <1>3 DEF ChainInv, StatusTells

\* It says what coroutine.status should say.
LEMMA ChainMeans ==
    CoInv /\ ChainInv => StatusMatchesChain
<1> SUFFICES ASSUME CoInv, ChainInv PROVE StatusMatchesChain
  OBVIOUS
<1> DEFINE n == Len(native)
<1>1. n \in Nat /\ DOMAIN native = 1..n /\ Main \notin Co
  BY CoroutineAssumption DEF CoInv, TypeOK
<1>2. Resumes = {i \in 1..n : native[i].fn \in Resumers}
  BY <1>1 DEF Resumes
<1>3. \A i \in Resumes : native[i].co \in Co
  BY <1>2 DEF CoInv, Shaped, Resumers, Yieldable
<1>4. current = IF Resumes = {} THEN Main ELSE native[Max(Resumes)].co
  <2>1. (n + 1) - 1 = n
    BY <1>1
  <2>2. CASE Resumes = {}
    BY <1>2, <2>1, <2>2 DEF CoInv, NativeOwned, Owner
  <2>3. CASE Resumes # {}
    <3> DEFINE m == Max(Resumes)
    <3>1. m \in Resumes /\ \A i \in Resumes : i <= m
      <4>1. Resumes \subseteq Int /\ \A i \in Resumes : i <= n
        BY <1>1, <1>2
      <4>2. n \in Int
        BY <1>1
      <4> HIDE DEF n
      <4> QED BY <2>3, <4>1, <4>2, MaxBounded, Zenon
    <3> HIDE DEF m
    <3>2. \A j \in (m + 1)..n : native[j].fn \notin Resumers
      BY <1>1, <1>2, <3>1
    <3>3. Owner(native, n + 1, native[m].co)
      BY <1>2, <2>1, <3>1, <3>2 DEF Owner
    <3>4. Owner(native, n + 1, current) /\ n + 1 \in Nat
      BY <1>1 DEF CoInv, NativeOwned
    <3>5. current = native[m].co
      BY <3>3, <3>4, OwnerUnique
    <3> QED BY <2>3, <3>5 DEF m
  <2> QED BY <2>2, <2>3
<1>5. \A i, j \in Resumes : native[i].co # Main /\ (native[i].co = native[j].co => i = j)
  BY <1>1, <1>2, <1>3 DEF ChainInv, Once
<1>6. \A t : OnChain(native, t) <=> \E i \in Resumes : native[i].co = t
  BY <1>2 DEF OnChain
<1> QED BY <1>4, <1>5, <1>6 DEF StatusMatchesChain, ChainInv, StatusTells

\* Without calls through __call, which ignore that their callee has yielded, the
\* chain of resumes and the statuses agree: a coroutine is never entered twice
\* (co_resume), and the running one is `current`.
THEOREM ChainCorrect ==
    ASSUME "call" \notin Features
    PROVE  Spec => []StatusMatchesChain
<1>1. Init => CoInv /\ ChainInv
  BY CoInit, ChainInit
<1>2. (CoInv /\ ChainInv) /\ [Next]_vars => (CoInv /\ ChainInv)'
  BY CoStep, ChainStep
<1>3. CoInv /\ ChainInv => StatusMatchesChain
  BY ChainMeans
<1> QED BY <1>1, <1>2, <1>3, PTL DEF Spec

-----------------------------------------------------------------------------
(* The depth of the C++ stack *)

\* what CCallDepth and co_resume count of the first n activations of s: one for
\* each but the interpret() of resume_after_yield, one more for a resume
Depth(s, n) ==
    Cardinality({i \in 1..n : s[i].fn # "drain"})
    + Cardinality({i \in 1..n : s[i].fn \in Resumers})
Weight(a) == IF a.fn = "drain" THEN 0 ELSE IF a.fn \in Resumers THEN 2 ELSE 1

\* every thread on the chain keeps the depth it had, its own resume included
DepthInv ==
    /\ nCcalls[current] = Depth(native, Len(native))
    /\ \A r \in 1..Len(native) :
          native[r].fn \in Resumers => nCcalls[native[r].th] = Depth(native, r - 1) + 1

\* The depth grows by the weight of each activation.
LEMMA DepthGrows ==
    ASSUME NEW s, NEW n \in Nat \ {0}
    PROVE  /\ Depth(s, n - 1) \in Nat /\ Depth(s, n) \in Nat
           /\ Depth(s, n) = Depth(s, n - 1) + Weight(s[n])
<1> DEFINE A == {i \in 1..n : s[i].fn # "drain"}  A1 == {i \in 1..(n - 1) : s[i].fn # "drain"}
           B == {i \in 1..n : s[i].fn \in Resumers}  B1 == {i \in 1..(n - 1) : s[i].fn \in Resumers}
<1>1. n - 1 \in Nat /\ n \notin A1 /\ n \notin B1
  OBVIOUS
<1>2. \A i : i \in 1..n <=> i \in 1..(n - 1) \/ i = n
  OBVIOUS
<1>3. /\ IsFiniteSet(A) /\ IsFiniteSet(A1) /\ IsFiniteSet(B) /\ IsFiniteSet(B1)
      /\ Cardinality(A) \in Nat /\ Cardinality(A1) \in Nat /\ Cardinality(B) \in Nat
      /\ Cardinality(B1) \in Nat
  <2>1. A \subseteq 1..n /\ B \subseteq 1..n /\ A1 \subseteq 1..(n - 1) /\ B1 \subseteq 1..(n - 1)
    OBVIOUS
  <2> HIDE DEF A, B, A1, B1
  <2> QED BY <1>1, <2>1, FiniteInterval
<1>4. Cardinality(A) = Cardinality(A1) + (IF s[n].fn # "drain" THEN 1 ELSE 0)
  <2>1. CASE s[n].fn # "drain"
    <3>1. A = A1 \cup {n}
      BY <1>2, <2>1
    <3> HIDE DEF A, A1
    <3> QED BY <1>1, <1>3, <2>1, <3>1, FS_AddElement
  <2>2. CASE s[n].fn = "drain"
    <3>1. A = A1
      BY <1>2, <2>2
    <3> HIDE DEF A, A1
    <3> QED BY <1>3, <2>2, <3>1
  <2> QED BY <2>1, <2>2
<1>5. Cardinality(B) = Cardinality(B1) + (IF s[n].fn \in Resumers THEN 1 ELSE 0)
  <2>1. CASE s[n].fn \in Resumers
    <3>1. B = B1 \cup {n}
      BY <1>2, <2>1
    <3> HIDE DEF B, B1
    <3> QED BY <1>1, <1>3, <2>1, <3>1, FS_AddElement
  <2>2. CASE s[n].fn \notin Resumers
    <3>1. B = B1
      BY <1>2, <2>2
    <3> HIDE DEF B, B1
    <3> QED BY <1>3, <2>2, <3>1
  <2> QED BY <2>1, <2>2
<1>6. /\ Depth(s, n) = Cardinality(A) + Cardinality(B)
      /\ Depth(s, n - 1) = Cardinality(A1) + Cardinality(B1)
  BY DEF Depth
<1>7. "drain" \notin Resumers
  BY DEF Resumers
<1> HIDE DEF A, A1, B, B1
<1> QED BY <1>3, <1>4, <1>5, <1>6, <1>7 DEF Weight

\* It depends on the functions that are active only.
LEMMA DepthSame ==
    ASSUME NEW s, NEW g, NEW n \in Nat, \A i \in 1..n : g[i].fn = s[i].fn
    PROVE  Depth(g, n) = Depth(s, n)
<1>1. {i \in 1..n : g[i].fn # "drain"} = {i \in 1..n : s[i].fn # "drain"}
  OBVIOUS
<1>2. {i \in 1..n : g[i].fn \in Resumers} = {i \in 1..n : s[i].fn \in Resumers}
  OBVIOUS
<1> QED BY <1>1, <1>2 DEF Depth

\* no thread that waits for a resume it has made runs
NoneWaits == \A r \in 1..Len(native) : native[r].fn \in Resumers => native[r].th # current

\* It follows from the chain ...
LEMMA WaitsNotRuns == CoInv /\ ChainInv => NoneWaits
<1> SUFFICES ASSUME CoInv, ChainInv, NEW r \in 1..Len(native), native[r].fn \in Resumers
             PROVE  native[r].th # current
  BY DEF NoneWaits
<1> DEFINE n == Len(native)
<1>1. n \in Nat /\ Main \notin Co /\ (n + 1) - 1 = n
  BY CoroutineAssumption DEF CoInv, TypeOK
<1>2. \A i \in 1..n : native[i].fn \in Resumers => native[i].co \in Co
  BY DEF CoInv, Shaped, Resumers, Yieldable
<1>3. PICK m \in 1..n : /\ native[m].fn \in Resumers /\ native[m].co = current
                        /\ \A j \in (m + 1)..n : native[j].fn \notin Resumers
  BY <1>1 DEF CoInv, NativeOwned, Owner
<1>4. r <= m
  BY <1>1, <1>3
<1>5. Owner(native, r, native[r].th)
  BY DEF CoInv, NativeOwned
<1>6. CASE native[r].th = Main
  BY <1>1, <1>2, <1>3, <1>6
<1>7. CASE native[r].th # Main
  <2>1. PICK j \in 1..(r - 1) : native[j].fn \in Resumers /\ native[j].co = native[r].th
    BY <1>5, <1>7 DEF Owner
  <2>2. j \in 1..n /\ j # m
    BY <1>1, <1>4, <2>1
  <2> QED BY <1>3, <2>1, <2>2 DEF ChainInv, Once
<1> QED BY <1>6, <1>7

\* ... also after a step.
LEMMA WaitsNotRunsNext == CoInv' /\ ChainInv' => NoneWaits'
  BY WaitsNotRuns, PTL

\* Every step but one that exceeds the limit keeps the depth.
LEMMA DepthStep ==
    ASSUME "call" \notin Features, CoInv, ChainInv, DepthInv, [Next]_vars, ~CallOverflow
    PROVE  DepthInv'
<1> DEFINE n == Len(native)
<1>1. StepKinds /\ CoInv' /\ ChainInv'
  BY AllKinds, CoStep, ChainStep
<1>15. NoneWaits /\ NoneWaits'
  BY <1>1, WaitsNotRuns, WaitsNotRunsNext
<1>2. /\ native \in Seq(Activation) /\ current \in Thread /\ n \in Nat
      /\ nCcalls \in [Thread -> Nat] /\ \A t \in Thread : nCcalls[t] \in Nat
      /\ \A i \in 1..n : native[i] \in Activation
      /\ Main \notin Co /\ Co \subseteq Thread
  BY CoroutineAssumption DEF CoInv, TypeOK, Thread
<1>3. \A i \in 1..n : native[i].th \in Thread
  BY <1>2 DEF Activation
<1>4. /\ nCcalls[current] = Depth(native, n)
      /\ \A r \in 1..n : native[r].fn \in Resumers => nCcalls[native[r].th] = Depth(native, r - 1) + 1
  BY DEF DepthInv
<1>5. CASE Stays
  BY <1>4, <1>5 DEF Stays, DepthInv
<1>6. CASE Yields
  BY <1>4, <1>6 DEF Yields, DepthInv
\* a new activation: the threads that wait are not the one that runs
<1>7. ASSUME NEW a \in Activation, native' = Append(native, a),
             nCcalls'[current'] = nCcalls[current] + Weight(a),
             a.fn \in Resumers => a.th = current /\ nCcalls'[current] = nCcalls[current] + 1,
             \A r \in 1..n : native[r].fn \in Resumers => nCcalls'[native[r].th] = nCcalls[native[r].th]
      PROVE  DepthInv'
  <2>1. /\ Len(native') = n + 1 /\ n + 1 \in Nat \ {0} /\ (n + 1) - 1 = n
        /\ \A i \in 1..n : native'[i] = native[i]
        /\ native'[n + 1] = a
    BY <1>2, <1>7, PushFacts
  <2> HIDE DEF n
  <2>2. \A i \in 0..n : Depth(native', i) = Depth(native, i)
    <3> TAKE i \in 0..n
    <3>1. i \in Nat /\ \A j \in 1..i : native'[j].fn = native[j].fn
      BY <1>2, <2>1
    <3> QED BY <3>1, DepthSame
  <2>3. Depth(native', n + 1) = Depth(native', n) + Weight(a)
    BY <2>1, DepthGrows
  <2>4. n \in 0..n /\ \A r \in 1..n : r - 1 \in 0..n
    BY <1>2
  <2>5. nCcalls'[current'] = Depth(native', n + 1)
    BY <1>4, <1>7, <2>2, <2>3, <2>4 DEF n
  <2>6. ASSUME NEW r \in 1..(n + 1), native'[r].fn \in Resumers
        PROVE  nCcalls'[native'[r].th] = Depth(native', r - 1) + 1
    <3>1. CASE r \in 1..n
      BY <1>4, <1>7, <2>1, <2>2, <2>4, <2>6, <3>1 DEF n
    <3>2. CASE r = n + 1
      BY <1>4, <1>7, <2>1, <2>2, <2>4, <2>6, <3>2 DEF n
    <3> QED BY <1>2, <3>1, <3>2
  <2> QED BY <2>1, <2>5, <2>6 DEF DepthInv
<1>8. ASSUME NEW a, Pushes(a) PROVE DepthInv'
  <2>1. /\ nCcalls'[current] = nCcalls[current] + Weight(a) /\ current' = current
        /\ \A t \in Thread : t # current => nCcalls'[t] = nCcalls[t]
    <3>1. current' = current /\ \A t \in Thread : t # current => nCcalls'[t] = nCcalls[t]
      BY <1>2, <1>8 DEF Pushes
    <3>2. CASE a.fn = "drain"
      BY <1>2, <1>8, <3>1, <3>2 DEF Pushes, Weight
    <3>3. CASE a.fn # "drain"
      BY <1>2, <1>8, <3>1, <3>3 DEF Pushes, Weight
    <3> QED BY <3>1, <3>2, <3>3
  <2>2. \A r \in 1..n : native[r].fn \in Resumers => nCcalls'[native[r].th] = nCcalls[native[r].th]
    BY <1>15, <1>3, <2>1 DEF NoneWaits
  <2>3. a \in Activation /\ native' = Append(native, a) /\ a.fn \notin Resumers
    BY <1>8 DEF Pushes
  <2> QED BY <1>7, <2>1, <2>2, <2>3
<1>9. ASSUME NEW a, Enters(a) PROVE DepthInv'
  <2>1. /\ a \in Activation /\ native' = Append(native, a) /\ a.fn \in Resumers /\ a.th = current
        /\ current' = a.co
    BY <1>9 DEF Enters
  <2>2. a.co \in Co /\ a.co \in Thread
    BY <1>2, <1>9 DEF Enters, Shaped, Resumers, Yieldable
  <2>3. a.co # current
    <3>1. status[a.co] # "Running" /\ mode = "run"
      BY <1>9 DEF Enters, Resumable
    <3>2. ~OnChain(native, a.co) /\ a.co # Main
      BY <1>2, <2>2, <3>1 DEF ChainInv, StatusTells
    <3> QED BY <3>2, CurrentOnChain
  <2>4. /\ nCcalls'[a.co] = nCcalls[current] + 2
        /\ nCcalls'[current] = nCcalls[current] + 1
        /\ \A t \in Thread : t # a.co /\ t # current => nCcalls'[t] = nCcalls[t]
    BY <1>2, <1>9, <2>2, <2>3 DEF Enters, Deeper, Inherited
  <2>5. Weight(a) = 2
    BY <2>1 DEF Weight, Resumers
  <2>6. ASSUME NEW r \in 1..n, native[r].fn \in Resumers
        PROVE  nCcalls'[native[r].th] = nCcalls[native[r].th]
    <3>1. native[r].th # current
      BY <1>15, <2>6 DEF NoneWaits
    <3>2. native[r].th # a.co
      <4>1. Len(native') = n + 1 /\ native'[r] = native[r]
        BY <1>2, <2>1, PushFacts
      <4>2. r \in 1..Len(native')
        BY <1>2, <4>1
      <4>3. native'[r].th # current'
        BY <1>15, <2>6, <4>1, <4>2 DEF NoneWaits
      <4> QED BY <2>1, <4>1, <4>3
    <3> QED BY <1>3, <2>4, <3>1, <3>2
  <2> QED BY <1>7, <2>1, <2>4, <2>5, <2>6
\* the innermost activation goes: what it counted is taken back
<1>10. ASSUME native # <<>>, native' = Front(native),
              nCcalls'[current'] = Depth(native, n - 1),
              \A r \in 1..(n - 1) : native[r].fn \in Resumers => nCcalls'[native[r].th] = nCcalls[native[r].th]
       PROVE  DepthInv'
  <2>1. /\ n \in Nat \ {0} /\ Len(native') = n - 1 /\ n - 1 \in Nat
        /\ \A i \in 1..(n - 1) : native'[i] = native[i]
    <3>1. native \in Seq(Activation) /\ native # <<>> /\ native' = Front(native)
      BY <1>2, <1>10
    <3>2. /\ n \in Nat \ {0} /\ Len(native') = n - 1
          /\ \A i \in 1..(n - 1) : native'[i] = native[i]
      BY <3>1, FrontFacts
    <3> QED BY <3>2
  <2> HIDE DEF n
  <2>2. \A i \in 0..(n - 1) : Depth(native', i) = Depth(native, i)
    <3> TAKE i \in 0..(n - 1)
    <3>1. i \in Nat /\ \A j \in 1..i : native'[j].fn = native[j].fn
      BY <2>1
    <3> QED BY <3>1, DepthSame
  <2>3. n - 1 \in 0..(n - 1) /\ \A r \in 1..(n - 1) : r - 1 \in 0..(n - 1) /\ r \in 1..n
    BY <2>1
  <2>4. nCcalls'[current'] = Depth(native', n - 1)
    BY <1>10, <2>2, <2>3 DEF n
  <2>5. ASSUME NEW r \in 1..(n - 1), native'[r].fn \in Resumers
        PROVE  nCcalls'[native'[r].th] = Depth(native', r - 1) + 1
    BY <1>4, <1>10, <2>1, <2>2, <2>3, <2>5 DEF n
  <2> QED BY <2>1, <2>4, <2>5 DEF DepthInv
<1>11. ASSUME native # <<>>
       PROVE  /\ n \in Nat \ {0} /\ Top = native[n] /\ Top \in Activation /\ n \in 1..n
              /\ Depth(native, n - 1) \in Nat
              /\ Depth(native, n) = Depth(native, n - 1) + Weight(Top)
  <2>1. n \in Nat \ {0} /\ Top = native[n] /\ Top \in Activation
    BY <1>2, <1>11, FrontFacts DEF Top, Last
  <2> HIDE DEF n
  <2> QED BY <2>1, DepthGrows
<1>12. CASE Pops
  <2>1. /\ native # <<>> /\ native' = Front(native) /\ current' = current /\ Top.fn \notin Resumers
        /\ nCcalls' = IF Top.fn = "drain" THEN nCcalls ELSE Shallower
    BY <1>12 DEF Pops
  <2>2. \A t \in Thread : t # current => nCcalls'[t] = nCcalls[t]
    BY <1>2, <2>1 DEF Shallower
  <2>3. nCcalls'[current] = Depth(native, n - 1)
    <3>1. CASE Top.fn = "drain"
      BY <1>4, <1>11, <2>1, <3>1 DEF Weight
    <3>2. CASE Top.fn # "drain"
      <4>1. nCcalls[current] = Depth(native, n - 1) + 1
        BY <1>4, <1>11, <2>1, <3>2 DEF Weight
      <4>2. nCcalls'[current] = Less(nCcalls[current])
        BY <1>2, <2>1, <3>2 DEF Shallower
      <4> QED BY <1>11, <2>1, <4>1, <4>2 DEF Less
    <3> QED BY <3>1, <3>2
  <2>4. \A r \in 1..(n - 1) : native[r].fn \in Resumers => nCcalls'[native[r].th] = nCcalls[native[r].th]
    <3>1. \A r \in 1..(n - 1) : r \in 1..n
      BY <1>2
    <3> QED BY <1>15, <1>3, <2>2, <3>1 DEF NoneWaits
  <2> QED BY <1>10, <2>1, <2>3, <2>4
<1>13. CASE Leaves
  <2>1. /\ native # <<>> /\ native' = Front(native) /\ current' = Top.th /\ Top.fn \in Resumers
        /\ nCcalls' = [[nCcalls EXCEPT ![Top.co] = Less(@)] EXCEPT ![Top.th] = Less(@)]
    BY <1>13 DEF Leaves
  <2>2. Top.co = current /\ Top.th # current /\ Top.th \in Thread
    BY <1>15, <1>3, <1>11, <2>1, TopOwned DEF NoneWaits
  <2>3. /\ nCcalls'[Top.th] = Less(nCcalls[Top.th])
        /\ \A t \in Thread : t # current /\ t # Top.th => nCcalls'[t] = nCcalls[t]
    BY <1>2, <2>1, <2>2
  <2>4. nCcalls'[current'] = Depth(native, n - 1)
    <3>1. nCcalls[Top.th] = Depth(native, n - 1) + 1
      BY <1>4, <1>11, <2>1
    <3> QED BY <1>11, <2>1, <2>3, <3>1 DEF Less
  <2>5. ASSUME NEW r \in 1..(n - 1), native[r].fn \in Resumers
        PROVE  nCcalls'[native[r].th] = nCcalls[native[r].th]
    <3>1. r \in 1..n
      BY <1>2
    <3>2. native[r].th # current
      BY <1>15, <2>5, <3>1 DEF NoneWaits
    <3>3. native[r].th # Top.th
      <4>1. Len(native') = n - 1 /\ native'[r] = native[r]
        BY <1>2, <2>1, FrontFacts
      <4> QED BY <1>15, <2>1, <2>5, <4>1 DEF NoneWaits
    <3> QED BY <1>3, <2>3, <3>1, <3>2, <3>3
  <2> QED BY <1>10, <2>1, <2>4, <2>5
<1>14. ASSUME NEW a, Retops(a) PROVE DepthInv'
  <2>1. /\ native # <<>> /\ a \in Activation /\ native' = [native EXCEPT ![Len(native)] = a]
        /\ a.fn = Top.fn /\ a.th = Top.th /\ nCcalls' = nCcalls /\ current' = current
    BY <1>14 DEF Retops
  <2>2. /\ Len(native') = n /\ n \in Nat \ {0} /\ native'[n] = a
        /\ \A i \in 1..(n - 1) : native'[i] = native[i]
    BY <1>2, <2>1, ChangeFacts
  <2>3. Top = native[n]
    BY <1>11, <2>1
  <2> HIDE DEF n
  <2>4. \A i \in 1..n : native'[i].fn = native[i].fn /\ native'[i].th = native[i].th
    BY <2>1, <2>2, <2>3
  <2>5. \A i \in 0..n : Depth(native', i) = Depth(native, i)
    <3> TAKE i \in 0..n
    <3>1. i \in Nat /\ \A j \in 1..i : native'[j].fn = native[j].fn
      BY <2>2, <2>4
    <3> QED BY <3>1, DepthSame
  <2>6. n \in 0..n /\ \A r \in 1..n : r - 1 \in 0..n
    BY <2>2
  <2> QED BY <1>4, <2>1, <2>2, <2>4, <2>5, <2>6 DEF DepthInv, n
<1> QED BY <1>1, <1>5, <1>6, <1>8, <1>9, <1>12, <1>13, <1>14 DEF StepKinds

\* It is right at first.
LEMMA DepthInit == Init => DepthInv
<1> SUFFICES ASSUME Init PROVE DepthInv
  OBVIOUS
<1>1. Len(native) = 1 /\ native[1].fn = "nested" /\ nCcalls[current] = 1
  BY DEF Init, Interp, Thread
<1>2. {i \in 1..1 : native[i].fn # "drain"} = {1} /\ {i \in 1..1 : native[i].fn \in Resumers} = {}
  BY <1>1 DEF Resumers
<1>3. Cardinality({1}) = 1 /\ Cardinality({}) = 0
  BY FS_Singleton, FS_EmptySet
<1>4. Depth(native, 1) = 1
  BY <1>2, <1>3 DEF Depth
<1> QED BY <1>1, <1>4 DEF DepthInv, Resumers

\* Without calls through __call, nCcalls of the running thread is the depth of the
\* C++ stack (CCallDepth, co_resume) until the depth limit is met: CCallDepth's
\* constructor counts before it throws, and then nothing counts down.
THEOREM DepthCorrect ==
    ASSUME "call" \notin Features
    PROVE  Spec /\ [][~CallOverflow]_vars => []DepthCounted
<1> DEFINE Inv == CoInv /\ ChainInv /\ DepthInv
<1>1. Init => Inv
  BY CoInit, ChainInit, DepthInit
<1>2. Inv /\ [Next]_vars /\ [~CallOverflow]_vars => Inv'
  <2> SUFFICES ASSUME Inv, [Next]_vars, [~CallOverflow]_vars PROVE Inv'
    OBVIOUS
  <2>1. CASE UNCHANGED vars
    BY <2>1 DEF vars, CoInv, TypeOK, NativeOwned, YieldAllowed, ChainInv, StatusTells, DepthInv
  <2>2. CASE ~CallOverflow
    BY <2>2, CoStep, ChainStep, DepthStep
  <2> QED BY <2>1, <2>2
<1>3. Inv => DepthCounted
  <2> SUFFICES ASSUME Inv PROVE DepthCounted
    OBVIOUS
  <2>1. DOMAIN native = 1..Len(native)
    BY DEF CoInv, TypeOK
  <2> QED BY <2>1 DEF DepthInv, Depth, DepthCounted
<1> QED BY <1>1, <1>2, <1>3, PTL DEF Spec
=============================================================================
