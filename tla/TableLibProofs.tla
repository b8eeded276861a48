--------------------------- MODULE TableLibProofs ---------------------------
(***************************************************************************)
(* Proofs about the table library of module TableLib, for every integer    *)
(* width, every table and every comparison function.                       *)
(***************************************************************************)
EXTENDS TableLib, ProofFacts

-----------------------------------------------------------------------------
(* The calls there are *)

Scripts == CopyScripts \cup ReadScripts \cup SortScripts

\* a copying call, whose positions are integers where it copies anything
CopyCalls ==
    [op : {"copy"}, script : CopyScripts, n : Nat, first : Int, at : Int, backwards : BOOLEAN,
     done : Nat, then : {<<>>} \cup (Ints \X Int), result : Int]
CopyInts(c) ==
    /\ c.done <= c.n
    /\ c.n > 0 => /\ c.first \in Ints /\ c.first + c.n - 1 \in Ints
                  /\ c.at \in Ints /\ c.at + c.n - 1 \in Ints

ReadCalls == [op : {"read"}, script : ReadScripts, i : Int, last : Int, out : Seq(Int)]
ReadInts(c) == c.last \in Ints /\ c.i \in Ints

Ranges == [lo : Int, up : Int, n : Int, rnd : BOOLEAN]
SortCalls ==
    [op : {"sorting"}, script : SortScripts, n : Int, pc : {"ends", "pivot", "pivot2", "up", "down"},
     lo : Int, up : Int, i : Int, j : Int, p : Int, rnd : BOOLEAN, stack : Seq(Ranges)]

\* The kinds of call differ in op, and only calls that have started have a script.
LEMMA Kinds ==
    /\ \A c \in Scripts : /\ c.op \in {"insert", "remove", "move", "concat", "unpack", "sort"}
                          /\ "script" \notin DOMAIN c /\ "out" \notin DOMAIN c /\ "stack" \notin DOMAIN c
    /\ \A c \in CopyCalls : /\ c.op = "copy" /\ "out" \notin DOMAIN c /\ "stack" \notin DOMAIN c
                            /\ c.script.op \in {"insert", "remove", "move"}
                            /\ c.script.from \in Tables /\ c.script.to \in Tables
    /\ \A c \in ReadCalls : /\ c.op = "read" /\ "out" \in DOMAIN c /\ "stack" \notin DOMAIN c
                            /\ c.script.op \in {"concat", "unpack"} /\ c.script.from \in Tables
    /\ \A c \in SortCalls : /\ c.op = "sorting" /\ "out" \notin DOMAIN c /\ "stack" \in DOMAIN c
                            /\ c.script.op = "sort" /\ c.script.from \in Tables
<1>1. /\ \A s \in InsertScripts : s.op = "insert" /\ s.from \in Tables /\ s.to \in Tables
      /\ \A s \in RemoveScripts : s.op = "remove" /\ s.from \in Tables /\ s.to \in Tables
      /\ \A s \in MoveScripts : s.op = "move" /\ s.from \in Tables /\ s.to \in Tables
      /\ \A s \in ReadScripts : s.op \in {"concat", "unpack"} /\ s.from \in Tables
      /\ \A s \in SortScripts : s.op = "sort" /\ s.from \in Tables
  BY DEF InsertScripts, RemoveScripts, MoveScripts, ReadScripts, SortScripts
<1>2. \A c \in Scripts : "script" \notin DOMAIN c /\ "out" \notin DOMAIN c /\ "stack" \notin DOMAIN c
  BY DEF Scripts, CopyScripts, InsertScripts, RemoveScripts, MoveScripts, ReadScripts, SortScripts
<1>3. \A c \in Scripts : c.op \in {"insert", "remove", "move", "concat", "unpack", "sort"}
  BY <1>1 DEF Scripts, CopyScripts
<1>4. \A c \in CopyCalls : c.op = "copy" /\ "out" \notin DOMAIN c /\ "stack" \notin DOMAIN c /\ c.script \in CopyScripts
  BY DEF CopyCalls
<1>5. \A c \in ReadCalls : c.op = "read" /\ "out" \in DOMAIN c /\ "stack" \notin DOMAIN c /\ c.script \in ReadScripts
  BY DEF ReadCalls
<1>6. \A c \in SortCalls : c.op = "sorting" /\ "out" \notin DOMAIN c /\ "stack" \in DOMAIN c /\ c.script \in SortScripts
  BY DEF SortCalls
<1> QED BY <1>1, <1>2, <1>3, <1>4, <1>5, <1>6 DEF CopyScripts

\* the number of elements auxsort was called for, when the k-th caller on the
\* stack (0: the innermost call) was called
Bound(c, k) == IF k = Len(c.stack) THEN c.n ELSE c.stack[k + 1].n

\* the range being sorted and those that wait are apart, within the bounds of
\* their calls, and each call has less than half of what its caller had
RangesApart(c) ==
    /\ 2 <= c.n /\ c.n < MaxInt
    /\ 1 <= c.lo /\ c.lo <= c.up /\ c.up <= c.n /\ c.up - c.lo + 1 <= Bound(c, 0)
    /\ \A k \in 1..Len(c.stack) :
          /\ 1 <= c.stack[k].lo /\ c.stack[k].lo <= c.stack[k].up /\ c.stack[k].up <= c.n
          /\ c.stack[k].up - c.stack[k].lo + 1 <= Bound(c, k)
          /\ 2 * c.stack[k].n < Bound(c, k)
          /\ c.stack[k].up < c.lo \/ c.up < c.stack[k].lo
          /\ \A m \in 1..Len(c.stack) :
                k < m => c.stack[k].up < c.stack[m].lo \/ c.stack[m].up < c.stack[k].lo

\* the pivot and the two scans are inside the range
ScansInside(c) ==
    /\ c.pc # "ends" => c.up - c.lo >= 2
    /\ c.pc \in {"pivot", "pivot2"} => c.lo < c.p /\ c.p < c.up
    /\ c.pc \in {"up", "down"} => /\ c.up - c.lo >= 3
                                  /\ c.lo < c.i /\ c.i < c.up /\ c.lo <= c.j /\ c.j < c.up
    /\ c.pc = "up" => c.lo < c.j
    /\ c.pc = "down" => c.j < c.up - 1
SortInts(c) == RangesApart(c) /\ ScansInside(c)

\* The positions of a range that is sorted are integers of a table.
LEMMA RangeFacts ==
    ASSUME NEW lo \in Int, NEW up \in Int, NEW n \in Int, 1 <= lo, up <= n, n < MaxInt
    PROVE  \A k \in lo..up : k \in Ints /\ k \in 1..n
<1> TAKE k \in lo..up
<1>1. MaxInt \in Nat
  BY TableLibAssumption
<1>2. k \in Int /\ -MaxInt - 1 <= k /\ k <= MaxInt /\ 1 <= k /\ k <= n
  BY <1>1
<1> QED BY <1>1, <1>2 DEF Ints, MinInt

\* A sequence without its first element, and with a new one.
LEMMA HeadFacts ==
    ASSUME NEW S, NEW s \in Seq(S)
    PROVE  /\ Len(s) \in Nat
           /\ s # <<>> => /\ Len(s) \in Nat \ {0} /\ s[1] \in S /\ Tail(s) \in Seq(S)
                          /\ Len(Tail(s)) = Len(s) - 1
                          /\ \A k \in 1..(Len(s) - 1) : Tail(s)[k] = s[k + 1]
           /\ \A a \in S : /\ <<a>> \o s \in Seq(S) /\ Len(<<a>> \o s) = Len(s) + 1
                           /\ (<<a>> \o s)[1] = a
                           /\ \A k \in 1..Len(s) : (<<a>> \o s)[k + 1] = s[k]
<1>1. Len(s) \in Nat /\ (s # <<>> => Len(s) # 0)
  BY EmptySeq
<1>2. s # <<>> => /\ s[1] \in S /\ Tail(s) \in Seq(S) /\ Len(Tail(s)) = Len(s) - 1
                  /\ \A k \in 1..(Len(s) - 1) : Tail(s)[k] = s[k + 1]
  <2> SUFFICES ASSUME s # <<>> PROVE /\ s[1] \in S /\ Tail(s) \in Seq(S) /\ Len(Tail(s)) = Len(s) - 1
                                     /\ \A k \in 1..(Len(s) - 1) : Tail(s)[k] = s[k + 1]
    OBVIOUS
  <2>1. 1 \in 1..Len(s)
    BY <1>1
  <2>2. Tail(s) \in Seq(S) /\ Len(Tail(s)) = Len(s) - 1
    BY HeadTailProperties
  <2>3. \A k \in 1..Len(Tail(s)) : Tail(s)[k] = s[k + 1]
    BY HeadTailProperties
  <2> QED BY <2>1, <2>2, <2>3
<1>3. ASSUME NEW a \in S
      PROVE  /\ <<a>> \o s \in Seq(S) /\ Len(<<a>> \o s) = Len(s) + 1
             /\ (<<a>> \o s)[1] = a
             /\ \A k \in 1..Len(s) : (<<a>> \o s)[k + 1] = s[k]
  <2> DEFINE u == <<a>>
  <2>1. u \in Seq(S) /\ Len(u) = 1 /\ u[1] = a
    OBVIOUS
  <2> HIDE DEF u
  <2>2. /\ u \o s \in Seq(S) /\ Len(u \o s) = Len(u) + Len(s)
        /\ \A i \in 1..Len(u) + Len(s) : (u \o s)[i] = IF i <= Len(u) THEN u[i] ELSE s[i - Len(u)]
    BY <2>1, ConcatProperties
  <2>3. (u \o s)[1] = a
    BY <1>1, <2>1, <2>2
  <2>4. ASSUME NEW k \in 1..Len(s) PROVE (u \o s)[k + 1] = s[k]
    <3>1. k + 1 \in 1..Len(u) + Len(s) /\ ~(k + 1 <= Len(u)) /\ (k + 1) - Len(u) = k
      BY <1>1, <2>1
    <3> QED BY <2>2, <3>1
  <2>5. Len(u \o s) = Len(s) + 1
    BY <1>1, <2>1, <2>2
  <2> QED BY <2>2, <2>3, <2>4, <2>5 DEF u
<1> QED BY <1>1, <1>2, <1>3

\* When a call of auxsort returns, its caller goes on with the rest of its range.
LEMMA ReturnKeeps ==
    ASSUME call \in SortCalls, RangesApart(call), Return(call)
    PROVE  \/ call' = Done("ok")
           \/ call' \in SortCalls /\ SortInts(call') /\ call'.pc = "ends"
<1> DEFINE s == call.stack  f == s[1]
<1>1. s \in Seq(Ranges) /\ Len(s) \in Nat
  BY DEF SortCalls
<1>2. CASE s = <<>>
  BY <1>2 DEF Return
<1>3. CASE s # <<>>
  <2>1. /\ Len(s) \in Nat \ {0} /\ f \in Ranges /\ Tail(s) \in Seq(Ranges)
        /\ Len(Tail(s)) = Len(s) - 1 /\ \A k \in 1..(Len(s) - 1) : Tail(s)[k] = s[k + 1]
    BY <1>1, <1>3, HeadFacts
  <2>2. PICK rnd \in BOOLEAN :
           call' = [call EXCEPT !.pc = "ends", !.lo = f.lo, !.up = f.up, !.rnd = rnd, !.stack = Tail(@)]
    <3>1. f.rnd \in BOOLEAN
      BY <2>1 DEF Ranges
    <3> QED BY <1>3, <3>1 DEF Return
  <2>3. /\ call'.lo = f.lo /\ call'.up = f.up /\ call'.stack = Tail(s) /\ call'.n = call.n
        /\ call'.pc = "ends" /\ call'.i = call.i /\ call'.j = call.j
    BY <2>2 DEF SortCalls
  <2>4. call' \in SortCalls
    <3>1. f.lo \in Int /\ f.up \in Int
      BY <2>1 DEF Ranges
    <3> HIDE DEF f, s
    <3> QED BY <2>1, <2>2, <3>1 DEF SortCalls, s
  <2>5. \A k \in 0..(Len(s) - 1) : Bound(call', k) = Bound(call, k + 1)
    <3> HIDE DEF f, s
    <3> TAKE k \in 0..(Len(s) - 1)
    <3> DEFINE n == Len(s)
    <3>1. n \in Nat \ {0} /\ k \in 0..(n - 1)
      BY <2>1
    <3> HIDE DEF n
    <3>2. k = n - 1 \/ k + 1 \in 1..(n - 1)
      BY <3>1
    <3>3. k = Len(s) - 1 \/ k + 1 \in 1..(Len(s) - 1)
      BY <3>2 DEF n
    <3> QED BY <2>1, <2>3, <3>3 DEF Bound, s
  <2>6. RangesApart(call')
    <3>1. 1 \in 1..Len(s) /\ \A k \in 1..(Len(s) - 1) : k + 1 \in 1..Len(s) /\ 1 < k + 1
      BY <2>1
    <3>2. 0 \in 0..(Len(s) - 1) /\ \A k \in 1..(Len(s) - 1) : k \in 0..(Len(s) - 1)
      BY <2>1
    <3> HIDE DEF s
    <3>4. /\ 1 <= call'.lo /\ call'.lo <= call'.up /\ call'.up <= call'.n
          /\ call'.up - call'.lo + 1 <= Bound(call', 0)
      BY <2>3, <2>5, <3>1, <3>2 DEF RangesApart, s
    <3>5. ASSUME NEW k \in 1..(Len(s) - 1)
          PROVE  /\ 1 <= call'.stack[k].lo /\ call'.stack[k].lo <= call'.stack[k].up
                 /\ call'.stack[k].up <= call'.n
                 /\ call'.stack[k].up - call'.stack[k].lo + 1 <= Bound(call', k)
                 /\ 2 * call'.stack[k].n < Bound(call', k)
                 /\ call'.stack[k].up < call'.lo \/ call'.up < call'.stack[k].lo
                 /\ \A m \in 1..(Len(s) - 1) :
                       k < m => \/ call'.stack[k].up < call'.stack[m].lo
                                \/ call'.stack[m].up < call'.stack[k].lo
      <4>1. call'.stack[k] = s[k + 1] /\ k + 1 \in 1..Len(s) /\ 1 < k + 1
        BY <2>1, <2>3, <3>1
      <4>2. /\ 1 <= s[k + 1].lo /\ s[k + 1].lo <= s[k + 1].up /\ s[k + 1].up <= call.n
            /\ s[k + 1].up - s[k + 1].lo + 1 <= Bound(call, k + 1)
            /\ 2 * s[k + 1].n < Bound(call, k + 1)
            /\ s[1].up < s[k + 1].lo \/ s[k + 1].up < s[1].lo
        BY <3>1, <4>1 DEF RangesApart, s
      <4>3. ASSUME NEW m \in 1..(Len(s) - 1), k < m
            PROVE  call'.stack[k].up < call'.stack[m].lo \/ call'.stack[m].up < call'.stack[k].lo
        <5>1. call'.stack[m] = s[m + 1] /\ m + 1 \in 1..Len(s) /\ k + 1 < m + 1
          BY <2>1, <2>3, <3>1, <4>3
        <5> QED BY <4>1, <5>1 DEF RangesApart, s
      <4> QED BY <2>3, <2>5, <3>2, <4>1, <4>2, <4>3
    <3>6. 2 <= call'.n /\ call'.n < MaxInt
      BY <2>3 DEF RangesApart
    <3> QED BY <2>1, <2>3, <3>4, <3>5, <3>6 DEF RangesApart
  <2>7. ScansInside(call')
    BY <2>3 DEF ScansInside
  <2> QED BY <2>3, <2>4, <2>6, <2>7 DEF SortInts
<1> QED BY <1>2, <1>3

\* After a partition the smaller part is sorted first, the other one waits.
LEMMA SplitKeeps ==
    ASSUME call \in SortCalls, RangesApart(call), NEW p \in Int, call.lo < p, p < call.up, Split(p)
    PROVE  call' \in SortCalls /\ SortInts(call') /\ call'.pc = "ends"
<1> DEFINE s == call.stack
           left == p - call.lo < call.up - p
           rest == IF left THEN [lo |-> p + 1, up |-> call.up, n |-> p - call.lo, rnd |-> call.rnd]
                   ELSE [lo |-> call.lo, up |-> p - 1, n |-> call.up - p, rnd |-> call.rnd]
           t == <<rest>> \o s
<1>1. /\ s \in Seq(Ranges) /\ Len(s) \in Nat /\ call.lo \in Int /\ call.up \in Int /\ call.n \in Int
      /\ call.rnd \in BOOLEAN
  BY DEF SortCalls
<1>2. rest \in Ranges
  BY <1>1 DEF Ranges
<1>3. /\ rest.lo = IF left THEN p + 1 ELSE call.lo
      /\ rest.up = IF left THEN call.up ELSE p - 1
      /\ rest.n = IF left THEN p - call.lo ELSE call.up - p
  OBVIOUS
<1>4. call' = [call EXCEPT !.pc = "ends", !.lo = IF left THEN @ ELSE p + 1,
                           !.up = IF left THEN p - 1 ELSE @, !.stack = t]
  BY DEF Split
<1> HIDE DEF rest, s
<1>5. /\ t \in Seq(Ranges) /\ Len(t) = Len(s) + 1 /\ t[1] = rest
      /\ \A k \in 1..Len(s) : t[k + 1] = s[k]
  BY <1>1, <1>2, HeadFacts
<1> HIDE DEF t, left
<1>6. call' \in SortCalls
  <2> DEFINE lo == IF left THEN call.lo ELSE p + 1
             up == IF left THEN p - 1 ELSE call.up
  <2>1. lo \in Int /\ up \in Int
    BY <1>1
  <2>2. call' = [call EXCEPT !.pc = "ends", !.lo = lo, !.up = up, !.stack = t]
    BY <1>4
  <2> HIDE DEF lo, up
  <2> QED BY <1>5, <2>1, <2>2 DEF SortCalls
<1>7. /\ call'.lo = (IF left THEN call.lo ELSE p + 1) /\ call'.up = (IF left THEN p - 1 ELSE call.up)
      /\ call'.stack = t /\ call'.n = call.n /\ call'.pc = "ends"
  BY <1>4 DEF SortCalls
<1>8. \A k \in 0..Len(s) : Bound(call', k + 1) = Bound(call, k)
  <2> TAKE k \in 0..Len(s)
  <2>1. k = Len(s) \/ k + 1 \in 1..Len(s)
    BY <1>1
  <2>2. k + 1 \in 1..Len(s) => k + 1 # Len(t) /\ t[(k + 1) + 1] = s[k + 1] /\ k # Len(s)
    BY <1>1, <1>5
  <2> QED BY <1>1, <1>5, <1>7, <2>1, <2>2 DEF Bound, s
<1>9. Bound(call', 0) = rest.n
  BY <1>1, <1>5, <1>7 DEF Bound
<1>10. /\ 2 <= call.n /\ call.n < MaxInt /\ 1 <= call.lo /\ call.up <= call.n
       /\ call.up - call.lo + 1 <= Bound(call, 0)
  BY DEF RangesApart
<1>11. Bound(call, 0) \in Int
  <2>1. 0 # Len(s) => s[1] \in Ranges
    BY <1>1
  <2>2. 0 # Len(s) => s[1].n \in Int
    BY <2>1 DEF Ranges
  <2> QED BY <1>1, <2>2 DEF Bound, s
<1>12. /\ 1 <= call'.lo /\ call'.lo <= call'.up /\ call'.up <= call'.n
       /\ call'.up - call'.lo + 1 <= Bound(call', 0)
  <2>1. CASE left
    <3>1. call'.lo = call.lo /\ call'.up = p - 1 /\ call'.n = call.n /\ Bound(call', 0) = p - call.lo
      BY <1>3, <1>7, <1>9, <2>1
    <3>2. 1 <= call.lo /\ call.lo <= p - 1 /\ p - 1 <= call.n /\ p - 1 - call.lo + 1 <= p - call.lo
      BY <1>1, <1>10
    <3> QED BY <3>1, <3>2
  <2>2. CASE ~left
    <3>1. call'.lo = p + 1 /\ call'.up = call.up /\ call'.n = call.n /\ Bound(call', 0) = call.up - p
      BY <1>3, <1>7, <1>9, <2>2
    <3>2. 1 <= p + 1 /\ p + 1 <= call.up /\ call.up <= call.n /\ call.up - (p + 1) + 1 <= call.up - p
      BY <1>1, <1>10
    <3> QED BY <3>1, <3>2
  <2> QED BY <2>1, <2>2
<1>13. /\ 1 <= rest.lo /\ rest.lo <= rest.up /\ rest.up <= call.n
       /\ rest.up - rest.lo + 1 <= Bound(call', 1)
       /\ 2 * rest.n < Bound(call', 1)
       /\ rest.up < call'.lo \/ call'.up < rest.lo
  <2>1. Bound(call', 1) = Bound(call, 0)
    BY <1>1, <1>8
  <2>2. PICK b \in Int : b = Bound(call, 0)
    BY <1>11
  <2>3. CASE left
    <3>1. /\ rest.lo = p + 1 /\ rest.up = call.up /\ rest.n = p - call.lo
          /\ call'.lo = call.lo /\ call'.up = p - 1
      BY <1>3, <1>7, <2>3
    <3>2. p - call.lo < call.up - p
      BY <2>3 DEF left
    <3>3. 1 <= rest.lo /\ rest.lo <= rest.up /\ rest.up <= call.n /\ call'.up < rest.lo
      BY <1>1, <1>10, <3>1
    <3>4. call.up - (p + 1) + 1 <= b /\ 2 * (p - call.lo) < b
      BY <1>1, <1>10, <2>2, <3>2
    <3> QED BY <2>1, <2>2, <3>1, <3>3, <3>4
  <2>4. CASE ~left
    <3>1. /\ rest.lo = call.lo /\ rest.up = p - 1 /\ rest.n = call.up - p
          /\ call'.lo = p + 1 /\ call'.up = call.up
      BY <1>3, <1>7, <2>4
    <3>2. ~(p - call.lo < call.up - p)
      BY <2>4 DEF left
    <3>3. 1 <= rest.lo /\ rest.lo <= rest.up /\ rest.up <= call.n /\ rest.up < call'.lo
      BY <1>1, <1>10, <3>1
    <3>4. p - 1 - call.lo + 1 <= b /\ 2 * (call.up - p) < b
      BY <1>1, <1>10, <2>2, <3>2
    <3> QED BY <2>1, <2>2, <3>1, <3>3, <3>4
  <2> QED BY <2>3, <2>4
<1>14. ASSUME NEW k \in 1..Len(s)
       PROVE  /\ 1 <= s[k].lo /\ s[k].lo <= s[k].up /\ s[k].up <= call.n
              /\ s[k].up - s[k].lo + 1 <= Bound(call', k + 1)
              /\ 2 * s[k].n < Bound(call', k + 1)
              /\ s[k].up < call'.lo \/ call'.up < s[k].lo
              /\ rest.up < s[k].lo \/ s[k].up < rest.lo
  <2>1. /\ 1 <= s[k].lo /\ s[k].lo <= s[k].up /\ s[k].up <= call.n
        /\ s[k].up - s[k].lo + 1 <= Bound(call, k)
        /\ 2 * s[k].n < Bound(call, k)
        /\ s[k].up < call.lo \/ call.up < s[k].lo
    BY DEF RangesApart, s
  <2>2. s[k].lo \in Int /\ s[k].up \in Int
    <3>1. s[k] \in Ranges
      BY <1>1
    <3> QED BY <3>1 DEF Ranges
  <2>3. Bound(call', k + 1) = Bound(call, k)
    BY <1>1, <1>8
  <2>4. call.lo <= call'.lo /\ call'.up <= call.up /\ call.lo <= rest.lo /\ rest.up <= call.up
    BY <1>1, <1>3, <1>7
  <2>5. call'.lo \in Int /\ call'.up \in Int /\ rest.lo \in Int /\ rest.up \in Int
    BY <1>1, <1>3, <1>7
  <2>6. s[k].up < call'.lo \/ call'.up < s[k].lo
    <3>1. s[k].up < call.lo \/ call.up < s[k].lo
      BY <2>1
    <3> QED BY <1>1, <2>2, <2>4, <2>5, <3>1
  <2>7. rest.up < s[k].lo \/ s[k].up < rest.lo
    <3>1. s[k].up < call.lo \/ call.up < s[k].lo
      BY <2>1
    <3> QED BY <1>1, <2>2, <2>4, <2>5, <3>1
  <2> QED BY <2>1, <2>3, <2>6, <2>7
<1>15. ASSUME NEW k \in 1..Len(t)
       PROVE  /\ 1 <= t[k].lo /\ t[k].lo <= t[k].up /\ t[k].up <= call.n
              /\ t[k].up - t[k].lo + 1 <= Bound(call', k)
              /\ 2 * t[k].n < Bound(call', k)
              /\ t[k].up < call'.lo \/ call'.up < t[k].lo
              /\ \A m \in 1..Len(t) : k < m => t[k].up < t[m].lo \/ t[m].up < t[k].lo
  <2>1. CASE k = 1
    <3>1. ASSUME NEW m \in 1..Len(t), 1 < m PROVE t[1].up < t[m].lo \/ t[m].up < t[1].lo
      <4>1. m - 1 \in 1..Len(s) /\ t[(m - 1) + 1] = s[m - 1] /\ (m - 1) + 1 = m
        BY <1>1, <1>5, <3>1
      <4> QED BY <1>5, <1>14, <4>1
    <3> QED BY <1>5, <1>13, <2>1, <3>1
  <2>2. CASE k # 1
    <3>1. k - 1 \in 1..Len(s) /\ t[(k - 1) + 1] = s[k - 1] /\ (k - 1) + 1 = k
      BY <1>1, <1>5, <2>2
    <3>2. /\ 1 <= t[k].lo /\ t[k].lo <= t[k].up /\ t[k].up <= call.n
          /\ t[k].up - t[k].lo + 1 <= Bound(call', k)
          /\ 2 * t[k].n < Bound(call', k)
          /\ t[k].up < call'.lo \/ call'.up < t[k].lo
      BY <1>14, <3>1
    <3>3. ASSUME NEW m \in 1..Len(t), k < m PROVE t[k].up < t[m].lo \/ t[m].up < t[k].lo
      <4>1. m - 1 \in 1..Len(s) /\ t[(m - 1) + 1] = s[m - 1] /\ (m - 1) + 1 = m /\ k - 1 < m - 1
        BY <1>1, <1>5, <2>2, <3>3
      <4> QED BY <3>1, <4>1 DEF RangesApart, s
    <3> QED BY <3>2, <3>3
  <2> QED BY <2>1, <2>2
<1>16. RangesApart(call')
  BY <1>7, <1>10, <1>12, <1>15 DEF RangesApart
<1>17. ScansInside(call')
  BY <1>7 DEF ScansInside
<1> QED BY <1>6, <1>7, <1>16, <1>17 DEF SortInts

-----------------------------------------------------------------------------
(* Steps of sort *)

\* Exchanging two elements.
LEMMA SwapFacts ==
    ASSUME NEW t \in [Ints -> Int], NEW a \in Ints, NEW b \in Ints
    PROVE  /\ Swapped(t, a, b) \in [Ints -> Int]
           /\ Swapped(t, a, a) = t
           /\ Swapped(t, a, b)[a] = t[b] /\ Swapped(t, a, b)[b] = t[a]
           /\ \A k \in Ints : k # a /\ k # b => Swapped(t, a, b)[k] = t[k]
<1> HIDE DEF Ints
<1>1. /\ Swapped(t, a, b) \in [Ints -> Int]
      /\ Swapped(t, a, b)[a] = t[b] /\ Swapped(t, a, b)[b] = t[a]
      /\ \A k \in Ints : k # a /\ k # b => Swapped(t, a, b)[k] = t[k]
  BY DEF Swapped
<1>2. Swapped(t, a, a) = t
  BY DEF Swapped
<1> QED BY <1>1, <1>2

\* heap' is heap with two exchanges in the range being sorted (of an element with
\* itself where the step makes fewer)
Exchanged(a, b, c, d) ==
    heap' = [heap EXCEPT ![call.script.from] = Swapped(Swapped(T, a, b), c, d)]

SortAction ==
    SortRange \/ SortEnds \/ SortPivot \/ SortPivot2 \/ PartitionUp \/ PartitionDown

\* A step of sort that leaves the heap alone.
LEMMA NothingExchanged ==
    ASSUME heap \in [Tables -> [Ints -> Int]], call.script.from \in Tables, call.lo \in Ints, heap' = heap
    PROVE  Exchanged(call.lo, call.lo, call.lo, call.lo)
<1>1. T \in [Ints -> Int]
  BY DEF T
<1>2. Swapped(Swapped(T, call.lo, call.lo), call.lo, call.lo) = T
  BY <1>1, SwapFacts
<1>3. heap = [heap EXCEPT ![call.script.from] = T]
  BY DEF T
<1> QED BY <1>2, <1>3 DEF Exchanged

\* A step of sort compares and exchanges elements of its range only, and goes on in
\* one of the ranges.
LEMMA SortSteps ==
    ASSUME heap \in [Tables -> [Ints -> Int]], call \in SortCalls, SortInts(call), SortAction
    PROVE  /\ old' = old
           /\ \/ call' = Done("ok") \/ call' = Done("panic")
              \/ call' \in SortCalls /\ SortInts(call') /\ call'.script = call.script /\ call'.n = call.n
           /\ \E a, b, c, d \in call.lo..call.up : Exchanged(a, b, c, d)
<1> DEFINE R == call.lo..call.up
           Next1 == \/ call' = Done("ok") \/ call' = Done("panic")
                    \/ call' \in SortCalls /\ SortInts(call') /\ call'.script = call.script /\ call'.n = call.n
           Ex == \E a, b, c, d \in R : Exchanged(a, b, c, d)
           Goal == old' = old /\ Next1 /\ Ex
<1>1. /\ call.lo \in Int /\ call.up \in Int /\ call.i \in Int /\ call.j \in Int /\ call.p \in Int
      /\ call.n \in Int /\ call.script \in SortScripts /\ call.stack \in Seq(Ranges)
  BY DEF SortCalls
<1>2. /\ RangesApart(call) /\ ScansInside(call)
      /\ 1 <= call.lo /\ call.lo <= call.up /\ call.up <= call.n /\ call.n < MaxInt
  BY DEF SortInts, RangesApart
<1>3. MaxInt \in Nat /\ Ints = (-MaxInt - 1)..MaxInt
  BY TableLibAssumption DEF Ints, MinInt
<1>4. \A k \in R : k \in Ints
  BY <1>1, <1>2, <1>3
<1>5. call.script.from \in Tables /\ T \in [Ints -> Int]
  BY <1>1 DEF SortScripts, T
<1>6. call.lo \in R /\ call.up \in R
  BY <1>1, <1>2
<1>7. Return(call) => Next1
  <2> SUFFICES ASSUME Return(call) PROVE Next1
    OBVIOUS
  <2>1. CASE call.stack = <<>>
    BY <2>1 DEF Return
  <2>2. CASE call.stack # <<>>
    <3>1. call'.script = call.script /\ call'.n = call.n
      BY <2>2 DEF Return, SortCalls
    <3> QED BY <1>2, <3>1, ReturnKeeps
  <2> QED BY <2>1, <2>2
<1>8. heap' = heap => Ex
  BY <1>4, <1>5, <1>6, NothingExchanged
<1>9. \A a, b \in R : Write(Swapped(T, a, b)) => Ex
  <2> TAKE a, b \in R
  <2>1. Swapped(T, a, b) \in [Ints -> Int] /\ call.lo \in Ints
    BY <1>4, <1>5, <1>6, SwapFacts
  <2>2. Swapped(Swapped(T, a, b), call.lo, call.lo) = Swapped(T, a, b)
    BY <2>1, SwapFacts
  <2> HIDE DEF R
  <2> SUFFICES ASSUME Write(Swapped(T, a, b)) PROVE Exchanged(a, b, call.lo, call.lo)
    BY <1>6
  <2> QED BY <2>2 DEF Write, Exchanged
<1>10. \A a, b, c, d \in R : Write(Swapped(Swapped(T, a, b), c, d)) => Ex
  BY DEF Write, Exchanged
<1>11. Write(T) => heap' = heap
  BY <1>5 DEF Write, T
<1>12. Panic => Next1
  BY DEF Panic
<1> HIDE DEF Ex, R, Next1
<1>13. ASSUME NEW t, call.up - call.lo >= 2, call.lo < call.p, call.p < call.up, Median(t),
              t = T \/ \E a, b \in R : t = Swapped(T, a, b)
       PROVE  Next1 /\ Ex
  <2>1. CASE call.up - call.lo = 2
    BY <1>7, <1>8, <1>9, <1>11, <1>13, <2>1 DEF Median
  <2>2. CASE call.up - call.lo # 2
    <3>1. call.p \in R /\ call.up - 1 \in R
      BY <1>1, <1>2, <1>13 DEF R
    <3>2. /\ Write(Swapped(t, call.p, call.up - 1))
          /\ call' = [call EXCEPT !.pc = "up", !.i = call.lo + 1, !.j = call.up - 1]
      BY <2>2, <1>13 DEF Median
    <3>3. Ex
      BY <1>9, <1>10, <1>13, <3>1, <3>2
    <3>4. /\ call' \in SortCalls /\ call'.script = call.script /\ call'.n = call.n
          /\ call'.lo = call.lo /\ call'.up = call.up /\ call'.stack = call.stack
          /\ call'.pc = "up" /\ call'.i = call.lo + 1 /\ call'.j = call.up - 1
      <4> DEFINE i == call.lo + 1  j == call.up - 1
      <4>1. i \in Int /\ j \in Int /\ call' = [call EXCEPT !.pc = "up", !.i = i, !.j = j]
        BY <1>1, <3>2
      <4> HIDE DEF i, j
      <4>2. /\ call' \in SortCalls /\ call'.script = call.script /\ call'.n = call.n
            /\ call'.lo = call.lo /\ call'.up = call.up /\ call'.stack = call.stack
            /\ call'.pc = "up" /\ call'.i = i /\ call'.j = j
        BY <4>1 DEF SortCalls
      <4> QED BY <4>2 DEF i, j
    <3>5. RangesApart(call')
      BY <1>2, <3>4 DEF RangesApart, Bound
    <3>6. ScansInside(call')
      BY <1>1, <1>13, <2>2, <3>4 DEF ScansInside
    <3> QED BY <3>3, <3>4, <3>5, <3>6 DEF SortInts, Next1
  <2> QED BY <2>1, <2>2
\* a step that only moves within the range
<1>14. ASSUME call' \in SortCalls, call'.script = call.script, call'.n = call.n, call'.lo = call.lo,
              call'.up = call.up, call'.stack = call.stack, ScansInside(call')
       PROVE  Next1
  BY <1>2, <1>14 DEF RangesApart, Bound, SortInts, Next1
<1>15. ASSUME SortRange PROVE Goal
  BY <1>7, <1>8, <1>15 DEF SortRange, Next1
<1>16. ASSUME SortEnds PROVE Goal
  <2>1. old' = old /\ call.lo < call.up
    BY <1>16 DEF SortEnds
  <2>2. PICK lt : /\ lt \in sort_comp_idx(call.up, call.lo)
                  /\ IF lt = "panic" THEN Panic /\ UNCHANGED heap
                     ELSE /\ Write(IF lt = "yes" THEN Swapped(T, call.lo, call.up) ELSE T)
                          /\ IF call.up - call.lo = 1 THEN Return(call)
                             ELSE \E p \in Pivots(call.lo, call.up) : call' = [call EXCEPT !.pc = "pivot", !.p = p]
    BY <1>16 DEF SortEnds
  <2>3. CASE lt = "panic"
    BY <1>8, <1>12, <2>1, <2>2, <2>3
  <2>4. CASE lt # "panic"
    <3>1. Ex
      BY <1>6, <1>8, <1>9, <1>11, <2>2, <2>4
    <3>2. CASE call.up - call.lo = 1
      BY <1>7, <2>1, <2>2, <2>4, <3>1, <3>2
    <3>3. CASE call.up - call.lo # 1
      <4>1. PICK p \in Pivots(call.lo, call.up) : call' = [call EXCEPT !.pc = "pivot", !.p = p]
        BY <2>2, <2>4, <3>3
      <4>2. p \in Int /\ call.lo < p /\ p < call.up /\ call.up - call.lo >= 2
        <5>1. call.up - call.lo >= 2
          BY <1>1, <2>1, <3>3
        <5>2. CASE p = (call.lo + call.up) \div 2
          BY <1>1, <5>1, <5>2
        <5>3. CASE p # (call.lo + call.up) \div 2
          <6>1. call.up - call.lo >= RANLIMIT /\ p \in choose_pivot(call.lo, call.up)
            BY <1>1, <5>3, TableLibAssumption DEF Pivots
          <6>2. PICK r4 \in Int : r4 = (call.up - call.lo) \div 4
            BY <1>1
          <6>3. call.up - call.lo >= 4 /\ r4 >= 1 /\ 4 * r4 <= call.up - call.lo
            BY <1>1, <6>1, <6>2, TableLibAssumption
          <6>4. p \in (call.lo + r4)..(call.lo + 3 * r4 - 1)
            BY <6>1, <6>2 DEF choose_pivot
          <6> QED BY <1>1, <5>1, <6>3, <6>4
        <5> QED BY <5>2, <5>3
      <4>3. /\ call' \in SortCalls /\ call'.script = call.script /\ call'.n = call.n
            /\ call'.lo = call.lo /\ call'.up = call.up /\ call'.stack = call.stack
            /\ call'.pc = "pivot" /\ call'.p = p
        BY <4>1, <4>2 DEF SortCalls
      <4>4. ScansInside(call')
        BY <4>2, <4>3 DEF ScansInside
      <4> QED BY <1>14, <2>1, <3>1, <4>3, <4>4 DEF Next1
    <3> QED BY <3>2, <3>3
  <2> QED BY <2>3, <2>4
<1>17. ASSUME SortPivot PROVE Goal
  <2>1. /\ old' = old /\ call.pc = "pivot" /\ call.up - call.lo >= 2 /\ call.lo < call.p /\ call.p < call.up
    BY <1>2, <1>17 DEF SortPivot, ScansInside
  <2>2. PICK lt : /\ lt \in sort_comp_idx(call.p, call.lo)
                  /\ CASE lt = "panic" -> Panic /\ UNCHANGED heap
                       [] lt = "yes" -> Median(Swapped(T, call.p, call.lo))
                       [] lt = "no" -> call' = [call EXCEPT !.pc = "pivot2"] /\ UNCHANGED heap
    BY <1>17 DEF SortPivot
  <2>3. lt \in {"panic", "yes", "no"}
    BY <1>1, <2>2 DEF sort_comp_idx, SortScripts
  <2>4. CASE lt = "panic"
    BY <1>8, <1>12, <2>1, <2>2, <2>4
  <2>5. CASE lt = "yes"
    <3>1. call.p \in R
      BY <1>1, <2>1 DEF R
    <3> QED BY <1>6, <1>13, <2>1, <2>2, <2>5, <3>1
  <2>6. CASE lt = "no"
    <3>1. call' = [call EXCEPT !.pc = "pivot2"] /\ UNCHANGED heap
      BY <2>2, <2>6
    <3>2. /\ call' \in SortCalls /\ call'.script = call.script /\ call'.n = call.n
          /\ call'.lo = call.lo /\ call'.up = call.up /\ call'.stack = call.stack
          /\ call'.pc = "pivot2" /\ call'.p = call.p
      BY <3>1 DEF SortCalls
    <3>3. ScansInside(call')
      BY <2>1, <3>2 DEF ScansInside
    <3> QED BY <1>8, <1>14, <2>1, <3>1, <3>2, <3>3
  <2> QED BY <2>3, <2>4, <2>5, <2>6
<1>18. ASSUME SortPivot2 PROVE Goal
  <2>1. /\ old' = old /\ call.pc = "pivot2" /\ call.up - call.lo >= 2 /\ call.lo < call.p /\ call.p < call.up
    BY <1>2, <1>18 DEF SortPivot2, ScansInside
  <2>2. PICK lt : /\ lt \in sort_comp_idx(call.up, call.p)
                  /\ IF lt = "panic" THEN Panic /\ UNCHANGED heap
                     ELSE Median(IF lt = "yes" THEN Swapped(T, call.p, call.up) ELSE T)
    BY <1>18 DEF SortPivot2
  <2>3. CASE lt = "panic"
    BY <1>8, <1>12, <2>1, <2>2, <2>3
  <2>4. CASE lt # "panic"
    <3>1. call.p \in R
      BY <1>1, <2>1 DEF R
    <3>2. CASE lt = "yes"
      BY <1>6, <1>13, <2>1, <2>2, <3>1, <3>2
    <3>3. CASE lt # "yes"
      BY <1>13, <2>1, <2>2, <2>4, <3>3
    <3> QED BY <3>2, <3>3
  <2> QED BY <2>1, <2>3, <2>4
<1>19. ASSUME PartitionUp PROVE Goal
  <2>1. /\ old' = old /\ heap' = heap /\ call.pc = "up" /\ call.up - call.lo >= 3
        /\ call.lo < call.i /\ call.i < call.up /\ call.lo < call.j /\ call.j < call.up
    BY <1>2, <1>19 DEF PartitionUp, ScansInside
  <2>2. PICK lt : /\ lt \in sort_comp_idx(call.i, call.up - 1)
                  /\ CASE lt = "panic" -> Panic
                       [] lt = "yes" -> IF call.i = call.up - 1 THEN Panic ELSE call' = [call EXCEPT !.i = @ + 1]
                       [] lt = "no" -> call' = [call EXCEPT !.pc = "down", !.j = @ - 1]
    BY <1>19 DEF PartitionUp
  <2>3. lt \in {"panic", "yes", "no"}
    BY <1>1, <2>2 DEF sort_comp_idx, SortScripts
  <2>4. \/ Panic
        \/ call.i # call.up - 1 /\ call' = [call EXCEPT !.i = @ + 1]
        \/ call' = [call EXCEPT !.pc = "down", !.j = @ - 1]
    BY <2>2, <2>3
  <2>5. CASE call.i # call.up - 1 /\ call' = [call EXCEPT !.i = @ + 1]
    <3>1. /\ call' \in SortCalls /\ call'.script = call.script /\ call'.n = call.n
          /\ call'.lo = call.lo /\ call'.up = call.up /\ call'.stack = call.stack
          /\ call'.pc = "up" /\ call'.i = call.i + 1 /\ call'.j = call.j
      <4> DEFINE i == call.i + 1
      <4>1. i \in Int /\ call' = [call EXCEPT !.i = i]
        BY <1>1, <2>5
      <4> HIDE DEF i
      <4>2. /\ call' \in SortCalls /\ call'.script = call.script /\ call'.n = call.n
            /\ call'.lo = call.lo /\ call'.up = call.up /\ call'.stack = call.stack
            /\ call'.pc = call.pc /\ call'.i = i /\ call'.j = call.j
        BY <4>1 DEF SortCalls
      <4> QED BY <2>1, <4>2 DEF i
    <3>2. ScansInside(call')
      <4>1. call.lo < call.i + 1 /\ call.i + 1 < call.up /\ call.up - call.lo >= 2 /\ call.lo <= call.j
        BY <1>1, <2>1, <2>5
      <4>2. /\ call'.pc = "up" /\ call'.up - call'.lo >= 3 /\ call'.up - call'.lo >= 2
            /\ call'.lo < call'.i /\ call'.i < call'.up
            /\ call'.lo <= call'.j /\ call'.lo < call'.j /\ call'.j < call'.up
        BY <2>1, <3>1, <4>1
      <4> QED BY <4>2 DEF ScansInside
    <3> QED BY <1>8, <1>14, <2>1, <3>1, <3>2
  <2>6. CASE call' = [call EXCEPT !.pc = "down", !.j = @ - 1]
    <3>1. /\ call' \in SortCalls /\ call'.script = call.script /\ call'.n = call.n
          /\ call'.lo = call.lo /\ call'.up = call.up /\ call'.stack = call.stack
          /\ call'.pc = "down" /\ call'.i = call.i /\ call'.j = call.j - 1
      <4> DEFINE j == call.j - 1
      <4>1. j \in Int /\ call' = [call EXCEPT !.pc = "down", !.j = j]
        BY <1>1, <2>6
      <4> HIDE DEF j
      <4>2. /\ call' \in SortCalls /\ call'.script = call.script /\ call'.n = call.n
            /\ call'.lo = call.lo /\ call'.up = call.up /\ call'.stack = call.stack
            /\ call'.pc = "down" /\ call'.i = call.i /\ call'.j = j
        BY <4>1 DEF SortCalls
      <4> QED BY <4>2 DEF j
    <3>2. ScansInside(call')
      BY <1>1, <2>1, <3>1 DEF ScansInside
    <3> QED BY <1>8, <1>14, <2>1, <3>1, <3>2
  <2> QED BY <1>8, <1>12, <2>1, <2>4, <2>5, <2>6
<1>20. ASSUME PartitionDown PROVE Goal
  <2>1. /\ old' = old /\ call.pc = "down" /\ call.up - call.lo >= 3
        /\ call.lo < call.i /\ call.i < call.up /\ call.lo <= call.j /\ call.j < call.up - 1
    BY <1>2, <1>20 DEF PartitionDown, ScansInside
  <2>2. PICK lt : /\ lt \in sort_comp_idx(call.up - 1, call.j)
                  /\ CASE lt = "panic" -> Panic /\ UNCHANGED heap
                       [] lt = "yes" -> IF call.j < call.i THEN Panic /\ UNCHANGED heap
                                        ELSE call' = [call EXCEPT !.j = @ - 1] /\ UNCHANGED heap
                       [] lt = "no" -> IF call.j < call.i
                                       THEN Write(Swapped(T, call.up - 1, call.i)) /\ Split(call.i)
                                       ELSE /\ Write(Swapped(T, call.i, call.j))
                                            /\ call' = [call EXCEPT !.pc = "up", !.i = @ + 1]
    BY <1>20 DEF PartitionDown
  <2>3. lt \in {"panic", "yes", "no"}
    BY <1>1, <2>2 DEF sort_comp_idx, SortScripts
  <2>4. \/ Panic /\ UNCHANGED heap
        \/ ~(call.j < call.i) /\ call' = [call EXCEPT !.j = @ - 1] /\ UNCHANGED heap
        \/ call.j < call.i /\ Write(Swapped(T, call.up - 1, call.i)) /\ Split(call.i)
        \/ ~(call.j < call.i) /\ Write(Swapped(T, call.i, call.j)) /\ call' = [call EXCEPT !.pc = "up", !.i = @ + 1]
    BY <2>2, <2>3
  <2>5. call.i \in R /\ call.j \in R /\ call.up - 1 \in R
    BY <1>1, <2>1 DEF R
  <2>6. CASE ~(call.j < call.i) /\ call' = [call EXCEPT !.j = @ - 1] /\ UNCHANGED heap
    <3>1. /\ call' \in SortCalls /\ call'.script = call.script /\ call'.n = call.n
          /\ call'.lo = call.lo /\ call'.up = call.up /\ call'.stack = call.stack
          /\ call'.pc = "down" /\ call'.i = call.i /\ call'.j = call.j - 1
      <4> DEFINE j == call.j - 1
      <4>1. j \in Int /\ call' = [call EXCEPT !.j = j]
        BY <1>1, <2>6
      <4> HIDE DEF j
      <4>2. /\ call' \in SortCalls /\ call'.script = call.script /\ call'.n = call.n
            /\ call'.lo = call.lo /\ call'.up = call.up /\ call'.stack = call.stack
            /\ call'.pc = call.pc /\ call'.i = call.i /\ call'.j = j
        BY <4>1 DEF SortCalls
      <4> QED BY <2>1, <4>2 DEF j
    <3>2. ScansInside(call')
      <4>1. /\ call.lo <= call.j - 1 /\ call.j - 1 < call.up - 1 /\ call.j - 1 < call.up
            /\ call.up - call.lo >= 2
        BY <1>1, <2>1, <2>6
      <4>2. /\ call'.pc = "down" /\ call'.up - call'.lo >= 3 /\ call'.up - call'.lo >= 2
            /\ call'.lo < call'.i /\ call'.i < call'.up
            /\ call'.lo <= call'.j /\ call'.j < call'.up - 1 /\ call'.j < call'.up
        BY <2>1, <3>1, <4>1
      <4> QED BY <4>2 DEF ScansInside
    <3> QED BY <1>8, <1>14, <2>1, <2>6, <3>1, <3>2
  <2>7. CASE call.j < call.i /\ Write(Swapped(T, call.up - 1, call.i)) /\ Split(call.i)
    <3>1. call'.script = call.script /\ call'.n = call.n
      BY <2>7 DEF Split, SortCalls
    <3>2. call' \in SortCalls /\ SortInts(call')
      BY <1>1, <1>2, <2>1, <2>7, SplitKeeps
    <3> QED BY <1>9, <2>1, <2>5, <2>7, <3>1, <3>2 DEF Next1
  <2>8. CASE ~(call.j < call.i) /\ Write(Swapped(T, call.i, call.j)) /\ call' = [call EXCEPT !.pc = "up", !.i = @ + 1]
    <3>1. /\ call' \in SortCalls /\ call'.script = call.script /\ call'.n = call.n
          /\ call'.lo = call.lo /\ call'.up = call.up /\ call'.stack = call.stack
          /\ call'.pc = "up" /\ call'.i = call.i + 1 /\ call'.j = call.j
      <4> DEFINE i == call.i + 1
      <4>1. i \in Int /\ call' = [call EXCEPT !.pc = "up", !.i = i]
        BY <1>1, <2>8
      <4> HIDE DEF i
      <4>2. /\ call' \in SortCalls /\ call'.script = call.script /\ call'.n = call.n
            /\ call'.lo = call.lo /\ call'.up = call.up /\ call'.stack = call.stack
            /\ call'.pc = "up" /\ call'.i = i /\ call'.j = call.j
        BY <4>1 DEF SortCalls
      <4> QED BY <4>2 DEF i
    <3>2. ScansInside(call')
      BY <1>1, <2>1, <2>8, <3>1 DEF ScansInside
    <3> QED BY <1>9, <1>14, <2>1, <2>5, <2>8, <3>1, <3>2
  <2> QED BY <1>8, <1>12, <2>1, <2>4, <2>6, <2>7, <2>8
<1> QED BY <1>15, <1>16, <1>17, <1>18, <1>19, <1>20 DEF SortAction, Next1, Ex, R

-----------------------------------------------------------------------------
(* What every call keeps *)

\* the call that runs or, after its end, the call that was made
Made == IF call.op = "done" THEN call.of ELSE call

Started(c) == \/ c \in CopyCalls /\ CopyInts(c)
              \/ c \in ReadCalls /\ ReadInts(c)
              \/ c \in SortCalls /\ SortInts(c)

LibInv ==
    /\ heap \in [Tables -> [Ints -> Int]]
    /\ old \in [Tables -> [Ints -> Int]]
    /\ Made \in Scripts \/ Started(Made)
    /\ \/ call = Made /\ (call \in Scripts => heap = old)
       \/ \E r \in {"ok", "panic"} : call = [op |-> "done", of |-> Made, r |-> r]

\* The kinds of script differ in op.
LEMMA ScriptKinds ==
    \A s \in Scripts : /\ s.op = "insert" => s \in InsertScripts
                       /\ s.op = "remove" => s \in RemoveScripts
                       /\ s.op = "move" => s \in MoveScripts
                       /\ s.op \in {"concat", "unpack"} => s \in ReadScripts
                       /\ s.op = "sort" => s \in SortScripts
<1>1. /\ \A s \in InsertScripts : s.op = "insert"
      /\ \A s \in RemoveScripts : s.op = "remove"
      /\ \A s \in MoveScripts : s.op = "move"
      /\ \A s \in ReadScripts : s.op \in {"concat", "unpack"}
      /\ \A s \in SortScripts : s.op = "sort"
  BY DEF InsertScripts, RemoveScripts, MoveScripts, ReadScripts, SortScripts
<1> QED BY <1>1 DEF Scripts, CopyScripts

\* A script that has not started, a call that runs, and a call that has ended.
LEMMA CallKinds ==
    ASSUME LibInv
    PROVE  /\ call.op = "done" <=> \E r \in {"ok", "panic"} : call = [op |-> "done", of |-> Made, r |-> r]
           /\ call.op # "done" => call = Made /\ (call \in Scripts \/ Started(call))
           /\ call.op \in {"insert", "remove", "move", "concat", "unpack", "sort"} =>
                 call \in Scripts /\ heap = old
           /\ call.op = "copy" => call \in CopyCalls /\ CopyInts(call)
           /\ call.op = "read" => call \in ReadCalls /\ ReadInts(call)
           /\ call.op = "sorting" => call \in SortCalls /\ SortInts(call)
<1>1. call.op # "done" => call = Made
  BY DEF Made
<1>2. call = Made => call \in Scripts \/ Started(call)
  BY DEF LibInv
<1>3. call = Made => call.op # "done"
  BY <1>2, Kinds DEF Started
<1> QED BY <1>1, <1>2, <1>3, Kinds DEF LibInv, Started

\* The length of a table may be one of its borders.
LEMMA BorderFacts ==
    ASSUME NEW t \in [Ints -> Int], NEW n \in Borders(t)
    PROVE  /\ MaxInt \in Nat /\ Ints = (-MaxInt - 1)..MaxInt
           /\ n \in Nat /\ n < MaxInt /\ n \in Ints /\ n + 1 \in Ints
           /\ t[n + 1] = nil /\ (n # 0 => t[n] # nil)
BY TableLibAssumption DEF Borders, Ints, MinInt

\* What the library functions that copy start with.
LEMMA CopyStarts ==
    ASSUME heap \in [Tables -> [Ints -> Int]], call \in Scripts,
           tab_insert(call) \/ tab_remove(call) \/ tab_move(call)
    PROVE  /\ heap' = heap /\ old' = heap
           /\ \/ call' = Done("panic")
              \/ call' \in CopyCalls /\ CopyInts(call') /\ call'.done = 0
<1> DEFINE Goal == \/ call' = Done("panic")
                   \/ call' \in CopyCalls /\ CopyInts(call') /\ call'.done = 0
<1>0. Panic => Goal
  BY DEF Panic
<1>1. heap' = heap /\ old' = heap
  BY DEF tab_insert, tab_remove, tab_move, Begin
<1>2. MaxInt \in Nat /\ Ints = (-MaxInt - 1)..MaxInt /\ nil \in Int
  BY TableLibAssumption DEF Ints, MinInt, nil
<1>3. ASSUME NEW s \in CopyScripts, NEW n \in Nat, NEW first \in Int, NEW at \in Int, NEW b \in BOOLEAN,
             NEW then \in {<<>>} \cup (Ints \X Int), NEW result \in Int,
             n > 0 => /\ first \in Ints /\ first + n - 1 \in Ints /\ at \in Ints /\ at + n - 1 \in Ints,
             call' = Copy("copy", s, n, first, at, b, then, result)
      PROVE  Goal
  BY <1>3 DEF Copy, CopyCalls, CopyInts
<1> HIDE DEF Goal
<1>4. ASSUME tab_insert(call) PROVE Goal
  <2>1. call \in InsertScripts
    BY <1>4, ScriptKinds DEF tab_insert
  <2>2. call \in CopyScripts /\ call.from \in Tables /\ call.pos \in Ints /\ call.v \in Int
    BY <2>1 DEF CopyScripts, InsertScripts
  <2>3. PICK size \in aux_getn(call.from) :
           LET e == size + 1
               pos == IF call.args = 2 THEN e ELSE call.pos
           IN IF pos < 1 \/ pos > e THEN Panic
              ELSE call' = Copy("copy", call, e - pos, pos, pos + 1, TRUE, <<pos, call.v>>, e)
    BY <1>4 DEF tab_insert
  <2>4. size \in Nat /\ size < MaxInt
    BY <2>2, <2>3, BorderFacts DEF aux_getn
  <2> DEFINE e == size + 1
             pos == IF call.args = 2 THEN e ELSE call.pos
  <2>5. pos \in Int /\ e \in Int /\ e <= MaxInt
    BY <1>2, <2>2, <2>4
  <2>6. CASE pos < 1 \/ pos > e
    <3>1. Panic
      BY <2>3, <2>6
    <3> QED BY <1>0, <3>1
  <2>7. CASE ~(pos < 1 \/ pos > e)
    <3> HIDE DEF pos
    <3>1. call' = Copy("copy", call, e - pos, pos, pos + 1, TRUE, <<pos, call.v>>, e)
      BY <2>3, <2>7 DEF pos
    <3> HIDE DEF e
    <3>2. e - pos \in Nat /\ pos \in Ints /\ pos + 1 \in Int
      BY <1>2, <2>5, <2>7
    <3>3. e - pos > 0 => pos + (e - pos) - 1 \in Ints /\ pos + 1 \in Ints /\ (pos + 1) + (e - pos) - 1 \in Ints
      BY <1>2, <2>5, <2>7
    <3>4. <<pos, call.v>> \in {<<>>} \cup (Ints \X Int)
      BY <2>2, <3>2
    <3> QED BY <1>3, <2>2, <2>5, <3>1, <3>2, <3>3, <3>4
  <2> QED BY <2>6, <2>7
<1>5. ASSUME tab_remove(call) PROVE Goal
  <2>1. call \in RemoveScripts
    BY <1>5, ScriptKinds DEF tab_remove
  <2>2. call \in CopyScripts /\ call.from \in Tables /\ call.pos \in Ints
    BY <2>1 DEF CopyScripts, RemoveScripts
  <2>3. PICK size \in aux_getn(call.from) :
           LET pos == IF call.args = 1 THEN size ELSE call.pos
               last == IF 1 <= pos /\ pos <= size THEN <<size, nil>>
                       ELSE IF pos = 0 THEN <<0, nil>> ELSE <<>>
           IN IF pos # size /\ (pos < 1 \/ pos > size + 1) THEN Panic
              ELSE call' = Copy("copy", call, IF pos < size THEN size - pos ELSE 0, pos + 1, pos, FALSE, last,
                                heap[call.from][pos])
    BY <1>5 DEF tab_remove
  <2>4. size \in Nat /\ size < MaxInt
    BY <2>2, <2>3, BorderFacts DEF aux_getn
  <2> DEFINE pos == IF call.args = 1 THEN size ELSE call.pos
             n == IF pos < size THEN size - pos ELSE 0
             last == IF 1 <= pos /\ pos <= size THEN <<size, nil>>
                     ELSE IF pos = 0 THEN <<0, nil>> ELSE <<>>
  <2>5. pos \in Ints /\ pos \in Int
    BY <1>2, <2>2, <2>4
  <2>6. CASE pos # size /\ (pos < 1 \/ pos > size + 1)
    <3>1. Panic
      BY <2>3, <2>6
    <3> QED BY <1>0, <3>1
  <2>7. CASE ~(pos # size /\ (pos < 1 \/ pos > size + 1))
    <3>1. call' = Copy("copy", call, n, pos + 1, pos, FALSE, last, heap[call.from][pos])
      BY <2>3, <2>7
    <3> HIDE DEF pos
    <3>2. n \in Nat /\ (n > 0 => pos + 1 \in Ints /\ (pos + 1) + n - 1 \in Ints /\ pos + n - 1 \in Ints)
      BY <1>2, <2>4, <2>5, <2>7
    <3>3. <<size, nil>> \in Ints \X Int /\ <<0, nil>> \in Ints \X Int
      BY <1>2, <2>4
    <3>4. last \in {<<>>} \cup (Ints \X Int)
      BY <3>3
    <3>5. heap[call.from][pos] \in Int /\ pos + 1 \in Int
      BY <2>2, <2>5
    <3> HIDE DEF n, last
    <3> QED BY <1>3, <2>2, <2>5, <3>1, <3>2, <3>4, <3>5
  <2> QED BY <2>6, <2>7
<1>6. ASSUME tab_move(call) PROVE Goal
  <2>1. call \in MoveScripts
    BY <1>6, ScriptKinds DEF tab_move
  <2>2. /\ call \in CopyScripts /\ call.f \in Ints /\ call.e \in Ints /\ call.t \in Ints
        /\ call.f \in Int /\ call.e \in Int /\ call.t \in Int
    BY <2>1, <1>2 DEF CopyScripts, MoveScripts
  <2>3. CASE call.e < call.f
    <3> DEFINE X == call' = Copy("copy", call, 0, call.f, call.t, FALSE, <<>>, nil)
    <3> HIDE DEF X
    <3>0. ~(call.e >= call.f)
      BY <2>2, <2>3
    <3>1. X
      BY <1>6, <2>3, <3>0 DEF tab_move, X
    <3>2. 0 \in Nat /\ ~(0 > 0) /\ FALSE \in BOOLEAN /\ <<>> \in {<<>>} \cup (Ints \X Int)
      OBVIOUS
    <3> QED BY <1>2, <1>3, <2>2, <3>1, <3>2 DEF X
  <2>4. CASE ~(call.e < call.f)
    <3> DEFINE n == call.e - call.f + 1
               b == ~(call.t > call.e \/ call.t <= call.f \/ call.to # call.from)
    <3>1. \/ Panic
          \/ ~(call.t > MaxInt - n + 1) /\ call' = Copy("copy", call, n, call.f, call.t, b, <<>>, nil)
      BY <1>6, <2>2, <2>4 DEF tab_move
    <3>2. n \in Nat /\ n > 0 /\ call.f + n - 1 \in Ints
      BY <1>2, <2>2, <2>4
    <3>3. ~(call.t > MaxInt - n + 1) => call.t + n - 1 \in Ints
      BY <1>2, <2>2, <2>4
    <3>4. b \in BOOLEAN
      OBVIOUS
    <3> HIDE DEF n, b
    <3> QED BY <1>0, <1>2, <1>3, <2>2, <3>1, <3>2, <3>3, <3>4
  <2> QED BY <2>3, <2>4
<1> QED BY <1>1, <1>4, <1>5, <1>6 DEF Goal

\* What concat, unpack and sort start with.
LEMMA ReadStarts ==
    ASSUME heap \in [Tables -> [Ints -> Int]], call \in Scripts,
           tab_concat(call) \/ tab_unpack(call)
    PROVE  /\ heap' = heap /\ old' = heap
           /\ \/ call' = Done("panic")
              \/ \E last \in Ints : call' = Read(call, call.i, last)
           /\ call \in ReadScripts /\ call.i \in Ints /\ call.i \in Int
<1>1. heap' = heap /\ old' = heap
  BY DEF tab_concat, tab_unpack, Begin
<1>2. call \in ReadScripts
  BY ScriptKinds DEF tab_concat, tab_unpack
<1>3. MaxInt \in Nat /\ Ints = (-MaxInt - 1)..MaxInt
  BY TableLibAssumption DEF Ints, MinInt
<1>4. call.i \in Ints /\ call.j \in Ints /\ call.from \in Tables
  BY <1>2 DEF ReadScripts
<1>5. \A size \in aux_getn(call.from) : size \in Ints
  BY <1>4, BorderFacts DEF aux_getn
<1>6. call.i \in Int
  BY <1>3, <1>4
<1>7. tab_concat(call) => \E last \in Ints : call' = Read(call, call.i, last)
  <2> SUFFICES ASSUME tab_concat(call) PROVE \E last \in Ints : call' = Read(call, call.i, last)
    OBVIOUS
  <2>1. PICK size \in aux_getn(call.from) : call' = Read(call, call.i, IF call.args = 3 THEN size ELSE call.j)
    BY DEF tab_concat
  <2> QED BY <1>4, <1>5, <2>1
<1>8. tab_unpack(call) => \/ call' = Done("panic")
                          \/ \E last \in Ints : call' = Read(call, call.i, last)
  <2> SUFFICES ASSUME tab_unpack(call) PROVE \/ call' = Done("panic")
                                             \/ \E last \in Ints : call' = Read(call, call.i, last)
    OBVIOUS
  <2>1. PICK size \in aux_getn(call.from) :
          LET j == IF call.args = 2 THEN size ELSE call.j
          IN IF call.i <= j /\ j - call.i >= INT_MAX - 1 THEN Panic ELSE call' = Read(call, call.i, j)
    BY DEF tab_unpack
  <2> DEFINE j == IF call.args = 2 THEN size ELSE call.j
  <2>2. Panic \/ call' = Read(call, call.i, j)
    BY <2>1
  <2>3. j \in Ints
    BY <1>4, <1>5
  <2> QED BY <2>2, <2>3 DEF Panic
<1> QED BY <1>1, <1>2, <1>4, <1>6, <1>7, <1>8

LEMMA SortStarts ==
    ASSUME heap \in [Tables -> [Ints -> Int]], call \in Scripts, tab_sort(call)
    PROVE  /\ heap' = heap /\ old' = heap
           /\ \/ call' = Done("ok") \/ call' = Done("panic")
              \/ /\ call' \in SortCalls /\ SortInts(call') /\ call'.pc = "ends" /\ call'.stack = <<>>
                 /\ call'.lo = 1 /\ call'.up = call'.n
<1>1. heap' = heap /\ old' = heap
  BY DEF tab_sort, Begin
<1>2. call \in SortScripts
  BY ScriptKinds DEF tab_sort
<1>3. call.from \in Tables
  BY <1>2 DEF SortScripts
<1>4. PICK n \in aux_getn(call.from) :
        call' = CASE n <= 1 -> Done("ok")
                  [] n > 1 /\ n >= INT_MAX -> Done("panic")
                  [] OTHER -> [op |-> "sorting", script |-> call, n |-> n, pc |-> "ends", lo |-> 1, up |-> n,
                               i |-> 0, j |-> 0, p |-> 0, rnd |-> FALSE, stack |-> <<>>]
  BY DEF tab_sort
<1>5. n \in Nat /\ n < MaxInt
  BY <1>3, <1>4, BorderFacts DEF aux_getn
<1>6. CASE n > 1 /\ ~(n >= INT_MAX)
  <2>0. call' = [op |-> "sorting", script |-> call, n |-> n, pc |-> "ends", lo |-> 1, up |-> n,
                 i |-> 0, j |-> 0, p |-> 0, rnd |-> FALSE, stack |-> <<>>]
    BY <1>4, <1>5, <1>6
  <2>1. call' \in SortCalls
    BY <1>2, <1>5, <1>6, <2>0 DEF SortCalls
  <2>2. /\ call'.n = n /\ call'.lo = 1 /\ call'.up = n /\ call'.stack = <<>> /\ call'.pc = "ends"
    BY <2>0
  <2>3. Bound(call', 0) = n
    BY <2>2 DEF Bound
  <2>4. RangesApart(call')
    BY <1>5, <1>6, <2>2, <2>3 DEF RangesApart
  <2>5. ScansInside(call')
    BY <2>2 DEF ScansInside
  <2> QED BY <1>1, <2>1, <2>2, <2>4, <2>5 DEF SortInts
<1>7. CASE n <= 1 \/ n >= INT_MAX
  <2>1. call' = Done("ok") \/ call' = Done("panic")
    BY <1>4, <1>5, <1>7
  <2> QED BY <1>1, <2>1
<1> QED BY <1>5, <1>6, <1>7, TableLibAssumption

\* The element a copying call moves next, and where it moves it.
LEMMA CopySteps ==
    ASSUME heap \in [Tables -> [Ints -> Int]], call \in CopyCalls, CopyInts(call), call.op = "copy", CopyNext,
           NEW k, k = IF call.backwards THEN call.n - 1 - call.done ELSE call.done
    PROVE  /\ call' = [call EXCEPT !.done = call.done + 1] /\ old' = old
           /\ heap' = [heap EXCEPT ![call.script.to][call.at + k] = heap[call.script.from][call.first + k]]
           /\ k \in 0..(call.n - 1) /\ call.at + k \in Ints /\ call.first + k \in Ints
           /\ heap[call.script.from][call.first + k] \in Int
           /\ call' \in CopyCalls /\ CopyInts(call')
           /\ heap' \in [Tables -> [Ints -> Int]]
<1>1. /\ call' = [call EXCEPT !.done = call.done + 1] /\ old' = old /\ call.done < call.n
      /\ heap' = [heap EXCEPT ![call.script.to][call.at + k] = heap[call.script.from][call.first + k]]
  BY DEF CopyNext
<1>2. /\ call.n \in Nat /\ call.done \in Nat /\ call.at \in Int /\ call.first \in Int
      /\ call.script.from \in Tables /\ call.script.to \in Tables
  BY Kinds DEF CopyCalls
<1>3. /\ call.first \in Ints /\ call.first + call.n - 1 \in Ints
      /\ call.at \in Ints /\ call.at + call.n - 1 \in Ints
  BY <1>1, <1>2 DEF CopyInts
<1>4. k \in 0..(call.n - 1)
  BY <1>1, <1>2
<1>5. Ints = (-MaxInt - 1)..MaxInt /\ MaxInt \in Nat
  BY TableLibAssumption DEF Ints, MinInt
<1>6. call.at + k \in Ints /\ call.first + k \in Ints
  <2>1. \A x \in Int, n \in Nat : \A m \in 0..(n - 1) :
           x \in (-MaxInt - 1)..MaxInt /\ x + n - 1 \in (-MaxInt - 1)..MaxInt =>
              x + m \in (-MaxInt - 1)..MaxInt
    BY <1>5
  <2> QED BY <1>2, <1>3, <1>4, <1>5, <2>1
<1>7. heap[call.script.from][call.first + k] \in Int
  BY <1>2, <1>6
<1>8. call' \in CopyCalls /\ CopyInts(call')
  <2> DEFINE d == call.done + 1
  <2>1. d \in Nat /\ d <= call.n /\ call' = [call EXCEPT !.done = d]
    BY <1>1, <1>2
  <2> HIDE DEF d
  <2>2. call' \in CopyCalls /\ call'.n = call.n /\ call'.first = call.first /\ call'.at = call.at /\ call'.done = d
    BY <2>1 DEF CopyCalls
  <2> QED BY <2>1, <2>2 DEF CopyInts
<1>9. heap' \in [Tables -> [Ints -> Int]]
  <2> DEFINE x == call.at + k  v == heap[call.script.from][call.first + k]
  <2>1. x \in Ints /\ v \in Int /\ heap' = [heap EXCEPT ![call.script.to][x] = v]
    BY <1>1, <1>6, <1>7
  <2> HIDE DEF x, v, Ints
  <2> QED BY <1>2, <2>1
<1> QED BY <1>1, <1>4, <1>6, <1>7, <1>8, <1>9

\* The last write of a copying call.
LEMMA CopyEnds ==
    ASSUME heap \in [Tables -> [Ints -> Int]], call \in CopyCalls, CopyInts(call), CopyEnd
    PROVE  /\ call' = Done("ok") /\ old' = old /\ call.done = call.n
           /\ heap' \in [Tables -> [Ints -> Int]]
           /\ call.then = <<>> => heap' = heap
           /\ call.then # <<>> => /\ call.then[1] \in Ints /\ call.then[2] \in Int
                                  /\ heap' = [heap EXCEPT ![call.script.to][call.then[1]] = call.then[2]]
<1>1. call' = Done("ok") /\ old' = old /\ call.done = call.n
  BY DEF CopyEnd
<1>2. /\ call.then = <<>> => heap' = heap
      /\ call.then # <<>> => heap' = [heap EXCEPT ![call.script.to][call.then[1]] = call.then[2]]
  BY DEF CopyEnd
<1>3. call.then # <<>> => call.then[1] \in Ints /\ call.then[2] \in Int
  BY DEF CopyCalls
<1>4. call.script.to \in Tables
  BY Kinds
<1>5. heap' \in [Tables -> [Ints -> Int]]
  <2> DEFINE x == call.then[1]  v == call.then[2]
  <2> HIDE DEF x, v, Ints
  <2>1. call.then # <<>> => x \in Ints /\ v \in Int /\ heap' = [heap EXCEPT ![call.script.to][x] = v]
    BY <1>2, <1>3 DEF x, v
  <2> QED BY <1>2, <1>4, <2>1
<1> QED BY <1>1, <1>2, <1>3, <1>5

\* The steps of a reading call: an element is appended, the call ends after its
\* last one, or concat meets a nil.
LEMMA ReadSteps ==
    ASSUME heap \in [Tables -> [Ints -> Int]], call \in ReadCalls, ReadInts(call), ReadNext \/ ReadEnd
    PROVE  /\ heap' = heap /\ old' = old
           /\ \/ call' = Done("panic")
              \/ /\ call' = [call EXCEPT !.out = Append(call.out, heap[call.script.from][call.i]), !.i = call.i + 1]
                 /\ call.i < call.last /\ call' \in ReadCalls /\ ReadInts(call')
              \/ \E out \in Seq(Int) :
                    /\ call' = [op |-> "done", of |-> [call EXCEPT !.out = out], r |-> "ok"]
                    /\ [call EXCEPT !.out = out] \in ReadCalls /\ ReadInts([call EXCEPT !.out = out])
                    /\ \/ call.i = call.last /\ out = Append(call.out, heap[call.script.from][call.last])
                       \/ call.i > call.last /\ out = call.out
<1>1. heap' = heap /\ old' = old
  BY DEF ReadNext, ReadEnd
<1>2. /\ call.script.from \in Tables /\ call.i \in Int /\ call.last \in Int
      /\ call.i \in Ints /\ call.last \in Ints /\ call.out \in Seq(Int)
  BY Kinds DEF ReadCalls, ReadInts
<1>3. Ints = (-MaxInt - 1)..MaxInt /\ MaxInt \in Nat
  BY TableLibAssumption DEF Ints, MinInt
<1>4. heap[call.script.from][call.i] \in Int /\ heap[call.script.from][call.last] \in Int
  BY <1>2
<1>5. CASE ReadNext
  <2> DEFINE v == heap[call.script.from][call.i]  j == call.i + 1  out == Append(call.out, v)
  <2>1. call.i < call.last
    BY <1>5 DEF ReadNext
  <2>2. \/ call' = Done("panic")
        \/ call' = [call EXCEPT !.out = Append(@, v), !.i = @ + 1]
    BY <1>5 DEF ReadNext, Panic
  <2>3. j \in Int /\ j \in Ints /\ out \in Seq(Int)
    BY <1>2, <1>3, <1>4, <2>1
  <2>4. CASE call' = [call EXCEPT !.out = Append(@, v), !.i = @ + 1]
    <3>1. call' = [call EXCEPT !.out = out, !.i = j]
      BY <2>4
    <3> HIDE DEF out, j
    <3>2. call' \in ReadCalls /\ call'.i = j /\ call'.last = call.last
      BY <2>3, <3>1 DEF ReadCalls
    <3>3. ReadInts(call')
      BY <1>2, <2>3, <3>2 DEF ReadInts
    <3> QED BY <1>1, <2>1, <3>1, <3>2, <3>3 DEF out, j
  <2> QED BY <1>1, <2>2, <2>4
<1>6. CASE ReadEnd
  <2> DEFINE v == heap[call.script.from][call.last]
             out == IF call.i = call.last THEN Append(call.out, v) ELSE call.out
  <2>1. call.i >= call.last
    BY <1>6 DEF ReadEnd
  <2>2. \/ call' = Done("panic")
        \/ call' = [Done("ok") EXCEPT !.of.out = out]
    BY <1>6 DEF ReadEnd, Panic
  <2>3. out \in Seq(Int)
    BY <1>2, <1>4
  <2>4. \/ call.i = call.last /\ out = Append(call.out, v)
        \/ call.i > call.last /\ out = call.out
    BY <1>2, <2>1
  <2>5. CASE call' = [Done("ok") EXCEPT !.of.out = out]
    <3> HIDE DEF out
    <3>1. call' = [op |-> "done", of |-> [call EXCEPT !.out = out], r |-> "ok"]
      BY <2>5 DEF Done
    <3>2. [call EXCEPT !.out = out] \in ReadCalls
      BY <2>3 DEF ReadCalls
    <3>3. [call EXCEPT !.out = out].i = call.i /\ [call EXCEPT !.out = out].last = call.last
      BY DEF ReadCalls
    <3>4. ReadInts([call EXCEPT !.out = out])
      BY <1>2, <3>3 DEF ReadInts
    <3> QED BY <1>1, <2>3, <2>4, <3>1, <3>2, <3>4
  <2> QED BY <1>1, <2>2, <2>5
<1> QED BY <1>5, <1>6

\* A call keeps being of its kind, with its ranges inside the integers.
LEMMA LibInit == Init => LibInv
<1> SUFFICES ASSUME Init PROVE LibInv
  OBVIOUS
<1>1. PICK c \in Cases : heap = c.heap /\ old = c.heap /\ call = c.script
  BY DEF Init
<1>2. c.heap \in [Tables -> [Ints -> Int]] /\ c.script \in Scripts
  BY TableLibAssumption DEF Scripts
<1>3. call.op # "done"
  BY <1>1, <1>2, Kinds
<1> QED BY <1>1, <1>2, <1>3 DEF LibInv, Made

\* Only calls that have not ended take steps, each of the actions of its kind.
LEMMA LibActions ==
    ASSUME LibInv, Next
    PROVE  \/ /\ call \in Scripts /\ heap = old /\ call = Made
              /\ \/ tab_insert(call) \/ tab_remove(call) \/ tab_move(call)
                 \/ tab_concat(call) \/ tab_unpack(call) \/ tab_sort(call)
           \/ call \in CopyCalls /\ CopyInts(call) /\ call.op = "copy" /\ call = Made /\ (CopyNext \/ CopyEnd)
           \/ call \in ReadCalls /\ ReadInts(call) /\ call.op = "read" /\ call = Made /\ (ReadNext \/ ReadEnd)
           \/ call \in SortCalls /\ SortInts(call) /\ call.op = "sorting" /\ call = Made /\ SortAction
<1>1. Call => /\ call.op \in {"insert", "remove", "move", "concat", "unpack", "sort"}
              /\ \/ tab_insert(call) \/ tab_remove(call) \/ tab_move(call)
                 \/ tab_concat(call) \/ tab_unpack(call) \/ tab_sort(call)
  <2>1. Call => \/ tab_insert(call) \/ tab_remove(call) \/ tab_move(call)
                \/ tab_concat(call) \/ tab_unpack(call) \/ tab_sort(call)
    BY DEF Call
  <2>2. /\ tab_insert(call) => call.op = "insert"
        /\ tab_remove(call) => call.op = "remove"
        /\ tab_move(call) => call.op = "move"
        /\ tab_concat(call) => call.op = "concat"
        /\ tab_unpack(call) => call.op = "unpack"
        /\ tab_sort(call) => call.op = "sort"
    BY DEF tab_insert, tab_remove, tab_move, tab_concat, tab_unpack, tab_sort
  <2> QED BY <2>1, <2>2
<1>2. CopyNext \/ CopyEnd => call.op = "copy"
  BY DEF CopyNext, CopyEnd
<1>3. ReadNext \/ ReadEnd => call.op = "read"
  BY DEF ReadNext, ReadEnd
<1>4. SortAction => call.op = "sorting"
  BY DEF SortAction, SortRange, SortEnds, SortPivot, SortPivot2, PartitionUp, PartitionDown
<1>5. Next => Call \/ CopyNext \/ CopyEnd \/ ReadNext \/ ReadEnd \/ SortAction
  BY DEF Next, SortAction
<1> QED BY <1>1, <1>2, <1>3, <1>4, <1>5, CallKinds

LEMMA LibStep == LibInv /\ [Next]_vars => LibInv'
<1> SUFFICES ASSUME LibInv, [Next]_vars PROVE LibInv'
  OBVIOUS
<1> DEFINE H == [Tables -> [Ints -> Int]]
<1>0. heap \in H /\ old \in H
  BY DEF LibInv
<1> HIDE DEF H
\* the call ends, or goes on as a call of its kind
<1>1. ASSUME heap' \in H, old' \in H, NEW c, c \in Scripts \/ Started(c), NEW r \in {"ok", "panic"},
             call' = [op |-> "done", of |-> c, r |-> r]
      PROVE  LibInv'
  <2>1. Made' = c
    BY <1>1 DEF Made
  <2> QED BY <1>1, <2>1 DEF LibInv, H
<1>2. ASSUME heap' \in H, old' \in H, Started(call') PROVE LibInv'
  <2>1. call'.op # "done" /\ call' \notin Scripts
    BY <1>2, Kinds DEF Started
  <2>2. Made' = call'
    BY <2>1 DEF Made
  <2> QED BY <1>2, <2>1, <2>2 DEF LibInv, H
<1>3. CASE UNCHANGED vars
  BY <1>3 DEF vars, LibInv, Made
<1>4. CASE Next
  <2>1. CASE call \in Scripts /\ (tab_insert(call) \/ tab_remove(call) \/ tab_move(call))
    <3>1. /\ heap' = heap /\ old' = heap
          /\ \/ call' = Done("panic")
             \/ call' \in CopyCalls /\ CopyInts(call')
      BY <1>0, <2>1, CopyStarts DEF H
    <3> QED BY <1>0, <1>1, <1>2, <2>1, <3>1 DEF Done, Started
  <2>2. CASE call \in Scripts /\ (tab_concat(call) \/ tab_unpack(call))
    <3>1. /\ heap' = heap /\ old' = heap
          /\ \/ call' = Done("panic")
             \/ \E last \in Ints : call' = Read(call, call.i, last)
          /\ call \in ReadScripts /\ call.i \in Ints /\ call.i \in Int
      BY <1>0, <2>2, ReadStarts DEF H
    <3>2. ASSUME NEW last \in Ints, call' = Read(call, call.i, last) PROVE LibInv'
      <4>1. last \in Int
        BY TableLibAssumption DEF Ints, MinInt
      <4>2. call' \in ReadCalls /\ call'.last = last /\ call'.i = call.i
        BY <3>1, <3>2, <4>1 DEF Read, ReadCalls
      <4> QED BY <1>0, <1>2, <3>1, <4>2 DEF Started, ReadInts
    <3> QED BY <1>0, <1>1, <2>2, <3>1, <3>2 DEF Done
  <2>3. CASE call \in Scripts /\ tab_sort(call)
    <3>1. /\ heap' = heap /\ old' = heap
          /\ \/ call' = Done("ok") \/ call' = Done("panic")
             \/ call' \in SortCalls /\ SortInts(call')
      BY <1>0, <2>3, SortStarts DEF H
    <3> QED BY <1>0, <1>1, <1>2, <2>3, <3>1 DEF Done, Started
  <2>4. CASE call \in CopyCalls /\ CopyInts(call) /\ call.op = "copy" /\ CopyNext
    <3>1. heap' \in H /\ old' = old /\ call' \in CopyCalls /\ CopyInts(call')
      BY <1>0, <2>4, CopySteps DEF H
    <3> QED BY <1>0, <1>2, <3>1 DEF Started
  <2>5. CASE call \in CopyCalls /\ CopyInts(call) /\ CopyEnd
    <3>1. heap' \in H /\ old' = old /\ call' = Done("ok")
      BY <1>0, <2>5, CopyEnds DEF H
    <3> QED BY <1>0, <1>1, <2>5, <3>1 DEF Started, Done
  <2>6. CASE call \in ReadCalls /\ ReadInts(call) /\ (ReadNext \/ ReadEnd)
    <3>1. /\ heap' = heap /\ old' = old
          /\ \/ call' = Done("panic")
             \/ call' \in ReadCalls /\ ReadInts(call')
             \/ \E out \in Seq(Int) :
                   /\ call' = [op |-> "done", of |-> [call EXCEPT !.out = out], r |-> "ok"]
                   /\ [call EXCEPT !.out = out] \in ReadCalls /\ ReadInts([call EXCEPT !.out = out])
      BY <1>0, <2>6, ReadSteps DEF H
    <3> QED BY <1>0, <1>1, <1>2, <2>6, <3>1 DEF Started, Done
  <2>7. CASE call \in SortCalls /\ SortInts(call) /\ SortAction
    <3>1. /\ old' = old
          /\ \/ call' = Done("ok") \/ call' = Done("panic")
             \/ call' \in SortCalls /\ SortInts(call')
          /\ \E a, b, c, d \in call.lo..call.up : Exchanged(a, b, c, d)
      BY <1>0, <2>7, SortSteps DEF H
    <3>2. heap' \in H
      <4>1. PICK a, b, c, d \in call.lo..call.up : Exchanged(a, b, c, d)
        BY <3>1
      <4>2. a \in Ints /\ b \in Ints /\ c \in Ints /\ d \in Ints
        BY <2>7, TableLibAssumption DEF SortInts, RangesApart, SortCalls, Ints, MinInt
      <4>3. call.script.from \in Tables /\ T \in [Ints -> Int]
        BY <1>0, <2>7, Kinds DEF T, H
      <4>4. Swapped(Swapped(T, a, b), c, d) \in [Ints -> Int]
        BY <4>2, <4>3, SwapFacts
      <4> QED BY <1>0, <4>1, <4>3, <4>4 DEF Exchanged, H
    <3> QED BY <1>0, <1>1, <1>2, <2>7, <3>1, <3>2 DEF Started, Done
  <2> QED BY <1>4, <2>1, <2>2, <2>3, <2>4, <2>5, <2>6, <2>7, LibActions
<1> QED BY <1>3, <1>4

LEMMA LibTyped == Spec => []LibInv
BY LibInit, LibStep, PTL DEF Spec

-----------------------------------------------------------------------------
(* Properties *)

\* Whatever the comparison function answers, sort (auxsort, sort_partition) compares
\* and moves only elements of the range it is sorting, the ranges that wait do not
\* overlap it, and auxsort calls itself for less than half of its elements.
THEOREM StaysInRange == Spec => []SortStaysInRange
<1>1. LibInv => SortStaysInRange
  <2> SUFFICES ASSUME LibInv, call.op = "sorting" PROVE SortStaysInRange
    BY DEF SortStaysInRange
  <2>1. call \in SortCalls /\ RangesApart(call) /\ ScansInside(call)
    BY CallKinds DEF SortInts
  <2>2. DOMAIN call.stack = 1..Len(call.stack)
    BY <2>1 DEF SortCalls
  <2> QED BY <2>1, <2>2 DEF SortStaysInRange, RangesApart, ScansInside, Bound
<1> QED BY <1>1, LibTyped, PTL

\* A sequence of consecutive elements of t, extended by the next one.
Window(t, lo, n) == [k \in 1..n |-> t[lo + k - 1]]
LEMMA OneMoreRead ==
    ASSUME NEW t, NEW lo \in Int, NEW i \in Int, lo <= i, t[i] \in Int,
           NEW s \in Seq(Int), s = Window(t, lo, i - lo)
    PROVE  Append(s, t[i]) = Window(t, lo, i + 1 - lo)
<1>1. PICK n \in Nat : n = i - lo
  OBVIOUS
<1>2. Len(s) = n /\ DOMAIN s = 1..n
  BY <1>1 DEF Window
<1> DEFINE a == Append(s, t[i])
<1>3. /\ a \in Seq(Int) /\ Len(a) = n + 1 /\ a[n + 1] = t[i]
      /\ \A k \in 1..n : a[k] = s[k]
  BY <1>2, AppendProperties
<1> HIDE DEF a
<1>4. DOMAIN a = 1..(n + 1) /\ a = [k \in DOMAIN a |-> a[k]]
  BY <1>3
<1>5. \A k \in 1..(n + 1) : a[k] = t[lo + k - 1]
  <2> TAKE k \in 1..(n + 1)
  <2>1. CASE k = n + 1
    <3>1. lo + k - 1 = i
      BY <1>1, <2>1
    <3> QED BY <1>3, <2>1, <3>1
  <2>2. CASE k # n + 1
    <3>1. k \in 1..n /\ k \in 1..(i - lo)
      BY <1>1, <2>2
    <3>2. s[k] = t[lo + k - 1]
      BY <3>1 DEF Window
    <3> QED BY <1>3, <3>1, <3>2
  <2> QED BY <2>1, <2>2
<1>6. a = [k \in 1..(n + 1) |-> t[lo + k - 1]]
  BY <1>4, <1>5
<1>7. n + 1 = i + 1 - lo
  BY <1>1
<1> QED BY <1>6, <1>7 DEF a, Window

\* A reading call has read its range up to i; reading does not change the heap.
ReadSoFar(c) ==
    /\ c.script.i <= c.i /\ (c.i = c.script.i \/ c.i <= c.last)
    /\ c.out = Window(old[c.script.from], c.script.i, c.i - c.script.i)
ReadInv == /\ Made \in ReadCalls => heap = old
           /\ call.op = "read" => ReadSoFar(call)
           /\ ReadsItsRange

LEMMA ReadInit == Init => ReadInv
<1> SUFFICES ASSUME Init PROVE ReadInv
  OBVIOUS
<1>1. PICK c \in Cases : heap = c.heap /\ old = c.heap /\ call = c.script
  BY DEF Init
<1>2. call \in Scripts
  BY <1>1, TableLibAssumption DEF Scripts
<1>3. call.op # "done" /\ call.op # "read"
  BY <1>2, Kinds
<1> QED BY <1>1, <1>3 DEF ReadInv, ReadsItsRange

LEMMA ReadStep == LibInv /\ ReadInv /\ [Next]_vars => ReadInv'
<1> SUFFICES ASSUME LibInv, ReadInv, [Next]_vars PROVE ReadInv'
  OBVIOUS
<1>0. heap \in [Tables -> [Ints -> Int]]
  BY DEF LibInv
<1>1. CASE UNCHANGED vars
  BY <1>1 DEF vars, ReadInv, ReadsItsRange, ReadSoFar, Made
\* a call that is not a reading one
<1>2. ASSUME call'.op \notin {"read", "done"}, call' \notin ReadCalls PROVE ReadInv'
  BY <1>2 DEF ReadInv, ReadsItsRange, Made
<1>3. ASSUME NEW c, c \notin ReadCalls, "out" \notin DOMAIN c, NEW r, call' = [op |-> "done", of |-> c, r |-> r]
      PROVE  ReadInv'
  <2>1. call'.op = "done" /\ call'.of = c
    BY <1>3
  <2> QED BY <1>3, <2>1 DEF ReadInv, ReadsItsRange, Made
<1>4. ASSUME NEW c, heap' = old', call' = [op |-> "done", of |-> c, r |-> "panic"] PROVE ReadInv'
  BY <1>4 DEF ReadInv, ReadsItsRange, Made
<1>5. CASE Next
  <2>1. CASE call \in Scripts /\ (tab_insert(call) \/ tab_remove(call) \/ tab_move(call))
    <3>1. call' = Done("panic") \/ call' \in CopyCalls
      BY <1>0, <2>1, CopyStarts
    <3>2. call \notin ReadCalls /\ "out" \notin DOMAIN call
      BY <2>1, Kinds
    <3> QED BY <1>2, <1>3, <3>1, <3>2, Kinds DEF Done
  <2>2. CASE call \in Scripts /\ (tab_concat(call) \/ tab_unpack(call))
    <3>1. /\ heap' = heap /\ old' = heap
          /\ \/ call' = Done("panic")
             \/ \E last \in Ints : call' = Read(call, call.i, last)
          /\ call.i \in Int
      BY <1>0, <2>2, ReadStarts
    <3>2. ASSUME NEW last \in Ints, call' = Read(call, call.i, last) PROVE ReadInv'
      <4>1. call'.op = "read" /\ call'.i = call.i /\ call'.script = call /\ call'.out = <<>>
        BY <3>2 DEF Read
      <4>2. <<>> = Window(old'[call.from], call.i, call.i - call.i)
        <5>1. 1..(call.i - call.i) = {}
          BY <3>1
        <5> QED BY <5>1 DEF Window
      <4>3. ReadSoFar(call)'
        BY <3>1, <4>1, <4>2 DEF ReadSoFar
      <4> QED BY <3>1, <4>1, <4>3 DEF ReadInv, ReadsItsRange
    <3> QED BY <1>4, <3>1, <3>2 DEF Done
  <2>3. CASE call \in Scripts /\ tab_sort(call)
    <3>1. call' = Done("ok") \/ call' = Done("panic") \/ call' \in SortCalls
      BY <1>0, <2>3, SortStarts
    <3>2. call \notin ReadCalls /\ "out" \notin DOMAIN call
      BY <2>3, Kinds
    <3> QED BY <1>2, <1>3, <3>1, <3>2, Kinds DEF Done
  <2>4. CASE call \in CopyCalls /\ CopyInts(call) /\ call.op = "copy" /\ CopyNext
    <3>1. call' \in CopyCalls
      BY <1>0, <2>4, CopySteps
    <3> QED BY <1>2, <3>1, Kinds
  <2>5. CASE call \in CopyCalls /\ CopyInts(call) /\ CopyEnd
    <3>1. call' = Done("ok")
      BY <1>0, <2>5, CopyEnds
    <3>2. call \notin ReadCalls /\ "out" \notin DOMAIN call
      BY <2>5, Kinds
    <3> QED BY <1>3, <3>1, <3>2 DEF Done
  <2>6. CASE call \in ReadCalls /\ ReadInts(call) /\ call.op = "read" /\ call = Made /\ (ReadNext \/ ReadEnd)
    <3> DEFINE t == old[call.script.from]  lo == call.script.i
    <3>1. /\ heap' = heap /\ old' = old
          /\ \/ call' = Done("panic")
             \/ /\ call' = [call EXCEPT !.out = Append(call.out, heap[call.script.from][call.i]), !.i = call.i + 1]
                /\ call.i < call.last
             \/ \E out \in Seq(Int) :
                   /\ call' = [op |-> "done", of |-> [call EXCEPT !.out = out], r |-> "ok"]
                   /\ \/ call.i = call.last /\ out = Append(call.out, heap[call.script.from][call.last])
                      \/ call.i > call.last /\ out = call.out
      BY <1>0, <2>6, ReadSteps
    <3>2. /\ heap = old /\ ReadSoFar(call)
      BY <2>6 DEF ReadInv
    <3>3. /\ call.i \in Int /\ call.last \in Int /\ call.out \in Seq(Int) /\ lo \in Int
          /\ call.i \in Ints /\ call.script.from \in Tables
      <4>1. call.script \in ReadScripts
        BY <2>6 DEF ReadCalls
      <4>2. lo \in Ints
        BY <4>1 DEF ReadScripts
      <4> QED BY <2>6, <4>2, Kinds, TableLibAssumption DEF ReadCalls, ReadInts, Ints, MinInt
    <3>4. lo <= call.i /\ (call.i = lo \/ call.i <= call.last) /\ call.out = Window(t, lo, call.i - lo)
      BY <3>2 DEF ReadSoFar
    <3>5. Append(call.out, t[call.i]) = Window(t, lo, call.i + 1 - lo)
      <4>1. t[call.i] \in Int
        BY <1>0, <3>2, <3>3
      <4> HIDE DEF t, lo
      <4> QED BY <3>3, <3>4, <4>1, OneMoreRead
    <3>6. ASSUME call' = [call EXCEPT !.out = Append(call.out, heap[call.script.from][call.i]), !.i = call.i + 1],
                 call.i < call.last
          PROVE  ReadInv'
      <4> DEFINE out == Append(call.out, heap[call.script.from][call.i])  i == call.i + 1
      <4>1. call' = [call EXCEPT !.out = out, !.i = i]
        BY <3>6
      <4>2. lo <= i /\ i <= call.last
        BY <3>3, <3>4, <3>6
      <4>3. out = Window(t, lo, i - lo)
        <5>1. heap[call.script.from][call.i] = t[call.i]
          BY <3>2
        <5>2. call.i + 1 - lo = (call.i + 1) - lo
          BY <3>3
        <5> HIDE DEF t, lo
        <5> QED BY <3>5, <5>1, <5>2
      <4> HIDE DEF out, i
      <4>4. call'.out = out /\ call'.i = i /\ call'.script = call.script /\ call'.last = call.last /\ call'.op = "read"
        BY <2>6, <4>1 DEF ReadCalls
      <4>5. ReadSoFar(call)'
        BY <3>1, <4>2, <4>3, <4>4 DEF ReadSoFar
      <4> QED BY <3>1, <3>2, <4>4, <4>5 DEF ReadInv, ReadsItsRange
    <3>7. ASSUME NEW out \in Seq(Int), call' = [op |-> "done", of |-> [call EXCEPT !.out = out], r |-> "ok"],
                 \/ call.i = call.last /\ out = Append(call.out, heap[call.script.from][call.last])
                 \/ call.i > call.last /\ out = call.out
          PROVE  ReadInv'
      <4> DEFINE n == IF call.last < lo THEN 0 ELSE call.last - lo + 1
      <4>1. out = Window(t, lo, n)
        <5>1. CASE call.i = call.last /\ out = Append(call.out, heap[call.script.from][call.last])
          <6>1. n = call.i + 1 - lo
            BY <3>3, <3>4, <5>1
          <6> QED BY <3>2, <3>5, <5>1, <6>1
        <5>2. CASE call.i > call.last /\ out = call.out
          <6>1. n = 0 /\ call.i - lo = 0
            BY <3>3, <3>4, <5>2
          <6> HIDE DEF n
          <6> QED BY <3>4, <5>2, <6>1
        <5> QED BY <3>7, <5>1, <5>2
      <4> DEFINE c == [call EXCEPT !.out = out]
      <4>2. c.script = call.script /\ c.last = call.last /\ c.out = out
        BY <2>6 DEF ReadCalls
      <4>3. call'.op = "done" /\ call'.of = c
        BY <3>7
      <4> HIDE DEF c
      <4>4. ReadsItsRange'
        BY <3>1, <4>1, <4>2, <4>3 DEF ReadsItsRange, Window
      <4> QED BY <3>1, <3>2, <4>3, <4>4 DEF ReadInv, Made
    <3> QED BY <1>4, <3>1, <3>2, <3>6, <3>7 DEF Done
  <2>7. CASE call \in SortCalls /\ SortInts(call) /\ SortAction
    <3>1. call' = Done("ok") \/ call' = Done("panic") \/ call' \in SortCalls
      BY <1>0, <2>7, SortSteps
    <3>2. call \notin ReadCalls /\ "out" \notin DOMAIN call
      BY <2>7, Kinds
    <3> QED BY <1>2, <1>3, <3>1, <3>2, Kinds DEF Done
  <2> QED BY <1>5, <2>1, <2>2, <2>3, <2>4, <2>5, <2>6, <2>7, LibActions
<1> QED BY <1>1, <1>5

\* concat and unpack (tconcat, tunpack) end with the elements of their range in order,
\* each read once, also where the range ends at the largest integer.
THEOREM ReadsRange == Spec => []ReadsItsRange
<1>1. Init => LibInv /\ ReadInv
  BY LibInit, ReadInit
<1>2. LibInv /\ ReadInv /\ [Next]_vars => (LibInv /\ ReadInv)'
  BY LibStep, ReadStep
<1>3. LibInv /\ ReadInv => ReadsItsRange
  BY DEF ReadInv
<1> QED BY <1>1, <1>2, <1>3, PTL DEF Spec

-----------------------------------------------------------------------------
(* sort permutes *)

CountOf(t, n, v) == Cardinality({k \in 1..n : t[k] = v})

\* Exchanging two elements changes how often no value occurs.
LEMMA SwapCounts ==
    ASSUME NEW t \in [Ints -> Int], NEW n \in Nat, 1..n \subseteq Ints, NEW a \in 1..n, NEW b \in 1..n, NEW v
    PROVE  CountOf(Swapped(t, a, b), n, v) = CountOf(t, n, v)
<1> DEFINE A == {k \in 1..n : Swapped(t, a, b)[k] = v}
           B == {k \in 1..n : t[k] = v}
           f == [k \in A |-> IF k = a THEN b ELSE IF k = b THEN a ELSE k]
<1>1. /\ Swapped(t, a, b)[a] = t[b] /\ Swapped(t, a, b)[b] = t[a]
      /\ \A k \in 1..n : k # a /\ k # b => Swapped(t, a, b)[k] = t[k]
  <2>1. a \in Ints /\ b \in Ints
    OBVIOUS
  <2> QED BY <2>1, SwapFacts
<1>2. A \subseteq 1..n /\ B \subseteq 1..n
  OBVIOUS
<1>3. IsFiniteSet(A)
  BY <1>2, FiniteInterval
<1>4. f \in [A -> B]
  BY <1>1
<1>5. \A k, m \in A : f[k] = f[m] => k = m
  OBVIOUS
<1>6. \A m \in B : \E k \in A : f[k] = m
  <2> TAKE m \in B
  <2> DEFINE k == IF m = a THEN b ELSE IF m = b THEN a ELSE m
  <2>1. k \in A
    BY <1>1
  <2>2. f[k] = m
    BY <2>1
  <2> QED BY <2>1, <2>2
<1>7. f \in Bijection(A, B)
  <2> HIDE DEF f, A, B
  <2>1. IsInjective(f)
    BY <1>4, <1>5 DEF IsInjective
  <2> QED BY <1>4, <1>6, <2>1 DEF Bijection, Injection, Surjection
<1> HIDE DEF f, A, B
<1>8. Cardinality(A) = Cardinality(B)
  <2>1. ExistsBijection(A, B)
    BY <1>7 DEF ExistsBijection
  <2> QED BY <1>3, <2>1, FS_Bijection
<1> QED BY <1>8 DEF A, B, CountOf

\* Every value occurs in the table of a sort as often as when the sort began.
PermInv ==
    Made \in SortCalls =>
        \A v : CountOf(heap[Made.script.from], Made.n, v) = CountOf(old[Made.script.from], Made.n, v)

\* The steps of the other functions do not lead into a sort.
LEMMA OtherCalls ==
    ASSUME LibInv, Next
    PROVE  \/ call \in Scripts /\ tab_sort(call)
           \/ call \in SortCalls /\ SortInts(call) /\ call.op = "sorting" /\ call = Made /\ SortAction
           \/ Made' \notin SortCalls /\ call'.op # "sorting"
<1>0. heap \in [Tables -> [Ints -> Int]]
  BY DEF LibInv
<1>1. ASSUME NEW c, c \notin SortCalls, NEW r, call' = [op |-> "done", of |-> c, r |-> r]
      PROVE  Made' \notin SortCalls /\ call'.op # "sorting"
  BY <1>1 DEF Made
<1>2. ASSUME call' \in CopyCalls \/ call' \in ReadCalls
      PROVE  Made' \notin SortCalls /\ call'.op # "sorting"
  BY <1>2, Kinds DEF Made
<1>3. CASE call \in Scripts /\ (tab_insert(call) \/ tab_remove(call) \/ tab_move(call))
  <2>1. call' = Done("panic") \/ call' \in CopyCalls
    BY <1>0, <1>3, CopyStarts
  <2>2. call \notin SortCalls
    BY <1>3, Kinds
  <2> QED BY <1>1, <1>2, <2>1, <2>2 DEF Done
<1>4. CASE call \in Scripts /\ (tab_concat(call) \/ tab_unpack(call))
  <2>1. /\ \/ call' = Done("panic")
           \/ \E last \in Ints : call' = Read(call, call.i, last)
    BY <1>0, <1>4, ReadStarts
  <2>2. call \notin SortCalls
    BY <1>4, Kinds
  <2>3. \A last : Read(call, call.i, last).op = "read"
    BY DEF Read
  <2>4. \A c \in SortCalls : c.op = "sorting"
    BY Kinds
  <2> QED BY <1>1, <2>1, <2>2, <2>3, <2>4 DEF Done, Made
<1>5. CASE call \in CopyCalls /\ CopyInts(call) /\ call.op = "copy" /\ CopyNext
  BY <1>0, <1>2, <1>5, CopySteps
<1>6. CASE call \in CopyCalls /\ CopyInts(call) /\ CopyEnd
  <2>1. call' = Done("ok")
    BY <1>0, <1>6, CopyEnds
  <2>2. call \notin SortCalls
    BY <1>6, Kinds
  <2> QED BY <1>1, <2>1, <2>2 DEF Done
<1>7. CASE call \in ReadCalls /\ ReadInts(call) /\ (ReadNext \/ ReadEnd)
  <2>1. \/ call' = Done("panic")
        \/ call' \in ReadCalls
        \/ \E out \in Seq(Int) : /\ call' = [op |-> "done", of |-> [call EXCEPT !.out = out], r |-> "ok"]
                                 /\ [call EXCEPT !.out = out] \in ReadCalls
    BY <1>0, <1>7, ReadSteps
  <2>2. \A c \in ReadCalls : c \notin SortCalls
    BY Kinds
  <2> QED BY <1>1, <1>2, <1>7, <2>1, <2>2 DEF Done
<1> QED BY <1>3, <1>4, <1>5, <1>6, <1>7, LibActions

LEMMA PermStep == LibInv /\ PermInv /\ [Next]_vars => PermInv'
<1> SUFFICES ASSUME LibInv, PermInv, [Next]_vars PROVE PermInv'
  OBVIOUS
<1>0. heap \in [Tables -> [Ints -> Int]] /\ old \in [Tables -> [Ints -> Int]]
  BY DEF LibInv
<1>1. CASE UNCHANGED vars
  BY <1>1 DEF vars, PermInv, Made
<1>2. CASE Next
  <2>1. CASE call \in Scripts /\ tab_sort(call)
    <3>1. heap' = heap /\ old' = heap
      BY <1>0, <2>1, SortStarts
    <3> QED BY <3>1 DEF PermInv
  <2>2. CASE call \in SortCalls /\ SortInts(call) /\ call.op = "sorting" /\ call = Made /\ SortAction
    <3> DEFINE h == call.script.from
    <3>1. /\ old' = old
          /\ \/ call' = Done("ok") \/ call' = Done("panic")
             \/ call' \in SortCalls /\ call'.script = call.script /\ call'.n = call.n
          /\ \E a, b, c, d \in call.lo..call.up : Exchanged(a, b, c, d)
      BY <1>0, <2>2, SortSteps
    <3>2. Made'.script = call.script /\ Made'.n = call.n
      <4>1. CASE call' = Done("ok") \/ call' = Done("panic")
        BY <4>1 DEF Made, Done
      <4>2. CASE call' \in SortCalls /\ call'.script = call.script /\ call'.n = call.n
        BY <4>2, Kinds DEF Made
      <4> QED BY <3>1, <4>1, <4>2
    <3>3. PICK a, b, c, d \in call.lo..call.up : Exchanged(a, b, c, d)
      BY <3>1
    <3>4. /\ call.n \in Nat /\ 1..call.n \subseteq Ints
          /\ a \in 1..call.n /\ b \in 1..call.n /\ c \in 1..call.n /\ d \in 1..call.n
      BY <2>2, TableLibAssumption DEF SortInts, RangesApart, SortCalls, Ints, MinInt
    <3>5. h \in Tables /\ T \in [Ints -> Int] /\ T = heap[h]
      BY <1>0, <2>2, Kinds DEF T
    <3>6. heap'[h] = Swapped(Swapped(T, a, b), c, d)
      BY <1>0, <3>3, <3>5 DEF Exchanged
    <3>7. Swapped(T, a, b) \in [Ints -> Int]
      BY <3>4, <3>5, SwapFacts
    <3>8. \A v : CountOf(heap'[h], call.n, v) = CountOf(heap[h], call.n, v)
      <4> TAKE v
      <4>1. CountOf(Swapped(T, a, b), call.n, v) = CountOf(T, call.n, v)
        BY <3>4, <3>5, SwapCounts
      <4>2. CountOf(Swapped(Swapped(T, a, b), c, d), call.n, v) = CountOf(Swapped(T, a, b), call.n, v)
        BY <3>4, <3>7, SwapCounts
      <4> QED BY <3>5, <3>6, <4>1, <4>2
    <3> QED BY <2>2, <3>1, <3>2, <3>8 DEF PermInv
  <2>3. CASE Made' \notin SortCalls
    BY <2>3 DEF PermInv
  <2> QED BY <1>2, <2>1, <2>2, <2>3, OtherCalls
<1> QED BY <1>1, <1>2

\* SortCall is the call of a sort, while it runs and after.
LEMMA SortingCalls ==
    ASSUME LibInv
    PROVE  /\ call.op = "sorting" => Made = call /\ Made \in SortCalls
           /\ call.op = "done" /\ "stack" \in DOMAIN call.of => Made = call.of /\ Made \in SortCalls
<1>1. call.op = "sorting" => Made = call /\ Made \in SortCalls
  BY CallKinds DEF Made
<1>2. call.op = "done" /\ "stack" \in DOMAIN call.of => Made = call.of /\ Made \in SortCalls
  BY Kinds DEF Made, LibInv, Started
<1> QED BY <1>1, <1>2

\* Whatever the comparison function answers, and also when it raises an error, sort
\* (auxsort, set2) leaves a permutation of the elements it was given.
THEOREM SortPermutesTable == Spec => []SortPermutes
<1>1. Init => LibInv /\ PermInv
  <2> SUFFICES ASSUME Init PROVE LibInv /\ PermInv
    OBVIOUS
  <2>1. heap = old
    BY DEF Init
  <2> QED BY <2>1, LibInit DEF PermInv
<1>2. LibInv /\ PermInv /\ [Next]_vars => (LibInv /\ PermInv)'
  BY LibStep, PermStep
<1>3. LibInv /\ PermInv => SortPermutes
  <2> SUFFICES ASSUME LibInv, PermInv, Sorting PROVE SortPermutes
    BY DEF SortPermutes
  <2>1. SortCall = Made /\ Made \in SortCalls
    BY SortingCalls DEF Sorting, SortCall
  <2>2. \A v : CountOf(heap[SortCall.script.from], SortCall.n, v) = CountOf(old[SortCall.script.from], SortCall.n, v)
    BY <2>1 DEF PermInv
  <2>3. \A v : Cardinality({i \in 1..SortCall.n : heap[SortCall.script.from][i] = v})
               = Cardinality({i \in 1..SortCall.n : old[SortCall.script.from][i] = v})
    BY <2>2 DEF CountOf
  <2> QED BY <2>3, Zenon DEF SortPermutes
<1> QED BY <1>1, <1>2, <1>3, PTL DEF Spec

-----------------------------------------------------------------------------
(* insert, remove and move *)

\* What a copying call has to do: its direction fits the overlap of the two ranges,
\* and its ranges and last write are those of its function; t is the table it reads.
Planned(c, t) ==
    /\ c.script.to = c.script.from =>
          IF c.backwards THEN c.first <= c.at ELSE c.at <= c.first \/ c.first + c.n <= c.at
    /\ c.script.op = "insert" =>
          /\ c.first \in Ints /\ c.at = c.first + 1 /\ c.result = c.first + c.n
          /\ c.then = <<c.first, c.script.v>> /\ c.script.to = c.script.from
    /\ c.script.op = "remove" =>
          /\ c.at \in Ints /\ c.first = c.at + 1 /\ c.script.to = c.script.from
          /\ \/ c.then = <<c.at + c.n, nil>> /\ c.at + c.n \in Ints
             \/ c.then = <<>> /\ c.n = 0 /\ t[c.at] = nil
    /\ c.script.op = "move" =>
          /\ c.first = c.script.f /\ c.at = c.script.t /\ c.then = <<>>
          /\ c.n = IF c.script.e < c.script.f THEN 0 ELSE c.script.e - c.script.f + 1

LEMMA PlanStarts ==
    ASSUME heap \in [Tables -> [Ints -> Int]], call \in Scripts,
           tab_insert(call) \/ tab_remove(call) \/ tab_move(call), call' # Done("panic")
    PROVE  Planned(call', heap[call'.script.from]) /\ call'.done = 0 /\ call'.script = call
<1> DEFINE Goal == Planned(call', heap[call'.script.from]) /\ call'.done = 0 /\ call'.script = call
<1>1. ~Panic
  BY DEF Panic
<1>2. MaxInt \in Nat /\ Ints = (-MaxInt - 1)..MaxInt
  BY TableLibAssumption DEF Ints, MinInt
<1>4. CASE tab_insert(call)
  <2>1. call \in InsertScripts
    BY <1>4, ScriptKinds DEF tab_insert
  <2>2. call.from \in Tables /\ call.pos \in Ints /\ call.to = call.from /\ call.op = "insert"
    BY <2>1 DEF InsertScripts
  <2>3. PICK size \in aux_getn(call.from) :
           LET e == size + 1
               pos == IF call.args = 2 THEN e ELSE call.pos
           IN IF pos < 1 \/ pos > e THEN Panic
              ELSE call' = Copy("copy", call, e - pos, pos, pos + 1, TRUE, <<pos, call.v>>, e)
    BY <1>4 DEF tab_insert
  <2>4. size \in Nat /\ size < MaxInt
    BY <2>2, <2>3, BorderFacts DEF aux_getn
  <2> DEFINE e == size + 1
             pos == IF call.args = 2 THEN e ELSE call.pos
  <2>5. pos \in Ints /\ pos \in Int /\ e \in Int
    BY <1>2, <2>2, <2>4
  <2>6. call' = Copy("copy", call, e - pos, pos, pos + 1, TRUE, <<pos, call.v>>, e)
    BY <1>1, <2>3
  <2> HIDE DEF pos, e
  <2>7. /\ call'.script = call /\ call'.n = e - pos /\ call'.first = pos /\ call'.at = pos + 1
        /\ call'.backwards = TRUE /\ call'.then = <<pos, call.v>> /\ call'.result = e /\ call'.done = 0
    BY <2>6 DEF Copy
  <2>8. pos <= pos + 1 /\ e = pos + (e - pos)
    BY <2>5
  <2> QED BY <2>2, <2>5, <2>7, <2>8 DEF Planned
<1>5. CASE tab_remove(call)
  <2>1. call \in RemoveScripts
    BY <1>5, ScriptKinds DEF tab_remove
  <2>2. call.from \in Tables /\ call.pos \in Ints /\ call.to = call.from /\ call.op = "remove"
    BY <2>1 DEF RemoveScripts
  <2>3. PICK size \in aux_getn(call.from) :
           LET pos == IF call.args = 1 THEN size ELSE call.pos
               last == IF 1 <= pos /\ pos <= size THEN <<size, nil>>
                       ELSE IF pos = 0 THEN <<0, nil>> ELSE <<>>
           IN IF pos # size /\ (pos < 1 \/ pos > size + 1) THEN Panic
              ELSE call' = Copy("copy", call, IF pos < size THEN size - pos ELSE 0, pos + 1, pos, FALSE, last,
                                heap[call.from][pos])
    BY <1>5 DEF tab_remove
  <2>4. size \in Nat /\ size < MaxInt /\ heap[call.from][size + 1] = nil
    BY <2>2, <2>3, BorderFacts DEF aux_getn
  <2> DEFINE pos == IF call.args = 1 THEN size ELSE call.pos
             n == IF pos < size THEN size - pos ELSE 0
             last == IF 1 <= pos /\ pos <= size THEN <<size, nil>>
                     ELSE IF pos = 0 THEN <<0, nil>> ELSE <<>>
  <2>5. pos \in Ints /\ pos \in Int
    BY <1>2, <2>2, <2>4
  <2>6. /\ ~(pos # size /\ (pos < 1 \/ pos > size + 1))
        /\ call' = Copy("copy", call, n, pos + 1, pos, FALSE, last, heap[call.from][pos])
    BY <1>1, <2>3
  <2>7. \/ pos + n \in Ints /\ last = <<pos + n, nil>>
        \/ last = <<>> /\ n = 0 /\ heap[call.from][pos] = nil
    <3> HIDE DEF pos
    <3>1. CASE 1 <= pos /\ pos <= size
      BY <1>2, <2>4, <2>5, <3>1
    <3>2. CASE pos = 0
      BY <1>2, <2>4, <2>6, <3>2
    <3>3. CASE ~(1 <= pos /\ pos <= size) /\ pos # 0
      <4>1. pos = size + 1 /\ last = <<>> /\ n = 0
        BY <2>4, <2>5, <2>6, <3>3
      <4> QED BY <2>4, <4>1
    <3> QED BY <3>1, <3>2, <3>3
  <2> HIDE DEF pos, n, last
  <2>8. /\ call'.script = call /\ call'.n = n /\ call'.first = pos + 1 /\ call'.at = pos
        /\ call'.backwards = FALSE /\ call'.then = last /\ call'.done = 0
    BY <2>6 DEF Copy
  <2>9. pos <= pos + 1
    BY <2>5
  <2> QED BY <2>2, <2>5, <2>7, <2>8, <2>9 DEF Planned
<1>6. CASE tab_move(call)
  <2>1. call \in MoveScripts
    BY <1>6, ScriptKinds DEF tab_move
  <2>2. call.f \in Int /\ call.e \in Int /\ call.t \in Int /\ call.op = "move"
    BY <2>1, <1>2 DEF MoveScripts
  <2>3. CASE call.e < call.f
    <3> DEFINE X == call' = Copy("copy", call, 0, call.f, call.t, FALSE, <<>>, nil)
    <3> HIDE DEF X
    <3>0. ~(call.e >= call.f)
      BY <2>2, <2>3
    <3>1. X
      BY <1>6, <2>3, <3>0 DEF tab_move, X
    <3>2. /\ call'.script = call /\ call'.n = 0 /\ call'.first = call.f /\ call'.at = call.t
          /\ call'.backwards = FALSE /\ call'.then = <<>> /\ call'.done = 0
      BY <3>1 DEF X, Copy
    <3>3. call.t <= call.f \/ call.f + 0 <= call.t
      BY <2>2
    <3> QED BY <2>2, <2>3, <3>2, <3>3 DEF Planned
  <2>4. CASE ~(call.e < call.f)
    <3> DEFINE n == call.e - call.f + 1
               b == ~(call.t > call.e \/ call.t <= call.f \/ call.to # call.from)
    <3>1. call' = Copy("copy", call, n, call.f, call.t, b, <<>>, nil)
      <4>1. \/ Panic
            \/ call' = Copy("copy", call, n, call.f, call.t, b, <<>>, nil)
        BY <1>6, <2>2, <2>4 DEF tab_move
      <4> QED BY <1>1, <4>1
    <3>2. call.to = call.from => IF b THEN call.f <= call.t ELSE call.t <= call.f \/ call.f + n <= call.t
      BY <2>2
    <3>3. n = IF call.e < call.f THEN 0 ELSE call.e - call.f + 1
      BY <2>4
    <3> HIDE DEF n, b
    <3>4. /\ call'.script = call /\ call'.n = n /\ call'.first = call.f /\ call'.at = call.t
          /\ call'.backwards = b /\ call'.then = <<>> /\ call'.done = 0
      BY <3>1 DEF Copy
    <3> QED BY <2>2, <3>2, <3>3, <3>4 DEF Planned
  <2> QED BY <2>3, <2>4
<1> QED BY <1>4, <1>5, <1>6

\* the offsets that have been copied
Moved(c) == IF c.backwards THEN (c.n - c.done)..(c.n - 1) ELSE 0..(c.done - 1)

\* A copying call has moved those elements of its range, and changed nothing else.
CopySoFar(c) ==
    /\ Planned(c, old[c.script.from])
    /\ \A h \in Tables : h # c.script.to => heap[h] = old[h]
    /\ \A x \in Ints : heap[c.script.to][x] = IF x - c.at \in Moved(c) THEN old[c.script.from][c.first + (x - c.at)]
                                              ELSE old[c.script.to][x]

CopyInv == (call.op = "copy" => CopySoFar(call)) /\ CopiesAreSimultaneous

\* The element that is copied next has not been overwritten.
LEMMA CopyKeeps ==
    ASSUME heap \in [Tables -> [Ints -> Int]], old \in [Tables -> [Ints -> Int]],
           call \in CopyCalls, CopyInts(call), call.op = "copy", CopySoFar(call), CopyNext
    PROVE  CopySoFar(call)'
<1> DEFINE from == call.script.from  to == call.script.to
           k == IF call.backwards THEN call.n - 1 - call.done ELSE call.done
<1>1. /\ call' = [call EXCEPT !.done = call.done + 1] /\ old' = old
      /\ heap' = [heap EXCEPT ![to][call.at + k] = heap[from][call.first + k]]
      /\ k \in 0..(call.n - 1) /\ call.at + k \in Ints /\ call.first + k \in Ints
  BY CopySteps
<1>2. /\ call.n \in Nat /\ call.done \in Nat /\ call.at \in Int /\ call.first \in Int /\ call.backwards \in BOOLEAN
      /\ from \in Tables /\ to \in Tables /\ call.done < call.n
  BY Kinds DEF CopyCalls, CopyNext
<1>3. Ints \subseteq Int
  BY TableLibAssumption DEF Ints, MinInt
<1>4. /\ call'.script = call.script /\ call'.at = call.at /\ call'.first = call.first /\ call'.n = call.n
      /\ call'.backwards = call.backwards /\ call'.then = call.then /\ call'.result = call.result
      /\ call'.done = call.done + 1
  BY <1>1 DEF CopyCalls
<1>5. /\ Planned(call, old[from])
      /\ \A h \in Tables : h # to => heap[h] = old[h]
      /\ \A x \in Ints : heap[to][x] = IF x - call.at \in Moved(call) THEN old[from][call.first + (x - call.at)]
                                       ELSE old[to][x]
  BY DEF CopySoFar
<1>6. \A y \in Int : /\ y \in Moved(call)' <=> y \in Moved(call) \/ y = k
                     /\ ~(k \in Moved(call))
  <2> TAKE y \in Int
  <2>1. CASE call.backwards
    <3>1. /\ Moved(call) = (call.n - call.done)..(call.n - 1) /\ k = call.n - 1 - call.done
          /\ Moved(call)' = (call.n - (call.done + 1))..(call.n - 1)
      BY <1>4, <2>1 DEF Moved
    <3> HIDE DEF k
    <3> QED BY <1>2, <3>1
  <2>2. CASE ~call.backwards
    <3>1. /\ Moved(call) = 0..(call.done - 1) /\ k = call.done
          /\ Moved(call)' = 0..((call.done + 1) - 1)
      BY <1>4, <2>2 DEF Moved
    <3> HIDE DEF k
    <3> QED BY <1>2, <3>1
  <2> QED BY <2>1, <2>2
<1>7. heap[from][call.first + k] = old[from][call.first + k]
  <2>1. CASE from # to
    BY <1>2, <1>5, <2>1
  <2>2. CASE from = to
    <3>1. IF call.backwards THEN call.first <= call.at ELSE call.at <= call.first \/ call.first + call.n <= call.at
      BY <1>5, <2>2 DEF Planned
    <3>2. ~((call.first + k) - call.at \in Moved(call))
      <4>1. CASE call.backwards
        <5>1. Moved(call) = (call.n - call.done)..(call.n - 1) /\ k = call.n - 1 - call.done
          BY <4>1 DEF Moved
        <5> HIDE DEF k
        <5> QED BY <1>2, <3>1, <4>1, <5>1
      <4>2. CASE ~call.backwards
        <5>1. Moved(call) = 0..(call.done - 1) /\ k = call.done
          BY <4>2 DEF Moved
        <5> HIDE DEF k
        <5> QED BY <1>2, <3>1, <4>2, <5>1
      <4> QED BY <4>1, <4>2
    <3> HIDE DEF k
    <3> QED BY <1>1, <1>5, <2>2, <3>2
  <2> QED BY <2>1, <2>2
<1> HIDE DEF k
<1>8. /\ \A h \in Tables : h # to => heap'[h] = heap[h]
      /\ \A x \in Ints : heap'[to][x] = IF x = call.at + k THEN heap[from][call.first + k] ELSE heap[to][x]
  <2> DEFINE z == call.at + k  v == heap[from][call.first + k]
  <2>1. heap' = [heap EXCEPT ![to][z] = v] /\ z \in Ints
    BY <1>1
  <2> HIDE DEF z, v
  <2>2. \A h \in Tables : h # to => heap'[h] = heap[h]
    BY <2>1
  <2>3. \A x \in Ints : heap'[to][x] = IF x = z THEN v ELSE heap[to][x]
    BY <1>2, <2>1
  <2> QED BY <2>2, <2>3 DEF z, v
<1>9. ASSUME NEW x \in Ints
      PROVE  heap'[to][x] = IF x - call.at \in Moved(call)' THEN old[from][call.first + (x - call.at)] ELSE old[to][x]
  <2>1. x \in Int /\ x - call.at \in Int /\ k \in Int
    BY <1>1, <1>2, <1>3
  <2>2. CASE x = call.at + k
    <3>1. x - call.at = k
      BY <1>2, <2>1, <2>2
    <3> QED BY <1>6, <1>7, <1>8, <2>1, <2>2, <3>1
  <2>3. CASE x # call.at + k
    <3>1. x - call.at # k
      BY <1>2, <2>1, <2>3
    <3>2. x - call.at \in Moved(call)' <=> x - call.at \in Moved(call)
      BY <1>6, <2>1, <3>1
    <3> QED BY <1>5, <1>8, <2>3, <3>2
  <2> QED BY <2>2, <2>3
<1>10. Planned(call, old[from])'
  BY <1>1, <1>4, <1>5 DEF Planned
<1>11. \A h \in Tables : h # to => heap'[h] = old[h]
  BY <1>5, <1>8
<1> QED BY <1>1, <1>4, <1>9, <1>10, <1>11 DEF CopySoFar

\* The table that an insertion, a removal or a move leaves.
Inserted(c, was) == [i \in Ints |-> CASE i = c.first -> c.script.v
                                      [] c.first < i /\ i <= c.result -> was[i - 1]
                                      [] OTHER -> was[i]]
Removed(c, was) == [i \in Ints |-> IF i < c.at THEN was[i]
                                   ELSE IF i < c.at + c.n THEN was[i + 1]
                                   ELSE IF i = c.at + c.n THEN nil ELSE was[i]]
MovedTo(sc, was, to) == [i \in Ints |-> IF i - sc.t \in 0..(sc.e - sc.f) THEN was[sc.f + i - sc.t] ELSE to[i]]

\* CopiesAreSimultaneous of the tables h and o and the call c that ended, for each
\* function.
Ended(op, c) == c.op = "done" /\ c.r = "ok" /\ "script" \in DOMAIN c.of /\ c.of.script.op = op
Simultaneous(h, o, c) ==
    /\ Ended("insert", c) => h[c.of.script.to] = Inserted(c.of, o[c.of.script.from])
    /\ Ended("remove", c) => h[c.of.script.to] = Removed(c.of, o[c.of.script.from])
    /\ Ended("move", c) => h[c.of.script.to] = MovedTo(c.of.script, o[c.of.script.from], o[c.of.script.to])
LEMMA SimultaneousFacts == CopiesAreSimultaneous <=> Simultaneous(heap, old, call)
BY Zenon DEF CopiesAreSimultaneous, Simultaneous, Finished, Ended, Inserted, Removed, MovedTo

LEMMA SimultaneousNext == CopiesAreSimultaneous' <=> Simultaneous(heap', old', call')
<1>1. CopiesAreSimultaneous' <=> Simultaneous(heap, old, call)'
  BY SimultaneousFacts, PTL
<1> QED BY <1>1

\* A copying call that has moved its whole range ends as its function promises.
LEMMA CopyDone ==
    ASSUME heap \in [Tables -> [Ints -> Int]], old \in [Tables -> [Ints -> Int]],
           call \in CopyCalls, CopyInts(call), CopySoFar(call), CopyEnd
    PROVE  CopiesAreSimultaneous'
<1> DEFINE s == call.script
           was == old[s.from]
           is == heap'[s.to]
<1>1. /\ call' = Done("ok") /\ old' = old /\ call.done = call.n
      /\ heap' \in [Tables -> [Ints -> Int]]
      /\ call.then = <<>> => heap' = heap
      /\ call.then # <<>> => heap' = [heap EXCEPT ![call.script.to][call.then[1]] = call.then[2]]
  BY CopyEnds
<1>2. /\ call.n \in Nat /\ call.at \in Int /\ call.first \in Int /\ call.backwards \in BOOLEAN
      /\ s.from \in Tables /\ s.to \in Tables
  BY Kinds DEF CopyCalls
<1>3. Ints \subseteq Int
  BY TableLibAssumption DEF Ints, MinInt
<1>4. Moved(call) = 0..(call.n - 1)
  <2>1. call.n - call.n = 0
    BY <1>2
  <2> QED BY <1>1, <1>2, <2>1 DEF Moved
<1>5. /\ Planned(call, was)
      /\ \A x \in Ints : heap[s.to][x] = IF x - call.at \in 0..(call.n - 1) THEN was[call.first + (x - call.at)]
                                         ELSE old[s.to][x]
  BY <1>4 DEF CopySoFar
<1>6. call'.op = "done" /\ call'.of = call
  BY <1>1 DEF Done
<1>7. is \in [Ints -> Int] /\ is = [x \in Ints |-> is[x]]
  BY <1>1, <1>2
<1>8. CASE s.op = "insert"
  <2>1. /\ call.first \in Ints /\ call.at = call.first + 1 /\ call.result = call.first + call.n
        /\ call.then = <<call.first, s.v>> /\ s.to = s.from
    BY <1>5, <1>8 DEF Planned
  <2>2. heap' = [heap EXCEPT ![s.to][call.first] = s.v]
    BY <1>1, <2>1
  <2>3. \A x \in Ints : is[x] = IF x = call.first THEN s.v ELSE heap[s.to][x]
    <3> DEFINE z == call.first  v == s.v  to == s.to
    <3>1. heap' = [heap EXCEPT ![to][z] = v] /\ z \in Ints /\ to \in Tables
      BY <1>2, <2>1, <2>2
    <3> HIDE DEF z, v, to, is
    <3> QED BY <3>1 DEF is, to, z, v
  <2>4. ASSUME NEW x \in Ints
        PROVE  is[x] = CASE x = call.first -> s.v
                         [] call.first < x /\ x <= call.result -> was[x - 1]
                         [] OTHER -> was[x]
    <3> HIDE DEF is, was, s
    <3>1. CASE x = call.first
      BY <1>3, <2>1, <2>3, <3>1
    <3>2. CASE call.first < x /\ x <= call.result
      <4>1. x \in Int /\ x - call.at \in 0..(call.n - 1) /\ call.first + (x - call.at) = x - 1 /\ x # call.first
        <5>1. PICK n, a \in Int : n = call.n /\ a = call.first
          BY <1>2
        <5>2. x \in Int /\ a < x /\ x <= a + n /\ call.at = a + 1
          BY <1>3, <2>1, <3>2, <5>1
        <5>3. x - (a + 1) \in 0..(n - 1) /\ a + (x - (a + 1)) = x - 1 /\ x # a
          BY <5>1, <5>2
        <5> QED BY <5>1, <5>2, <5>3
      <4>2. is[x] = was[x - 1]
        BY <1>5, <2>3, <4>1
      <4> QED BY <3>2, <4>1, <4>2
    <3>3. CASE x # call.first /\ ~(call.first < x /\ x <= call.result)
      <4>1. ~(x - call.at \in 0..(call.n - 1))
        BY <1>2, <1>3, <2>1, <3>3
      <4>2. is[x] = was[x]
        BY <1>5, <2>1, <2>3, <3>3, <4>1 DEF was
      <4> QED BY <3>3, <4>2
    <3> QED BY <3>1, <3>2, <3>3
  <2>5. is = Inserted(call, was)
    <3>1. is = [x \in Ints |-> CASE x = call.first -> s.v
                                 [] call.first < x /\ x <= call.result -> was[x - 1]
                                 [] OTHER -> was[x]]
      <4> HIDE DEF is, was, s
      <4> QED BY <1>7, <2>4, Zenon
    <3> QED BY <3>1 DEF Inserted
  <2> QED BY <1>1, <1>6, <1>8, <2>5, SimultaneousNext DEF Simultaneous, Ended
<1>9. CASE s.op = "remove"
  <2>1. /\ call.at \in Ints /\ call.first = call.at + 1 /\ s.to = s.from
        /\ \/ call.then = <<call.at + call.n, nil>> /\ call.at + call.n \in Ints
           \/ call.then = <<>> /\ call.n = 0 /\ was[call.at] = nil
    BY <1>5, <1>9 DEF Planned
  <2> DEFINE z == call.at + call.n
  <2>2. z \in Ints /\ z \in Int
    BY <1>2, <1>3, <2>1
  <2>3. \A x \in Ints : is[x] = IF x = z THEN nil ELSE heap[s.to][x]
    <3>1. CASE call.then = <<z, nil>>
      <4> DEFINE to == s.to
      <4>1. heap' = [heap EXCEPT ![to][z] = nil] /\ to \in Tables
        BY <1>1, <1>2, <3>1
      <4> HIDE DEF z, to
      <4> QED BY <2>2, <4>1 DEF to
    <3>2. CASE call.then = <<>> /\ call.n = 0 /\ was[call.at] = nil
      <4>1. z = call.at /\ heap[s.to][z] = nil
        <5>1. ~(z - call.at \in 0..(call.n - 1))
          BY <1>2, <3>2
        <5> QED BY <1>2, <1>5, <2>1, <2>2, <3>2, <5>1
      <4> QED BY <1>1, <3>2, <4>1
    <3> QED BY <2>1, <3>1, <3>2
  <2>4. ASSUME NEW x \in Ints
        PROVE  is[x] = IF x < call.at THEN was[x]
                       ELSE IF x < z THEN was[x + 1]
                       ELSE IF x = z THEN nil ELSE was[x]
    <3> HIDE DEF is, was, s
    <3>1. x \in Int
      BY <1>3
    <3>2. CASE x < call.at \/ x > z
      <4>1. ~(x - call.at \in 0..(call.n - 1)) /\ x # z /\ ~(x < z /\ ~(x < call.at))
        BY <1>2, <3>1, <3>2
      <4>2. is[x] = was[x]
        BY <1>5, <2>1, <2>3, <4>1 DEF was
      <4> QED BY <4>1, <4>2
    <3>3. CASE ~(x < call.at) /\ x < z
      <4>1. x - call.at \in 0..(call.n - 1) /\ call.first + (x - call.at) = x + 1 /\ x # z
        BY <1>2, <2>1, <3>1, <3>3
      <4>2. is[x] = was[x + 1]
        BY <1>5, <2>3, <4>1
      <4> QED BY <3>3, <4>2
    <3>4. CASE x = z /\ ~(x < call.at)
      <4>1. ~(x < z)
        BY <2>2, <3>4
      <4> QED BY <2>3, <3>4, <4>1
    <3> QED BY <2>2, <3>1, <3>2, <3>3, <3>4
  <2>5. is = Removed(call, was)
    <3>1. is = [x \in Ints |-> IF x < call.at THEN was[x]
                               ELSE IF x < z THEN was[x + 1]
                               ELSE IF x = z THEN nil ELSE was[x]]
      <4> HIDE DEF is, was, s, z
      <4> QED BY <1>7, <2>4, Zenon
    <3> QED BY <3>1 DEF Removed
  <2> QED BY <1>1, <1>6, <1>9, <2>5, SimultaneousNext DEF Simultaneous, Ended
<1>10. CASE s.op = "move"
  <2>1. /\ call.first = s.f /\ call.at = s.t /\ call.then = <<>>
        /\ call.n = IF s.e < s.f THEN 0 ELSE s.e - s.f + 1
    BY <1>5, <1>10 DEF Planned
  <2>2. s.f \in Int /\ s.e \in Int /\ s.t \in Int
    <3>1. s \in Scripts /\ s \in MoveScripts
      BY <1>10, ScriptKinds DEF CopyCalls, Scripts
    <3> QED BY <1>3, <3>1 DEF MoveScripts
  <2>3. ASSUME NEW x \in Ints
        PROVE  is[x] = IF x - s.t \in 0..(s.e - s.f) THEN was[s.f + x - s.t] ELSE old[s.to][x]
    <3>1. is[x] = heap[s.to][x]
      BY <1>1, <2>1
    <3>2. x \in Int
      BY <1>3
    <3> HIDE DEF is, was, s
    <3>3. x - s.t \in 0..(s.e - s.f) <=> x - call.at \in 0..(call.n - 1)
      BY <2>1, <2>2, <3>2
    <3>4. s.f + x - s.t = call.first + (x - call.at)
      BY <2>1, <2>2, <3>2
    <3> QED BY <1>5, <3>1, <3>3, <3>4
  <2>4. is = MovedTo(s, was, old[s.to])
    <3>1. is = [x \in Ints |-> IF x - s.t \in 0..(s.e - s.f) THEN was[s.f + x - s.t] ELSE old[s.to][x]]
      <4> HIDE DEF is, was, s
      <4> QED BY <1>7, <2>3, Zenon
    <3> QED BY <3>1 DEF MovedTo
  <2> QED BY <1>1, <1>6, <1>10, <2>4, SimultaneousNext DEF Simultaneous, Ended
<1>11. s.op \in {"insert", "remove", "move"}
  BY Kinds
<1> QED BY <1>8, <1>9, <1>10, <1>11

LEMMA CopyStep == LibInv /\ CopyInv /\ [Next]_vars => CopyInv'
<1> SUFFICES ASSUME LibInv, CopyInv, [Next]_vars PROVE CopyInv'
  OBVIOUS
<1>0. heap \in [Tables -> [Ints -> Int]] /\ old \in [Tables -> [Ints -> Int]]
  BY DEF LibInv
<1>1. CASE UNCHANGED vars
  <2>1. heap' = heap /\ old' = old /\ call' = call
    BY <1>1 DEF vars
  <2>2. call.op = "copy" => CopySoFar(call)'
    BY <2>1 DEF CopyInv, CopySoFar
  <2>3. CopiesAreSimultaneous'
    BY <2>1, SimultaneousFacts, SimultaneousNext DEF CopyInv
  <2> QED BY <2>1, <2>2, <2>3 DEF CopyInv
\* a call that is not a copying one, or fails
<1>2. ASSUME call'.op \notin {"copy", "done"} PROVE CopyInv'
  BY <1>2 DEF CopyInv, CopiesAreSimultaneous, Finished
<1>3. ASSUME NEW c, NEW r, call' = [op |-> "done", of |-> c, r |-> r],
             \/ r = "panic" \/ "script" \notin DOMAIN c
             \/ c.script.op \notin {"insert", "remove", "move"}
      PROVE  CopyInv'
  BY <1>3 DEF CopyInv, CopiesAreSimultaneous, Finished
<1>4. CASE Next
  <2>1. CASE call \in Scripts /\ (tab_insert(call) \/ tab_remove(call) \/ tab_move(call))
    <3>1. CASE call' = Done("panic")
      BY <1>3, <3>1 DEF Done
    <3>2. CASE call' # Done("panic")
      <4>1. heap' = heap /\ old' = heap /\ call' \in CopyCalls
        BY <1>0, <2>1, <3>2, CopyStarts
      <4>2. Planned(call', heap[call'.script.from]) /\ call'.done = 0
        BY <1>0, <2>1, <3>2, PlanStarts
      <4>3. call'.op = "copy" /\ call'.n \in Nat
        BY <4>1 DEF CopyCalls
      <4>4. Moved(call)' = {}
        BY <4>2, <4>3 DEF Moved
      <4>5. CopySoFar(call)'
        BY <4>1, <4>2, <4>4 DEF CopySoFar
      <4> QED BY <4>3, <4>5 DEF CopyInv, CopiesAreSimultaneous, Finished
    <3> QED BY <3>1, <3>2
  <2>2. CASE call \in Scripts /\ (tab_concat(call) \/ tab_unpack(call))
    <3>1. \/ call' = Done("panic")
          \/ \E last \in Ints : call' = Read(call, call.i, last)
      BY <1>0, <2>2, ReadStarts
    <3>2. \A last : Read(call, call.i, last).op = "read"
      BY DEF Read
    <3> QED BY <1>2, <1>3, <3>1, <3>2 DEF Done
  <2>3. CASE call \in Scripts /\ tab_sort(call)
    <3>1. call' = Done("ok") \/ call' = Done("panic") \/ call' \in SortCalls
      BY <1>0, <2>3, SortStarts
    <3> QED BY <1>2, <1>3, <2>3, <3>1, Kinds DEF Done
  <2>4. CASE call \in CopyCalls /\ CopyInts(call) /\ call.op = "copy" /\ CopyNext
    <3>1. CopySoFar(call)'
      BY <1>0, <2>4, CopyKeeps DEF CopyInv
    <3>2. call' \in CopyCalls
      BY <1>0, <2>4, CopySteps
    <3> QED BY <3>1, <3>2, Kinds DEF CopyInv, CopiesAreSimultaneous, Finished
  <2>5. CASE call \in CopyCalls /\ CopyInts(call) /\ call.op = "copy" /\ CopyEnd
    <3>1. CopiesAreSimultaneous'
      BY <1>0, <2>5, CopyDone DEF CopyInv
    <3>2. call'.op = "done"
      BY <2>5 DEF CopyEnd, Done
    <3> QED BY <3>1, <3>2 DEF CopyInv
  <2>6. CASE call \in ReadCalls /\ ReadInts(call) /\ (ReadNext \/ ReadEnd)
    <3>1. \/ call' = Done("panic")
          \/ call' \in ReadCalls
          \/ \E out \in Seq(Int) : /\ call' = [op |-> "done", of |-> [call EXCEPT !.out = out], r |-> "ok"]
                                   /\ [call EXCEPT !.out = out] \in ReadCalls
      BY <1>0, <2>6, ReadSteps
    <3>2. \A c \in ReadCalls : c.op = "read" /\ c.script.op \notin {"insert", "remove", "move"}
      BY Kinds
    <3>3. CASE call' = Done("panic")
      BY <1>3, <3>3 DEF Done
    <3>4. CASE call' \in ReadCalls
      BY <1>2, <3>2, <3>4
    <3>5. ASSUME NEW out \in Seq(Int), call' = [op |-> "done", of |-> [call EXCEPT !.out = out], r |-> "ok"],
                 [call EXCEPT !.out = out] \in ReadCalls
          PROVE  CopyInv'
      BY <1>3, <3>2, <3>5
    <3> QED BY <3>1, <3>3, <3>4, <3>5
  <2>7. CASE call \in SortCalls /\ SortInts(call) /\ SortAction
    <3>1. call' = Done("ok") \/ call' = Done("panic") \/ call' \in SortCalls
      BY <1>0, <2>7, SortSteps
    <3> QED BY <1>2, <1>3, <2>7, <3>1, Kinds DEF Done
  <2> QED BY <1>4, <2>1, <2>2, <2>3, <2>4, <2>5, <2>6, <2>7, LibActions
<1> QED BY <1>1, <1>4

\* insert, remove and move (tinsert, tremove, tmove) end with every element where it
\* belongs, as if all of them had moved at once, whichever way the ranges overlap, and
\* change nothing else.
THEOREM CopiesCorrect == Spec => []CopiesAreSimultaneous
<1>1. Init => LibInv /\ CopyInv
  <2> SUFFICES ASSUME Init PROVE LibInv /\ CopyInv
    OBVIOUS
  <2>1. PICK c \in Cases : call = c.script
    BY DEF Init
  <2>2. call \in Scripts
    BY <2>1, TableLibAssumption DEF Scripts
  <2>3. call.op # "done" /\ call.op # "copy"
    BY <2>2, Kinds
  <2> QED BY <2>3, LibInit DEF CopyInv, CopiesAreSimultaneous, Finished
<1>2. LibInv /\ CopyInv /\ [Next]_vars => (LibInv /\ CopyInv)'
  BY LibStep, CopyStep
<1>3. LibInv /\ CopyInv => CopiesAreSimultaneous
  BY DEF CopyInv
<1> QED BY <1>1, <1>2, <1>3, PTL DEF Spec

-----------------------------------------------------------------------------
(* sort sorts *)

\* x may stand before y in the order m of the default comparison, or of ">"
Le(m, x, y) == IF m = "default" THEN x <= y ELSE x >= y

LEMMA LeFacts ==
    \A m : \A x, y, z \in Int : /\ Le(m, x, x)
                                /\ Le(m, x, y) \/ Le(m, y, x)
                                /\ Le(m, x, y) /\ Le(m, y, z) => Le(m, x, z)
BY DEF Le

\* The answers of a comparison that is an order.
LEMMA Comparisons ==
    ASSUME T \in [Ints -> Int], NEW a \in Ints, NEW b \in Ints, NEW lt \in sort_comp_idx(a, b),
           call.script.cmp \in {"default", "greater"}
    PROVE  /\ lt \in {"yes", "no", "panic"}
           /\ lt = "yes" => Le(call.script.cmp, T[a], T[b]) /\ ~Le(call.script.cmp, T[b], T[a])
           /\ lt = "no" => Le(call.script.cmp, T[b], T[a])
           /\ lt = "panic" => call.script.cmp = "default" /\ nil \in {T[a], T[b]}
<1>1. T[a] \in Int /\ T[b] \in Int
  OBVIOUS
<1>2. CASE call.script.cmp = "default"
  <2>1. \/ nil \in {T[a], T[b]} /\ lt = "panic"
        \/ lt = "yes" /\ T[a] < T[b]
        \/ lt = "no" /\ ~(T[a] < T[b])
    BY <1>2 DEF sort_comp_idx
  <2> QED BY <1>1, <1>2, <2>1 DEF Le
<1>3. CASE call.script.cmp = "greater"
  <2>1. \/ lt = "yes" /\ T[a] > T[b]
        \/ lt = "no" /\ ~(T[a] > T[b])
    BY <1>3 DEF sort_comp_idx
  <2> QED BY <1>1, <1>3, <2>1 DEF Le
<1> QED BY <1>2, <1>3

\* Elements are in order unless the range they are in still has to be sorted.
Together(c, x, y) ==
    \/ x \in c.lo..c.up /\ y \in c.lo..c.up
    \/ \E k \in 1..Len(c.stack) : x \in c.stack[k].lo..c.stack[k].up /\ y \in c.stack[k].lo..c.stack[k].up
Ordered(c, t) ==
    \A x, y \in 1..c.n : x < y => Together(c, x, y) \/ Le(c.script.cmp, t[x], t[y])

\* What is known of the range being sorted: t[up - 1] is the pivot of a partition.
Partitioned(c, t) ==
    /\ c.pc \in {"pivot", "pivot2"} => Le(c.script.cmp, t[c.lo], t[c.up])
    /\ c.pc = "pivot2" => Le(c.script.cmp, t[c.lo], t[c.p])
    /\ c.pc \in {"up", "down"} => \A k \in c.lo..(c.i - 1) : Le(c.script.cmp, t[k], t[c.up - 1])
    /\ c.pc = "up" => \A k \in c.j..c.up : Le(c.script.cmp, t[c.up - 1], t[k])
    /\ c.pc = "down" => /\ \A k \in (c.j + 1)..c.up : Le(c.script.cmp, t[c.up - 1], t[k])
                        /\ Le(c.script.cmp, t[c.up - 1], t[c.i])

\* Exchanging elements of the range being sorted does not disturb the others.
LEMMA SwapOrders ==
    ASSUME call \in SortCalls, RangesApart(call), NEW t \in [Ints -> Int], Ordered(call, t),
           NEW a \in call.lo..call.up, NEW b \in call.lo..call.up
    PROVE  Ordered(call, Swapped(t, a, b))
<1> DEFINE R == call.lo..call.up  u == Swapped(t, a, b)  m == call.script.cmp
<1>1. /\ call.lo \in Int /\ call.up \in Int /\ call.n \in Int /\ call.n < MaxInt
      /\ 1 <= call.lo /\ call.up <= call.n
  BY DEF SortCalls, RangesApart
<1>2. 1..call.n \subseteq Ints /\ R \subseteq 1..call.n
  <2>1. \A k \in 1..call.n : k \in Ints
    BY <1>1, TableLibAssumption DEF Ints, MinInt
  <2>2. \A k \in R : k \in 1..call.n
    BY <1>1
  <2> QED BY <2>1, <2>2
<1>3. \A k \in 1..call.n : /\ k \notin R => u[k] = t[k]
                           /\ k \in R => \E j \in R : u[k] = t[j]
  <2>1. a \in Ints /\ b \in Ints
    BY <1>2
  <2>2. u[a] = t[b] /\ u[b] = t[a] /\ \A k \in Ints : k # a /\ k # b => u[k] = t[k]
    BY <2>1, SwapFacts
  <2> HIDE DEF u
  <2> QED BY <1>2, <2>2
<1>4. \A x \in R : \A k \in 1..Len(call.stack) : x \notin call.stack[k].lo..call.stack[k].up
  <2> TAKE x \in R
  <2> TAKE k \in 1..Len(call.stack)
  <2>1. call.stack[k] \in Ranges
    BY DEF SortCalls
  <2>2. call.stack[k].lo \in Int /\ call.stack[k].up \in Int
    BY <2>1 DEF Ranges
  <2>3. call.stack[k].up < call.lo \/ call.up < call.stack[k].lo
    BY DEF RangesApart
  <2> QED BY <1>1, <2>2, <2>3
<1> HIDE DEF u
<1>5. ASSUME NEW x \in 1..call.n, NEW y \in 1..call.n, x < y, ~Together(call, x, y)
      PROVE  Le(m, u[x], u[y])
  <2>1. CASE x \in R
    <3>1. y \notin R
      BY <1>5, <2>1 DEF Together
    <3>2. PICK z \in R : u[x] = t[z]
      BY <1>3, <2>1
    <3>3. z \in 1..call.n /\ z < y
      BY <1>1, <1>5, <2>1, <3>1
    <3>4. ~Together(call, z, y)
      BY <1>4, <3>1 DEF Together
    <3> QED BY <1>3, <3>1, <3>2, <3>3, <3>4 DEF Ordered
  <2>2. CASE y \in R
    <3>1. x \notin R
      BY <1>5, <2>2 DEF Together
    <3>2. PICK z \in R : u[y] = t[z]
      BY <1>3, <2>2
    <3>3. z \in 1..call.n /\ x < z
      BY <1>1, <1>5, <2>2, <3>1
    <3>4. ~Together(call, x, z)
      BY <1>4, <3>1 DEF Together
    <3> QED BY <1>3, <3>1, <3>2, <3>3, <3>4 DEF Ordered
  <2>3. CASE x \notin R /\ y \notin R
    BY <1>3, <1>5, <2>3 DEF Ordered
  <2> QED BY <2>1, <2>2, <2>3
<1> QED BY <1>5 DEF Ordered, u

\* A call of auxsort returns when its range is sorted.
LEMMA ReturnOrders ==
    ASSUME call \in SortCalls, Return(call), NEW t, Ordered(call, t),
           \A x, y \in call.lo..call.up : x < y => Le(call.script.cmp, t[x], t[y])
    PROVE  \/ /\ call' = Done("ok")
              /\ \A x, y \in 1..call.n : x < y => Le(call.script.cmp, t[x], t[y])
           \/ call'.op = "sorting" /\ Ordered(call', t) /\ Partitioned(call', t)
<1> DEFINE s == call.stack  f == s[1]
<1>1. s \in Seq(Ranges) /\ Len(s) \in Nat
  BY DEF SortCalls
<1>2. CASE s = <<>>
  <2>1. 1..Len(s) = {}
    BY <1>2
  <2>2. \A x, y \in 1..call.n : x < y => Le(call.script.cmp, t[x], t[y])
    BY <2>1 DEF Ordered, Together
  <2> QED BY <1>2, <2>2 DEF Return
<1>3. CASE s # <<>>
  <2>1. /\ Len(s) \in Nat \ {0} /\ f \in Ranges /\ Tail(s) \in Seq(Ranges)
        /\ Len(Tail(s)) = Len(s) - 1 /\ \A k \in 1..(Len(s) - 1) : Tail(s)[k] = s[k + 1]
    BY <1>1, <1>3, HeadFacts
  <2>2. PICK rnd \in BOOLEAN :
           call' = [call EXCEPT !.pc = "ends", !.lo = f.lo, !.up = f.up, !.rnd = rnd, !.stack = Tail(@)]
    <3>1. f.rnd \in BOOLEAN
      BY <2>1 DEF Ranges
    <3> QED BY <1>3, <3>1 DEF Return
  <2>3. /\ call'.lo = f.lo /\ call'.up = f.up /\ call'.stack = Tail(s) /\ call'.n = call.n
        /\ call'.pc = "ends" /\ call'.script = call.script /\ call'.op = "sorting"
    BY <2>2 DEF SortCalls
  <2>4. Partitioned(call', t)
    BY <2>3 DEF Partitioned
  <2>5. ASSUME NEW x \in 1..call.n, NEW y \in 1..call.n, x < y, Together(call, x, y)
        PROVE  Together(call', x, y) \/ Le(call.script.cmp, t[x], t[y])
    <3>1. CASE x \in call.lo..call.up /\ y \in call.lo..call.up
      BY <2>5, <3>1
    <3>2. ASSUME NEW k \in 1..Len(s), x \in s[k].lo..s[k].up, y \in s[k].lo..s[k].up
          PROVE  Together(call', x, y)
      <4>1. CASE k = 1
        BY <2>3, <3>2, <4>1 DEF Together
      <4>2. CASE k # 1
        <5>1. k - 1 \in 1..(Len(s) - 1) /\ (k - 1) + 1 = k
          BY <2>1, <4>2
        <5>2. k - 1 \in 1..Len(call'.stack) /\ call'.stack[k - 1] = s[k]
          BY <2>1, <2>3, <5>1
        <5> QED BY <3>2, <5>2 DEF Together
      <4> QED BY <4>1, <4>2
    <3> QED BY <2>5, <3>1, <3>2 DEF Together
  <2>6. Ordered(call', t)
    BY <2>3, <2>5 DEF Ordered
  <2> QED BY <2>3, <2>4, <2>6
<1> QED BY <1>2, <1>3

\* A range is split where no element before the pivot is greater, and none after it less.
LEMMA SplitOrders ==
    ASSUME call \in SortCalls, RangesApart(call), NEW p \in Int, call.lo < p, p < call.up, Split(p),
           NEW t \in [Ints -> Int], Ordered(call, t),
           \A k \in call.lo..(p - 1) : Le(call.script.cmp, t[k], t[p]),
           \A k \in (p + 1)..call.up : Le(call.script.cmp, t[p], t[k])
    PROVE  call'.op = "sorting" /\ Ordered(call', t) /\ Partitioned(call', t)
<1> DEFINE s == call.stack  m == call.script.cmp
           left == p - call.lo < call.up - p
           rest == IF left THEN [lo |-> p + 1, up |-> call.up, n |-> p - call.lo, rnd |-> call.rnd]
                   ELSE [lo |-> call.lo, up |-> p - 1, n |-> call.up - p, rnd |-> call.rnd]
           w == <<rest>> \o s
<1>1. /\ s \in Seq(Ranges) /\ Len(s) \in Nat /\ call.lo \in Int /\ call.up \in Int /\ call.n \in Int
      /\ call.rnd \in BOOLEAN /\ 1 <= call.lo /\ call.up <= call.n /\ call.n < MaxInt
  BY DEF SortCalls, RangesApart
<1>2. rest \in Ranges
  BY <1>1 DEF Ranges
<1>3. /\ rest.lo = IF left THEN p + 1 ELSE call.lo
      /\ rest.up = IF left THEN call.up ELSE p - 1
  OBVIOUS
<1>4. call' = [call EXCEPT !.pc = "ends", !.lo = IF left THEN @ ELSE p + 1,
                           !.up = IF left THEN p - 1 ELSE @, !.stack = w]
  BY DEF Split
<1> HIDE DEF rest, s
<1>5. /\ w \in Seq(Ranges) /\ Len(w) = Len(s) + 1 /\ w[1] = rest
      /\ \A k \in 1..Len(s) : w[k + 1] = s[k]
  BY <1>1, <1>2, HeadFacts
<1> HIDE DEF w, left
<1>6. /\ call'.lo = (IF left THEN call.lo ELSE p + 1) /\ call'.up = (IF left THEN p - 1 ELSE call.up)
      /\ call'.stack = w /\ call'.n = call.n /\ call'.pc = "ends" /\ call'.op = "sorting"
      /\ call'.script = call.script
  BY <1>4 DEF SortCalls
<1>7. 1 \in 1..Len(w)
  BY <1>1, <1>5
<1>8. \A x, y \in call.lo..(p - 1) : Together(call', x, y)
  BY <1>3, <1>5, <1>6, <1>7 DEF Together
<1>9. \A x, y \in (p + 1)..call.up : Together(call', x, y)
  BY <1>3, <1>5, <1>6, <1>7 DEF Together
<1>10. ASSUME NEW x \in call.lo..call.up, NEW y \in call.lo..call.up, x < y
       PROVE  Together(call', x, y) \/ Le(m, t[x], t[y])
  <2>1. /\ x < p => x \in call.lo..(p - 1)
        /\ y < p => y \in call.lo..(p - 1)
        /\ p < x => x \in (p + 1)..call.up
        /\ p < y => y \in (p + 1)..call.up
    BY <1>1
  <2>2. y < p \/ p < x \/ (x <= p /\ p <= y)
    BY <1>1, <1>10
  <2>3. CASE y < p \/ p < x
    <3>1. (x < p /\ y < p) \/ (p < x /\ p < y)
      BY <1>1, <1>10, <2>3
    <3> QED BY <1>8, <1>9, <2>1, <3>1
  <2>4. CASE x <= p /\ p <= y
    <3>1. t[x] \in Int /\ t[y] \in Int /\ t[p] \in Int
      <4>1. \A k \in call.lo..call.up : k \in Ints
        BY <1>1, RangeFacts
      <4>2. p \in call.lo..call.up
        BY <1>1
      <4> QED BY <4>1, <4>2
    <3>2. Le(m, t[x], t[p])
      BY <1>1, <2>1, <2>4, <3>1, LeFacts
    <3>3. Le(m, t[p], t[y])
      BY <1>1, <2>1, <2>4, <3>1, LeFacts
    <3> HIDE DEF m
    <3> QED BY <3>1, <3>2, <3>3, LeFacts
  <2> QED BY <2>2, <2>3, <2>4
<1>11. ASSUME NEW x, NEW y, NEW k \in 1..Len(s), x \in s[k].lo..s[k].up, y \in s[k].lo..s[k].up
       PROVE  Together(call', x, y)
  <2>1. k + 1 \in 1..Len(w) /\ w[k + 1] = s[k]
    BY <1>1, <1>5
  <2> QED BY <1>6, <1>11, <2>1 DEF Together
<1>12. ASSUME NEW x \in 1..call.n, NEW y \in 1..call.n, x < y
       PROVE  Together(call', x, y) \/ Le(m, t[x], t[y])
  <2>1. Together(call, x, y) \/ Le(m, t[x], t[y])
    BY <1>12 DEF Ordered
  <2> QED BY <1>10, <1>11, <1>12, <2>1 DEF Together, s
<1>13. Ordered(call', t)
  BY <1>6, <1>12 DEF Ordered
<1>14. Partitioned(call', t)
  BY <1>6 DEF Partitioned
<1> QED BY <1>6, <1>13, <1>14

\* Each step of sort puts elements in order, or fails because the default order
\* cannot compare a nil.
LEMMA SortOrders ==
    ASSUME heap \in [Tables -> [Ints -> Int]], call \in SortCalls, SortInts(call), SortAction,
           call.script.cmp # "any", Ordered(call, T), Partitioned(call, T),
           NEW t, t = heap'[call.script.from]
    PROVE  \/ /\ call' = Done("panic") /\ heap' = heap /\ call.script.cmp = "default"
              /\ \E k \in 1..call.n : T[k] = nil
           \/ /\ call' = Done("ok")
              /\ \A x, y \in 1..call.n : x < y => Le(call.script.cmp, t[x], t[y])
           \/ call'.op = "sorting" /\ Ordered(call', t) /\ Partitioned(call', t)
<1> DEFINE R == call.lo..call.up  h == call.script.from  m == call.script.cmp
           Fails == /\ call' = Done("panic") /\ heap' = heap /\ m = "default"
                    /\ \E k \in 1..call.n : T[k] = nil
           Ends == /\ call' = Done("ok")
                   /\ \A x, y \in 1..call.n : x < y => Le(m, t[x], t[y])
           GoesOn == call'.op = "sorting" /\ Ordered(call', t) /\ Partitioned(call', t)
           Goal == Fails \/ Ends \/ GoesOn
<1>1. /\ call.lo \in Int /\ call.up \in Int /\ call.i \in Int /\ call.j \in Int /\ call.p \in Int
      /\ call.n \in Int /\ call.script \in SortScripts
  BY DEF SortCalls
<1>2. /\ RangesApart(call) /\ ScansInside(call)
      /\ 1 <= call.lo /\ call.lo <= call.up /\ call.up <= call.n /\ call.n < MaxInt
  BY DEF SortInts, RangesApart
<1>3. m \in {"default", "greater"}
  BY <1>1 DEF SortScripts
<1>4. \A k \in R : k \in Ints /\ k \in 1..call.n
  BY <1>1, <1>2, RangeFacts
<1>5. h \in Tables /\ T \in [Ints -> Int] /\ T = heap[h]
  BY <1>1 DEF SortScripts, T
<1>6. \A k \in R : T[k] \in Int
  BY <1>4, <1>5
<1>7. \A u : Write(u) => t = u
  BY <1>5 DEF Write
<1>8. heap' = heap => t = T
  BY <1>5
\* comparisons of elements of the range
<1>9. ASSUME NEW a \in R, NEW b \in R, NEW lt \in sort_comp_idx(a, b)
      PROVE  /\ lt \in {"yes", "no", "panic"}
             /\ lt = "yes" => Le(m, T[a], T[b]) /\ ~Le(m, T[b], T[a])
             /\ lt = "no" => Le(m, T[b], T[a])
             /\ lt = "panic" /\ Panic /\ heap' = heap => Fails
  <2>1. a \in Ints /\ b \in Ints /\ a \in 1..call.n /\ b \in 1..call.n
    BY <1>4
  <2>2. /\ lt \in {"yes", "no", "panic"}
        /\ lt = "yes" => Le(m, T[a], T[b]) /\ ~Le(m, T[b], T[a])
        /\ lt = "no" => Le(m, T[b], T[a])
        /\ lt = "panic" => m = "default" /\ nil \in {T[a], T[b]}
    BY <1>3, <1>5, <2>1, Comparisons
  <2> QED BY <2>1, <2>2 DEF Panic
\* exchanges in the range
<1>10. \A a, b \in R : Swapped(T, a, b) \in [Ints -> Int] /\ Ordered(call, Swapped(T, a, b))
  BY <1>2, <1>4, <1>5, SwapFacts, SwapOrders
<1>11. ASSUME NEW u, Ordered(call, u), t = u, Return(call), \A x, y \in R : x < y => Le(m, u[x], u[y])
       PROVE  Ends \/ GoesOn
  BY <1>11, ReturnOrders
<1> HIDE DEF Fails, Ends, GoesOn
<1>12. ASSUME SortRange PROVE Goal
  <2>1. Return(call) /\ heap' = heap /\ call.lo >= call.up
    BY <1>12 DEF SortRange
  <2>2. \A x, y \in R : x < y => Le(m, T[x], T[y])
    BY <1>1, <2>1
  <2> QED BY <1>8, <1>11, <2>1, <2>2
<1>13. ASSUME SortEnds PROVE Goal
  <2>1. PICK lt \in sort_comp_idx(call.up, call.lo) :
          IF lt = "panic" THEN Panic /\ UNCHANGED heap
          ELSE /\ Write(IF lt = "yes" THEN Swapped(T, call.lo, call.up) ELSE T)
               /\ IF call.up - call.lo = 1 THEN Return(call)
                  ELSE \E p \in Pivots(call.lo, call.up) : call' = [call EXCEPT !.pc = "pivot", !.p = p]
    BY <1>13 DEF SortEnds
  <2>2. call.lo \in R /\ call.up \in R
    BY <1>1, <1>2
  <2>3. CASE lt = "panic"
    BY <1>9, <2>1, <2>2, <2>3
  <2>4. CASE lt # "panic"
    <3> DEFINE u == IF lt = "yes" THEN Swapped(T, call.lo, call.up) ELSE T
    <3>1. t = u
      BY <1>7, <2>1, <2>4
    <3>2. u \in [Ints -> Int] /\ Ordered(call, u)
      BY <1>5, <1>10, <2>2
    <3>3. Le(m, u[call.lo], u[call.up])
      <4>1. CASE lt = "yes"
        <5>1. u[call.lo] = T[call.up] /\ u[call.up] = T[call.lo]
          BY <1>4, <1>5, <2>2, <4>1, SwapFacts
        <5> QED BY <1>9, <2>2, <4>1, <5>1
      <4>2. CASE lt = "no"
        BY <1>9, <2>2, <4>2
      <4> QED BY <1>9, <2>2, <2>4, <4>1, <4>2
    <3> HIDE DEF u
    <3>4. CASE call.up - call.lo = 1
      <4>1. \A x, y \in R : x < y => x = call.lo /\ y = call.up
        BY <1>1, <3>4
      <4>2. Return(call)
        BY <2>1, <2>4, <3>4
      <4> QED BY <1>11, <3>1, <3>2, <3>3, <4>1, <4>2
    <3>5. CASE call.up - call.lo # 1
      <4>1. PICK p \in Pivots(call.lo, call.up) : call' = [call EXCEPT !.pc = "pivot", !.p = p]
        BY <2>1, <2>4, <3>5
      <4>2. /\ call'.script = call.script /\ call'.n = call.n /\ call'.lo = call.lo /\ call'.up = call.up
            /\ call'.stack = call.stack /\ call'.pc = "pivot" /\ call'.op = "sorting"
        BY <4>1 DEF SortCalls
      <4> QED BY <3>1, <3>2, <3>3, <4>2 DEF GoesOn, Ordered, Together, Partitioned
    <3> QED BY <3>4, <3>5
  <2> QED BY <2>3, <2>4
\* a step that goes on with the same ranges
<1>14. ASSUME call'.op = "sorting", call'.script = call.script, call'.n = call.n, call'.lo = call.lo,
              call'.up = call.up, call'.stack = call.stack, Ordered(call, t), Partitioned(call', t)
       PROVE  GoesOn
  BY <1>14 DEF GoesOn, Ordered, Together
\* three elements are in order
<1>15. ASSUME NEW u \in [Ints -> Int], Median(u), Ordered(call, u), call.up - call.lo >= 2,
              call.lo < call.p, call.p < call.up,
              Le(m, u[call.lo], u[call.p]), Le(m, u[call.p], u[call.up])
       PROVE  Ends \/ GoesOn
  <2>1. call.lo \in R /\ call.up \in R /\ call.p \in R /\ call.up - 1 \in R
    BY <1>1, <1>15
  <2>2. u[call.lo] \in Int /\ u[call.p] \in Int /\ u[call.up] \in Int
    BY <1>4, <1>15, <2>1
  <2>3. Le(m, u[call.lo], u[call.up])
    BY <1>15, <2>2, LeFacts
  <2>4. CASE call.up - call.lo = 2
    <3>1. t = u /\ Return(call)
      BY <1>7, <1>15, <2>4 DEF Median
    <3>2. ASSUME NEW x \in R, NEW y \in R, x < y PROVE Le(m, u[x], u[y])
      <4>1. \/ x = call.lo /\ y = call.p
            \/ x = call.lo /\ y = call.up
            \/ x = call.p /\ y = call.up
        BY <1>1, <1>15, <2>4, <3>2
      <4> QED BY <1>15, <2>3, <4>1
    <3> QED BY <1>11, <1>15, <3>1, <3>2
  <2>5. CASE call.up - call.lo # 2
    <3> DEFINE i == call.lo + 1  j == call.up - 1
    <3>1. t = Swapped(u, call.p, j) /\ call' = [call EXCEPT !.pc = "up", !.i = i, !.j = j]
      BY <1>7, <1>15, <2>5 DEF Median
    <3>2. Ordered(call, t)
      BY <1>2, <1>15, <2>1, <3>1, SwapOrders
    <3>3. call.lo # call.p /\ call.lo # j /\ call.up # call.p /\ call.up # j /\ i - 1 = call.lo
      BY <1>1, <1>15, <2>5
    <3>4. t[j] = u[call.p] /\ t[call.lo] = u[call.lo] /\ t[call.up] = u[call.up]
      BY <1>4, <1>15, <2>1, <3>1, <3>3, SwapFacts
    <3>5. Le(m, t[j], t[j])
      BY <2>2, <3>4, LeFacts
    <3>6. \A k \in j..call.up : k = j \/ k = call.up
      BY <1>1
    <3>7. \A k \in call.lo..(i - 1) : k = call.lo
      BY <1>1
    <3>8. /\ call'.script = call.script /\ call'.n = call.n /\ call'.lo = call.lo /\ call'.up = call.up
          /\ call'.stack = call.stack /\ call'.pc = "up" /\ call'.op = "sorting" /\ call'.i = i /\ call'.j = j
      <4> HIDE DEF i, j
      <4> QED BY <3>1 DEF SortCalls
    <3>9. Partitioned(call', t)
      <4>1. \A k \in call.lo..(i - 1) : Le(m, t[k], t[j])
        BY <1>15, <3>4, <3>7
      <4>2. \A k \in j..call.up : Le(m, t[j], t[k])
        BY <1>15, <3>4, <3>5, <3>6
      <4> QED BY <3>8, <4>1, <4>2 DEF Partitioned
    <3> QED BY <1>14, <3>2, <3>8, <3>9
  <2> QED BY <2>4, <2>5
<1>16. ASSUME SortPivot PROVE Goal
  <2>1. /\ call.pc = "pivot" /\ call.up - call.lo >= 2 /\ call.lo < call.p /\ call.p < call.up
    BY <1>2, <1>16 DEF SortPivot, ScansInside
  <2>2. PICK lt \in sort_comp_idx(call.p, call.lo) :
          CASE lt = "panic" -> Panic /\ UNCHANGED heap
            [] lt = "yes" -> Median(Swapped(T, call.p, call.lo))
            [] lt = "no" -> call' = [call EXCEPT !.pc = "pivot2"] /\ UNCHANGED heap
    BY <1>16 DEF SortPivot
  <2>3. call.lo \in R /\ call.up \in R /\ call.p \in R
    BY <1>1, <2>1
  <2>4. Le(m, T[call.lo], T[call.up])
    BY <2>1 DEF Partitioned
  <2>5. CASE lt = "panic"
    BY <1>9, <2>2, <2>3, <2>5
  <2>6. CASE lt = "yes"
    <3> DEFINE u == Swapped(T, call.p, call.lo)
    <3>1. u[call.lo] = T[call.p] /\ u[call.p] = T[call.lo] /\ u[call.up] = T[call.up]
      <4>1. call.up # call.p /\ call.up # call.lo
        BY <1>1, <2>1
      <4> QED BY <1>4, <1>5, <2>3, <4>1, SwapFacts
    <3>2. Le(m, T[call.p], T[call.lo])
      BY <1>9, <2>3, <2>6
    <3>3. u \in [Ints -> Int] /\ Ordered(call, u) /\ Median(u)
      BY <1>10, <2>2, <2>3, <2>6
    <3> HIDE DEF u
    <3> QED BY <1>15, <2>1, <2>4, <3>1, <3>2, <3>3
  <2>7. CASE lt = "no"
    <3>1. call' = [call EXCEPT !.pc = "pivot2"] /\ heap' = heap
      BY <2>2, <2>7
    <3>2. /\ call'.script = call.script /\ call'.n = call.n /\ call'.lo = call.lo /\ call'.up = call.up
          /\ call'.stack = call.stack /\ call'.pc = "pivot2" /\ call'.op = "sorting" /\ call'.p = call.p
      BY <3>1 DEF SortCalls
    <3>3. Le(m, T[call.lo], T[call.p])
      BY <1>9, <2>3, <2>7
    <3>4. Partitioned(call', t)
      BY <1>8, <2>4, <3>1, <3>2, <3>3 DEF Partitioned
    <3> QED BY <1>8, <1>14, <3>1, <3>2, <3>4
  <2> QED BY <1>9, <2>3, <2>5, <2>6, <2>7
<1>17. ASSUME SortPivot2 PROVE Goal
  <2>1. /\ call.pc = "pivot2" /\ call.up - call.lo >= 2 /\ call.lo < call.p /\ call.p < call.up
    BY <1>2, <1>17 DEF SortPivot2, ScansInside
  <2>2. PICK lt \in sort_comp_idx(call.up, call.p) :
          IF lt = "panic" THEN Panic /\ UNCHANGED heap
          ELSE Median(IF lt = "yes" THEN Swapped(T, call.p, call.up) ELSE T)
    BY <1>17 DEF SortPivot2
  <2>3. call.lo \in R /\ call.up \in R /\ call.p \in R
    BY <1>1, <2>1
  <2>4. Le(m, T[call.lo], T[call.up]) /\ Le(m, T[call.lo], T[call.p])
    BY <2>1 DEF Partitioned
  <2>5. CASE lt = "panic"
    BY <1>9, <2>2, <2>3, <2>5
  <2>6. CASE lt = "yes"
    <3> DEFINE u == Swapped(T, call.p, call.up)
    <3>1. u[call.lo] = T[call.lo] /\ u[call.p] = T[call.up] /\ u[call.up] = T[call.p]
      <4>1. call.lo # call.p /\ call.lo # call.up
        BY <1>1, <2>1
      <4> QED BY <1>4, <1>5, <2>3, <4>1, SwapFacts
    <3>2. Le(m, T[call.up], T[call.p])
      BY <1>9, <2>3, <2>6
    <3>3. u \in [Ints -> Int] /\ Ordered(call, u) /\ Median(u)
      BY <1>10, <2>2, <2>3, <2>6
    <3> HIDE DEF u
    <3> QED BY <1>15, <2>1, <2>4, <3>1, <3>2, <3>3
  <2>7. CASE lt = "no"
    <3>1. Le(m, T[call.p], T[call.up])
      BY <1>9, <2>3, <2>7
    <3>2. Median(T)
      BY <2>2, <2>7
    <3> QED BY <1>5, <1>15, <2>1, <2>4, <3>1, <3>2
  <2> QED BY <1>9, <2>3, <2>5, <2>6, <2>7
<1>18. ASSUME PartitionUp PROVE Goal
  <2>1. /\ heap' = heap /\ call.pc = "up" /\ call.lo < call.i /\ call.i < call.up
        /\ call.lo < call.j /\ call.j < call.up
    BY <1>2, <1>18 DEF PartitionUp, ScansInside
  <2>2. PICK lt \in sort_comp_idx(call.i, call.up - 1) :
          CASE lt = "panic" -> Panic
            [] lt = "yes" -> IF call.i = call.up - 1 THEN Panic ELSE call' = [call EXCEPT !.i = @ + 1]
            [] lt = "no" -> call' = [call EXCEPT !.pc = "down", !.j = @ - 1]
    BY <1>18 DEF PartitionUp
  <2>3. call.i \in R /\ call.up - 1 \in R
    BY <1>1, <2>1
  <2>4. /\ \A k \in call.lo..(call.i - 1) : Le(m, T[k], T[call.up - 1])
        /\ \A k \in call.j..call.up : Le(m, T[call.up - 1], T[k])
    BY <2>1 DEF Partitioned
  <2>5. CASE lt = "panic"
    BY <1>9, <2>1, <2>2, <2>3, <2>5
  <2>6. CASE lt = "yes"
    <3>1. Le(m, T[call.i], T[call.up - 1]) /\ ~Le(m, T[call.up - 1], T[call.i])
      BY <1>9, <2>3, <2>6
    <3>2. call.i # call.up - 1
      <4> SUFFICES ASSUME call.i = call.up - 1 PROVE FALSE
        OBVIOUS
      <4> QED BY <3>1
    <3> DEFINE i == call.i + 1
    <3>3. call' = [call EXCEPT !.i = i]
      BY <2>2, <2>6, <3>2
    <3>4. \A k \in call.lo..(i - 1) : k \in call.lo..(call.i - 1) \/ k = call.i
      BY <1>1
    <3> HIDE DEF i
    <3>5. /\ call'.script = call.script /\ call'.n = call.n /\ call'.lo = call.lo /\ call'.up = call.up
          /\ call'.stack = call.stack /\ call'.pc = "up" /\ call'.op = "sorting" /\ call'.i = i /\ call'.j = call.j
      BY <2>1, <3>3 DEF SortCalls
    <3>6. Partitioned(call', t)
      BY <1>8, <2>1, <2>4, <3>1, <3>4, <3>5 DEF Partitioned
    <3> QED BY <1>8, <1>14, <2>1, <3>5, <3>6
  <2>7. CASE lt = "no"
    <3> DEFINE j == call.j - 1
    <3>1. Le(m, T[call.up - 1], T[call.i])
      BY <1>9, <2>3, <2>7
    <3>2. call' = [call EXCEPT !.pc = "down", !.j = j]
      BY <2>2, <2>7
    <3>3. j + 1 = call.j
      BY <1>1
    <3> HIDE DEF j
    <3>4. /\ call'.script = call.script /\ call'.n = call.n /\ call'.lo = call.lo /\ call'.up = call.up
          /\ call'.stack = call.stack /\ call'.pc = "down" /\ call'.op = "sorting" /\ call'.i = call.i
          /\ call'.j = j
      BY <3>2 DEF SortCalls
    <3>5. Partitioned(call', t)
      BY <1>8, <2>1, <2>4, <3>1, <3>3, <3>4 DEF Partitioned
    <3> QED BY <1>8, <1>14, <2>1, <3>4, <3>5
  <2> QED BY <1>9, <2>3, <2>5, <2>6, <2>7
<1>19. ASSUME PartitionDown PROVE Goal
  <2>1. /\ call.pc = "down" /\ call.lo < call.i /\ call.i < call.up
        /\ call.lo <= call.j /\ call.j < call.up - 1
    BY <1>2, <1>19 DEF PartitionDown, ScansInside
  <2>2. PICK lt \in sort_comp_idx(call.up - 1, call.j) :
          CASE lt = "panic" -> Panic /\ UNCHANGED heap
            [] lt = "yes" -> IF call.j < call.i THEN Panic /\ UNCHANGED heap
                             ELSE call' = [call EXCEPT !.j = @ - 1] /\ UNCHANGED heap
            [] lt = "no" -> IF call.j < call.i
                            THEN Write(Swapped(T, call.up - 1, call.i)) /\ Split(call.i)
                            ELSE /\ Write(Swapped(T, call.i, call.j))
                                 /\ call' = [call EXCEPT !.pc = "up", !.i = @ + 1]
    BY <1>19 DEF PartitionDown
  <2>3. call.i \in R /\ call.j \in R /\ call.up - 1 \in R
    BY <1>1, <2>1
  <2>4. /\ \A k \in call.lo..(call.i - 1) : Le(m, T[k], T[call.up - 1])
        /\ \A k \in (call.j + 1)..call.up : Le(m, T[call.up - 1], T[k])
        /\ Le(m, T[call.up - 1], T[call.i])
    BY <2>1 DEF Partitioned
  <2>5. CASE lt = "panic"
    BY <1>9, <2>2, <2>3, <2>5
  <2>6. CASE lt = "yes"
    <3>1. Le(m, T[call.up - 1], T[call.j]) /\ ~Le(m, T[call.j], T[call.up - 1])
      BY <1>9, <2>3, <2>6
    <3>2. ~(call.j < call.i)
      <4> SUFFICES ASSUME call.j < call.i PROVE FALSE
        OBVIOUS
      <4>1. call.j \in call.lo..(call.i - 1)
        BY <1>1, <2>1
      <4> QED BY <2>4, <3>1, <4>1
    <3> DEFINE j == call.j - 1
    <3>3. call' = [call EXCEPT !.j = j] /\ heap' = heap
      BY <2>2, <2>6, <3>2
    <3>4. \A k \in (j + 1)..call.up : k \in (call.j + 1)..call.up \/ k = call.j
      BY <1>1
    <3> HIDE DEF j
    <3>5. /\ call'.script = call.script /\ call'.n = call.n /\ call'.lo = call.lo /\ call'.up = call.up
          /\ call'.stack = call.stack /\ call'.pc = "down" /\ call'.op = "sorting" /\ call'.i = call.i
          /\ call'.j = j
      BY <2>1, <3>3 DEF SortCalls
    <3>6. Partitioned(call', t)
      BY <1>8, <2>4, <3>1, <3>3, <3>4, <3>5 DEF Partitioned
    <3> QED BY <1>8, <1>14, <3>3, <3>5, <3>6
  <2>7. CASE lt = "no" /\ call.j < call.i
    <3> DEFINE u == Swapped(T, call.up - 1, call.i)
    <3>1. t = u /\ Split(call.i)
      BY <1>7, <2>2, <2>7
    <3>2. u \in [Ints -> Int] /\ Ordered(call, u)
      BY <1>10, <2>3
    <3>3. /\ u[call.i] = T[call.up - 1] /\ u[call.up - 1] = T[call.i]
          /\ \A k \in R : k # call.i /\ k # call.up - 1 => u[k] = T[k]
      <4>1. call.i \in Ints /\ call.up - 1 \in Ints
        BY <1>4, <2>3
      <4> QED BY <1>4, <1>5, <4>1, SwapFacts
    <3> HIDE DEF u
    <3>4. ASSUME NEW k \in call.lo..(call.i - 1) PROVE Le(m, u[k], u[call.i])
      <4>1. k \in R /\ k # call.i /\ k # call.up - 1
        BY <1>1, <2>1
      <4> QED BY <2>4, <3>3, <4>1
    <3>5. ASSUME NEW k \in (call.i + 1)..call.up PROVE Le(m, u[call.i], u[k])
      <4>1. k \in R /\ k # call.i /\ k \in (call.j + 1)..call.up
        BY <1>1, <2>1, <2>7
      <4> QED BY <2>4, <3>3, <4>1
    <3>6. GoesOn
      BY <1>1, <1>2, <2>1, <3>1, <3>2, <3>4, <3>5, SplitOrders DEF GoesOn
    <3> QED BY <3>6
  <2>8. CASE lt = "no" /\ ~(call.j < call.i)
    <3> DEFINE u == Swapped(T, call.i, call.j)  i == call.i + 1
    <3>1. t = u /\ call' = [call EXCEPT !.pc = "up", !.i = i]
      BY <1>7, <2>2, <2>8
    <3>2. u \in [Ints -> Int] /\ Ordered(call, u)
      BY <1>10, <2>3
    <3>3. /\ u[call.i] = T[call.j] /\ u[call.j] = T[call.i]
          /\ \A k \in R : k # call.i /\ k # call.j => u[k] = T[k]
      <4>1. call.i \in Ints /\ call.j \in Ints
        BY <1>4, <2>3
      <4> QED BY <1>4, <1>5, <4>1, SwapFacts
    <3>4. u[call.up - 1] = T[call.up - 1]
      <4>1. call.up - 1 # call.i /\ call.up - 1 # call.j
        BY <1>1, <2>1, <2>8
      <4> QED BY <2>3, <3>3, <4>1
    <3>5. Le(m, T[call.j], T[call.up - 1])
      BY <1>9, <2>3, <2>8
    <3> HIDE DEF u
    <3>6. ASSUME NEW k \in call.lo..(i - 1) PROVE Le(m, u[k], u[call.up - 1])
      <4>1. CASE k = call.i
        BY <3>3, <3>4, <3>5, <4>1
      <4>2. CASE k # call.i
        <5>1. k \in call.lo..(call.i - 1) /\ k \in R /\ k # call.j
          BY <1>1, <2>1, <2>8, <4>2
        <5> QED BY <2>4, <3>3, <3>4, <4>2, <5>1
      <4> QED BY <4>1, <4>2
    <3>7. ASSUME NEW k \in call.j..call.up PROVE Le(m, u[call.up - 1], u[k])
      <4>1. CASE k = call.j
        BY <2>4, <3>3, <3>4, <4>1
      <4>2. CASE k # call.j
        <5>1. k \in (call.j + 1)..call.up /\ k \in R /\ k # call.i
          BY <1>1, <2>1, <2>8, <4>2
        <5> QED BY <2>4, <3>3, <3>4, <4>2, <5>1
      <4> QED BY <4>1, <4>2
    <3> HIDE DEF i
    <3>8. /\ call'.script = call.script /\ call'.n = call.n /\ call'.lo = call.lo /\ call'.up = call.up
          /\ call'.stack = call.stack /\ call'.pc = "up" /\ call'.op = "sorting" /\ call'.i = i
          /\ call'.j = call.j
      BY <3>1 DEF SortCalls
    <3>9. Partitioned(call', t)
      BY <3>1, <3>6, <3>7, <3>8 DEF Partitioned
    <3> QED BY <1>14, <3>1, <3>2, <3>8, <3>9
  <2> QED BY <1>9, <2>3, <2>5, <2>6, <2>7, <2>8
<1> QED BY <1>12, <1>13, <1>16, <1>17, <1>18, <1>19 DEF SortAction, Fails, Ends, GoesOn

SortInv ==
    /\ call.op = "sorting" /\ call.script.cmp # "any" => Ordered(call, T) /\ Partitioned(call, T)
    /\ SortSorts

\* A sort that has ended.
LEMMA SortEnd ==
    ASSUME LibInv, call \in SortCalls, SortInts(call),
           NEW r, call' = [op |-> "done", of |-> call, r |-> r],
           NEW t, t = heap'[call.script.from], t \in [Ints -> Int],
           call.script.cmp # "any" =>
              \/ /\ r = "panic" /\ call.script.cmp = "default"
                 /\ \E k \in 1..call.n : t[k] = nil
              \/ /\ r = "ok"
                 /\ \A x, y \in 1..call.n : x < y => Le(call.script.cmp, t[x], t[y])
    PROVE  SortInv'
<1> DEFINE m == call.script.cmp
<1>1. call'.op = "done" /\ call'.of = call /\ call'.r = r
  OBVIOUS
<1>2. m \in {"default", "greater", "any"} /\ call.n \in Int /\ call.n < MaxInt
  BY DEF SortCalls, SortScripts, SortInts, RangesApart
<1>3. m = "greater" => r = "ok"
  OBVIOUS
<1>4. m = "default" /\ nil \notin {t[i] : i \in 1..call.n} => r = "ok"
  OBVIOUS
<1>5. ASSUME r = "ok", NEW i \in 1..(call.n - 1)
      PROVE  CASE m = "default" -> t[i] <= t[i + 1]
               [] m = "greater" -> t[i] >= t[i + 1]
               [] OTHER -> TRUE
  <2>1. i \in 1..call.n /\ i + 1 \in 1..call.n /\ i < i + 1
    BY <1>2
  <2>2. m # "any" => Le(m, t[i], t[i + 1])
    BY <1>5, <2>1
  <2> QED BY <1>2, <2>2 DEF Le
<1>6. SortSorts'
  BY <1>1, <1>3, <1>4, <1>5 DEF SortSorts
<1> QED BY <1>1, <1>6 DEF SortInv

LEMMA SortStep == LibInv /\ SortInv /\ [Next]_vars => SortInv'
<1> SUFFICES ASSUME LibInv, SortInv, [Next]_vars PROVE SortInv'
  OBVIOUS
<1>0. heap \in [Tables -> [Ints -> Int]] /\ old \in [Tables -> [Ints -> Int]]
  BY DEF LibInv
<1>1. CASE UNCHANGED vars
  BY <1>1 DEF vars, SortInv, SortSorts, T, Ordered, Together, Partitioned
<1>2. CASE Next
  <2>1. CASE call \in Scripts /\ tab_sort(call)
    <3>1. \/ call' = Done("ok") \/ call' = Done("panic")
          \/ /\ call' \in SortCalls /\ call'.pc = "ends" /\ call'.lo = 1 /\ call'.up = call'.n
      BY <1>0, <2>1, SortStarts
    <3>2. CASE call' = Done("ok") \/ call' = Done("panic")
      BY <2>1, <3>2, Kinds DEF SortInv, SortSorts, Done
    <3>3. CASE call' \in SortCalls /\ call'.pc = "ends" /\ call'.lo = 1 /\ call'.up = call'.n
      <4>1. (Ordered(call, T) /\ Partitioned(call, T))'
        BY <3>3 DEF Ordered, Together, Partitioned
      <4>2. call'.op = "sorting"
        BY <3>3, Kinds
      <4> QED BY <4>1, <4>2 DEF SortInv, SortSorts
    <3> QED BY <3>1, <3>2, <3>3
  <2>2. CASE call \in SortCalls /\ SortInts(call) /\ call.op = "sorting" /\ call = Made /\ SortAction
    <3> DEFINE h == call.script.from  t == heap'[h]
    <3>1. /\ \/ call' = Done("ok") \/ call' = Done("panic")
             \/ call' \in SortCalls /\ call'.script = call.script /\ call'.n = call.n
      BY <1>0, <2>2, SortSteps
    <3>2. LibInv'
      BY LibStep
    <3>3. h \in Tables /\ t \in [Ints -> Int]
      BY <2>2, <3>2, Kinds DEF LibInv
    <3>4. CASE call.script.cmp = "any"
      <4>1. ASSUME NEW r, call' = Done(r) PROVE SortInv'
        <5>1. call' = [op |-> "done", of |-> call, r |-> r]
          BY <4>1 DEF Done
        <5> QED BY <2>2, <3>3, <3>4, <5>1, SortEnd
      <4>2. CASE call' \in SortCalls /\ call'.script = call.script
        BY <3>4, <4>2, Kinds DEF SortInv, SortSorts
      <4> QED BY <3>1, <4>1, <4>2
    <3>5. CASE call.script.cmp # "any"
      <4>1. Ordered(call, T) /\ Partitioned(call, T)
        BY <2>2, <3>5 DEF SortInv
      <4>2. \/ /\ call' = Done("panic") /\ heap' = heap /\ call.script.cmp = "default"
               /\ \E k \in 1..call.n : T[k] = nil
            \/ /\ call' = Done("ok")
               /\ \A x, y \in 1..call.n : x < y => Le(call.script.cmp, t[x], t[y])
            \/ call'.op = "sorting" /\ Ordered(call', t) /\ Partitioned(call', t)
        <5> HIDE DEF t
        <5>1. t = heap'[call.script.from]
          BY DEF t
        <5> QED BY <1>0, <2>2, <3>5, <4>1, <5>1, SortOrders
      <4>3. CASE /\ call' = Done("panic") /\ heap' = heap /\ call.script.cmp = "default"
                 /\ \E k \in 1..call.n : T[k] = nil
        <5>1. call' = [op |-> "done", of |-> call, r |-> "panic"] /\ \E k \in 1..call.n : t[k] = nil
          BY <4>3 DEF Done, T
        <5> QED BY <2>2, <3>3, <4>3, <5>1, SortEnd
      <4>4. CASE /\ call' = Done("ok")
                 /\ \A x, y \in 1..call.n : x < y => Le(call.script.cmp, t[x], t[y])
        <5>1. call' = [op |-> "done", of |-> call, r |-> "ok"]
          BY <4>4 DEF Done
        <5> QED BY <2>2, <3>3, <4>4, <5>1, SortEnd
      <4>5. CASE call'.op = "sorting" /\ Ordered(call', t) /\ Partitioned(call', t)
        <5>1. call'.script = call.script
          BY <3>1, <4>5 DEF Done
        <5>2. T' = t
          BY <5>1 DEF T
        <5> QED BY <4>5, <5>2 DEF SortInv, SortSorts
      <4> QED BY <4>2, <4>3, <4>4, <4>5
    <3> QED BY <3>4, <3>5
  <2>3. CASE Made' \notin SortCalls /\ call'.op # "sorting"
    <3>1. LibInv'
      BY LibStep
    <3>2. (LibInv => (call.op = "done" /\ "stack" \in DOMAIN call.of => Made \in SortCalls))'
      BY SortingCalls, PTL
    <3> QED BY <2>3, <3>1, <3>2 DEF SortInv, SortSorts
  <2> QED BY <1>2, <2>1, <2>2, <2>3, OtherCalls
<1> QED BY <1>1, <1>2

\* A comparison function that is an order is never called invalid (auxsort, sort_partition),
\* and sort ends with the elements in that order.
THEOREM SortCorrect == Spec => []SortSorts
<1>1. Init => LibInv /\ SortInv
  <2> SUFFICES ASSUME Init PROVE LibInv /\ SortInv
    OBVIOUS
  <2>1. PICK c \in Cases : call = c.script
    BY DEF Init
  <2>2. call \in Scripts
    BY <2>1, TableLibAssumption DEF Scripts
  <2>3. call.op # "done" /\ call.op # "sorting"
    BY <2>2, Kinds
  <2> QED BY <2>3, LibInit DEF SortInv, SortSorts
<1>2. LibInv /\ SortInv /\ [Next]_vars => (LibInv /\ SortInv)'
  BY LibStep, SortStep
<1>3. LibInv /\ SortInv => SortSorts
  BY DEF SortInv
<1> QED BY <1>1, <1>2, <1>3, PTL DEF Spec
=============================================================================
