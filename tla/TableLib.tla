------------------------------ MODULE TableLib ------------------------------
(***************************************************************************)
(* The table library (ltablib.cpp).  Its functions read and write a table   *)
(* through geti and seti and sort calls a comparison function, so a call is *)
(* one step per round of its loop or per comparison.  Integers have the     *)
(* width of the constant MaxInt; 0 stands for nil and the other values are   *)
(* numbers, which concat accepts and sort can compare.                       *)
(***************************************************************************)
EXTENDS Integers, Sequences, FiniteSets

CONSTANTS MaxInt,      \* INT64_MAX
          INT_MAX,     \* of the 32-bit integers that count results and sort's elements
          RANLIMIT,    \* a range this long may have a random pivot
          Imbalance,   \* 128: how lopsided a partition makes pivots random
          Tables,
          Values,
          Cases        \* the calls a program makes: [heap, script: the function and its arguments]

nil == 0
MinInt == -MaxInt - 1
Ints == MinInt..MaxInt

\* The arguments of a call: the tables it reads (from) and writes (to), positions,
\* a value, and how many arguments there are where that makes a difference.
InsertScripts == {s \in [op : {"insert"}, from : Tables, to : Tables, args : {2, 3}, pos : Ints, v : Int] :
                    s.to = s.from}
RemoveScripts == {s \in [op : {"remove"}, from : Tables, to : Tables, args : {1, 2}, pos : Ints] :
                    s.to = s.from}
MoveScripts   == [op : {"move"}, from : Tables, to : Tables, f : Ints, e : Ints, t : Ints]
ReadScripts   == [op : {"concat"}, from : Tables, args : {3, 4}, i : Ints, j : Ints]
                 \cup [op : {"unpack"}, from : Tables, args : {2, 3}, i : Ints, j : Ints]
SortScripts   == [op : {"sort"}, from : Tables, cmp : {"default", "greater", "any"}]
CopyScripts   == InsertScripts \cup RemoveScripts \cup MoveScripts

ASSUME TableLibAssumption == /\ MaxInt \in Nat \ {0}
                             /\ INT_MAX \in Nat \ {0}
                             /\ RANLIMIT \in Nat /\ RANLIMIT >= 4
                             /\ Imbalance \in Nat \ {0}
                             /\ Values \subseteq Nat
                             /\ \A c \in Cases : /\ c.heap \in [Tables -> [Ints -> Int]]
                                                 /\ c.script \in CopyScripts \cup ReadScripts \cup SortScripts

VARIABLES heap,  \* heap[h][i]: element i of table h
          old,   \* the heap when the call was made
          call
vars == <<heap, old, call>>

(* Any border may be the length of a table with holes.                       *)
Borders(t) == {n \in 0..(MaxInt - 1) : (n = 0 \/ t[n] # nil) /\ t[n + 1] = nil}
aux_getn(h) == Borders(heap[h])

Done(r) == [op |-> "done", of |-> call, r |-> r]
Panic == call' = Done("panic")

(***************************************************************************)
(* Loops that copy: to[at + k] := from[first + k] for k = 0 .. n - 1, or the *)
(* other way round; then the last write of the call.                         *)
(***************************************************************************)
Copy(op, script, n, first, at, backwards, then, result) ==
  [op |-> op, script |-> script, n |-> n, first |-> first, at |-> at, backwards |-> backwards,
   done |-> 0, then |-> then, result |-> result]

Begin(s) == call = s /\ old' = heap /\ UNCHANGED heap

tab_insert(s) ==
  /\ s.op = "insert" /\ Begin(s)
  /\ \E size \in aux_getn(s.from) :
       LET e == size + 1
           pos == IF s.args = 2 THEN e ELSE s.pos
       IN IF pos < 1 \/ pos > e THEN Panic
          ELSE call' = Copy("copy", s, e - pos, pos, pos + 1, TRUE, <<pos, s.v>>, e)

tab_remove(s) ==
  /\ s.op = "remove" /\ Begin(s)
  /\ \E size \in aux_getn(s.from) :
       LET pos == IF s.args = 1 THEN size ELSE s.pos
           last == IF 1 <= pos /\ pos <= size THEN <<size, nil>>
                   ELSE IF pos = 0 THEN <<0, nil>> ELSE <<>>
       IN IF pos # size /\ (pos < 1 \/ pos > size + 1) THEN Panic
          ELSE call' = Copy("copy", s, IF pos < size THEN size - pos ELSE 0, pos + 1, pos, FALSE, last,
                            heap[s.from][pos])

\* mutant: the direction is not chosen by how the two ranges overlap.
TabMoveForwards(s) ==
  /\ s.op = "move" /\ Begin(s)
  /\ CASE s.e < s.f -> call' = Copy("copy", s, 0, s.f, s.t, FALSE, <<>>, nil)
       [] s.e >= s.f /\ s.f <= 0 /\ s.e - s.f >= MaxInt -> Panic
       [] OTHER -> IF s.t > MaxInt - (s.e - s.f + 1) + 1 THEN Panic
                   ELSE call' = Copy("copy", s, s.e - s.f + 1, s.f, s.t, FALSE, <<>>, nil)

tab_move(s) ==
  /\ s.op = "move" /\ Begin(s)
  /\ CASE s.e < s.f -> call' = Copy("copy", s, 0, s.f, s.t, FALSE, <<>>, nil)
       [] s.e >= s.f /\ s.f <= 0 /\ s.e - s.f >= MaxInt -> Panic
       [] OTHER ->
            LET n == s.e - s.f + 1
                forwards == s.t > s.e \/ s.t <= s.f \/ s.to # s.from
            IN IF s.t > MaxInt - n + 1 THEN Panic
               ELSE call' = Copy("copy", s, n, s.f, s.t, ~forwards, <<>>, nil)

CopyNext ==
  /\ call.op = "copy" /\ call.done < call.n
  /\ LET k == IF call.backwards THEN call.n - 1 - call.done ELSE call.done
     IN heap' = [heap EXCEPT ![call.script.to][call.at + k] = heap[call.script.from][call.first + k]]
  /\ call' = [call EXCEPT !.done = @ + 1]
  /\ UNCHANGED old

CopyEnd ==
  /\ call.op = "copy" /\ call.done = call.n
  /\ heap' = IF call.then = <<>> THEN heap
             ELSE [heap EXCEPT ![call.script.to][call.then[1]] = call.then[2]]
  /\ call' = Done("ok")
  /\ UNCHANGED old

(***************************************************************************)
(* Loops that read: concat and unpack, whose last element is read after the  *)
(* loop because its index may be the largest integer.                        *)
(***************************************************************************)
Read(s, i, last) == [op |-> "read", script |-> s, i |-> i, last |-> last, out |-> <<>>]

tab_concat(s) ==
  /\ s.op = "concat" /\ Begin(s)
  /\ \E size \in aux_getn(s.from) : call' = Read(s, s.i, IF s.args = 3 THEN size ELSE s.j)

tab_unpack(s) ==
  /\ s.op = "unpack" /\ Begin(s)
  /\ \E size \in aux_getn(s.from) :
       LET j == IF s.args = 2 THEN size ELSE s.j
       IN IF s.i <= j /\ j - s.i >= INT_MAX - 1 THEN Panic ELSE call' = Read(s, s.i, j)

\* mutant: one loop, whose index passes the last element before it stops.
ReadNextWrapping ==
  /\ call.op = "read" /\ call.i <= call.last
  /\ call' = [call EXCEPT !.out = Append(@, heap[call.script.from][call.i]),
                          !.i = IF @ = MaxInt THEN MinInt ELSE @ + 1]
  /\ UNCHANGED <<heap, old>>

ReadNext ==
  /\ call.op = "read" /\ call.i < call.last
  /\ LET v == heap[call.script.from][call.i]
     IN IF call.script.op = "concat" /\ v = nil THEN Panic
        ELSE call' = [call EXCEPT !.out = Append(@, v), !.i = @ + 1]
  /\ UNCHANGED <<heap, old>>

ReadEnd ==
  /\ call.op = "read" /\ call.i >= call.last
  /\ LET v == heap[call.script.from][call.last]
         out == IF call.i = call.last THEN Append(call.out, v) ELSE call.out
     IN IF call.script.op = "concat" /\ call.i = call.last /\ v = nil THEN Panic
        ELSE call' = [Done("ok") EXCEPT !.of.out = out]
  /\ UNCHANGED <<heap, old>>

(***************************************************************************)
(* sort.  stack holds the rest of the ranges whose smaller part is being     *)
(* sorted (the recursion of auxsort), rnd whether pivots are random.  The    *)
(* comparison function is the default order, an order of the program's, or   *)
(* any function: its answers need not agree with each other, and it may raise *)
(* an error.  pc says which comparison comes next.                           *)
(***************************************************************************)
tab_sort(s) ==
  /\ s.op = "sort" /\ Begin(s)
  /\ \E n \in aux_getn(s.from) :
       call' = CASE n <= 1 -> Done("ok")
                 [] n > 1 /\ n >= INT_MAX -> Done("panic")
                 [] OTHER -> [op |-> "sorting", script |-> s, n |-> n, pc |-> "ends", lo |-> 1, up |-> n,
                              i |-> 0, j |-> 0, p |-> 0, rnd |-> FALSE, stack |-> <<>>]

T == heap[call.script.from]
\* mutant: the second element is read after the first one is written.
SwappedLosing(t, i, j) == [t EXCEPT ![i] = t[j]]
Swapped(t, i, j) == [t EXCEPT ![i] = t[j], ![j] = t[i]]
Write(t) == heap' = [heap EXCEPT ![call.script.from] = t]

(* sort_comp_idx: the answers the comparison of elements a and b may give.   *)
sort_comp_idx(a, b) ==
  CASE call.script.cmp = "default" -> IF nil \in {T[a], T[b]} THEN {"panic"}
                                      ELSE {IF T[a] < T[b] THEN "yes" ELSE "no"}
    [] call.script.cmp = "greater" -> {IF T[a] > T[b] THEN "yes" ELSE "no"}
    [] call.script.cmp = "any" -> {"yes", "no", "panic"}

(* The pivots auxsort may choose.                                            *)
choose_pivot(lo, up) == LET r4 == (up - lo) \div 4 IN (lo + r4)..(lo + 3 * r4 - 1)
Pivots(lo, up) ==
  IF up - lo < RANLIMIT \/ ~call.rnd THEN {(lo + up) \div 2} ELSE choose_pivot(lo, up)

(* A call of auxsort ends; its caller goes on with the rest of its range and, *)
(* after a lopsided partition, takes a new random number, which may be 0.     *)
Return(c) ==
  IF c.stack = <<>> THEN call' = Done("ok")
  ELSE LET f == c.stack[1]
       IN \E rnd \in IF (f.up - f.lo) \div Imbalance > f.n THEN BOOLEAN ELSE {f.rnd} :
            call' = [c EXCEPT !.pc = "ends", !.lo = f.lo, !.up = f.up, !.rnd = rnd, !.stack = Tail(@)]

\* mutant: the right end of the range is not moved when its right part is sorted first.
SplitNotShrinking(p) ==
  LET left == p - call.lo < call.up - p
      rest == IF left THEN [lo |-> p + 1, up |-> call.up, n |-> p - call.lo, rnd |-> call.rnd]
              ELSE [lo |-> call.lo, up |-> call.up, n |-> call.up - p, rnd |-> call.rnd]
  IN call' = [call EXCEPT !.pc = "ends", !.lo = IF left THEN @ ELSE p + 1,
                          !.up = IF left THEN p - 1 ELSE @, !.stack = <<rest>> \o @]

\* mutant: off by one, the left part ends two before the pivot.
SplitSkipping(p) ==
  LET left == p - call.lo < call.up - p
      rest == IF left THEN [lo |-> p + 1, up |-> call.up, n |-> p - call.lo, rnd |-> call.rnd]
              ELSE [lo |-> call.lo, up |-> p - 2, n |-> call.up - p, rnd |-> call.rnd]
  IN call' = [call EXCEPT !.pc = "ends", !.lo = IF left THEN @ ELSE p + 1,
                          !.up = IF left THEN p - 1 ELSE @, !.stack = <<rest>> \o @]

(* The larger part waits while the smaller one is sorted.                    *)
Split(p) ==
  LET left == p - call.lo < call.up - p
      rest == IF left THEN [lo |-> p + 1, up |-> call.up, n |-> p - call.lo, rnd |-> call.rnd]
              ELSE [lo |-> call.lo, up |-> p - 1, n |-> call.up - p, rnd |-> call.rnd]
  IN call' = [call EXCEPT !.pc = "ends", !.lo = IF left THEN @ ELSE p + 1,
                          !.up = IF left THEN p - 1 ELSE @, !.stack = <<rest>> \o @]

SortRange ==  \* the test of the loop of auxsort
  /\ call.op = "sorting" /\ call.pc = "ends" /\ call.lo >= call.up
  /\ Return(call)
  /\ UNCHANGED <<heap, old>>

SortEnds ==
  /\ call.op = "sorting" /\ call.pc = "ends" /\ call.lo < call.up
  /\ \E lt \in sort_comp_idx(call.up, call.lo) :
       IF lt = "panic" THEN Panic /\ UNCHANGED heap
       ELSE /\ Write(IF lt = "yes" THEN Swapped(T, call.lo, call.up) ELSE T)
            /\ IF call.up - call.lo = 1 THEN Return(call)
               ELSE \E p \in Pivots(call.lo, call.up) : call' = [call EXCEPT !.pc = "pivot", !.p = p]
  /\ UNCHANGED old

(* Three elements are in order; the pivot moves next to the last one.         *)
Median(t) ==
  IF call.up - call.lo = 2 THEN Write(t) /\ Return(call)
  ELSE /\ Write(Swapped(t, call.p, call.up - 1))
       /\ call' = [call EXCEPT !.pc = "up", !.i = call.lo + 1, !.j = call.up - 1]

SortPivot ==
  /\ call.op = "sorting" /\ call.pc = "pivot"
  /\ \E lt \in sort_comp_idx(call.p, call.lo) :
       CASE lt = "panic" -> Panic /\ UNCHANGED heap
         [] lt = "yes" -> Median(Swapped(T, call.p, call.lo))
         [] lt = "no" -> call' = [call EXCEPT !.pc = "pivot2"] /\ UNCHANGED heap
  /\ UNCHANGED old

SortPivot2 ==
  /\ call.op = "sorting" /\ call.pc = "pivot2"
  /\ \E lt \in sort_comp_idx(call.up, call.p) :
       IF lt = "panic" THEN Panic /\ UNCHANGED heap
       ELSE Median(IF lt = "yes" THEN Swapped(T, call.p, call.up) ELSE T)
  /\ UNCHANGED old

(* sort_partition: i goes up while t[i] < pivot, j down while pivot < t[j].   *)
PartitionUp ==
  /\ call.op = "sorting" /\ call.pc = "up"
  /\ \E lt \in sort_comp_idx(call.i, call.up - 1) :
       CASE lt = "panic" -> Panic
         [] lt = "yes" -> IF call.i = call.up - 1 THEN Panic ELSE call' = [call EXCEPT !.i = @ + 1]
         [] lt = "no" -> call' = [call EXCEPT !.pc = "down", !.j = @ - 1]
  /\ UNCHANGED <<heap, old>>

\* mutant: the scan down does not stop where the scan up came from.
PartitionDownUnchecked ==
  /\ call.op = "sorting" /\ call.pc = "down"
  /\ \E lt \in sort_comp_idx(call.up - 1, call.j) :
       CASE lt = "panic" -> Panic /\ UNCHANGED heap
         [] lt = "yes" -> IF call.j <= 0 THEN Panic /\ UNCHANGED heap
                          ELSE call' = [call EXCEPT !.j = @ - 1] /\ UNCHANGED heap
         [] lt = "no" -> IF call.j < call.i
                         THEN Write(Swapped(T, call.up - 1, call.i)) /\ Split(call.i)
                         ELSE /\ Write(Swapped(T, call.i, call.j))
                              /\ call' = [call EXCEPT !.pc = "up", !.i = @ + 1]
  /\ UNCHANGED old

PartitionDown ==
  /\ call.op = "sorting" /\ call.pc = "down"
  /\ \E lt \in sort_comp_idx(call.up - 1, call.j) :
       CASE lt = "panic" -> Panic /\ UNCHANGED heap
         [] lt = "yes" -> IF call.j < call.i THEN Panic /\ UNCHANGED heap
                          ELSE call' = [call EXCEPT !.j = @ - 1] /\ UNCHANGED heap
         [] lt = "no" -> IF call.j < call.i
                         THEN Write(Swapped(T, call.up - 1, call.i)) /\ Split(call.i)
                         ELSE /\ Write(Swapped(T, call.i, call.j))
                              /\ call' = [call EXCEPT !.pc = "up", !.i = @ + 1]
  /\ UNCHANGED old

Init == \E c \in Cases : heap = c.heap /\ old = c.heap /\ call = c.script

Call == \E s \in {call} : \/ tab_insert(s) \/ tab_remove(s) \/ tab_move(s)
                          \/ tab_concat(s) \/ tab_unpack(s) \/ tab_sort(s)

Next == \/ Call \/ CopyNext \/ CopyEnd \/ ReadNext \/ ReadEnd
        \/ SortRange \/ SortEnds \/ SortPivot \/ SortPivot2 \/ PartitionUp \/ PartitionDown

(* The library runs to the end of its call, comparison functions return.      *)
Spec == Init /\ [][Next]_vars /\ WF_vars(Next)
-----------------------------------------------------------------------------
Finished(op) == call.op = "done" /\ call.r = "ok" /\ "script" \in DOMAIN call.of /\ call.of.script.op = op
Sorting == call.op = "sorting" \/ (call.op = "done" /\ "stack" \in DOMAIN call.of)
SortCall == IF call.op = "sorting" THEN call ELSE call.of

(* insert, remove and move end with every element where it belongs, as if     *)
(* all of them moved at once: no element is overwritten before it is read,     *)
(* whichever way the ranges overlap, and nothing else changes.                 *)
CopiesAreSimultaneous ==
  LET s == call.of.script
      was == old[s.from]
      is == heap[s.to]
      size == call.of.n + call.of.first
  IN /\ Finished("insert") => is = [i \in Ints |-> CASE i = call.of.first -> s.v
                                                      [] call.of.first < i /\ i <= call.of.result -> was[i - 1]
                                                      [] OTHER -> was[i]]
     /\ Finished("remove") => is = [i \in Ints |-> IF i < call.of.at THEN was[i]
                                                   ELSE IF i < call.of.at + call.of.n THEN was[i + 1]
                                                   ELSE IF i = call.of.at + call.of.n THEN nil ELSE was[i]]
     /\ Finished("move") => is = [i \in Ints |-> IF i - s.t \in 0..(s.e - s.f) THEN was[s.f + i - s.t]
                                                 ELSE old[s.to][i]]

(* concat and unpack end with the elements of their range in order, each read  *)
(* once, also where the range ends at the largest integer.                     *)
ReadsItsRange ==
  call.op = "done" /\ call.r = "ok" /\ "out" \in DOMAIN call.of =>
    LET c == call.of
        i == c.script.i
    IN c.out = [k \in 1..(IF c.last < i THEN 0 ELSE c.last - i + 1) |-> old[c.script.from][i + k - 1]]

(* Whatever the comparison function answers, and also when it raises an error, *)
(* sort leaves a permutation of the elements it was given.                     *)
SortPermutes ==
  Sorting =>
    LET h == SortCall.script.from
        Count(t, v) == Cardinality({i \in 1..SortCall.n : t[i] = v})
    IN \A v \in Values \cup {nil} : Count(heap[h], v) = Count(old[h], v)

(* Whatever the comparison function answers, only elements of the range being  *)
(* sorted are compared and moved, the ranges that wait do not overlap it, and   *)
(* auxsort calls itself for less than half of the elements it was called for,   *)
(* so never deeper than the logarithm of the length.                            *)
SortStaysInRange ==
  call.op = "sorting" =>
    /\ 1 <= call.lo /\ call.up <= call.n
    /\ call.pc \in {"up", "down"} => /\ call.lo < call.i /\ call.i < call.up
                                     /\ call.lo <= call.j /\ call.j < call.up
    /\ \A k \in DOMAIN call.stack :
         /\ 1 <= call.stack[k].lo /\ call.stack[k].up <= call.n
         /\ call.stack[k].up < call.lo \/ call.up < call.stack[k].lo
    /\ \A k \in DOMAIN call.stack :
         2 * call.stack[k].n < IF k = Len(call.stack) THEN call.n ELSE call.stack[k + 1].n

(* A comparison function that is an order is never called invalid, and sort    *)
(* ends with the elements in that order.                                       *)
SortSorts ==
  call.op = "done" /\ "stack" \in DOMAIN call.of =>
    LET c == call.of
        t == heap[c.script.from]
    IN /\ c.script.cmp = "greater" => call.r = "ok"
       /\ c.script.cmp = "default" /\ nil \notin {t[i] : i \in 1..c.n} => call.r = "ok"
       /\ call.r = "ok" => \A i \in 1..(c.n - 1) : CASE c.script.cmp = "default" -> t[i] <= t[i + 1]
                                                     [] c.script.cmp = "greater" -> t[i] >= t[i + 1]
                                                     [] OTHER -> TRUE

(* Every call ends, also a sort whose comparison function contradicts itself.  *)
CallsEnd == <>(call.op = "done")
=============================================================================
