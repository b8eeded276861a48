----------------------------- MODULE MCTableLib -----------------------------
EXTENDS TableLib

Table(f) == [i \in Ints |-> IF i \in DOMAIN f THEN f[i] ELSE nil]
Heap(f) == [h \in Tables |-> IF h = "a" THEN Table(f) ELSE Table(<<7>>)]
Full == [h \in Tables |-> IF h = "a" THEN [i \in Ints |-> IF i = 4 THEN nil ELSE i + 10] ELSE Table(<<7>>)]

(* Sorted with an order: every array of up to five small numbers; with any    *)
(* function: one array of each length, as its answers do not depend on it.    *)
(* One of them is too big.                                                   *)
Arrays == UNION {[1..n -> 1..3] : n \in 0..5} \cup {<<2, 6, 4, 1, 5, 3>>, <<1, 0, 2>>}
          \cup {[i \in 1..7 |-> (i * k) % 8] : k \in {1, 3, 5, 7}} \cup {[i \in 1..8 |-> 9 - i]}
Sort(cmp) == [op |-> "sort", from |-> "a", cmp |-> cmp]
SortCases == [heap : {Heap(f) : f \in Arrays}, script : {Sort("default"), Sort("greater")}]
             \cup [heap : {Heap([i \in 1..n |-> i]) : n \in 2..7}, script : {Sort("any")}]

Edges == {MinInt, -1, 0, 1, 2, 3, MaxInt - 1, MaxInt}
Moves == [op : {"move"}, from : {"a"}, to : {"a", "b"}, f : Edges, e : Edges, t : Edges]
Reads == [op : {"concat"}, from : {"a"}, args : {3, 4}, i : Edges, j : Edges \cup {4}]
               \cup [op : {"unpack"}, from : {"a"}, args : {2, 3}, i : Edges, j : Edges]
Shifts == [op : {"insert"}, from : {"a"}, to : {"a"}, args : {2, 3}, pos : -1..5, v : {9}]
                \cup [op : {"remove"}, from : {"a"}, to : {"a"}, args : {1, 2}, pos : -1..5]

MCCases == SortCases \cup [heap : {Full}, script : Moves \cup Reads]
           \cup [heap : {Heap(f) : f \in {<<>>, <<1>>, <<1, 2, 3>>, <<1, 2, 0, 4>>}}, script : Shifts]
=============================================================================
