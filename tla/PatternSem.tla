---------------------------- MODULE PatternSem ----------------------------
(***************************************************************************)
(* What a pattern means, stated without backtracking.  A pattern is a       *)
(* sequence of items; Text writes it the way a program does.  An item takes *)
(* an outcome (how far the subject is matched, the captures so far) to the  *)
(* sequence of outcomes it allows, the preferred one first; a pattern's      *)
(* result is the first outcome of all its items.                            *)
(*                                                                         *)
(*   single   <<"char", c>>  <<"any">>  <<"class", c>>                      *)
(*            <<"set", negated, members>>, a member also <<"range", lo, hi>> *)
(*   item     <<"one"|"star"|"plus"|"lazy"|"opt", single>>  <<"open">>       *)
(*            <<"close">>  <<"pos">>  <<"bal", c, c>>  <<"front", set>>      *)
(*            <<"back", n>>  <<"end">>                                       *)
(***************************************************************************)
EXTENDS Pattern, SequencesExt, FiniteSetsExt

Escaped == {"%", "(", ")", "[", "]", "."}

SingleText(x) ==
  LET Member(m) == CASE m[1] = "char" -> IF m[2] = "]" THEN <<"%", "]">> ELSE <<m[2]>>
                     [] m[1] = "class" -> <<"%", m[2]>>
                     [] m[1] = "range" -> <<m[2], "-", m[3]>>
  IN CASE x[1] = "char" -> IF x[2] \in Escaped THEN <<"%", x[2]>> ELSE <<x[2]>>
       [] x[1] = "any" -> <<".">>
       [] x[1] = "class" -> <<"%", x[2]>>
       [] x[1] = "set" -> <<"[">> \o (IF x[2] THEN <<"^">> ELSE <<>>)
                          \o FlattenSeq([i \in DOMAIN x[3] |-> Member(x[3][i])]) \o <<"]">>

ItemText(it) ==
  CASE it[1] = "one" -> SingleText(it[2])
    [] it[1] = "star" -> SingleText(it[2]) \o <<"*">>
    [] it[1] = "plus" -> SingleText(it[2]) \o <<"+">>
    [] it[1] = "lazy" -> SingleText(it[2]) \o <<"-">>
    [] it[1] = "opt" -> SingleText(it[2]) \o <<"?">>
    [] it[1] = "open" -> <<"(">>
    [] it[1] = "close" -> <<")">>
    [] it[1] = "pos" -> <<"(", ")">>
    [] it[1] = "bal" -> <<"%", "b", it[2], it[3]>>
    [] it[1] = "front" -> <<"%", "f">> \o SingleText(it[2])
    [] it[1] = "back" -> <<"%", Charset[Code["0"] + it[2]]>>
    [] it[1] = "end" -> <<"$">>

Text(items) == FlattenSeq([i \in DOMAIN items |-> ItemText(items[i])])

(* The characters a single stands for.                                      *)
Class(c) == IF c \in DOMAIN CType THEN CType[c] ELSE Chars \ CType[ToLower(c)]
Range2(lo, hi) == {c \in Chars : Code[lo] <= Code[c] /\ Code[c] <= Code[hi]}
Denotes(x) ==
  LET Member(m) == CASE m[1] = "char" -> {m[2]}
                     [] m[1] = "class" -> Class(m[2])
                     [] m[1] = "range" -> Range2(m[2], m[3])
      all == UNION {Member(x[3][i]) : i \in DOMAIN x[3]}
  IN CASE x[1] = "char" -> {x[2]}
       [] x[1] = "any" -> Chars
       [] x[1] = "class" -> Class(x[2])
       [] x[1] = "set" -> IF x[2] THEN Chars \ all ELSE all

(* The first n characters after si are all in X; the most there are.         *)
MostOf(X, s, si) == Max({n \in 0..(Len(s) - si) : \A m \in 1..n : s[si + m] \in X})

(* Where the balanced text that starts at si ends.                           *)
Balanced(s, si, o, c) ==
  LET Count(x, e) == Cardinality({i \in (si + 1)..e : s[i] = x})
  IN {e \in (si + 2)..Len(s) : s[si + 1] = o /\ s[e] = c /\ (o = c \/ Count(o, e) = Count(c, e))}

(* The outcomes of one item, in order of preference.  "panic" is an error    *)
(* the program gets when the matcher comes that far.  n counts the nested    *)
(* calls of match a text needs, at most kMaxMatchDepth.                      *)
After(it, s, o) ==
  LET X == IF it[1] \in {"one", "star", "plus", "lazy", "opt", "front"} THEN Denotes(it[2]) ELSE {}
      most == MostOf(X, s, o.end)
      Deeper(q) == IF o.n + 1 < kMaxMatchDepth THEN [q EXCEPT !.n = o.n + 1]
                   ELSE [q EXCEPT !.r = "panic"]
      To(e) == [o EXCEPT !.end = e]
      Down(lo) == [i \in 1..(most - lo + 1) |-> Deeper(To(o.end + most - i + 1))]
      open == {i \in DOMAIN o.caps : o.caps[i].b = kCapUnfinished}
      err == <<[o EXCEPT !.r = "panic"]>>
      char(i) == IF i \in DOMAIN s THEN s[i] ELSE "NUL"
  IN CASE it[1] = "one" -> IF most > 0 THEN <<To(o.end + 1)>> ELSE <<>>
       [] it[1] = "star" -> Down(0)
       [] it[1] = "plus" -> Down(1)
       [] it[1] = "lazy" -> Reverse(Down(0))
       [] it[1] = "opt" -> IF most > 0 THEN <<Deeper(To(o.end + 1)), Deeper(o)>> ELSE <<Deeper(o)>>
       [] it[1] = "open" -> <<Deeper([o EXCEPT !.caps = Append(@, [a |-> o.end, b |-> kCapUnfinished])])>>
       [] it[1] = "pos" -> <<Deeper([o EXCEPT !.caps = Append(@, [a |-> o.end, b |-> kCapPosition])])>>
       [] it[1] = "close" -> IF open = {} THEN err
                             ELSE <<Deeper([o EXCEPT !.caps[Max(open)].b = o.end])>>
       [] it[1] = "bal" -> LET e == Balanced(s, o.end, it[2], it[3])
                           IN IF e = {} THEN <<>> ELSE <<Deeper(To(Min(e)))>>
       [] it[1] = "front" -> IF char(o.end) \notin X /\ char(o.end + 1) \in X THEN <<o>> ELSE <<>>
       [] it[1] = "back" ->
            IF it[2] \notin DOMAIN o.caps \/ o.caps[it[2]].b < 0 THEN err
            ELSE LET t == SubSeq(s, o.caps[it[2]].a + 1, o.caps[it[2]].b)
                 IN IF IsPrefix(t, SubSeq(s, o.end + 1, Len(s))) THEN <<To(o.end + Len(t))>> ELSE <<>>
       [] it[1] = "end" -> IF o.end = Len(s) THEN <<o>> ELSE <<>>

Outcomes(items, s, si) ==
  FoldLeft(LAMBDA os, it :
             FlattenSeq([i \in DOMAIN os |-> IF os[i].r = "panic" THEN <<os[i]>> ELSE After(it, s, os[i])]),
           <<[r |-> "yes", start |-> si, end |-> si, caps |-> <<>>, n |-> 0]>>, items)

(* The match of items at si.                                                 *)
MatchOf(items, s, si) ==
  LET os == Outcomes(items, s, si)
  IN IF os = <<>> THEN [r |-> "no", start |-> si, end |-> si, caps |-> <<>>]
     ELSE [r |-> os[1].r, start |-> si, end |-> os[1].end, caps |-> os[1].caps]
=============================================================================
