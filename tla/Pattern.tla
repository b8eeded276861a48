------------------------------ MODULE Pattern ------------------------------
(***************************************************************************)
(* The pattern matcher of the string library (lstrlib.cpp).  Texts are      *)
(* sequences of characters; indices into them (si, pi, ep, k) count from 0  *)
(* as in the code.  A MatchState is threaded through the calls, and a call   *)
(* that fails hands its captures back to the caller, so that backtracking   *)
(* goes on with what the code would find in ms.captures.                    *)
(***************************************************************************)
EXTENDS Integers, Sequences

CONSTANT kMaxMatchDepth

ASSUME DepthAssumption == kMaxMatchDepth \in Nat \ {0}

(* The character set of the C library (external): the characters the texts  *)
(* are made of in the order of their codes, and the <ctype.h> predicates.   *)
Charset == <<"NUL", " ", "$", "%", "(", ")", "*", "+", "-", ".", "0", "1", "2", "3", "4", "5", "?", "A", "D",
             "[", "]", "^", "a", "b", "c", "d", "f", "s", "w", "z">>
Chars == {Charset[i] : i \in DOMAIN Charset}
Code == [c \in Chars |-> CHOOSE i \in DOMAIN Charset : Charset[i] = c]
Upper == {"A", "D"}
Lower == {"a", "b", "c", "d", "f", "s", "w", "z"}
Digit == {"0", "1", "2", "3", "4", "5"}
CType == [a |-> Upper \cup Lower, d |-> Digit, l |-> Lower, u |-> Upper, s |-> {" "},
          c |-> {"NUL"}, w |-> Upper \cup Lower \cup Digit, z |-> {"NUL"}]
ToLower(c) == IF c \in Upper THEN [A |-> "a", D |-> "d"][c] ELSE c

kCapUnfinished == -1
kCapPosition == -2

At(t, i) == t[i + 1]
Past(t, i) == i >= Len(t)
Is(t, i, c) == ~Past(t, i) /\ At(t, i) = c

(* A MatchState; r is what the call made with it returned.                  *)
MatchState(s, p) == [s |-> s, p |-> p, caps |-> <<>>, end |-> 0, r |-> "no"]
Yes(ms) == [ms EXCEPT !.r = "yes"]
No(ms) == [ms EXCEPT !.r = "no"]
Panic(ms) == [ms EXCEPT !.r = "panic"]

match_class(ch, clas) ==
  IF ToLower(clas) \in DOMAIN CType
  THEN (ch \in CType[ToLower(clas)]) <=> clas \in Lower
  ELSE ch = clas

(***************************************************************************)
(* match_bracket_class.  The members of the class from index k on: found    *)
(* says whether c is one of them; the first one may be ']'.  A class that    *)
(* is cut short at the start of a member does not set the end, ep = 0.       *)
(***************************************************************************)
RECURSIVE BracketMembers(_, _, _, _)
BracketMembers(p, c, k, found) ==
  IF Past(p, k) THEN [r |-> "cut", found |-> FALSE, ep |-> 0]
  ELSE LET escaped == At(p, k) = "%" /\ ~Past(p, k + 1)
           range == ~escaped /\ Is(p, k + 1, "-") /\ ~Past(p, k + 2) /\ At(p, k + 2) # "]"
           next == k + (IF range THEN 3 ELSE IF escaped THEN 2 ELSE 1)
           hit == IF escaped THEN match_class(c, At(p, k + 1))
                  ELSE /\ Code[At(p, k)] <= Code[c]
                       /\ Code[c] <= Code[At(p, IF range THEN k + 2 ELSE k)]
       IN CASE Past(p, next) -> [r |-> "panic", found |-> FALSE, ep |-> 0]
            [] Is(p, next, "]") -> [r |-> "ok", found |-> found \/ hit, ep |-> next + 1]
            [] OTHER -> BracketMembers(p, c, next, found \/ hit)

match_bracket_class(p, c, pi) ==
  LET negate == Is(p, pi + 1, "^")
      m == BracketMembers(p, c, IF negate THEN pi + 2 ELSE pi + 1, FALSE)
  IN [m EXCEPT !.found = m.r = "ok" /\ (m.found # negate)]

(* single_match: "yes", "no" or "panic" (a malformed class).                *)
single_match(ms, si, pi) ==
  LET p0 == At(ms.p, pi)
      b == match_bracket_class(ms.p, IF Past(ms.s, si) THEN "NUL" ELSE At(ms.s, si), pi)
      hit == /\ ~Past(ms.s, si)
             /\ CASE p0 = "." -> TRUE
                  [] p0 = "%" -> ~Past(ms.p, pi + 1) /\ match_class(At(ms.s, si), At(ms.p, pi + 1))
                  [] p0 = "[" -> b.found
                  [] OTHER -> At(ms.s, si) = p0
  IN IF Past(ms.p, pi) THEN "no"
     ELSE IF p0 = "[" /\ b.r = "panic" THEN "panic"
     ELSE IF hit THEN "yes" ELSE "no"

(* class_end: the index after the item at pi, or -1 for a malformed one.     *)
RECURSIVE ClassMembersEnd(_, _)
ClassMembersEnd(p, k) ==
  IF Past(p, k) THEN -1
  ELSE LET next == IF At(p, k) = "%" /\ ~Past(p, k + 1) THEN k + 2 ELSE k + 1
       IN CASE Past(p, next) -> -1
            [] Is(p, next, "]") -> next + 1
            [] OTHER -> ClassMembersEnd(p, next)

class_end(p, pi) ==
  CASE At(p, pi) = "%" -> IF Past(p, pi + 1) THEN -1 ELSE pi + 2
    [] At(p, pi) = "[" -> ClassMembersEnd(p, IF Is(p, pi + 1, "^") THEN pi + 2 ELSE pi + 1)
    [] OTHER -> pi + 1

(* The text a capture stands for equals the text at si (match_capture).      *)
match_capture(ms, si, cap) ==
  LET a == ms.caps[cap].a
      len == ms.caps[cap].b - a
  IN /\ si + len <= Len(ms.s)
     /\ SubSeq(ms.s, si + 1, si + len) = SubSeq(ms.s, a + 1, a + len)

(* match_balance's scan: the index after the closing character, or -1.       *)
RECURSIVE BalanceEnd(_, _, _, _, _)
BalanceEnd(s, open, close, j, depth) ==
  CASE Past(s, j) -> -1
    [] Is(s, j, close) -> IF depth = 1 THEN j + 1 ELSE BalanceEnd(s, open, close, j + 1, depth - 1)
    [] Is(s, j, open) /\ open # close -> BalanceEnd(s, open, close, j + 1, depth + 1)
    [] OTHER -> BalanceEnd(s, open, close, j + 1, depth)

RECURSIVE Match(_, _, _, _)
RECURSIVE DoMatch(_, _, _, _)
RECURSIVE max_expand(_, _, _, _, _, _)
RECURSIVE min_expand(_, _, _, _, _)

(* How often the item at pi matches from si on, at most.                     *)
RECURSIVE Run(_, _, _)
Run(ms, si, pi) == IF single_match(ms, si, pi) = "yes" THEN 1 + Run(ms, si + 1, pi) ELSE 0

(* max_expand from its second loop on: i repetitions, then fewer.            *)
max_expand(ms, si, pi, ep, i, d) ==
  LET m == Match(ms, si + i, ep + 1, d)
  IN IF m.r # "no" \/ i = 0 THEN m ELSE max_expand(m, si, pi, ep, i - 1, d)

min_expand(ms, si, pi, ep, d) ==
  LET m == Match(ms, si, ep + 1, d)
      one == single_match(m, si, pi)
  IN CASE m.r # "no" -> m
       [] m.r = "no" /\ one = "yes" -> min_expand(m, si + 1, pi, ep, d)
       [] m.r = "no" /\ one = "no" -> m
       [] OTHER -> Panic(m)

\* mutant: a failed match leaves the capture it has opened.
StartCaptureLeaving(ms, si, pi, position, d) ==
  Match([ms EXCEPT !.caps = Append(@, [a |-> si, b |-> IF position THEN kCapPosition
                                                       ELSE kCapUnfinished])], si, pi, d)

start_capture(ms, si, pi, position, d) ==
  LET m == Match([ms EXCEPT !.caps = Append(@, [a |-> si, b |-> IF position THEN kCapPosition
                                                               ELSE kCapUnfinished])], si, pi, d)
  IN IF m.r = "no" THEN [m EXCEPT !.caps = SubSeq(@, 1, Len(@) - 1)] ELSE m

end_capture(ms, si, pi, d) ==
  LET open == {i \in DOMAIN ms.caps : ms.caps[i].b = kCapUnfinished}
      last == CHOOSE i \in open : \A j \in open : j <= i
      m == Match([ms EXCEPT !.caps[last].b = si], si, pi, d)
  IN IF open = {} THEN Panic(ms)
     ELSE IF m.r = "no" THEN [m EXCEPT !.caps[last].b = kCapUnfinished] ELSE m

match_balance(ms, si, pi, d) ==
  LET e == BalanceEnd(ms.s, At(ms.p, pi), At(ms.p, pi + 1), si + 1, 1)
  IN CASE Past(ms.p, pi + 1) -> Panic(ms)
       [] ~Past(ms.p, pi + 1) /\ ~Is(ms.s, si, At(ms.p, pi)) -> No(ms)
       [] OTHER -> IF e = -1 THEN No(ms) ELSE Match(ms, e, pi + 2, d)

(* The frontier %f[...]: between a character outside the class and one in it. *)
Frontier(ms, si, pi, d) ==
  LET prev == match_bracket_class(ms.p, IF si = 0 THEN "NUL" ELSE At(ms.s, si - 1), pi)
      cur == match_bracket_class(ms.p, IF Past(ms.s, si) THEN "NUL" ELSE At(ms.s, si), pi)
  IN CASE ~Is(ms.p, pi, "[") \/ prev.r = "panic" -> Panic(ms)
       [] OTHER -> IF prev.found \/ ~cur.found THEN No(ms) ELSE DoMatch(ms, si, cur.ep, d)

(* %1 to %9: the text of an earlier capture again.                           *)
BackReference(ms, si, pi, cap, d) ==
  CASE cap > Len(ms.caps) -> Panic(ms)
    [] cap <= Len(ms.caps) /\ ms.caps[cap].b < 0 -> Panic(ms)
    [] OTHER -> IF match_capture(ms, si, cap)
                THEN DoMatch(ms, si + ms.caps[cap].b - ms.caps[cap].a, pi + 2, d)
                ELSE No(ms)

(* The part of match for a single-character item and its suffix.             *)
Item(ms, si, pi, d) ==
  LET ep == class_end(ms.p, pi)
      suffix == IF Past(ms.p, ep) THEN "" ELSE At(ms.p, ep)
      one == single_match(ms, si, pi)
      take == Match(ms, si + 1, ep + 1, d)
  IN CASE ep = -1 -> Panic(ms)
       [] ep # -1 /\ suffix = "-" -> min_expand(ms, si, pi, ep, d)
       [] OTHER ->
            IF one = "panic" THEN Panic(ms)
            ELSE CASE suffix = "*" -> max_expand(ms, si, pi, ep, Run(ms, si, pi), d)
                   [] suffix = "+" -> IF one = "no" THEN No(ms)
                                      ELSE max_expand(ms, si + 1, pi, ep, Run(ms, si + 1, pi), d)
                   [] suffix = "?" -> IF one = "yes" /\ take.r # "no" THEN take
                                      ELSE Match(IF one = "yes" THEN take ELSE ms, si, ep + 1, d)
                   [] OTHER -> IF one = "no" THEN No(ms) ELSE DoMatch(ms, si + 1, ep, d)

(* The body of match after its depth guard (the code loops to init:).        *)
DoMatch(ms, si, pi, d) ==
  IF Past(ms.p, pi) THEN [Yes(ms) EXCEPT !.end = si]
  ELSE LET c == At(ms.p, pi)
           spec == IF Past(ms.p, pi + 1) THEN "" ELSE At(ms.p, pi + 1)
       IN CASE c = "(" -> start_capture(ms, si, IF spec = ")" THEN pi + 2 ELSE pi + 1, spec = ")", d)
            [] c = ")" -> end_capture(ms, si, pi + 1, d)
            [] c = "$" /\ spec = "" -> IF Past(ms.s, si) THEN [Yes(ms) EXCEPT !.end = si] ELSE No(ms)
            [] c = "%" /\ spec = "b" -> match_balance(ms, si, pi + 2, d)
            [] c = "%" /\ spec = "f" -> Frontier(ms, si, pi + 2, d)
            [] c = "%" /\ spec = "0" -> Panic(ms)
            [] c = "%" /\ spec \in Digit \ {"0"} -> BackReference(ms, si, pi, Code[spec] - Code["1"] + 1, d)
            [] OTHER -> Item(ms, si, pi, d)

(* match: d is what is left of the recursion budget (MatchDepthGuard).       *)
Match(ms, si, pi, d) == IF d = 0 THEN Panic(ms) ELSE DoMatch(ms, si, pi, d - 1)

(* match from the start of a pattern, the way the library calls it.          *)
match(s, p, si) == LET m == Match(MatchState(s, p), si, 0, kMaxMatchDepth)
                   IN [r |-> m.r, start |-> si, end |-> m.end, caps |-> m.caps]
=============================================================================
