----------------------------- MODULE StringLib -----------------------------
(***************************************************************************)
(* string.find, match, gsub and gmatch (lstrlib.cpp) over any matcher.      *)
(* Matcher(s, p, si) is the code's match() started on a fresh MatchState;     *)
(* Intended is what a pattern is meant to match.  A library call that calls   *)
(* back into Lua (gsub with a function or a table) is one step per iteration *)
(* of its loop and one for the value it gets back; while Lua runs, it may    *)
(* go on with an iterator made by gmatch.                                    *)
(***************************************************************************)
EXTENDS Integers, Sequences, SequencesExt, FiniteSetsExt

CONSTANTS Cases,              \* [s: subject, p: pattern text, items: the pattern,
                              \*  anchor: it starts with ^, repls: the replacements gsub is called with]
          Matcher(_, _, _),   \* the matcher: [r, start, end, caps]
          Intended(_, _, _),  \* the matches meant: (items, s, si)
          Starts, Limits, Values,  \* arguments and callback results
          Caret               \* the character ^

VARIABLES case, gsub, iter, result
vars == <<case, gsub, iter, result>>

s == case.s
p == case.p

(* A matcher matches forward from where it is asked and inside the subject;  *)
(* a callback returns nil, false, a string, another value, or raises.        *)
ASSUME MatchAssumption ==
  /\ \A c \in Cases :
       /\ c.s \in Seq(STRING) /\ c.p \in Seq(STRING) /\ (c.anchor => c.p # <<>>)
       /\ \A q \in {c.p} \cup (IF c.anchor THEN {Tail(c.p)} ELSE {}), si \in 0..Len(c.s) :
            Matcher(c.s, q, si).r = "yes" => Matcher(c.s, q, si).end \in si..Len(c.s)
  /\ Starts \subseteq Int /\ \A l \in Limits : l \in Seq(Int)
  /\ \A v \in Values : v \in {<<"nil">>, <<"false">>, <<"error">>} \/ v \in {"str", "other"} \X Seq(STRING)

npos == -1
Idle == [phase |-> "idle"]
NoResult == [op |-> "none"]
nil == <<"nil">>
error == <<"error">>
out_of_range == <<"out_of_range">> \* the C++ exception, which no pcall catches
Slice(a, b) == SubSeq(s, a + 1, b)
NumberText(n) == <<<<"0", "1", "2", "3", "4", "5", "6", "7", "8", "9">>[n + 1]>>

(* A capture as a Lua value: a position is an integer, the rest is text;     *)
(* capture_string is the same as text.  b = -1 is a capture never closed.    *)
Unfinished(c) == c.b = -1
CaptureValue(c) == IF c.b = -2 THEN <<"int", c.a + 1>> ELSE <<"str", Slice(c.a, c.b)>>
capture_string(c) == IF c.b = -2 THEN NumberText(c.a + 1) ELSE Slice(c.a, c.b)

(* The captures of a match as values, the whole match when it has none.      *)
PushCaptures(m) ==
  IF \E i \in DOMAIN m.caps : Unfinished(m.caps[i]) THEN <<error>>
  ELSE IF m.caps = <<>> THEN <<<<"str", Slice(m.start, m.end)>>>>
  ELSE [i \in DOMAIN m.caps |-> CaptureValue(m.caps[i])]

(* match_search: the first index from start on that matches or panics.       *)
NoMatch == [r |-> "no", start |-> 0, end |-> 0, caps |-> <<>>]
match_search(start) ==
  LET q == IF case.anchor THEN Tail(p) ELSE p
      hits == {i \in start..(IF case.anchor THEN start ELSE Len(s)) : Matcher(s, q, i).r # "no"}
  IN IF hits = {} THEN NoMatch ELSE Matcher(s, q, Min(hits))

(* Captures are pushed in order, and the first one read as text decides: past *)
(* the end of the subject, where only a pattern with ^ is tried, substr throws. *)
Throws(m) == LET read == SelectSeq(m.caps, LAMBDA c : c.b # -2)
             IN m.start > Len(s) /\ read # <<>> /\ ~Unfinished(read[1])

(* The optional start argument: negative counts from the end.                *)
Start(init) == Max({1, IF init < 0 THEN Len(s) + init + 1 ELSE init}) - 1

str_find(init, plain) ==
  /\ gsub.phase = "idle" /\ result = NoResult /\ iter.phase = "idle"
  /\ LET m == match_search(Start(init))
         at == {i \in Start(init)..(Len(s) - Len(p)) : Slice(i, i + Len(p)) = p}
         whole == <<<<"int", m.start + 1>>, <<"int", m.end>>>>
         rest == IF m.caps = <<>> THEN <<>> ELSE PushCaptures(m)
         found == CASE plain -> IF at = {} THEN <<nil>>
                                ELSE <<<<"int", Min(at) + 1>>, <<"int", Min(at) + Len(p)>>>>
                    [] ~plain /\ m.r = "no" -> <<nil>>
                    [] ~plain /\ m.r = "panic" -> <<error>>
                    [] ~plain /\ m.r = "yes" /\ Throws(m) -> <<out_of_range>>
                    [] OTHER -> IF error \in ToSet(rest) THEN <<error>> ELSE whole \o rest
     IN result' = [op |-> IF plain THEN "plain" ELSE "find", init |-> init, values |-> found]
  /\ UNCHANGED <<case, gsub, iter>>

str_match(init) ==
  /\ gsub.phase = "idle" /\ result = NoResult /\ iter.phase = "idle"
  /\ LET m == match_search(Start(init))
     IN result' = [op |-> "match", init |-> init,
                   values |-> CASE m.r = "no" -> <<nil>>
                                [] m.r = "panic" -> <<error>>
                                [] m.r = "yes" /\ (Throws(m) \/ (m.start > Len(s) /\ m.caps = <<>>)) ->
                                     <<out_of_range>>
                                [] OTHER -> PushCaptures(m)]
  /\ UNCHANGED <<case, gsub, iter>>

(***************************************************************************)
(* gsub_expand_repl.  What %0, %1 .. stand for; npos for an invalid one.     *)
(***************************************************************************)
Digits == [c \in {"0", "1", "2", "3", "4", "5", "6", "7", "8", "9"} |-> CHOOSE n \in 0..9 : NumberText(n) = <<c>>]
Expansion(m, c) ==
  CASE c = "%" -> <<"%">>
    [] c \in DOMAIN Digits ->
         LET n == Digits[c]
         IN CASE n = 0 \/ (n = 1 /\ m.caps = <<>>) -> Slice(m.start, m.end)
              [] n \in DOMAIN m.caps -> IF Unfinished(m.caps[n]) THEN error ELSE capture_string(m.caps[n])
              [] OTHER -> error
    [] OTHER -> error
gsub_expand_repl(repl, m) ==
  LET escape == [i \in DOMAIN repl |-> \* repl[i] is the % of an escape: an odd one of its run
                   repl[i] = "%" /\ \E k \in 0..i : /\ (i - k) % 2 = 1
                                                    /\ \A j \in (k + 1)..i : repl[j] = "%"
                                                    /\ (k = 0 \/ repl[k] # "%")]
      piece == [i \in DOMAIN repl |->
                  CASE escape[i] -> IF i = Len(repl) THEN error ELSE Expansion(m, repl[i + 1])
                    [] ~escape[i] /\ i > 1 /\ escape[i - 1] -> <<>>
                    [] OTHER -> <<repl[i]>>]
  IN IF error \in {piece[i] : i \in DOMAIN repl} THEN error ELSE FlattenSeq(piece)

(* str_gsub up to its loop.                                                  *)
str_gsub(repl, max_s) ==
  /\ gsub.phase = "idle" /\ result = NoResult /\ iter.phase = "idle"
  /\ gsub' = [phase |-> "loop", repl |-> repl, max |-> IF max_s = <<>> THEN Len(s) + 1 ELSE max_s[1],
              out |-> <<>>, src |-> 0, last |-> npos, count |-> 0, pieces |-> <<>>, m |-> NoMatch]
  /\ UNCHANGED <<case, iter, result>>

Finish(values) == /\ gsub' = Idle
                  /\ result' = [op |-> "gsub", repl |-> gsub.repl, max |-> gsub.max,
                                pieces |-> gsub.pieces, values |-> values]
Raise == Finish(<<error>>)

\* mutant: the end of a match is not remembered.
ReplacedForgetting(m, text) ==
  [gsub EXCEPT !.phase = IF case.anchor THEN "end" ELSE "loop", !.count = @ + 1,
               !.out = @ \o text, !.src = m.end, !.m = NoMatch,
               !.pieces = Append(@, [start |-> m.start, end |-> m.end, caps |-> m.caps, text |-> text])]

(* What is left of an iteration once the replacement is in out.              *)
Replaced(m, text) ==
  [gsub EXCEPT !.phase = IF case.anchor THEN "end" ELSE "loop", !.count = @ + 1,
               !.out = @ \o text, !.src = m.end, !.last = m.end, !.m = NoMatch,
               !.pieces = Append(@, [start |-> m.start, end |-> m.end, caps |-> m.caps, text |-> text])]

GsubIteration ==
  /\ gsub.phase = "loop" /\ gsub.count < gsub.max
  /\ LET m == Matcher(s, IF case.anchor THEN Tail(p) ELSE p, gsub.src)
         counts == m.r = "yes" /\ m.end # gsub.last
     IN \/ /\ m.r = "panic"
           /\ Raise
        \/ /\ counts /\ gsub.repl.kind = "string"
           /\ LET text == gsub_expand_repl(gsub.repl.text, m)
              IN IF text = error THEN Raise
                 ELSE gsub' = Replaced(m, text) /\ UNCHANGED result
        \/ /\ counts /\ gsub.repl.kind # "string" \* calls the function, or __index of the table
           /\ IF error \in ToSet(PushCaptures(m)) /\ (gsub.repl.kind = "function" \/ Unfinished(m.caps[1]))
              THEN Raise
              ELSE gsub' = [gsub EXCEPT !.phase = "callback", !.m = m] /\ UNCHANGED result
        \/ /\ ~counts /\ m.r # "panic" /\ gsub.src < Len(s)
           /\ gsub' = [gsub EXCEPT !.out = Append(@, s[gsub.src + 1]), !.src = @ + 1,
                                   !.phase = IF case.anchor THEN "end" ELSE "loop"]
           /\ UNCHANGED result
        \/ /\ ~counts /\ m.r # "panic" /\ gsub.src >= Len(s)
           /\ gsub' = [gsub EXCEPT !.phase = "end"] /\ UNCHANGED result
  /\ UNCHANGED <<case, iter>>

(* The callback returns v, or raises; nil and false keep the matched text, a *)
(* table must hold a string or a number, a function may return anything.     *)
GsubReturn(v) ==
  /\ gsub.phase = "callback"
  /\ CASE v \in {nil, <<"false">>} ->
            gsub' = Replaced(gsub.m, Slice(gsub.m.start, gsub.m.end)) /\ UNCHANGED result
       [] v[1] = "str" -> gsub' = Replaced(gsub.m, v[2]) /\ UNCHANGED result
       [] v[1] = "other" -> IF gsub.repl.kind = "table" THEN Raise
                            ELSE gsub' = Replaced(gsub.m, v[2]) /\ UNCHANGED result
       [] v = error -> Raise
  /\ UNCHANGED <<case, iter>>

\* mutant: what follows the last match is lost when the limit stops the loop.
GsubEndDroppingTail ==
  /\ \/ gsub.phase = "end"
     \/ gsub.phase = "loop" /\ gsub.count >= gsub.max
  /\ Finish(<<<<"str", gsub.out>>, <<"int", gsub.count>>>>)
  /\ UNCHANGED <<case, iter>>

GsubEnd ==
  /\ \/ gsub.phase = "end"
     \/ gsub.phase = "loop" /\ gsub.count >= gsub.max
  /\ Finish(<<<<"str", gsub.out \o Slice(gsub.src, Len(s))>>, <<"int", gsub.count>>>>)
  /\ UNCHANGED <<case, iter>>

(***************************************************************************)
(* gmatch.  The iterator keeps src and lastmatch in its upvalues; seen is    *)
(* the matches it has come to.  It may be called again after its nil, and     *)
(* after an error: one of a capture is raised when the upvalues are already   *)
(* set.  A ^ is no anchor here.                                              *)
(***************************************************************************)
LuaRuns == gsub.phase \in {"idle", "callback"}

str_gmatch ==
  /\ LuaRuns /\ iter.phase = "idle" /\ result = NoResult
  /\ iter' = [phase |-> "on", src |-> 0, last |-> npos, seen |-> <<>>]
  /\ UNCHANGED <<case, gsub, result>>

\* mutant: the end of the match before is not remembered.
GmatchIterForgetting ==
  /\ LuaRuns /\ iter.phase # "idle"
  /\ LET hits == {i \in iter.src..Len(s) : Matcher(s, p, i).r = "yes"}
         m == Matcher(s, p, Min(hits))
     IN iter' = IF hits = {} THEN [iter EXCEPT !.phase = "end"]
                ELSE [iter EXCEPT !.src = m.end, !.seen = Append(@, m), !.phase = "on"]
  /\ UNCHANGED <<case, gsub, result>>

gmatch_iter ==
  /\ LuaRuns /\ iter.phase # "idle"
  /\ LET hits == {i \in iter.src..Len(s) :
                    \/ Matcher(s, p, i).r = "panic"
                    \/ Matcher(s, p, i).r = "yes" /\ Matcher(s, p, i).end # iter.last}
         m == Matcher(s, p, Min(hits))
     IN iter' = CASE hits = {} -> [iter EXCEPT !.phase = "end"]
                  [] hits # {} /\ m.r = "panic" -> [iter EXCEPT !.phase = "error"]
                  [] OTHER -> [iter EXCEPT !.src = m.end, !.last = m.end, !.seen = Append(@, m),
                                           !.phase = IF error \in ToSet(PushCaptures(m)) THEN "error" ELSE "on"]
  /\ UNCHANGED <<case, gsub, result>>

(* The arguments have been checked; a program makes one call, or an iterator, *)
(* or an iterator from a callback of its call.                                *)
Init == /\ case \in Cases
        /\ gsub = Idle
        /\ iter = Idle
        /\ result = NoResult

Find == \E init \in Starts, plain \in BOOLEAN : str_find(init, plain)
MatchCall == \E init \in Starts : str_match(init)
GsubCall == \E repl \in case.repls, max_s \in Limits : str_gsub(repl, max_s)
GsubResume == \E v \in Values : GsubReturn(v)

Next == Find \/ MatchCall \/ GsubCall \/ GsubIteration \/ GsubResume \/ GsubEnd \/ str_gmatch \/ gmatch_iter

Spec == Init /\ [][Next]_vars
-----------------------------------------------------------------------------
(* What a call is meant to return.                                           *)
Bad(m) == m.r = "panic" \/ \E i \in DOMAIN m.caps : Unfinished(m.caps[i])
Meant(i) == Intended(case.items, s, i)

(* find and match report the leftmost match at or after their start, with    *)
(* the end and the captures that the preferences of its items give, and an    *)
(* error only for a pattern that has one: backtracking undoes every capture   *)
(* it leaves, and a pattern with ^ is tried once (match_search).  It is tried   *)
(* also when the start lies past the end of the subject, which is left aside.  *)
FindsLeftmost ==
  result # NoResult /\ result.op \in {"find", "match"}
    /\ (case.anchor => Start(result.init) <= Len(s)) =>
    LET from == Start(result.init)
        where == {i \in from..Len(s) : (case.anchor => i = from) /\ Meant(i).r # "no"}
        m == Meant(Min(where))
        at == IF result.op = "find" THEN <<<<"int", m.start + 1>>, <<"int", m.end>>>> ELSE <<>>
        text == IF result.op = "match" /\ m.caps = <<>> THEN <<<<"str", Slice(m.start, m.end)>>>>
                ELSE [i \in DOMAIN m.caps |-> CaptureValue(m.caps[i])]
    IN result.values = IF where = {} THEN <<nil>> ELSE IF Bad(m) THEN <<error>> ELSE at \o text

(* ms is the matches a scan of the subject from the left makes: each one is   *)
(* what items match there, starts where the one before ended or later, and    *)
(* is not an empty one right after it; no place that would do is passed over  *)
(* before upto.                                                              *)
Scan(items, ms, upto) ==
  LET from(k) == IF k = 1 THEN 0 ELSE ms[k - 1].end
      Fits(i, k) == LET m == Intended(items, s, i) IN m.r = "yes" /\ (k = 1 \/ m.end # from(k))
  IN /\ \A k \in DOMAIN ms :
          LET m == Intended(items, s, ms[k].start)
          IN /\ ms[k].start >= from(k) /\ Fits(ms[k].start, k)
             /\ ms[k].end = m.end /\ ms[k].caps = m.caps
             /\ \A i \in from(k)..(ms[k].start - 1) : ~Fits(i, k)
     /\ \A i \in from(Len(ms) + 1)..(upto - 1) : ~Fits(i, Len(ms) + 1)

(* The subject up to upto with its matches replaced.                         *)
Woven(ms, upto) ==
  LET from(k) == IF k = 1 THEN 0 ELSE ms[k - 1].end
  IN FlattenSeq([k \in DOMAIN ms |-> Slice(from(k), ms[k].start) \o ms[k].text])
     \o Slice(from(Len(ms) + 1), upto)

(* What the items of a replacement string stand for.                         *)
ReplacementText(m) ==
  LET Piece(it) == CASE it[1] = "lit" -> <<it[2]>>
                     [] it[1] = "cap" /\ it[2] \in DOMAIN m.caps -> capture_string(m.caps[it[2]])
                     [] OTHER -> Slice(m.start, m.end)
  IN FlattenSeq([i \in DOMAIN gsub.repl.items |-> Piece(gsub.repl.items[i])])

(* gsub replaces, at every moment of its loop and whatever its callbacks do,  *)
(* the matches of a scan from the left and nothing else, each by what its      *)
(* replacement string stands for, and copies the rest of the subject once; an   *)
(* error is one of the pattern or of a capture it does not have.               *)
GsubReplacesScan ==
  /\ gsub.phase # "idle" =>
       /\ gsub.out = Woven(gsub.pieces, gsub.src) /\ gsub.count = Len(gsub.pieces)
       /\ Scan(case.items, gsub.pieces, IF case.anchor THEN Min({gsub.src, 1}) ELSE gsub.src)
       /\ gsub.repl.kind = "string" =>
            \A k \in DOMAIN gsub.pieces : gsub.pieces[k].text = ReplacementText(gsub.pieces[k])
  /\ result # NoResult /\ result.op = "gsub" /\ result.values # <<error>> =>
       /\ result.values = <<<<"str", Woven(result.pieces, Len(s))>>, <<"int", Len(result.pieces)>>>>
       /\ Len(result.pieces) < result.max =>
            Scan(case.items, result.pieces, IF case.anchor THEN IF result.pieces = <<>> THEN 1 ELSE 0
                                            ELSE Len(s) + 1)
       /\ result.pieces # <<>> => Len(result.pieces) <= result.max
  /\ result # NoResult /\ result.op = "gsub" /\ result.values = <<error>> /\ result.repl.kind = "string" =>
       \E i \in 0..Len(s) :
         \/ Bad(Meant(i))
         \/ Meant(i).r = "yes" /\ \E k \in DOMAIN result.repl.items :
              LET it == result.repl.items[k] IN it[1] = "cap" /\ it[2] > Max({1, Len(Meant(i).caps)})

(* An iterator made by gmatch comes to the matches of the same scan, all of   *)
(* them before its nil, however its calls interleave with a running gsub and  *)
(* also when it goes on after an error, which is one of the pattern; here ^ is *)
(* a character to match.                                                     *)
GmatchReturnsScan ==
  iter.phase # "idle" =>
    LET items == IF case.anchor THEN <<<<"one", <<"char", Caret>>>>>> \o case.items ELSE case.items
    IN /\ Scan(items, iter.seen, IF iter.phase = "end" THEN Len(s) + 1 ELSE iter.src)
       /\ iter.phase = "error" => \E i \in 0..Len(s) : Bad(Intended(items, s, i))

(* How far a scan has come: past src, and past an empty match there.          *)
Progress(scan) == 2 * scan.src + (IF scan.last = scan.src THEN 1 ELSE 0)

(* Every round of gsub and every match gmatch comes to brings the scan further *)
(* by this measure, which never passes the end of the subject: both end, also   *)
(* with patterns that match the empty string everywhere.                        *)
ScansAdvance ==
  [][/\ gsub'.phase \in {"loop", "end"} /\ gsub.phase \in {"loop", "callback"} =>
          \/ Progress(gsub') \in (Progress(gsub) + 1)..(2 * Len(s) + 1)
          \/ gsub.phase = "loop" /\ gsub'.phase = "end"
     /\ iter.phase # "idle" =>
          \/ Progress(iter') \in (Progress(iter) + 1)..(2 * Len(s) + 1)
          \/ iter' = [iter EXCEPT !.phase = iter'.phase]]_vars
=============================================================================
