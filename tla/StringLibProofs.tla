---------------------------- MODULE StringLibProofs ----------------------------
(***************************************************************************)
(* Theorems of StringLib: the loops of gsub and gmatch come further in     *)
(* every round whatever the matcher answers; find, match and gmatch report *)
(* what the pattern means when the matcher does, and gsub then replaces the*)
(* matches of one scan and nothing else, each by what its replacement      *)
(* string stands for.                                                      *)
(***************************************************************************)
EXTENDS StringLib, ProofFacts, TLAPS

(* The pattern as gsub, find and match hand it to the matcher.             *)
Tried == IF case.anchor THEN Tail(p) ELSE p

(* A scan has last where its last match ended, and that is not past src.   *)
ScanTyped(scan) == scan.src \in 0..Len(s) /\ scan.last \in -1..scan.src

GsubTyped ==
  gsub # Idle =>
    /\ gsub = [phase |-> gsub.phase, repl |-> gsub.repl, max |-> gsub.max, out |-> gsub.out, src |-> gsub.src,
               last |-> gsub.last, count |-> gsub.count, pieces |-> gsub.pieces, m |-> gsub.m]
    /\ gsub.phase \in {"loop", "callback", "end"}
    /\ ScanTyped(gsub)
    /\ gsub.phase = "callback" => gsub.m.end \in gsub.src..Len(s) /\ gsub.m.end # gsub.last

IterTyped ==
  iter # Idle =>
    /\ iter = [phase |-> iter.phase, src |-> iter.src, last |-> iter.last, seen |-> iter.seen]
    /\ iter.phase \in {"on", "end", "error"}
    /\ ScanTyped(iter)

StrInv == case \in Cases /\ GsubTyped /\ IterTyped

-----------------------------------------------------------------------------
(* A match is found forward from where it is asked, inside the subject, both*)
(* with the pattern as it is written and without its ^.                    *)
LEMMA MatchesForward ==
  ASSUME case \in Cases, NEW si \in 0..Len(s)
  PROVE  /\ Len(s) \in Nat
         /\ Matcher(s, Tried, si).r = "yes" => Matcher(s, Tried, si).end \in si..Len(s)
         /\ Matcher(s, p, si).r = "yes" => Matcher(s, p, si).end \in si..Len(s)
<1>1. Len(s) \in Nat BY MatchAssumption DEF s
<1>2. \A q \in {p} \cup (IF case.anchor THEN {Tail(p)} ELSE {}), i \in 0..Len(s) :
        Matcher(s, q, i).r = "yes" => Matcher(s, q, i).end \in i..Len(s)
  BY MatchAssumption DEF s, p
<1>3. Tried \in {p} \cup (IF case.anchor THEN {Tail(p)} ELSE {}) BY DEF Tried
<1> QED BY <1>1, <1>2, <1>3

(* The replacement of a match takes the scan to the end of the match.      *)
LEMMA ReplacedAdvances ==
  ASSUME StrInv, gsub # Idle, NEW m, NEW text, m.end \in gsub.src..Len(s), m.end # gsub.last,
         gsub' = Replaced(m, text), UNCHANGED case
  PROVE  /\ GsubTyped' /\ gsub'.phase \in {"loop", "end"}
         /\ Progress(gsub') \in (Progress(gsub) + 1)..(2 * Len(s) + 1)
<1>1. Len(s) \in Nat BY MatchAssumption DEF s, StrInv
<1>2. /\ gsub = [phase |-> gsub.phase, repl |-> gsub.repl, max |-> gsub.max, out |-> gsub.out, src |-> gsub.src,
                 last |-> gsub.last, count |-> gsub.count, pieces |-> gsub.pieces, m |-> gsub.m]
      /\ gsub.src \in 0..Len(s) /\ gsub.last \in -1..gsub.src
  BY DEF StrInv, GsubTyped, ScanTyped
<1> DEFINE ph == IF case.anchor THEN "end" ELSE "loop"
           ct == gsub.count + 1
           ot == gsub.out \o text
           ps == Append(gsub.pieces, [start |-> m.start, end |-> m.end, caps |-> m.caps, text |-> text])
           e == m.end
<1>3. gsub' = [gsub EXCEPT !.phase = ph, !.count = ct, !.out = ot, !.src = e, !.last = e, !.m = NoMatch,
                           !.pieces = ps]
  BY DEF Replaced
<1>4. ph \in {"end", "loop"} OBVIOUS
<1>5. e \in gsub.src..Len(s) /\ e # gsub.last OBVIOUS
<1> HIDE DEF ph, ct, ot, ps, e
<1>6. gsub' = [phase |-> ph, repl |-> gsub.repl, max |-> gsub.max, out |-> ot, src |-> e,
               last |-> e, count |-> ct, pieces |-> ps, m |-> NoMatch]
  BY <1>2, <1>3
<1>7. s' = s BY DEF s
<1>8. GsubTyped' /\ gsub'.phase \in {"loop", "end"}
  BY <1>1, <1>2, <1>4, <1>5, <1>6, <1>7 DEF GsubTyped, ScanTyped
<1>9. Progress(gsub) \in Int /\ Progress(gsub) <= 2 * e /\ Progress(gsub') = 2 * e + 1
  BY <1>1, <1>2, <1>5, <1>6 DEF Progress
<1>10. Progress(gsub') \in (Progress(gsub) + 1)..(2 * Len(s) + 1)
  BY <1>1, <1>2, <1>5, <1>9
<1> QED BY <1>8, <1>10

(* What a step of gsub does to its scan, as ScansAdvance says it.          *)
GsubAdvances ==
  gsub'.phase \in {"loop", "end"} /\ gsub.phase \in {"loop", "callback"} =>
    \/ Progress(gsub') \in (Progress(gsub) + 1)..(2 * Len(s) + 1)
    \/ gsub.phase = "loop" /\ gsub'.phase = "end"

(* The end of a call, with its values or with an error.                    *)
LEMMA FinishStops ==
  ASSUME NEW values, Finish(values)
  PROVE  GsubTyped' /\ GsubAdvances
BY DEF Finish, GsubTyped, GsubAdvances, Idle

(* A round of the loop of gsub (str_gsub): whatever the matcher answers, the*)
(* scan goes on by a match that is not the last one again, by a character, or*)
(* ends.                                                                   *)
LEMMA IterationAdvances ==
  ASSUME StrInv, GsubIteration
  PROVE  GsubTyped' /\ GsubAdvances
<1> DEFINE m == Matcher(s, Tried, gsub.src)
           counts == m.r = "yes" /\ m.end # gsub.last
           ph == IF case.anchor THEN "end" ELSE "loop"
           ot == Append(gsub.out, s[gsub.src + 1])
           text == gsub_expand_repl(gsub.repl.text, m)
           asked == error \in ToSet(PushCaptures(m)) /\ (gsub.repl.kind = "function" \/ Unfinished(m.caps[1]))
<1>1. Len(s) \in Nat /\ s' = s /\ UNCHANGED case BY MatchAssumption DEF s, StrInv, GsubIteration
<1>2. gsub.phase = "loop" /\ gsub # Idle BY DEF GsubIteration, Idle
<1>3. /\ gsub = [phase |-> gsub.phase, repl |-> gsub.repl, max |-> gsub.max, out |-> gsub.out, src |-> gsub.src,
                 last |-> gsub.last, count |-> gsub.count, pieces |-> gsub.pieces, m |-> gsub.m]
      /\ gsub.src \in 0..Len(s) /\ gsub.last \in -1..gsub.src
  BY <1>2 DEF StrInv, GsubTyped, ScanTyped
<1>4. m.r = "yes" => m.end \in gsub.src..Len(s)
  BY <1>3, MatchesForward DEF StrInv
<1>5. \/ m.r = "panic" /\ Raise
      \/ counts /\ gsub.repl.kind = "string" /\ (IF text = error THEN Raise ELSE gsub' = Replaced(m, text))
      \/ counts /\ (IF asked THEN Raise ELSE gsub' = [gsub EXCEPT !.phase = "callback", !.m = m])
      \/ gsub.src < Len(s) /\ gsub' = [gsub EXCEPT !.out = ot, !.src = @ + 1, !.phase = ph]
      \/ gsub' = [gsub EXCEPT !.phase = "end"]
  BY Zenon DEF GsubIteration, Tried
<1>6. ph \in {"loop", "end"} OBVIOUS
<1> HIDE DEF m, ph, ot, text, asked
<1>7. CASE Raise
  BY <1>7, FinishStops DEF Raise
<1>8. CASE counts /\ gsub' = Replaced(m, text)
  BY <1>8, <1>1, <1>2, <1>4, ReplacedAdvances DEF GsubAdvances
<1>9. ASSUME counts, gsub' = [gsub EXCEPT !.phase = "callback", !.m = m]
      PROVE  GsubTyped' /\ GsubAdvances
  <2>1. gsub' = [phase |-> "callback", repl |-> gsub.repl, max |-> gsub.max, out |-> gsub.out, src |-> gsub.src,
                 last |-> gsub.last, count |-> gsub.count, pieces |-> gsub.pieces, m |-> m]
    BY <1>3, <1>9
  <2> QED BY <2>1, <1>1, <1>3, <1>4, <1>9 DEF GsubTyped, ScanTyped, GsubAdvances
<1>10. ASSUME gsub.src < Len(s), gsub' = [gsub EXCEPT !.out = ot, !.src = @ + 1, !.phase = ph]
       PROVE  GsubTyped' /\ GsubAdvances
  <2>1. gsub' = [phase |-> ph, repl |-> gsub.repl, max |-> gsub.max, out |-> ot, src |-> gsub.src + 1,
                 last |-> gsub.last, count |-> gsub.count, pieces |-> gsub.pieces, m |-> gsub.m]
    BY <1>3, <1>10
  <2>2. GsubTyped' BY <2>1, <1>1, <1>3, <1>6, <1>10 DEF GsubTyped, ScanTyped
  <2>3. /\ Progress(gsub) \in Int /\ Progress(gsub) <= 2 * gsub.src + 1
        /\ Progress(gsub') = 2 * (gsub.src + 1)
    BY <2>1, <1>1, <1>3 DEF Progress
  <2>4. Progress(gsub') \in (Progress(gsub) + 1)..(2 * Len(s) + 1)
    BY <2>3, <1>1, <1>3, <1>10
  <2> QED BY <2>2, <2>4 DEF GsubAdvances
<1>11. ASSUME gsub' = [gsub EXCEPT !.phase = "end"]
       PROVE  GsubTyped' /\ GsubAdvances
  <2>1. gsub' = [phase |-> "end", repl |-> gsub.repl, max |-> gsub.max, out |-> gsub.out, src |-> gsub.src,
                 last |-> gsub.last, count |-> gsub.count, pieces |-> gsub.pieces, m |-> gsub.m]
    BY <1>3, <1>11
  <2> QED BY <2>1, <1>1, <1>2, <1>3 DEF GsubTyped, ScanTyped, GsubAdvances
<1> QED BY <1>5, <1>7, <1>8, <1>9, <1>10, <1>11

(* What the callback returns replaces the match it was called for or raises.*)
LEMMA ReturnReplaces ==
  ASSUME NEW v \in Values, GsubReturn(v)
  PROVE  /\ gsub.phase = "callback" /\ UNCHANGED <<case, iter>>
         /\ Raise \/ (/\ UNCHANGED result
                      /\ \E text \in Seq(STRING) \cup {Slice(gsub.m.start, gsub.m.end)} : gsub' = Replaced(gsub.m, text))
<1> DEFINE same == Slice(gsub.m.start, gsub.m.end)
<1>1. gsub.phase = "callback" /\ UNCHANGED <<case, iter>> BY DEF GsubReturn
<1>2. \/ v = <<"nil">> \/ v = <<"false">> \/ v = <<"error">>
      \/ v \in {"str", "other"} \X Seq(STRING)
  BY MatchAssumption
<1>3. CASE v \in {"str", "other"} \X Seq(STRING)
  <2>1. v[1] \in {"str", "other"} /\ v[2] \in Seq(STRING) /\ v = <<v[1], v[2]>> BY <1>3
  <2>2. v # nil /\ v # <<"false">> /\ v # error BY <2>1 DEF nil, error
  <2>3. Raise \/ (gsub' = Replaced(gsub.m, v[2]) /\ UNCHANGED result) BY <2>1, <2>2 DEF GsubReturn
  <2> QED BY <2>1, <2>3, <1>1
<1>4. CASE v = <<"nil">> \/ v = <<"false">>
  <2>1. v \in {nil, <<"false">>} /\ v # error /\ v[1] # "str" /\ v[1] # "other" BY <1>4 DEF nil, error
  <2>2. gsub' = Replaced(gsub.m, same) /\ UNCHANGED result BY <2>1 DEF GsubReturn
  <2> QED BY <2>2, <1>1
<1>5. CASE v = <<"error">>
  <2>1. ~(v \in {nil, <<"false">>}) /\ v = error /\ v[1] # "str" /\ v[1] # "other" BY <1>5 DEF nil, error
  <2>2. Raise BY <2>1 DEF GsubReturn
  <2> QED BY <2>2, <1>1
<1> QED BY <1>2, <1>3, <1>4, <1>5

(* So it takes the scan past that match, whatever ran in between.          *)
LEMMA ReturnAdvances ==
  ASSUME StrInv, NEW v \in Values, GsubReturn(v)
  PROVE  GsubTyped' /\ GsubAdvances
<1>1. gsub.phase = "callback" /\ gsub # Idle /\ UNCHANGED case BY ReturnReplaces DEF Idle
<1>2. gsub.m.end \in gsub.src..Len(s) /\ gsub.m.end # gsub.last
  BY <1>1 DEF StrInv, GsubTyped
<1>3. CASE Raise BY <1>3, FinishStops DEF Raise
<1>4. ASSUME NEW text, gsub' = Replaced(gsub.m, text) PROVE GsubTyped' /\ GsubAdvances
  BY <1>1, <1>2, <1>4, ReplacedAdvances DEF GsubAdvances
<1> QED BY <1>3, <1>4, ReturnReplaces

(* What a step of an iterator does to its scan, as ScansAdvance says it.   *)
IterAdvances ==
  iter.phase # "idle" =>
    \/ Progress(iter') \in (Progress(iter) + 1)..(2 * Len(s) + 1)
    \/ iter' = [iter EXCEPT !.phase = iter'.phase]

(* The places where the iterator's scan may stop.                          *)
Hits == {i \in iter.src..Len(s) :
           \/ Matcher(s, p, i).r = "panic"
           \/ Matcher(s, p, i).r = "yes" /\ Matcher(s, p, i).end # iter.last}
Hit == Matcher(s, p, Min(Hits))

(* One call of an iterator: the first place that does is the next match.   *)
LEMMA IterReturns ==
  ASSUME StrInv, gmatch_iter
  PROVE  /\ UNCHANGED <<case, gsub, result>> /\ iter.phase # "idle" /\ iter # Idle
         /\ iter = [phase |-> iter.phase, src |-> iter.src, last |-> iter.last, seen |-> iter.seen]
         /\ Hits # {} => Min(Hits) \in Hits /\ \A i \in Hits : Min(Hits) <= i
         /\ \/ Hits = {} /\ iter' = [iter EXCEPT !.phase = "end"]
            \/ Hits # {} /\ Hit.r = "panic" /\ iter' = [iter EXCEPT !.phase = "error"]
            \/ /\ Hits # {} /\ Hit.r = "yes" /\ Hit.end \in Min(Hits)..Len(s) /\ Hit.end # iter.last
               /\ iter' = [phase |-> IF error \in ToSet(PushCaptures(Hit)) THEN "error" ELSE "on",
                           src |-> Hit.end, last |-> Hit.end, seen |-> Append(iter.seen, Hit)]
<1> DEFINE e == Hit.end
           bad == error \in ToSet(PushCaptures(Hit))
           ph == IF bad THEN "error" ELSE "on"
           sn == Append(iter.seen, Hit)
<1>1. Len(s) \in Nat BY MatchAssumption DEF s, StrInv
<1>2. UNCHANGED <<case, gsub, result>> /\ iter.phase # "idle" /\ iter # Idle BY DEF gmatch_iter, Idle
<1>3. /\ iter = [phase |-> iter.phase, src |-> iter.src, last |-> iter.last, seen |-> iter.seen]
      /\ iter.src \in 0..Len(s) /\ iter.last \in -1..iter.src
  BY <1>2 DEF StrInv, IterTyped, ScanTyped
<1>4. Hits \subseteq Nat BY <1>1, <1>3 DEF Hits
<1>5. Hits # {} => Min(Hits) \in Hits /\ \A i \in Hits : Min(Hits) <= i BY <1>4, MinNat
<1>6. Hits # {} => /\ Min(Hits) \in 0..Len(s)
                   /\ \/ Hit.r = "panic"
                      \/ Hit.r = "yes" /\ e # iter.last
  <2> DEFINE j == Min(Hits)
  <2>1. Hit = Matcher(s, p, j) /\ (Hits # {} => j \in Hits) BY <1>5 DEF Hit
  <2> HIDE DEF j
  <2> SUFFICES ASSUME Hits # {}
               PROVE  /\ j \in 0..Len(s)
                      /\ \/ Hit.r = "panic"
                         \/ Hit.r = "yes" /\ Hit.end # iter.last
    BY DEF j
  <2>2. /\ j \in iter.src..Len(s)
        /\ \/ Matcher(s, p, j).r = "panic"
           \/ Matcher(s, p, j).r = "yes" /\ Matcher(s, p, j).end # iter.last
    BY <2>1, Zenon DEF Hits
  <2>3. j \in 0..Len(s) BY <2>2, <1>1, <1>3
  <2>4. \/ Hit.r = "panic"
        \/ Hit.r = "yes" /\ Hit.end # iter.last
    BY <2>1, <2>2, Zenon
  <2> QED BY <2>3, <2>4
<1>7. Hits # {} /\ Hit.r = "yes" => e \in Min(Hits)..Len(s)
  BY <1>6, MatchesForward DEF StrInv, Hit
<1>8. iter' = CASE Hits = {} -> [iter EXCEPT !.phase = "end"]
                [] Hits # {} /\ Hit.r = "panic" -> [iter EXCEPT !.phase = "error"]
                [] OTHER -> [iter EXCEPT !.src = Hit.end, !.last = Hit.end, !.seen = Append(@, Hit), !.phase = ph]
  BY Zenon DEF gmatch_iter, Hits, Hit
<1> HIDE DEF bad
<1>9. [iter EXCEPT !.src = Hit.end, !.last = Hit.end, !.seen = Append(@, Hit), !.phase = ph]
        = [iter EXCEPT !.src = e, !.last = e, !.seen = sn, !.phase = ph]
  BY Zenon
<1>10. CASE Hits = {}
  <2>1. iter' = [iter EXCEPT !.phase = "end"] BY <1>8, <1>10
  <2> QED BY <2>1, <1>2, <1>3, <1>10
<1>11. CASE Hits # {} /\ Hit.r = "panic"
  <2>1. iter' = [iter EXCEPT !.phase = "error"] BY <1>8, <1>11
  <2> QED BY <2>1, <1>2, <1>3, <1>5, <1>11
<1>12. CASE Hits # {} /\ Hit.r # "panic"
  <2>0. iter' = [iter EXCEPT !.src = e, !.last = e, !.seen = sn, !.phase = ph] BY <1>8, <1>9, <1>12
  <2>1. iter' = [phase |-> ph, src |-> e, last |-> e, seen |-> sn]
    <3> HIDE DEF ph, sn, e
    <3> QED BY <2>0, <1>3
  <2> HIDE DEF sn, ph
  <2> QED BY <2>1, <1>2, <1>3, <1>5, <1>6, <1>7, <1>12 DEF ph, sn, bad
<1> QED BY <1>10, <1>11, <1>12

LEMMA IterStepAdvances ==
  ASSUME StrInv, gmatch_iter
  PROVE  IterTyped' /\ IterAdvances
<1>1. Len(s) \in Nat /\ s' = s BY IterReturns, MatchAssumption DEF s, StrInv
<1>2. iter.src \in 0..Len(s) /\ iter.last \in -1..iter.src
  BY IterReturns DEF StrInv, IterTyped, ScanTyped
<1>3. iter = [phase |-> iter.phase, src |-> iter.src, last |-> iter.last, seen |-> iter.seen]
  BY IterReturns
<1>4. ASSUME NEW ph \in {"end", "error"}, iter' = [iter EXCEPT !.phase = ph]
      PROVE  IterTyped' /\ IterAdvances
  <2>1. iter' = [phase |-> ph, src |-> iter.src, last |-> iter.last, seen |-> iter.seen] BY <1>3, <1>4
  <2>2. iter'.phase = ph BY <2>1
  <2>3. IterTyped' BY <2>1, <1>1, <1>2 DEF IterTyped, ScanTyped
  <2> QED BY <2>2, <2>3, <1>4 DEF IterAdvances
<1>5. ASSUME Hits # {}, Hit.end \in Min(Hits)..Len(s), Hit.end # iter.last,
             NEW ph \in {"on", "error"}, NEW sn,
             iter' = [phase |-> ph, src |-> Hit.end, last |-> Hit.end, seen |-> sn]
      PROVE  IterTyped' /\ IterAdvances
  <2> DEFINE j == Min(Hits)
             e == Hit.end
  <2>1. j \in iter.src..Len(s) BY <1>5, IterReturns DEF Hits
  <2> HIDE DEF j, e
  <2>2. e \in j..Len(s) /\ e # iter.last BY <1>5 DEF j, e
  <2>3. iter' = [phase |-> ph, src |-> e, last |-> e, seen |-> sn] BY <1>5 DEF e
  <2>4. e \in iter.src..Len(s) BY <2>1, <2>2, <1>1, <1>2
  <2>5. IterTyped' BY <2>3, <2>4, <1>1, <1>2, <1>5 DEF IterTyped, ScanTyped
  <2>6. Progress(iter) \in Int /\ Progress(iter) <= 2 * e /\ Progress(iter') = 2 * e + 1
    BY <2>2, <2>3, <2>4, <1>1, <1>2 DEF Progress
  <2>7. Progress(iter') \in (Progress(iter) + 1)..(2 * Len(s) + 1)
    BY <2>4, <2>6, <1>1, <1>2
  <2> QED BY <2>5, <2>7 DEF IterAdvances
<1>6. \/ \E ph \in {"end", "error"} : iter' = [iter EXCEPT !.phase = ph]
      \/ /\ Hits # {} /\ Hit.end \in Min(Hits)..Len(s) /\ Hit.end # iter.last
         /\ \E ph \in {"on", "error"} :
              iter' = [phase |-> ph, src |-> Hit.end, last |-> Hit.end, seen |-> Append(iter.seen, Hit)]
  <2> DEFINE ph == IF error \in ToSet(PushCaptures(Hit)) THEN "error" ELSE "on"
  <2>1. ph \in {"on", "error"} OBVIOUS
  <2> HIDE DEF ph
  <2> QED BY <2>1, IterReturns, Zenon DEF ph
<1> QED BY <1>4, <1>5, <1>6

(* Every step keeps the types and takes the scans further.                 *)
LEMMA StrSteps ==
  ASSUME StrInv, [Next]_vars
  PROVE  StrInv' /\ (UNCHANGED vars \/ (GsubAdvances /\ IterAdvances))
<1>1. Len(s) \in Nat BY MatchAssumption DEF s, StrInv
<1>2. ASSUME UNCHANGED case PROVE s' = s /\ (case \in Cases)' BY <1>2 DEF s, StrInv
<1>3. ASSUME UNCHANGED <<case, gsub>>
      PROVE  GsubTyped' /\ (LuaRuns => GsubAdvances)
  BY <1>2, <1>3 DEF LuaRuns, StrInv, GsubTyped, ScanTyped, GsubAdvances, Idle, Progress
<1>4. ASSUME UNCHANGED <<case, iter>> PROVE IterTyped' /\ IterAdvances
  <2>1. IterTyped' BY <1>2, <1>4 DEF StrInv, IterTyped, ScanTyped
  <2>2. iter.phase # "idle" => iter = [iter EXCEPT !.phase = iter.phase] BY DEF StrInv, IterTyped, Idle
  <2> QED BY <2>1, <2>2, <1>4 DEF IterAdvances
<1>5. CASE Find
  <2>1. UNCHANGED <<case, gsub, iter>> /\ LuaRuns BY <1>5 DEF Find, str_find, LuaRuns
  <2> QED BY <2>1, <1>2, <1>3, <1>4 DEF StrInv
<1>6. CASE MatchCall
  <2>1. UNCHANGED <<case, gsub, iter>> /\ LuaRuns BY <1>6 DEF MatchCall, str_match, LuaRuns
  <2> QED BY <2>1, <1>2, <1>3, <1>4 DEF StrInv
<1>7. CASE GsubCall
  <2>1. PICK repl \in case.repls, max_s \in Limits : str_gsub(repl, max_s) BY <1>7 DEF GsubCall
  <2>2. UNCHANGED <<case, iter>> /\ gsub.phase = "idle" BY <2>1 DEF str_gsub
  <2> DEFINE max == IF max_s = <<>> THEN Len(s) + 1 ELSE max_s[1]
  <2>3. gsub' = [phase |-> "loop", repl |-> repl, max |-> max, out |-> <<>>, src |-> 0, last |-> -1, count |-> 0,
                 pieces |-> <<>>, m |-> NoMatch]
    BY <2>1, Zenon DEF str_gsub, npos
  <2> HIDE DEF max
  <2>4. GsubTyped' /\ GsubAdvances BY <2>2, <2>3, <1>1, <1>2 DEF GsubTyped, ScanTyped, GsubAdvances
  <2> QED BY <2>2, <2>4, <1>2, <1>4 DEF StrInv
<1>8. CASE GsubIteration
  BY <1>8, <1>2, <1>4, IterationAdvances DEF GsubIteration, StrInv
<1>9. CASE GsubResume
  <2>1. PICK v \in Values : GsubReturn(v) BY <1>9 DEF GsubResume
  <2> QED BY <2>1, <1>2, <1>4, ReturnAdvances DEF GsubReturn, StrInv
<1>10. CASE GsubEnd
  <2>1. UNCHANGED <<case, iter>> /\ \E values : Finish(values) BY <1>10 DEF GsubEnd
  <2> QED BY <2>1, <1>2, <1>4, FinishStops DEF StrInv
<1>11. CASE str_gmatch
  <2>1. UNCHANGED <<case, gsub>> /\ LuaRuns BY <1>11 DEF str_gmatch
  <2>2. iter.phase = "idle" /\ iter' = [phase |-> "on", src |-> 0, last |-> -1, seen |-> <<>>]
    BY <1>11 DEF str_gmatch, npos
  <2>3. IterTyped' /\ IterAdvances BY <2>1, <2>2, <1>1, <1>2 DEF IterTyped, ScanTyped, IterAdvances
  <2> QED BY <2>1, <2>3, <1>2, <1>3 DEF StrInv
<1>12. CASE gmatch_iter
  <2>1. UNCHANGED <<case, gsub>> /\ LuaRuns BY <1>12 DEF gmatch_iter
  <2> QED BY <2>1, <1>2, <1>3, <1>12, IterStepAdvances DEF StrInv
<1>13. CASE UNCHANGED vars
  <2>1. UNCHANGED <<case, gsub, iter>> BY <1>13 DEF vars
  <2> QED BY <1>13, <2>1, <1>2, <1>3, <1>4 DEF StrInv
<1> QED BY <1>5, <1>6, <1>7, <1>8, <1>9, <1>10, <1>11, <1>12, <1>13 DEF Next

LEMMA StrInvariant == Spec => []StrInv
<1>1. Init => StrInv BY DEF Init, StrInv, GsubTyped, IterTyped
<1>2. StrInv /\ [Next]_vars => StrInv' BY StrSteps
<1> QED BY <1>1, <1>2, PTL DEF Spec

\* Every round of gsub's loop and every match an iterator made by gmatch comes to
\* brings the scan further, for every matcher that matches forward (str_gsub,
\* gmatch_iter): patterns that match the empty string do not keep it in place.
THEOREM ScansEnd == Spec => ScansAdvance
<1>1. ASSUME StrInv, [Next]_vars
      PROVE  [/\ gsub'.phase \in {"loop", "end"} /\ gsub.phase \in {"loop", "callback"} =>
                   \/ Progress(gsub') \in (Progress(gsub) + 1)..(2 * Len(s) + 1)
                   \/ gsub.phase = "loop" /\ gsub'.phase = "end"
              /\ iter.phase # "idle" =>
                   \/ Progress(iter') \in (Progress(iter) + 1)..(2 * Len(s) + 1)
                   \/ iter' = [iter EXCEPT !.phase = iter'.phase]]_vars
  BY <1>1, StrSteps, Zenon DEF GsubAdvances, IterAdvances
<1> QED BY <1>1, StrInvariant, PTL DEF Spec, ScansAdvance

-----------------------------------------------------------------------------
(* The matcher, given the text q, finds at every place of the subject what *)
(* the items mean there, captures included, and panics where they have an  *)
(* error.                                                                  *)
Agrees(c, q, items) ==
  \A si \in 0..Len(c.s) :
    LET m == Matcher(c.s, q, si)
        n == Intended(items, c.s, si)
    IN /\ m.r \in {"yes", "no", "panic"} /\ n.r = m.r
       /\ m.r = "yes" => /\ m.start = si /\ n.start = si /\ m.end = n.end /\ m.caps = n.caps
                         /\ m.caps \in Seq([a : Int, b : Int])

(* The code hands a pattern without its ^ to match() in find, match and gsub;*)
(* gmatch takes the ^ for a character.                                     *)
MatcherAgrees == \A c \in Cases : Agrees(c, IF c.anchor THEN Tail(c.p) ELSE c.p, c.items)
IterItems(c) == IF c.anchor THEN <<<<"one", <<"char", Caret>>>>>> \o c.items ELSE c.items
IterAgrees == \A c \in Cases : Agrees(c, c.p, IterItems(c))

(* The captures of a match hold an error exactly when one was never closed.*)
LEMMA CapturesRaise ==
  ASSUME NEW m, m.caps \in Seq([a : Int, b : Int])
  PROVE  LET unclosed == \E i \in DOMAIN m.caps : Unfinished(m.caps[i])
         IN /\ error \in ToSet(PushCaptures(m)) <=> unclosed
            /\ unclosed => PushCaptures(m) = <<error>>
            /\ ~unclosed /\ m.caps # <<>> =>
                 PushCaptures(m) = [i \in DOMAIN m.caps |-> CaptureValue(m.caps[i])]
<1> DEFINE unclosed == \E i \in DOMAIN m.caps : Unfinished(m.caps[i])
           v(i) == CaptureValue(m.caps[i])
<1>1. \A i \in DOMAIN m.caps : v(i) # error
  BY DEF CaptureValue, error
<1>2. CASE unclosed
  <2>1. PushCaptures(m) = <<error>> BY <1>2 DEF PushCaptures
  <2>2. error \in ToSet(<<error>>) BY DEF ToSet
  <2> QED BY <2>1, <2>2, <1>2
<1>3. CASE ~unclosed /\ m.caps # <<>>
  <2>1. PushCaptures(m) = [i \in DOMAIN m.caps |-> v(i)] BY <1>3, Zenon DEF PushCaptures
  <2> HIDE DEF v
  <2>2. error \notin ToSet([i \in DOMAIN m.caps |-> v(i)]) BY <1>1 DEF ToSet
  <2> QED BY <2>1, <2>2, <1>3 DEF v
<1>4. CASE ~unclosed /\ m.caps = <<>>
  <2>1. PushCaptures(m) = <<<<"str", Slice(m.start, m.end)>>>> BY <1>4, Zenon DEF PushCaptures
  <2>2. error \notin ToSet(<<<<"str", Slice(m.start, m.end)>>>>) BY DEF ToSet, error
  <2> QED BY <2>1, <2>2, <1>4
<1> QED BY <1>2, <1>3, <1>4

(* match_search finds the first place that matches, or panics, as meant.   *)
LEMMA SearchFinds ==
  ASSUME MatcherAgrees, case \in Cases, NEW from \in Nat, case.anchor => from <= Len(s)
  PROVE  LET where == {i \in from..Len(s) : (case.anchor => i = from) /\ Meant(i).r # "no"}
             m == match_search(from)
             n == Meant(Min(where))
         IN /\ where = {} => m.r = "no"
            /\ where # {} => /\ m.r = n.r /\ m.r \in {"yes", "panic"}
                             /\ m.r = "yes" => /\ m.start = n.start /\ m.end = n.end /\ m.caps = n.caps
                                               /\ m.caps \in Seq([a : Int, b : Int])
                                               /\ m.start \in 0..Len(s)
<1> DEFINE where == {i \in from..Len(s) : (case.anchor => i = from) /\ Meant(i).r # "no"}
           hits == {i \in from..(IF case.anchor THEN from ELSE Len(s)) : Matcher(s, Tried, i).r # "no"}
           j == Min(where)
<1>1. Len(s) \in Nat BY MatchAssumption DEF s
<1>2. \A i \in 0..Len(s) :
        /\ Matcher(s, Tried, i).r \in {"yes", "no", "panic"} /\ Meant(i).r = Matcher(s, Tried, i).r
        /\ Matcher(s, Tried, i).r = "yes" =>
             /\ Matcher(s, Tried, i).start = i /\ Meant(i).start = i
             /\ Matcher(s, Tried, i).end = Meant(i).end /\ Matcher(s, Tried, i).caps = Meant(i).caps
             /\ Matcher(s, Tried, i).caps \in Seq([a : Int, b : Int])
  BY Zenon DEF MatcherAgrees, Agrees, Meant, s, p, Tried
<1>3. hits = where
  <2>1. CASE case.anchor
    <3>1. \A i \in from..Len(s) : i \in 0..Len(s) BY <1>1
    <3>2. from..from = {from} /\ from \in from..Len(s) BY <1>1, <2>1
    <3> QED BY <2>1, <3>1, <3>2, <1>2
  <2>2. CASE ~case.anchor
    <3>1. \A i \in from..Len(s) : i \in 0..Len(s) BY <1>1
    <3> QED BY <2>2, <3>1, <1>2
  <2> QED BY <2>1, <2>2
<1>4. match_search(from) = IF hits = {} THEN NoMatch ELSE Matcher(s, Tried, Min(hits))
  BY Zenon DEF match_search, Tried
<1>5. CASE where = {}
  <2>1. match_search(from) = NoMatch BY <1>3, <1>4, <1>5, Zenon
  <2> QED BY <2>1, <1>5 DEF NoMatch
<1>6. CASE where # {}
  <2>1. where \subseteq Nat BY <1>1
  <2>2. j \in where BY <2>1, <1>6, MinNat
  <2>3. j \in 0..Len(s) /\ Meant(j).r # "no"
    <3> HIDE DEF j
    <3> QED BY <2>2, <1>1
  <2>4. match_search(from) = Matcher(s, Tried, j) BY <1>3, <1>4, <1>6, Zenon
  <2> HIDE DEF j
  <2>5. /\ match_search(from).r = Meant(j).r /\ match_search(from).r \in {"yes", "panic"}
        /\ match_search(from).r = "yes" =>
             /\ match_search(from).start = Meant(j).start /\ match_search(from).end = Meant(j).end
             /\ match_search(from).caps = Meant(j).caps
             /\ match_search(from).caps \in Seq([a : Int, b : Int])
             /\ match_search(from).start \in 0..Len(s)
    BY <2>3, <2>4, <1>2
  <2> QED BY <2>5, <1>6 DEF j
<1> QED BY <1>5, <1>6

(* What find and match start from is a place in the subject or past its end.*)
LEMMA StartIsNatural ==
  ASSUME case \in Cases, NEW init \in Starts
  PROVE  Start(init) \in Nat
<1>1. Len(s) \in Nat BY MatchAssumption DEF s
<1> DEFINE x == IF init < 0 THEN Len(s) + init + 1 ELSE init
           S == {1, x}
           b == IF x > 1 THEN x ELSE 1
<1>2. init \in Int BY MatchAssumption
<1>3. x \in Int BY <1>1, <1>2
<1> HIDE DEF x
<1>4. b \in Int /\ \A y \in S : y <= b BY <1>3
<1>5. S \subseteq Int /\ S # {} BY <1>3
<1> HIDE DEF S, b
<1>6. Max(S) \in S /\ \A y \in S : y <= Max(S) BY <1>4, <1>5, MaxBounded
<1>7. Max(S) \in Int /\ Max(S) >= 1 BY <1>3, <1>6 DEF S
<1>8. Start(init) = Max(S) - 1 BY Zenon DEF Start, S, x
<1> QED BY <1>7, <1>8

(* What find and match return is what the leftmost match meant gives.      *)
Reported(op, from) ==
  LET where == {i \in from..Len(s) : (case.anchor => i = from) /\ Meant(i).r # "no"}
      m == Meant(Min(where))
      at == IF op = "find" THEN <<<<"int", m.start + 1>>, <<"int", m.end>>>> ELSE <<>>
      text == IF op = "match" /\ m.caps = <<>> THEN <<<<"str", Slice(m.start, m.end)>>>>
              ELSE [i \in DOMAIN m.caps |-> CaptureValue(m.caps[i])]
  IN IF where = {} THEN <<nil>> ELSE IF Bad(m) THEN <<error>> ELSE at \o text

(* The values of a search, as find pushes them and as match does.          *)
FindValues(m) ==
  LET whole == <<<<"int", m.start + 1>>, <<"int", m.end>>>>
      rest == IF m.caps = <<>> THEN <<>> ELSE PushCaptures(m)
  IN CASE m.r = "no" -> <<nil>>
       [] m.r = "panic" -> <<error>>
       [] m.r = "yes" /\ Throws(m) -> <<out_of_range>>
       [] OTHER -> IF error \in ToSet(rest) THEN <<error>> ELSE whole \o rest
MatchValues(m) ==
  CASE m.r = "no" -> <<nil>>
    [] m.r = "panic" -> <<error>>
    [] m.r = "yes" /\ (Throws(m) \/ (m.start > Len(s) /\ m.caps = <<>>)) -> <<out_of_range>>
    [] OTHER -> PushCaptures(m)

LEMMA SearchReports ==
  ASSUME MatcherAgrees, case \in Cases, NEW from \in Nat, case.anchor => from <= Len(s)
  PROVE  /\ FindValues(match_search(from)) = Reported("find", from)
         /\ MatchValues(match_search(from)) = Reported("match", from)
<1> DEFINE where == {i \in from..Len(s) : (case.anchor => i = from) /\ Meant(i).r # "no"}
           m == match_search(from)
           n == Meant(Min(where))
           texts == [i \in DOMAIN n.caps |-> CaptureValue(n.caps[i])]
           unclosed == \E i \in DOMAIN m.caps : Unfinished(m.caps[i])
           whole == <<<<"int", n.start + 1>>, <<"int", n.end>>>>
           text == IF n.caps = <<>> THEN <<<<"str", Slice(n.start, n.end)>>>> ELSE texts
<1>1. /\ where = {} => m.r = "no"
      /\ where # {} => /\ m.r = n.r /\ m.r \in {"yes", "panic"}
                       /\ m.r = "yes" => /\ m.start = n.start /\ m.end = n.end /\ m.caps = n.caps
                                         /\ m.caps \in Seq([a : Int, b : Int]) /\ m.start \in 0..Len(s)
  BY SearchFinds
<1>2. /\ Reported("find", from) = IF where = {} THEN <<nil>> ELSE IF Bad(n) THEN <<error>> ELSE whole \o texts
      /\ Reported("match", from) = IF where = {} THEN <<nil>> ELSE IF Bad(n) THEN <<error>> ELSE <<>> \o text
  BY Zenon DEF Reported
<1> HIDE DEF where, m, n
<1>3. CASE where = {}
  <2>1. m.r = "no" BY <1>1, <1>3
  <2>2. FindValues(m) = <<nil>> /\ MatchValues(m) = <<nil>> BY <2>1 DEF FindValues, MatchValues
  <2> QED BY <2>2, <1>2, <1>3 DEF m
<1>4. CASE where # {} /\ m.r = "panic"
  <2>1. FindValues(m) = <<error>> /\ MatchValues(m) = <<error>> BY <1>4 DEF FindValues, MatchValues
  <2>2. Bad(n) BY <1>1, <1>4 DEF Bad
  <2> QED BY <2>1, <2>2, <1>2, <1>4 DEF m
<1>5. CASE where # {} /\ m.r = "yes"
  <2>1. /\ n.r = "yes" /\ m.start = n.start /\ m.end = n.end /\ m.caps = n.caps
        /\ m.caps \in Seq([a : Int, b : Int]) /\ ~(m.start > Len(s))
    <3>1. Len(s) \in Nat /\ m.start \in 0..Len(s) BY <1>1, <1>5, MatchAssumption DEF s
    <3> QED BY <3>1, <1>1, <1>5
  <2>2. Bad(n) <=> unclosed BY <2>1 DEF Bad
  <2>3. /\ FindValues(m) = LET rest == IF m.caps = <<>> THEN <<>> ELSE PushCaptures(m)
                           IN IF error \in ToSet(rest) THEN <<error>> ELSE whole \o rest
        /\ MatchValues(m) = PushCaptures(m)
    <3>1. ~Throws(m) BY <2>1 DEF Throws
    <3> QED BY <3>1, <2>1, <1>5 DEF FindValues, MatchValues
  <2>4. /\ error \in ToSet(PushCaptures(m)) <=> unclosed
        /\ unclosed => PushCaptures(m) = <<error>>
        /\ ~unclosed /\ m.caps # <<>> =>
             PushCaptures(m) = [i \in DOMAIN m.caps |-> CaptureValue(m.caps[i])]
    BY <2>1, CapturesRaise
  <2>5. CASE unclosed
    <3>1. m.caps # <<>> BY <2>5
    <3> QED BY <3>1, <2>2, <2>3, <2>4, <2>5, <1>2, <1>5, Zenon DEF m
  <2>6. CASE ~unclosed /\ m.caps # <<>>
    <3>1. PushCaptures(m) = texts BY <2>1, <2>4, <2>6
    <3>2. texts \in Seq({CaptureValue(n.caps[i]) : i \in DOMAIN n.caps}) BY <2>1
    <3>3. <<>> \o texts = texts
      <4> HIDE DEF texts
      <4> QED BY <3>2
    <3> QED BY <3>1, <3>3, <2>1, <2>2, <2>3, <2>4, <2>6, <1>2, <1>5, Zenon DEF m
  <2>7. CASE ~unclosed /\ m.caps = <<>>
    <3>1. PushCaptures(m) = <<<<"str", Slice(m.start, m.end)>>>> BY <2>7, Zenon DEF PushCaptures
    <3>2. texts = <<>> BY <2>1, <2>7
    <3>3. error \notin ToSet(<<>>) BY DEF ToSet
    <3>4. <<>> \o <<<<"str", Slice(n.start, n.end)>>>> = <<<<"str", Slice(n.start, n.end)>>>> OBVIOUS
    <3> QED BY <3>1, <3>2, <3>3, <3>4, <2>1, <2>2, <2>3, <2>7, <1>2, <1>5, Zenon DEF m
  <2> QED BY <2>5, <2>6, <2>7
<1> QED BY <1>1, <1>3, <1>4, <1>5

ReportsMeant ==
  result # NoResult /\ result.op \in {"find", "match"} /\ (case.anchor => Start(result.init) <= Len(s)) =>
    result.values = Reported(result.op, Start(result.init))

LEMMA ReportStep ==
  ASSUME MatcherAgrees, case \in Cases, ReportsMeant, [Next]_vars
  PROVE  (case \in Cases)' /\ ReportsMeant'
<1>1. UNCHANGED case
  BY DEF Next, Find, str_find, MatchCall, str_match, GsubCall, str_gsub, GsubIteration, GsubResume, GsubReturn,
         GsubEnd, str_gmatch, gmatch_iter, vars
<1>2. /\ s' = s
      /\ \A init : Start(init)' = Start(init)
      /\ \A op, from : Reported(op, from)' = Reported(op, from)
  BY <1>1 DEF s, Start, Reported, Meant, Bad, CaptureValue, Slice
<1>3. CASE UNCHANGED result BY <1>1, <1>2, <1>3, Zenon DEF ReportsMeant
<1>4. ASSUME NEW op \in {"find", "match"}, NEW init \in Starts, NEW values,
             result' = [op |-> op, init |-> init, values |-> values],
             (case.anchor => Start(init) <= Len(s)) => values = Reported(op, Start(init))
      PROVE  ReportsMeant'
  <2>1. result'.op = op /\ result'.init = init /\ result'.values = values BY <1>4
  <2> QED BY <2>1, <1>1, <1>2, <1>4, Zenon DEF ReportsMeant
<1>5. ASSUME result'.op \notin {"find", "match"} PROVE ReportsMeant' BY <1>5, Zenon DEF ReportsMeant
<1>6. ASSUME NEW init \in Starts, case.anchor => Start(init) <= Len(s)
      PROVE  /\ FindValues(match_search(Start(init))) = Reported("find", Start(init))
             /\ MatchValues(match_search(Start(init))) = Reported("match", Start(init))
  BY <1>6, StartIsNatural, SearchReports
<1>7. CASE Find
  <2>1. PICK init \in Starts, plain \in BOOLEAN : str_find(init, plain) BY <1>7 DEF Find
  <2>2. CASE plain
    <3>1. result'.op = "plain" BY <2>1, <2>2 DEF str_find
    <3> QED BY <3>1, <1>1, <1>5
  <2>3. CASE ~plain
    <3> DEFINE m == match_search(Start(init))
    <3>1. result' = [op |-> "find", init |-> init, values |-> FindValues(m)]
      <4> DEFINE at == {i \in Start(init)..(Len(s) - Len(p)) : Slice(i, i + Len(p)) = p}
                 rest == IF m.caps = <<>> THEN <<>> ELSE PushCaptures(m)
                 full == IF error \in ToSet(rest) THEN <<error>>
                         ELSE <<<<"int", m.start + 1>>, <<"int", m.end>>>> \o rest
                 flat == IF at = {} THEN <<nil>> ELSE <<<<"int", Min(at) + 1>>, <<"int", Min(at) + Len(p)>>>>
                 found == CASE plain -> flat
                            [] ~plain /\ m.r = "no" -> <<nil>>
                            [] ~plain /\ m.r = "panic" -> <<error>>
                            [] ~plain /\ m.r = "yes" /\ Throws(m) -> <<out_of_range>>
                            [] OTHER -> full
      <4>1. result' = [op |-> IF plain THEN "plain" ELSE "find", init |-> init, values |-> found]
        BY <2>1, Zenon DEF str_find
      <4>2. FindValues(m) = CASE m.r = "no" -> <<nil>> [] m.r = "panic" -> <<error>>
                            [] m.r = "yes" /\ Throws(m) -> <<out_of_range>> [] OTHER -> full
        BY Zenon DEF FindValues
      <4> HIDE DEF full, flat, m
      <4>3. found = FindValues(m) BY <4>2, <2>3
      <4> HIDE DEF found
      <4> QED BY <4>1, <4>3, <2>3
    <3> QED BY <3>1, <1>1, <1>4, <1>6, Zenon
  <2> QED BY <2>2, <2>3
<1>8. CASE MatchCall
  <2>1. PICK init \in Starts : str_match(init) BY <1>8 DEF MatchCall
  <2>2. result' = [op |-> "match", init |-> init, values |-> MatchValues(match_search(Start(init)))]
    BY <2>1, Zenon DEF str_match, MatchValues
  <2> QED BY <2>2, <1>1, <1>4, <1>6, Zenon
<1>9. ASSUME NEW values, Finish(values) PROVE result'.op = "gsub" BY <1>9 DEF Finish
<1>10. CASE GsubIteration
  <2>1. UNCHANGED result \/ Raise BY <1>10, Zenon DEF GsubIteration
  <2> QED BY <2>1, <1>1, <1>3, <1>5, <1>9 DEF Raise
<1>11. CASE GsubResume
  <2>1. PICK v \in Values : GsubReturn(v) BY <1>11 DEF GsubResume
  <2>2. UNCHANGED result \/ Raise BY <2>1, ReturnReplaces
  <2> QED BY <2>2, <1>1, <1>3, <1>5, <1>9 DEF Raise
<1>12. CASE GsubEnd BY <1>12, <1>1, <1>5, <1>9 DEF GsubEnd
<1>13. CASE GsubCall \/ str_gmatch \/ gmatch_iter \/ UNCHANGED vars
  <2>1. UNCHANGED result BY <1>13 DEF GsubCall, str_gsub, str_gmatch, gmatch_iter, vars
  <2> QED BY <2>1, <1>1, <1>3
<1> QED BY <1>1, <1>7, <1>8, <1>10, <1>11, <1>12, <1>13 DEF Next

\* find and match report the leftmost match the pattern means, with its captures,
\* and an error only for a pattern that has one, for every matcher that agrees with
\* that meaning place by place (str_find, str_match, match_search).
THEOREM FindCorrect ==
  ASSUME MatcherAgrees
  PROVE  Spec => []FindsLeftmost
<1>1. Init => case \in Cases /\ ReportsMeant BY DEF Init, ReportsMeant
<1>2. case \in Cases /\ ReportsMeant /\ [Next]_vars => (case \in Cases /\ ReportsMeant)'
  BY ReportStep
<1>3. case \in Cases /\ ReportsMeant => FindsLeftmost
  <2> SUFFICES ASSUME ReportsMeant PROVE FindsLeftmost OBVIOUS
  <2> QED BY Zenon DEF ReportsMeant, FindsLeftmost, Reported
<1> QED BY <1>1, <1>2, <1>3, PTL DEF Spec

-----------------------------------------------------------------------------
(* Where the scan for the k-th match starts, and the places that would do. *)
From(ms, k) == IF k = 1 THEN 0 ELSE ms[k - 1].end
Fits(c, items, ms, i, k) ==
  LET m == Intended(items, c.s, i) IN m.r = "yes" /\ (k = 1 \/ m.end # From(ms, k))

(* One match of a scan: the first place that would do.                     *)
NextMatch(c, items, ms, k) ==
  LET m == Intended(items, c.s, ms[k].start)
  IN /\ ms[k].start >= From(ms, k) /\ Fits(c, items, ms, ms[k].start, k)
     /\ ms[k].end = m.end /\ ms[k].caps = m.caps
     /\ \A i \in From(ms, k)..(ms[k].start - 1) : ~Fits(c, items, ms, i, k)

LEMMA ScanSays ==
  ASSUME NEW items, NEW ms, NEW upto
  PROVE  Scan(items, ms, upto) <=>
           /\ \A k \in DOMAIN ms : NextMatch(case, items, ms, k)
           /\ \A i \in From(ms, Len(ms) + 1)..(upto - 1) : ~Fits(case, items, ms, i, Len(ms) + 1)
BY Zenon DEF Scan, NextMatch, Fits, From, s

(* The next match, where the scan has come to, goes on with it.            *)
LEMMA ScanGoesOn ==
  ASSUME NEW items, NEW T, NEW ms \in Seq(T), NEW m, m.end \in Int,
         \A k \in DOMAIN ms : NextMatch(case, items, ms, k),
         LET n == Intended(items, s, m.start)
             next == Len(ms) + 1
         IN /\ m.start >= From(ms, next) /\ Fits(case, items, ms, m.start, next)
            /\ m.end = n.end /\ m.caps = n.caps
            /\ \A i \in From(ms, next)..(m.start - 1) : ~Fits(case, items, ms, i, next)
  PROVE  Scan(items, Append(ms, m), m.end)
<1> DEFINE new == Append(ms, m)
           next == Len(ms) + 1
<1>1. /\ Len(ms) \in Nat /\ DOMAIN ms = 1..Len(ms) /\ Len(new) = next /\ DOMAIN new = 1..next
      /\ new[next] = m /\ \A k \in 1..Len(ms) : new[k] = ms[k]
  OBVIOUS
<1> HIDE DEF new
<1>2. \A k \in 1..next : From(new, k) = From(ms, k) BY <1>1 DEF From
<1>3. From(new, next + 1) = m.end BY <1>1 DEF From
<1>4. \A k \in 1..next : \A i : Fits(case, items, new, i, k) <=> Fits(case, items, ms, i, k) BY <1>2, Zenon DEF Fits
<1>5. \A k \in 1..Len(ms) : NextMatch(case, items, new, k)
  <2> SUFFICES ASSUME NEW k \in 1..Len(ms) PROVE NextMatch(case, items, new, k) OBVIOUS
  <2>1. NextMatch(case, items, ms, k) /\ k \in 1..next /\ new[k] = ms[k] BY <1>1
  <2>2. From(new, k) = From(ms, k) /\ \A i : Fits(case, items, new, i, k) <=> Fits(case, items, ms, i, k)
    BY <2>1, <1>2, <1>4, Zenon
  <2> QED BY <2>1, <2>2, Zenon DEF NextMatch
<1>6. NextMatch(case, items, new, next)
  <2>1. next \in 1..next BY <1>1
  <2>2. From(new, next) = From(ms, next) /\ \A i : Fits(case, items, new, i, next) <=> Fits(case, items, ms, i, next)
    BY <2>1, <1>2, <1>4, Zenon
  <2> HIDE DEF next
  <2> QED BY <2>2, <1>1, Zenon DEF NextMatch, next, s
<1>7. \A k \in DOMAIN new : NextMatch(case, items, new, k)
  <2>1. \A k \in 1..next : k \in 1..Len(ms) \/ k = next BY <1>1
  <2> QED BY <2>1, <1>1, <1>5, <1>6, Zenon
<1>8. \A i \in From(new, next + 1)..(m.end - 1) : ~Fits(case, items, new, i, next + 1)
  <2> SUFFICES From(new, next + 1)..(m.end - 1) = {} BY Zenon
  <2> QED BY <1>3
<1>9. Scan(items, new, m.end)
  <2>1. Len(new) + 1 = next + 1 BY <1>1
  <2> HIDE DEF next
  <2> QED BY <2>1, <1>7, <1>8, ScanSays, Zenon
<1> QED BY <1>9 DEF new

(* What the iterator has come to, where its scan stands and what it compares *)
(* the next match with; an error is one of the pattern.                    *)
Seen(c, phase, src, last, seen) ==
  LET next == Len(seen) + 1
      items == IterItems(c)
  IN /\ seen \in Seq({Matcher(c.s, c.p, i) : i \in 0..Len(c.s)})
     /\ From(seen, next) \in 0..Len(c.s)
     /\ \A k \in DOMAIN seen : NextMatch(c, items, seen, k)
     /\ src = From(seen, next) /\ last = IF seen = <<>> THEN -1 ELSE src
     /\ phase = "end" => \A i \in From(seen, next)..Len(c.s) : ~Fits(c, items, seen, i, next)
     /\ phase = "error" => \E i \in 0..Len(c.s) : Bad(Intended(items, c.s, i))

SeenInv == iter.phase # "idle" => Seen(case, iter.phase, iter.src, iter.last, iter.seen)

LEMMA SeenIsScan ==
  ASSUME StrInv, SeenInv
  PROVE  GmatchReturnsScan
<1> SUFFICES ASSUME iter.phase # "idle" PROVE GmatchReturnsScan BY DEF GmatchReturnsScan
<1> DEFINE upto == IF iter.phase = "end" THEN Len(s) + 1 ELSE iter.src
           next == Len(iter.seen) + 1
           from == From(iter.seen, next)
<1>1. Len(s) \in Nat /\ from \in 0..Len(s) BY MatchAssumption DEF s, StrInv, SeenInv, Seen
<1>2. iter.phase = "error" => \E i \in 0..Len(s) : Bad(Intended(IterItems(case), s, i))
  BY Zenon DEF SeenInv, Seen, s
<1>3. \A i \in from..(upto - 1) : ~Fits(case, IterItems(case), iter.seen, i, next)
  <2>0. /\ iter.src = from
        /\ iter.phase = "end" => \A i \in from..Len(s) : ~Fits(case, IterItems(case), iter.seen, i, next)
    BY DEF SeenInv, Seen, s, p
  <2> HIDE DEF from, next
  <2>1. CASE iter.phase = "end"
    <3>1. upto - 1 = Len(s) BY <2>1, <1>1
    <3> QED BY <3>1, <2>0, <2>1
  <2>2. CASE iter.phase # "end"
    <3>1. upto = from BY <2>2, <2>0
    <3> HIDE DEF upto
    <3>2. from..(upto - 1) = {} BY <3>1, <1>1
    <3> QED BY <3>2, Zenon
  <2> QED BY <2>1, <2>2
<1>4. Scan(IterItems(case), iter.seen, upto)
  <2>1. \A k \in DOMAIN iter.seen : NextMatch(case, IterItems(case), iter.seen, k) BY DEF SeenInv, Seen
  <2> HIDE DEF upto
  <2> QED BY <2>1, <1>3, ScanSays, Zenon
<1> QED BY <1>2, <1>4, Zenon DEF GmatchReturnsScan, IterItems

(* A place where the iterator may stop is one that would do, or an error of*)
(* the pattern.                                                            *)
LEMMA HitsFit ==
  ASSUME IterAgrees, StrInv, SeenInv, iter.phase # "idle", NEW i \in iter.src..Len(s)
  PROVE  LET next == Len(iter.seen) + 1
             m == Matcher(s, p, i)
             n == Intended(IterItems(case), s, i)
         IN /\ Fits(case, IterItems(case), iter.seen, i, next) => i \in Hits
            /\ m.r = "yes" => m.start = i /\ m.end = n.end /\ m.caps = n.caps
            /\ m.r = "yes" /\ m.end # iter.last => Fits(case, IterItems(case), iter.seen, i, next)
<1> DEFINE next == Len(iter.seen) + 1
           m == Matcher(s, p, i)
           n == Intended(IterItems(case), s, i)
<1>1. /\ iter.seen \in Seq({Matcher(s, p, k) : k \in 0..Len(s)})
      /\ iter.src = From(iter.seen, next)
      /\ iter.last = IF iter.seen = <<>> THEN -1 ELSE iter.src
  BY DEF SeenInv, Seen, s, p
<1>2. Len(s) \in Nat /\ iter.src \in 0..Len(s)
  BY MatchAssumption DEF s, StrInv, IterTyped, ScanTyped, Idle
<1>3. i \in 0..Len(s) BY <1>2
<1>4. /\ m.r \in {"yes", "no", "panic"} /\ n.r = m.r
      /\ m.r = "yes" => m.start = i /\ m.end = n.end /\ m.caps = n.caps
  BY <1>3, Zenon DEF IterAgrees, Agrees, StrInv, s, p
<1>5. m.r = "yes" => m.end \in i..Len(s) BY <1>3, MatchesForward DEF StrInv
<1>6. next = 1 <=> iter.seen = <<>>
  <2> DEFINE T == {Matcher(s, p, k) : k \in 0..Len(s)}
  <2>1. iter.seen \in Seq(T) BY <1>1
  <2> HIDE DEF T
  <2>2. Len(iter.seen) \in Nat /\ (Len(iter.seen) = 0 <=> iter.seen = <<>>) BY <2>1
  <2> QED BY <2>2
<1>7. m.r = "yes" => (m.end # iter.last <=> next = 1 \/ m.end # From(iter.seen, next))
  <2> SUFFICES ASSUME m.r = "yes" PROVE m.end # iter.last <=> (next = 1 \/ m.end # From(iter.seen, next)) OBVIOUS
  <2> DEFINE e == m.end
             f == From(iter.seen, next)
  <2>1. e \in i..Len(s) BY <1>5
  <2>2. iter.src = f /\ iter.last = IF iter.seen = <<>> THEN -1 ELSE iter.src BY <1>1
  <2> HIDE DEF e, f, next
  <2>3. e \in Nat BY <2>1, <1>3
  <2>4. e # iter.last <=> (next = 1 \/ e # f)
    <3>1. CASE iter.seen = <<>> BY <3>1, <2>2, <2>3, <1>6
    <3>2. CASE iter.seen # <<>> BY <3>2, <2>2, <1>6
    <3> QED BY <3>1, <3>2
  <2> QED BY <2>4 DEF e, f
<1>8. Fits(case, IterItems(case), iter.seen, i, next) <=> m.r = "yes" /\ m.end # iter.last
  <2>1. Fits(case, IterItems(case), iter.seen, i, next) <=>
          n.r = "yes" /\ (next = 1 \/ n.end # From(iter.seen, next))
    BY Zenon DEF Fits, s
  <2> HIDE DEF m, n, next
  <2> QED BY <2>1, <1>4, <1>7, Zenon
<1>9. m.r = "yes" /\ m.end # iter.last => i \in Hits BY Zenon DEF Hits
<1> HIDE DEF m, n, next
<1>10. /\ Fits(case, IterItems(case), iter.seen, i, next) => i \in Hits
       /\ m.r = "yes" => m.start = i /\ m.end = n.end /\ m.caps = n.caps
       /\ m.r = "yes" /\ m.end # iter.last => Fits(case, IterItems(case), iter.seen, i, next)
  BY <1>4, <1>8, <1>9, Zenon
<1> QED BY <1>10 DEF m, n, next

LEMMA SeenStep ==
  ASSUME IterAgrees, StrInv, SeenInv, gmatch_iter
  PROVE  SeenInv'
<1> DEFINE T == {Matcher(s, p, i) : i \in 0..Len(s)}
           items == IterItems(case)
           seen == iter.seen
           next == Len(seen) + 1
           from == From(seen, next)
<1>1. UNCHANGED case /\ iter.phase # "idle" BY IterReturns
<1>3. /\ seen \in Seq(T) /\ from \in 0..Len(s) /\ iter.src = from /\ iter.last = IF seen = <<>> THEN -1 ELSE from
      /\ \A k \in DOMAIN seen : NextMatch(case, items, seen, k)
  BY <1>1 DEF SeenInv, Seen, s, p
<1>4. Len(s) \in Nat /\ Len(seen) \in Nat BY <1>3, MatchAssumption DEF s, StrInv
<1>5. \A i \in from..Len(s) : Fits(case, items, seen, i, next) => i \in Hits
  BY <1>1, <1>3, HitsFit
<1>6. iter = [phase |-> iter.phase, src |-> iter.src, last |-> iter.last, seen |-> seen] BY IterReturns
<1>7. ASSUME NEW phase \in {"on", "end", "error"}, NEW src, NEW last, NEW sn,
             iter' = [phase |-> phase, src |-> src, last |-> last, seen |-> sn],
             Seen(case, phase, src, last, sn)
      PROVE  SeenInv'
  <2>1. iter'.phase = phase /\ iter'.src = src /\ iter'.last = last /\ iter'.seen = sn BY <1>7
  <2>2. Seen(case', iter'.phase, iter'.src, iter'.last, iter'.seen) BY <2>1, <1>1, <1>7
  <2> QED BY <2>2 DEF SeenInv
<1>8. CASE Hits = {} /\ iter' = [iter EXCEPT !.phase = "end"]
  <2>1. iter' = [phase |-> "end", src |-> iter.src, last |-> iter.last, seen |-> seen] BY <1>6, <1>8
  <2>2. \A i \in from..Len(s) : ~Fits(case, items, seen, i, next) BY <1>5, <1>8, Zenon
  <2>3. Seen(case, "end", iter.src, iter.last, seen) BY <1>3, <2>2, Zenon DEF Seen, s, p
  <2> QED BY <2>1, <2>3, <1>7
<1>9. Hits # {} => /\ Min(Hits) \in 0..Len(s)
                   /\ Hit.r = Intended(items, s, Min(Hits)).r
                   /\ Hit.r = "yes" => Hit.caps = Intended(items, s, Min(Hits)).caps /\ Hit.caps \in Seq([a : Int, b : Int])
  <2> DEFINE j == Min(Hits)
  <2>1. Hits # {} => j \in from..Len(s) BY <1>3, IterReturns DEF Hits
  <2>2. Hits # {} => j \in 0..Len(s)
    <3> HIDE DEF j, from
    <3> QED BY <2>1, <1>3, <1>4
  <2> HIDE DEF j
  <2>3. Hits # {} => LET m == Matcher(s, p, j)
                         n == Intended(items, s, j)
                     IN n.r = m.r /\ (m.r = "yes" => m.caps = n.caps /\ m.caps \in Seq([a : Int, b : Int]))
    BY <2>2, Zenon DEF IterAgrees, Agrees, StrInv, s, p
  <2> QED BY <2>2, <2>3, Zenon DEF Hit, j
<1>10. CASE Hits # {} /\ Hit.r = "panic" /\ iter' = [iter EXCEPT !.phase = "error"]
  <2>1. iter' = [phase |-> "error", src |-> iter.src, last |-> iter.last, seen |-> seen] BY <1>6, <1>10
  <2>2. Bad(Intended(items, s, Min(Hits))) /\ Min(Hits) \in 0..Len(s)
    <3> DEFINE n == Intended(items, s, Min(Hits))
    <3>1. n.r = "panic" /\ Min(Hits) \in 0..Len(s) BY <1>9, <1>10
    <3> HIDE DEF n
    <3>2. Bad(n) BY <3>1 DEF Bad
    <3> QED BY <3>1, <3>2 DEF n
  <2>3. Seen(case, "error", iter.src, iter.last, seen) BY <1>3, <2>2, Zenon DEF Seen, s, p
  <2> QED BY <2>1, <2>3, <1>7
<1>11. CASE /\ Hits # {} /\ Hit.r = "yes" /\ Hit.end \in Min(Hits)..Len(s) /\ Hit.end # iter.last
            /\ iter' = [phase |-> IF error \in ToSet(PushCaptures(Hit)) THEN "error" ELSE "on",
                        src |-> Hit.end, last |-> Hit.end, seen |-> Append(seen, Hit)]
  <2> DEFINE ph == IF error \in ToSet(PushCaptures(Hit)) THEN "error" ELSE "on"
             j == Min(Hits)
             e == Hit.end
             new == Append(seen, Hit)
             n == Intended(items, s, j)
  <2>1. j \in Hits /\ \A i \in Hits : j <= i BY <1>11, IterReturns
  <2>2. j \in from..Len(s) BY <2>1, <1>3 DEF Hits
  <2>3. Hit.start = j /\ e = n.end /\ Hit.caps = n.caps /\ Fits(case, items, seen, j, next)
    BY <2>2, <1>1, <1>3, <1>11, HitsFit DEF Hit
  <2>4. \A i \in from..(j - 1) : ~Fits(case, items, seen, i, next)
    <3> SUFFICES ASSUME NEW i \in from..(j - 1) PROVE ~Fits(case, items, seen, i, next) OBVIOUS
    <3> HIDE DEF j, from
    <3>1. i \in from..Len(s) /\ ~(j <= i) BY <2>2, <1>3, <1>4
    <3> QED BY <3>1, <2>1, <1>5, Zenon
  <2>5. e \in 0..Len(s)
    <3> HIDE DEF j, from
    <3> QED BY <2>2, <1>3, <1>4, <1>11 DEF j
  <2>6. Scan(items, new, e)
    <3>1. Hit.start >= from
      <4> HIDE DEF j, from
      <4> QED BY <2>2, <2>3, <1>3, <1>4
    <3>2. e \in Int BY <2>5, <1>4
    <3> HIDE DEF T, items
    <3> QED BY <3>1, <3>2, <2>3, <2>4, <1>3, ScanGoesOn
  <2>7. \A k \in DOMAIN new : NextMatch(case, items, new, k) BY <2>6, ScanSays, Zenon
  <2>8. Hit \in T
    <3>1. j \in 0..Len(s)
      <4> HIDE DEF j, from
      <4> QED BY <2>2, <1>3, <1>4
    <3> QED BY <3>1, Zenon DEF Hit
  <2>9. new \in Seq(T) /\ new # <<>> /\ From(new, Len(new) + 1) = e
    <3> HIDE DEF T
    <3>1. new \in Seq(T) /\ Len(new) = Len(seen) + 1 /\ new[Len(seen) + 1] = Hit BY <1>3, <2>8
    <3>2. new # <<>> BY <3>1, <1>4
    <3> HIDE DEF new
    <3> QED BY <3>1, <3>2, <1>4 DEF From
  <2>10. ph = "error" => \E i \in 0..Len(s) : Bad(Intended(items, s, i))
    <3>1. Min(Hits) \in 0..Len(s) /\ Hit.caps = n.caps /\ Hit.caps \in Seq([a : Int, b : Int]) BY <1>9, <1>11
    <3>2. ph = "error" => \E i \in DOMAIN Hit.caps : Unfinished(Hit.caps[i]) BY <3>1, CapturesRaise
    <3> HIDE DEF n
    <3>3. ph = "error" => Bad(n) BY <3>1, <3>2, Zenon DEF Bad
    <3> QED BY <3>1, <3>3, Zenon DEF n
  <2>11. ph \in {"on", "error"} OBVIOUS
  <2> HIDE DEF ph
  <2>12. Seen(case, ph, e, e, new)
    <3> HIDE DEF new
    <3> QED BY <2>5, <2>7, <2>9, <2>10, <2>11, Zenon DEF Seen, s, p
  <2>13. iter' = [phase |-> ph, src |-> e, last |-> e, seen |-> new] BY <1>11 DEF ph
  <2> HIDE DEF e, new
  <2> QED BY <2>11, <2>12, <2>13, <1>7
<1> QED BY <1>8, <1>9, <1>10, <1>11, IterReturns

LEMMA SeenSteps ==
  ASSUME IterAgrees, StrInv, SeenInv, [Next]_vars
  PROVE  SeenInv'
<1>1. CASE gmatch_iter BY <1>1, SeenStep
<1>2. CASE str_gmatch
  <2>1. UNCHANGED case /\ iter' = [phase |-> "on", src |-> 0, last |-> -1, seen |-> <<>>]
    BY <1>2 DEF str_gmatch, npos
  <2>2. /\ iter'.phase = "on" /\ iter'.src = 0 /\ iter'.last = -1 /\ iter'.seen = <<>> BY <2>1
  <2>3. Seen(case, "on", 0, -1, <<>>)
    <3>1. Len(s) \in Nat BY MatchAssumption DEF s, StrInv
    <3>2. Len(<<>>) = 0 /\ DOMAIN <<>> = {} OBVIOUS
    <3>3. From(<<>>, Len(<<>>) + 1) = 0 BY <3>2 DEF From
    <3>4. <<>> \in Seq({Matcher(case.s, case.p, i) : i \in 0..Len(case.s)}) OBVIOUS
    <3> QED BY <3>1, <3>2, <3>3, <3>4 DEF Seen, s
  <2>4. Seen(case', iter'.phase, iter'.src, iter'.last, iter'.seen) BY <2>1, <2>2, <2>3
  <2> QED BY <2>4 DEF SeenInv
<1>3. CASE UNCHANGED <<case, iter>> BY <1>3 DEF SeenInv
<1>4. \/ gmatch_iter \/ str_gmatch \/ UNCHANGED <<case, iter>>
  BY DEF Next, Find, str_find, MatchCall, str_match, GsubCall, str_gsub, GsubIteration, GsubResume, GsubReturn,
         GsubEnd, vars
<1> QED BY <1>1, <1>2, <1>3, <1>4

\* An iterator made by gmatch comes to the matches of one scan of the subject from
\* the left, all of them before its nil, whatever calls of it the callbacks of a
\* running gsub make and whatever errors it has raised before, for every matcher that agrees with what the pattern means
\* place by place (gmatch_iter).
THEOREM GmatchCorrect ==
  ASSUME IterAgrees
  PROVE  Spec => []GmatchReturnsScan
<1>1. Init => StrInv /\ SeenInv BY DEF Init, StrInv, GsubTyped, IterTyped, SeenInv, Idle
<1>2. StrInv /\ SeenInv /\ [Next]_vars => (StrInv /\ SeenInv)' BY StrSteps, SeenSteps
<1>3. StrInv /\ SeenInv => GmatchReturnsScan BY SeenIsScan
<1> QED BY <1>1, <1>2, <1>3, PTL DEF Spec
-----------------------------------------------------------------------------
(* Flattening a sequence of sequences, one more at a time.  g gives what the*)
(* first i of them make together.                                          *)
Joins(g, seqs) == g = [i \in 1..Len(seqs) |-> IF i = 1 THEN seqs[i] ELSE g[i - 1] \o seqs[i]]

(* There is one ...                                                        *)
LEMMA JoinsExist ==
  ASSUME NEW seqs, Len(seqs) \in Nat
  PROVE  \E g : Joins(g, seqs)
<1> DEFINE n == Len(seqs)
           Has(k) == \E g : g = [i \in 1..k |-> IF i = 1 THEN seqs[i] ELSE g[i - 1] \o seqs[i]]
           S == {k \in Nat : ~Has(k)}
<1>1. Has(0)
  <2>1. <<>> = [i \in 1..0 |-> IF i = 1 THEN seqs[i] ELSE <<>>[i - 1] \o seqs[i]] OBVIOUS
  <2> QED BY <2>1
<1>2. ASSUME NEW k \in Nat, Has(k) PROVE Has(k + 1)
  <2>1. PICK g : g = [i \in 1..k |-> IF i = 1 THEN seqs[i] ELSE g[i - 1] \o seqs[i]] BY <1>2
  <2> DEFINE h == [i \in 1..(k + 1) |-> IF i <= k THEN g[i] ELSE IF i = 1 THEN seqs[i] ELSE g[i - 1] \o seqs[i]]
             t == [i \in 1..(k + 1) |-> IF i = 1 THEN seqs[i] ELSE h[i - 1] \o seqs[i]]
  <2>2. \A i \in 1..(k + 1) : h[i] = t[i]
    <3> SUFFICES ASSUME NEW i \in 1..(k + 1) PROVE h[i] = t[i] OBVIOUS
    <3>1. CASE i = 1
      <4>1. h[i] = seqs[i]
        <5>1. CASE i <= k
          <6>1. i \in 1..k BY <5>1, <3>1
          <6>2. g[i] = seqs[i] BY <2>1, <6>1, <3>1
          <6> QED BY <5>1, <6>2
        <5>2. CASE ~(i <= k) BY <5>2, <3>1
        <5> QED BY <5>1, <5>2
      <4> QED BY <4>1, <3>1
    <3>2. CASE i # 1
      <4>0. i - 1 \in 1..k /\ i - 1 \in 1..(k + 1) BY <3>2
      <4>1. h[i - 1] = g[i - 1] BY <4>0
      <4>2. h[i] = g[i - 1] \o seqs[i]
        <5>1. CASE i <= k
          <6>1. i \in 1..k BY <5>1
          <6>2. g[i] = g[i - 1] \o seqs[i] BY <2>1, <6>1, <3>2
          <6> QED BY <5>1, <6>2
        <5>2. CASE ~(i <= k) BY <5>2, <3>2
        <5> QED BY <5>1, <5>2
      <4>3. t[i] = h[i - 1] \o seqs[i] BY <3>2
      <4> HIDE DEF h, t
      <4> QED BY <4>1, <4>2, <4>3
    <3> QED BY <3>1, <3>2
  <2>3. h = t
    <3>1. DOMAIN h = 1..(k + 1) /\ DOMAIN t = 1..(k + 1) /\ h = [i \in 1..(k + 1) |-> h[i]] /\ t = [i \in 1..(k + 1) |-> t[i]] OBVIOUS
    <3> HIDE DEF h, t
    <3> QED BY <2>2, <3>1
  <2> HIDE DEF h
  <2> QED BY <2>3
<1>3. n \in Nat OBVIOUS
<1> HIDE DEF Has, n
<1>4. ASSUME ~Has(n) PROVE FALSE
  <2>1. S \subseteq Nat /\ S # {} BY <1>3, <1>4
  <2>2. PICK k \in S : \A j \in S : k <= j BY <2>1, LeastNat, Zenon
  <2>3. k # 0 /\ k \in Nat BY <2>2, <1>1
  <2>4. Has(k - 1) BY <2>2, <2>3
  <2>5. Has(k - 1 + 1) BY <2>3, <2>4, <1>2
  <2> QED BY <2>2, <2>3, <2>5
<1> QED BY <1>4 DEF Has, n, Joins

(* ... and only one ...                                                    *)
LEMMA JoinsAgree ==
  ASSUME NEW n \in Nat, NEW g, NEW h, NEW seqs, NEW more, Joins(g, seqs), Joins(h, more),
         Len(seqs) = n, Len(more) \in Nat, n <= Len(more), \A i \in 1..n : seqs[i] = more[i]
  PROVE  \A i \in 1..n : g[i] = h[i]
<1> DEFINE S == {i \in 1..n : g[i] # h[i]}
<1>1. SUFFICES ASSUME S # {} PROVE FALSE OBVIOUS
<1>2. PICK i \in S : \A j \in S : i <= j
  <2>1. S \subseteq Nat OBVIOUS
  <2> QED BY <2>1, <1>1, LeastNat, Zenon
<1>3. i \in 1..n /\ i \in 1..Len(more) /\ seqs[i] = more[i] OBVIOUS
<1>4. g[i] = (IF i = 1 THEN seqs[i] ELSE g[i - 1] \o seqs[i]) BY <1>3 DEF Joins
<1>5. h[i] = (IF i = 1 THEN more[i] ELSE h[i - 1] \o more[i]) BY <1>3 DEF Joins
<1>6. CASE i = 1 BY <1>3, <1>4, <1>5, <1>6
<1>7. CASE i # 1
  <2>1. i - 1 \in 1..n /\ ~(i <= i - 1) BY <1>3, <1>7
  <2>2. g[i - 1] = h[i - 1] BY <2>1, <1>2
  <2> QED BY <2>2, <1>3, <1>4, <1>5, <1>7
<1> QED BY <1>6, <1>7

(* ... and the last of it is what FlattenSeq returns.                      *)
LEMMA FlattenJoins ==
  ASSUME NEW seqs, Len(seqs) \in Nat, Len(seqs) # 0
  PROVE  \E g : Joins(g, seqs) /\ FlattenSeq(seqs) = g[Len(seqs)]
<1> DEFINE f == CHOOSE g : Joins(g, seqs)
<1>1. Joins(f, seqs) BY JoinsExist
<1>2. FlattenSeq(seqs) = f[Len(seqs)] BY Zenon DEF FlattenSeq, Joins
<1> QED BY <1>1, <1>2

(* The text of the parts so far goes before the next part.                 *)
LEMMA FlattenAppend ==
  ASSUME NEW T, NEW seqs \in Seq(Seq(T)), NEW x \in Seq(T)
  PROVE  /\ FlattenSeq(<<>>) = <<>>
         /\ FlattenSeq(seqs) \in Seq(T)
         /\ FlattenSeq(Append(seqs, x)) = FlattenSeq(seqs) \o x
<1> DEFINE n == Len(seqs)
           more == Append(seqs, x)
<1>0. n \in Nat /\ Len(more) = n + 1 /\ more[n + 1] = x /\ \A i \in 1..n : seqs[i] = more[i] OBVIOUS
<1>1. FlattenSeq(<<>>) = <<>> BY DEF FlattenSeq
<1>2. PICK h : Joins(h, more) /\ FlattenSeq(more) = h[n + 1]
  <2>1. Len(more) \in Nat /\ Len(more) # 0 BY <1>0
  <2> HIDE DEF more
  <2> QED BY <2>1, <1>0, FlattenJoins
<1>3. n + 1 \in 1..Len(more) BY <1>0
<1>4. \A i \in 1..Len(more) : h[i] = IF i = 1 THEN more[i] ELSE h[i - 1] \o more[i]
  <2> HIDE DEF more
  <2> QED BY <1>2 DEF Joins
<1>5. CASE n = 0
  <2>1. seqs = <<>> BY <1>5
  <2>2. FlattenSeq(seqs) = <<>> BY <2>1, <1>1
  <2>3. FlattenSeq(more) = x BY <1>0, <1>2, <1>3, <1>4, <1>5
  <2>4. <<>> \o x = x OBVIOUS
  <2>5. <<>> \in Seq(T) OBVIOUS
  <2> QED BY <2>2, <2>3, <2>4, <2>5, <1>1
<1>6. CASE n # 0
  <2>1. PICK g : Joins(g, seqs) /\ FlattenSeq(seqs) = g[n] BY <1>0, <1>6, FlattenJoins
  <2>2. \A i \in 1..n : g[i] = h[i]
    <3>1. Len(seqs) = n /\ n <= Len(more) /\ Len(more) \in Nat BY <1>0
    <3> HIDE DEF more, n
    <3> QED BY <3>1, <2>1, <1>0, <1>2, JoinsAgree
  <2>3. FlattenSeq(more) = g[n] \o x
    <3>1. n \in 1..n /\ n + 1 # 1 /\ n + 1 - 1 = n BY <1>0, <1>6
    <3>2. PICK k \in 1..Len(more) : k = n + 1 BY <1>3
    <3>3. h[k] = h[k - 1] \o more[k] BY <3>1, <3>2, <1>4
    <3>4. k - 1 = n BY <3>1, <3>2
    <3> HIDE DEF more, n
    <3> QED BY <3>1, <3>2, <3>3, <3>4, <2>2, <1>0, <1>2
  <2>4. \A i \in 1..n : g[i] \in Seq(T)
    <3> DEFINE S == {i \in 1..n : g[i] \notin Seq(T)}
    <3> SUFFICES ASSUME S # {} PROVE FALSE OBVIOUS
    <3>1. PICK i \in S : \A j \in S : i <= j
      <4>1. S \subseteq Nat BY <1>0
      <4> QED BY <4>1, LeastNat, Zenon
    <3>2. i \in 1..n /\ seqs[i] \in Seq(T) OBVIOUS
    <3>3. g[i] = (IF i = 1 THEN seqs[i] ELSE g[i - 1] \o seqs[i]) BY <3>2, <2>1 DEF Joins
    <3>4. CASE i = 1 BY <3>1, <3>2, <3>3, <3>4
    <3>5. CASE i # 1
      <4>1. i - 1 \in 1..n /\ ~(i <= i - 1) BY <3>2, <3>5
      <4>2. g[i - 1] \in Seq(T) BY <3>1, <4>1
      <4>3. g[i - 1] \o seqs[i] \in Seq(T) BY <4>2, <3>2
      <4> QED BY <3>1, <3>3, <3>5, <4>3
    <3> QED BY <3>4, <3>5
  <2>5. g[n] \in Seq(T) BY <2>4, <1>0, <1>6
  <2> QED BY <2>1, <2>3, <2>5, <1>1
<1> QED BY <1>5, <1>6

-----------------------------------------------------------------------------
(* Replacement strings.  A character is a string, and not the word that marks*)
(* an error.  (The literals are strings, which the provers do not know.)   *)
Letters == STRING \cup {"%", "0", "1", "2", "3", "4", "5", "6", "7", "8", "9"}
Chars == Letters \ {"error"}

(* A replacement string writes its items: % doubled, a capture as % and its*)
(* number, another character as it is.                                     *)
Digit(n) == <<"0", "1", "2", "3", "4", "5", "6", "7", "8", "9">>[n + 1]
ItemSet == ({"lit"} \X Chars) \cup ({"cap"} \X (0..9))
Spelled(it) == CASE it[1] = "cap" -> <<"%", Digit(it[2])>>
                 [] it[1] = "lit" /\ it[2] = "%" -> <<"%", "%">>
                 [] OTHER -> <<it[2]>>

(* What an item gives for a match; an error for a capture the match has not.*)
ItemText(m, it) ==
  CASE it[1] = "lit" -> <<it[2]>>
    [] it[1] = "cap" /\ (it[2] = 0 \/ (it[2] = 1 /\ m.caps = <<>>)) -> Slice(m.start, m.end)
    [] it[1] = "cap" /\ it[2] \in DOMAIN m.caps ->
         IF Unfinished(m.caps[it[2]]) THEN error ELSE capture_string(m.caps[it[2]])
    [] OTHER -> error

(* The numbers gsub_expand_repl reads.                                     *)
LEMMA DigitRead ==
  ASSUME NEW n \in 0..9
  PROVE  /\ NumberText(n) = <<Digit(n)>> /\ Digit(n) \in Chars /\ Digit(n) # "%"
         /\ Digit(n) \in DOMAIN Digits /\ Digits[Digit(n)] = n
<1>1. NumberText(n) = <<Digit(n)>> BY DEF NumberText, Digit
<1>2. Digit(n) \in {"0", "1", "2", "3", "4", "5", "6", "7", "8", "9"}
  <2>1. n = 0 \/ n = 1 \/ n = 2 \/ n = 3 \/ n = 4 \/ n = 5 \/ n = 6 \/ n = 7 \/ n = 8 \/ n = 9 OBVIOUS
  <2> QED BY <2>1 DEF Digit
<1>3. \A k, l \in 0..9 : NumberText(k) = NumberText(l) => k = l
  <2> DEFINE texts == <<"0", "1", "2", "3", "4", "5", "6", "7", "8", "9">>
  <2> SUFFICES ASSUME NEW k \in 0..9, NEW l \in 0..9, NumberText(k) = NumberText(l) PROVE k = l OBVIOUS
  <2>1. texts[k + 1] = texts[l + 1] BY DEF NumberText
  <2>2. k = 0 \/ k = 1 \/ k = 2 \/ k = 3 \/ k = 4 \/ k = 5 \/ k = 6 \/ k = 7 \/ k = 8 \/ k = 9 OBVIOUS
  <2>3. l = 0 \/ l = 1 \/ l = 2 \/ l = 3 \/ l = 4 \/ l = 5 \/ l = 6 \/ l = 7 \/ l = 8 \/ l = 9 OBVIOUS
  <2> QED BY <2>1, <2>2, <2>3
<1>4. Digit(n) \in DOMAIN Digits BY <1>2 DEF Digits
<1>5. Digits[Digit(n)] = n
  <2> DEFINE c == Digit(n)
             w == CHOOSE k \in 0..9 : NumberText(k) = <<c>>
  <2>1. Digits[c] = w BY <1>2 DEF Digits
  <2>2. w \in 0..9 /\ NumberText(w) = <<c>> BY <1>1
  <2> HIDE DEF w
  <2> QED BY <2>1, <2>2, <1>1, <1>3
<1>6. \A c \in {"0", "1", "2", "3", "4", "5", "6", "7", "8", "9"} : c \in Chars /\ c # "%" BY DEF Chars, Letters
<1>7. Digit(n) \in Chars /\ Digit(n) # "%" BY <1>2, <1>6
<1> QED BY <1>1, <1>4, <1>5, <1>7

(* repl[i] is the % of an escape when it is an odd one of its run ...      *)
Run(repl, k, i) == (\A j \in (k + 1)..i : repl[j] = "%") /\ (k = 0 \/ repl[k] # "%")
Escape(repl, i) == repl[i] = "%" /\ \E k \in 0..i : (i - k) % 2 = 1 /\ Run(repl, k, i)

(* Every position ends one run of % characters, maybe an empty one ...     *)
LEMMA RunExists ==
  ASSUME NEW repl, NEW i \in Nat
  PROVE  \E k \in 0..i : Run(repl, k, i)
<1> DEFINE S == {d \in 0..i : i - d = 0 \/ repl[i - d] # "%"}
<1>1. S \subseteq Nat /\ i \in S OBVIOUS
<1>2. PICK d \in S : \A e \in S : d <= e
  <2> HIDE DEF S
  <2> QED BY <1>1, LeastNat
<1>3. d \in 0..i /\ (i - d = 0 \/ repl[i - d] # "%") OBVIOUS
<1>4. ASSUME NEW j \in (i - d + 1)..i PROVE repl[j] = "%"
  <2>1. i - j \in 0..i /\ i - j < d /\ i - (i - j) = j /\ j # 0 BY <1>3
  <2>2. i - j \notin S BY <2>1, <1>2, <1>3
  <2> QED BY <2>1, <2>2
<1>5. Run(repl, i - d, i) /\ i - d \in 0..i BY <1>3, <1>4 DEF Run
<1> QED BY <1>5

(* ... and only one.                                                       *)
LEMMA RunUnique ==
  ASSUME NEW repl, NEW i \in Nat, NEW k \in 0..i, NEW l \in 0..i, Run(repl, k, i), Run(repl, l, i)
  PROVE  k = l
<1>1. ASSUME k < l PROVE FALSE BY <1>1 DEF Run
<1>2. ASSUME l < k PROVE FALSE BY <1>2 DEF Run
<1> QED BY <1>1, <1>2

(* ... which is to say that the character before it is not.                *)
LEMMA EscapeAlternates ==
  ASSUME NEW repl, NEW i \in Nat \ {0}
  PROVE  Escape(repl, i) <=> repl[i] = "%" /\ ~(i > 1 /\ Escape(repl, i - 1))
<1> SUFFICES ASSUME repl[i] = "%" PROVE Escape(repl, i) <=> ~(i > 1 /\ Escape(repl, i - 1)) BY DEF Escape
<1>1. PICK k \in 0..i : Run(repl, k, i) BY RunExists
<1>2. Escape(repl, i) <=> (i - k) % 2 = 1 BY <1>1, RunUnique DEF Escape
<1>3. k \in 0..(i - 1) BY <1>1 DEF Run
<1>4. Run(repl, k, i - 1) BY <1>1, <1>3 DEF Run
<1>5. CASE i = 1 BY <1>2, <1>3, <1>5
<1>6. CASE i > 1 /\ repl[i - 1] # "%"
  <2>1. k = i - 1 BY <1>3, <1>4, <1>6 DEF Run
  <2> QED BY <2>1, <1>2, <1>6 DEF Escape
<1>7. CASE i > 1 /\ repl[i - 1] = "%"
  <2>1. Escape(repl, i - 1) <=> (i - 1 - k) % 2 = 1
    <3>1. i - 1 \in Nat BY <1>7
    <3> QED BY <3>1, <1>3, <1>4, <1>7, RunUnique DEF Escape
  <2>2. (i - k) % 2 = 1 <=> ~((i - 1 - k) % 2 = 1) BY <1>3
  <2> QED BY <2>1, <2>2, <1>2, <1>7
<1> QED BY <1>5, <1>6, <1>7

(* What gsub_expand_repl puts at a position of the replacement string.     *)
PieceOf(repl, m, i) ==
  CASE Escape(repl, i) -> IF i = Len(repl) THEN error ELSE Expansion(m, repl[i + 1])
    [] ~Escape(repl, i) /\ i > 1 /\ Escape(repl, i - 1) -> <<>>
    [] OTHER -> <<repl[i]>>
PiecesOf(repl, m) == [i \in 1..Len(repl) |-> PieceOf(repl, m, i)]

(* gsub_expand_repl puts these pieces one after the other, or fails.       *)
LEMMA ExpandSays ==
  ASSUME NEW T, NEW repl \in Seq(T), NEW m
  PROVE  gsub_expand_repl(repl, m) =
           IF \E i \in 1..Len(repl) : PieceOf(repl, m, i) = error THEN error ELSE FlattenSeq(PiecesOf(repl, m))
<1> DEFINE escape == [i \in DOMAIN repl |-> \* the definition's own LET
                   repl[i] = "%" /\ \E k \in 0..i : /\ (i - k) % 2 = 1
                                                    /\ \A j \in (k + 1)..i : repl[j] = "%"
                                                    /\ (k = 0 \/ repl[k] # "%")]
           piece == [i \in DOMAIN repl |->
                  CASE escape[i] -> IF i = Len(repl) THEN error ELSE Expansion(m, repl[i + 1])
                    [] ~escape[i] /\ i > 1 /\ escape[i - 1] -> <<>>
                    [] OTHER -> <<repl[i]>>]
<1>1. gsub_expand_repl(repl, m) = IF error \in {piece[i] : i \in DOMAIN repl} THEN error ELSE FlattenSeq(piece)
  BY Zenon DEF gsub_expand_repl
<1>2. DOMAIN repl = 1..Len(repl) /\ Len(repl) \in Nat OBVIOUS
<1>3. \A i \in DOMAIN repl : escape[i] = Escape(repl, i)
  BY Zenon DEF Escape, Run
<1> HIDE DEF escape
<1>4. \A i \in DOMAIN repl : piece[i] = PieceOf(repl, m, i)
  <2> SUFFICES ASSUME NEW i \in DOMAIN repl PROVE piece[i] = PieceOf(repl, m, i) OBVIOUS
  <2>1. i > 1 => i - 1 \in DOMAIN repl BY <1>2
  <2>2. escape[i] = Escape(repl, i) /\ (i > 1 => escape[i - 1] = Escape(repl, i - 1)) BY <1>3, <2>1
  <2>3. piece[i] = CASE escape[i] -> IF i = Len(repl) THEN error ELSE Expansion(m, repl[i + 1])
                    [] ~escape[i] /\ i > 1 /\ escape[i - 1] -> <<>>
                    [] OTHER -> <<repl[i]>>
    OBVIOUS
  <2> QED BY <2>2, <2>3 DEF PieceOf
<1>5. piece = PiecesOf(repl, m)
  <2>1. piece = [i \in DOMAIN repl |-> piece[i]] OBVIOUS
  <2> HIDE DEF piece
  <2> QED BY <2>1, <1>2, <1>4 DEF PiecesOf
<1>6. error \in {piece[i] : i \in DOMAIN repl} <=> \E i \in 1..Len(repl) : PieceOf(repl, m, i) = error
  <2> HIDE DEF piece
  <2> QED BY <1>2, <1>4
<1> HIDE DEF piece
<1> QED BY <1>1, <1>5, <1>6

(* The subject is made of characters.  A match and its captures lie inside it,*)
(* and the place of a position capture is a number that can be written.    *)
Characters(c) == c.s \in Seq(Chars)
Inside(text, m) ==
  /\ m.start \in 0..Len(text) /\ m.end \in 0..Len(text) /\ m.caps \in Seq([a : Int, b : Int])
  /\ \A k \in DOMAIN m.caps :
       LET c == m.caps[k] IN \/ c.b = -1
                             \/ c.b = -2 /\ NumberText(c.a + 1) \in Seq(Chars)
                             \/ c.a \in 0..Len(text) /\ c.b \in 0..Len(text)

(* So are the pieces of the subject ...                                    *)
LEMMA SliceTyped ==
  ASSUME NEW T, s \in Seq(T), NEW i \in 0..Len(s), NEW j \in 0..Len(s)
  PROVE  Slice(i, j) \in Seq(T)
<1>1. Len(s) \in Nat /\ i + 1 \in Int /\ j \in Int /\ \A k \in (i + 1)..j : s[k] \in T OBVIOUS
<1> QED BY <1>1, SubSeqProperties DEF Slice

(* ... and the captures that were closed; the error is no text.            *)
LEMMA ErrorIsNoText == error \notin Seq(Chars)
<1> SUFFICES ASSUME error \in Seq(Chars) PROVE FALSE OBVIOUS
<1>1. error[1] \in Chars /\ error[1] = "error" BY DEF error
<1> QED BY <1>1 DEF Chars

(* A capture that was closed is made of characters too.                    *)
LEMMA CaptureTyped ==
  ASSUME Characters(case), NEW m, Inside(s, m), NEW n \in DOMAIN m.caps, ~Unfinished(m.caps[n])
  PROVE  capture_string(m.caps[n]) \in Seq(Chars)
<1> DEFINE c == m.caps[n]
<1>1. s \in Seq(Chars) BY DEF Characters, s
<1>2. c.b = -1 \/ (c.b = -2 /\ NumberText(c.a + 1) \in Seq(Chars)) \/ (c.a \in 0..Len(s) /\ c.b \in 0..Len(s))
  BY Zenon DEF Inside
<1>3. c.b # -1 BY DEF Unfinished
<1> HIDE DEF c
<1>4. CASE c.b = -2
  <2>1. capture_string(c) = NumberText(c.a + 1) BY <1>4 DEF capture_string
  <2>2. ~(c.b \in 0..Len(s)) BY <1>1, <1>4
  <2> QED BY <2>1, <2>2, <1>2, <1>4 DEF c
<1>5. CASE c.b # -2
  <2>1. capture_string(c) = Slice(c.a, c.b) BY <1>5 DEF capture_string
  <2> QED BY <2>1, <1>1, <1>2, <1>3, <1>5, SliceTyped DEF c
<1> QED BY <1>4, <1>5

(* So is what an item gives, unless it fails.                              *)
LEMMA ItemTextTyped ==
  ASSUME Characters(case), NEW m, Inside(s, m), NEW it \in ItemSet
  PROVE  ItemText(m, it) = error \/ ItemText(m, it) \in Seq(Chars)
<1>1. s \in Seq(Chars) BY DEF Characters, s
<1>2. Slice(m.start, m.end) \in Seq(Chars) BY <1>1, SliceTyped DEF Inside
<1>3. ASSUME NEW n \in DOMAIN m.caps, ~Unfinished(m.caps[n])
      PROVE  capture_string(m.caps[n]) \in Seq(Chars)
  BY <1>3, CaptureTyped
<1>4. CASE it \in {"lit"} \X Chars
  <2>1. it[1] = "lit" /\ it[2] \in Chars BY <1>4
  <2>2. ItemText(m, it) = <<it[2]>> BY <2>1 DEF ItemText
  <2>3. <<it[2]>> \in Seq(Chars) BY <2>1
  <2> QED BY <2>2, <2>3
<1>5. CASE it \in {"cap"} \X (0..9)
  <2>1. it[1] = "cap" BY <1>5
  <2>2. \/ ItemText(m, it) = Slice(m.start, m.end) \/ ItemText(m, it) = error
        \/ it[2] \in DOMAIN m.caps /\ ~Unfinished(m.caps[it[2]]) /\ ItemText(m, it) = capture_string(m.caps[it[2]])
    BY <2>1 DEF ItemText
  <2> QED BY <2>2, <1>2, <1>3
<1> QED BY <1>4, <1>5 DEF ItemSet

(* % with the number of a capture stands for that item.                    *)
LEMMA CaptureExpands ==
  ASSUME NEW m, m.caps \in Seq([a : Int, b : Int]), NEW n \in 0..9
  PROVE  Expansion(m, Digit(n)) = ItemText(m, <<"cap", n>>)
<1> DEFINE c == Digit(n)
           it == <<"cap", n>>
           whole == Slice(m.start, m.end)
           cap == IF Unfinished(m.caps[n]) THEN error ELSE capture_string(m.caps[n])
           read == CASE n = 0 \/ (n = 1 /\ m.caps = <<>>) -> whole
                     [] n \in DOMAIN m.caps -> cap
                     [] OTHER -> error
<1>1. c # "%" /\ c \in DOMAIN Digits /\ Digits[c] = n BY DigitRead
<1>2. Expansion(m, c) = read
  <2>1. Expansion(m, c) = CASE c = "%" -> <<"%">>
                            [] c \in DOMAIN Digits ->
                                 (CASE Digits[c] = 0 \/ (Digits[c] = 1 /\ m.caps = <<>>) -> whole
                                    [] Digits[c] \in DOMAIN m.caps ->
                                         IF Unfinished(m.caps[Digits[c]]) THEN error
                                         ELSE capture_string(m.caps[Digits[c]])
                                    [] OTHER -> error)
                            [] OTHER -> error
    BY Zenon DEF Expansion
  <2> HIDE DEF c, whole
  <2> QED BY <2>1, <1>1
<1>3. ItemText(m, it) = CASE n = 0 \/ (n = 1 /\ m.caps = <<>>) -> whole
                          [] n \in DOMAIN m.caps -> cap
                          [] OTHER -> error
  <2>1. it[1] = "cap" /\ it[1] # "lit" /\ it[2] = n OBVIOUS
  <2>2. ItemText(m, it) =
          CASE it[1] = "lit" -> <<it[2]>>
            [] it[1] = "cap" /\ (it[2] = 0 \/ (it[2] = 1 /\ m.caps = <<>>)) -> whole
            [] it[1] = "cap" /\ it[2] \in DOMAIN m.caps ->
                 IF Unfinished(m.caps[it[2]]) THEN error ELSE capture_string(m.caps[it[2]])
            [] OTHER -> error
    BY Zenon DEF ItemText
  <2> HIDE DEF it, whole
  <2> QED BY <2>1, <2>2
<1> HIDE DEF cap, whole
<1> QED BY <1>2, <1>3

(* No escape is left open at the end of a string that writes items.        *)
Balanced(repl) == Len(repl) > 0 => ~Escape(repl, Len(repl))

(* Escapes are told from what comes before them.                           *)
LEMMA EscapeLocal ==
  ASSUME NEW repl, NEW new, NEW i \in Nat \ {0}, \A j \in 1..i : new[j] = repl[j]
  PROVE  Escape(new, i) <=> Escape(repl, i)
<1>1. \A k \in 0..i : Run(new, k, i) <=> Run(repl, k, i) BY DEF Run
<1> QED BY <1>1 DEF Escape

(* A sequence is its first elements with the last one after them.          *)
LEMMA LastOne ==
  ASSUME NEW n \in Nat, NEW G, G = [i \in 1..(n + 1) |-> G[i]]
  PROVE  G = Append([i \in 1..n |-> G[i]], G[n + 1])
<1> DEFINE T == {G[i] : i \in 1..(n + 1)}
           F == [i \in 1..n |-> G[i]]
           H == Append(F, G[n + 1])
<1>1. \A i \in 1..(n + 1) : G[i] \in T OBVIOUS
<1> HIDE DEF T
<1>2. F \in Seq(T) /\ Len(F) = n /\ \A i \in 1..n : F[i] = G[i]
  <2>1. \A i \in 1..n : G[i] \in T BY <1>1
  <2>2. F \in [1..n -> T] BY <2>1
  <2>3. DOMAIN F = 1..n /\ \A i \in 1..n : F[i] = G[i] OBVIOUS
  <2> HIDE DEF F
  <2>4. F \in Seq(T) BY <2>2, SeqDef
  <2>5. Len(F) \in Nat /\ DOMAIN F = 1..Len(F) BY <2>4, LenProperties
  <2>6. Len(F) = n
    <3>1. \A i \in Int : i \in 1..n <=> i \in 1..Len(F) BY <2>3, <2>5
    <3>2. n > 0 => n \in 1..Len(F) BY <3>1
    <3>3. Len(F) > 0 => Len(F) \in 1..n BY <2>5, <3>1
    <3> QED BY <2>5, <3>2, <3>3
  <2> QED BY <2>3, <2>4, <2>6
<1> HIDE DEF F
<1>3. G[n + 1] \in T BY <1>1
<1>4. H \in Seq(T) /\ Len(H) = n + 1 /\ H[n + 1] = G[n + 1] /\ \A i \in 1..n : H[i] = F[i]
  BY <1>2, <1>3
<1> HIDE DEF H
<1>5. H = [i \in 1..(n + 1) |-> H[i]] BY <1>4
<1>6. \A i \in 1..(n + 1) : H[i] = G[i]
  <2> SUFFICES ASSUME NEW i \in 1..(n + 1) PROVE H[i] = G[i] OBVIOUS
  <2>1. CASE i = n + 1 BY <2>1, <1>4
  <2>2. CASE i \in 1..n BY <2>2, <1>2, <1>4
  <2> QED BY <2>1, <2>2
<1>7. H = G BY <1>5, <1>6
<1> QED BY <1>7 DEF H, F

(* A string that starts with repl, which leaves no escape open, puts the same*)
(* for the characters of repl, and an % after it starts an escape.         *)
LEMMA PrefixKept ==
  ASSUME NEW repl \in Seq(Chars), Balanced(repl), NEW m, NEW new \in Seq(Chars), Len(new) > Len(repl),
         \A i \in 1..Len(repl) : new[i] = repl[i]
  PROVE  /\ \A i \in 1..Len(repl) : PieceOf(new, m, i) = PieceOf(repl, m, i)
         /\ Len(repl) > 0 => ~Escape(new, Len(repl))
         /\ Escape(new, Len(repl) + 1) <=> new[Len(repl) + 1] = "%"
<1> DEFINE n == Len(repl)
<1>1. n \in Nat /\ Len(new) \in Nat OBVIOUS
<1>2. \A i \in 1..n : Escape(new, i) <=> Escape(repl, i)
  <2> SUFFICES ASSUME NEW i \in 1..n PROVE Escape(new, i) <=> Escape(repl, i) OBVIOUS
  <2>1. i \in Nat \ {0} /\ \A j \in 1..i : new[j] = repl[j] BY <1>1
  <2> QED BY <2>1, EscapeLocal
<1>3. n > 0 => ~Escape(new, n) BY <1>1, <1>2 DEF Balanced
<1>4. Escape(new, n + 1) <=> new[n + 1] = "%"
  <2> HIDE DEF n
  <2>1. PICK k \in Nat \ {0} : k = n + 1 BY <1>1
  <2>2. k - 1 = n /\ (k > 1 => n > 0) BY <1>1, <2>1
  <2>3. Escape(new, k) <=> new[k] = "%" /\ ~(k > 1 /\ Escape(new, k - 1)) BY EscapeAlternates
  <2>4. Escape(new, k) <=> new[k] = "%" BY <2>2, <2>3, <1>3, Zenon
  <2> QED BY <2>1, <2>4, Zenon
<1>5. \A i \in 1..n : PieceOf(new, m, i) = PieceOf(repl, m, i)
  <2> SUFFICES ASSUME NEW i \in 1..n PROVE PieceOf(new, m, i) = PieceOf(repl, m, i) OBVIOUS
  <2>1. i > 1 => (Escape(new, i - 1) <=> Escape(repl, i - 1)) BY <1>1, <1>2
  <2>2. CASE Escape(repl, i)
    <3>1. i # n BY <2>2, <1>1 DEF Balanced
    <3>2. i # Len(new) /\ new[i + 1] = repl[i + 1] BY <3>1, <1>1
    <3>3. Escape(new, i) BY <2>2, <1>2
    <3> QED BY <2>2, <3>1, <3>2, <3>3 DEF PieceOf
  <2>3. CASE ~Escape(repl, i)
    <3>1. ~Escape(new, i) /\ new[i] = repl[i] BY <2>3, <1>2
    <3> QED BY <2>1, <2>3, <3>1 DEF PieceOf
  <2> QED BY <2>2, <2>3
<1> QED BY <1>3, <1>4, <1>5

(* One more character that is not a % ...                                  *)
LEMMA ExpandPlain ==
  ASSUME NEW repl \in Seq(Chars), Balanced(repl), NEW m, NEW c \in Chars, c # "%"
  PROVE  LET new == Append(repl, c)
         IN new \in Seq(Chars) /\ Balanced(new) /\ PiecesOf(new, m) = Append(PiecesOf(repl, m), <<c>>)
<1> DEFINE n == Len(repl)
           new == Append(repl, c)
           G == PiecesOf(new, m)
<1>1. n \in Nat /\ new \in Seq(Chars) /\ Len(new) = n + 1 /\ new[n + 1] = c /\ \A i \in 1..n : new[i] = repl[i]
  OBVIOUS
<1> HIDE DEF new
<1>2. /\ \A i \in 1..n : PieceOf(new, m, i) = PieceOf(repl, m, i)
      /\ n > 0 => ~Escape(new, n)
      /\ ~Escape(new, n + 1)
  <2>1. Len(new) > Len(repl) BY <1>1
  <2>2. Escape(new, n + 1) <=> new[n + 1] = "%" BY <1>1, <2>1, PrefixKept
  <2> QED BY <1>1, <2>1, <2>2, PrefixKept
<1>3. Balanced(new) BY <1>1, <1>2 DEF Balanced
<1>4. PieceOf(new, m, n + 1) = <<c>>
  <2>1. n + 1 > 1 => n > 0 /\ n + 1 - 1 = n BY <1>1
  <2> HIDE DEF n
  <2>2. new[n + 1] = c /\ ~Escape(new, n + 1) BY <1>1, <1>2
  <2>3. ~(n + 1 > 1 /\ Escape(new, n + 1 - 1)) BY <2>1, <1>2
  <2> QED BY <1>1, <2>2, <2>3 DEF PieceOf
<1>5. G = [i \in 1..(n + 1) |-> G[i]] /\ \A i \in 1..(n + 1) : G[i] = PieceOf(new, m, i) BY <1>1 DEF PiecesOf
<1> HIDE DEF G
<1>6. [i \in 1..n |-> G[i]] = PiecesOf(repl, m)
  <2>1. \A i \in 1..n : G[i] = PieceOf(repl, m, i) BY <1>1, <1>2, <1>5
  <2> QED BY <2>1 DEF PiecesOf
<1>7. G[n + 1] = <<c>> BY <1>1, <1>4, <1>5
<1>8. G = Append([i \in 1..n |-> G[i]], G[n + 1])
  <2> HIDE DEF n
  <2> QED BY <1>1, <1>5, LastOne
<1>9. G = Append(PiecesOf(repl, m), <<c>>) BY <1>6, <1>7, <1>8
<1> QED BY <1>1, <1>3, <1>9 DEF G, new

(* ... and one more escape: its % puts the expansion, the character after it*)
(* nothing.                                                                *)
LEMMA ExpandEscape ==
  ASSUME NEW repl \in Seq(Chars), Balanced(repl), NEW m, NEW c \in Chars
  PROVE  LET new == repl \o <<"%", c>>
         IN /\ new \in Seq(Chars) /\ Balanced(new)
            /\ PiecesOf(new, m) = Append(Append(PiecesOf(repl, m), Expansion(m, c)), <<>>)
<1> DEFINE n == Len(repl)
           new == repl \o <<"%", c>>
           G == PiecesOf(new, m)
           H == [i \in 1..(n + 1) |-> G[i]]
<1>1. /\ n \in Nat /\ new \in Seq(Chars) /\ Len(new) = n + 2 /\ new[n + 1] = "%" /\ new[n + 2] = c
      /\ \A i \in 1..n : new[i] = repl[i]
  <2>1. "%" \in Chars BY DEF Chars, Letters
  <2> QED BY <2>1
<1> HIDE DEF new
<1>2. /\ \A i \in 1..n : PieceOf(new, m, i) = PieceOf(repl, m, i)
      /\ Escape(new, n + 1)
  <2>1. Len(new) > Len(repl) BY <1>1
  <2>2. Escape(new, n + 1) <=> new[n + 1] = "%" BY <1>1, <2>1, PrefixKept
  <2> QED BY <1>1, <2>1, <2>2, PrefixKept
<1>3. ~Escape(new, n + 2)
  <2> HIDE DEF n
  <2>1. PICK k \in Nat \ {0} : k = n + 2 BY <1>1
  <2>2. k - 1 = n + 1 /\ k > 1 BY <1>1, <2>1
  <2>3. Escape(new, k) <=> new[k] = "%" /\ ~(k > 1 /\ Escape(new, k - 1)) BY EscapeAlternates
  <2>4. ~Escape(new, k) BY <2>2, <2>3, <1>2, Zenon
  <2> QED BY <2>1, <2>4, Zenon
<1>4. Balanced(new) BY <1>1, <1>3 DEF Balanced
<1>5. PieceOf(new, m, n + 1) = Expansion(m, c)
  <2> HIDE DEF n
  <2>1. n + 1 # Len(new) /\ new[n + 1 + 1] = c
    <3>1. n + 1 + 1 = n + 2 BY <1>1
    <3> QED BY <3>1, <1>1
  <2> QED BY <2>1, <1>2 DEF PieceOf
<1>6. PieceOf(new, m, n + 2) = <<>>
  <2> HIDE DEF n
  <2>1. PICK k \in Nat : k = n + 2 /\ k - 1 = n + 1 /\ k > 1 BY <1>1
  <2>2. ~Escape(new, k) /\ Escape(new, k - 1) BY <2>1, <1>2, <1>3
  <2>3. PieceOf(new, m, k) = <<>> BY <2>1, <2>2 DEF PieceOf
  <2> QED BY <2>1, <2>3
<1>7. G = [i \in 1..(n + 2) |-> G[i]] /\ \A i \in 1..(n + 2) : G[i] = PieceOf(new, m, i) BY <1>1 DEF PiecesOf
<1> HIDE DEF G
<1>8. H = Append(PiecesOf(repl, m), Expansion(m, c))
  <2>1. H = [i \in 1..(n + 1) |-> H[i]] /\ \A i \in 1..(n + 1) : H[i] = PieceOf(new, m, i)
    BY <1>1, <1>7
  <2> HIDE DEF H
  <2>2. [i \in 1..n |-> H[i]] = PiecesOf(repl, m)
    <3>1. \A i \in 1..n : H[i] = PieceOf(repl, m, i) BY <1>1, <1>2, <2>1
    <3> QED BY <3>1 DEF PiecesOf
  <2>3. H[n + 1] = Expansion(m, c) BY <1>1, <1>5, <2>1
  <2>4. H = Append([i \in 1..n |-> H[i]], H[n + 1])
    <3> HIDE DEF n
    <3> QED BY <1>1, <2>1, LastOne
  <2> QED BY <2>2, <2>3, <2>4
<1>9. G = Append(H, <<>>)
  <2> HIDE DEF n
  <2>1. n + 2 = (n + 1) + 1 /\ n + 1 \in Nat BY <1>1
  <2> HIDE DEF H
  <2>2. G = [i \in 1..((n + 1) + 1) |-> G[i]] BY <1>7, <2>1
  <2>3. G = Append([i \in 1..(n + 1) |-> G[i]], G[(n + 1) + 1]) BY <2>1, <2>2, LastOne
  <2>4. G[(n + 1) + 1] = <<>>
    <3>1. n + 2 \in 1..(n + 2) BY <1>1
    <3> QED BY <3>1, <2>1, <1>6, <1>7
  <2> QED BY <2>3, <2>4 DEF H
<1> HIDE DEF H
<1>10. G = Append(Append(PiecesOf(repl, m), Expansion(m, c)), <<>>) BY <1>8, <1>9
<1> QED BY <1>1, <1>4, <1>10 DEF G, new

(* The string of one more item: what it puts is what the item gives.       *)
LEMMA ExpandOne ==
  ASSUME NEW repl \in Seq(Chars), Balanced(repl), NEW m, m.caps \in Seq([a : Int, b : Int]), NEW it \in ItemSet
  PROVE  LET new == repl \o Spelled(it)
             put == Append(PiecesOf(repl, m), ItemText(m, it))
         IN /\ Spelled(it) \in Seq(Chars) /\ new \in Seq(Chars) /\ Balanced(new)
            /\ PiecesOf(new, m) = put \/ PiecesOf(new, m) = Append(put, <<>>)
<1>0. "%" \in Chars BY DEF Chars, Letters
<1>1. CASE it[1] = "lit" /\ it[2] # "%"
  <2>1. it[2] \in Chars BY <1>1 DEF ItemSet
  <2>2. Spelled(it) = <<it[2]>> BY <1>1 DEF Spelled
  <2>3. ItemText(m, it) = <<it[2]>> BY <1>1 DEF ItemText
  <2>4. repl \o <<it[2]>> = Append(repl, it[2]) /\ <<it[2]>> \in Seq(Chars) BY <2>1
  <2> DEFINE c == it[2]
  <2>5. LET new == Append(repl, c)
        IN new \in Seq(Chars) /\ Balanced(new) /\ PiecesOf(new, m) = Append(PiecesOf(repl, m), <<c>>)
    BY <2>1, <1>1, ExpandPlain
  <2> QED BY <2>2, <2>3, <2>4, <2>5
<1>2. ASSUME NEW c \in Chars, Spelled(it) = <<"%", c>>, Expansion(m, c) = ItemText(m, it)
      PROVE  LET new == repl \o Spelled(it)
                 put == Append(PiecesOf(repl, m), ItemText(m, it))
             IN /\ Spelled(it) \in Seq(Chars) /\ new \in Seq(Chars) /\ Balanced(new)
                /\ PiecesOf(new, m) = Append(put, <<>>)
  <2>1. <<"%", c>> \in Seq(Chars) BY <1>0
  <2> QED BY <2>1, <1>2, ExpandEscape
<1>3. CASE it[1] = "lit" /\ it[2] = "%"
  <2>1. Spelled(it) = <<"%", "%">> BY <1>3 DEF Spelled
  <2>2. ItemText(m, it) = <<"%">> BY <1>3 DEF ItemText
  <2>3. Expansion(m, "%") = <<"%">>
    <3>1. "%" \notin DOMAIN Digits BY DEF Digits
    <3> QED BY <3>1 DEF Expansion
  <2> QED BY <2>1, <2>2, <2>3, <1>0, <1>2
<1>4. CASE it[1] = "cap"
  <2>1. PICK d \in 0..9 : it = <<"cap", d>> BY <1>4 DEF ItemSet
  <2>2. NumberText(d) = <<Digit(d)>> /\ Digit(d) \in Chars BY DigitRead
  <2>4. Spelled(it) = <<"%", Digit(d)>> BY <2>1 DEF Spelled
  <2>5. Expansion(m, Digit(d)) = ItemText(m, it) BY <2>1, CaptureExpands
  <2> QED BY <2>2, <2>4, <2>5, <1>2
<1>5. it[1] \in {"lit", "cap"} BY DEF ItemSet
<1> QED BY <1>1, <1>3, <1>4, <1>5

(* What is put for a replacement string: texts, or an error.               *)
Puts == Seq(Chars) \cup {error}
HasError(put) == \E i \in DOMAIN put : put[i] = error

(* One more text, and an empty one after it, changes nothing but that text.*)
LEMMA SamePut ==
  ASSUME NEW Q \in Seq(Puts), NEW R \in Seq(Puts), NEW x \in Puts, NEW Q2, Q2 = Append(Q, x) \/ Q2 = Append(Append(Q, x), <<>>),
         HasError(Q) <=> HasError(R), ~HasError(R) => FlattenSeq(Q) = FlattenSeq(R)
  PROVE  LET R2 == Append(R, x)
         IN /\ Q2 \in Seq(Puts) /\ R2 \in Seq(Puts) /\ (HasError(Q2) <=> HasError(R2))
            /\ ~HasError(R2) => FlattenSeq(Q2) = FlattenSeq(R2)
<1> DEFINE R2 == Append(R, x)
<1>1. <<>> \in Puts /\ <<>> # error
  <2>1. <<>> \in Seq(Chars) OBVIOUS
  <2> QED BY <2>1, ErrorIsNoText DEF Puts
<1>2. ASSUME NEW P \in Seq(Puts), NEW y \in Puts
      PROVE  Append(P, y) \in Seq(Puts) /\ (HasError(Append(P, y)) <=> HasError(P) \/ y = error)
  <2> DEFINE N == Append(P, y)
  <2> HIDE DEF Puts
  <2>1. /\ N \in Seq(Puts) /\ Len(P) \in Nat /\ DOMAIN P = 1..Len(P) /\ DOMAIN N = 1..(Len(P) + 1)
        /\ N[Len(P) + 1] = y /\ \A i \in 1..Len(P) : N[i] = P[i]
    OBVIOUS
  <2> HIDE DEF N
  <2>2. \A i \in DOMAIN N : i \in DOMAIN P \/ i = Len(P) + 1 BY <2>1
  <2>3. Len(P) + 1 \in DOMAIN N /\ \A i \in DOMAIN P : i \in DOMAIN N BY <2>1
  <2>4. HasError(N) <=> HasError(P) \/ y = error BY <2>1, <2>2, <2>3, Zenon DEF HasError
  <2> QED BY <2>1, <2>4 DEF N
<1>3. ASSUME NEW P \in Seq(Puts), ~HasError(P) PROVE P \in Seq(Seq(Chars))
  <2>1. Len(P) \in Nat /\ P \in [1..Len(P) -> Puts] /\ DOMAIN P = 1..Len(P) BY <1>3, LenProperties
  <2>2. \A i \in 1..Len(P) : P[i] \in Seq(Chars)
    <3>1. \A i \in 1..Len(P) : P[i] \in Puts BY <2>1
    <3> QED BY <3>1, <2>1, <1>3 DEF HasError, Puts
  <2>3. P \in [1..Len(P) -> Seq(Chars)] BY <2>1, <2>2
  <2> QED BY <2>1, <2>3, SeqDef
<1>4. /\ Append(Q, x) \in Seq(Puts) /\ R2 \in Seq(Puts)
      /\ HasError(Append(Q, x)) <=> HasError(Q) \/ x = error
      /\ HasError(R2) <=> HasError(R) \/ x = error
  BY <1>2
<1>5. Q2 \in Seq(Puts) /\ (HasError(Q2) <=> HasError(R2))
  <2>1. Append(Append(Q, x), <<>>) \in Seq(Puts) /\ (HasError(Append(Append(Q, x), <<>>)) <=> HasError(Append(Q, x)))
    BY <1>1, <1>2, <1>4
  <2> HIDE DEF R2
  <2>2. CASE Q2 = Append(Q, x) BY <2>2, <1>4, Zenon
  <2>3. CASE Q2 = Append(Append(Q, x), <<>>) BY <2>3, <2>1, <1>4, Zenon
  <2> QED BY <2>2, <2>3
<1>6. ASSUME ~HasError(R2) PROVE FlattenSeq(Q2) = FlattenSeq(R2)
  <2> DEFINE Q1 == Append(Q, x)
  <2> DEFINE T == Seq(Chars)
  <2>1. ~HasError(Q) /\ ~HasError(R) /\ x # error BY <1>4, <1>6
  <2>2. x \in T BY <2>1 DEF Puts
  <2>3. Q \in Seq(T) /\ R \in Seq(T) BY <2>1, <1>3
  <2>4. FlattenSeq(Q1) = FlattenSeq(Q) \o x /\ FlattenSeq(R2) = FlattenSeq(R) \o x BY <2>2, <2>3, FlattenAppend
  <2>5. FlattenSeq(Q1) = FlattenSeq(R2) BY <2>1, <2>4
  <2>6. FlattenSeq(Append(Q1, <<>>)) = FlattenSeq(Q1)
    <3>1. <<>> \in T OBVIOUS
    <3>2. Q1 \in Seq(T)
      <4> HIDE DEF T
      <4> QED BY <2>2, <2>3
    <3> HIDE DEF Q1
    <3>3. FlattenSeq(Q1) \in T /\ FlattenSeq(Append(Q1, <<>>)) = FlattenSeq(Q1) \o <<>> BY <3>1, <3>2, FlattenAppend
    <3> QED BY <3>3, ConcatEmptySeq
  <2> HIDE DEF Q1, R2
  <2>7. Q2 = Q1 \/ Q2 = Append(Q1, <<>>) BY DEF Q1
  <2> QED BY <2>5, <2>6, <2>7, Zenon
<1> QED BY <1>4, <1>5, <1>6

(* gsub_expand_repl puts what the items of a replacement string give, or fails*)
(* when one of them does.                                                  *)
LEMMA ExpandItems ==
  ASSUME Characters(case), NEW m, Inside(s, m), NEW items \in Seq(ItemSet), NEW text,
         text = FlattenSeq([k \in DOMAIN items |-> Spelled(items[k])])
  PROVE  LET put == [k \in DOMAIN items |-> ItemText(m, items[k])]
         IN gsub_expand_repl(text, m) = IF HasError(put) THEN error ELSE FlattenSeq(put)
<1> DEFINE n == Len(items)
           Sp(k) == [j \in 1..k |-> Spelled(items[j])]
           Tx(k) == FlattenSeq(Sp(k))
           Put(k) == [j \in 1..k |-> ItemText(m, items[j])]
           Q(k) == PiecesOf(Tx(k), m)
           Same(k) == /\ Sp(k) \in Seq(Seq(Chars)) /\ Tx(k) \in Seq(Chars) /\ Balanced(Tx(k))
                      /\ Q(k) \in Seq(Puts) /\ Put(k) \in Seq(Puts)
                      /\ HasError(Q(k)) <=> HasError(Put(k))
                      /\ ~HasError(Put(k)) => FlattenSeq(Q(k)) = FlattenSeq(Put(k))
<1>1. n \in Nat /\ DOMAIN items = 1..n /\ \A k \in 1..n : items[k] \in ItemSet
  <2> HIDE DEF n
  <2> QED BY DEF n
<1>2. Same(0)
  <2>1. Sp(0) = <<>> /\ Put(0) = <<>> OBVIOUS
  <2>2. FlattenSeq(<<>>) = <<>>
    <3>1. <<>> \in Seq(Seq(Chars)) /\ <<>> \in Seq(Chars) OBVIOUS
    <3> QED BY <3>1, FlattenAppend
  <2> HIDE DEF Sp, Put
  <2>3. Tx(0) = <<>> BY <2>1, <2>2
  <2> HIDE DEF Tx
  <2>4. Q(0) = <<>> BY <2>3 DEF PiecesOf
  <2> HIDE DEF Q
  <2>5. <<>> \in Seq(Seq(Chars)) /\ <<>> \in Seq(Chars) /\ <<>> \in Seq(Puts) /\ Balanced(<<>>) BY DEF Balanced
  <2> QED BY <2>1, <2>3, <2>4, <2>5
<1>3. ASSUME NEW k \in 0..(n - 1), Same(k) PROVE Same(k + 1)
  <2> DEFINE it == items[k + 1]
             x == ItemText(m, it)
             w == Spelled(it)
  <2>1. k \in Nat /\ k + 1 \in 1..n /\ it \in ItemSet BY <1>1
  <2>2. x \in Puts BY <2>1, ItemTextTyped DEF Puts
  <2>3. m.caps \in Seq([a : Int, b : Int]) BY DEF Inside
  <2>4. Sp(k + 1) = Append(Sp(k), w) /\ Put(k + 1) = Append(Put(k), x)
    <3>1. ASSUME NEW G, G = [j \in 1..(k + 1) |-> G[j]] PROVE G = Append([j \in 1..k |-> G[j]], G[k + 1])
      BY <2>1, <3>1, LastOne
    <3>2. Sp(k + 1) = [j \in 1..(k + 1) |-> Sp(k + 1)[j]] /\ [j \in 1..k |-> Sp(k + 1)[j]] = Sp(k) /\ Sp(k + 1)[k + 1] = w
      BY <2>1
    <3>3. Put(k + 1) = [j \in 1..(k + 1) |-> Put(k + 1)[j]] /\ [j \in 1..k |-> Put(k + 1)[j]] = Put(k) /\ Put(k + 1)[k + 1] = x
      BY <2>1
    <3> HIDE DEF Sp, Put
    <3> QED BY <3>1, <3>2, <3>3
  <2>5. /\ w \in Seq(Chars) /\ Tx(k) \o w \in Seq(Chars) /\ Balanced(Tx(k) \o w)
        /\ \/ PiecesOf(Tx(k) \o w, m) = Append(Q(k), x)
           \/ PiecesOf(Tx(k) \o w, m) = Append(Append(Q(k), x), <<>>)
    <3> HIDE DEF Tx, it
    <3> QED BY <1>3, <2>1, <2>3, ExpandOne
  <2> HIDE DEF Sp, Put, it, x, w
  <2>6. Tx(k + 1) = Tx(k) \o w /\ Sp(k + 1) \in Seq(Seq(Chars))
    <3>1. FlattenSeq(Append(Sp(k), w)) = FlattenSeq(Sp(k)) \o w BY <1>3, <2>5, FlattenAppend
    <3> DEFINE T == Seq(Chars)
    <3>2. Append(Sp(k), w) \in Seq(T)
      <4>1. Sp(k) \in Seq(T) /\ w \in T BY <1>3, <2>5
      <4> HIDE DEF T
      <4> QED BY <4>1
    <3> QED BY <3>1, <3>2, <2>4
  <2>7. Tx(k + 1) \in Seq(Chars) /\ Balanced(Tx(k + 1)) BY <2>5, <2>6
  <2>8. Q(k + 1) = Append(Q(k), x) \/ Q(k + 1) = Append(Append(Q(k), x), <<>>) BY <2>5, <2>6
  <2> HIDE DEF Q, Tx
  <2>9. LET R2 == Append(Put(k), x)
        IN /\ Q(k + 1) \in Seq(Puts) /\ R2 \in Seq(Puts) /\ (HasError(Q(k + 1)) <=> HasError(R2))
           /\ ~HasError(R2) => FlattenSeq(Q(k + 1)) = FlattenSeq(R2)
    <3> DEFINE A == Q(k)  R == Put(k)  A2 == Q(k + 1)
    <3>1. /\ A \in Seq(Puts) /\ R \in Seq(Puts) /\ (HasError(A) <=> HasError(R))
          /\ ~HasError(R) => FlattenSeq(A) = FlattenSeq(R)
      BY <1>3
    <3>2. A2 = Append(A, x) \/ A2 = Append(Append(A, x), <<>>) BY <2>8
    <3> HIDE DEF A, R, A2
    <3>3. LET R2 == Append(R, x)
          IN /\ A2 \in Seq(Puts) /\ R2 \in Seq(Puts) /\ (HasError(A2) <=> HasError(R2))
             /\ ~HasError(R2) => FlattenSeq(A2) = FlattenSeq(R2)
      BY <2>2, <3>1, <3>2, SamePut
    <3> QED BY <3>3 DEF A, R, A2
  <2> QED BY <2>4, <2>6, <2>7, <2>9
<1> HIDE DEF Same
<1>4. Same(n)
  <2> DEFINE B == {k \in 0..n : ~Same(k)}
  <2> SUFFICES ASSUME B # {} PROVE FALSE BY <1>1
  <2>0. B \subseteq Nat OBVIOUS
  <2>1. PICK k \in B : \A l \in B : k <= l
    <3> HIDE DEF B
    <3> QED BY <2>0, LeastNat
  <2>2. k # 0 /\ k \in 0..n /\ ~Same(k) BY <1>2
  <2>3. PICK l \in 0..(n - 1) : l + 1 = k BY <1>1, <2>2
  <2>4. Same(l)
    <3>1. l \in 0..n /\ ~(k <= l) BY <1>1, <2>3
    <3> QED BY <3>1, <2>1
  <2>5. Same(l + 1) BY <1>3, <2>4
  <2> QED BY <2>2, <2>3, <2>5
<1>5. /\ Tx(n) \in Seq(Chars)
      /\ HasError(Q(n)) <=> HasError(Put(n))
      /\ ~HasError(Put(n)) => FlattenSeq(Q(n)) = FlattenSeq(Put(n))
  <2> HIDE DEF Q, Tx, Put, Sp
  <2> QED BY <1>4 DEF Same
<1>6. text = Tx(n) /\ Put(n) = [k \in DOMAIN items |-> ItemText(m, items[k])] BY <1>1
<1>7. gsub_expand_repl(text, m) = IF HasError(Q(n)) THEN error ELSE FlattenSeq(Q(n))
  <2>1. gsub_expand_repl(text, m) =
          IF \E i \in 1..Len(text) : PieceOf(text, m, i) = error THEN error ELSE FlattenSeq(PiecesOf(text, m))
    <3>1. text \in Seq(Chars) BY <1>5, <1>6
    <3> QED BY <3>1, ExpandSays
  <2>2. Q(n) = PiecesOf(text, m)
    <3> HIDE DEF Tx
    <3> QED BY <1>6
  <2>3. HasError(PiecesOf(text, m)) <=> \E i \in 1..Len(text) : PieceOf(text, m, i) = error
    BY DEF HasError, PiecesOf
  <2> HIDE DEF Q
  <2> QED BY <2>1, <2>2, <2>3
<1> HIDE DEF Q, Tx, Put
<1> QED BY <1>5, <1>6, <1>7

(* What the items of a replacement string stand for, as ReplacementText says it.*)
Standing(text, items, m) ==
  FlattenSeq([i \in DOMAIN items |->
                CASE items[i][1] = "lit" -> <<items[i][2]>>
                  [] items[i][1] = "cap" /\ items[i][2] \in DOMAIN m.caps ->
                       (IF m.caps[items[i][2]].b = -2 THEN NumberText(m.caps[items[i][2]].a + 1)
                        ELSE SubSeq(text, m.caps[items[i][2]].a + 1, m.caps[items[i][2]].b))
                  [] OTHER -> SubSeq(text, m.start + 1, m.end)])

(* It is the same.                                                         *)
LEMMA StandingSays ==
  ASSUME NEW m
  PROVE  ReplacementText(m) = Standing(s, gsub.repl.items, m)
BY Zenon DEF ReplacementText, Standing, capture_string, Slice

(* A capture that the match does not have, or that was never closed.       *)
Lacks(items, m) ==
  \E k \in DOMAIN items :
    items[k][1] = "cap" /\ \/ items[k][2] > Max({1, Len(m.caps)})
                           \/ items[k][2] \in DOMAIN m.caps /\ Unfinished(m.caps[items[k][2]])

(* A replacement string puts what its items stand for; it fails only for a *)
(* capture that the match lacks.                                           *)
LEMMA ReplacementPut ==
  ASSUME Characters(case), NEW m, Inside(s, m), NEW items \in Seq(ItemSet), NEW text,
         text = FlattenSeq([k \in DOMAIN items |-> Spelled(items[k])])
  PROVE  LET put == gsub_expand_repl(text, m)
         IN \/ put = error /\ Lacks(items, m)
            \/ put # error /\ put \in Seq(Chars) /\ put = Standing(s, items, m)
<1> DEFINE put == [k \in DOMAIN items |-> ItemText(m, items[k])]
<1>1. gsub_expand_repl(text, m) = IF HasError(put) THEN error ELSE FlattenSeq(put) BY ExpandItems
<1>2. m.caps \in Seq([a : Int, b : Int]) /\ Len(m.caps) \in Nat /\ DOMAIN m.caps = 1..Len(m.caps) BY DEF Inside
<1>3. Len(items) \in Nat /\ DOMAIN items = 1..Len(items) /\ \A k \in DOMAIN items : items[k] \in ItemSet OBVIOUS
<1>4. ASSUME NEW k \in DOMAIN items, ItemText(m, items[k]) = error PROVE Lacks(items, m)
  <2> DEFINE it == items[k]
             d == it[2]
             L == Len(m.caps)
  <2>1. it \in ItemSet BY <1>3
  <2>2. CASE it[1] = "lit"
    <3>1. ItemText(m, it) = <<d>> /\ d \in Chars BY <2>1, <2>2 DEF ItemText, ItemSet
    <3>2. <<d>> \in Seq(Chars) BY <3>1
    <3> QED BY <3>1, <3>2, <1>4, ErrorIsNoText
  <2>3. CASE it[1] = "cap"
    <3>1. d \in 0..9 BY <2>1, <2>3 DEF ItemSet
    <3>2. Slice(m.start, m.end) # error
      <4>1. Slice(m.start, m.end) \in Seq(Chars) BY SliceTyped DEF Inside, Characters, s
      <4> QED BY <4>1, ErrorIsNoText
    <3>3. \/ d \in DOMAIN m.caps /\ Unfinished(m.caps[d])
          \/ d \in DOMAIN m.caps /\ ~Unfinished(m.caps[d]) /\ capture_string(m.caps[d]) = error
          \/ d \notin DOMAIN m.caps /\ d # 0 /\ ~(d = 1 /\ m.caps = <<>>)
      BY <2>3, <3>2, <1>4 DEF ItemText
    <3>4. CASE d \in DOMAIN m.caps /\ Unfinished(m.caps[d]) BY <3>4, <2>3 DEF Lacks
    <3>5. CASE d \in DOMAIN m.caps /\ ~Unfinished(m.caps[d]) /\ capture_string(m.caps[d]) = error
      <4>1. capture_string(m.caps[d]) \in Seq(Chars) BY <3>5, CaptureTyped
      <4> QED BY <4>1, <3>5, ErrorIsNoText
    <3>6. CASE d \notin DOMAIN m.caps /\ d # 0 /\ ~(d = 1 /\ m.caps = <<>>)
      <4>1. d > L /\ d > 1
        <5>1. d > L
          <6>1. L \in Nat /\ d \notin 1..L /\ d # 0 BY <3>6, <1>2
          <6> HIDE DEF d, L
          <6> QED BY <6>1, <3>1
        <5>2. L = 0 <=> m.caps = <<>> BY <1>2
        <5> QED BY <5>1, <5>2, <3>1, <3>6, <1>2
      <4>2. Max({1, L}) \in {1, L}
        <5> DEFINE b == IF L > 1 THEN L ELSE 1
        <5>1. b \in Int /\ {1, L} \subseteq Int /\ \A y \in {1, L} : y <= b BY <1>2
        <5> QED BY <5>1, MaxBounded
      <4>3. d > Max({1, L})
        <5> DEFINE x == Max({1, L})
        <5> HIDE DEF x, L, d
        <5>1. x = 1 \/ x = L BY <4>2 DEF x
        <5> QED BY <5>1, <4>1 DEF x
      <4> QED BY <4>3, <2>3 DEF Lacks
    <3> QED BY <3>3, <3>4, <3>5, <3>6
  <2> QED BY <2>1, <2>2, <2>3 DEF ItemSet
<1>5. CASE HasError(put)
  <2>1. PICK k \in DOMAIN items : ItemText(m, items[k]) = error BY <1>5 DEF HasError
  <2> QED BY <2>1, <1>1, <1>4, <1>5
<1>6. CASE ~HasError(put)
  <2>1. \A k \in DOMAIN items : put[k] # error /\ put[k] = ItemText(m, items[k]) BY <1>6 DEF HasError
  <2>2. FlattenSeq(put) \in Seq(Chars)
    <3>1. \A k \in DOMAIN items : put[k] \in Seq(Chars) BY <2>1, <1>3, ItemTextTyped
    <3>2. put \in [1..Len(items) -> Seq(Chars)]
      <4> DEFINE T == Seq(Chars)
      <4>1. \A k \in DOMAIN items : ItemText(m, items[k]) \in T BY <3>1
      <4> HIDE DEF T
      <4>2. put \in [1..Len(items) -> T] BY <4>1, <1>3
      <4> QED BY <4>2 DEF T
    <3> HIDE DEF put
    <3>3. put \in Seq(Seq(Chars)) BY <3>2, <1>3, SeqDef
    <3>4. <<>> \in Seq(Chars) OBVIOUS
    <3> QED BY <3>3, <3>4, FlattenAppend
  <2>3. put = [i \in DOMAIN items |->
                CASE items[i][1] = "lit" -> <<items[i][2]>>
                  [] items[i][1] = "cap" /\ items[i][2] \in DOMAIN m.caps ->
                       (IF m.caps[items[i][2]].b = -2 THEN NumberText(m.caps[items[i][2]].a + 1)
                        ELSE SubSeq(s, m.caps[items[i][2]].a + 1, m.caps[items[i][2]].b))
                  [] OTHER -> SubSeq(s, m.start + 1, m.end)]
    <3> SUFFICES ASSUME NEW i \in DOMAIN items
                 PROVE  ItemText(m, items[i]) =
                          CASE items[i][1] = "lit" -> <<items[i][2]>>
                            [] items[i][1] = "cap" /\ items[i][2] \in DOMAIN m.caps ->
                                 (IF m.caps[items[i][2]].b = -2 THEN NumberText(m.caps[items[i][2]].a + 1)
                                  ELSE SubSeq(s, m.caps[items[i][2]].a + 1, m.caps[items[i][2]].b))
                            [] OTHER -> SubSeq(s, m.start + 1, m.end)
      OBVIOUS
    <3> DEFINE it == items[i]
               d == it[2]
    <3>1. it \in ItemSet /\ ItemText(m, it) # error BY <1>3, <2>1
    <3>2. it[1] = "lit" \/ (it[1] = "cap" /\ d \in 0..9) BY <3>1 DEF ItemSet
    <3>3. CASE it[1] = "lit" BY <3>3 DEF ItemText
    <3>4. CASE it[1] = "cap" /\ d \in DOMAIN m.caps
      <4>1. ItemText(m, it) = IF m.caps[d].b = -2 THEN NumberText(m.caps[d].a + 1)
                              ELSE SubSeq(s, m.caps[d].a + 1, m.caps[d].b)
        <5>1. d # 0 /\ m.caps # <<>> BY <3>4, <1>2
        <5> QED BY <5>1, <3>1, <3>4 DEF ItemText, capture_string, Slice
      <4> QED BY <4>1, <3>4
    <3>5. CASE it[1] = "cap" /\ d \notin DOMAIN m.caps
      <4>1. ItemText(m, it) = SubSeq(s, m.start + 1, m.end) BY <3>1, <3>5 DEF ItemText, Slice
      <4> QED BY <4>1, <3>5
    <3> QED BY <3>2, <3>3, <3>4, <3>5
  <2>4. FlattenSeq(put) = Standing(s, items, m) BY <2>3 DEF Standing
  <2> HIDE DEF put
  <2>5. FlattenSeq(put) # error BY <2>2, ErrorIsNoText
  <2> QED BY <2>2, <2>4, <2>5, <1>1, <1>6
<1> QED BY <1>5, <1>6

(* The replaced matches of a text, and the text up to upto with them replaced,*)
(* as Woven says it.                                                       *)
PieceSet(text, C) == [start : 0..Len(text), end : 0..Len(text), caps : C, text : Seq(Letters)]
Parts(text, ms) == [k \in DOMAIN ms |-> SubSeq(text, From(ms, k) + 1, ms[k].start) \o ms[k].text]
WovenOf(text, ms, upto) == FlattenSeq(Parts(text, ms)) \o SubSeq(text, From(ms, Len(ms) + 1) + 1, upto)

(* It is the same.                                                         *)
LEMMA WovenSays ==
  ASSUME NEW ms, NEW upto
  PROVE  Woven(ms, upto) = WovenOf(s, ms, upto)
BY Zenon DEF Woven, WovenOf, Parts, From, Slice

(* A cut of a text is a text.                                              *)
LEMMA CutTyped ==
  ASSUME NEW T, NEW text \in Seq(T), NEW i \in 0..Len(text), NEW j \in 0..Len(text)
  PROVE  SubSeq(text, i + 1, j) \in Seq(T)
<1>1. Len(text) \in Nat /\ i + 1 \in Int /\ j \in Int /\ \A k \in (i + 1)..j : text[k] \in T OBVIOUS
<1> QED BY <1>1, SubSeqProperties

(* The matches of a text start inside it, and what replaces them is text.  *)
LEMMA WovenTyped ==
  ASSUME NEW C, NEW text \in Seq(Letters), NEW ms \in Seq(PieceSet(text, C))
  PROVE  /\ Len(ms) \in Nat /\ Len(text) \in Nat /\ \A k \in 1..(Len(ms) + 1) : From(ms, k) \in 0..Len(text)
         /\ Parts(text, ms) \in Seq(Seq(Letters)) /\ FlattenSeq(Parts(text, ms)) \in Seq(Letters)
<1>1. Len(ms) \in Nat /\ DOMAIN ms = 1..Len(ms) /\ \A k \in 1..Len(ms) : ms[k] \in PieceSet(text, C) OBVIOUS
<1>2. \A k \in 1..Len(ms) : ms[k].start \in 0..Len(text) /\ ms[k].end \in 0..Len(text) /\ ms[k].text \in Seq(Letters)
  BY <1>1 DEF PieceSet
<1>3. Len(text) \in Nat OBVIOUS
<1>4. \A k \in 1..(Len(ms) + 1) : From(ms, k) \in 0..Len(text)
  <2> SUFFICES ASSUME NEW k \in 1..(Len(ms) + 1) PROVE From(ms, k) \in 0..Len(text) OBVIOUS
  <2>1. CASE k = 1 BY <2>1, <1>3 DEF From
  <2>2. CASE k # 1
    <3>1. k - 1 \in 1..Len(ms) BY <2>2, <1>1
    <3> QED BY <3>1, <2>2, <1>2 DEF From
  <2> QED BY <2>1, <2>2
<1> DEFINE T == Seq(Letters)
           P == Parts(text, ms)
<1>5. \A k \in 1..Len(ms) : P[k] \in T
  <2> SUFFICES ASSUME NEW k \in 1..Len(ms) PROVE P[k] \in T OBVIOUS
  <2>1. P[k] = SubSeq(text, From(ms, k) + 1, ms[k].start) \o ms[k].text BY <1>1 DEF Parts
  <2>2. From(ms, k) \in 0..Len(text) BY <1>1, <1>4
  <2>3. SubSeq(text, From(ms, k) + 1, ms[k].start) \in Seq(Letters) BY <2>2, <1>2, CutTyped
  <2> HIDE DEF P
  <2> QED BY <2>1, <2>3, <1>2, ConcatProperties
<1>6. P \in Seq(T)
  <2>1. P = [k \in 1..Len(ms) |-> P[k]] BY <1>1 DEF Parts
  <2> HIDE DEF P, T
  <2>2. P \in [1..Len(ms) -> T] BY <2>1, <1>5
  <2> QED BY <2>2, <1>1, SeqDef
<1>7. FlattenSeq(P) \in T
  <2>1. <<>> \in Seq(Letters) OBVIOUS
  <2> HIDE DEF P
  <2> QED BY <2>1, <1>6, FlattenAppend
<1> QED BY <1>1, <1>3, <1>4, <1>6, <1>7

(* A match is replaced ...                                                 *)
LEMMA WovenPiece ==
  ASSUME NEW C, NEW text \in Seq(Letters), NEW ms \in Seq(PieceSet(text, C)), NEW m \in PieceSet(text, C)
  PROVE  WovenOf(text, Append(ms, m), m.end) = WovenOf(text, ms, m.start) \o m.text
<1> DEFINE new == Append(ms, m)
           n == Len(ms)
           P == Parts(text, ms)
           cut == SubSeq(text, From(ms, n + 1) + 1, m.start)
           x == cut \o m.text
           N == Parts(text, new)
<1>1. /\ n \in Nat /\ Len(text) \in Nat /\ \A k \in 1..(n + 1) : From(ms, k) \in 0..Len(text)
      /\ P \in Seq(Seq(Letters)) /\ FlattenSeq(P) \in Seq(Letters)
  BY WovenTyped
<1>2. m.start \in 0..Len(text) /\ m.end \in 0..Len(text) /\ m.text \in Seq(Letters) BY DEF PieceSet
<1>3. /\ Len(new) = n + 1 /\ DOMAIN new = 1..(n + 1) /\ new[n + 1] = m /\ DOMAIN ms = 1..n
      /\ \A k \in 1..n : new[k] = ms[k]
  OBVIOUS
<1>4. cut \in Seq(Letters) /\ x \in Seq(Letters)
  <2>1. From(ms, n + 1) \in 0..Len(text) BY <1>1
  <2>2. cut \in Seq(Letters) BY <2>1, <1>2, CutTyped
  <2> HIDE DEF cut
  <2> QED BY <2>2, <1>2
<1> HIDE DEF new
<1>5. \A k \in 1..(n + 1) : From(new, k) = From(ms, k)
  <2> SUFFICES ASSUME NEW k \in 1..(n + 1) PROVE From(new, k) = From(ms, k) OBVIOUS
  <2>1. k # 1 => k - 1 \in 1..n BY <1>1
  <2> QED BY <2>1, <1>3 DEF From
<1>6. From(new, n + 1 + 1) = m.end
  <2>1. n + 1 + 1 # 1 /\ n + 1 + 1 - 1 = n + 1 BY <1>1
  <2> QED BY <2>1, <1>3 DEF From
<1>7. N = Append(P, x)
  <2>1. N = [k \in 1..(n + 1) |-> N[k]] /\ N[n + 1] = x
    <3>1. n + 1 \in 1..(n + 1) BY <1>1
    <3>2. From(new, n + 1) = From(ms, n + 1) BY <3>1, <1>5
    <3> QED BY <3>1, <3>2, <1>3 DEF Parts
  <2>2. [k \in 1..n |-> N[k]] = P
    <3>1. \A k \in 1..n : N[k] = SubSeq(text, From(ms, k) + 1, ms[k].start) \o ms[k].text
      <4> SUFFICES ASSUME NEW k \in 1..n
                   PROVE  N[k] = SubSeq(text, From(ms, k) + 1, ms[k].start) \o ms[k].text
        OBVIOUS
      <4>1. k \in 1..(n + 1) BY <1>1
      <4>2. From(new, k) = From(ms, k) /\ new[k] = ms[k] /\ k \in DOMAIN new BY <4>1, <1>3, <1>5
      <4>3. N[k] = SubSeq(text, From(new, k) + 1, new[k].start) \o new[k].text BY <4>2 DEF Parts
      <4> HIDE DEF N
      <4> QED BY <4>2, <4>3
    <3> HIDE DEF N
    <3> QED BY <3>1, <1>3 DEF Parts
  <2>3. N = Append([k \in 1..n |-> N[k]], N[n + 1])
    <3> HIDE DEF N, n
    <3> QED BY <2>1, <1>1, LastOne
  <2> HIDE DEF N, x, P
  <2> QED BY <2>1, <2>2, <2>3
<1>8. FlattenSeq(N) = (FlattenSeq(P) \o cut) \o m.text
  <2> HIDE DEF N, P, cut
  <2>1. FlattenSeq(N) = FlattenSeq(P) \o x
    <3> HIDE DEF x
    <3> QED BY <1>1, <1>4, <1>7, FlattenAppend
  <2> DEFINE F == FlattenSeq(P)  w == m.text
  <2>2. F \in Seq(Letters) /\ cut \in Seq(Letters) /\ w \in Seq(Letters) BY <1>1, <1>2, <1>4
  <2> HIDE DEF F, w
  <2>3. (F \o cut) \o w = F \o (cut \o w) BY <2>2, ConcatAssociative
  <2> QED BY <2>1, <2>3 DEF F, w
<1>9. FlattenSeq(N) \in Seq(Letters)
  <2> HIDE DEF N, P, cut
  <2>1. FlattenSeq(P) \o cut \in Seq(Letters) BY <1>1, <1>4
  <2> QED BY <2>1, <1>2, <1>8, ConcatProperties
<1>10. WovenOf(text, new, m.end) = FlattenSeq(N) \o <<>>
  <2>1. SubSeq(text, m.end + 1, m.end) = <<>>
    <3>1. m.end + 1 \in Int /\ m.end \in Int /\ m.end < m.end + 1 BY <1>1, <1>2
    <3> QED BY <3>1, SubSeqEmpty
  <2> HIDE DEF N
  <2> QED BY <2>1, <1>3, <1>6 DEF WovenOf, N
<1>11. FlattenSeq(N) \o <<>> = FlattenSeq(N) BY <1>9, ConcatEmptySeq
<1>12. WovenOf(text, ms, m.start) = FlattenSeq(P) \o cut BY Zenon DEF WovenOf
<1> HIDE DEF N, P, cut
<1>13. WovenOf(text, new, m.end) = WovenOf(text, ms, m.start) \o m.text BY <1>8, <1>10, <1>11, <1>12
<1> QED BY <1>13 DEF new

(* Joining texts is associative.                                           *)
LEMMA JoinLetters ==
  ASSUME NEW A \in Seq(Letters), NEW B \in Seq(Letters), NEW D \in Seq(Letters)
  PROVE  (A \o B) \o D = A \o (B \o D)
BY ConcatAssociative

(* ... and what is between matches is copied, a character or all the rest. *)
LEMMA WovenCopy ==
  ASSUME NEW C, NEW text \in Seq(Letters), NEW ms \in Seq(PieceSet(text, C)), NEW src \in 0..Len(text),
         From(ms, Len(ms) + 1) <= src
  PROVE  /\ src < Len(text) => WovenOf(text, ms, src + 1) = Append(WovenOf(text, ms, src), text[src + 1])
         /\ WovenOf(text, ms, Len(text)) = WovenOf(text, ms, src) \o SubSeq(text, src + 1, Len(text))
<1> DEFINE from == From(ms, Len(ms) + 1)
           F == FlattenSeq(Parts(text, ms))
           cut == SubSeq(text, from + 1, src)
<1>1. Len(ms) \in Nat /\ Len(text) \in Nat /\ from \in 0..Len(text) /\ F \in Seq(Letters)
  <2>1. Len(ms) + 1 \in 1..(Len(ms) + 1) BY WovenTyped
  <2> QED BY <2>1, WovenTyped
<1>2. \A i : WovenOf(text, ms, i) = F \o SubSeq(text, from + 1, i) BY Zenon DEF WovenOf
<1>3. from <= src OBVIOUS
<1> HIDE DEF from, F
<1>4. cut \in Seq(Letters) BY <1>1, CutTyped
<1>5. ASSUME src < Len(text) PROVE WovenOf(text, ms, src + 1) = Append(WovenOf(text, ms, src), text[src + 1])
  <2> DEFINE a == text[src + 1]
  <2>1. a \in Letters /\ <<a>> \in Seq(Letters) BY <1>1, <1>5
  <2>2. SubSeq(text, from + 1, src + 1) = cut \o <<a>>
    <3>1. from + 1 \in 1..Len(text) /\ src + 1 \in (from + 1)..Len(text) /\ (src + 1) - 1 = src BY <1>1, <1>3, <1>5
    <3>2. SubSeq(text, from + 1, src + 1) = SubSeq(text, from + 1, (src + 1) - 1) \o <<text[src + 1]>>
      BY <3>1, SubSeqRecursiveSecond
    <3> QED BY <3>1, <3>2
  <2> HIDE DEF cut, a
  <2>3. F \o (cut \o <<a>>) = (F \o cut) \o <<a>> BY <1>1, <1>4, <2>1, ConcatAssociative
  <2>4. F \o cut \in Seq(Letters) BY <1>1, <1>4
  <2>5. (F \o cut) \o <<a>> = Append(F \o cut, a) BY <2>1, <2>4, AppendIsConcat
  <2>6. WovenOf(text, ms, src + 1) = Append(F \o cut, a) BY <1>2, <2>2, <2>3, <2>5
  <2> QED BY <2>6, <1>2 DEF cut, a
<1>6. WovenOf(text, ms, Len(text)) = WovenOf(text, ms, src) \o SubSeq(text, src + 1, Len(text))
  <2> DEFINE rest == SubSeq(text, src + 1, Len(text))
  <2>1. rest \in Seq(Letters) BY <1>1, CutTyped
  <2>2. SubSeq(text, from + 1, Len(text)) = cut \o rest
    <3>1. /\ from + 1 \in 1..Len(text) + 1 /\ src \in (from + 1) - 1..Len(text) /\ Len(text) \in src..Len(text)
      BY <1>1, <1>3
    <3> QED BY <3>1, ConcatAdjacentSubSeq
  <2> HIDE DEF cut, rest
  <2>3. (F \o cut) \o rest = F \o (cut \o rest)
    <3>1. F \in Seq(Letters) /\ cut \in Seq(Letters) /\ rest \in Seq(Letters) BY <1>1, <1>4, <2>1
    <3> HIDE DEF F, rest
    <3> QED BY <3>1, JoinLetters
  <2>4. WovenOf(text, ms, Len(text)) = (F \o cut) \o rest BY <1>2, <2>2, <2>3
  <2> QED BY <2>4, <1>2 DEF cut, rest
<1> QED BY <1>5, <1>6

(* What is asked of the cases of gsub: subjects of characters, replacement *)
(* strings that write their items, captures inside the subject.            *)
TriedIn(c) == IF c.anchor THEN Tail(c.p) ELSE c.p
Written(r) ==
  r.kind = "string" => /\ r.items \in Seq(ItemSet)
                       /\ r.text = FlattenSeq([k \in DOMAIN r.items |-> Spelled(r.items[k])])
GsubCases ==
  \A c \in Cases :
    /\ Characters(c) /\ \A r \in c.repls : Written(r)
    /\ \A i \in 0..Len(c.s) : LET m == Matcher(c.s, TriedIn(c), i) IN m.r = "yes" => Inside(c.s, m)

PiecesIn(c) == PieceSet(c.s, {Matcher(c.s, TriedIn(c), i).caps : i \in 0..Len(c.s)})

(* The replaced matches are the first ones of the scan, and all of them before*)
(* upto.                                                                   *)
FirstMatches(c, ps, upto) ==
  /\ \A k \in DOMAIN ps : NextMatch(c, c.items, ps, k)
  /\ \A i \in From(ps, Len(ps) + 1)..(upto - 1) : ~Fits(c, c.items, ps, i, Len(ps) + 1)

(* What gsub has put out, and which places it need not try again.          *)
PutOut(c, r, max, out, src, last, count, ps) ==
  LET from == From(ps, Len(ps) + 1)
  IN /\ ps \in Seq(PiecesIn(c)) /\ r \in c.repls /\ max \in Int
     /\ src \in from..Len(c.s) /\ last = IF ps = <<>> THEN -1 ELSE from
     /\ out = WovenOf(c.s, ps, src) /\ count = Len(ps) /\ (ps # <<>> => Len(ps) <= max)
     /\ r.kind = "string" => \A k \in DOMAIN ps : ps[k].text = Standing(c.s, r.items, ps[k])
Passed(c, ph, src, ps) ==
  LET from == From(ps, Len(ps) + 1)
  IN /\ ~c.anchor => FirstMatches(c, ps, IF ph = "end" THEN Len(c.s) + 1 ELSE src)
     /\ c.anchor /\ ph # "end" => src = 0 /\ ps = <<>>
     /\ c.anchor /\ ps = <<>> => FirstMatches(c, ps, IF ph = "end" THEN 1 ELSE 0)
     /\ c.anchor /\ ps # <<>> => src = from /\ FirstMatches(c, ps, from)
Replacing(c, ph, r, max, out, src, last, count, ps, m) ==
  /\ PutOut(c, r, max, out, src, last, count, ps) /\ Passed(c, ph, src, ps)
  /\ ph = "callback" => /\ m = Matcher(c.s, TriedIn(c), src) /\ m.r = "yes" /\ m.end # last
                        /\ r.kind # "string" /\ count < max
ReplaceInv ==
  gsub.phase # "idle" => Replacing(case, gsub.phase, gsub.repl, gsub.max, gsub.out, gsub.src, gsub.last,
                                   gsub.count, gsub.pieces, gsub.m)

(* What gsub has returned.                                                 *)
Returned(c, res) ==
  /\ res.values # <<error>> =>
       /\ res.values = <<<<"str", WovenOf(c.s, res.pieces, Len(c.s))>>, <<"int", Len(res.pieces)>>>>
       /\ Len(res.pieces) < res.max =>
            FirstMatches(c, res.pieces, IF c.anchor THEN IF res.pieces = <<>> THEN 1 ELSE 0 ELSE Len(c.s) + 1)
       /\ res.pieces # <<>> => Len(res.pieces) <= res.max
  /\ res.values = <<error>> /\ res.repl.kind = "string" =>
       \E i \in 0..Len(c.s) :
         LET m == Intended(c.items, c.s, i)
         IN \/ Bad(m)
            \/ m.r = "yes" /\ \E k \in DOMAIN res.repl.items :
                 LET it == res.repl.items[k] IN it[1] = "cap" /\ it[2] > Max({1, Len(m.caps)})
ReturnInv == result # NoResult /\ result.op = "gsub" => Returned(case, result)

(* This is what Scan says of the case at hand.                             *)
LEMMA FirstMatchesSay ==
  ASSUME NEW ps, NEW upto
  PROVE  Scan(case.items, ps, upto) <=> FirstMatches(case, ps, upto)
BY ScanSays, Zenon DEF FirstMatches

(* What holds up to a place holds up to an earlier one.                    *)
LEMMA FirstMatchesDown ==
  ASSUME NEW c, NEW ps, From(ps, Len(ps) + 1) \in Int, NEW a \in Int, NEW b \in Int, b <= a, FirstMatches(c, ps, a)
  PROVE  FirstMatches(c, ps, b)
<1>1. \A i \in From(ps, Len(ps) + 1)..(b - 1) : i \in From(ps, Len(ps) + 1)..(a - 1) OBVIOUS
<1> QED BY <1>1, Zenon DEF FirstMatches

(* The two invariants say what GsubReplacesScan does, of what is returned  *)
(* ...                                                                     *)
LEMMA ReturnedIsScan ==
  ASSUME ReturnInv
  PROVE  /\ result # NoResult /\ result.op = "gsub" /\ result.values # <<error>> =>
              /\ result.values = <<<<"str", Woven(result.pieces, Len(s))>>, <<"int", Len(result.pieces)>>>>
              /\ Len(result.pieces) < result.max =>
                   Scan(case.items, result.pieces, IF case.anchor THEN IF result.pieces = <<>> THEN 1 ELSE 0
                                                   ELSE Len(s) + 1)
              /\ result.pieces # <<>> => Len(result.pieces) <= result.max
         /\ result # NoResult /\ result.op = "gsub" /\ result.values = <<error>> /\ result.repl.kind = "string" =>
              \E i \in 0..Len(s) :
                \/ Bad(Meant(i))
                \/ Meant(i).r = "yes" /\ \E k \in DOMAIN result.repl.items :
                     LET it == result.repl.items[k] IN it[1] = "cap" /\ it[2] > Max({1, Len(Meant(i).caps)})
<1> SUFFICES ASSUME Returned(case, result) 
             PROVE  /\ result.values # <<error>> =>
                         /\ result.values = <<<<"str", Woven(result.pieces, Len(s))>>, <<"int", Len(result.pieces)>>>>
                         /\ Len(result.pieces) < result.max =>
                              Scan(case.items, result.pieces, IF case.anchor THEN IF result.pieces = <<>> THEN 1 ELSE 0
                                                              ELSE Len(s) + 1)
                         /\ result.pieces # <<>> => Len(result.pieces) <= result.max
                    /\ result.values = <<error>> /\ result.repl.kind = "string" =>
                         \E i \in 0..Len(s) :
                           \/ Bad(Meant(i))
                           \/ Meant(i).r = "yes" /\ \E k \in DOMAIN result.repl.items :
                                LET it == result.repl.items[k] IN it[1] = "cap" /\ it[2] > Max({1, Len(Meant(i).caps)})
  BY Zenon DEF ReturnInv
<1>1. Woven(result.pieces, Len(s)) = WovenOf(case.s, result.pieces, Len(case.s)) BY WovenSays DEF s
<1>2. \A upto : Scan(case.items, result.pieces, upto) <=> FirstMatches(case, result.pieces, upto) BY FirstMatchesSay
<1>3. \A i : Meant(i) = Intended(case.items, case.s, i) BY DEF Meant, s
<1>4. Len(s) = Len(case.s) BY DEF s
<1> QED BY <1>1, <1>2, <1>3, <1>4, Zenon DEF Returned

(* ... and of a call in progress.                                          *)
LEMMA ReplaceIsScan ==
  ASSUME StrInv, ReplaceInv, gsub.phase # "idle"
  PROVE  /\ gsub.out = Woven(gsub.pieces, gsub.src) /\ gsub.count = Len(gsub.pieces)
         /\ Scan(case.items, gsub.pieces, IF case.anchor THEN Min({gsub.src, 1}) ELSE gsub.src)
         /\ gsub.repl.kind = "string" =>
              \A k \in DOMAIN gsub.pieces : gsub.pieces[k].text = ReplacementText(gsub.pieces[k])
<1> DEFINE ps == gsub.pieces
           src == gsub.src
           from == From(ps, Len(ps) + 1)
           upto == IF case.anchor THEN Min({src, 1}) ELSE src
<1>1. /\ PutOut(case, gsub.repl, gsub.max, gsub.out, src, gsub.last, gsub.count, ps)
      /\ Passed(case, gsub.phase, src, ps)
  BY DEF ReplaceInv, Replacing
<1>2. ps \in Seq(PiecesIn(case)) /\ src \in from..Len(s) /\ from \in 0..Len(s) /\ Len(s) \in Nat
  <2>1. s \in Seq(STRING) /\ STRING \subseteq Letters BY MatchAssumption DEF s, StrInv, Letters
  <2>2. s \in Seq(Letters) BY <2>1, SeqMonotonic
  <2>3. ps \in Seq(PiecesIn(case)) /\ src \in from..Len(s) BY <1>1 DEF PutOut, s
  <2>4. Len(ps) \in Nat /\ \A k \in 1..(Len(ps) + 1) : From(ps, k) \in 0..Len(s)
    BY <2>2, <2>3, WovenTyped DEF PiecesIn, s
  <2>5. Len(ps) + 1 \in 1..(Len(ps) + 1) BY <2>4
  <2> QED BY <2>2, <2>3, <2>4, <2>5
<1>3. gsub.out = Woven(ps, src) /\ gsub.count = Len(ps) BY <1>1, WovenSays DEF PutOut, s
<1>4. gsub.repl.kind = "string" => \A k \in DOMAIN ps : ps[k].text = ReplacementText(ps[k])
  BY <1>1, StandingSays, Zenon DEF PutOut, s
<1>5. FirstMatches(case, ps, upto)
  <2>0. \A a, b : b <= a /\ a \in Int /\ b \in Int /\ FirstMatches(case, ps, a) => FirstMatches(case, ps, b)
    BY <1>2, FirstMatchesDown
  <2>1. CASE ~case.anchor
    <3>1. FirstMatches(case, ps, IF gsub.phase = "end" THEN Len(s) + 1 ELSE src) BY <1>1, <2>1 DEF Passed, s
    <3> HIDE DEF ps, src, from
    <3> QED BY <3>1, <2>0, <2>1, <1>2
  <2>2. CASE case.anchor
    <3>1. upto \in {src, 1} /\ upto <= src /\ upto <= 1
      <4>1. {src, 1} \subseteq Nat /\ {src, 1} # {} BY <1>2
      <4>2. Min({src, 1}) \in {src, 1} /\ \A y \in {src, 1} : Min({src, 1}) <= y BY <4>1, MinNat
      <4>3. upto = Min({src, 1}) BY <2>2
      <4> HIDE DEF upto
      <4> QED BY <4>2, <4>3
    <3>2. CASE ps = <<>> /\ gsub.phase = "end"
      <4>1. FirstMatches(case, ps, 1) BY <1>1, <2>2, <3>2 DEF Passed
      <4> HIDE DEF ps, src, from, upto
      <4>2. upto <= 1 /\ 1 \in Int /\ upto \in Int BY <3>1, <1>2
      <4> QED BY <4>1, <4>2, <2>0, Zenon
    <3>3. CASE ps = <<>> /\ gsub.phase # "end"
      <4>1. FirstMatches(case, ps, 0) /\ src = 0 BY <1>1, <2>2, <3>3 DEF Passed
      <4> HIDE DEF ps, src, from, upto
      <4> QED BY <4>1, <2>0, <3>1, <1>2
    <3>4. CASE ps # <<>>
      <4>1. src = from /\ FirstMatches(case, ps, from) BY <1>1, <2>2, <3>4 DEF Passed
      <4> HIDE DEF ps, src, from, upto
      <4>2. upto <= from /\ from \in Int /\ upto \in Int BY <4>1, <3>1, <1>2
      <4> QED BY <4>1, <4>2, <2>0, Zenon
    <3> QED BY <3>2, <3>3, <3>4
  <2> QED BY <2>1, <2>2
<1> HIDE DEF upto
<1>6. Scan(case.items, ps, upto) BY <1>5, FirstMatchesSay
<1> QED BY <1>3, <1>4, <1>6 DEF upto

(* Where the loop stands it replaces exactly what the items match there, and*)
(* panics where they have an error.                                        *)
LEMMA PlaceFits ==
  ASSUME MatcherAgrees, StrInv, NEW src, NEW last, NEW ps,
         LET from == From(ps, Len(ps) + 1)
         IN ps \in Seq(PiecesIn(case)) /\ src \in 0..Len(s) /\ last = IF ps = <<>> THEN -1 ELSE from
  PROVE  LET m == Matcher(s, Tried, src)
             n == Intended(case.items, s, src)
         IN /\ Fits(case, case.items, ps, src, Len(ps) + 1) <=> m.r = "yes" /\ m.end # last
            /\ m.r \in {"yes", "no", "panic"} /\ n.r = m.r
            /\ m.r = "yes" => /\ m.start = src /\ m.end = n.end /\ m.caps = n.caps
                              /\ m.end \in src..Len(s)
<1> DEFINE next == Len(ps) + 1
           m == Matcher(s, Tried, src)
           n == Intended(case.items, s, src)
           from == From(ps, next)
<1>1. /\ m.r \in {"yes", "no", "panic"} /\ n.r = m.r
      /\ m.r = "yes" => m.start = src /\ m.end = n.end /\ m.caps = n.caps
  BY Zenon DEF MatcherAgrees, Agrees, StrInv, s, p, Tried
<1>2. m.r = "yes" => m.end \in src..Len(s) BY MatchesForward DEF StrInv
<1>3. src \in 0..Len(s) /\ Len(s) \in Nat BY MatchesForward DEF StrInv
<1>4. next = 1 <=> ps = <<>>
  <2> DEFINE T == PiecesIn(case)
  <2>1. ps \in Seq(T) OBVIOUS
  <2> HIDE DEF T
  <2> QED BY <2>1
<1>5. last = IF ps = <<>> THEN -1 ELSE from OBVIOUS
<1>6. Fits(case, case.items, ps, src, next) <=> n.r = "yes" /\ (next = 1 \/ n.end # from)
  BY Zenon DEF Fits, s
<1> HIDE DEF m, n, next, from
<1>7. m.r = "yes" => (m.end # last <=> next = 1 \/ m.end # from)
  BY <1>2, <1>3, <1>4, <1>5
<1>8. Fits(case, case.items, ps, src, next) <=> m.r = "yes" /\ m.end # last BY <1>1, <1>6, <1>7, Zenon
<1> QED BY <1>1, <1>2, <1>8 DEF m, n, next

(* A state of gsub that keeps the invariant, with nothing returned.        *)
LEMMA ReplacingNext ==
  ASSUME NEW ph, NEW r, NEW max, NEW out, NEW src, NEW last, NEW count, NEW ps, NEW m,
         gsub' = [phase |-> ph, repl |-> r, max |-> max, out |-> out, src |-> src, last |-> last,
                  count |-> count, pieces |-> ps, m |-> m],
         UNCHANGED <<case, result>>, Replacing(case, ph, r, max, out, src, last, count, ps, m), ReturnInv
  PROVE  ReplaceInv' /\ ReturnInv'
<1>1. /\ gsub'.phase = ph /\ gsub'.repl = r /\ gsub'.max = max /\ gsub'.out = out /\ gsub'.src = src
      /\ gsub'.last = last /\ gsub'.count = count /\ gsub'.pieces = ps /\ gsub'.m = m
  OBVIOUS
<1>2. Replacing(case', gsub'.phase, gsub'.repl, gsub'.max, gsub'.out, gsub'.src, gsub'.last, gsub'.count,
                gsub'.pieces, gsub'.m)
  BY <1>1
<1>3. ReplaceInv' BY <1>2 DEF ReplaceInv
<1>4. ReturnInv' BY DEF ReturnInv
<1> QED BY <1>3, <1>4

(* The end of a call, with its values.                                     *)
LEMMA FinishReturns ==
  ASSUME NEW values, Finish(values), UNCHANGED case,
         Returned(case, [op |-> "gsub", repl |-> gsub.repl, max |-> gsub.max, pieces |-> gsub.pieces, values |-> values])
  PROVE  ReplaceInv' /\ ReturnInv'
<1> DEFINE res == [op |-> "gsub", repl |-> gsub.repl, max |-> gsub.max, pieces |-> gsub.pieces, values |-> values]
<1>1. gsub' = Idle /\ result' = res BY DEF Finish
<1>2. ReplaceInv' BY <1>1 DEF ReplaceInv, Idle
<1>3. Returned(case', result') BY <1>1
<1>4. ReturnInv' BY <1>3 DEF ReturnInv
<1> QED BY <1>2, <1>4

(* An error is returned for an error of the pattern where the loop stands, or*)
(* for a capture that a match does not have.                               *)
LEMMA RaiseReturns ==
  ASSUME Raise, UNCHANGED case,
         gsub.repl.kind = "string" =>
           \E i \in 0..Len(s) :
             LET m == Intended(case.items, s, i)
             IN \/ Bad(m)
                \/ m.r = "yes" /\ \E k \in DOMAIN gsub.repl.items :
                     LET it == gsub.repl.items[k] IN it[1] = "cap" /\ it[2] > Max({1, Len(m.caps)})
  PROVE  ReplaceInv' /\ ReturnInv'
<1> DEFINE res == [op |-> "gsub", repl |-> gsub.repl, max |-> gsub.max, pieces |-> gsub.pieces, values |-> <<error>>]
<1>1. Returned(case, res)
  <2>1. res.values = <<error>> /\ res.repl = gsub.repl OBVIOUS
  <2> HIDE DEF res
  <2> QED BY <2>1, Zenon DEF Returned, s
<1> QED BY <1>1, FinishReturns DEF Raise

(* What is known where the loop stands.                                    *)
LEMMA LoopTyped ==
  ASSUME GsubCases, StrInv, ReplaceInv, gsub.phase # "idle"
  PROVE  LET ps == gsub.pieces
             from == From(ps, Len(ps) + 1)
         IN /\ s \in Seq(Letters) /\ Len(s) \in Nat /\ Characters(case) /\ Written(gsub.repl)
            /\ ps \in Seq(PiecesIn(case)) /\ Len(ps) \in Nat /\ from \in 0..Len(s) /\ gsub.src \in from..Len(s)
            /\ PutOut(case, gsub.repl, gsub.max, gsub.out, gsub.src, gsub.last, gsub.count, ps)
            /\ Passed(case, gsub.phase, gsub.src, ps)
            /\ gsub = [phase |-> gsub.phase, repl |-> gsub.repl, max |-> gsub.max, out |-> gsub.out,
                       src |-> gsub.src, last |-> gsub.last, count |-> gsub.count, pieces |-> ps, m |-> gsub.m]
            /\ gsub.phase \in {"loop", "callback", "end"}
<1> DEFINE ps == gsub.pieces
           from == From(ps, Len(ps) + 1)
<1>1. /\ PutOut(case, gsub.repl, gsub.max, gsub.out, gsub.src, gsub.last, gsub.count, ps)
      /\ Passed(case, gsub.phase, gsub.src, ps)
  BY DEF ReplaceInv, Replacing
<1>2. s \in Seq(Letters)
  <2>1. s \in Seq(STRING) /\ STRING \subseteq Letters BY MatchAssumption DEF s, StrInv, Letters
  <2> QED BY <2>1, SeqMonotonic
<1>3. ps \in Seq(PiecesIn(case)) /\ gsub.src \in from..Len(s) /\ gsub.repl \in case.repls BY <1>1 DEF PutOut, s
<1>4. Len(ps) \in Nat /\ Len(s) \in Nat /\ from \in 0..Len(s)
  <2>1. Len(ps) \in Nat /\ Len(s) \in Nat /\ \A k \in 1..(Len(ps) + 1) : From(ps, k) \in 0..Len(s)
    BY <1>2, <1>3, WovenTyped DEF PiecesIn, s
  <2>2. Len(ps) + 1 \in 1..(Len(ps) + 1) BY <2>1
  <2> QED BY <2>1, <2>2
<1>5. Characters(case) /\ Written(gsub.repl) BY <1>3, Zenon DEF GsubCases, StrInv
<1>6. gsub # Idle BY DEF Idle
<1>7. /\ gsub = [phase |-> gsub.phase, repl |-> gsub.repl, max |-> gsub.max, out |-> gsub.out, src |-> gsub.src,
                 last |-> gsub.last, count |-> gsub.count, pieces |-> gsub.pieces, m |-> gsub.m]
      /\ gsub.phase \in {"loop", "callback", "end"}
  BY <1>6 DEF StrInv, GsubTyped
<1> QED BY <1>1, <1>2, <1>3, <1>4, <1>5, <1>7

(* A match where the loop stands is replaced: it is the next one of the scan.*)
LEMMA PieceReplaced ==
  ASSUME MatcherAgrees, GsubCases, StrInv, ReplaceInv, ReturnInv, gsub.phase \in {"loop", "callback"},
         NEW m, m = Matcher(s, Tried, gsub.src), m.r = "yes", m.end # gsub.last, gsub.count < gsub.max,
         NEW text \in Seq(Letters), gsub.repl.kind = "string" => text = Standing(s, gsub.repl.items, m),
         gsub' = Replaced(m, text), UNCHANGED <<case, result>>
  PROVE  ReplaceInv' /\ ReturnInv'
<1> DEFINE ps == gsub.pieces
           n == Len(ps)
           from == From(ps, n + 1)
           rec == [start |-> m.start, end |-> m.end, caps |-> m.caps, text |-> text]
           new == Append(ps, rec)
           T == PiecesIn(case)
           ph == IF case.anchor THEN "end" ELSE "loop"
           out == gsub.out \o text
           r == gsub.repl
<1>1. gsub.phase # "idle" OBVIOUS
<1>2. /\ s \in Seq(Letters) /\ Len(s) \in Nat
      /\ ps \in Seq(T) /\ n \in Nat /\ from \in 0..Len(s) /\ gsub.src \in from..Len(s)
      /\ PutOut(case, r, gsub.max, gsub.out, gsub.src, gsub.last, gsub.count, ps)
      /\ Passed(case, gsub.phase, gsub.src, ps)
      /\ gsub = [phase |-> gsub.phase, repl |-> r, max |-> gsub.max, out |-> gsub.out,
                 src |-> gsub.src, last |-> gsub.last, count |-> gsub.count, pieces |-> ps, m |-> gsub.m]
  BY <1>1, LoopTyped
<1>3. /\ r \in case.repls /\ gsub.max \in Int /\ gsub.last = (IF ps = <<>> THEN -1 ELSE from)
      /\ gsub.out = WovenOf(s, ps, gsub.src) /\ gsub.count = n
      /\ r.kind = "string" => \A k \in DOMAIN ps : ps[k].text = Standing(s, r.items, ps[k])
  BY <1>2 DEF PutOut, s
<1>4. LET i == Intended(case.items, s, gsub.src)
      IN /\ Fits(case, case.items, ps, gsub.src, n + 1)
         /\ m.start = gsub.src /\ m.end = i.end /\ m.caps = i.caps /\ m.end \in gsub.src..Len(s)
  <2>1. gsub.src \in 0..Len(s) BY <1>2
  <2> HIDE DEF from
  <2> QED BY <2>1, <1>2, <1>3, PlaceFits DEF from
<1>5. /\ rec.start = gsub.src /\ rec.end = m.end /\ rec.caps = m.caps /\ rec.text = text
      /\ rec \in PieceSet(s, {Matcher(s, Tried, i).caps : i \in 0..Len(s)}) /\ rec \in T
  <2>1. rec.start = gsub.src /\ rec.end = m.end /\ rec.caps = m.caps /\ rec.text = text BY <1>4
  <2>2. m.start \in 0..Len(s) /\ m.end \in 0..Len(s) BY <1>2, <1>4
  <2>3. m.caps \in {Matcher(s, Tried, i).caps : i \in 0..Len(s)}
    <3>1. gsub.src \in 0..Len(s) BY <1>2
    <3> QED BY <3>1
  <2>4. rec \in PieceSet(s, {Matcher(s, Tried, i).caps : i \in 0..Len(s)})
    <3> DEFINE C == {Matcher(s, Tried, i).caps : i \in 0..Len(s)}
    <3> HIDE DEF C
    <3>1. m.caps \in C BY <2>3 DEF C
    <3>2. rec \in PieceSet(s, C) BY <2>2, <3>1 DEF PieceSet
    <3> QED BY <3>2 DEF C
  <2>5. T = PieceSet(s, {Matcher(s, Tried, i).caps : i \in 0..Len(s)}) BY DEF PiecesIn, TriedIn, Tried, s, p
  <2> HIDE DEF rec, T
  <2> QED BY <2>1, <2>4, <2>5
<1>6. /\ new \in Seq(T) /\ new # <<>> /\ Len(new) = n + 1 /\ new[n + 1] = rec /\ DOMAIN new = 1..(n + 1)
      /\ DOMAIN ps = 1..n /\ \A k \in 1..n : new[k] = ps[k]
  <2> HIDE DEF T, rec
  <2> QED BY <1>2, <1>5
<1>7. WovenOf(s, new, m.end) = out
  <2>1. WovenOf(s, Append(ps, rec), rec.end) = WovenOf(s, ps, rec.start) \o rec.text
    <3> DEFINE C == {Matcher(s, Tried, i).caps : i \in 0..Len(s)}
    <3>1. T = PieceSet(s, C) BY DEF PiecesIn, TriedIn, Tried, s, p
    <3>2. s \in Seq(Letters) /\ ps \in Seq(PieceSet(s, C)) /\ rec \in PieceSet(s, C)
      BY <1>2, <1>5, <3>1
    <3> HIDE DEF rec, T, C, ps
    <3> QED BY <3>2, WovenPiece
  <2> QED BY <2>1, <1>3, <1>5
<1>8. From(new, Len(new) + 1) = m.end
  <2> HIDE DEF new, rec
  <2> QED BY <1>2, <1>5, <1>6 DEF From
<1>9. FirstMatches(case, new, m.end)
  <2>1. \A k \in DOMAIN ps : NextMatch(case, case.items, ps, k)
    <3>1. \/ ~case.anchor /\ \E upto : FirstMatches(case, ps, upto)
          \/ case.anchor /\ \E upto : FirstMatches(case, ps, upto)
      BY <1>2, Zenon DEF Passed
    <3> QED BY <3>1, Zenon DEF FirstMatches
  <2>2. \A i \in from..(gsub.src - 1) : ~Fits(case, case.items, ps, i, n + 1)
    <3>1. CASE ~case.anchor
      <4>1. FirstMatches(case, ps, gsub.src) BY <1>2, <3>1 DEF Passed
      <4> QED BY <4>1, Zenon DEF FirstMatches
    <3>2. CASE case.anchor
      <4>1. gsub.src = 0 BY <1>2, <3>2 DEF Passed
      <4>2. from..(gsub.src - 1) = {} BY <4>1, <1>2
      <4> QED BY <4>2, Zenon
    <3> QED BY <3>1, <3>2
  <2>3. rec.start >= from /\ rec.end \in Int BY <1>2, <1>4, <1>5
  <2>4. LET i == Intended(case.items, s, rec.start)
        IN /\ rec.start >= from /\ Fits(case, case.items, ps, rec.start, n + 1)
           /\ rec.end = i.end /\ rec.caps = i.caps
           /\ \A j \in from..(rec.start - 1) : ~Fits(case, case.items, ps, j, n + 1)
    <3> HIDE DEF rec, from, n
    <3> QED BY <2>2, <2>3, <1>4, <1>5, Zenon
  <2>5. Scan(case.items, Append(ps, rec), rec.end)
    <3> HIDE DEF rec, T
    <3> QED BY <2>1, <2>3, <2>4, <1>2, ScanGoesOn
  <2> QED BY <2>5, <1>5, FirstMatchesSay
<1>10. r.kind = "string" => \A k \in DOMAIN new : new[k].text = Standing(s, r.items, new[k])
  <2> SUFFICES ASSUME r.kind = "string", NEW k \in DOMAIN new PROVE new[k].text = Standing(s, r.items, new[k])
    OBVIOUS
  <2>1. CASE k \in 1..n
    <3>1. new[k] = ps[k] /\ k \in DOMAIN ps BY <2>1, <1>6
    <3> QED BY <3>1, <1>3, Zenon
  <2>2. CASE k = n + 1
    <3>1. new[k] = rec BY <2>2, <1>6
    <3>2. Standing(s, r.items, rec) = Standing(s, r.items, m)
      <4>1. rec.start = m.start /\ rec.end = m.end /\ rec.caps = m.caps OBVIOUS
      <4> HIDE DEF rec
      <4> QED BY <4>1, Zenon DEF Standing
    <3> HIDE DEF new, rec
    <3> QED BY <3>1, <3>2, <1>5, Zenon
  <2>3. k \in 1..n \/ k = n + 1
    <3> HIDE DEF new
    <3> QED BY <1>2, <1>6
  <2> QED BY <2>1, <2>2, <2>3
<1>11. gsub' = [phase |-> ph, repl |-> r, max |-> gsub.max, out |-> out, src |-> m.end, last |-> m.end,
                count |-> gsub.count + 1, pieces |-> new, m |-> NoMatch]
  <2> DEFINE ct == gsub.count + 1
             e == m.end
  <2>1. gsub' = [gsub EXCEPT !.phase = ph, !.count = ct, !.out = out, !.src = e, !.last = e, !.m = NoMatch,
                             !.pieces = new]
    BY DEF Replaced
  <2> HIDE DEF ph, ct, out, new, e
  <2>2. gsub' = [phase |-> ph, repl |-> r, max |-> gsub.max, out |-> out, src |-> e, last |-> e, count |-> ct,
                 pieces |-> new, m |-> NoMatch]
    BY <2>1, <1>2
  <2> QED BY <2>2 DEF ct, e
<1> DEFINE e == m.end
           ct == gsub.count + 1
<1>12. PutOut(case, r, gsub.max, out, e, e, ct, new)
  <2>1. ct = Len(new) /\ Len(new) <= gsub.max
    <3> HIDE DEF new
    <3> QED BY <1>2, <1>3, <1>6
  <2>2. e \in From(new, Len(new) + 1)..Len(case.s)
    <3>1. e \in 0..Len(case.s) BY <1>2, <1>4 DEF s
    <3> HIDE DEF new, e
    <3>2. From(new, Len(new) + 1) = e BY <1>8 DEF e
    <3> QED BY <3>1, <3>2
  <2> HIDE DEF new, out, r, ct, T
  <2> QED BY <2>1, <2>2, <1>3, <1>6, <1>7, <1>8, <1>10, Zenon DEF PutOut, s, T
<1>13. Passed(case, ph, e, new)
  <2> HIDE DEF new, e
  <2>1. From(new, Len(new) + 1) = e /\ FirstMatches(case, new, e) BY <1>8, <1>9 DEF e
  <2> QED BY <2>1, <1>6 DEF Passed
<1>14. Replacing(case, ph, r, gsub.max, out, e, e, ct, new, NoMatch)
  <2>1. ph # "callback" OBVIOUS
  <2> HIDE DEF ph, r, out, e, ct, new
  <2> QED BY <2>1, <1>12, <1>13 DEF Replacing
<1> HIDE DEF ph, r, out, e, ct, new
<1> QED BY <1>11, <1>14, ReplacingNext DEF e, ct

(* The values a call ends with: the subject with its matches replaced.     *)
LEMMA EndReturns ==
  ASSUME GsubCases, StrInv, ReplaceInv, ReturnInv, GsubEnd
  PROVE  ReplaceInv' /\ ReturnInv'
<1> DEFINE ps == gsub.pieces
           from == From(ps, Len(ps) + 1)
           n == Len(s)
           values == <<<<"str", gsub.out \o Slice(gsub.src, n)>>, <<"int", gsub.count>>>>
           res == [op |-> "gsub", repl |-> gsub.repl, max |-> gsub.max, pieces |-> ps, values |-> values]
<1>1. /\ Finish(values) /\ UNCHANGED case /\ gsub.phase # "idle"
      /\ gsub.phase = "end" \/ gsub.count >= gsub.max
  BY DEF GsubEnd
<1>2. /\ s \in Seq(Letters) /\ n \in Nat
      /\ ps \in Seq(PiecesIn(case)) /\ Len(ps) \in Nat /\ from \in 0..n /\ gsub.src \in from..n
      /\ PutOut(case, gsub.repl, gsub.max, gsub.out, gsub.src, gsub.last, gsub.count, ps)
      /\ Passed(case, gsub.phase, gsub.src, ps)
  BY <1>1, LoopTyped
<1>3. /\ gsub.max \in Int /\ gsub.out = WovenOf(s, ps, gsub.src) /\ gsub.count = Len(ps)
      /\ ps # <<>> => Len(ps) <= gsub.max
  BY <1>2 DEF PutOut, s
<1>4. values = <<<<"str", WovenOf(s, ps, n)>>, <<"int", Len(ps)>>>>
  <2>1. gsub.src \in 0..n /\ from <= gsub.src BY <1>2
  <2>2. WovenOf(s, ps, n) = WovenOf(s, ps, gsub.src) \o SubSeq(s, gsub.src + 1, n)
    BY <2>1, <1>2, WovenCopy DEF PiecesIn, s
  <2> QED BY <2>2, <1>3 DEF Slice
<1>5. values # <<error>>
  <2>1. Len(values) = 2 /\ Len(<<error>>) = 1 OBVIOUS
  <2> HIDE DEF values
  <2> QED BY <2>1
<1>6. Len(ps) < gsub.max =>
        FirstMatches(case, ps, IF case.anchor THEN IF ps = <<>> THEN 1 ELSE 0 ELSE n + 1)
  <2> SUFFICES ASSUME Len(ps) < gsub.max
               PROVE  FirstMatches(case, ps, IF case.anchor THEN IF ps = <<>> THEN 1 ELSE 0 ELSE n + 1)
    OBVIOUS
  <2>1. gsub.phase = "end" BY <1>1, <1>2, <1>3
  <2>2. CASE ~case.anchor \/ ps = <<>> BY <2>1, <2>2, <1>2 DEF Passed, s
  <2>3. CASE case.anchor /\ ps # <<>>
    <3>1. FirstMatches(case, ps, from) BY <2>3, <1>2 DEF Passed
    <3>2. from \in Int /\ 0 <= from BY <1>2
    <3>3. FirstMatches(case, ps, 0) BY <3>1, <3>2, FirstMatchesDown
    <3> QED BY <3>3, <2>3
  <2> QED BY <2>2, <2>3
<1>7. Returned(case, res)
  <2>1. res.values = values /\ res.repl = gsub.repl /\ res.max = gsub.max /\ res.pieces = ps OBVIOUS
  <2> HIDE DEF res, values, ps, n
  <2> QED BY <2>1, <1>3, <1>4, <1>5, <1>6, Zenon DEF Returned, n, s
<1> HIDE DEF values
<1> QED BY <1>1, <1>7, FinishReturns

(* A round of the loop.                                                    *)
LEMMA LoopReplaces ==
  ASSUME MatcherAgrees, GsubCases, StrInv, ReplaceInv, ReturnInv, GsubIteration
  PROVE  ReplaceInv' /\ ReturnInv'
<1> DEFINE m == Matcher(s, Tried, gsub.src)
           counts == m.r = "yes" /\ m.end # gsub.last
           ph == IF case.anchor THEN "end" ELSE "loop"
           ot == Append(gsub.out, s[gsub.src + 1])
           text == gsub_expand_repl(gsub.repl.text, m)
           ps == gsub.pieces
           from == From(ps, Len(ps) + 1)
           n == Intended(case.items, s, gsub.src)
           r == gsub.repl
<1>1. gsub.phase = "loop" /\ gsub.phase # "idle" /\ gsub.count < gsub.max /\ UNCHANGED case BY DEF GsubIteration
<1>2. /\ s \in Seq(Letters) /\ Len(s) \in Nat /\ Characters(case) /\ Written(r)
      /\ ps \in Seq(PiecesIn(case)) /\ Len(ps) \in Nat /\ from \in 0..Len(s) /\ gsub.src \in from..Len(s)
      /\ PutOut(case, r, gsub.max, gsub.out, gsub.src, gsub.last, gsub.count, ps)
      /\ Passed(case, "loop", gsub.src, ps)
  BY <1>1, LoopTyped
<1>0. gsub = [phase |-> gsub.phase, repl |-> r, max |-> gsub.max, out |-> gsub.out,
              src |-> gsub.src, last |-> gsub.last, count |-> gsub.count, pieces |-> ps, m |-> gsub.m]
  BY <1>1, LoopTyped
<1>3. /\ r \in case.repls /\ gsub.max \in Int /\ gsub.last = (IF ps = <<>> THEN -1 ELSE from)
      /\ gsub.out = WovenOf(s, ps, gsub.src) /\ gsub.count = Len(ps) /\ (ps # <<>> => Len(ps) <= gsub.max)
      /\ r.kind = "string" => \A k \in DOMAIN ps : ps[k].text = Standing(s, r.items, ps[k])
  BY <1>2 DEF PutOut, s
<1>4. gsub.src \in 0..Len(s) BY <1>2
<1>5. /\ Fits(case, case.items, ps, gsub.src, Len(ps) + 1) <=> counts
      /\ m.r \in {"yes", "no", "panic"} /\ n.r = m.r
      /\ m.r = "yes" => /\ m.start = gsub.src /\ m.end = n.end /\ m.caps = n.caps
                        /\ m.end \in gsub.src..Len(s)
  <2> HIDE DEF from
  <2> QED BY <1>2, <1>3, <1>4, PlaceFits DEF from
<1>6. m.r = "yes" => Inside(s, m)
  BY <1>4, Zenon DEF GsubCases, StrInv, TriedIn, Tried, s, p
<1>7. CASE m.r = "panic" /\ Raise
  <2>1. Bad(n) BY <1>5, <1>7 DEF Bad
  <2> HIDE DEF n
  <2> QED BY <2>1, <1>1, <1>4, <1>7, RaiseReturns DEF n
<1>8. CASE counts /\ r.kind = "string" /\ (IF text = error THEN Raise ELSE gsub' = Replaced(m, text) /\ UNCHANGED result)
  <2>1. Inside(s, m) /\ r.items \in Seq(ItemSet) /\ r.text = FlattenSeq([k \in DOMAIN r.items |-> Spelled(r.items[k])])
    BY <1>2, <1>6, <1>8 DEF Written
  <2>2. \/ text = error /\ Lacks(r.items, m)
        \/ text # error /\ text \in Seq(Chars) /\ text = Standing(s, r.items, m)
    <3> HIDE DEF m, r
    <3> QED BY <2>1, <1>2, ReplacementPut DEF r
  <2>3. CASE text = error
    <3>1. n.r = "yes" /\ n.caps = m.caps /\ Lacks(r.items, m) BY <2>2, <2>3, <1>5, <1>8
    <3> HIDE DEF n, m
    <3>2. \E k \in DOMAIN r.items : LET it == r.items[k] IN (it[1] = "cap" /\ it[2] > Max({1, Len(n.caps)})) \/ Bad(n)
      BY <3>1, Zenon DEF Lacks, Bad
    <3>3. Raise BY <1>8, <2>3
    <3>4. \E i \in 0..Len(s) :
            LET w == Intended(case.items, s, i)
            IN \/ Bad(w)
               \/ w.r = "yes" /\ \E k \in DOMAIN r.items :
                    LET it == r.items[k] IN it[1] = "cap" /\ it[2] > Max({1, Len(w.caps)})
      BY <3>1, <3>2, <1>4, Zenon DEF n
    <3> QED BY <3>3, <3>4, <1>1, RaiseReturns
  <2>4. CASE text # error
    <3>1. Chars \subseteq Letters BY DEF Chars
    <3> HIDE DEF text, m, r
    <3>2. text \in Seq(Chars) BY <2>2, <2>4
    <3>3. text \in Seq(Letters) BY <3>1, <3>2, SeqMonotonic
    <3>4. gsub' = Replaced(m, text) /\ UNCHANGED result BY <1>8, <2>4
    <3> QED BY <3>3, <3>4, <2>2, <2>4, <1>1, <1>8, PieceReplaced DEF m, r
  <2> QED BY <2>3, <2>4
<1>9. CASE counts /\ r.kind # "string" /\ Raise
  BY <1>1, <1>9, RaiseReturns
<1>10. CASE counts /\ r.kind # "string" /\ gsub' = [gsub EXCEPT !.phase = "callback", !.m = m] /\ UNCHANGED result
  <2>1. gsub' = [phase |-> "callback", repl |-> r, max |-> gsub.max, out |-> gsub.out, src |-> gsub.src,
                 last |-> gsub.last, count |-> gsub.count, pieces |-> ps, m |-> m]
    <3> HIDE DEF m
    <3> QED BY <1>0, <1>10
  <2>2. Passed(case, "callback", gsub.src, ps)
    <3> HIDE DEF ps
    <3> QED BY <1>2 DEF Passed
  <2>3. m = Matcher(case.s, TriedIn(case), gsub.src) BY DEF TriedIn, Tried, s, p
  <2>4. Replacing(case, "callback", r, gsub.max, gsub.out, gsub.src, gsub.last, gsub.count, ps, m)
    <3> HIDE DEF m, r, ps
    <3> QED BY <2>2, <2>3, <1>1, <1>2, <1>10, Zenon DEF Replacing
  <2> HIDE DEF m, r, ps
  <2> QED BY <2>1, <2>4, <1>1, <1>10, ReplacingNext
<1>11. ASSUME ~counts PROVE FirstMatches(case, ps, gsub.src + 1)
  <2>1. FirstMatches(case, ps, gsub.src)
    <3>1. CASE ~case.anchor BY <3>1, <1>2 DEF Passed
    <3>2. CASE case.anchor BY <3>2, <1>2 DEF Passed
    <3> QED BY <3>1, <3>2
  <2>2. \A i \in from..((gsub.src + 1) - 1) : i \in from..(gsub.src - 1) \/ i = gsub.src
    <3> HIDE DEF from
    <3> QED BY <1>2
  <2>3. \A i \in from..((gsub.src + 1) - 1) : ~Fits(case, case.items, ps, i, Len(ps) + 1)
    <3>1. \A i \in from..(gsub.src - 1) : ~Fits(case, case.items, ps, i, Len(ps) + 1) BY <2>1, Zenon DEF FirstMatches
    <3> HIDE DEF from, ps
    <3> QED BY <3>1, <2>2, <1>5, <1>11, Zenon
  <2>4. \A k \in DOMAIN ps : NextMatch(case, case.items, ps, k) BY <2>1 DEF FirstMatches
  <2> HIDE DEF ps
  <2> QED BY <2>3, <2>4, Zenon DEF FirstMatches, from
<1>12. CASE ~counts /\ gsub.src < Len(s) /\ UNCHANGED result /\ gsub' = [gsub EXCEPT !.out = ot, !.src = @ + 1, !.phase = ph]
  <2> DEFINE next == gsub.src + 1
  <2>1. gsub' = [phase |-> ph, repl |-> r, max |-> gsub.max, out |-> ot, src |-> next,
                 last |-> gsub.last, count |-> gsub.count, pieces |-> ps, m |-> gsub.m]
    <3> HIDE DEF ph, ot
    <3> QED BY <1>0, <1>12
  <2>2. ot = WovenOf(s, ps, next)
    <3>1. from <= gsub.src BY <1>2
    <3>2. WovenOf(s, ps, gsub.src + 1) = Append(WovenOf(s, ps, gsub.src), s[gsub.src + 1])
      BY <3>1, <1>2, <1>4, <1>12, WovenCopy DEF PiecesIn, s
    <3> QED BY <3>2, <1>3
  <2>3. next \in from..Len(s)
    <3> HIDE DEF from
    <3> QED BY <1>2, <1>12
  <2>4. PutOut(case, r, gsub.max, ot, next, gsub.last, gsub.count, ps)
    <3> HIDE DEF ot, next, r, ps
    <3> QED BY <2>2, <2>3, <1>2, <1>3, Zenon DEF PutOut, s, ps
  <2>5. Passed(case, ph, next, ps)
    <3>1. FirstMatches(case, ps, next) BY <1>11, <1>12
    <3>2. CASE ~case.anchor
      <4> HIDE DEF ps, next
      <4> QED BY <3>1, <3>2 DEF Passed
    <3>3. CASE case.anchor
      <4>1. gsub.src = 0 /\ ps = <<>> BY <3>3, <1>2 DEF Passed
      <4>2. next = 1 BY <4>1
      <4> HIDE DEF ps, next
      <4> QED BY <3>1, <3>3, <4>1, <4>2 DEF Passed
    <3> QED BY <3>2, <3>3
  <2>6. Replacing(case, ph, r, gsub.max, ot, next, gsub.last, gsub.count, ps, gsub.m)
    <3>1. ph # "callback" OBVIOUS
    <3> HIDE DEF ph, r, ot, next, ps
    <3> QED BY <3>1, <2>4, <2>5 DEF Replacing
  <2> HIDE DEF ph, r, ot, next, ps
  <2> QED BY <2>1, <2>6, <1>1, <1>12, ReplacingNext
<1>13. CASE ~counts /\ gsub.src >= Len(s) /\ UNCHANGED result /\ gsub' = [gsub EXCEPT !.phase = "end"]
  <2>1. gsub' = [phase |-> "end", repl |-> r, max |-> gsub.max, out |-> gsub.out, src |-> gsub.src,
                 last |-> gsub.last, count |-> gsub.count, pieces |-> ps, m |-> gsub.m]
    <3> QED BY <1>0, <1>13
  <2>2. gsub.src = Len(s) BY <1>2, <1>13
  <2>3. FirstMatches(case, ps, Len(s) + 1) BY <2>2, <1>11, <1>13
  <2>4. Passed(case, "end", gsub.src, ps)
    <3>1. CASE ~case.anchor
      <4> HIDE DEF ps
      <4> QED BY <2>3, <3>1 DEF Passed, s
    <3>2. CASE case.anchor
      <4>1. gsub.src = 0 /\ ps = <<>> BY <3>2, <1>2 DEF Passed
      <4>2. Len(s) + 1 = 1 BY <4>1, <2>2
      <4> HIDE DEF ps
      <4> QED BY <2>3, <3>2, <4>1, <4>2 DEF Passed
    <3> QED BY <3>1, <3>2
  <2>5. Replacing(case, "end", r, gsub.max, gsub.out, gsub.src, gsub.last, gsub.count, ps, gsub.m)
    <3> HIDE DEF r, ps
    <3> QED BY <2>4, <1>2 DEF Replacing
  <2> HIDE DEF r, ps
  <2> QED BY <2>1, <2>5, <1>1, <1>13, ReplacingNext
<1>14. \/ m.r = "panic" /\ Raise
       \/ counts /\ r.kind = "string" /\ (IF text = error THEN Raise ELSE gsub' = Replaced(m, text) /\ UNCHANGED result)
       \/ counts /\ r.kind # "string" /\ Raise
       \/ counts /\ r.kind # "string" /\ gsub' = [gsub EXCEPT !.phase = "callback", !.m = m] /\ UNCHANGED result
       \/ ~counts /\ gsub.src < Len(s) /\ UNCHANGED result /\ gsub' = [gsub EXCEPT !.out = ot, !.src = @ + 1, !.phase = ph]
       \/ ~counts /\ gsub.src >= Len(s) /\ UNCHANGED result /\ gsub' = [gsub EXCEPT !.phase = "end"]
  BY Zenon DEF GsubIteration, Tried
<1> HIDE DEF m, counts, ph, ot, text, r
<1> QED BY <1>7, <1>8, <1>9, <1>10, <1>12, <1>13, <1>14

(* What the callback returns, or the error it raises.                      *)
LEMMA ReturnKeeps ==
  ASSUME MatcherAgrees, GsubCases, StrInv, ReplaceInv, ReturnInv, NEW v \in Values, GsubReturn(v)
  PROVE  ReplaceInv' /\ ReturnInv'
<1> DEFINE m == gsub.m
<1>1. gsub.phase = "callback" /\ gsub.phase # "idle" /\ UNCHANGED case BY ReturnReplaces
<1>2. m = Matcher(s, Tried, gsub.src) /\ m.r = "yes" /\ m.end # gsub.last /\ gsub.repl.kind # "string" /\ gsub.count < gsub.max
  BY <1>1 DEF ReplaceInv, Replacing, TriedIn, Tried, s, p
<1>3. gsub.src \in 0..Len(s) /\ s \in Seq(Letters) /\ Len(s) \in Nat
  <2> DEFINE from == From(gsub.pieces, Len(gsub.pieces) + 1)
  <2>1. s \in Seq(Letters) /\ Len(s) \in Nat /\ from \in 0..Len(s) /\ gsub.src \in from..Len(s) BY <1>1, LoopTyped
  <2> HIDE DEF from
  <2> QED BY <2>1
<1>4. Slice(m.start, m.end) \in Seq(Letters)
  <2>1. Inside(s, m) BY <1>2, <1>3, Zenon DEF GsubCases, StrInv, TriedIn, Tried, s, p
  <2> QED BY <2>1, <1>3, SliceTyped DEF Inside
<1>5. ASSUME NEW text \in Seq(STRING) \cup {Slice(m.start, m.end)}, gsub' = Replaced(m, text), UNCHANGED result
      PROVE  ReplaceInv' /\ ReturnInv'
  <2>1. STRING \subseteq Letters BY DEF Letters
  <2>2. text \in Seq(STRING) => text \in Seq(Letters) BY <2>1, SeqMonotonic
  <2>3. text \in Seq(Letters) BY <2>2, <1>4, <1>5
  <2> HIDE DEF m
  <2> QED BY <2>3, <1>1, <1>2, <1>5, PieceReplaced
<1>6. CASE Raise BY <1>1, <1>2, <1>6, RaiseReturns
<1> QED BY <1>5, <1>6, ReturnReplaces

(* The start of a call: nothing is put out yet.                            *)
LEMMA CallReplaces ==
  ASSUME GsubCases, StrInv, ReturnInv, NEW repl \in case.repls, NEW max_s \in Limits, str_gsub(repl, max_s)
  PROVE  ReplaceInv' /\ ReturnInv'
<1> DEFINE max == IF max_s = <<>> THEN Len(s) + 1 ELSE max_s[1]
<1>1. UNCHANGED <<case, result>> BY DEF str_gsub
<1>2. gsub' = [phase |-> "loop", repl |-> repl, max |-> max, out |-> <<>>, src |-> 0, last |-> -1, count |-> 0,
               pieces |-> <<>>, m |-> NoMatch]
  BY Zenon DEF str_gsub, npos
<1>3. s \in Seq(Letters) /\ Len(s) \in Nat
  <2>1. s \in Seq(STRING) /\ STRING \subseteq Letters BY MatchAssumption DEF s, StrInv, Letters
  <2>2. s \in Seq(Letters) BY <2>1, SeqMonotonic
  <2> QED BY <2>2
<1>4. max \in Int
  <2>1. max_s \in Seq(Int) BY MatchAssumption
  <2> QED BY <2>1, <1>3
<1>5. Len(<<>>) = 0 /\ DOMAIN <<>> = {} /\ From(<<>>, Len(<<>>) + 1) = 0
  <2>1. Len(<<>>) = 0 /\ DOMAIN <<>> = {} OBVIOUS
  <2> QED BY <2>1 DEF From
<1>6. WovenOf(s, <<>>, 0) = <<>>
  <2>1. Parts(s, <<>>) = <<>> BY DEF Parts
  <2>2. FlattenSeq(<<>>) = <<>>
    <3>1. <<>> \in Seq(Seq(Letters)) /\ <<>> \in Seq(Letters) OBVIOUS
    <3> QED BY <3>1, FlattenAppend
  <2>3. SubSeq(s, 0 + 1, 0) = <<>>
    <3>1. 0 + 1 \in Int /\ 0 \in Int /\ 0 < 0 + 1 OBVIOUS
    <3> QED BY <3>1, SubSeqEmpty
  <2>4. <<>> \o <<>> = <<>>
    <3>1. <<>> \in Seq(Letters) OBVIOUS
    <3> QED BY <3>1, ConcatEmptySeq
  <2> QED BY <2>1, <2>2, <2>3, <2>4, <1>5 DEF WovenOf
<1>7. FirstMatches(case, <<>>, 0)
  <2>1. 0..(0 - 1) = {} OBVIOUS
  <2> QED BY <2>1, <1>5, Zenon DEF FirstMatches
<1>8. PutOut(case, repl, max, <<>>, 0, -1, 0, <<>>)
  <2>1. <<>> \in Seq(PiecesIn(case)) OBVIOUS
  <2>2. 0 \in 0..Len(s) BY <1>3
  <2> HIDE DEF max
  <2> QED BY <2>1, <2>2, <1>4, <1>5, <1>6 DEF PutOut, s
<1>9. Passed(case, "loop", 0, <<>>) BY <1>7 DEF Passed
<1>10. Replacing(case, "loop", repl, max, <<>>, 0, -1, 0, <<>>, NoMatch) BY <1>8, <1>9 DEF Replacing
<1> HIDE DEF max
<1> QED BY <1>1, <1>2, <1>10, ReplacingNext

(* Every step keeps both invariants: calls of find and match return nothing*)
(* of gsub, and an iterator leaves a call in progress alone.               *)
LEMMA ReplaceSteps ==
  ASSUME MatcherAgrees, GsubCases, StrInv, ReplaceInv, ReturnInv, [Next]_vars
  PROVE  ReplaceInv' /\ ReturnInv'
<1>1. CASE Find \/ MatchCall
  <2>1. CASE Find
    <3>1. PICK init \in Starts, plain \in BOOLEAN : str_find(init, plain) BY <2>1 DEF Find
    <3>2. PICK values : /\ UNCHANGED <<case, gsub>>
                        /\ result' = [op |-> IF plain THEN "plain" ELSE "find",
                                      init |-> init, values |-> values]
      BY <3>1, Zenon DEF str_find
    <3>3. result'.op # "gsub" BY <3>2
    <3>4. gsub.phase = "idle" BY <3>1, Zenon DEF str_find
    <3> QED BY <3>2, <3>3, <3>4 DEF ReplaceInv, ReturnInv
  <2>2. CASE MatchCall
    <3>1. PICK init \in Starts : str_match(init) BY <2>2 DEF MatchCall
    <3>2. PICK values : /\ UNCHANGED <<case, gsub>>
                        /\ result' = [op |-> "match", init |-> init, values |-> values]
      BY <3>1, Zenon DEF str_match
    <3>3. result'.op # "gsub" BY <3>2
    <3>4. gsub.phase = "idle" BY <3>1, Zenon DEF str_match
    <3> QED BY <3>2, <3>3, <3>4 DEF ReplaceInv, ReturnInv
  <2> QED BY <2>1, <2>2, <1>1
<1>2. CASE GsubCall BY <1>2, CallReplaces DEF GsubCall
<1>3. CASE GsubIteration BY <1>3, LoopReplaces
<1>4. CASE GsubResume BY <1>4, ReturnKeeps DEF GsubResume
<1>5. CASE GsubEnd BY <1>5, EndReturns
<1>6. CASE UNCHANGED <<case, gsub, result>> BY <1>6 DEF ReplaceInv, ReturnInv
<1>7. str_gmatch \/ gmatch_iter \/ UNCHANGED vars => UNCHANGED <<case, gsub, result>>
  BY DEF str_gmatch, gmatch_iter, vars
<1> QED BY <1>1, <1>2, <1>3, <1>4, <1>5, <1>6, <1>7 DEF Next

\* gsub replaces the matches of one scan of the subject from the left and nothing else,
\* each by what its replacement string stands for, whatever its callbacks return, and
\* fails only for an error of the pattern or a capture that a match does not have, for
\* every matcher that agrees with what the pattern means place by place (str_gsub,
\* gsub_expand_repl).
THEOREM GsubCorrect ==
  ASSUME MatcherAgrees, GsubCases
  PROVE  Spec => []GsubReplacesScan
<1> DEFINE Inv == StrInv /\ ReplaceInv /\ ReturnInv
<1>1. Init => Inv BY DEF Init, StrInv, GsubTyped, IterTyped, ReplaceInv, ReturnInv, Idle
<1>2. Inv /\ [Next]_vars => Inv' BY StrSteps, ReplaceSteps
<1>3. Inv => GsubReplacesScan
  <2> SUFFICES ASSUME StrInv, ReplaceInv, ReturnInv PROVE GsubReplacesScan OBVIOUS
  <2>1. gsub.phase # "idle" =>
          /\ gsub.out = Woven(gsub.pieces, gsub.src) /\ gsub.count = Len(gsub.pieces)
          /\ Scan(case.items, gsub.pieces, IF case.anchor THEN Min({gsub.src, 1}) ELSE gsub.src)
          /\ gsub.repl.kind = "string" =>
               \A k \in DOMAIN gsub.pieces : gsub.pieces[k].text = ReplacementText(gsub.pieces[k])
    BY ReplaceIsScan
  <2> QED BY <2>1, ReturnedIsScan, Zenon DEF GsubReplacesScan
<1> QED BY <1>1, <1>2, <1>3, PTL DEF Spec
=============================================================================
