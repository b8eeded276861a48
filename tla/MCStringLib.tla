---------------------------- MODULE MCStringLib ----------------------------
(* Patterns of up to two items of every kind, and longer ones where items    *)
(* compete for the same text or a capture is given up and taken again.        *)
EXTENDS StringLib, PatternSem

a == <<"char", "a">>
b == <<"char", "b">>
any == <<"any">>
ab == <<"set", FALSE, <<<<"range", "a", "b">>>>>>
notA == <<"set", TRUE, <<<<"char", "a">>>>>>
letters == <<"set", FALSE, <<<<"class", "a">>>>>>
notLetter == <<"class", "A">>
close == <<"set", FALSE, <<<<"char", "]">>, <<"char", ")">>>>>>

Suffixed == {"one", "star", "plus", "lazy", "opt"} \X {a, any}
Others == {<<"one", notLetter>>, <<"star", notA>>, <<"plus", close>>, <<"open">>, <<"close">>, <<"pos">>,
           <<"bal", "(", ")">>, <<"bal", "a", "a">>, <<"front", letters>>, <<"back", 1>>, <<"end">>}
Short == UNION {[1..n -> Suffixed \cup Others] : n \in 0..2}

Group(it) == <<<<"open">>, it, <<"close">>>>
Greedy == {<<"star", a>>, <<"lazy", any>>, <<"opt", a>>, <<"plus", ab>>}
Long == {Group(x) \o <<y>> : x \in Greedy, y \in Suffixed \cup {<<"back", 1>>, <<"end">>}}
        \cup {Group(x) \o Group(y) : x \in Greedy, y \in Greedy}
        \cup {Group(x) \o Group(<<"opt", a>>) \o <<<<"star", any>>>> : x \in Greedy} \* one call too deep
        \cup {Group(x) \o <<<<"pos">>, <<"back", 1>>>> : x \in Greedy}
        \cup {<<<<"opt", a>>>> \o Group(x) \o <<<<"one", b>>>> : x \in Greedy}
        \cup {<<<<"open">>>> \o Group(x) \o <<<<"lazy", b>>, <<"close">>, <<"back", 2>>>> : x \in Greedy}

(* A pattern Text can write: $ last, and () is a position capture.           *)
WellFormed(i) == /\ \A k \in DOMAIN i : i[k][1] = "end" => k = Len(i)
                 /\ \A k \in 1..(Len(i) - 1) : ~(i[k][1] = "open" /\ i[k + 1][1] = "close")

Case(i, t, anchored, repls) ==
  [s |-> t, p |-> (IF anchored THEN <<"^">> ELSE <<>>) \o Text(i), items |-> i, anchor |-> anchored,
   repls |-> repls]

Lit(c) == <<"lit", c>>
Strings == {[kind |-> "string", text |-> <<"<", "%", "1", "%", "%", ">">>,
             items |-> <<Lit("<"), <<"cap", 1>>, Lit("%"), Lit(">")>>],
            [kind |-> "string", text |-> <<"%", "0", "%", "2">>, items |-> <<<<"cap", 0>>, <<"cap", 2>>>>]}
Callbacks == {[kind |-> "function"], [kind |-> "table"]}

MCCases == {Case(i, t, FALSE, Strings) : i \in {j \in Short : WellFormed(j)},
              t \in {<<>>, <<"a", "b">>, <<"b", "a", "a">>, <<"a", "a", "b", "a">>, <<"(", "a", ")">>, <<"a", ")", "]", "(">>}}
           \cup {Case(i, t, FALSE, Strings) : i \in Long,
              t \in UNION {[1..n -> {"a", "b"}] : n \in 2..3} \cup {<<"b", "a", "a", "b">>}}
           \cup {Case(i, t, TRUE, Strings) : i \in {<<>>} \cup Long, t \in {<<"a", "a", "b">>, <<"b", "a">>}}
           \cup {Case(i, <<"a", "b">>, FALSE, Callbacks) :
              i \in {<<>>, <<<<"opt", a>>>>, Group(<<"lazy", any>>), <<<<"pos">>>>, <<<<"open">>>>,
                     <<<<"pos">>, <<"open">>>>}}

MCMatcher(subject, pattern, si) == LET m == match(subject, pattern, si) IN m
MCIntended(items, subject, si) == LET m == MatchOf(items, subject, si) IN m
MCValues == {nil, <<"str", <<"x", "x">>>>, <<"other", <<"y">>>>, error}
MCLimits == {<<>>, <<1>>}
MCStarts == {1, 3, 4, -1}
=============================================================================
