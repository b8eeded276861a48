-------------------------------- MODULE MCVm --------------------------------
(***************************************************************************)
(* Families of programs for Vm: operands x operators, expressions x the    *)
(* places they are compiled into, loops x ways out x captures,             *)
(* metamethods, and ways to fail below pcall.                              *)
(***************************************************************************)
EXTENDS Vm, Frontend, LuaSem, LuaText

MCArgs == <<Num(17)>>

N(x) == <<"Name", x>>
I(n) == <<"Int", n>>
Op(op, l, r) == <<"Bin", op, l, r>>
CallOf(f, args) == <<"Call", N(f), args>>
Fn(params, va, body) == <<"Function", params, va, body>>
Local1(x, e) == <<"Local", <<x>>, <<e>> >>
Set1(v, e) == <<"Assign", <<v>>, <<e>> >>
Ret(es) == <<"Return", es>>
At(t, k) == <<"Index", t, k>>
Field(t, k) == <<"Field", t, k>>
Inc(x) == Set1(N(x), Op("+", N(x), I(1)))

\* if nil then assert(1, 1, ...) end: a call that makes the frame of its function
\* larger.  The values of a return statement are not counted when its size is set.
Room == <<"If", <<<<<<"Nil">>, <<<<"CallStmt", CallOf("assert", [i \in 1..14 |-> I(1)])>> >> >> >>, <<>> >>

---------------------------------------------------------------------------
\* One leaf for each place a value can be: in the body of a function whose
\* local is i and whose upvalues are p and t.
Leaf ==
  [const  |-> I(2),
   str    |-> <<"Str", "s">>,
   none   |-> <<"Nil">>,
   local  |-> N("i"),
   upval  |-> N("p"),
   global |-> N("g"),
   field  |-> Field(N("t"), "a"),
   index  |-> At(N("t"), N("i")),
   call   |-> CallOf("f", <<I(1)>>),
   vararg |-> <<"Vararg">>,
   paren  |-> <<"Paren", CallOf("f", <<I(1)>>)>>]

\* local p, t = ..., {a = 7, 2, 4};  g = 11
\* local function f(x, ...) return x, p end
\* local function body(...) <room> local i = 1; <stmts> end
\* return body(5, 6)
Within(stmts) ==
  <<<<"Local", <<"p", "t">>, <<<<"Vararg">>,
        <<"Table", <<<<"named", "a", I(7)>>, <<"item", I(2)>>, <<"item", I(4)>>>> >> >> >>,
    Set1(N("g"), I(11)),
    <<"LocalFunction", "f", Fn(<<"x">>, TRUE, <<Ret(<<N("x"), N("p")>>)>>)>>,
    <<"LocalFunction", "body", Fn(<<>>, TRUE, <<Room, Local1("i", I(1))>> \o stmts)>>,
    Ret(<<CallOf("body", <<I(5), I(6)>>)>>)>>

\* The order of two strings is not modelled.
BinaryIds ==
  ({"binary"} \X (DOMAIN Leaf) \X (DOMAIN Leaf) \X {"+", "..", "==", "<", "and", "or"})
    \ {<<"binary", "str", "str", "<">>}
BinaryProgram(id) == Within(<<Ret(<<Op(id[4], Leaf[id[2]], Leaf[id[3]])>>)>>)

\* Expressions that need more than one register, as operands of each other.
Compound ==
  [global |-> Leaf.global, call |-> Leaf.call, vararg |-> Leaf.vararg, local |-> Leaf.local,
   sum    |-> Op("+", Leaf.global, Leaf.field),
   choice |-> Op("or", Op("and", Leaf.upval, Leaf.none), Leaf.index),
   rel    |-> Op("<=", Leaf.upval, Leaf.global),
   rels   |-> Op("and", Op("<", Leaf.const, Leaf.global), Op("~=", Leaf.local, Leaf.field)),
   never  |-> Op("and", Leaf.local, <<"Un", "not", Leaf.global>>),
   minus  |-> Op("-", Leaf.const, <<"Un", "-", Leaf.global>>),
   method |-> <<"Method", N("t"), "m", <<Leaf.global, Leaf.vararg>> >>,
   coll   |-> CallOf("collectgarbage", <<>>),
   len    |-> Op("+", <<"Un", "#", N("t")>>, Leaf.const),
   table  |-> Op("..", At(<<"Table", <<<<"item", I(8)>>, <<"item", Leaf.call>>>> >>, I(2)), Leaf.str)]

Inst(stmts) == <<Set1(Field(N("t"), "m"), Fn(<<"self", "x", "y">>, FALSE,
                       <<Ret(<<Op("..", N("x"), N("y")), N("y")>>)>>))>> \o stmts

\* The places x and y are compiled into.
Place2(place, x, y) ==
  CASE place = "locals" -> <<<<"Local", <<"a", "b", "c", "d">>, <<x, y>> >>,
                             Ret(<<N("a"), N("b"), N("c"), N("d")>>)>>
    [] place = "targets" -> <<<<"Assign", <<N("i"), At(N("t"), N("i")), Field(N("t"), "z"), N("p")>>,
                                          <<x, y>> >>,
                              Ret(<<N("i"), At(N("t"), I(1)), Field(N("t"), "z"), N("p")>>)>>
    [] place = "global" -> <<Set1(N("h"), x), Set1(At(N("t"), x), y),
                             Ret(<<N("h"), At(N("t"), N("h"))>>)>>
    [] place = "args" -> <<Ret(<<<<"Paren", CallOf("f", <<x, y>>)>>, CallOf("assert", <<x, y>>)>>)>>
    [] place = "tail" -> <<Ret(<<<<"Method", N("t"), "m", <<x, y>> >> >>)>>
    [] place = "fields" -> <<Local1("c", <<"Table", <<<<"item", x>>, <<"named", "k", y>>, <<"item", I(6)>>,
                                              <<"item", x>>, <<"keyed", I(0), x>>, <<"item", y>> >> >>),
                             Ret(<<At(N("c"), I(1)), At(N("c"), I(3)), At(N("c"), I(4)),
                                   Field(N("c"), "k"), At(N("c"), I(0)), <<"Un", "#", N("c")>> >>)>>
    [] place = "branches" -> <<<<"If", <<<<x, <<Local1("a", y), Ret(<<N("a"), N("i")>>)>>>>,
                                        <<y, <<Ret(<<x>>)>>>> >>, <<<<Ret(<<>>)>>>> >> >>
    [] place = "operands" -> <<Ret(<<Op("..", Op("or", x, I(0)), Op("or", y, I(0))), Op("==", x, y)>>)>>

PlaceIds == {"place"} \X (DOMAIN Compound) \X {"global", "call", "vararg", "sum", "rels", "method"} \X
            {"locals", "targets", "global", "args", "tail", "fields", "branches", "operands"}
PlaceProgram(id) == Within(Inst(Place2(id[4], Compound[id[2]], Compound[id[3]])))

---------------------------------------------------------------------------
\* A loop that runs its body with n = 0, 1, 2 ..., makes closures over a local of
\* the body, and leaves at n = 2; later locals reuse the registers.
Capture(how) ==
  CASE how = "none" -> Set1(At(N("fs"), N("n")), N("x"))
    [] how = "local" -> Set1(At(N("fs"), N("n")),
                             Fn(<<>>, FALSE, <<Set1(N("x"), Op("+", N("x"), I(1))), Ret(<<N("x")>>)>>))
    [] how = "nested" -> <<"Do", <<Local1("w", Op("*", N("x"), I(2))),
                            <<"LocalFunction", "h",
                              Fn(<<>>, FALSE, <<Set1(N("w"), Op("+", N("w"), N("x"))),
                                                Set1(N("x"), Op("-", N("x"), I(1))),
                                                Ret(<<Fn(<<>>, FALSE, <<Ret(<<N("w"), N("x")>>)>>)>>)>>)>>,
                            Set1(At(N("fs"), N("n")), CallOf("h", <<>>))>> >>

Exit(how) ==
  CASE how = "end" -> <<>>
    [] how = "break" -> <<<<"Break">>>>
    [] how = "continue" -> <<<<"Goto", "continue">>>>
    [] how = "out" -> <<<<"Goto", "out">>>>
    [] how = "return" -> <<Ret(<<At(N("fs"), I(1)), N("x")>>)>>
    [] how = "tail" -> <<Ret(<<CallOf("assert", <<At(N("fs"), I(1)), N("x")>>)>>)>>

LoopBlock(capture, exit) ==
  <<Local1("x", Op("+", Op("*", N("n"), I(10)), I(5))), Capture(capture),
    <<"If", <<<<Op("==", N("n"), I(2)), Exit(exit)>>>>, <<>> >>,
    Set1(N("last"), N("x")),
    <<"Label", "continue">> >>

Loop(kind, body) ==
  CASE kind = "while" -> <<"While", Op("<", N("n"), I(3)),
                            <<Set1(N("n"), Op("+", N("n"), I(1))), <<"Do", body>> >> >>
    [] kind = "repeat" -> <<"Repeat", <<Set1(N("n"), Op("+", N("n"), I(1))), <<"Do", body>>,
                                        Local1("u", N("n")),
                                        Set1(N("last"), Fn(<<>>, FALSE, <<Ret(<<N("u")>>)>>))>>,
                              Op(">=", N("u"), I(3))>>
    [] kind = "fornum" -> <<"ForNum", "n", I(3), I(1), <<I(-1)>>, body>>
    [] kind = "forin" -> <<"ForIn", <<"n", "m">>,
                            <<Fn(<<"s", "c">>, FALSE,
                                 <<<<"If", <<<<Op("<", N("c"), N("s")),
                                              <<Ret(<<Op("+", N("c"), I(1)), N("s")>>)>>>> >>, <<>> >> >>),
                              I(3), I(0)>>, body>>

LoopIds == {"loop"} \X {"while", "repeat", "fornum", "forin"} \X {"none", "local", "nested"} \X
           {"end", "break", "continue", "out", "return", "tail"}

LoopProgram(id) ==
  <<Room, <<"Local", <<"fs", "n", "last">>, <<<<"Table", <<>> >>, I(0)>> >>,
    Local1("run", Fn(<<>>, FALSE,
      <<Room, Loop(id[2], LoopBlock(id[3], id[4])), <<"Label", "out">> >>)),
    <<"Local", <<"a", "b", "c", "d">>, <<CallOf("run", <<>>)>> >>,
    <<"Local", <<"y", "z">>, <<I(91), I(92)>> >>,
    Ret(IF id[3] = "none" THEN <<N("a"), N("b"), N("n"), At(N("fs"), I(1)), At(N("fs"), I(2))>>
        ELSE <<N("y"), N("z"), <<"Paren", <<"Call", At(N("fs"), I(1)), <<>> >> >>,
               <<"Paren", <<"Call", At(N("fs"), I(2)), <<>> >> >>,
               <<"Call", At(N("fs"), I(2)), <<>> >> >>)>>

---------------------------------------------------------------------------
\* o has the metamethod event; x and y are locals that must survive its call.
Handler(kind) ==
  CASE kind = "lua" -> Fn(<<"a", "b", "c">>, FALSE,
                          <<Local1("d", Op("or", N("c"), N("b"))), Set1(N("seen"), N("d")),
                            Ret(<<N("d"), N("a")>>)>>)
    [] kind = "collect" -> Fn(<<"a", "b">>, FALSE,
                              <<Local1("d", <<"Table", <<<<"item", N("b")>> >> >>),
                                <<"CallStmt", CallOf("collectgarbage", <<>>)>>, Ret(<<At(N("d"), I(1)), N("a")>>)>>)
    [] kind = "c" -> N("assert")
    [] kind = "pcall" -> N("pcall")
    [] kind = "table" -> <<"Table", <<<<"named", "k", I(21)>> >> >>
    [] kind = "falsy" -> Fn(<<>>, FALSE, <<Ret(<<>>)>>)
    [] kind = "none" -> <<"Nil">>

Uses ==
  [__index |-> Ret(<<Field(N("o"), "k"), At(N("o"), N("x"))>>),
   __newindex |-> Ret(<<Fn(<<>>, FALSE, <<>>), N("o")>>),
   __add |-> Ret(<<Op("+", N("o"), N("x")), Op("+", N("y"), N("o"))>>),
   __concat |-> Ret(<<Op("..", N("o"), N("x")), Op("..", N("y"), N("o"))>>),
   __unm |-> Ret(<<<<"Un", "-", N("o")>> >>),
   __len |-> Ret(<<<<"Un", "#", N("o")>> >>),
   __eq |-> Ret(<<Op("==", N("o"), N("o2")), Op("~=", N("o"), N("o2")), Op("==", N("o"), N("x"))>>),
   __lt |-> Ret(<<Op("<", N("o"), N("x")), Op("<=", N("o"), N("o2")), Op(">", N("o"), N("y"))>>),
   __le |-> Ret(<<Op("<=", N("o"), N("o2")), Op(">=", N("o"), N("x"))>>),
   __call |-> Ret(<<<<"Paren", CallOf("o", <<N("x"), N("y")>>)>>, N("x"), N("y")>>),
   __metatable |-> Ret(<<<<"Method", N("o"), "k", <<N("x")>> >> >>)]

\* A __len that is no function is ignored by the interpreter, and pcall of a
\* table fails whatever its __call is.
MetaIds == ({"meta"} \X (DOMAIN Uses) \X {"lua", "collect", "c", "pcall", "table", "falsy", "none"})
             \ {<<"meta", "__len", "table">>, <<"meta", "__call", "pcall">>}

MetaProgram(id) ==
  <<Room, <<"Local", <<"x", "y">>, <<I(31), I(32)>> >>,
    Local1("mt", <<"Table", <<<<"named", id[2], Handler(id[3])>> >> >>),
    <<"Local", <<"o", "o2">>, <<CallOf("setmetatable", <<<<"Table", <<>> >>, N("mt")>>),
                               CallOf("setmetatable", <<<<"Table", <<>> >>, N("mt")>>)>> >>,
    Local1("use", Fn(<<>>, FALSE, <<Room, Uses[id[2]]>>)),
    <<"Assign", <<Field(N("o"), "j"), At(N("o2"), I(1))>>, <<N("x"), N("y")>> >>,
    <<"Local", <<"a", "b", "c">>, <<CallOf("use", <<>>)>> >>,
    Ret(<<N("a"), N("b"), N("c"), N("x"), N("y"), N("seen")>>)>>

---------------------------------------------------------------------------
\* A function whose locals x and w are captured ends in some way below pcall.
CallStmtOf(f, args) == <<"CallStmt", CallOf(f, args)>>
Fails == CallStmtOf("assert", <<<<"Bool", FALSE>> >>)

End(how) ==
  CASE how = "ok" -> <<Ret(<<N("x"), N("a"), <<"Vararg">> >>)>>
    [] how = "collect" -> <<CallStmtOf("collectgarbage", <<>>), Local1("v", I(8)),
                            CallStmtOf("collectgarbage", <<<<"Str", "collect">> >>), Ret(<<N("x"), N("v")>>)>>
    [] how = "error" -> <<Fails, Set1(N("x"), I(0))>>
    [] how = "op" -> <<Local1("v", Op("+", N("x"), <<"Nil">>)), Set1(N("x"), I(0))>>
    [] how = "call" -> <<Set1(At(N("out"), CallOf("x", <<>>)), I(0))>>
    [] how = "mm" -> <<Ret(<<Op("+", N("x"), CallOf("setmetatable", <<<<"Table", <<>> >>,
                          <<"Table", <<<<"named", "__add", Fn(<<"m">>, FALSE, <<Set1(N("x"), N("m")), Fails>>)>> >> >> >>))>>)>>
    [] how = "iterator" -> <<<<"ForIn", <<"k">>, <<Fn(<<"s", "c">>, FALSE,
                                <<<<"If", <<<<N("c"), <<Fails>> >> >>, <<>> >>, Ret(<<I(1)>>)>>)>>,
                               <<Local1("q", N("k")), Set1(Field(N("out"), "get"), Fn(<<>>, FALSE, <<Inc("q"), Ret(<<N("q")>>)>>))>> >> >>
    [] how = "deep" -> <<<<"LocalFunction", "g", Fn(<<"n">>, FALSE,
                            <<Set1(Field(N("out"), "get"), Fn(<<>>, FALSE, <<Inc("n"), Ret(<<Op("+", N("n"), N("x"))>>)>>)),
                              Inc("n"), Fails>>)>>, CallStmtOf("g", <<N("a")>>)>>
    [] how = "again" -> <<<<"Local", <<"ok">>, <<CallOf("pcall", <<Fn(<<"m">>, FALSE, <<Set1(N("x"), N("m")), Fails>>), I(40)>>)>> >>,
                          Inc("x"), Ret(<<N("ok"), CallOf("pcall", <<N("pcall"), N("assert"), N("x"), N("a")>>)>>)>>
    [] how = "tail" -> <<Ret(<<CallOf("assert", <<<<"Nil">>, <<"Str", "error">> >>)>>)>>

Protect(way) ==
  LET attempt == CallOf("pcall", <<N("f"), I(5), N("y")>>)
  IN CASE way = "locals" -> <<<<"Local", <<"ok", "a", "b">>, <<attempt>> >>>>
       [] way = "tail" -> <<<<"LocalFunction", "t", Fn(<<>>, FALSE, <<Ret(<<attempt>>)>>)>>,
                            <<"Local", <<"ok", "a", "b">>, <<CallOf("t", <<>>)>> >>>>
       [] way = "table" -> <<Local1("t", <<"Table", <<<<"item", I(3)>>, <<"item", attempt>> >> >>),
                             <<"Local", <<"ok", "a", "b">>, <<At(N("t"), I(2)), At(N("t"), I(3)), <<"Un", "#", N("t")>> >> >>>>
       [] way = "iterator" -> <<<<"Local", <<"ok", "a", "b">>, <<>> >>,
                                <<"ForIn", <<"k", "v">>, <<N("pcall"), N("f"), N("y")>>,
                                  <<<<"Assign", <<N("ok"), N("a")>>, <<N("k"), N("v")>> >>, <<"Break">> >> >>>>

PcallIds == {"pcall"} \X {"ok", "collect", "error", "op", "call", "mm", "iterator", "deep", "again", "tail"}
              \X {"locals", "tail", "table", "iterator"}
PcallProgram(id) ==
  <<<<"Local", <<"y", "out">>, <<I(31), <<"Table", <<>> >> >> >>,
    <<"LocalFunction", "f", Fn(<<"a">>, TRUE,
       <<<<"Local", <<"x", "w">>, <<I(61), I(71)>> >>,
         Set1(Field(N("out"), "get"), Fn(<<>>, FALSE, <<Inc("x"), Ret(<<N("x"), N("w")>>)>>)),
         Inc("x"), Inc("y")>> \o End(id[2]))>> >>
  \o Protect(id[3]) \o
  <<<<"Local", <<"p", "q">>, <<I(91), I(92)>> >>,
    CallStmtOf(IF id[2] = "ok" THEN "collectgarbage" ELSE "assert", <<<<"Str", "collect">> >>),
    Ret(<<N("ok"), N("a"), N("b"), N("y"), N("p"), N("q"), <<"Call", Field(N("out"), "get"), <<>> >> >>)>>

---------------------------------------------------------------------------
\* Whole programs: declarations, recursion, shared and inherited upvalues,
\* jumps back, a local _ENV.
Getter(x) == Fn(<<>>, FALSE, <<Ret(<<N(x)>>)>>)

Whole ==
  [declared |->
     <<Set1(N("m"), <<"Table", <<<<"named", "sub", <<"Table", <<>> >> >> >> >>),
       <<"FunctionDecl", <<"m", "sub", "f">>, Fn(<<"n">>, FALSE, <<Set1(N("got"), N("n"))>>)>>,
       <<"FunctionDecl", <<"h">>, Fn(<<>>, TRUE, <<Ret(<<Op("+", <<"Vararg">>, I(1)), <<"Vararg">> >>)>>)>>,
       <<"CallStmt", <<"Call", Field(Field(N("m"), "sub"), "f"), <<I(3)>> >> >>,
       Ret(<<N("got"), CallOf("h", <<I(4), I(5)>>)>>)>>,
   recursive |->
     <<<<"LocalFunction", "fact", Fn(<<"n">>, FALSE,
          <<<<"If", <<<<Op("<=", N("n"), I(1)), <<Ret(<<I(1)>>)>>>> >>, <<>> >>,
            Ret(<<Op("*", CallOf("fact", <<Op("-", N("n"), I(1))>>), N("n"))>>)>>)>>,
       <<"LocalFunction", "down", Fn(<<"n", "acc">>, FALSE,
          <<<<"If", <<<<Op("==", N("n"), I(0)), <<Ret(<<N("acc")>>)>>>> >>, <<>> >>,
            Ret(<<CallOf("down", <<Op("-", N("n"), I(1)), Op("+", N("acc"), N("n"))>>)>>)>>)>>,
       Ret(<<CallOf("fact", <<I(4)>>), CallOf("down", <<I(3), I(0)>>)>>)>>,
   shared |->
     <<Local1("get", <<"Nil">>), Local1("set", <<"Nil">>),
       <<"Do", <<Local1("v", I(1)), Set1(N("get"), Getter("v")),
                 Set1(N("set"), Fn(<<"n">>, FALSE, <<Set1(N("v"), N("n"))>>)),
                 Inc("v"), <<"CallStmt", CallOf("set", <<Op("+", CallOf("get", <<>>), I(5))>>)>> >> >>,
       <<"CallStmt", CallOf("set", <<Op("*", CallOf("get", <<>>), I(2))>>)>>,
       Ret(<<CallOf("get", <<>>)>>)>>,
   inherited |->
     <<Local1("k", I(2)),
       Local1("outer", Fn(<<"a">>, FALSE, <<Ret(<<Fn(<<"b">>, FALSE,
          <<Inc("k"), Ret(<<Fn(<<>>, FALSE, <<Inc("a"), Ret(<<N("a"), N("b"), N("k")>>)>>)>>)>>)>>)>>)),
       Local1("f", <<"Call", <<"Call", N("outer"), <<I(10)>> >>, <<I(20)>> >>),
       <<"CallStmt", CallOf("f", <<>>)>>, Inc("k"),
       Ret(<<N("k"), CallOf("f", <<>>)>>)>>,
   back |->
     <<<<"Local", <<"n", "fs">>, <<I(0), <<"Table", <<>> >> >> >>,
       <<"Label", "top">>,
       Local1("x", N("n")), Set1(At(N("fs"), N("n")), Getter("x")), Inc("n"),
       <<"If", <<<<Op("<", N("n"), I(3)), <<<<"Goto", "top">> >> >> >>, <<>> >>,
       Ret(<<<<"Paren", <<"Call", At(N("fs"), I(0)), <<>> >> >>, <<"Call", At(N("fs"), I(1)), <<>> >> >>)>>,
   environment |->
     <<<<"Local", <<"old", "t">>, <<N("assert"), <<"Table", <<<<"named", "v", I(1)>> >> >> >> >>,
       <<"Do", <<Local1("_ENV", N("t")), Set1(N("w"), Op("+", N("v"), I(1))),
                 Set1(N("f"), Fn(<<>>, FALSE, <<Inc("v"), Ret(<<N("v"), N("w"), N("assert")>>)>>))>> >>,
       Ret(<<N("w"), Field(N("t"), "w"), CallOf("old", <<<<"Call", Field(N("t"), "f"), <<>> >> >>)>>)>>,
   nested |->
     <<<<"Local", <<"fs", "s">>, <<<<"Table", <<>> >>, I(0)>> >>,
       <<"ForNum", "i", I(1), I(2), <<>>,
          <<<<"ForNum", "j", I(1), I(3), <<>>,
               <<Set1(At(N("fs"), Op("+", Op("*", N("i"), I(10)), N("j"))),
                      Fn(<<>>, FALSE, <<Ret(<<Op("+", N("i"), N("j"))>>)>>)),
                 <<"If", <<<<Op("==", N("j"), N("i")), <<<<"Break">> >> >> >>, <<>> >>,
                 Inc("s")>> >>,
            Set1(N("s"), Op("+", N("s"), I(100)))>> >>,
       <<"ForIn", <<"a">>, <<CallOf("assert", <<Fn(<<"n", "c">>, FALSE,
            <<<<"If", <<<<Op("==", N("c"), <<"Nil">>), <<Ret(<<N("n")>>)>>>> >>, <<>> >> >>), I(7)>>)>>,
          <<Set1(N("s"), Op("+", N("s"), N("a")))>> >>,
       Ret(<<N("s"), <<"Paren", <<"Call", At(N("fs"), I(11)), <<>> >> >>,
             <<"Call", At(N("fs"), I(22)), <<>> >> >>)>>]

WholeIds == {"whole"} \X (DOMAIN Whole)

---------------------------------------------------------------------------
\* Operators next to each other without parentheses, and grouped against their
\* precedence.
GroupIds == {"group"} \X {"l", "r"} \X {"or", "and", "<", "..", "+", "-", "*"}
              \X {"or", "and", "==", "..", "+", "-", "*"}
GroupProgram(id) ==
  LET Pair(x, y) == Op(id[4], x, y)
      e == IF id[2] = "l" THEN Op(id[3], Pair(I(7), N("p")), I(3)) ELSE Op(id[3], N("i"), Pair(I(3), N("g")))
  IN Within(<<Ret(<<e, Op(id[3], <<"Un", "-", I(4)>>, <<"Un", "not", Pair(I(2), I(2))>>)>>)>>)

\* Legal and illegal jumps: where the goto is, where the label is, and what is
\* between them.
GotoIds == {"goto"} \X {"same", "block", "loop", "function"} \X {"here", "end", "until", "inner", "twice", "none"}
             \X {"nothing", "local", "function"}
GotoProgram(id) ==
  LET jump == <<"Goto", "l">>
      from == CASE id[2] = "same" -> jump
                [] id[2] = "block" -> <<"Do", <<Local1("w", N("i")), jump>> >>
                [] id[2] = "loop" -> <<"While", <<"Bool", TRUE>>, <<jump>> >>
                [] id[2] = "function" -> <<"LocalFunction", "h", Fn(<<>>, FALSE, <<jump>>)>>
      between == CASE id[4] = "nothing" -> <<Set1(N("i"), I(2))>>
                   [] id[4] = "local" -> <<Local1("q", I(3))>>
                   [] id[4] = "function" -> <<<<"LocalFunction", "q", Getter("i")>> >>
      label == <<"Label", "l">>
      later == Set1(N("i"), Op("+", N("i"), I(10)))
      to == CASE id[3] \in {"end", "until"} -> <<label, <<"Label", "m">> >>
              [] id[3] = "here" -> <<label, later>>
              [] id[3] = "inner" -> <<<<"If", <<<<N("i"), <<label>> >> >>, <<>> >> >>
              [] id[3] = "twice" -> <<label, later, label>>
              [] id[3] = "none" -> <<later>>
      body == <<from>> \o between \o to
  IN Within(<<IF id[3] = "until" THEN <<"Repeat", body, <<"Bool", TRUE>> >> ELSE <<"Do", body>>,
              Ret(<<N("i")>>)>>)

\* As many locals as there may be, or one more: in a block, as parameters, in a
\* function next to others, beside a nested function.
Xs(n) == [i \in 1..n |-> <<"a", "b", "c", "d", "e", "f", "g", "h">>[(i % 8) + 1]]
LimitIds == {"limit"} \X {"block", "params", "nested"} \X {MaxLocals, MaxLocals + 1}
LimitProgram(id) ==
  LET n == id[3]
      inner == Fn(Xs(2), FALSE, <<<<"Local", Xs(n - 2), <<I(1)>> >>, Ret(<<N("d")>>)>>)
  IN CASE id[2] = "block" -> <<<<"Local", Xs(n), <<I(1), I(2)>> >>, Ret(<<N("b"), N("c")>>)>>
       [] id[2] = "params" -> <<<<"LocalFunction", "k", Fn(Xs(n), FALSE, <<Ret(<<N("b")>>)>>)>>,
                                Ret(<<CallOf("k", <<I(4)>>)>>)>>
       [] id[2] = "nested" -> <<Local1("x", I(1)), <<"LocalFunction", "k", inner>>,
                                <<"Local", Xs(n - 2), <<I(5)>> >>, Ret(<<CallOf("k", <<>>), N("b")>>)>>

---------------------------------------------------------------------------
\* A function called by pcall that first calls a C function, then allocates while
\* locals are live.
PressurePrograms ==
  [id \in {"pcall"} |->
     <<<<"LocalFunction", "f", Fn(<<>>, FALSE,
          <<CallStmtOf("assert", <<I(1)>>), <<"Local", <<"a", "b">>, <<I(2), I(3)>> >>,
            Local1("t", <<"Table", <<>> >>), Ret(<<N("a"), N("b")>>)>>)>>,
       Ret(<<CallOf("pcall", <<N("f")>>)>>)>>]

\* An operator applied to a register that is not a local, as the left operand.
UnaryPrograms ==
  [id \in {"#", "-"} \X {"==", "+"} |->
     Within(<<Ret(<<Op(id[2], <<"Un", id[1], IF id[1] = "#" THEN N("t") ELSE N("g")>>,
                   Field(N("t"), "a"))>>)>>)]

MCPrograms ==
  [id \in BinaryIds \cup PlaceIds \cup LoopIds \cup MetaIds \cup PcallIds \cup WholeIds
         \cup GroupIds \cup GotoIds \cup LimitIds |->
     CASE id[1] = "binary" -> BinaryProgram(id)
       [] id[1] = "place" -> PlaceProgram(id)
       [] id[1] = "loop" -> LoopProgram(id)
       [] id[1] = "meta" -> MetaProgram(id)
       [] id[1] = "pcall" -> PcallProgram(id)
       [] id[1] = "group" -> GroupProgram(id)
       [] id[1] = "goto" -> GotoProgram(id)
       [] id[1] = "limit" -> LimitProgram(id)
       [] id[1] = "whole" -> Whole[id[2]]]

\* The programs without pcall that loop, call metamethods or have compound
\* operands: under pressure a collection comes before every instruction of them.
MCStressed ==
  LoopIds \cup WholeIds \cup {id \in MetaIds : id[3] # "pcall"}
    \cup {id \in PlaceIds : id[3] \in {"call", "vararg", "method"}}

NoPrograms == {}
PressureIds == DOMAIN PressurePrograms

\* load_string on the text of a program
LoadText(chunk) == LET toks == ChunkText(chunk) IN load_string(toks)

====
