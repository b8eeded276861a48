------------------------------- MODULE LuaSem -------------------------------
(***************************************************************************)
(* What a chunk means: a direct evaluation of the syntax tree over         *)
(* environments that map a name to a cell, with a fresh cell for every     *)
(* declaration.  No registers, no jumps, no upvalues: the reference the    *)
(* compiled code is compared with.                                         *)
(*                                                                         *)
(* w is the world: cells, tables, functions, and whether an error was      *)
(* raised.  An operator returns <<w, result>>.  After an error evaluation  *)
(* goes on with nil, but calls and stores nothing more until pcall.        *)
(***************************************************************************)
EXTENDS LuaValue

CONSTANT MaxLocals \* local variables a function may have at a time

ASSUME MaxLocalsAssumption == MaxLocals \in Nat

Bind(w, env, name, v) ==
  <<[w EXCEPT !.cells = Append(@, v)],
    [env EXCEPT !.vars = [x \in DOMAIN @ \cup {name} |->
                            IF x = name THEN Len(w.cells) + 1 ELSE @[x]]]>>

RECURSIVE BindAll(_, _, _, _)
BindAll(w, env, names, vs) ==
  LET b == Bind(w, env, Head(names), First(vs))
  IN IF names = <<>> THEN <<w, env>>
     ELSE BindAll(b[1], b[2], Tail(names), IF vs = <<>> THEN vs ELSE Tail(vs))

RECURSIVE Run(_, _, _, _)
RECURSIVE Call(_, _, _)

Call(w, f, args) ==
  LET fn == w.fns[f[2]]
      n == Len(fn.params)
      b == BindAll(w, [fn.env EXCEPT !.va = SubSeq(args, n + 1, Len(args))], fn.params, args)
      r == Run(b[1], <<b[2]>>, fn.body, 1)
      mm == Method(w, f, "__call")
      body == Call(w, Head(args), Tail(args))
  IN IF w.err THEN <<w, <<>> >>
     ELSE CASE f[1] = "fn" -> <<r[1], IF r[3][1] = "return" THEN r[3][2] ELSE <<>> >>
            [] f = <<"c", "pcall">> ->
                 IF args = <<>> THEN <<Err(w), <<>> >>
                 ELSE IF body[1].err
                 THEN <<[body[1] EXCEPT !.err = FALSE], <<Bool(FALSE), Message>> >>
                 ELSE <<body[1], <<Bool(TRUE)>> \o body[2]>>
            [] f[1] = "c" /\ f[2] # "pcall" -> CFunction(w, f[2], args)
            [] OTHER -> IF IsFunction(mm) THEN Call(w, mm, <<f>> \o args) ELSE <<Err(w), <<>> >>

\* The first result of metamethod mm, or an error when there is none.
Meta(w, mm, args) ==
  LET r == Call(w, mm, args)
  IN IF IsFunction(mm) THEN <<r[1], First(r[2])>> ELSE <<Err(w), Nil>>

Either(w, x, y, event) == IF Method(w, x, event) # Nil THEN Method(w, x, event)
                          ELSE Method(w, y, event)

RECURSIVE Index(_, _, _)
Index(w, t, k) ==
  LET mm == Method(w, t, "__index")
  IN IF IsTable(t) /\ RawGet(w, t, k) # Nil THEN <<w, RawGet(w, t, k)>>
     ELSE IF mm = Nil THEN <<IF IsTable(t) THEN w ELSE Err(w), Nil>>
     ELSE IF IsFunction(mm) THEN Meta(w, mm, <<t, k>>)
     ELSE Index(w, mm, k)

RECURSIVE SetIndex(_, _, _, _)
SetIndex(w, t, k, v) ==
  LET mm == Method(w, t, "__newindex")
  IN IF w.err THEN w
     ELSE IF IsTable(t) /\ (RawGet(w, t, k) # Nil \/ mm = Nil) THEN RawSet(w, t, k, v)
     ELSE IF mm = Nil THEN Err(w)
     ELSE IF IsFunction(mm) THEN Meta(w, mm, <<t, k, v>>)[1]
     ELSE SetIndex(w, mm, k, v)

Arithmetic(w, op, x, y) ==
  IF x[1] = "int" /\ y[1] = "int" THEN <<w, Num(Arith2(op, x[2], y[2]))>>
  ELSE Meta(w, Either(w, x, y, Event(op)), <<x, y>>)

Concat(w, x, y) ==
  IF IsText(x) /\ IsText(y) THEN <<w, <<"str", Text(x) \o Text(y)>> >>
  ELSE Meta(w, Either(w, x, y, "__concat"), <<x, y>>)

\* Comparisons return <<w, BOOLEAN>>.
Holds(r) == <<r[1], Truthy(r[2])>>

Equal(w, x, y) ==
  LET mm == Either(w, x, y, "__eq")
  IN IF IsTable(x) /\ IsTable(y) /\ x # y /\ IsFunction(mm) THEN Holds(Meta(w, mm, <<x, y>>))
     ELSE <<w, x = y>>

Less(w, x, y) ==
  IF x[1] = "int" /\ y[1] = "int" THEN <<w, x[2] < y[2]>>
  ELSE Holds(Meta(w, Either(w, x, y, "__lt"), <<x, y>>))

LessEq(w, x, y) ==
  LET mm == Either(w, x, y, "__le")
      swapped == Less(w, y, x)
  IN IF x[1] = "int" /\ y[1] = "int" THEN <<w, x[2] <= y[2]>>
     ELSE IF mm # Nil THEN Holds(Meta(w, mm, <<x, y>>))
     ELSE <<swapped[1], ~swapped[2]>>

Relation(w, op, x, y) ==
  LET eq == Equal(w, x, y)
  IN CASE op = "==" -> eq
       [] op = "~=" -> <<eq[1], ~eq[2]>>
       [] op = "<" -> Less(w, x, y)
       [] op = ">" -> Less(w, y, x)
       [] op = "<=" -> LessEq(w, x, y)
       [] op = ">=" -> LessEq(w, y, x)

Unary(w, op, x) ==
  CASE op = "not" -> <<w, Bool(~Truthy(x))>>
    [] op = "-" -> IF x[1] = "int" THEN <<w, Num(-x[2])>> ELSE Meta(w, Method(w, x, "__unm"), <<x>>)
    [] op = "#" -> IF IsTable(x) /\ Method(w, x, "__len") = Nil THEN <<w, Num(Border(w, x))>>
                   ELSE Meta(w, Method(w, x, "__len"), <<x>>)

---------------------------------------------------------------------------
RECURSIVE Values(_, _, _)

\* Every result of an expression list: <<w, values>>
RECURSIVE List(_, _, _)
List(w, env, es) ==
  LET v == Values(w, env, Head(es))
      rest == List(v[1], env, Tail(es))
  IN IF es = <<>> THEN <<w, <<>> >>
     ELSE IF Len(es) = 1 THEN v
     ELSE <<rest[1], <<First(v[2])>> \o rest[2]>>

Value(w, env, e) == LET v == Values(w, env, e) IN <<v[1], First(v[2])>>

\* Fields from the i-th on into table t; n is the next array index.
RECURSIVE Fill(_, _, _, _, _, _)
Fill(w, env, t, fields, i, n) ==
  LET f == fields[i]
      key == IF f[1] = "named" THEN <<w, Name(f[2])>> ELSE Value(w, env, f[2])
      v == Value(key[1], env, f[3])
      item == Values(w, env, f[2])
      kept == IF i = Len(fields) THEN item[2] ELSE <<First(item[2])>>
      put[j \in 0..Len(kept)] ==
        IF j = 0 THEN item[1] ELSE RawSet(put[j - 1], t, Num(n + j - 1), kept[j])
  IN IF i > Len(fields) THEN w
     ELSE IF f[1] = "item" THEN Fill(put[Len(kept)], env, t, fields, i + 1, n + Len(kept))
     ELSE Fill(RawSet(v[1], t, key[2], v[2]), env, t, fields, i + 1, n)

One(r) == <<r[1], <<r[2]>> >>

Values(w, env, e) ==
  LET kind == e[1]
      x == Value(w, env, e[2])
      lhs == Value(w, env, e[3])
      rhs == Value(lhs[1], env, e[4])
      key == Value(x[1], env, e[3])
      args == List(x[1], env, e[3])
      self == Index(x[1], x[2], Name(e[3]))
      margs == List(self[1], env, e[4])
      nt == NewTable(w)
      rel == Relation(rhs[1], e[2], lhs[2], rhs[2])
  IN CASE kind = "Nil" -> <<w, <<Nil>> >>
       [] kind = "Bool" -> <<w, <<Bool(e[2])>> >>
       [] kind = "Int" -> <<w, <<Num(e[2])>> >>
       [] kind = "Str" -> <<w, <<Name(e[2])>> >>
       [] kind = "Name" -> IF e[2] \in DOMAIN env.vars THEN <<w, <<w.cells[env.vars[e[2]]]>> >>
                           ELSE One(Index(w, w.cells[env.vars["_ENV"]], Name(e[2])))
       [] kind = "Vararg" -> <<w, env.va>>
       [] kind = "Paren" -> One(x)
       [] kind = "Un" -> One(Unary(lhs[1], e[2], lhs[2]))
       [] kind = "Bin" ->
            CASE e[2] \in {"and", "or"} ->
                   IF Truthy(lhs[2]) = (e[2] = "and") THEN One(rhs) ELSE One(lhs)
              [] e[2] = ".." -> One(Concat(rhs[1], lhs[2], rhs[2]))
              [] e[2] \in {"+", "-", "*"} -> One(Arithmetic(rhs[1], e[2], lhs[2], rhs[2]))
              [] OTHER -> <<rel[1], <<Bool(rel[2])>> >>
       [] kind = "Index" -> One(Index(key[1], x[2], key[2]))
       [] kind = "Field" -> One(Index(x[1], x[2], Name(e[3])))
       [] kind = "Call" -> Call(args[1], x[2], args[2])
       [] kind = "Method" -> Call(margs[1], self[2], <<x[2]>> \o margs[2])
       [] kind = "Table" -> <<Fill(nt[1], env, nt[2], e[2], 1, 1), <<nt[2]>> >>
       [] kind = "Function" ->
            <<[w EXCEPT !.fns = Append(@, [params |-> e[2], env |-> env, body |-> e[4]])],
              <<<<"fn", Len(w.fns) + 1>>>> >>

---------------------------------------------------------------------------
\* Statements return <<w, env, outcome>>; outcome is <<"next">>, <<"break">>,
\* <<"goto", label>> or <<"return", values>>.

Next_ == <<"next">>
Inner(w, env, body) == LET r == Run(w, <<env>>, body, 1) IN <<r[1], env, r[3]>>

\* The store of one value: <<"var", name>> or <<"slot", table, key>>
Target_(w, env, v) ==
  LET t == Value(w, env, v[2])
      k == IF v[1] = "Field" THEN <<t[1], Name(v[3])>> ELSE Value(t[1], env, v[3])
  IN IF v[1] = "Name" THEN <<w, <<"var", v[2]>> >> ELSE <<k[1], <<"slot", t[2], k[2]>> >>

Store(w, env, target, v) ==
  CASE target[1] = "slot" -> SetIndex(w, target[2], target[3], v)
    [] target[1] = "var" /\ target[2] \in DOMAIN env.vars ->
         IF w.err THEN w ELSE [w EXCEPT !.cells[env.vars[target[2]]] = v]
    [] OTHER -> SetIndex(w, w.cells[env.vars["_ENV"]], Name(target[2]), v)

Assignment(w, env, vars, es) ==
  LET n == Len(vars)
      t[i \in 0..n] == IF i = 0 THEN <<w, <<>> >>
                       ELSE LET p == t[i - 1]
                                x == Target_(p[1], env, vars[i])
                            IN <<x[1], Append(p[2], x[2])>>
      v == List(t[n][1], env, es)
      s[i \in 0..n] == IF i = 0 THEN v[1] ELSE Store(s[i - 1], env, t[n][2][i], Nth(v[2], i))
  IN s[n]

\* A loop goes on unless its body broke out, jumped out or returned.
Leaves(out) == out[1] \in {"return", "goto"}
LoopEnd(out) == IF out[1] = "break" THEN Next_ ELSE out

RECURSIVE WhileLoop(_, _, _, _)
WhileLoop(w, env, cond, body) ==
  LET c == Value(w, env, cond)
      r == Inner(c[1], env, body)
  IN IF c[1].err \/ ~Truthy(c[2]) THEN <<c[1], env, Next_>>
     ELSE IF r[3] = Next_ THEN WhileLoop(r[1], env, cond, body)
     ELSE <<r[1], env, LoopEnd(r[3])>>

RECURSIVE RepeatLoop(_, _, _, _)
RepeatLoop(w, env, body, cond) ==
  LET r == Run(w, <<env>>, body, 1)
      c == Value(r[1], r[2], cond)
  IN IF r[3] # Next_ THEN <<r[1], env, LoopEnd(r[3])>>
     ELSE IF c[1].err \/ Truthy(c[2]) THEN <<c[1], env, Next_>>
     ELSE RepeatLoop(c[1], env, body, cond)

RECURSIVE CountLoop(_, _, _, _, _, _, _)
CountLoop(w, env, name, i, limit, step, body) ==
  LET b == Bind(w, env, name, Num(i))
      r == Inner(b[1], b[2], body)
  IN IF w.err \/ (IF step > 0 THEN i > limit ELSE i < limit) THEN <<w, env, Next_>>
     ELSE IF r[3] = Next_ THEN CountLoop(r[1], env, name, i + step, limit, step, body)
     ELSE <<r[1], env, LoopEnd(r[3])>>

RECURSIVE EachLoop(_, _, _, _, _, _, _)
EachLoop(w, env, names, f, s, ctl, body) ==
  LET v == Call(w, f, <<s, ctl>>)
      b == BindAll(v[1], env, names, v[2])
      r == Inner(b[1], b[2], body)
  IN IF v[1].err \/ First(v[2]) = Nil THEN <<v[1], env, Next_>>
     ELSE IF r[3] = Next_ THEN EachLoop(r[1], env, names, f, s, First(v[2]), body)
     ELSE <<r[1], env, LoopEnd(r[3])>>

RECURSIVE Choose(_, _, _, _)
Choose(w, env, branches, else_body) ==
  LET c == Value(w, env, branches[1][1])
  IN IF branches = <<>>
     THEN IF else_body = <<>> THEN <<w, env, Next_>> ELSE Inner(w, env, else_body[1])
     ELSE IF Truthy(c[2]) THEN Inner(c[1], env, branches[1][2])
     ELSE Choose(c[1], env, Tail(branches), else_body)

Exec(w, env, s) ==
  LET kind == s[1]
      vs == List(w, env, s[3])
      b == BindAll(vs[1], env, s[2], vs[2])
      es == List(w, env, s[2])
      bounds == List(w, env, <<s[3], s[4]>> \o s[5])
      step == IF s[5] = <<>> THEN 1 ELSE bounds[2][3][2]
      own == Bind(w, env, s[2], Nil)
      fn == Value(own[1], own[2], s[3])
      path == s[2]
      target == IF Len(path) = 1 THEN <<"Name", path[1]>>
                ELSE FoldLeft(LAMBDA t, n : <<"Field", t, n>>, <<"Name", path[1]>>, Tail(path))
  IN CASE kind = "Local" -> <<b[1], b[2], Next_>>
       [] kind = "Assign" -> <<Assignment(w, env, s[2], s[3]), env, Next_>>
       [] kind = "CallStmt" -> <<Values(w, env, s[2])[1], env, Next_>>
       [] kind = "Return" -> <<es[1], env, <<"return", es[2]>> >>
       [] kind = "If" -> Choose(w, env, s[2], s[3])
       [] kind = "While" -> WhileLoop(w, env, s[2], s[3])
       [] kind = "Repeat" -> RepeatLoop(w, env, s[2], s[3])
       [] kind = "Break" -> <<w, env, <<"break">> >>
       [] kind = "Goto" -> <<w, env, <<"goto", s[2]>> >>
       [] kind = "Label" -> <<w, env, Next_>>
       [] kind = "Do" -> Inner(w, env, s[2])
       [] kind = "ForNum" -> CountLoop(bounds[1], env, s[2], bounds[2][1][2], bounds[2][2][2],
                                       step, s[6])
       [] kind = "ForIn" -> LET it == List(w, env, s[3])
                            IN EachLoop(it[1], env, s[2], Nth(it[2], 1), Nth(it[2], 2),
                                        Nth(it[2], 3), s[4])
       [] kind = "LocalFunction" ->
            <<[fn[1] EXCEPT !.cells[own[2].vars[s[2]]] = fn[2]], own[2], Next_>>
       [] kind = "FunctionDecl" -> <<Assignment(w, env, <<target>>, <<s[3]>>), env, Next_>>

\* Statements from the i-th on; envs[j] is the environment before statement j,
\* the one a jump back to a label at j returns to.
Run(w, envs, stmts, i) ==
  LET r == Exec(w, Last(envs), stmts[i])
      at == IF r[3][1] # "goto" THEN 0
            ELSE SelectInSeq(stmts, LAMBDA s : s[1] = "Label" /\ s[2] = r[3][2])
  IN IF i > Len(stmts) \/ w.err THEN <<w, Last(envs), Next_>>
     ELSE IF r[3] = Next_ THEN Run(r[1], Append(envs, r[2]), stmts, i + 1)
     ELSE IF at = 0 THEN <<r[1], r[2], r[3]>>
     ELSE IF at <= i THEN Run(r[1], SubSeq(envs, 1, at), stmts, at)
     ELSE Run(r[1], envs \o [j \in 1..(at - i) |-> Last(envs)], stmts, at)

---------------------------------------------------------------------------
\* The programs the manual calls correct: break is in a loop, a label is defined
\* once in a block, a goto has a visible label and does not enter the scope of a
\* local, and no function has more than MaxLocals locals at a time.

\* The label a goto reaches is that of the innermost block that has one.  around
\* are the blocks the goto is in, innermost last, each with the statement it is
\* in; a label at the end of a block is outside the scope of the block's locals,
\* unless they are still visible in the condition of a repeat.
GotoLegal(label, around) ==
  LET LabelsOf(k) == {j \in DOMAIN around[k].stmts : around[k].stmts[j] = <<"Label", label>>}
      having == {k \in DOMAIN around : LabelsOf(k) # {}}
      b == around[CHOOSE k \in having : \A m \in having : m <= k]
      j == CHOOSE j \in DOMAIN b.stmts : b.stmts[j] = <<"Label", label>>
  IN /\ having # {}
     /\ \/ j < b.at
        \/ \A i \in b.at..j : b.stmts[i][1] \notin {"Local", "LocalFunction"}
        \/ ~b.repeat /\ \A i \in j..Len(b.stmts) : b.stmts[i][1] = "Label"

Declares(s) == CASE s[1] = "Local" -> Len(s[2]) [] s[1] = "LocalFunction" -> 1 [] OTHER -> 0

RECURSIVE LegalBlock(_, _, _, _, _)
LegalBody(params, body) == LegalBlock(body, <<>>, FALSE, Len(params), FALSE)

RECURSIVE LegalExprs(_)
LegalExprs(es) ==
  \A i \in DOMAIN es :
    LET e == es[i]
    IN CASE e[1] = "Function" -> LegalBody(e[2], e[4])
         [] e[1] = "Bin" -> LegalExprs(<<e[3], e[4]>>)
         [] e[1] = "Un" -> LegalExprs(<<e[3]>>)
         [] e[1] = "Index" -> LegalExprs(<<e[2], e[3]>>)
         [] e[1] \in {"Field", "Paren"} -> LegalExprs(<<e[2]>>)
         [] e[1] = "Call" -> LegalExprs(<<e[2]>> \o e[3])
         [] e[1] = "Method" -> LegalExprs(<<e[2]>> \o e[4])
         [] e[1] = "Table" -> \A f \in DOMAIN e[2] : LegalExprs(<<e[2][f][Len(e[2][f])]>>
                                \o IF e[2][f][1] = "keyed" THEN <<e[2][f][2]>> ELSE <<>>)
         [] OTHER -> TRUE

\* s is the statement the last of around is at, n locals are active.
LegalStmt(s, around, loop, n) ==
  CASE s[1] = "Break" -> loop
    [] s[1] = "Goto" -> GotoLegal(s[2], around)
    [] s[1] = "Label" -> TRUE
    [] s[1] = "While" -> LegalExprs(<<s[2]>>) /\ LegalBlock(s[3], around, TRUE, n, FALSE)
    [] s[1] = "Repeat" -> LegalExprs(<<s[3]>>) /\ LegalBlock(s[2], around, TRUE, n, TRUE)
    [] s[1] = "ForNum" -> LegalExprs(<<s[3], s[4]>> \o s[5]) /\ LegalBlock(s[6], around, TRUE, n + 1, FALSE)
    [] s[1] = "ForIn" -> LegalExprs(s[3]) /\ LegalBlock(s[4], around, TRUE, n + Len(s[2]), FALSE)
    [] s[1] = "Do" -> LegalBlock(s[2], around, loop, n, FALSE)
    [] s[1] = "If" -> /\ \A i \in DOMAIN s[2] : /\ LegalExprs(<<s[2][i][1]>>)
                                                /\ LegalBlock(s[2][i][2], around, loop, n, FALSE)
                      /\ \A i \in DOMAIN s[3] : LegalBlock(s[3][i], around, loop, n, FALSE)
    [] s[1] \in {"Local", "Assign"} -> LegalExprs(s[3]) /\ (s[1] = "Assign" => LegalExprs(s[2]))
    [] s[1] = "Return" -> LegalExprs(s[2])
    [] s[1] = "CallStmt" -> LegalExprs(<<s[2]>>)
    [] s[1] \in {"LocalFunction", "FunctionDecl"} -> LegalBody(s[3][2], s[3][4])

LegalBlock(stmts, around, loop, n, repeat) ==
  LET Active(i) == n + FoldLeft(LAMBDA sum, s : sum + Declares(s), 0, SubSeq(stmts, 1, i))
  IN /\ n <= MaxLocals
     /\ \A i \in DOMAIN stmts :
          /\ Active(i) <= MaxLocals
          /\ LegalStmt(stmts[i], Append(around, [stmts |-> stmts, at |-> i, repeat |-> repeat]), loop, Active(i - 1))
          /\ stmts[i][1] = "Label" => \A j \in 1..(i - 1) : stmts[j] # stmts[i]

---------------------------------------------------------------------------
\* The outcome of a chunk called with args: <<"done", values seen>> or <<"error">>,
\* which is also what loading an incorrect program ends with.
Meaning(chunk, args) ==
  LET w == [cells |-> <<<<"tab", 1>>>>, tables |-> <<[fields |-> Globals, mt |-> 0]>>,
            fns |-> <<[params |-> <<>>, body |-> chunk,
                       env |-> [vars |-> [x \in {"_ENV"} |-> 1], va |-> <<>>]]>>,
            err |-> FALSE]
      r == Call(w, <<"fn", 1>>, args)
  IN IF ~LegalBody(<<>>, chunk) \/ r[1].err THEN <<"error">> ELSE <<"done", [i \in DOMAIN r[2] |-> Seen(r[2][i])]>>
=============================================================================
