------------------------------- MODULE Parser -------------------------------
(***************************************************************************)
(* The recursive-descent parser (src/src/frontend/parser.cpp), as pure     *)
(* operators from a state to a state.  st.toks are the tokens the lexer    *)
(* would deliver, the last one <<"End">>, and st.pos is the one peek()     *)
(* shows; st.v is the tree the last call returned, st.lv the nesting that  *)
(* LevelGuard counts and st.na the locals of the current function.  A      *)
(* token is <<kind>> or <<kind, value>>; keywords and operators are their   *)
(* own kinds.  The tokens of an abandoned parse are <<"error">> alone: no    *)
(* loop goes on at it.  Lines and messages are left out.                    *)
(***************************************************************************)
EXTENDS Integers, Sequences

CONSTANTS LUAI_MAXCCALLS, \* nesting levels
          MAXVARS         \* locals of a function

ASSUME ParserAssumption == {LUAI_MAXCCALLS, MAXVARS} \subseteq Nat \ {0}

peek(st) == st.toks[st.pos]
Kind(st) == peek(st)[1]
TextOf(st) == peek(st)[Len(peek(st))]
check(st, k) == Kind(st) = k
next(st) == [st EXCEPT !.pos = IF @ = Len(st.toks) THEN @ ELSE @ + 1]
error(st) == [st EXCEPT !.toks = <<<<"error">>>>, !.pos = 1]
expect(st, k) == IF check(st, k) THEN next(st) ELSE error(st)
Skip(st, k) == IF check(st, k) THEN next(st) ELSE st

Tree(st, v) == [st EXCEPT !.v = v]
Closing(st, k, v) == Tree(expect(st, k), v)

enterlevel(st) == IF st.lv + 1 > LUAI_MAXCCALLS THEN error(st) ELSE [st EXCEPT !.lv = @ + 1]
leavelevel(st) == [st EXCEPT !.lv = IF @ > 0 THEN @ - 1 ELSE @]
new_localvar(st) == IF st.na + 1 > MAXVARS THEN error(st) ELSE [st EXCEPT !.na = @ + 1]

RECURSIVE parse_expr(_)
RECURSIVE parse_unary(_)
RECURSIVE parse_block(_)
RECURSIVE parse_table(_)

RECURSIVE ExprList(_, _)
ExprList(st, es) ==
  LET e == parse_expr(st)
  IN IF check(e, ",") THEN ExprList(next(e), Append(es, e.v)) ELSE Tree(e, Append(es, e.v))
parse_expr_list(st) == ExprList(st, <<>>)

---------------------------------------------------------------------------
\* Functions

\* Parameters up to the closing parenthesis: <<names, is_vararg>>
RECURSIVE ParameterList(_, _)
ParameterList(st, names) ==
  LET n == new_localvar(expect(st, "Name"))
      all == Append(names, TextOf(st))
  IN IF check(st, "...") THEN Tree(next(st), <<names, TRUE>>)
     ELSE IF check(n, ",") THEN ParameterList(next(n), all)
     ELSE Tree(n, <<all, FALSE>>)

parse_function_body(st, is_method) ==
  LET entered == [st EXCEPT !.na = 0]
      open == expect(IF is_method THEN new_localvar(entered) ELSE entered, "(")
      self == IF is_method THEN <<"self">> ELSE <<>>
      params == IF check(open, ")") THEN Tree(open, <<self, FALSE>>) ELSE ParameterList(open, self)
      body == parse_block(expect(params, ")"))
  IN [Closing(body, "end", <<"Function", params.v[1], params.v[2], body.v>>) EXCEPT !.na = st.na]

---------------------------------------------------------------------------
\* Expressions

parse_primary(st) ==
  LET k == Kind(st)
      inner == parse_expr(next(st))
  IN CASE k = "nil" -> Tree(next(st), <<"Nil">>)
       [] k \in {"true", "false"} -> Tree(next(st), <<"Bool", k = "true">>)
       [] k \in {"Int", "Str", "Name"} -> Tree(next(st), <<k, TextOf(st)>>)
       [] k = "..." -> Tree(next(st), <<"Vararg">>)
       [] k = "(" -> Closing(inner, ")", <<"Paren", inner.v>>)
       [] k = "{" -> parse_table(st)
       [] k = "function" -> parse_function_body(next(st), FALSE)
       [] OTHER -> error(st)

Arguments(st) ==
  LET list == parse_expr_list(next(st))
      table == parse_table(st)
  IN CASE check(st, "(") -> IF check(next(st), ")") THEN Tree(next(next(st)), <<>>)
                            ELSE Closing(list, ")", list.v)
       [] check(st, "Str") -> Tree(next(st), <<<<"Str", TextOf(st)>>>>)
       [] check(st, "{") -> Tree(table, <<table.v>>)
       [] OTHER -> error(st)

RECURSIVE parse_suffix(_)
parse_suffix(st) ==
  LET k == Kind(st)
      name == next(st)
      key == parse_expr(next(st))
      args == Arguments(IF k = ":" THEN expect(name, "Name") ELSE st)
  IN CASE k = "." -> parse_suffix(Closing(name, "Name", <<"Field", st.v, TextOf(name)>>))
       [] k = "[" -> parse_suffix(Closing(key, "]", <<"Index", st.v, key.v>>))
       [] k = ":" -> parse_suffix(Tree(args, <<"Method", st.v, TextOf(name), args.v>>))
       [] k \in {"(", "Str", "{"} -> parse_suffix(Tree(args, <<"Call", st.v, args.v>>))
       [] OTHER -> st

parse_power(st) ==
  LET first == parse_primary(st)
      e == IF Kind(st) \in {"Name", "(", "..."} THEN parse_suffix(first) ELSE first
      rhs == parse_unary(next(enterlevel(e)))
  IN IF check(e, "^") THEN Tree(leavelevel(rhs), <<"Bin", "^", e.v, rhs.v>>) ELSE e

parse_unary(st) ==
  LET operand == parse_unary(next(enterlevel(st)))
  IN IF Kind(st) \in {"not", "#", "-", "~"} THEN Tree(leavelevel(operand), <<"Un", Kind(st), operand.v>>)
     ELSE parse_power(st)

\* parse_or, parse_and, parse_compare, parse_bor, parse_bxor, parse_band,
\* parse_shift, parse_concat, parse_add and parse_mul, each on the next one and
\* the last on parse_unary.  One that meets no operator of its own returns its
\* operand as it is: only the levels that do meet one are followed here.
Operators == <<{"or"}, {"and"}, {"==", "~=", "<", "<=", ">", ">="}, {"|"}, {"~"}, {"&"},
               {"<<", ">>"}, {".."}, {"+", "-"}, {"*", "/", "//", "%"}>>
LevelOf(k) == \* 0 for a token that is no binary operator
  LET levels == {n \in DOMAIN Operators : k \in Operators[n]}
  IN IF levels = {} THEN 0 ELSE CHOOSE n \in levels : TRUE

RECURSIVE parse_binary(_, _)
parse_concat(st, n) == \* the operand after "..": right associative, and counted
  leavelevel(parse_binary(next(enterlevel(st)), n))

RECURSIVE MoreOperands(_, _)
MoreOperands(st, n) ==
  LET k == Kind(st)
      m == LevelOf(k)
      rhs == IF k = ".." THEN parse_concat(st, m) ELSE parse_binary(next(st), m + 1)
  IN IF m >= n THEN MoreOperands(Tree(rhs, <<"Bin", k, st.v, rhs.v>>), n) ELSE st

parse_binary(st, n) == MoreOperands(parse_unary(st), n)

parse_expr(st) == leavelevel(parse_binary(enterlevel(st), 1))

TableField(st) ==
  LET key == parse_expr(next(st))
      keyed == parse_expr(expect(expect(key, "]"), "="))
      named == parse_expr(next(next(st)))
      item == parse_expr(st)
  IN CASE check(st, "[") -> Tree(keyed, <<"keyed", key.v, keyed.v>>)
       [] check(st, "Name") /\ check(next(st), "=") -> Tree(named, <<"named", TextOf(st), named.v>>)
       [] OTHER -> Tree(item, <<"item", item.v>>)

RECURSIVE FieldList(_, _)
FieldList(st, fields) ==
  LET f == TableField(st)
      all == Append(fields, f.v)
  IN IF Kind(st) \in {"}", "End"} THEN Tree(st, fields)
     ELSE IF Kind(f) \in {",", ";"} THEN FieldList(next(f), all)
     ELSE Tree(f, all)

parse_table(st) ==
  LET fields == FieldList(expect(st, "{"), <<>>)
  IN Closing(fields, "}", <<"Table", fields.v>>)

---------------------------------------------------------------------------
\* Statements

\* Names separated by commas; declared says that
\* new_localvar is called for each.
RECURSIVE NameList(_, _, _)
NameList(st, names, declared) ==
  LET n == expect(st, "Name")
      d == IF declared THEN new_localvar(n) ELSE n
      all == Append(names, TextOf(st))
  IN IF check(d, ",") THEN NameList(next(d), all, declared) ELSE Tree(d, all)

RECURSIVE IfStmt(_, _)
IfStmt(st, branches) ==
  LET cond == parse_expr(st)
      body == parse_block(expect(cond, "then"))
      all == Append(branches, <<cond.v, body.v>>)
      orelse == parse_block(next(body))
  IN CASE check(body, "elseif") -> IfStmt(next(body), all)
       [] check(body, "else") -> Closing(orelse, "end", <<"If", all, <<orelse.v>> >>)
       [] OTHER -> Closing(body, "end", <<"If", all, <<>> >>)

WhileStmt(st) ==
  LET cond == parse_expr(st)
      body == parse_block(expect(cond, "do"))
  IN Closing(body, "end", <<"While", cond.v, body.v>>)

RepeatStmt(st) ==
  LET body == parse_block(st)
      cond == parse_expr(expect(body, "until"))
  IN Tree(cond, <<"Repeat", body.v, cond.v>>)

ForStmt(st) ==
  LET name == expect(st, "Name")
      from == parse_expr(next(name))
      to == parse_expr(expect(from, ","))
      step == parse_expr(next(to))
      stepped == check(to, ",")
      counted == parse_block(expect(IF stepped THEN step ELSE to, "do"))
      names == NameList(st, <<>>, FALSE)
      iters == parse_expr_list(expect(names, "in"))
      each == parse_block(expect(iters, "do"))
  IN IF check(name, "=")
     THEN Closing(counted, "end", <<"ForNum", TextOf(st), from.v, to.v,
                                    IF stepped THEN <<step.v>> ELSE <<>>, counted.v>>)
     ELSE Closing(each, "end", <<"ForIn", names.v, iters.v, each.v>>)

\* The path of a function declaration: a.b.c or a.b:c
RECURSIVE FunctionStmt(_, _)
FunctionStmt(st, path) ==
  LET n == expect(st, "Name")
      all == Append(path, TextOf(st))
      method == expect(next(n), "Name")
      is_method == check(n, ":")
      fn == parse_function_body(IF is_method THEN method ELSE n, is_method)
  IN IF check(n, ".") THEN FunctionStmt(next(n), all)
     ELSE Tree(fn, <<"FunctionDecl", IF is_method THEN Append(all, TextOf(next(n))) ELSE all, fn.v>>)

LocalStmt(st) ==
  LET fn == parse_function_body(new_localvar(expect(next(st), "Name")), FALSE)
      names == NameList(st, <<>>, TRUE)
      values == parse_expr_list(next(names))
  IN CASE check(st, "function") -> Tree(fn, <<"LocalFunction", TextOf(next(st)), fn.v>>)
       [] check(names, "=") -> Tree(values, <<"Local", names.v, values.v>>)
       [] OTHER -> Tree(names, <<"Local", names.v, <<>> >>)

BlockEnds == {"end", "else", "elseif", "until", "End"}

ReturnStmt(st) ==
  LET values == parse_expr_list(st)
  IN IF Kind(st) \in BlockEnds \cup {";"} THEN Tree(st, <<"Return", <<>> >>)
     ELSE Tree(values, <<"Return", values.v>>)

\* The targets of an assignment after the first one
SuffixedExp(st) == IF Kind(st) \in {"Name", "("} THEN parse_suffix(parse_primary(st)) ELSE error(st)
RECURSIVE AssignTargets(_, _)
AssignTargets(st, targets) ==
  LET room == Len(targets) + st.lv <= LUAI_MAXCCALLS
      t == SuffixedExp(IF room THEN next(st) ELSE error(st))
      values == parse_expr_list(expect(st, "="))
  IN IF check(st, ",") THEN AssignTargets(t, Append(targets, t.v))
     ELSE Tree(values, <<"Assign", targets, values.v>>)

ExprStmt(st) ==
  LET e == SuffixedExp(st)
  IN CASE Kind(e) \in {",", "="} -> AssignTargets(e, <<e.v>>)
       [] Kind(e) = "error" -> e
       [] OTHER -> IF e.v[1] \in {"Call", "Method"} THEN Tree(e, <<"CallStmt", e.v>>) ELSE error(e)

Stmt(st) ==
  LET k == Kind(st)
      st1 == next(st)
      body == parse_block(st1)
  IN CASE k = "if" -> IfStmt(st1, <<>>)
       [] k = "while" -> WhileStmt(st1)
       [] k = "repeat" -> RepeatStmt(st1)
       [] k = "for" -> ForStmt(st1)
       [] k = "do" -> Closing(body, "end", <<"Do", body.v>>)
       [] k = "break" -> Tree(st1, <<"Break">>)
       [] k = "goto" -> Closing(st1, "Name", <<"Goto", TextOf(st1)>>)
       [] k = "::" -> Closing(expect(st1, "Name"), "::", <<"Label", TextOf(st1)>>)
       [] k = "return" -> ReturnStmt(st1)
       [] k = "function" -> FunctionStmt(st1, <<>>)
       [] k = "local" -> LocalStmt(st1)
       [] OTHER -> ExprStmt(st)

parse_stmt(st) == leavelevel(Stmt(enterlevel(st)))

RECURSIVE StmtList(_, _)
StmtList(st, stmts) ==
  LET s == parse_stmt(st)
      all == Append(stmts, s.v)
  IN CASE Kind(st) \in BlockEnds \cup {"error"} -> Tree(st, stmts)
       [] check(st, ";") -> StmtList(next(st), stmts)
       [] check(st, "return") -> Tree(Skip(s, ";"), all)
       [] OTHER -> StmtList(Skip(s, ";"), all)
parse_block(st) == StmtList(st, <<>>)

\* parse: the body of the chunk and whether there is one
parse_chunk(toks) ==
  LET body == parse_block([toks |-> toks, pos |-> 1, v |-> <<>>, lv |-> 0, na |-> 0])
  IN [ok |-> check(body, "End"), body |-> body.v]
=============================================================================
