------------------------------- MODULE LuaText -------------------------------
(***************************************************************************)
(* The concrete syntax of a syntax tree, by the grammar and the operator   *)
(* precedences of the reference manual: the tokens of a text that has this *)
(* tree.  An operand is put in parentheses only where the text would       *)
(* otherwise group differently, and statements end with a semicolon.       *)
(***************************************************************************)
EXTENDS Integers, Sequences, SequencesExt

\* Precedence of a binary operator, from low to high; unary operators bind
\* tighter than all of them but ^.  .. and ^ group to the right.
Precedence(op) ==
  CASE op = "or" -> 1 [] op = "and" -> 2
    [] op \in {"<", ">", "<=", ">=", "~=", "=="} -> 3
    [] op = "|" -> 4 [] op = "~" -> 5 [] op = "&" -> 6 [] op \in {"<<", ">>"} -> 7
    [] op = ".." -> 8 [] op \in {"+", "-"} -> 9 [] op \in {"*", "/", "//", "%"} -> 10
    [] op = "^" -> 12
UnaryPrecedence == 11
RightGrouping == {"..", "^"}

Enclosed(open, toks, close) == <<<<open>>>> \o toks \o <<<<close>>>>
\* Token sequences one after the other (the LET makes TLC evaluate each once)
Joined(parts) == LET each == parts \o <<>> IN FlattenSeq(each)
Separated(parts) == \* with commas between them
  Joined([i \in DOMAIN parts |-> IF i = 1 THEN parts[i] ELSE <<<<",">>>> \o parts[i]])
Named(x) == <<<<"Name", x>>>>
NamesText(names) == Separated([i \in DOMAIN names |-> Named(names[i])])

\* How tightly an expression holds together
Binds(e) == CASE e[1] = "Bin" -> Precedence(e[2])
              [] e[1] = "Un" -> UnaryPrecedence
              [] e[1] = "Int" -> IF e[2] < 0 THEN UnaryPrecedence ELSE 13
              [] OTHER -> 13

RECURSIVE ExprText(_)
RECURSIVE BlockText(_)

ExprsText(es) == Separated([i \in DOMAIN es |-> ExprText(es[i])])
\* An operand of an operator that takes operands of at least that precedence
OperandText(e, atleast) ==
  IF Binds(e) >= atleast THEN ExprText(e) ELSE Enclosed("(", ExprText(e), ")")
\* What can be indexed or called without parentheses around it
PrefixText(e) == IF e[1] \in {"Name", "Paren", "Index", "Field", "Call", "Method"} THEN ExprText(e)
                 ELSE Enclosed("(", ExprText(e), ")")

FunctionText(params, is_vararg, body) ==
  Enclosed("(", Separated([i \in DOMAIN params |-> Named(params[i])]
                          \o IF is_vararg THEN <<<<<<"...">>>>>> ELSE <<>>), ")")
  \o BlockText(body) \o <<<<"end">>>>

FieldText(f) ==
  CASE f[1] = "item" -> ExprText(f[2])
    [] f[1] = "named" -> Named(f[2]) \o <<<<"=">>>> \o ExprText(f[3])
    [] f[1] = "keyed" -> Enclosed("[", ExprText(f[2]), "]") \o <<<<"=">>>> \o ExprText(f[3])

\* A call with one string or table as argument is written without parentheses.
ArgumentsText(args) ==
  IF Len(args) = 1 /\ args[1][1] \in {"Str", "Table"} THEN ExprText(args[1])
  ELSE Enclosed("(", ExprsText(args), ")")

ExprText(e) ==
  CASE e[1] = "Nil" -> <<<<"nil">>>>
    [] e[1] = "Bool" -> <<<<IF e[2] THEN "true" ELSE "false">>>>
    [] e[1] = "Int" -> IF e[2] < 0 THEN <<<<"-">>, <<"Int", -e[2]>>>> ELSE <<e>>
    [] e[1] \in {"Str", "Name"} -> <<e>>
    [] e[1] = "Vararg" -> <<<<"...">>>>
    [] e[1] = "Paren" -> Enclosed("(", ExprText(e[2]), ")")
    [] e[1] = "Un" -> <<<<e[2]>>>> \o OperandText(e[3], UnaryPrecedence)
    [] e[1] = "Bin" ->
         LET p == Precedence(e[2])
             right == e[2] \in RightGrouping
         IN OperandText(e[3], IF right THEN p + 1 ELSE p) \o <<<<e[2]>>>>
            \o OperandText(e[4], IF e[2] = "^" THEN UnaryPrecedence ELSE IF right THEN p ELSE p + 1)
    [] e[1] = "Index" -> PrefixText(e[2]) \o Enclosed("[", ExprText(e[3]), "]")
    [] e[1] = "Field" -> PrefixText(e[2]) \o <<<<".">>>> \o Named(e[3])
    [] e[1] = "Call" -> PrefixText(e[2]) \o ArgumentsText(e[3])
    [] e[1] = "Method" -> PrefixText(e[2]) \o <<<<":">>>> \o Named(e[3]) \o ArgumentsText(e[4])
    [] e[1] = "Table" -> Enclosed("{", Separated([i \in DOMAIN e[2] |-> FieldText(e[2][i])]), "}")
    [] e[1] = "Function" -> <<<<"function">>>> \o FunctionText(e[2], e[3], e[4])

\* a.b.c, or a.b:c when the first parameter is self
PathText(path, fn) ==
  LET method == Len(path) > 1 /\ Len(fn[2]) > 0 /\ Head(fn[2]) = "self"
  IN Joined([i \in DOMAIN path |->
       IF i = 1 THEN Named(path[i])
       ELSE <<<<IF method /\ i = Len(path) THEN ":" ELSE ".">>>> \o Named(path[i])])
     \o FunctionText(IF method THEN Tail(fn[2]) ELSE fn[2], fn[3], fn[4])

Bodied(open, body) == <<<<open>>>> \o BlockText(body) \o <<<<"end">>>>

StmtText(s) ==
  CASE s[1] = "Local" -> <<<<"local">>>> \o NamesText(s[2])
                         \o IF s[3] = <<>> THEN <<>> ELSE <<<<"=">>>> \o ExprsText(s[3])
    [] s[1] = "Assign" -> ExprsText(s[2]) \o <<<<"=">>>> \o ExprsText(s[3])
    [] s[1] = "CallStmt" -> ExprText(s[2])
    [] s[1] = "Return" -> <<<<"return">>>> \o ExprsText(s[2])
    [] s[1] = "If" ->
         Joined([i \in DOMAIN s[2] |-> <<<<IF i = 1 THEN "if" ELSE "elseif">>>> \o ExprText(s[2][i][1])
                                           \o <<<<"then">>>> \o BlockText(s[2][i][2])])
         \o (IF s[3] = <<>> THEN <<>> ELSE <<<<"else">>>> \o BlockText(s[3][1])) \o <<<<"end">>>>
    [] s[1] = "While" -> <<<<"while">>>> \o ExprText(s[2]) \o Bodied("do", s[3])
    [] s[1] = "Repeat" -> <<<<"repeat">>>> \o BlockText(s[2]) \o <<<<"until">>>> \o ExprText(s[3])
    [] s[1] = "Break" -> <<<<"break">>>>
    [] s[1] = "ForNum" -> <<<<"for">>>> \o Named(s[2]) \o <<<<"=">>>> \o ExprsText(<<s[3], s[4]>> \o s[5])
                          \o Bodied("do", s[6])
    [] s[1] = "ForIn" -> <<<<"for">>>> \o NamesText(s[2]) \o <<<<"in">>>> \o ExprsText(s[3]) \o Bodied("do", s[4])
    [] s[1] = "LocalFunction" -> <<<<"local">>, <<"function">>>> \o Named(s[2])
                                 \o FunctionText(s[3][2], s[3][3], s[3][4])
    [] s[1] = "FunctionDecl" -> <<<<"function">>>> \o PathText(s[2], s[3])
    [] s[1] = "Do" -> Bodied("do", s[2])
    [] s[1] = "Goto" -> <<<<"goto">>>> \o Named(s[2])
    [] s[1] = "Label" -> <<<<"::">>>> \o Named(s[2]) \o <<<<"::">>>>

BlockText(stmts) == Joined([i \in DOMAIN stmts |-> StmtText(stmts[i]) \o <<<<";">>>>])

\* The tokens of a chunk
ChunkText(chunk) == BlockText(chunk) \o <<<<"End">>>>
=============================================================================
