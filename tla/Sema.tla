-------------------------------- MODULE Sema --------------------------------
(***************************************************************************)
(* The semantic pass (src/src/frontend/sema.cpp), as pure operators: break *)
(* only in loops, labels once per block, gotos to visible labels and not   *)
(* into the scope of a local.                                              *)
(*                                                                         *)
(* ctx is the Ctx of the function walked: its visible locals, the labels   *)
(* of the blocks around (innermost last, each a function from the label to  *)
(* the names of the locals visible at it), the gotos not bound yet, and     *)
(* whether panic was called.  check_gotos at the end of a function finds no *)
(* block any more, so every goto left over is an error.                     *)
(***************************************************************************)
EXTENDS Integers, Sequences, SequencesExt

NewCtx(params) == [loop_depth |-> 0, locals |-> params, label_scopes |-> <<>>, gotos |-> <<>>,
                   ok |-> TRUE]
NamesOf(locals) == {locals[i] : i \in DOMAIN locals}
Fail(ctx) == [ctx EXCEPT !.ok = FALSE]

RECURSIVE walk_block(_, _, _, _)
RECURSIVE walk_expr(_, _)
RECURSIVE WalkAll(_, _)
WalkAll(es, ctx) == IF es = <<>> THEN ctx ELSE WalkAll(Tail(es), walk_expr(Head(es), ctx))

\* A function body with a Ctx of its own
WalkFunction(params, body, ctx) ==
  LET nested == walk_block(body, NewCtx(params), TRUE, TRUE)
  IN [ctx EXCEPT !.ok = @ /\ nested.ok /\ nested.gotos = <<>>]

FieldExprs(f) == IF f[1] = "keyed" THEN <<f[2], f[3]>> ELSE <<f[Len(f)]>>

walk_expr(e, ctx) ==
  CASE e[1] = "Bin" -> WalkAll(<<e[3], e[4]>>, ctx)
    [] e[1] = "Un" -> walk_expr(e[3], ctx)
    [] e[1] = "Index" -> WalkAll(<<e[2], e[3]>>, ctx)
    [] e[1] \in {"Field", "Paren"} -> walk_expr(e[2], ctx)
    [] e[1] = "Call" -> WalkAll(<<e[2]>> \o e[3], ctx)
    [] e[1] = "Method" -> WalkAll(<<e[2]>> \o e[4], ctx)
    [] e[1] = "Table" -> FoldLeft(LAMBDA c, f : WalkAll(FieldExprs(f), c), ctx, e[2])
    [] e[1] = "Function" -> WalkFunction(e[2], e[4], ctx)
    [] OTHER -> ctx

InLoop(ctx) == [ctx EXCEPT !.loop_depth = @ + 1]
Declare(ctx, names) == [ctx EXCEPT !.locals = @ \o names]
\* The end of a loop that ctx is the beginning of
LeaveLoop(walked, ctx) == [walked EXCEPT !.loop_depth = ctx.loop_depth, !.locals = ctx.locals]

walk_stmt(s, ctx) ==
  LET Counted == WalkAll(<<s[3], s[4]>> \o s[5], ctx)
      Iterated == WalkAll(s[3], ctx)
      Branch(c, b) == walk_block(b[2], walk_expr(b[1], c), TRUE, TRUE)
  IN CASE s[1] = "Break" -> IF ctx.loop_depth <= 0 THEN Fail(ctx) ELSE ctx
       [] s[1] = "Goto" -> [ctx EXCEPT !.gotos = Append(@, [label |-> s[2], visible |-> NamesOf(ctx.locals),
                                                           scope_depth |-> Len(ctx.label_scopes)])]
       [] s[1] = "While" -> LeaveLoop(walk_block(s[3], InLoop(walk_expr(s[2], ctx)), TRUE, TRUE), ctx)
       [] s[1] = "Repeat" -> LeaveLoop(walk_expr(s[3], walk_block(s[2], InLoop(ctx), FALSE, FALSE)), ctx)
       [] s[1] = "ForNum" -> LeaveLoop(walk_block(s[6], Declare(InLoop(Counted), <<s[2]>>), TRUE, TRUE), ctx)
       [] s[1] = "ForIn" -> LeaveLoop(walk_block(s[4], Declare(InLoop(Iterated), s[2]), TRUE, TRUE), ctx)
       [] s[1] = "If" -> FoldLeft(LAMBDA c, b : walk_block(b, c, TRUE, TRUE),
                                  FoldLeft(Branch, ctx, s[2]), s[3])
       [] s[1] = "Local" -> Declare(WalkAll(s[3], ctx), s[2])
       [] s[1] = "Assign" -> WalkAll(s[2] \o s[3], ctx)
       [] s[1] = "Return" -> WalkAll(s[2], ctx)
       [] s[1] = "CallStmt" -> walk_expr(s[2], ctx)
       [] s[1] = "LocalFunction" -> WalkFunction(<<>>, s[3][4], Declare(ctx, <<s[2]>>))
       [] s[1] = "FunctionDecl" -> WalkFunction(<<>>, s[3][4], ctx)
       [] s[1] = "Do" -> walk_block(s[2], ctx, TRUE, TRUE)

\* A label of the innermost block, at statement i.  One with nothing but labels
\* after it is outside the scope of the block's locals.
WalkLabel(stmts, i, ctx, before, allow_last_label) ==
  LET last == allow_last_label /\ \A j \in i..Len(stmts) : stmts[j][1] = "Label"
      scope == ctx.label_scopes[Len(ctx.label_scopes)]
      name == stmts[i][2]
      visible == IF last THEN NamesOf(SubSeq(ctx.locals, 1, before)) ELSE NamesOf(ctx.locals)
      scope1 == [l \in DOMAIN scope \cup {name} |-> IF l = name THEN visible ELSE scope[l]]
  IN IF name \in DOMAIN scope THEN Fail(ctx)
     ELSE [ctx EXCEPT !.label_scopes[Len(ctx.label_scopes)] = scope1]

RECURSIVE WalkStmts(_, _, _, _, _)
WalkStmts(stmts, i, ctx, before, allow_last_label) ==
  IF i > Len(stmts) THEN ctx
  ELSE WalkStmts(stmts, i + 1,
                 IF stmts[i][1] = "Label" THEN WalkLabel(stmts, i, ctx, before, allow_last_label)
                 ELSE walk_stmt(stmts[i], ctx), before, allow_last_label)

\* At its end a block binds the gotos of blocks as deep as itself.
walk_block(stmts, ctx, allow_last_label, pop_locals) ==
  LET before == Len(ctx.locals)
      end == WalkStmts(stmts, 1, [ctx EXCEPT !.label_scopes = Append(@, <<>>)], before, allow_last_label)
      depth == Len(end.label_scopes)
      scope == end.label_scopes[depth]
      Bound(g) == g.scope_depth >= depth /\ g.label \in DOMAIN scope
  IN [end EXCEPT !.ok = @ /\ \A i \in DOMAIN end.gotos :
                              Bound(end.gotos[i]) => scope[end.gotos[i].label] \subseteq end.gotos[i].visible,
                 !.gotos = SelectSeq(@, LAMBDA g : ~Bound(g)),
                 !.label_scopes = SubSeq(@, 1, depth - 1),
                 !.locals = IF pop_locals THEN SubSeq(@, 1, before) ELSE @]

\* Whether the chunk is accepted
sema_analyze(chunk) == WalkFunction(<<>>, chunk, NewCtx(<<>>)).ok
=============================================================================
