------------------------------ MODULE Lowering ------------------------------
(***************************************************************************)
(* The code generator: abstract syntax trees to register bytecode          *)
(* (src/src/frontend/lowering.cpp), as pure operators.                     *)
(*                                                                         *)
(* S is the chain of FuncStates, the function being compiled last; an      *)
(* operator returns the new S, or <<S, result>>.  Registers, instruction   *)
(* addresses and jump offsets are the code's: addresses start at 0, so     *)
(* code[pc + 1] is the instruction at pc, and an instruction is            *)
(* <<opcode, A, B, C>>, or <<opcode, A, sBx>> or <<opcode, A, Bx>>.  Line  *)
(* numbers, variable names kept for debugging and floats are left out.     *)
(*                                                                         *)
(* A tree is a tuple headed by its AstKind, e.g. <<"Bin", "+", l, r>>.     *)
(***************************************************************************)
EXTENDS Bytecode, Sequences, SequencesExt, FiniteSetsExt, Functions

---------------------------------------------------------------------------
\* FuncState and its Proto

NewFunc(np, va) ==
  [code |-> <<>>, consts |-> <<>>, upvalues |-> <<>>, protos |-> <<>>,
   numparams |-> np, is_vararg |-> va, locals |-> <<>>, locvars |-> {}, nactvar |-> 0,
   freereg |-> 0, maxstack |-> 0, reg_hwm |-> 0, break_list |-> <<>>,
   loop_break_level |-> <<>>, labels |-> <<>>, pending_gotos |-> <<>>,
   block_entry_nactvar |-> <<>>, failed |-> FALSE]

Fs(S) == S[Len(S)]
Pc(S) == Len(Fs(S).code)

\* check_limit or a goto without a label has called panic: the compilation is
\* abandoned.
Stopped(S) == Fs(S).failed

Emit(S, ins) == [S EXCEPT ![Len(S)].code = Append(@, ins)]

\* dest <- r, unless they are the same register
MoveTo(S, dest, r) == IF r = dest THEN S ELSE Emit(S, <<"MOVE", dest, r, 0>>)

FixSbx(S, pc, dest) ==
  [S EXCEPT ![Len(S)].code[pc + 1] = <<@[1], @[2], dest - (pc + 1)>>]

SetFree(S, r) == [S EXCEPT ![Len(S)].freereg = r]
Rewind(S) == SetFree(S, Fs(S).nactvar)
GrowTo(S, n) == [S EXCEPT ![Len(S)].maxstack = Max2(@, n)]

Reserve(S, n) ==
  LET free == Fs(S).freereg + n
  IN [S EXCEPT ![Len(S)].freereg = free,
               ![Len(S)].reg_hwm = Max2(@, free),
               ![Len(S)].maxstack = Max2(@, free),
               ![Len(S)].failed = @ \/ free > MAXSTACK - 1]

\* new_reg: the register is the old freereg
NewReg(S) == Reserve(S, 1)
FreeReg(S, r) == IF r >= Fs(S).nactvar THEN SetFree(S, r) ELSE S

\* const_index at level l: <<S, index>>
ConstIndex(S, l, v) ==
  LET at == SelectInSeq(S[l].consts, LAMBDA k : k = v)
  IN IF at > 0 THEN <<S, at - 1>>
     ELSE <<[S EXCEPT ![l].consts = Append(@, v)], Len(S[l].consts)>>

StringK(S, name) == ConstIndex(S, Len(S), <<"str", <<name>> >>)

PushLocal(S, name, reg) ==
  LET n == Max2(Fs(S).nactvar, reg + 1)
  IN [S EXCEPT ![Len(S)].locals = Append(@, [name |-> name, reg |-> reg, startpc |-> Pc(S),
                                                 captured |-> FALSE]),
               ![Len(S)].nactvar = n,
               ![Len(S)].freereg = Max2(@, n)]

RECURSIVE PushLocals(_, _, _)
PushLocals(S, names, reg) ==
  IF names = <<>> THEN S
  ELSE PushLocals(PushLocal(S, Head(names), reg), Tail(names), reg + 1)

\* The locals above n enter the Proto's locvars; their scope ends here.
FlushLocvars(S, n) ==
  LET gone == {Fs(S).locals[i] : i \in {j \in DOMAIN Fs(S).locals : j > n}}
  IN [S EXCEPT ![Len(S)].locvars = @ \cup
        {[reg |-> v.reg, startpc |-> v.startpc, endpc |-> Pc(S)] : v \in gone}]

ActiveTop(locals) == Max({0} \cup {locals[i].reg + 1 : i \in DOMAIN locals})

\* Registers of the captured locals among the locals above n that are at or above r.
CapturedRegs(locals, n, r) ==
  {locals[i].reg : i \in {j \in DOMAIN locals :
                            j > n /\ locals[j].captured /\ locals[j].reg >= r}}

\* The A operand of a JMP that closes those registers.
CloseArg(regs) == IF regs = {} THEN 0 ELSE Min(regs) + 1

LeaveBlock(S, n, clear_dead) ==
  LET fs == Fs(S)
      caught == CapturedRegs(fs.locals, n, 0)
      plain == {fs.locals[i].reg : i \in {j \in DOMAIN fs.locals :
                                            j > n /\ ~fs.locals[j].captured}}
      S1 == IF clear_dead /\ plain # {} /\ caught = {}
            THEN Emit(FlushLocvars(S, n), <<"LOADNIL", Min(plain),
                        Max2(Max(plain), fs.reg_hwm - 1) - Min(plain), 0>>)
            ELSE FlushLocvars(S, n)
      na == ActiveTop(SubSeq(fs.locals, 1, n))
      terminal == Pc(S1) > 0 /\ Last(Fs(S1).code)[1] \in {"RETURN", "TAILCALL"}
      closes == caught # {} /\ ~terminal
      S2 == IF closes THEN Emit(S1, <<"JMP", Min(caught) + 1, 0>>) ELSE S1
      free == IF closes THEN Max2(fs.reg_hwm, na) ELSE na
  IN [S2 EXCEPT ![Len(S)].locals = SubSeq(@, 1, n),
                ![Len(S)].nactvar = na,
                ![Len(S)].freereg = free,
                ![Len(S)].reg_hwm = Max2(@, free)]

FindLocal(fs, name) ==
  LET at == SelectLastInSeq(fs.locals, LAMBDA v : v.name = name)
  IN IF at = 0 THEN -1 ELSE fs.locals[at].reg

GotoCloseA(goto_nactvar, label_nactvar) ==
  IF goto_nactvar > label_nactvar THEN label_nactvar + 1 ELSE 0

PatchGoto(S, g, label) ==
  [S EXCEPT ![Len(S)].code[g.pc + 1] =
     <<"JMP", GotoCloseA(g.nactvar, label.nactvar), label.pc - (g.pc + 1)>>]

RECURSIVE PatchGotos(_, _)
PatchGotos(S, gs) ==
  IF gs = <<>> THEN S
  ELSE IF Head(gs).name \notin DOMAIN Fs(S).labels THEN [S EXCEPT ![Len(S)].failed = TRUE]
  ELSE PatchGotos(PatchGoto(S, Head(gs), Fs(S).labels[Head(gs).name]), Tail(gs))

---------------------------------------------------------------------------
\* Variables

AddUpval(S, l, name, instack, idx) ==
  LET up == S[l].upvalues
      at == SelectInSeq(up, LAMBDA u : u.instack = instack /\ u.idx = idx)
      Caught(v) == IF v.reg = idx THEN [v EXCEPT !.captured = TRUE] ELSE v
      S1 == IF instack /\ l > 1
            THEN [S EXCEPT ![l - 1].locals = [i \in DOMAIN @ |-> Caught(@[i])]]
            ELSE S
  IN IF at > 0 THEN <<S, at - 1>>
     ELSE <<[S1 EXCEPT ![l].upvalues =
               Append(@, [name |-> name, instack |-> instack, idx |-> idx])],
            Len(up)>>

NamedUpval(fs, name) == SelectInSeq(fs.upvalues, LAMBDA u : u.name = name) - 1

RECURSIVE EnsureEnv(_, _)
EnsureEnv(S, l) ==
  LET here == NamedUpval(S[l], "_ENV")
      reg == FindLocal(S[l - 1], "_ENV")
      up == EnsureEnv(S, l - 1)
  IN IF here >= 0 THEN <<S, here>>
     ELSE IF reg >= 0 THEN AddUpval(S, l, "_ENV", TRUE, reg)
     ELSE AddUpval(up[1], l, "_ENV", FALSE, up[2])

RECURSIVE SearchVar(_, _, _)
SearchVar(S, l, name) ==
  LET reg == FindLocal(S[l], name)
      up == NamedUpval(S[l], name)
      outer == IF l > 1 THEN SearchVar(S, l - 1, name) ELSE <<S, [kind |-> "Global"]>>
      inherited == AddUpval(outer[1], l, name, outer[2].kind = "Local", outer[2].info)
      env == FindLocal(S[l], "_ENV")
      S1 == IF env >= 0 THEN outer[1] ELSE EnsureEnv(outer[1], l)[1]
      k == ConstIndex(S1, l, <<"str", <<name>> >>)
  IN IF reg >= 0 THEN <<S, [kind |-> "Local", info |-> reg]>>
     ELSE IF up >= 0 THEN <<S, [kind |-> "Upval", info |-> up]>>
     ELSE IF outer[2].kind # "Global"
     THEN <<inherited[1], [kind |-> "Upval", info |-> inherited[2]]>>
     ELSE <<k[1], [kind |-> "Global", info |-> k[2], env |-> env]>>

---------------------------------------------------------------------------
\* Expressions already described (Expdesc) into registers

IndexOp(get, e) ==
  CASE e.index_key = "IntImm" -> IF get THEN "GETI" ELSE "SETI"
    [] e.index_key = "ConstStr" -> IF get THEN "GETFIELD" ELSE "SETFIELD"
    [] OTHER -> IF get THEN "GETTABLE" ELSE "SETTABLE"

EmitGetIndex(S, dest, e) == Emit(S, <<IndexOp(TRUE, e), dest, e.table, e.key>>)
EmitSetIndex(S, e, r) == Emit(S, <<IndexOp(FALSE, e), e.table, e.key, r>>)

\* A constant whose index does not fit in 8 bits is loaded into a register.
LoadK(S, k) == Emit(NewReg(S), <<"LOADK", Fs(S).freereg, k>>)

GetGlobal(S, e, r) ==
  LET env == EnsureEnv(S, Len(S))
  IN IF e.env >= 0
     THEN IF e.info <= MAXARG
          THEN Emit(S, <<"GETFIELD", r, e.env, e.info>>)
          ELSE SetFree(Emit(LoadK(S, e.info), <<"GETTABLE", r, e.env, r + 1>>), r + 1)
     ELSE IF e.info <= MAXARG
          THEN Emit(env[1], <<"GETTABUP", r, env[2], e.info>>)
          ELSE SetFree(Emit(LoadK(Emit(env[1], <<"GETUPVAL", r, env[2], 0>>), e.info),
                            <<"GETTABLE", r, r, r + 1>>), r + 1)

LoadConst(S, v, r) ==
  CASE v[1] = "nil" -> Emit(S, <<"LOADNIL", r, 0, 0>>)
    [] v[1] = "bool" -> Emit(S, <<"LOADBOOL", r, IF v[2] THEN 1 ELSE 0, 0>>)
    [] v[1] = "int" -> Emit(S, <<"LOADINT", r, v[2]>>)
    [] OTHER -> LET k == ConstIndex(S, Len(S), v)
                IN Emit(k[1], <<"LOADK", r, k[2]>>)

\* exp2reg: <<S, register>>
Exp2Reg(S, e) ==
  LET r == Fs(S).freereg
      S1 == NewReg(S)
  IN CASE e.kind \in {"Local", "Call"} -> <<S, e.info>>
       [] e.kind = "Nonrelocable" -> <<S, e.reg>>
       [] e.kind = "Upval" -> <<Emit(S1, <<"GETUPVAL", r, e.info, 0>>), r>>
       [] e.kind = "Global" -> <<GetGlobal(S1, e, r), r>>
       [] e.kind = "Constant" -> <<LoadConst(S1, e.k, r), r>>
       [] e.kind = "Indexed" -> <<SetFree(EmitGetIndex(S1, r, e), r + 1), r>>

InReg(r) == [kind |-> "Nonrelocable", reg |-> r]
Const(v) == [kind |-> "Constant", k |-> v]

LastCall(S) == SelectLastInSeq(Fs(S).code, LAMBDA ins : ins[1] = "CALL")
LastCallBase(S) == Fs(S).code[LastCall(S)][2]

\* mutant: one result too few is kept
PatchLastCallResultsShort(S, nres) ==
  [S EXCEPT ![Len(S)].code[LastCall(S)] =
     <<"CALL", @[2], @[3], IF nres < 0 THEN 0 ELSE nres>>]
\* nres = -1 keeps every result
PatchLastCallResults(S, nres) ==
  [S EXCEPT ![Len(S)].code[LastCall(S)] =
     <<"CALL", @[2], @[3], IF nres < 0 THEN 0 ELSE nres + 1>>]

\* MOVE dest + j, from + j for j in 0 .. n - 1
RECURSIVE MoveRange(_, _, _, _)
MoveRange(S, dest, from, n) ==
  IF n <= 0 THEN S ELSE MoveRange(MoveTo(S, dest, from), dest + 1, from + 1, n - 1)

LoadNils(S, from, n) ==
  LET f[i \in 0..n] == IF i = 0 THEN S ELSE Emit(f[i - 1], <<"LOADNIL", from + i - 1, 0, 0>>)
  IN f[n]

\* The index key of table expression t: an 8-bit immediate, a constant or a register.
IsImmediate(e) == e.kind = "Constant" /\ e.k[1] = "int" /\ e.k[2] \in 0..MAXARG

\* <<S, index_key, key>> for key descriptor k
IndexKey(S, k) ==
  LET c == ConstIndex(S, Len(S), k.k)
      isStr == k.kind = "Constant" /\ k.k[1] = "str"
      S1 == IF isStr THEN c[1] ELSE S
      r == Exp2Reg(S1, k)
  IN IF IsImmediate(k) THEN <<S, "IntImm", k.k[2]>>
     ELSE IF isStr /\ c[2] <= MAXARG THEN <<S1, "ConstStr", c[2]>>
     ELSE <<r[1], "Reg", r[2]>>

---------------------------------------------------------------------------
\* expr: <<S, descriptor>>

RECURSIVE Expr(_, _)
RECURSIVE Block(_, _, _, _)

\* An expression into a register: <<S, register>>
ExprReg(S, node) == LET x == Expr(S, node) IN Exp2Reg(x[1], x[2])

\* ... and from there into dest
ExprTo(S, node, dest) ==
  LET x == ExprReg(S, node) IN SetFree(MoveTo(x[1], dest, x[2]), dest + 1)

\* Both operands, left first: <<S, rb, rc>>
Operands(S, l, r) ==
  LET x == ExprReg(S, l)
      y == ExprReg(x[1], r)
  IN <<y[1], x[2], y[2]>>

UnCode == [m \in {"-", "not", "#"} |->
             CASE m = "-" -> "UNM" [] m = "not" -> "NOT" [] OTHER -> "LEN"]

ExprUn(S, op, operand) ==
  LET o == Expr(S, operand)
      r == Exp2Reg(o[1], o[2])
      dest == Fs(r[1]).freereg
  IN IF op = "-" /\ o[2].kind = "Constant" /\ o[2].k[1] = "int"
     THEN <<o[1], Const(<<"int", -o[2].k[2]>>)>>
     ELSE <<FreeReg(Emit(NewReg(r[1]), <<UnCode[op], dest, r[2], 0>>), r[2]), InReg(dest)>>

RelOps == {"==", "~=", "<", "<=", ">", ">="}

\* The comparison instruction of  x op y  with condition operand holds.
Compare(op, holds, x, y) ==
  CASE op = "==" -> <<"EQ", holds, x, y>>
    [] op = "~=" -> <<"EQ", 1 - holds, x, y>>
    [] op = "<"  -> <<"LT", holds, x, y>>
    [] op = ">"  -> <<"LT", holds, y, x>>
    [] op = "<=" -> <<"LE", holds, x, y>>
    [] op = ">=" -> <<"LE", holds, y, x>>

ExprRel(S, op, l, r) ==
  LET x == Operands(S, l, r)
      dest == Fs(x[1]).freereg
      S1 == Emit(NewReg(x[1]), Compare(op, 1, x[2], x[3]))
      S2 == Emit(Emit(Emit(S1, <<"JMP", 0, 1>>), <<"LOADBOOL", dest, 0, 1>>),
                 <<"LOADBOOL", dest, 1, 0>>)
  IN <<S2, InReg(dest)>>

IsRel(node) == node[1] = "Bin" /\ node[2] \in RelOps

\* emit_rel_failjmp: compare, then jump when the comparison fails
RelFailJmp(S, rel, floor) ==
  LET x == Operands(SetFree(S, Max2(Fs(S).freereg, floor)), rel[3], rel[4])
  IN SetFree(Emit(Emit(x[1], Compare(rel[2], 0, x[2], x[3])), <<"JMP", 0, 0>>), floor)

ExprAndRel(S, l, r) ==
  LET dest == Fs(S).freereg
      S1 == RelFailJmp(S, l, dest)
      S2 == RelFailJmp(S1, r, dest)
      S3 == Emit(Emit(NewReg(S2), <<"LOADBOOL", dest, 1, 0>>), <<"JMP", 0, 0>>)
      S4 == FixSbx(FixSbx(S3, Pc(S1) - 1, Pc(S3)), Pc(S2) - 1, Pc(S3))
      S5 == Emit(S4, <<"LOADBOOL", dest, 0, 0>>)
  IN <<SetFree(FixSbx(S5, Pc(S3) - 1, Pc(S5)), dest + 1), InReg(dest)>>

ExprLogic(S, op, l, r) ==
  LET x == ExprReg(S, l)
      dest == Fs(x[1]).freereg
      S1 == Emit(Emit(Emit(NewReg(x[1]), <<"MOVE", dest, x[2], 0>>),
                      <<"TEST", dest, 0, IF op = "and" THEN 0 ELSE 1>>), <<"JMP", 0, 0>>)
      S2 == ExprTo(SetFree(S1, dest + 1), r, dest)
  IN <<FixSbx(S2, Pc(S1) - 1, Pc(S2)), InReg(dest)>>

ExprConcat(S, l, r) ==
  LET x == Operands(S, l, r)
      a == Fs(x[1]).freereg
      S1 == MoveTo(MoveTo(Reserve(x[1], 2), a, x[2]), a + 1, x[3])
  IN <<SetFree(Emit(S1, <<"CONCAT", a, a, a + 1>>), a + 1), InReg(a)>>

ArithCode == [m \in {"+", "-", "*"} |->
                CASE m = "+" -> "ADD" [] m = "-" -> "SUB" [] OTHER -> "MUL"]

ExprArith(S, op, l, r) ==
  LET x == Operands(S, l, r)
      na == Fs(x[1]).nactvar
      dest == IF x[2] >= na THEN x[2] ELSE IF x[3] >= na THEN x[3] ELSE Fs(x[1]).freereg
      S1 == IF x[2] >= na \/ x[3] >= na THEN x[1] ELSE NewReg(x[1])
  IN <<SetFree(Emit(S1, <<ArithCode[op], dest, x[2], x[3]>>), dest + 1), InReg(dest)>>

ExprBin(S, op, l, r) ==
  CASE op = "and" /\ IsRel(l) /\ IsRel(r) -> ExprAndRel(S, l, r)
    [] op \in {"and", "or"} /\ ~(op = "and" /\ IsRel(l) /\ IsRel(r)) -> ExprLogic(S, op, l, r)
    [] op = ".." -> ExprConcat(S, l, r)
    [] op \in RelOps -> ExprRel(S, op, l, r)
    [] OTHER -> ExprArith(S, op, l, r)

ExprIndex(S, t, key) ==
  LET x == ExprReg(S, t)
      y == Expr(x[1], key)
      k == IndexKey(y[1], y[2])
  IN <<k[1], [kind |-> "Indexed", table |-> x[2], index_key |-> k[2], key |-> k[3]]>>

\* The last expression of a list, kept with all its results at dest.
IsMulti(node) == node[1] \in {"Vararg", "Call", "Method"}
MultiTo(S, node, dest) ==
  IF node[1] = "Vararg"
  THEN Emit(Reserve(SetFree(S, dest), 1), <<"VARARG", dest, 0, 0>>)
  ELSE PatchLastCallResults(Expr(SetFree(S, dest), node)[1], -1)

RECURSIVE Args(_, _)
Args(S, args) ==
  LET dest == Fs(S).freereg
  IN IF Stopped(S) \/ args = <<>> THEN S
     ELSE IF Len(args) = 1 /\ IsMulti(args[1]) THEN MultiTo(S, args[1], dest)
     ELSE Args(ExprTo(GrowTo(SetFree(S, dest + 1), dest + 1), Head(args), dest), Tail(args))

\* Callee into R[base]; with a method name the receiver goes to R[base + 1].
Callee(S, callee, base) ==
  LET x == Expr(S, callee)
      r == Exp2Reg(x[1], x[2])
  IN SetFree(IF x[2].kind = "Indexed" THEN EmitGetIndex(x[1], base, x[2])
             ELSE MoveTo(r[1], base, r[2]), base + 1)

SelfArg(S, base, method) ==
  LET k == StringK(S, method)
  IN SetFree(Emit(LoadK(k[1], k[2]), <<"SELF", base, base, base + 1>>), base + 2)

ExprCall(S, callee, method, args) ==
  LET base == Max2(Fs(S).freereg, Fs(S).nactvar)
      S1 == Callee(Reserve(SetFree(S, base), 1), callee, base)
      S2 == IF method = "" THEN S1 ELSE SelfArg(S1, base, method)
      S3 == Args(S2, args)
      multi == args # <<>> /\ IsMulti(Last(args))
      S4 == Emit(S3, <<"CALL", base, IF multi THEN 0 ELSE Fs(S3).freereg - base, 2>>)
  IN <<SetFree(S4, base + 1), [kind |-> "Call", info |-> base]>>

\* A field with a key: the key is described first and stored from a register last.
KeyedField(S, r, key, value) ==
  LET y == Expr(S, key)
      v == ExprReg(y[1], value)
      k == IndexKey(v[1], y[2])
  IN EmitSetIndex(k[1], [table |-> r, index_key |-> k[2], key |-> k[3]], v[2])

SetList(S, r, b, na) ==
  Emit(S, <<"SETLIST", r, b, (IF na = 0 THEN 1 ELSE (na - 1) \div FIELDS + 1) % (MAXARG + 1)>>)

\* Fields from the i-th on: na array elements so far, tostore of them pending.
RECURSIVE Fields(_, _, _, _, _, _)
Fields(S, r, fields, i, na, tostore) ==
  LET f == fields[i]
      dest == r + 1 + tostore
      last_array == \A j \in (i + 1)..Len(fields) : fields[j][1] # "item"
      S1 == ExprTo(SetFree(S, dest), f[2], dest)
      full == tostore + 1 = FIELDS
      named == <<"Str", f[2]>>
  IN IF Stopped(S) THEN S
     ELSE IF i > Len(fields)
     THEN IF tostore > 0 THEN SetList(S, r, tostore, na) ELSE S
     ELSE CASE f[1] = "named" ->
                 Fields(SetFree(KeyedField(StringK(S, f[2])[1], r, named, f[3]), dest),
                        r, fields, i + 1, na, tostore)
            [] f[1] = "keyed" ->
                 Fields(SetFree(KeyedField(S, r, f[2], f[3]), dest),
                        r, fields, i + 1, na, tostore)
            [] f[1] = "item" /\ last_array /\ IsMulti(f[2]) ->
                 SetList(MultiTo(S, f[2], dest), r, 0, na)
            [] OTHER ->
                 Fields(IF full THEN SetFree(SetList(S1, r, FIELDS, na + 1), r + 1) ELSE S1,
                        r, fields, i + 1, na + 1, IF full THEN 0 ELSE tostore + 1)

ExprTable(S, fields) ==
  LET r == Fs(S).freereg
      S1 == Emit(NewReg(S), <<"NEWTABLE", r, 0, 0>>)
  IN <<SetFree(Fields(S1, r, fields, 1, 0, 0), r + 1), InReg(r)>>

\* The Proto of a finished FuncState
Finished(fs) ==
  [code |-> fs.code, consts |-> fs.consts, upvalues |-> fs.upvalues, protos |-> fs.protos,
   locvars |-> fs.locvars, numparams |-> fs.numparams, is_vararg |-> fs.is_vararg, failed |-> fs.failed,
   maxstack |-> Max2(fs.maxstack, 2)]

\* The body of a function: its block, the gotos still pending, the final RETURN.
Body(S, body) ==
  LET S1 == Block(S, body, TRUE, TRUE)
  IN FlushLocvars(Emit(PatchGotos(S1, Fs(S1).pending_gotos), <<"RETURN", 0, 1, 0>>), 0)

RECURSIVE Params(_, _)
Params(S, params) ==
  IF params = <<>> THEN S
  ELSE Params(PushLocal(NewReg(S), Head(params), Fs(S).freereg), Tail(params))

ExprFunction(S, params, is_vararg, body) ==
  LET C == Body(Params(Append(S, NewFunc(Len(params), is_vararg)), params), body)
      S1 == [Front(C) EXCEPT ![Len(S)].protos = Append(@, Finished(Last(C))),
                             ![Len(S)].failed = @ \/ Last(C).failed]
      dest == Fs(S1).freereg
  IN <<Emit(NewReg(S1), <<"CLOSURE", dest, Len(Fs(S1).protos) - 1>>), InReg(dest)>>

Expr(S, node) ==
  LET kind == node[1]
      inner == Expr(S, node[2])
      r == Fs(S).freereg
  IN CASE Stopped(S) \/ kind = "Nil" -> <<S, Const(<<"nil">>)>>
       [] kind = "Bool" -> <<S, Const(<<"bool", node[2]>>)>>
       [] kind = "Int" -> <<S, Const(<<"int", node[2]>>)>>
       [] kind = "Str" -> <<S, Const(<<"str", <<node[2]>> >>)>>
       [] kind = "Name" -> SearchVar(S, Len(S), node[2])
       [] kind = "Vararg" -> <<Emit(NewReg(S), <<"VARARG", r, 2, 0>>), InReg(r)>>
       [] kind = "Paren" -> IF inner[2].kind = "Call" THEN <<inner[1], InReg(inner[2].info)>>
                            ELSE inner
       [] kind = "Un" -> ExprUn(S, node[2], node[3])
       [] kind = "Bin" -> ExprBin(S, node[2], node[3], node[4])
       [] kind = "Index" -> ExprIndex(S, node[2], node[3])
       [] kind = "Field" -> ExprIndex(S, node[2], <<"Str", node[3]>>)
       [] kind = "Call" -> ExprCall(S, node[2], "", node[3])
       [] kind = "Method" -> ExprCall(S, node[2], node[3], node[4])
       [] kind = "Table" -> ExprTable(S, node[2])
       [] kind = "Function" -> ExprFunction(S, node[2], node[3], node[4])

---------------------------------------------------------------------------
\* Statements

StoreVar(S, var, r) ==
  LET env == EnsureEnv(S, Len(S))
      free == Fs(S).freereg
  IN CASE var.kind = "Local" -> Emit(S, <<"MOVE", var.info, r, 0>>)
       [] var.kind = "Upval" -> Emit(S, <<"SETUPVAL", r, var.info, 0>>)
       [] var.kind = "Indexed" -> EmitSetIndex(S, var, r)
       [] var.kind = "Global" /\ var.env >= 0 ->
            IF var.info <= MAXARG THEN Emit(S, <<"SETFIELD", var.env, var.info, r>>)
            ELSE Emit(LoadK(S, var.info), <<"SETTABLE", var.env, free, r>>)
       [] OTHER ->
            IF var.info <= MAXARG THEN Emit(env[1], <<"SETTABUP", env[2], var.info, r>>)
            ELSE Emit(LoadK(Emit(NewReg(env[1]), <<"GETUPVAL", free, env[2], 0>>), var.info),
                      <<"SETTABLE", free, free + 1, r>>)

\* An expression list into exactly n registers from base on.
RECURSIVE ExpList(_, _, _, _, _)
ExpList(S, base, n, values, i) ==
  LET dest == base + i - 1
      need == n - (i - 1)
      x == Expr(SetFree(S, dest), values[i])
      P == PatchLastCallResults(x[1], need)
  IN IF Stopped(S) THEN S
     ELSE IF i > Len(values) THEN LoadNils(S, base + Len(values), Max2(n - Len(values), 0))
     ELSE IF i < Len(values) \/ ~IsMulti(values[i])
     THEN ExpList(ExprTo(SetFree(S, dest), values[i], dest), base, n, values, i + 1)
     ELSE IF values[i][1] = "Vararg"
     THEN SetFree(Emit(S, <<"VARARG", dest, need + 1, 0>>), base + n)
     ELSE SetFree(MoveRange(P, dest, LastCallBase(P), need), base + n)

LocalDecl(S, names, values) ==
  LET base == Fs(S).nactvar
      n == Len(names)
      S1 == ExpList(GrowTo(SetFree(S, base), base + n), base, n, values, 1)
  IN Rewind(PushLocals(S1, names, base))

\* A target of an assignment; table and key are copied so that a later store
\* of the same statement cannot change them.
Target(S, node) ==
  LET x == Expr(S, node)
      e == x[2]
      t == Fs(x[1]).freereg
      S1 == Emit(NewReg(x[1]), <<"MOVE", t, e.table, 0>>)
      S2 == Emit(NewReg(S1), <<"MOVE", t + 1, e.key, 0>>)
  IN IF e.kind # "Indexed" THEN x
     ELSE IF e.index_key = "Reg" THEN <<S2, [e EXCEPT !.table = t, !.key = t + 1]>>
     ELSE <<S1, [e EXCEPT !.table = t]>>

Assign(S, vars, values) ==
  LET n == Len(vars)
      t[i \in 0..n] ==
        IF i = 0 THEN <<Rewind(S), <<>> >>
        ELSE LET x == Target(t[i - 1][1], vars[i]) IN <<x[1], Append(t[i - 1][2], x[2])>>
      targets == t[n]
      base == Fs(targets[1]).freereg
      S1 == ExpList(GrowTo(targets[1], base + n), base, n, values, 1)
      st[i \in 0..n] == IF i = 0 THEN S1
                        ELSE StoreVar(st[i - 1], targets[2][i], base + i - 1)
  IN Rewind(st[n])

\* return f(...): captured locals are closed just before the call, which becomes
\* a TAILCALL.
TailCall(S, call) ==
  LET S1 == Expr(Rewind(S), call)[1]
      at == LastCall(S1)
      ins == Fs(S1).code[at]
      a == CloseArg(CapturedRegs(Fs(S1).locals, 0, 0))
      closing == IF a = 0 THEN <<>> ELSE <<<<"JMP", a, 0>>>>
  IN [S1 EXCEPT ![Len(S)].code =
        SubSeq(@, 1, at - 1) \o closing \o <<<<"TAILCALL", ins[2], ins[3], 0>>>>
          \o SubSeq(@, at + 1, Len(@))]

Return(S, values) ==
  LET base == Fs(S).nactvar
      n == Len(values)
      multi == n > 0 /\ IsMulti(values[n])
      single == IF multi THEN n - 1 ELSE n
      v[i \in 0..single] ==
        IF i = 0 THEN Rewind(S)
        ELSE LET x == ExprReg(SetFree(v[i - 1], base + i - 1), values[i])
             IN SetFree(MoveTo(x[1], base + i - 1, x[2]), Max2(Fs(x[1]).freereg, base + i))
  IN CASE n = 0 -> Emit(S, <<"RETURN", 0, 1, 0>>)
       [] n = 1 /\ multi /\ values[1][1] # "Vararg" -> TailCall(S, values[1])
       [] OTHER -> IF multi
                   THEN Emit(MultiTo(v[single], values[n], base + n - 1), <<"RETURN", base, 0, 0>>)
                   ELSE Emit(v[n], <<"RETURN", base, n + 1, 0>>)

\* Evaluate a condition; skip the JMP when it is cond.  The JMP is at Pc - 1.
TestJmp(S, node, cond) ==
  LET x == ExprReg(S, node)
  IN Emit(Emit(x[1], <<"TEST", x[2], 0, cond>>), <<"JMP", 0, 0>>)

\* Branches from the i-th on; every one ends with a jump to the end of the If.
RECURSIVE Branches(_, _, _, _, _)
Branches(S, branches, else_body, i, escape) ==
  LET S1 == TestJmp(S, branches[i][1], 0)
      S2 == Emit(Block(Rewind(S1), branches[i][2], TRUE, TRUE), <<"JMP", 0, 0>>)
      S3 == IF else_body = <<>> THEN S ELSE Block(S, else_body[1], TRUE, TRUE)
      f[j \in 0..Len(escape)] == IF j = 0 THEN S3 ELSE FixSbx(f[j - 1], escape[j], Pc(S3))
  IN IF Stopped(S) THEN S
     ELSE IF i > Len(branches) THEN f[Len(escape)]
     ELSE Branches(FixSbx(S2, Pc(S1) - 1, Pc(S2)), branches, else_body, i + 1,
                   Append(escape, Pc(S2) - 1))

\* The body of a loop whose break closes registers from level on.
LoopBody(S, level, body, allow_last_label, close) ==
  LET S1 == Block([S EXCEPT ![Len(S)].loop_break_level = Append(@, level)],
                  body, allow_last_label, close)
  IN [S1 EXCEPT ![Len(S)].loop_break_level = Front(@)]

\* The breaks recorded since there were n of them jump to the current pc.
RECURSIVE FixBreaks(_, _)
FixBreaks(S, n) ==
  LET bl == Fs(S).break_list
  IN IF Len(bl) <= n THEN S
     ELSE FixBreaks([FixSbx(S, Last(bl), Pc(S)) EXCEPT ![Len(S)].break_list = Front(@)], n)

While(S, cond, body) ==
  LET S1 == TestJmp(S, cond, 0)
      S2 == LoopBody(Rewind(S1), Fs(S1).nactvar, body, TRUE, TRUE)
      S3 == Emit(S2, <<"JMP", 0, Pc(S) - (Pc(S2) + 1)>>)
      S4 == Rewind(Emit(NewReg(S3), <<"LOADNIL", Fs(S3).freereg, 0, 0>>))
  IN FixBreaks(FixSbx(S4, Pc(S1) - 1, Pc(S3)), Len(Fs(S).break_list))

Repeat(S, body, cond) ==
  LET saved == Len(Fs(S).locals)
      S1 == TestJmp(LoopBody(S, Fs(S).nactvar, body, FALSE, FALSE), cond, 1)
      a == CloseArg(CapturedRegs(Fs(S1).locals, saved, 0))
      S2 == Emit(S1, <<"JMP", a, Pc(S) - (Pc(S1) + 1)>>)
      S3 == LeaveBlock(FixSbx(S2, Pc(S1) - 1, Pc(S2)), saved, TRUE)
  IN FixBreaks(S3, Len(Fs(S).break_list))

\* mutant: break closes no upvalue
BreakLeavingOpen(S) ==
  [Emit(S, <<"JMP", 0, 0>>) EXCEPT ![Len(S)].break_list = Append(@, Pc(S))]
Break(S) ==
  LET levels == Fs(S).loop_break_level
      a == IF levels = <<>> THEN 0 ELSE CloseArg(CapturedRegs(Fs(S).locals, 0, Last(levels)))
  IN [Emit(S, <<"JMP", a, 0>>) EXCEPT ![Len(S)].break_list = Append(@, Pc(S))]

\* Loop variables live in registers from r on for one iteration.
IterationBody(S, names, r, body) ==
  LET n == r + Len(names)
      S1 == PushLocals(S, names, r)
      S2 == LoopBody([S1 EXCEPT ![Len(S)].nactvar = n, ![Len(S)].freereg = n],
                     r, body, TRUE, TRUE)
  IN LeaveBlock(S2, Len(Fs(S).locals), FALSE)

ForNum(S, name, from, to, step, body) ==
  LET base == Fs(S).freereg
      S1 == ExprTo(ExprTo(S, from, base), to, base + 1)
      S2 == IF step = <<>> THEN Emit(S1, <<"LOADINT", base + 2, 1>>)
            ELSE ExprTo(S1, step[1], base + 2)
      S3 == Emit(SetFree(S2, base + 3), <<"FORPREP", base, 0>>)
      S4 == IterationBody(NewReg(S3), <<name>>, base + 3, body)
      S5 == Emit(S4, <<"FORLOOP", base, Pc(S3) - (Pc(S4) + 1)>>)
  IN SetFree(FixBreaks(FixSbx(S5, Pc(S3) - 1, Pc(S4)), Len(Fs(S).break_list)), base)

\* The iterator expressions adjusted to three registers from base on.
RECURSIVE Iterators(_, _, _, _)
Iterators(S, base, iters, i) ==
  LET dest == base + i - 1
      x == Expr(SetFree(S, Max2(Fs(S).freereg, dest + 1)), iters[i])
      P == PatchLastCallResults(x[1], 3 - (i - 1))
      r == Exp2Reg(x[1], x[2])
  IN IF i > Len(iters) THEN LoadNils(S, base + Len(iters), Max2(3 - Len(iters), 0))
     ELSE IF i = Len(iters) /\ x[2].kind = "Call"
     THEN MoveRange(P, dest, LastCallBase(P), 3 - (i - 1))
     ELSE Iterators(SetFree(MoveTo(r[1], dest, r[2]), dest + 1), base, iters, i + 1)

ForIn(S, names, iters, body) ==
  LET base == Fs(S).freereg
      n == Len(names)
      S1 == Iterators(Reserve(S, 3), base, iters, 1)
      S2 == Emit(GrowTo(SetFree(S1, base + 3 + n), base + 3 + n), <<"JMP", 0, 0>>)
      S3 == IterationBody(S2, names, base + 3, body)
      S4 == Emit(FixSbx(S3, Pc(S2) - 1, Pc(S3)), <<"TFORCALL", base, 0, n>>)
      S5 == Emit(S4, <<"TFORLOOP", base + 2, Pc(S2) - (Pc(S4) + 1)>>)
  IN SetFree(FixBreaks(S5, Len(Fs(S).break_list)), base)

LocalFunction(S, name, fn) ==
  LET r == Fs(S).freereg
      x == ExprReg(PushLocal(NewReg(S), name, r), fn)
  IN Rewind(MoveTo(x[1], r, x[2]))

\* function a.b.c() ... end
FunctionDecl(S, path, fn) ==
  LET x == ExprReg(S, fn)
      v == SearchVar(x[1], Len(S), path[1])
      t[i \in 1..Len(path)] ==
        IF i = 1 THEN Exp2Reg(v[1], v[2])
        ELSE LET k == StringK(t[i - 1][1], path[i])
                 d == Fs(k[1]).freereg
                 S1 == NewReg(k[1])
             IN IF k[2] <= MAXARG
                THEN <<Emit(S1, <<"GETFIELD", d, t[i - 1][2], k[2]>>), d>>
                ELSE <<Emit(LoadK(S1, k[2]), <<"GETTABLE", d, t[i - 1][2], d + 1>>), d>>
      owner == t[Len(path) - 1]
      k == StringK(owner[1], Last(path))
      S2 == IF Len(path) = 1 THEN StoreVar(v[1], v[2], x[2])
            ELSE IF k[2] <= MAXARG THEN Emit(k[1], <<"SETFIELD", owner[2], k[2], x[2]>>)
            ELSE Emit(LoadK(k[1], k[2]), <<"SETTABLE", owner[2], Fs(k[1]).freereg, x[2]>>)
  IN Rewind(S2)

---------------------------------------------------------------------------
\* Blocks, labels and gotos

Jump(S, label) ==
  Emit(S, <<"JMP", GotoCloseA(Fs(S).nactvar, label.nactvar), label.pc - (Pc(S) + 1)>>)

\* A goto to a label of this block not met yet, or to no label yet, is patched later.
Goto(S, name, later) ==
  IF name \in DOMAIN Fs(S).labels /\ name \notin later THEN Jump(S, Fs(S).labels[name])
  ELSE [Emit(S, <<"JMP", 0, 0>>) EXCEPT ![Len(S)].pending_gotos =
          Append(@, [name |-> name, pc |-> Pc(S), nactvar |-> Fs(S).nactvar])]

Statement(S, s) ==
  LET kind == s[1]
  IN CASE kind = "Local" -> LocalDecl(S, s[2], s[3])
       [] kind = "Assign" -> Assign(S, s[2], s[3])
       [] kind = "CallStmt" -> Rewind(Expr(S, s[2])[1])
       [] kind = "Return" -> Return(S, s[2])
       [] kind = "If" -> Branches(S, s[2], s[3], 1, <<>>)
       [] kind = "While" -> While(S, s[2], s[3])
       [] kind = "Repeat" -> Repeat(S, s[2], s[3])
       [] kind = "Break" -> Break(S)
       [] kind = "ForNum" -> ForNum(S, s[2], s[3], s[4], s[5], s[6])
       [] kind = "ForIn" -> ForIn(S, s[2], s[3], s[4])
       [] kind = "LocalFunction" -> LocalFunction(S, s[2], s[3])
       [] kind = "FunctionDecl" -> FunctionDecl(S, s[2], s[3])
       [] kind = "Do" -> Block(S, s[2], TRUE, TRUE)

LabelNames(stmts) == {stmts[i][2] : i \in {j \in DOMAIN stmts : stmts[j][1] = "Label"}}

AtLabel(S, stmts, i, allow_last_label) ==
  LET last == allow_last_label /\ \A j \in i..Len(stmts) : stmts[j][1] = "Label"
      info == [pc |-> Pc(S), nactvar |-> IF last THEN Last(Fs(S).block_entry_nactvar)
                                         ELSE Fs(S).nactvar]
      name == stmts[i][2]
      old == Fs(S).labels
  IN [S EXCEPT ![Len(S)].labels =
        [m \in DOMAIN old \cup {name} |-> IF m = name THEN info ELSE old[m]]]

\* The statements of a block from the i-th on.
RECURSIVE Statements(_, _, _, _)
Statements(S, stmts, i, allow_last_label) ==
  LET later == LabelNames(stmts) \ LabelNames(SubSeq(stmts, 1, i - 1))
      S1 == CASE stmts[i][1] = "Label" -> AtLabel(S, stmts, i, allow_last_label)
              [] stmts[i][1] = "Goto" -> Goto(S, stmts[i][2], later)
              [] OTHER -> Statement(S, stmts[i])
  IN IF Stopped(S) \/ i > Len(stmts) THEN S
     ELSE Statements(S1, stmts, i + 1, allow_last_label)

Block(S, stmts, allow_last_label, close) ==
  LET pending_before == Len(Fs(S).pending_gotos)
      names_here == LabelNames(stmts)
      S1 == Statements([S EXCEPT ![Len(S)].block_entry_nactvar = Append(@, Fs(S).nactvar)],
                       stmts, 1, allow_last_label)
      gotos == Fs(S1).pending_gotos
      opened == SubSeq(gotos, pending_before + 1, Len(gotos))
      mine == SelectSeq(opened, LAMBDA g : g.name \in names_here)
      rest == SelectSeq(opened, LAMBDA g : g.name \notin names_here)
      S2 == [PatchGotos(S1, mine) EXCEPT
               ![Len(S)].pending_gotos = SubSeq(gotos, 1, pending_before) \o rest,
               ![Len(S)].labels = Fs(S).labels,
               ![Len(S)].block_entry_nactvar = Front(@)]
  IN IF close THEN LeaveBlock(S2, Len(Fs(S).locals), TRUE) ELSE S2

\* lower_chunk: the main function is vararg and _ENV is its upvalue 0.
LowerChunk(body) ==
  LET fs == [NewFunc(0, TRUE) EXCEPT !.upvalues =
                 <<[name |-> "_ENV", instack |-> FALSE, idx |-> 0]>>]
  IN Finished(Body(<<fs>>, body)[1])
=============================================================================
