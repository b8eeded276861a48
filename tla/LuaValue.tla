------------------------------ MODULE LuaValue ------------------------------
(***************************************************************************)
(* Values, raw table access and metamethod lookup, as pure operators.      *)
(* Shared by LuaSem (what a chunk means) and Vm (what the interpreter      *)
(* does).                                                                  *)
(*                                                                         *)
(* A value is a tagged tuple: <<"nil">>, <<"bool", b>>, <<"int", n>>,      *)
(* <<"str", atoms>> (a sequence of atoms, so that concatenation is \o),    *)
(* <<"tab", id>>, <<"fn", id>> (a Lua closure) or <<"c", name>> (a C       *)
(* function).  w is any record with a field tables, a sequence of          *)
(* [fields, mt], and a field err.                                          *)
(***************************************************************************)
EXTENDS Integers, Sequences, SequencesExt, Functions, TLC

Nil == <<"nil">>
Num(n) == <<"int", n>>
Bool(b) == <<"bool", b>>
Name(s) == <<"str", <<s>> >>
Truthy(v) == v # Nil /\ v # Bool(FALSE)
IsFunction(v) == v[1] \in {"fn", "c"}
IsTable(v) == v[1] = "tab"
IsText(v) == v[1] \in {"str", "int"}

\* A number in a concatenation becomes its decimal text.
Text(v) == IF v[1] = "int" THEN <<ToString(v[2])>> ELSE v[2]

Arith2(op, m, n) == CASE op = "+" -> m + n [] op = "-" -> m - n [] OTHER -> m * n
Event(op) == CASE op = "+" -> "__add" [] op = "-" -> "__sub" [] OTHER -> "__mul"

\* What an observer sees of a value: its kind, and which primitive it is.
Seen(v) == IF IsTable(v) \/ IsFunction(v) THEN <<v[1]>> ELSE v

First(vs) == IF vs = <<>> THEN Nil ELSE vs[1]
Nth(vs, i) == IF i <= Len(vs) THEN vs[i] ELSE Nil
Err(w) == [w EXCEPT !.err = TRUE]

\* What pcall returns beside false; which error it was is not told apart.
Message == Name("error")

RawGet(w, t, k) == LET f == w.tables[t[2]].fields IN IF k \in DOMAIN f THEN f[k] ELSE Nil
RawSet(w, t, k, v) ==
  LET f == w.tables[t[2]].fields
      D == IF v = Nil THEN DOMAIN f \ {k} ELSE DOMAIN f \cup {k}
  IN IF k = Nil THEN Err(w)
     ELSE [w EXCEPT !.tables[t[2]].fields = [x \in D |-> IF x = k THEN v ELSE f[x]]]

Method(w, v, event) ==
  IF ~IsTable(v) \/ w.tables[v[2]].mt = 0 THEN Nil
  ELSE RawGet(w, <<"tab", w.tables[v[2]].mt>>, Name(event))

Border(w, t) == CHOOSE n \in 0..20 : /\ n > 0 => RawGet(w, t, Num(n)) # Nil
                                     /\ \A m \in 1..n : RawGet(w, t, Num(m)) # Nil
                                     /\ RawGet(w, t, Num(n + 1)) = Nil

NewTable(w) == <<[w EXCEPT !.tables = Append(@, [fields |-> <<>>, mt |-> 0])],
                 <<"tab", Len(w.tables) + 1>> >>

\* The C functions that call nothing: <<w, results>>.
CFunction(w, name, args) ==
  LET mt == IF Nth(args, 2) = Nil THEN 0 ELSE args[2][2]
      ok == /\ IsTable(First(args))
            /\ Nth(args, 2) = Nil \/ IsTable(Nth(args, 2))
            /\ Method(w, First(args), "__metatable") = Nil
  IN CASE name = "assert" -> IF Truthy(First(args)) THEN <<w, args>> ELSE <<Err(w), <<>> >>
       [] name = "setmetatable" ->
            IF ok THEN <<[w EXCEPT !.tables[args[1][2]].mt = mt], <<args[1]>> >>
            ELSE <<Err(w), <<>> >>
       [] name = "collectgarbage" ->
            IF First(args) \in {Nil, Name("collect")} THEN <<w, <<Bool(TRUE)>> >>
            ELSE <<Err(w), <<>> >>

Globals == [k \in {Name("setmetatable"), Name("assert"), Name("collectgarbage"), Name("pcall")} |-> <<"c", k[2][1]>>]
=============================================================================
