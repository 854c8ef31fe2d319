------------------------------ MODULE LuaSyntax ------------------------------
(***************************************************************************)
(* The values of Lua and the abstract syntax of its programs: what the     *)
(* parser of lparser.cpp reads (a token sequence is abstracted to the tree *)
(* its grammar rules recognise) and what lcode.cpp, lvm.cpp and the        *)
(* reference semantics of LuaSource compute with.                          *)
(*                                                                         *)
(* A value is a pair of a type and a content, so that values of different  *)
(* types can be compared.  A string is the sequence of its characters.     *)
(***************************************************************************)
EXTENDS Integers, Sequences, TLC

(***************************************************************************)
(* Values.                                                                 *)
(***************************************************************************)
Nil      == <<"nil", 0>>
NaN      == <<"nan", 0>>
Bool(b)  == <<"boolean", b>>
N(n)     == <<"number", n>>
S(cs)    == <<"string", cs>>
CFun(x)  == <<"cfunction", x>>

IsFalse(v)  == v \in {Nil, Bool(FALSE)}
IsNumber(v) == v[1] \in {"number", "nan"}
RawEqual(v, w) == v = w /\ v # NaN

\* tostring: a number converts to the string of its numeral.
HasString(v) == v[1] \in {"number", "string"}
AsString(v)  == IF v[1] = "number" THEN <<ToString(v[2])>> ELSE v[2]

\* The arithmetic of lua_Number: division by zero yields a NaN, and NaN spreads.
Number(op, m, n) ==
    CASE op = "+" -> N(m + n)
      [] op = "-" -> N(m - n)
      [] op = "*" -> N(m * n)
      [] op = "%" -> IF n = 0 THEN NaN ELSE N(IF n > 0 THEN m % n ELSE -((-m) % (-n)))
Arith(op, v, w) == IF NaN \in {v, w} THEN NaN ELSE Number(op, v[2], w[2])
NumLess(v, w)      == NaN \notin {v, w} /\ v[2] < w[2]
NumLessEqual(v, w) == NaN \notin {v, w} /\ v[2] <= w[2]

ArithOps == {"+", "-", "*", "%"}
OrderOps == {"<", "<=", ">", ">="}

(***************************************************************************)
(* Expressions.                                                            *)
(***************************************************************************)
ENil         == [k |-> "nil"]
ETrue        == [k |-> "true"]
EFalse       == [k |-> "false"]
EVararg      == [k |-> "..."]
Num(n)       == [k |-> "number", n |-> n]
Str(s)       == [k |-> "string", s |-> s]
Name(x)      == [k |-> "name", x |-> x]
Index(t, i)  == [k |-> "index", t |-> t, i |-> i]
Field(t, s)  == Index(t, Str(s))
Call(f, as)  == [k |-> "call", fn |-> f, args |-> as]
Method(o, s, as) == [k |-> "method", obj |-> o, s |-> s, args |-> as]
Function(ps, va, b) == [k |-> "function", params |-> ps, va |-> va, body |-> b]
Un(o, e)     == [k |-> "unop", o |-> o, e |-> e]
Not(e)       == Un("not", e)
Bin(o, l, r) == [k |-> "binop", o |-> o, l |-> l, r |-> r]
And(l, r)    == Bin("and", l, r)
Or(l, r)     == Bin("or", l, r)
Paren(e)     == [k |-> "paren", e |-> e]
\* A constructor: each field is a list item or a record field with its key.
Item(v)      == [k |-> "item", v |-> v]
Rec(i, v)    == [k |-> "rec", i |-> i, v |-> v]
Table(fs)    == [k |-> "table", fields |-> fs]

(***************************************************************************)
(* Statements.                                                             *)
(***************************************************************************)
Local(xs, es)      == [k |-> "local", xs |-> xs, es |-> es]
Assign(ts, es)     == [k |-> "assign", ts |-> ts, es |-> es]
CallStat(e)        == [k |-> "callstat", e |-> e]
Do(b)              == [k |-> "do", b |-> b]
While(c, b)        == [k |-> "while", c |-> c, b |-> b]
Repeat(b, c)       == [k |-> "repeat", c |-> c, b |-> b]
\* The clauses of an if are pairs of a condition and a block.
If(cs, b)          == [k |-> "if", cs |-> cs, b |-> b]
ForNum(x, es, b)   == [k |-> "fornum", x |-> x, es |-> es, b |-> b]
ForIn(xs, es, b)   == [k |-> "forin", xs |-> xs, es |-> es, b |-> b]
LocalFunction(x, f) == [k |-> "localfunction", x |-> x, f |-> f]
FunctionStat(v, f) == [k |-> "functionstat", v |-> v, f |-> f]
Return(es)         == [k |-> "return", es |-> es]
Break              == [k |-> "break"]

\* hasmultret: the expressions that may have any number of values.
MultipleResults(a) == a.k \in {"call", "method", "..."}
=============================================================================
