------------------------------- MODULE MCCode -------------------------------
(***************************************************************************)
(* The programs TLC compiles and runs: families that combine every kind of *)
(* expression and statement, each run with several arguments.              *)
(***************************************************************************)
EXTENDS LuaVM

\* The prototype of a program is computed once.
CompiledV(b) == LET pt == Compile(b) IN pt
MeantV(b, as) == LET m == Meaning(b, as) IN m

X == Name("x")
Y == Name("y")
Z == Name("z")
T == Name("t")
I == Name("i")
Glob == Name("glob")
XY == Local(<<"x", "y">>, <<EVararg>>)
Fn(b) == Function(<<>>, FALSE, b)
LogCall(es) == Call(Name("log"), es)
Log(es) == CallStat(LogCall(es))
At(n) == Index(T, Num(n))

(***************************************************************************)
(* Boolean expressions, as values and as conditions.                       *)
(***************************************************************************)
Atoms == {X, ENil, EFalse, ETrue, Num(1), Bin("==", X, Num(1))}
Conditions == Atoms \union {Not(e) : e \in Atoms}
                    \union {Bin(o, l, r) : o \in {"and", "or"}, l \in Atoms, r \in Atoms}
Values(e) ==
    <<XY,
      Log(<<And(e, Y), Or(e, Y), Not(And(e, Y))>>),
      Log(<<Or(And(Y, e), Num(2)), And(Or(Y, e), LogCall(<<X>>)), Bin("==", e, Or(Y, X))>>),
      Return(<<Or(And(e, Y), Paren(And(Not(Y), X)))>>)>>
Branches(e) ==
    <<XY,
      If(<< <<And(e, Y), <<Log(<<Num(1)>>)>>>>, <<Or(Not(Y), e), <<Log(<<Num(2)>>)>>>> >>,
         << <<Log(<<Num(3)>>)>> >>),
      While(And(X, e), <<Assign(<<X>>, <<ENil>>), Log(<<X>>)>>),
      Repeat(<<Local(<<"z">>, <<Y>>), Assign(<<Y>>, <<ETrue>>)>>, Or(Z, And(Y, Not(e)))),
      Return(<<X, Y>>)>>
Booleans == {Values(e) : e \in Conditions} \union {Branches(e) : e \in Conditions}

(***************************************************************************)
(* Assignments: as many values as targets, fewer, more, or any number.     *)
(***************************************************************************)
Sources == {<<Y>>, <<Y, X>>, <<Num(1), EVararg>>, <<LogCall(<<Y, X>>)>>, <<Paren(EVararg)>>,
            <<LogCall(<<X>>), Y, LogCall(<<Num(1)>>), X>>}
Targets == {<<Glob>>, <<X, Index(T, X)>>, <<Index(T, X), X>>, <<T, At(1)>>, <<At(1), T>>,
            <<Index(T, Y), Y, Glob>>, <<At(2), Index(T, T), X>>}
Assigned(ts, es) ==
    <<XY, Local(<<"t">>, <<Table(<<Item(Num(7)), Item(Num(8))>>)>>), Assign(ts, es),
      Return(<<X, Y, Glob, At(1), At(2)>>)>>
Declared(es) ==
    <<XY, Local(<<"z">>, <<>>), Local(<<"t", "i">>, es), Local(<<"x">>, <<ENil>>),
      Return(<<X, Y, Z, T, I>>)>>
Assignments == {Assigned(ts, es) : ts \in Targets, es \in Sources}
                   \union {Declared(es) : es \in Sources}

(***************************************************************************)
(* Loops whose bodies create closures, and leave with break or return.     *)
(***************************************************************************)
Keep1(e) == Assign(<<Index(T, Bin("+", Un("#", T), Num(1)))>>, <<e>>)
Counter == Fn(<<Assign(<<Z>>, <<Bin("+", Z, Num(1))>>), Return(<<Z>>)>>)
Reader == Fn(<<Return(<<Call(Paren(Fn(<<Return(<<Z>>)>>)), <<>>)>>)>>)
LoopBody(exit) == <<Local(<<"z">>, <<I>>), Keep1(Counter), If(<< <<Bin("==", I, X), <<exit>>>> >>, <<>>),
                Keep1(Reader)>>
Next1 == Assign(<<I>>, <<Bin("+", I, Num(1))>>)
Loops(exit) ==
    {ForNum("i", <<Num(1), Num(2)>>, LoopBody(exit)),
     ForNum("i", <<Num(2), Num(0), Un("-", Num(1))>>, LoopBody(exit)),
     ForIn(<<"i", "j">>, <<Name("iter"), Num(2), Num(0)>>, LoopBody(exit)),
     While(Bin("<", I, Num(2)), <<Next1>> \o LoopBody(exit)),
     Repeat(<<Next1>> \o LoopBody(exit), Bin(">=", Z, Num(2)))}
Looping(loop) ==
    <<XY, Local(<<"t", "i">>, <<Table(<<>>), Num(0)>>), Do(<<Local(<<"w">>, <<Y>>), loop>>),
      Local(<<"a", "b">>, <<At(1), At(2)>>),
      Log(<<Call(Name("a"), <<>>), Call(Name("a"), <<>>)>>),
      Return(<<Or(Not(Name("b")), Call(Name("b"), <<>>)), Un("#", T)>>)>>
Iterator == Function(<<"s", "c">>, FALSE, <<If(<< <<Bin("<", Name("c"), Name("s")),
                <<Return(<<Bin("+", Name("c"), Num(1)), Y>>)>>>> >>, <<>>)>>)
Closures == {Looping(l) : l \in Loops(Break) \union Loops(Return(<<T, Un("#", T)>>))}
    \union {<<XY, ForNum("i", <<X, Y, Num(1)>>, <<Log(<<I>>)>>)>>,
            <<XY, ForIn(<<"i", "z">>, <<Iterator, Num(2), Num(0)>>, <<Log(<<I, Z>>)>>)>>,
            <<XY, ForIn(<<"i">>, <<X>>, <<>>)>>}

(***************************************************************************)
(* Calls, methods and constructors.                                        *)
(***************************************************************************)
Calls == {
    <<XY, LocalFunction("f", Function(<<"a">>, TRUE, <<Return(<<LogCall(<<Name("a"), EVararg>>), EVararg>>)>>)),
      Return(<<Call(Name("f"), <<X, Y, Num(1)>>), Call(Name("f"), <<>>), Call(Name("f"), <<EVararg>>)>>)>>,
    <<XY, LocalFunction("f", Function(<<"n">>, FALSE,
            <<If(<< <<Bin("<=", Name("n"), Num(0)), <<Return(<<Y>>)>>>> >>, <<>>),
              Return(<<Call(Name("f"), <<Bin("-", Name("n"), Num(1))>>)>>)>>)),
      Return(<<Call(Name("f"), <<Num(2)>>), X>>)>>,
    <<XY, Local(<<"t">>, <<Table(<<Rec(Str("f"), Y)>>)>>),
      FunctionStat(Field(T, "m"), Function(<<"self", "a">>, FALSE,
            <<Local(<<"old">>, <<Field(Name("self"), "f")>>),
              Assign(<<Field(Name("self"), "f")>>, <<Name("a")>>), Return(<<Name("old"), Name("self")>>)>>)),
      Log(<<Method(T, "m", <<X>>)>>), Return(<<Method(T, "m", <<EVararg>>)>>)>>,
    <<XY, Local(<<"t">>, <<Table(<<Item(X), Item(Y), Rec(Or(X, Num(9)), Num(4)), Item(Num(3)),
                                   Item(EVararg)>>)>>),
      Return(<<At(1), At(2), At(3), At(4), At(5), Index(T, Or(X, Num(9)))>>)>>,
    <<XY, Local(<<"t">>, <<Table(<<Item(LogCall(<<X, Y>>)), Item(LogCall(<<X, Y>>))>>)>>),
      Return(<<At(1), At(2), At(3), LogCall(<<LogCall(<<Y, X>>), LogCall(<<X, Y>>)>>)>>)>>,
    <<XY, FunctionStat(Glob, Function(<<>>, TRUE, <<Return(<<EVararg>>)>>)),
      Log(<<Call(Glob, <<X, Y>>)>>), Return(<<Call(Glob, <<Call(Glob, <<Y, Num(5)>>)>>)>>)>>,
    <<XY, Return(<<LogCall(<<EVararg>>)>>)>>}

(***************************************************************************)
(* Operators on values of any type: results and errors.                    *)
(***************************************************************************)
Operations == {Bin("+", X, Num(1)), Bin("%", Num(1), Bin("-", X, Y)), Bin("*", X, Y),
    Un("-", X), Un("#", Y), Bin("..", Bin("..", Str("a"), X), Bin("..", Y, Num(1))),
    Bin("..", X, Bin("..", Str("a"), Y)), Bin("<", X, Y), Bin("~=", Bin(">", Num(2), X), Y),
    Bin("==", Bin("%", Num(1), Num(0)), Bin("%", Num(1), Num(0))),
    Bin("-", Bin("*", Num(2), Num(3)), X), Bin("+", Field(T, "f"), Y), Bin("+", Glob, X),
    Field(X, "f"), Field(Field(T, "f"), "h"), Index(Field(T, "h"), X), Field(Glob, "f"),
    Call(X, <<>>), Call(Field(T, "f"), <<Y>>), Call(Glob, <<>>), Method(T, "m", <<X>>),
    Method(Y, "m", <<>>), Call(Or(X, Y), <<>>), Call(And(X, Glob), <<Y>>),
    Field(Or(Glob, X), "f"), Paren(Method(Paren(Or(X, T)), "f", <<>>))}
Direct(e) == <<XY, Local(<<"t">>, <<Table(<<Rec(Str("f"), X)>>)>>), Log(<<Y>>), Log(<<e>>), Return(<<e>>)>>
Captured1(e) == <<XY, Local(<<"t">>, <<Table(<<Rec(Str("f"), X)>>)>>),
                  Return(<<Call(Paren(Fn(<<Return(<<e, X>>)>>)), <<>>)>>)>>
Erring == {Direct(e) : e \in Operations} \union {Captured1(e) : e \in Operations}

(***************************************************************************)
(* Programs that lcode.cpp compiles to something else than they say, left  *)
(* out of the families above.  Each of them refutes CompiledMeansSource:   *)
(*   - luaK_nil emits nothing for the first instruction of a function;     *)
(*   - luaK_goiffalse jumps for a constant true, and the jump of 1, which  *)
(*     waits for the next instruction, joins the list of that jump instead *)
(*     of meeting the true: the value is 1; luaK_goiftrue does the same for*)
(*     false.                                                              *)
(***************************************************************************)
Disputed == {
    <<XY, LocalFunction("f", Function(<<"a">>, FALSE, <<Assign(<<Name("a")>>, <<ENil>>),
                                                        Return(<<Name("a")>>)>>)),
      Return(<<Call(Name("f"), <<Y>>)>>)>>,
    <<XY, Return(<<Or(And(Or(Num(1), EFalse), ETrue), EFalse)>>)>>,
    <<XY, Return(<<And(Or(And(ENil, ETrue), EFalse), Num(1))>>)>>}

ProgramsV == Booleans \union Assignments \union Closures \union Calls \union Erring
ArgumentsV == {<<Nil, Bool(TRUE)>>, <<N(1), Nil>>, <<Bool(FALSE), Bool(FALSE)>>, <<N(1), N(2)>>}
=============================================================================
