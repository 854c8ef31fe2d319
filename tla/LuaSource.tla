------------------------------ MODULE LuaSource ------------------------------
(***************************************************************************)
(* What a program means: a reference semantics for the abstract syntax, by *)
(* structural recursion, with no registers, jumps or constants.  Compiled  *)
(* code is checked against it.                                             *)
(*                                                                         *)
(* A state m holds the store: cells (one for every local variable a run of *)
(* the program creates), tables, functions, globals, the log of observable *)
(* calls, whether an error was raised and what it is about (blame), the    *)
(* values of the last expression (vs) and how the last statement ended     *)
(* (sig).  An environment maps the visible locals to their cells, knows    *)
(* which of them the running function owns and holds the extra arguments.  *)
(***************************************************************************)
EXTENDS LuaSyntax, SequencesExt

Builtins == {"log", "iter"}
Globals0 == [x \in {S(<<b>>) : b \in Builtins} |-> CFun(x[2][1])]

Store0 == [cells |-> <<>>, tabs |-> <<>>, fns |-> <<>>, g |-> Globals0, out |-> <<>>,
           err |-> FALSE, blame |-> <<"none", "?">>, vs |-> <<>>, sig |-> "next"]
Env0(va) == [vars |-> <<>>, own |-> {}, va |-> va]

Get(t, i) == IF i \in DOMAIN t THEN t[i] ELSE Nil
Put(t, i, v) == (i :> v) @@ t

Value(m) == IF m.vs = <<>> THEN Nil ELSE m.vs[1]
Error(m) == [m EXCEPT !.err = TRUE, !.sig = "error", !.vs = <<>>]

\* What a reader calls the value of an expression, and an error about it.
RECURSIVE Called(_, _)
Called(env, a) ==
    CASE a.k = "name" /\ a.x \in env.own -> <<"local", a.x>>
      [] a.k = "name" /\ a.x \in DOMAIN env.vars \ env.own -> <<"upvalue", a.x>>
      [] a.k = "name" /\ a.x \notin DOMAIN env.vars -> <<"global", a.x>>
      [] a.k = "index"  -> <<"field", IF a.i.k = "string" THEN a.i.s ELSE "?">>
      [] a.k = "method" -> <<"method", a.s>>
      [] a.k = "paren"  -> Called(env, a.e)
      [] OTHER -> <<"none", "?">>
Blame(m, env, a) == [Error(m) EXCEPT !.blame = Called(env, a)]

\* n values: the missing ones are nil, the others are dropped.
Adjust(vs, n) == [i \in 1..n |-> IF i <= Len(vs) THEN vs[i] ELSE Nil]

\* New locals xs with values vs: the store and the environment in their scope.
Declare(m, env, xs, vs) ==
    [m   |-> [m EXCEPT !.cells = @ \o Adjust(vs, Len(xs))],
     env |-> [env EXCEPT !.vars = FoldLeftDomain(LAMBDA vars, i : Put(vars, xs[i], Len(m.cells) + i),
                                                 @, xs),
                     !.own = @ \union ToSet(xs)]]

\* The functions the host gives a program: log records its arguments and returns
\* them, iter counts from its second argument up to the first one.
Builtin(x, m, args) ==
    CASE x = "log"  -> [m EXCEPT !.out = Append(@, args), !.vs = args]
      [] x = "iter" -> [m EXCEPT !.vs = IF NumLess(args[2], args[1])
                                        THEN <<N(args[2][2] + 1)>> ELSE <<Nil>>]

UnOp(m, env, o, v, a) ==
    CASE o = "not" -> [m EXCEPT !.vs = <<Bool(IsFalse(v))>>]
      [] o = "-"   -> IF IsNumber(v) THEN [m EXCEPT !.vs = <<Arith("-", N(0), v)>>] ELSE Blame(m, env, a)
      [] o = "#"   -> CASE v[1] = "string" -> [m EXCEPT !.vs = <<N(Len(v[2]))>>]
                        [] v[1] = "table" ->
                             [m EXCEPT !.vs = <<N(Cardinality({i \in DOMAIN m.tabs[v[2]] :
                                                       /\ i[1] = "number"
                                                       /\ m.tabs[v[2]][i] # Nil}))>>]
                        [] OTHER -> Blame(m, env, a)

\* v and w are the values of the operands of expression a.
BinOp(m, env, v, w, a) ==
    LET o == a.o
        numbers == IsNumber(v) /\ IsNumber(w)
        Result(r) == [m EXCEPT !.vs = <<r>>]
    IN  CASE o = "==" -> Result(Bool(RawEqual(v, w)))
          [] o = "~=" -> Result(Bool(~RawEqual(v, w)))
          [] o = ".." -> IF HasString(v) /\ HasString(w)
                         THEN Result(S(AsString(v) \o AsString(w)))
                         ELSE Blame(m, env, IF HasString(v) THEN a.r ELSE a.l)
          [] o \in ArithOps /\ ~numbers -> Blame(m, env, IF IsNumber(v) THEN a.r ELSE a.l)
          [] o \in OrderOps /\ ~numbers -> Error(m)
          [] o \in ArithOps /\ numbers -> Result(Arith(o, v, w))
          [] o = "<"  /\ numbers -> Result(Bool(NumLess(v, w)))
          [] o = "<=" /\ numbers -> Result(Bool(NumLessEqual(v, w)))
          [] o = ">"  /\ numbers -> Result(Bool(NumLess(w, v)))
          [] o = ">=" /\ numbers -> Result(Bool(NumLessEqual(w, v)))

\* t is the value of expression a.
GetIndex(m, env, t, i, a) ==
    IF t[1] = "table" THEN [m EXCEPT !.vs = <<Get(m.tabs[t[2]], i)>>] ELSE Blame(m, env, a)
SetIndex(m, env, t, i, v, a) ==
    CASE t[1] # "table" -> Blame(m, env, a)
      [] t[1] = "table" /\ i = Nil -> Error(m)
      [] OTHER -> [m EXCEPT !.tabs[t[2]] = Put(@, i, v)]

RECURSIVE Eval(_, _, _), EvalList(_, _, _), Apply(_, _, _, _, _), Run(_, _, _)

\* The first value of an expression, and the operands of an operator in order.
Eval1(m, env, a) == LET r == Eval(m, env, a) IN [r EXCEPT !.vs = <<Value(r)>>]

EvalList(m, env, es) ==
    IF m.err \/ es = <<>> THEN [m EXCEPT !.vs = <<>>]
    ELSE IF Len(es) = 1 THEN Eval(m, env, es[1])
    ELSE LET r == Eval1(m, env, es[1])
             rest == EvalList(r, env, Tail(es))
         IN  [rest EXCEPT !.vs = r.vs \o @]

\* Call of f, the value of expression a.
Apply(m, env, f, args, a) ==
    CASE m.err -> m
      [] ~m.err /\ f[1] = "cfunction" -> Builtin(f[2], m, args)
      [] ~m.err /\ f[1] = "function" ->
           LET fn == m.fns[f[2]]
               np == Len(fn.a.params)
               d == Declare(m, [fn.env EXCEPT !.va = SubSeq(args, np + 1, Len(args)), !.own = {}],
                            fn.a.params, args)
               r == Run(d.m, d.env, fn.a.body)
           IN  [r EXCEPT !.sig = IF r.err THEN "error" ELSE "next",
                         !.vs = IF r.sig = "return" THEN @ ELSE <<>>]
      [] OTHER -> Blame(m, env, a)

RECURSIVE EvalFields(_, _, _, _, _)
EvalFields(m, env, t, n, fs) ==
    IF m.err THEN m
    ELSE IF fs = <<>> THEN [m EXCEPT !.vs = <<t>>]
    ELSE IF Head(fs).k = "rec" THEN
        LET i == Eval1(m, env, Head(fs).i)
            v == Eval1(i, env, Head(fs).v)
        IN  EvalFields(IF v.err THEN v ELSE SetIndex(v, env, t, Value(i), Value(v), ENil), env, t, n, Tail(fs))
    ELSE LET all == Len(fs) = 1
             v == IF all THEN Eval(m, env, Head(fs).v) ELSE Eval1(m, env, Head(fs).v)
             stored == FoldLeftDomain(LAMBDA s, j : SetIndex(s, env, t, N(n + j), v.vs[j], ENil), v, v.vs)
         IN  EvalFields(IF v.err THEN v ELSE stored, env, t, n + 1, Tail(fs))

Eval(m, env, a) ==
    LET Result(v) == [m EXCEPT !.vs = <<v>>]
    IN  CASE m.err          -> m
          [] a.k = "nil"    -> Result(Nil)
          [] a.k = "true"   -> Result(Bool(TRUE))
          [] a.k = "false"  -> Result(Bool(FALSE))
          [] a.k = "number" -> Result(N(a.n))
          [] a.k = "string" -> Result(S(<<a.s>>))
          [] a.k = "..."    -> [m EXCEPT !.vs = env.va]
          [] a.k = "name"   -> Result(IF a.x \in DOMAIN env.vars THEN m.cells[env.vars[a.x]]
                                      ELSE Get(m.g, S(<<a.x>>)))
          [] a.k = "paren"  -> Eval1(m, env, a.e)
          [] a.k = "index"  ->
               LET t == Eval1(m, env, a.t)
                   i == Eval1(t, env, a.i)
               IN  IF i.err THEN i ELSE GetIndex(i, env, Value(t), Value(i), a.t)
          [] a.k = "call"   ->
               LET f == Eval1(m, env, a.fn)
                   as == EvalList(f, env, a.args)
               IN  Apply(as, env, Value(f), as.vs, a.fn)
          [] a.k = "method" ->
               LET o == Eval1(m, env, a.obj)
                   f == IF o.err THEN o ELSE GetIndex(o, env, Value(o), S(<<a.s>>), a.obj)
                   as == EvalList(f, env, a.args)
               IN  Apply(as, env, Value(f), o.vs \o as.vs, a)
          [] a.k = "function" ->
               [m EXCEPT !.fns = Append(@, [a |-> a, env |-> env]),
                         !.vs = <<<<"function", Len(m.fns) + 1>>>>]
          [] a.k = "table"  ->
               EvalFields([m EXCEPT !.tabs = Append(@, <<>>)], env,
                          <<"table", Len(m.tabs) + 1>>, 0, a.fields)
          [] a.k = "unop"   ->
               LET r == Eval1(m, env, a.e) IN IF r.err THEN r ELSE UnOp(r, env, a.o, Value(r), a.e)
          [] a.k = "binop" /\ a.o \in {"and", "or"} ->
               LET l == Eval1(m, env, a.l)
               IN  IF l.err \/ IsFalse(Value(l)) = (a.o = "and") THEN l ELSE Eval1(l, env, a.r)
          [] a.k = "binop" /\ a.o \notin {"and", "or"} ->
               LET l == Eval1(m, env, a.l)
                   r == Eval1(l, env, a.r)
               IN  IF r.err THEN r ELSE BinOp(r, env, Value(l), Value(r), a)

\* A target of an assignment, evaluated before the values: a variable, or a
\* table and a key.  Values are then stored, the last target first.
Store(m, env, tgt, v) ==
    CASE m.err -> m
      [] ~m.err /\ tgt[1] = "cell"   -> [m EXCEPT !.cells[tgt[2]] = v]
      [] ~m.err /\ tgt[1] = "global" -> [m EXCEPT !.g = Put(@, tgt[2], v)]
      [] ~m.err /\ tgt[1] = "index"  -> SetIndex(m, env, tgt[2], tgt[3], v, tgt[4])

RECURSIVE EvalTargets(_, _, _)
EvalTargets(m, env, ts) ==
    IF ts = <<>> THEN [m EXCEPT !.vs = <<>>]
    ELSE LET a == Head(ts)
             t == IF a.k = "index" THEN Eval1(m, env, a.t) ELSE m
             i == IF a.k = "index" THEN Eval1(t, env, a.i) ELSE m
             tgt == CASE a.k = "index" -> <<"index", Value(t), Value(i), a.t>>
                      [] a.x \in DOMAIN env.vars -> <<"cell", env.vars[a.x]>>
                      [] OTHER -> <<"global", S(<<a.x>>)>>
             rest == EvalTargets(i, env, Tail(ts))
         IN  [rest EXCEPT !.vs = <<tgt>> \o @]

AssignAll(m, env, ts, es) ==
    LET t == EvalTargets(m, env, ts)
        r == EvalList(t, env, es)
        vs == Adjust(r.vs, Len(ts))
    IN  IF r.err THEN r
        ELSE FoldLeft(LAMBDA s, i : Store(s, env, t.vs[i], vs[i]), r, Reverse([i \in 1..Len(ts) |-> i]))

\* The condition is the value of Eval1; an error counts as false.
Holds(m) == ~m.err /\ ~IsFalse(Value(m))
Ended(m) == [m EXCEPT !.sig = IF @ = "break" THEN "next" ELSE @]

RECURSIVE Loop(_, _, _), RepeatLoop(_, _, _), NumLoop(_, _, _, _, _, _), InLoop(_, _, _, _)
Loop(m, env, a) ==
    LET c == Eval1(m, env, a.c)
        r == Run(c, env, a.b)
    IN  CASE ~Holds(c) -> c
          [] Holds(c) /\ r.sig = "next" -> Loop(r, env, a)
          [] OTHER -> Ended(r)

\* The condition of a repeat sees the locals of its body.
RepeatLoop(m, env, a) ==
    LET r == Run(m, env, Append(a.b, [k |-> "until", e |-> a.c]))
    IN  CASE r.sig = "until" -> [r EXCEPT !.sig = "next"]
          [] r.sig = "next" -> RepeatLoop(r, env, a)
          [] OTHER -> Ended(r)

NumLoop(m, env, a, i, limit, step) ==
    LET d == Declare(m, env, <<a.x>>, <<i>>)
        r == Run(d.m, d.env, a.b)
        goes == IF NumLess(N(0), step) THEN NumLessEqual(i, limit) ELSE NumLessEqual(limit, i)
    IN  CASE ~goes -> m
          [] goes /\ r.sig = "next" -> NumLoop(r, env, a, Arith("+", i, step), limit, step)
          [] OTHER -> Ended(r)

\* gen is the triple of the iterator, its state and its control variable.
InLoop(m, env, a, gen) ==
    LET c == Apply(m, env, gen[1], Tail(gen), ENil)
        d == Declare(c, env, a.xs, c.vs)
        r == Run(d.m, d.env, a.b)
    IN  CASE c.err \/ Value(c) = Nil -> c
          [] ~c.err /\ Value(c) # Nil /\ r.sig = "next" ->
               InLoop(r, env, a, <<gen[1], gen[2], Value(c)>>)
          [] OTHER -> Ended(r)

RECURSIVE Choose(_, _, _, _)
Choose(m, env, cs, else) ==
    IF cs = <<>> THEN IF else = <<>> THEN m ELSE Run(m, env, else[1])
    ELSE LET c == Eval1(m, env, Head(cs)[1])
         IN  CASE c.err -> c
               [] Holds(c) -> Run(c, env, Head(cs)[2])
               [] OTHER -> Choose(c, env, Tail(cs), else)

ForNumLoop(m, env, a) ==
    LET r == EvalList(m, env, a.es)
        step == IF Len(a.es) = 3 THEN r.vs[3] ELSE N(1)
    IN  CASE r.err -> r
          [] ~r.err /\ (\A i \in 1..2 : IsNumber(r.vs[i])) /\ IsNumber(step) ->
               NumLoop(r, env, a, r.vs[1], r.vs[2], step)
          [] OTHER -> Error(r)

\* A statement that declares nothing.
Exec(m, env, a) ==
    CASE a.k = "assign"   -> AssignAll(m, env, a.ts, a.es)
      [] a.k = "functionstat" -> AssignAll(m, env, <<a.v>>, <<a.f>>)
      [] a.k = "callstat" -> Eval(m, env, a.e)
      [] a.k = "do"       -> Run(m, env, a.b)
      [] a.k = "while"    -> Loop(m, env, a)
      [] a.k = "repeat"   -> RepeatLoop(m, env, a)
      [] a.k = "until"    -> LET c == Eval1(m, env, a.e)
                             IN  IF Holds(c) THEN [c EXCEPT !.sig = "until"] ELSE c
      [] a.k = "if"       -> Choose(m, env, a.cs, a.b)
      [] a.k = "fornum"   -> ForNumLoop(m, env, a)
      [] a.k = "forin"    ->
           LET r == EvalList(m, env, a.es)
           IN  IF r.err THEN r ELSE InLoop(r, env, a, Adjust(r.vs, 3))
      [] a.k = "return"   -> LET r == EvalList(m, env, a.es)
                             IN  IF r.err THEN r ELSE [r EXCEPT !.sig = "return"]
      [] a.k = "break"    -> [m EXCEPT !.sig = "break"]

\* A block: its locals are visible to the statements after them.
Run(m, env, b) ==
    IF m.err \/ b = <<>> THEN m
    ELSE LET a == Head(b)
             e == IF a.k = "local" THEN EvalList(m, env, a.es) ELSE m
             d == CASE a.k = "local" -> Declare(e, env, a.xs, e.vs)
                    [] a.k = "localfunction" -> Declare(m, env, <<a.x>>, <<>>)
                    [] OTHER -> [m |-> Exec(m, env, a), env |-> env]
             r == IF a.k = "localfunction" THEN AssignAll(d.m, d.env, <<Name(a.x)>>, <<a.f>>) ELSE d.m
         IN  IF r.err \/ r.sig # "next" THEN r ELSE Run(r, d.env, Tail(b))

\* The values a program returns and what it logs, or an error.
Meaning(b, args) ==
    LET r == Run(Store0, Env0(args), b)
    IN  [err |-> r.err, blame |-> r.blame, out |-> r.out, vs |-> IF r.sig = "return" THEN r.vs ELSE <<>>]
=============================================================================
