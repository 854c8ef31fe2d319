------------------------------ MODULE LuaParser ------------------------------
(***************************************************************************)
(* The grammar rules of lparser.cpp, which generate code as they parse:    *)
(* each rule maps a FuncState to the next one, given the piece of syntax   *)
(* it reads.  The enclosing function of a nested one is in prev, and its   *)
(* blocks and upvalues change when the nested function captures a local.   *)
(***************************************************************************)
EXTENDS LuaCode

MultRet(e) == e.k \in {"VCALL", "VVARARG"}

(***************************************************************************)
(* Variables and blocks.                                                   *)
(***************************************************************************)
\* The locals declared so far are in locvars; actvar lists the active ones.
AdjustLocalVars(s, xs) ==
    LET Var(i) == [name |-> xs[i], startpc |-> PC(s), endpc |-> PC(s)]
    IN  [s EXCEPT !.locvars = @ \o [i \in DOMAIN xs |-> Var(i)],
                  !.actvar = @ \o [i \in DOMAIN xs |-> Len(s.locvars) + i]]

RemoveVars(s, tolevel) ==
    LET gone == {s.actvar[i] : i \in tolevel + 1 .. NActVar(s)}
    IN  [s EXCEPT !.actvar = SubSeq(@, 1, tolevel),
                  !.locvars = FoldSet(LAMBDA i, vs : [vs EXCEPT ![i].endpc = PC(s)], @, gone)]

\* searchvar: the innermost active local of that name, or -1.
SearchVar(s, x) ==
    Max({i - 1 : i \in {j \in DOMAIN s.actvar : s.locvars[s.actvar[j]].name = x}} \union {-1})

MarkOuter(s, level) ==           \* mutant: a block's first local does not mark it
    LET holders == {i \in DOMAIN s.bl : s.bl[i].nactvar < level}
    IN  IF holders = {} THEN s ELSE [s EXCEPT !.bl[Max(holders)].upval = TRUE]

MarkUpval(s, level) ==
    LET holders == {i \in DOMAIN s.bl : s.bl[i].nactvar <= level}
    IN  IF holders = {} THEN s ELSE [s EXCEPT !.bl[Max(holders)].upval = TRUE]

IndexUpvalue(s, x, e) ==
    LET desc == [k |-> e.k, info |-> e.info, name |-> x]
        found == {i \in DOMAIN s.upvalues : s.upvalues[i].k = e.k /\ s.upvalues[i].info = e.info}
    IN  IF found # {} THEN InitExp(s, "VUPVAL", Min(found) - 1)
        ELSE InitExp([s EXCEPT !.upvalues = Append(@, desc)], "VUPVAL", Len(s.upvalues))

RECURSIVE SingleVarAux(_, _, _)
SingleVarAux(s, x, base) ==
    LET v == SearchVar(s, x)
    IN  IF v >= 0 THEN InitExp(IF base THEN s ELSE MarkUpval(s, v), "VLOCAL", v)
        ELSE IF s.prev = <<>> THEN InitExp(s, "VGLOBAL", NO_REG)
        ELSE LET o == SingleVarAux(s.prev[1], x, FALSE)
             IN  IF o.e.k = "VGLOBAL" THEN InitExp(s, "VGLOBAL", NO_REG)
                 ELSE IndexUpvalue([s EXCEPT !.prev = <<o>>], x, o.e)

CodeString(s, x) == InitExp(AddK(s, S(<<x>>)), "VK", IndexOfK(s, S(<<x>>)))
SingleVar(s, x) ==
    LET v == SingleVarAux(s, x, TRUE)
    IN  IF v.e.k = "VGLOBAL" THEN SetExp(CodeString(v, x), "VGLOBAL", IndexOfK(v, S(<<x>>))) ELSE v

EnterBlock(s, isbreakable) ==
    [s EXCEPT !.bl = Append(@, [breaklist |-> NO_JUMP, isbreakable |-> isbreakable,
                                nactvar |-> NActVar(s), upval |-> FALSE])]
LeaveBlock(s0) ==
    LET bl == Last(s0.bl)
        s  == RemoveVars([s0 EXCEPT !.bl = Front(@)], bl.nactvar)
        c  == IF bl.upval THEN Code(s, "CLOSE", bl.nactvar, 0, 0) ELSE s
    IN  PatchToHere([c EXCEPT !.freereg = NActVar(c)], bl.breaklist)

\* adjust_assign: nexps expressions, the last one in s.e, for nvars variables.
AdjustAssign(s, nvars, nexps) ==
    LET extra == nvars - nexps
        wanted == Max({extra + 1, 0})
        m == SetReturns(s, wanted)
        v == IF s.e.k # "VVOID" THEN Exp2NextReg(s) ELSE s
    IN  CASE MultRet(s.e) -> IF wanted > 1 THEN ReserveRegs(m, wanted - 1) ELSE m
          [] ~MultRet(s.e) /\ extra > 0 -> LoadNil(ReserveRegs(v, extra), v.freereg, extra)
          [] OTHER -> v

(***************************************************************************)
(* Functions.                                                              *)
(***************************************************************************)
\* close_func: the finished prototype.
Proto(s0) ==
    LET s == Ret(RemoveVars(s0, 0), 0, 0)
    IN  [code |-> s.code, k |-> s.k, p |-> s.p, nups |-> Len(s.upvalues),
         upvalues |-> [i \in DOMAIN s.upvalues |-> s.upvalues[i].name],
         numparams |-> s.numparams, vararg |-> s.vararg, maxstacksize |-> s.maxstacksize,
         locvars |-> s.locvars]

\* pushclosure: func is the finished state of the nested function.
PushClosure(func) ==
    LET s == [func.prev[1] EXCEPT !.p = Append(@, Proto(func))]
        c == InitExp(Code(s, "CLOSURE", 0, Len(s.p) - 1, 0), "VRELOCABLE", PC(s))
        Capture(t, u) == Code(t, IF u.k = "VLOCAL" THEN "MOVE" ELSE "GETUPVAL", 0, u.info, 0)
    IN  FoldLeft(Capture, c, func.upvalues)

ParList(s, params, va) ==
    ReserveRegs([AdjustLocalVars(s, params) EXCEPT !.numparams = Len(params), !.vararg = va],
                Len(params))

RECURSIVE Expr(_, _), Chunk(_, _)

\* body: a function expression.
Body(s, a) == PushClosure(Chunk(ParList(NewFuncState(<<s>>), a.params, a.va), a.body))

(***************************************************************************)
(* Expressions.                                                            *)
(***************************************************************************)
\* explist1: all but the last expression in consecutive registers, the last in s.e.
RECURSIVE ExpList(_, _)
ExpList(s, es) ==
    IF Len(es) = 1 THEN Expr(s, es[1]) ELSE ExpList(Exp2NextReg(Expr(s, es[1])), Tail(es))

\* funcargs: the function is in register s0.e.info, on top of the stack.
FuncArgs(s0, args) ==
    LET base == s0.e.info
        a == IF args = <<>> THEN InitExp(s0, "VVOID", 0) ELSE ExpList(s0, args)
        open == args # <<>> /\ MultRet(a.e)
        s == CASE open -> SetReturns(a, MULTRET)
               [] args = <<>> -> a
               [] OTHER -> Exp2NextReg(a)
        nparams == IF open THEN MULTRET ELSE s.freereg - (base + 1)
    IN  [InitExp(Code(s, "CALL", base, nparams + 1, 2), "VCALL", PC(s))
         EXCEPT !.freereg = base + 1]

IndexExp(s, a) ==
    LET t == Exp2AnyReg(Expr(s, a.t))
        key == Exp2RK(Exp2Val(Expr(t, a.i)))
    IN  [key EXCEPT !.e = [t.e EXCEPT !.k = "VINDEXED", !.aux = RKOf(key)]]

\* constructor.  The list item read last is pending in s.e; cc counts the items.
CloseListField(s, cc) ==
    LET v == InitExp(Exp2NextReg(s), "VVOID", 0)
    IN  CASE s.e.k = "VVOID" -> [s |-> s, cc |-> cc]
          [] s.e.k # "VVOID" /\ cc.tostore = LFIELDS_PER_FLUSH ->
               [s |-> SetList(v, cc.reg, cc.na, cc.tostore), cc |-> [cc EXCEPT !.tostore = 0]]
          [] OTHER -> [s |-> v, cc |-> cc]

RecField(s, cc, a) ==
    LET key == Exp2RK(Exp2Val(Expr(s, a.i)))
        v == Exp2RK(Expr(key, a.v))
    IN  [InitExp(Code(v, "SETTABLE", cc.reg, RKOf(key), RKOf(v)), "VVOID", 0)
         EXCEPT !.freereg = s.freereg]

LastListField(s, cc) ==
    CASE cc.tostore = 0 -> s
      [] cc.tostore > 0 /\ MultRet(s.e) ->
           SetList(SetReturns(s, MULTRET), cc.reg, cc.na, MULTRET)
      [] OTHER -> SetList(IF s.e.k # "VVOID" THEN Exp2NextReg(s) ELSE s, cc.reg, cc.na, cc.tostore)

RECURSIVE Fields(_, _, _)
Fields(s, cc, fs) ==
    IF fs = <<>> THEN LastListField(s, cc)
    ELSE LET c == CloseListField(s, cc)
         IN  IF Head(fs).k = "rec" THEN Fields(RecField(c.s, c.cc, Head(fs)), c.cc, Tail(fs))
             ELSE Fields(Expr(c.s, Head(fs).v),
                         [c.cc EXCEPT !.na = @ + 1, !.tostore = @ + 1], Tail(fs))

Constructor(s0, a) ==
    LET s == Exp2NextReg(InitExp(Code(s0, "NEWTABLE", 0, 0, 0), "VRELOCABLE", PC(s0)))
        t == s.e
        cc == [reg |-> t.info, na |-> 0, tostore |-> 0]
    IN  [Fields(InitExp(s, "VVOID", 0), cc, a.fields) EXCEPT !.e = t]

\* subexpr, for an operator with its operands.
BinExp(s, a) == LET l == Infix(Expr(s, a.l), a.o) IN Posfix(Expr(l, a.r), a.o, l.e)

Expr(s, a) ==
    CASE a.k = "nil"    -> InitExp(s, "VNIL", 0)
      [] a.k = "true"   -> InitExp(s, "VTRUE", 0)
      [] a.k = "false"  -> InitExp(s, "VFALSE", 0)
      [] a.k = "number" -> InitExp(s, "VKNUM", a.n)
      [] a.k = "string" -> CodeString(s, a.s)
      [] a.k = "..."    -> InitExp(Code(s, "VARARG", 0, 1, 0), "VVARARG", PC(s))
      [] a.k = "name"   -> SingleVar(s, a.x)
      [] a.k = "paren"  -> DischargeVars(Expr(s, a.e))
      [] a.k = "index"  -> IndexExp(s, a)
      [] a.k = "call"   -> FuncArgs(Exp2NextReg(Expr(s, a.fn)), a.args)
      [] a.k = "method" -> FuncArgs(Self(Expr(s, a.obj), S(<<a.s>>)), a.args)
      [] a.k = "function" -> Body(s, a)
      [] a.k = "table"  -> Constructor(s, a)
      [] a.k = "unop"   -> Prefix(Expr(s, a.e), a.o)
      [] a.k = "binop"  -> BinExp(s, a)

(***************************************************************************)
(* Statements.                                                             *)
(***************************************************************************)
Block(s, b) == LeaveBlock(Chunk(EnterBlock(s, FALSE), b))

NoConflict(s, lhs) == [s |-> s, lhs |-> lhs]      \* mutant

\* check_conflict: earlier targets indexed by the local get a copy of it.
CheckConflict(s, lhs) ==
    LET v == s.e.info
        Hit(e) == e.k = "VINDEXED" /\ v \in {e.info, e.aux}
        Safe(r) == IF r = v THEN s.freereg ELSE r
    IN  IF s.e.k # "VLOCAL" \/ ~\E i \in DOMAIN lhs : Hit(lhs[i]) THEN [s |-> s, lhs |-> lhs]
        ELSE [s |-> ReserveRegs(Code(s, "MOVE", s.freereg, v, 0), 1),
              lhs |-> [i \in DOMAIN lhs |->
                         IF Hit(lhs[i]) THEN [lhs[i] EXCEPT !.info = Safe(@), !.aux = Safe(@)]
                                        ELSE lhs[i]]]

\* The default assignment: the value is the last one on the stack.
StoreFromStack(var, s) == StoreVar(InitExp(s, "VNONRELOC", s.freereg - 1), var)

RECURSIVE Assignment(_, _, _, _)
Assignment(s, lhs, ts, es) ==
    IF ts # <<>> THEN
        LET v == Expr(s, Head(ts))
            c == CheckConflict(v, lhs)
        IN  Assignment(c.s, Append(c.lhs, v.e), Tail(ts), es)
    ELSE
        LET r == ExpList(s, es)
            a == AdjustAssign(r, Len(lhs), Len(es))
            surplus == Max({Len(es) - Len(lhs), 0})
        IN  IF Len(es) = Len(lhs)
            THEN FoldRight(StoreFromStack, Front(lhs), StoreVar(SetOneRet(r), Last(lhs)))
            ELSE FoldRight(StoreFromStack, lhs, [a EXCEPT !.freereg = @ - surplus])

\* cond: the jumps taken when the condition is false are left in s.e.f
Cond(s, a) ==
    LET v == Expr(s, a) IN GoIfTrue(IF v.e.k = "VNIL" THEN [v EXCEPT !.e.k = "VFALSE"] ELSE v)

BreakStat(s) ==
    LET loop == Max({i \in DOMAIN s.bl : s.bl[i].isbreakable})
        upval == \E i \in loop + 1 .. Len(s.bl) : s.bl[i].upval
        c == Jump(IF upval THEN Code(s, "CLOSE", s.bl[loop].nactvar, 0, 0) ELSE s)
    IN  [Linked(c, s.bl[loop].breaklist, PC(c) - 1)
         EXCEPT !.bl[loop].breaklist = First(@, PC(c) - 1)]

JumpBack(s, target) == LET j == Jump(s) IN PatchList(j, PC(j) - 1, target)

WhileStat(s0, a) ==
    LET c == Cond(GetLabel(s0), a.c)
        b == Block(EnterBlock(c, TRUE), a.b)
    IN  PatchToHere(LeaveBlock(JumpBack(b, PC(s0))), c.e.f)

RepeatStat(s0, a) ==
    LET init == PC(s0)
        c == Cond(Chunk(EnterBlock(EnterBlock(GetLabel(s0), TRUE), FALSE), a.b), a.c)
        simple == PatchList(LeaveBlock(c), c.e.f, init)
        upvals == JumpBack(LeaveBlock(PatchToHere(BreakStat(c), c.e.f)), init)
    IN  LeaveBlock(IF Last(c.bl).upval THEN upvals ELSE simple)

Exp1(s, a) == Exp2NextReg(Expr(s, a))

\* forbody: the control variables are in the three registers from base on.
ForBody(s0, base, xs, body, isnum) ==
    LET v == AdjustLocalVars(s0, <<"(index)", "(limit)", "(step)">>)
        prep == PC(v)
        p == IF isnum THEN Code(v, "FORPREP", base, NO_JUMP, 0) ELSE Jump(v)
        b == Block(ReserveRegs(AdjustLocalVars(EnterBlock(p, FALSE), xs), Len(xs)), body)
        h == PatchToHere(LeaveBlock(b), PC(p) - 1)
        e == IF isnum THEN Code(h, "FORLOOP", base, NO_JUMP, 0)
                      ELSE Jump(Code(h, "TFORLOOP", base, 0, Len(xs)))
    IN  PatchList(e, PC(e) - 1, prep + 1)

LoadOne(s) == ReserveRegs(Code(AddK(s, N(1)), "LOADK", s.freereg, IndexOfK(s, N(1)), 0), 1)

ForNumStat(s0, a) ==
    LET s == EnterBlock(s0, TRUE)
        two == Exp1(Exp1(s, a.es[1]), a.es[2])
        three == IF Len(a.es) = 3 THEN Exp1(two, a.es[3]) ELSE LoadOne(two)
    IN  LeaveBlock(ForBody(three, s.freereg, <<a.x>>, a.b, TRUE))

ForInStat(s0, a) ==
    LET s == EnterBlock(s0, TRUE)
        c == CheckStack(AdjustAssign(ExpList(s, a.es), 3, Len(a.es)), 3)
    IN  LeaveBlock(ForBody(c, s.freereg, a.xs, a.b, FALSE))

\* ifstat: clauses from the i-th on; escapes is the list of jumps to the end.
RECURSIVE Clauses(_, _, _, _)
Clauses(s, a, i, escapes) ==
    LET c == Cond(s, a.cs[i][1])
        b == Block(c, a.cs[i][2])
        more == i < Len(a.cs) \/ a.b # <<>>
        j == Jump(b)
        out == First(escapes, PC(j) - 1)
        next == PatchToHere(Linked(j, escapes, PC(j) - 1), c.e.f)
    IN  CASE i < Len(a.cs) -> Clauses(next, a, i + 1, out)
          [] i = Len(a.cs) /\ more -> PatchToHere(Block(next, a.b[1]), out)
          [] OTHER -> PatchToHere(Linked(b, escapes, c.e.f), First(escapes, c.e.f))

LocalStat(s, a) ==
    LET e == IF a.es = <<>> THEN InitExp(s, "VVOID", 0) ELSE ExpList(s, a.es)
    IN  AdjustLocalVars(AdjustAssign(e, Len(a.xs), Len(a.es)), a.xs)

LocalFunc(s0, a) ==
    LET s == AdjustLocalVars(ReserveRegs(s0, 1), <<a.x>>)
        d == StoreVar(Body(s, a.f), Exp("VLOCAL", s0.freereg))
    IN  [d EXCEPT !.locvars[Last(d.actvar)].startpc = PC(d)]

FuncStat(s, a) == LET v == Expr(s, a.v) IN StoreVar(Body(v, a.f), v.e)

CallStatement(s, a) == LET c == Expr(s, a.e) IN [c EXCEPT !.code[c.e.info + 1].c = 1]

RetStat(s, a) ==
    LET r == ExpList(s, a.es)
        m == SetReturns(r, MULTRET)
        one == Exp2AnyReg(r)
    IN  CASE a.es = <<>> -> Ret(s, 0, 0)
          [] a.es # <<>> /\ MultRet(r.e) ->
               LET tail == r.e.k = "VCALL" /\ Len(a.es) = 1
               IN  Ret(IF tail THEN [m EXCEPT !.code[m.e.info + 1].op = "TAILCALL"] ELSE m,
                       NActVar(m), MULTRET)
          [] Len(a.es) = 1 /\ ~MultRet(r.e) -> Ret(one, one.e.info, 1)
          [] OTHER -> Ret(Exp2NextReg(r), NActVar(r), Len(a.es))

Statement(s, a) ==
    CASE a.k = "local"         -> LocalStat(s, a)
      [] a.k = "assign"        -> Assignment(s, <<>>, a.ts, a.es)
      [] a.k = "callstat"      -> CallStatement(s, a)
      [] a.k = "do"            -> Block(s, a.b)
      [] a.k = "while"         -> WhileStat(s, a)
      [] a.k = "repeat"        -> RepeatStat(s, a)
      [] a.k = "if"            -> Clauses(s, a, 1, NO_JUMP)
      [] a.k = "fornum"        -> ForNumStat(s, a)
      [] a.k = "forin"         -> ForInStat(s, a)
      [] a.k = "localfunction" -> LocalFunc(s, a)
      [] a.k = "functionstat"  -> FuncStat(s, a)
      [] a.k = "return"        -> RetStat(s, a)
      [] a.k = "break"         -> BreakStat(s)

\* chunk: the temporaries of a statement are free after it.  The assertion of the
\* source selects the only case there is.
Chunk(s, b) ==
    IF b = <<>> THEN s
    ELSE LET r == Statement(s, Head(b))
         IN  CASE r.maxstacksize >= r.freereg /\ r.freereg >= NActVar(r) ->
                    Chunk([r EXCEPT !.freereg = NActVar(r)], Tail(b))

\* luaY_parser: the main function takes any number of arguments.
Compile(b) == Proto(Chunk([NewFuncState(<<>>) EXCEPT !.vararg = TRUE], b))
=============================================================================
