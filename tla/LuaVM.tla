-------------------------------- MODULE LuaVM --------------------------------
(***************************************************************************)
(* The interpreter loop luaV_execute of lvm.cpp, with the call sequence of *)
(* ldo.cpp (luaD_precall, luaD_poscall), running the code that LuaParser   *)
(* generates.  One action executes one instruction of the frame on top.    *)
(*                                                                         *)
(* Positions of the stack count from 1.  A frame is a CallInfo; its        *)
(* function is the value at func, its registers start at base.  Calls of   *)
(* the host's C functions return at once.  Tag methods, the growth of the  *)
(* stack and the collector are left to other modules.                      *)
(***************************************************************************)
EXTENDS LuaDebug, LuaSource

CONSTANTS Programs,    \* the programs to run, each a block
          Compiled(_), \* the prototype of a program: what f_parser gets from LuaParser
          Meant(_, _), \* how a program with its arguments must end, from LuaSource
          StackSize,   \* bound: slots of the stack
          Arguments    \* the arguments the main function may get, sequences of values

VARIABLES prog, args,  \* the program that was compiled, its arguments
          stack, top,  \* L->stack and L->top
          ci,          \* the active calls, the running one last
          upvals,      \* every UpVal: the slot it is open at (0 if closed), its value
          closures,    \* every LClosure: its prototype and its upvalues
          tabs, g,     \* tables and globals
          out,         \* the calls of log
          status,      \* "run", "done" or "error"
          ret          \* the values returned, or the operand an error is about

vars == <<prog, args, stack, top, ci, upvals, closures, tabs, g, out, status, ret>>
store == <<upvals, closures, tabs, g, out>>

(***************************************************************************)
(* The instruction to execute and its operands.                            *)
(***************************************************************************)
Frame == Last(ci)
Cl    == closures[stack[Frame.func][2]]
PT    == Cl.p
Inst  == PT.code[Frame.savedpc + 1]
Slot(r) == Frame.base + r
R(r)  == stack[Slot(r)]
K(i)  == PT.k[i + 1]
RK(x) == IF IsK(x) THEN K(x - BITRK) ELSE R(x)

Goto(pc)     == ci' = [ci EXCEPT ![Len(ci)].savedpc = pc]
Advance(n)   == Goto(Frame.savedpc + n)
Keep         == UNCHANGED <<prog, args>>
Running(op)  == status = "run" /\ Inst.op = op /\ ~Frame.tfor

\* Most instructions only set a register.
SetReg(r, v) ==
    /\ stack' = [stack EXCEPT ![Slot(r)] = v]
    /\ Advance(1)
    /\ UNCHANGED <<top, status, ret>> /\ Keep

\* luaG_typeerror: operand x, a register or a constant (none is NO_REG), is to blame.
Fail(x) ==
    /\ status' = "error"
    /\ ret' = <<x>>
    /\ UNCHANGED <<stack, top, ci>> /\ UNCHANGED store /\ Keep

(***************************************************************************)
(* Moves, loads and upvalues.                                              *)
(***************************************************************************)
UpvalValue(u) == IF upvals[u].slot > 0 THEN stack[upvals[u].slot] ELSE upvals[u].v

LoadInto(op, v) == Running(op) /\ SetReg(Inst.a, v) /\ UNCHANGED store
Move      == LoadInto("MOVE", R(Inst.b))
LoadK     == LoadInto("LOADK", K(Inst.b))
GetUpval  == LoadInto("GETUPVAL", UpvalValue(Cl.ups[Inst.b + 1]))
GetGlobal == LoadInto("GETGLOBAL", Get(g, K(Inst.b)))
OpNot     == LoadInto("NOT", Bool(IsFalse(R(Inst.b))))

LoadBool ==
    /\ Running("LOADBOOL")
    /\ stack' = [stack EXCEPT ![Slot(Inst.a)] = Bool(Inst.b = 1)]
    /\ Advance(IF Inst.c # 0 THEN 2 ELSE 1)
    /\ UNCHANGED <<top, status, ret>> /\ UNCHANGED store /\ Keep

LoadNils ==
    /\ Running("LOADNIL")
    /\ stack' = [p \in 1..StackSize |->
                   IF p = Slot(Inst.b) \/ p \in Slot(Inst.a)..Slot(Inst.b) THEN Nil ELSE stack[p]]
    /\ Advance(1)
    /\ UNCHANGED <<top, status, ret>> /\ UNCHANGED store /\ Keep

SetGlobal ==
    /\ Running("SETGLOBAL")
    /\ g' = Put(g, K(Inst.b), R(Inst.a))
    /\ Advance(1)
    /\ UNCHANGED <<stack, top, upvals, closures, tabs, out, status, ret>> /\ Keep

SetUpval ==
    /\ Running("SETUPVAL")
    /\ LET u == Cl.ups[Inst.b + 1]
       IN  IF upvals[u].slot > 0
           THEN stack' = [stack EXCEPT ![upvals[u].slot] = R(Inst.a)] /\ UNCHANGED upvals
           ELSE upvals' = [upvals EXCEPT ![u].v = R(Inst.a)] /\ UNCHANGED stack
    /\ Advance(1)
    /\ UNCHANGED <<top, closures, tabs, g, out, status, ret>> /\ Keep

(***************************************************************************)
(* Tables.  luaV_gettable and luaV_settable without tag methods.           *)
(***************************************************************************)
GetTable ==
    /\ Running("GETTABLE")
    /\ LET t == R(Inst.b)
       IN  IF t[1] = "table" THEN SetReg(Inst.a, Get(tabs[t[2]], RK(Inst.c))) /\ UNCHANGED store
                             ELSE Fail(Inst.b)

SetTable ==
    /\ Running("SETTABLE")
    /\ LET t == R(Inst.a)
       IN  CASE t[1] # "table" -> Fail(Inst.a)
             [] t[1] = "table" /\ RK(Inst.b) = Nil -> Fail(NO_REG)
             [] OTHER ->
                  /\ tabs' = [tabs EXCEPT ![t[2]] = Put(@, RK(Inst.b), RK(Inst.c))]
                  /\ Advance(1)
                  /\ UNCHANGED <<stack, top, upvals, closures, g, out, status, ret>> /\ Keep

NewTable ==
    /\ Running("NEWTABLE")
    /\ tabs' = Append(tabs, <<>>)
    /\ SetReg(Inst.a, <<"table", Len(tabs) + 1>>)
    /\ UNCHANGED <<upvals, closures, g, out>>

OpSelf ==
    /\ Running("SELF")
    /\ LET t == R(Inst.b)
       IN  IF t[1] # "table" THEN Fail(Inst.b)
           ELSE /\ stack' = [stack EXCEPT ![Slot(Inst.a + 1)] = t,
                                          ![Slot(Inst.a)] = Get(tabs[t[2]], RK(Inst.c))]
                /\ Advance(1)
                /\ UNCHANGED <<top, status, ret>> /\ UNCHANGED store /\ Keep

SetListItems ==
    /\ Running("SETLIST")
    /\ LET n == IF Inst.b = 0 THEN top - Slot(Inst.a) - 1 ELSE Inst.b
           first == (Inst.c - 1) * LFIELDS_PER_FLUSH
           items == [i \in {N(first + j) : j \in 1..n} |-> stack[Slot(Inst.a) + i[2] - first]]
       IN  tabs' = [tabs EXCEPT ![R(Inst.a)[2]] = items @@ @]
    /\ top' = IF Inst.b = 0 THEN Frame.top ELSE top
    /\ Advance(1)
    /\ UNCHANGED <<stack, upvals, closures, g, out, status, ret>> /\ Keep

(***************************************************************************)
(* Operators.                                                              *)
(***************************************************************************)
OpArith ==
    /\ status = "run" /\ Inst.op \in Arithmetic /\ ~Frame.tfor
    /\ LET v == RK(Inst.b)
           w == RK(Inst.c)
           o == CHOOSE x \in ArithOps : ArithOpcode[x] = Inst.op
       IN  CASE ~IsNumber(v) -> Fail(Inst.b)
             [] IsNumber(v) /\ ~IsNumber(w) -> Fail(Inst.c)
             [] OTHER -> SetReg(Inst.a, Arith(o, v, w)) /\ UNCHANGED store

OpUnm ==
    /\ Running("UNM")
    /\ IF IsNumber(R(Inst.b)) THEN SetReg(Inst.a, Arith("-", N(0), R(Inst.b))) /\ UNCHANGED store
                              ELSE Fail(Inst.b)

\* luaH_getn: the programs only take the length of sequences.
OpLen ==
    /\ Running("LEN")
    /\ LET v == R(Inst.b)
           t == tabs[v[2]]
       IN  CASE v[1] = "string" -> SetReg(Inst.a, N(Len(v[2]))) /\ UNCHANGED store
             [] v[1] = "table" ->
                  /\ SetReg(Inst.a, N(Cardinality({i \in DOMAIN t : i[1] = "number" /\ t[i] # Nil})))
                  /\ UNCHANGED store
             [] OTHER -> Fail(Inst.b)

\* luaV_concat joins from the right; the operand to blame is the last that has
\* no string, except that the one before the last is looked at first.
OpConcat ==
    /\ Running("CONCAT")
    /\ LET bad == {r \in Inst.b..Inst.c : ~HasString(R(r))}
           s == S(FoldLeft(LAMBDA cs, r : cs \o AsString(R(r)), <<>>,
                           [j \in 1 .. Inst.c - Inst.b + 1 |-> Inst.b + j - 1]))
       IN  CASE bad = {} ->
                  /\ stack' = [stack EXCEPT ![Slot(Inst.b)] = s, ![Slot(Inst.a)] = s]
                  /\ Advance(1)
                  /\ UNCHANGED <<top, status, ret>> /\ UNCHANGED store /\ Keep
             [] bad # {} -> Fail(IF Inst.c - 1 \in bad THEN Inst.c - 1 ELSE Max(bad))

(***************************************************************************)
(* Jumps and tests.                                                        *)
(***************************************************************************)
Quiet == UNCHANGED <<stack, top, status, ret>> /\ UNCHANGED store /\ Keep

OpJmp == Running("JMP") /\ Goto(Frame.savedpc + 1 + Inst.b) /\ Quiet

\* The jump after a test is taken, or skipped.
Taken == Frame.savedpc + 2 + PT.code[Frame.savedpc + 2].b
Branch(b) == Goto(IF b THEN Taken ELSE Frame.savedpc + 2)

OpEq ==
    /\ Running("EQ")
    /\ Branch(RawEqual(RK(Inst.b), RK(Inst.c)) = (Inst.a = 1))
    /\ Quiet

OpOrder(op, less) ==
    /\ Running(op)
    /\ IF IsNumber(RK(Inst.b)) /\ IsNumber(RK(Inst.c))
       THEN Branch(less = (Inst.a = 1)) /\ Quiet
       ELSE Fail(NO_REG)
OpLt == OpOrder("LT", NumLess(RK(Inst.b), RK(Inst.c)))
OpLe == OpOrder("LE", NumLessEqual(RK(Inst.b), RK(Inst.c)))

OpTest ==
    /\ Running("TEST")
    /\ Branch(IsFalse(R(Inst.a)) # (Inst.c = 1))
    /\ Quiet

OpTestSet ==
    /\ Running("TESTSET")
    /\ LET goes == IsFalse(R(Inst.b)) # (Inst.c = 1)
       IN  /\ Branch(goes)
           /\ stack' = IF goes THEN [stack EXCEPT ![Slot(Inst.a)] = R(Inst.b)] ELSE stack
    /\ UNCHANGED <<top, status, ret>> /\ UNCHANGED store /\ Keep

(***************************************************************************)
(* Calls.                                                                  *)
(***************************************************************************)
\* luaD_precall of a Lua function at position f with arguments up to t: the
\* stack with the new frame's registers, and its base.  A vararg function keeps
\* its extra arguments below its base.
Entered(stk, f, t) ==
    LET p == closures[stk[f][2]].p
        given == t - f - 1
        actual == Max({given, p.numparams})
        base == IF p.vararg THEN f + 1 + actual ELSE f + 1
        Arg(i) == IF i <= given THEN stk[f + i] ELSE Nil
    IN  [base |-> base, top |-> base + p.maxstacksize,
         stack |-> [q \in 1..StackSize |->
            CASE q \in base .. base + p.numparams - 1 -> Arg(q - base + 1)
              [] q \in base + p.numparams .. base + p.maxstacksize - 1 -> Nil
              [] p.vararg /\ q \in f + 1 .. f + p.numparams -> Nil
              [] OTHER -> stk[q]]]

\* luaD_poscall: the results go where the function was.
Results(stk, f, rs, wanted) ==
    LET n == IF wanted = MULTRET THEN Len(rs) ELSE wanted
    IN  [p \in 1..StackSize |->
           IF p \in f .. f + n - 1 THEN (IF p - f < Len(rs) THEN rs[p - f + 1] ELSE Nil) ELSE stk[p]]

NewFrame(f, e, nresults) ==
    [func |-> f, base |-> e.base, top |-> e.top, nresults |-> nresults, savedpc |-> 0, tfor |-> FALSE]

EnterLua(stk, f, t, nresults, caller) ==
    LET e == Entered(stk, f, t)
    IN  /\ stack' = e.stack
        /\ top' = e.top
        /\ ci' = Append([ci EXCEPT ![Len(ci)] = caller], NewFrame(f, e, nresults))
        /\ UNCHANGED <<status, ret>> /\ UNCHANGED store /\ Keep

CallC(stk, f, t, wanted, caller) ==
    LET r == Builtin(stk[f][2], [out |-> out, vs |-> <<>>], SubSeq(stk, f + 1, t - 1))
    IN  /\ stack' = Results(stk, f, r.vs, wanted)
        /\ out' = r.out
        /\ top' = IF wanted = MULTRET THEN f + Len(r.vs) ELSE caller.top
        /\ ci' = [ci EXCEPT ![Len(ci)] = caller]
        /\ UNCHANGED <<status, ret, upvals, closures, tabs, g>> /\ Keep

CallEnd == IF Inst.b # 0 THEN Slot(Inst.a) + Inst.b ELSE top
Returned == [Frame EXCEPT !.savedpc = @ + 1]

OpCall ==
    /\ Running("CALL")
    /\ LET f == Slot(Inst.a)
       IN  CASE stack[f][1] = "function" -> EnterLua(stack, f, CallEnd, Inst.c - 1, Returned)
             [] stack[f][1] = "cfunction" -> CallC(stack, f, CallEnd, Inst.c - 1, Returned)
             [] OTHER -> Fail(Inst.a)

\* luaF_close
Closed(level) ==
    [u \in DOMAIN upvals |->
       IF upvals[u].slot >= level THEN [slot |-> 0, v |-> stack[upvals[u].slot]] ELSE upvals[u]]

\* The frame of the called function is moved down over the one that calls.
OpTailCall ==
    /\ Running("TAILCALL")
    /\ LET f == Slot(Inst.a)
           e == Entered(stack, f, CallEnd)
           down == f - Frame.func
       IN  CASE stack[f][1] = "function" ->
                  /\ upvals' = Closed(Frame.base)
                  /\ stack' = [p \in 1..StackSize |->
                                 IF p \in Frame.func .. e.top - 1 - down THEN e.stack[p + down]
                                                                         ELSE e.stack[p]]
                  /\ top' = e.top - down
                  /\ ci' = [ci EXCEPT ![Len(ci)] =
                              [@ EXCEPT !.base = e.base - down, !.top = e.top - down, !.savedpc = 0]]
                  /\ UNCHANGED <<closures, tabs, g, out, status, ret>> /\ Keep
             [] stack[f][1] = "cfunction" -> CallC(stack, f, CallEnd, MULTRET, Returned)
             [] OTHER -> Fail(Inst.a)

OpReturn ==
    /\ Running("RETURN")
    /\ LET rs == SubSeq(stack, Slot(Inst.a), IF Inst.b # 0 THEN Slot(Inst.a) + Inst.b - 2 ELSE top - 1)
           wanted == Frame.nresults
       IN  /\ upvals' = Closed(Frame.base)
           /\ ci' = Front(ci)
           /\ IF Len(ci) = 1
              THEN status' = "done" /\ ret' = rs /\ UNCHANGED <<stack, top>>
              ELSE /\ stack' = Results(stack, Frame.func, rs, wanted)
                   /\ top' = IF wanted = MULTRET THEN Frame.func + Len(rs) ELSE ci[Len(ci) - 1].top
                   /\ UNCHANGED <<status, ret>>
    /\ UNCHANGED <<closures, tabs, g, out>> /\ Keep

(***************************************************************************)
(* Loops.                                                                  *)
(***************************************************************************)
ForPrep ==
    /\ Running("FORPREP")
    /\ IF \A r \in Inst.a .. Inst.a + 2 : IsNumber(R(r))
       THEN /\ stack' = [stack EXCEPT ![Slot(Inst.a)] = Arith("-", @, R(Inst.a + 2))]
            /\ Goto(Frame.savedpc + 1 + Inst.b)
            /\ UNCHANGED <<top, status, ret>> /\ UNCHANGED store /\ Keep
       ELSE Fail(NO_REG)

ForLoop ==
    /\ Running("FORLOOP")
    /\ LET step == R(Inst.a + 2)
           idx == Arith("+", R(Inst.a), step)
           limit == R(Inst.a + 1)
           goes == IF NumLess(N(0), step) THEN NumLessEqual(idx, limit) ELSE NumLessEqual(limit, idx)
       IN  /\ Goto(Frame.savedpc + 1 + (IF goes THEN Inst.b ELSE 0))
           /\ stack' = IF goes THEN [stack EXCEPT ![Slot(Inst.a)] = idx, ![Slot(Inst.a + 3)] = idx]
                               ELSE stack
    /\ UNCHANGED <<top, status, ret>> /\ UNCHANGED store /\ Keep

\* OP_TFORLOOP calls the generator; the frame is marked until the results are back.
TForCall ==
    /\ Running("TFORLOOP")
    /\ LET cb == Slot(Inst.a + 3)
           stk == [stack EXCEPT ![cb] = R(Inst.a), ![cb + 1] = R(Inst.a + 1), ![cb + 2] = R(Inst.a + 2)]
           waiting == [Frame EXCEPT !.tfor = TRUE]
       IN  CASE stk[cb][1] = "function" -> EnterLua(stk, cb, cb + 3, Inst.c, waiting)
             [] stk[cb][1] = "cfunction" -> CallC(stk, cb, cb + 3, Inst.c, waiting)
             [] OTHER -> Fail(Inst.a + 3)

TForTest ==
    /\ status = "run" /\ Frame.tfor
    /\ LET v == R(Inst.a + 3)
       IN  /\ stack' = IF v # Nil THEN [stack EXCEPT ![Slot(Inst.a + 2)] = v] ELSE stack
           /\ ci' = [ci EXCEPT ![Len(ci)] =
                       [@ EXCEPT !.tfor = FALSE,
                                 !.savedpc = IF v # Nil THEN Taken ELSE @ + 2]]
    /\ top' = Frame.top
    /\ UNCHANGED <<status, ret>> /\ UNCHANGED store /\ Keep

(***************************************************************************)
(* Closures and varargs.                                                   *)
(***************************************************************************)
OpClose ==
    /\ Running("CLOSE")
    /\ upvals' = Closed(Slot(Inst.a))
    /\ Advance(1)
    /\ UNCHANGED <<stack, top, closures, tabs, g, out, status, ret>> /\ Keep

\* One upvalue of a new closure: shared, found open at the local's slot, or new.
Captured(c, i) ==
    LET open == {u \in DOMAIN c.upvals : c.upvals[u].slot = Slot(i.b)}
    IN  CASE i.op = "GETUPVAL" -> [c EXCEPT !.ups = Append(@, Cl.ups[i.b + 1])]
          [] i.op = "MOVE" /\ open # {} -> [c EXCEPT !.ups = Append(@, Min(open))]
          [] OTHER -> [upvals |-> Append(c.upvals, [slot |-> Slot(i.b), v |-> Nil]),
                       ups |-> Append(c.ups, Len(c.upvals) + 1)]

OpClosure ==
    /\ Running("CLOSURE")
    /\ LET nup == PT.p[Inst.b + 1].nups
           pc == Frame.savedpc
           c == FoldLeft(Captured, [upvals |-> upvals, ups |-> <<>>],
                         SubSeq(PT.code, pc + 2, pc + 1 + nup))
       IN  /\ upvals' = c.upvals
           /\ closures' = Append(closures, [p |-> PT.p[Inst.b + 1], ups |-> c.ups])
           /\ stack' = [stack EXCEPT ![Slot(Inst.a)] = <<"function", Len(closures) + 1>>]
           /\ Advance(1 + nup)
    /\ UNCHANGED <<top, tabs, g, out, status, ret>> /\ Keep

OpVararg ==
    /\ Running("VARARG")
    /\ LET n == Frame.base - Frame.func - PT.numparams - 1
           b == IF Inst.b - 1 = MULTRET THEN n ELSE Inst.b - 1
           ra == Slot(Inst.a)
       IN  /\ stack' = [p \in 1..StackSize |->
                          CASE p \in ra .. ra + b - 1 /\ p - ra < n -> stack[Frame.base - n + p - ra]
                            [] p \in ra .. ra + b - 1 /\ p - ra >= n -> Nil
                            [] OTHER -> stack[p]]
           /\ top' = IF Inst.b - 1 = MULTRET THEN ra + n ELSE top
    /\ Advance(1)
    /\ UNCHANGED <<status, ret>> /\ UNCHANGED store /\ Keep

(***************************************************************************)
(* The machine.  A program is compiled and its main closure called.        *)
(***************************************************************************)
Init ==
    /\ prog \in Programs
    /\ closures = <<[p |-> Compiled(prog), ups |-> <<>>]>>
    /\ args \in Arguments
    /\ LET stk == [p \in 1..StackSize |->
                     CASE p = 1 -> <<"function", 1>>
                       [] p \in 2 .. Len(args) + 1 -> args[p - 1]
                       [] OTHER -> Nil]
           e == Entered(stk, 1, Len(args) + 2)
       IN  stack = e.stack /\ top = e.top /\ ci = <<NewFrame(1, e, MULTRET)>>
    /\ upvals = <<>> /\ tabs = <<>> /\ g = Globals0 /\ out = <<>>
    /\ status = "run" /\ ret = <<>>

\* The program has ended; any other state without a step is a deadlock.
Finished == status # "run" /\ UNCHANGED vars

Next ==
    \/ Move \/ LoadK \/ LoadBool \/ LoadNils \/ GetUpval \/ GetGlobal \/ SetGlobal \/ SetUpval
    \/ GetTable \/ SetTable \/ NewTable \/ OpSelf \/ SetListItems
    \/ OpArith \/ OpUnm \/ OpNot \/ OpLen \/ OpConcat
    \/ OpJmp \/ OpEq \/ OpLt \/ OpLe \/ OpTest \/ OpTestSet
    \/ OpCall \/ OpTailCall \/ OpReturn
    \/ ForPrep \/ ForLoop \/ TForCall \/ TForTest
    \/ OpClose \/ OpClosure \/ OpVararg
    \/ Finished

Spec == Init /\ [][Next]_vars /\ WF_vars(Next)

(***************************************************************************)
(* Properties.                                                             *)
(***************************************************************************)
\* Tables and functions are compared by type only.
Show(vs) == [i \in DOMAIN vs |-> IF vs[i][1] \in {"table", "function"} THEN <<vs[i][1]>> ELSE vs[i]]
ShowAll(calls) == [i \in DOMAIN calls |-> Show(calls[i])]

\* A compiled program ends as its source does: the same error or the same
\* values, after the same calls with the same arguments.  This is about every
\* register, jump list and constant of the code generator.
CompiledMeansSource ==
    status # "run" =>
        LET m == Meant(prog, args)
        IN  /\ status = IF m.err THEN "error" ELSE "done"
            /\ ShowAll(out) = ShowAll(m.out)
            /\ status = "done" => Show(ret) = Show(m.vs)

\* Every function the compiler builds is accepted by the verifier of ldebug.cpp:
\* operands are in range, every jump is patched and every test has its jump.
CompilerPassesVerifier == \A c \in DOMAIN closures : CheckCode(closures[c].p)

\* The variable or field that symbolic execution names for an error message is the one
\* the source has at that place, or one of the same kind without a name ("?"): it does
\* not take one value for another, nor find a variable where the source has none.
NamesTheCulprit ==
    status = "error" =>
        LET x == ret[1]
            blame == Meant(prog, args).blame
            named == IF x < PT.maxstacksize THEN ObjName(PT, Frame.savedpc, x) ELSE <<"none", "?">>
        IN  named \in {blame, <<blame[1], "?">>}

\* Every open upvalue is at a register that holds a local of some active call,
\* or is about to be closed: no path out of a block, a loop or a function leaves
\* an upvalue on a register that is used for something else afterwards.
OpenUpvaluesAreLocals ==
    status = "run" =>
        \A u \in DOMAIN upvals : upvals[u].slot > 0 =>
            \E j \in DOMAIN ci :
                LET reg == upvals[u].slot - ci[j].base
                    pt  == closures[stack[ci[j].func][2]].p
                    i   == pt.code[ci[j].savedpc + 1]
                IN  /\ reg \in 0 .. pt.maxstacksize - 1
                    /\ \/ reg < Len(ActiveLocals(pt, ci[j].savedpc))
                       \/ i.op = "RETURN"
                       \/ i.op = "CLOSE" /\ i.a <= reg

\* Every program of the run ends: no jump leads back to where it should not.
Terminates == <>(status # "run")
=============================================================================
