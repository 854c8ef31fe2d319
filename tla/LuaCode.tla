------------------------------- MODULE LuaCode -------------------------------
(***************************************************************************)
(* The code generator of lcode.cpp.                                        *)
(*                                                                         *)
(* Every operation maps a FuncState s to the next one.  The expression     *)
(* descriptor it works on is the field e of s (the code passes it by       *)
(* reference); info holds either field of the union expdesc.u.  Positions  *)
(* in the code count from 0, as pc does, and a list of jumps is threaded   *)
(* through the offsets of the JMP instructions themselves.                 *)
(***************************************************************************)
EXTENDS LuaSyntax, FiniteSets, FiniteSetsExt, SequencesExt

CONSTANTS MAXINDEXRK,         \* largest constant index that fits an RK operand
          LFIELDS_PER_FLUSH   \* list items a constructor stores at once
ASSUME RKAssumption == MAXINDEXRK \in 0..255
ASSUME FlushAssumption == LFIELDS_PER_FLUSH \in Nat \ {0}

NO_JUMP == -1
NO_REG  == 255
BITRK   == 256
MULTRET == -1

IsK(r)  == r >= BITRK
RKAsK(i) == i + BITRK

Instr(op, a, b, c) == [op |-> op, a |-> a, b |-> b, c |-> c]

\* testTMode: the instructions that test and are followed by a jump.
TestModes == {"EQ", "LT", "LE", "TEST", "TESTSET", "TFORLOOP"}

Exp(k, i) == [k |-> k, info |-> i, aux |-> 0, t |-> NO_JUMP, f |-> NO_JUMP]

\* open_func: the state for a new function, inside the function of state prev.
NewFuncState(prev) ==
    [code |-> <<>>, lasttarget |-> -1, jpc |-> NO_JUMP, freereg |-> 0, maxstacksize |-> 2,
     k |-> <<>>, p |-> <<>>, upvalues |-> <<>>, actvar |-> <<>>, locvars |-> <<>>, bl |-> <<>>,
     vararg |-> FALSE, numparams |-> 0, prev |-> prev, e |-> Exp("VVOID", 0)]

PC(s) == Len(s.code)
NActVar(s) == Len(s.actvar)
SetExp(s, k, i) == [s EXCEPT !.e.k = k, !.e.info = i]
InitExp(s, k, i) == [s EXCEPT !.e = Exp(k, i)]
\* getcode: the instruction an expression will be the result of
CodeOf(s) == s.code[s.e.info + 1]
HasJumps(e) == e.t # e.f
IsNumeral(e) == e.k = "VKNUM" /\ e.t = NO_JUMP /\ e.f = NO_JUMP

(***************************************************************************)
(* Lists of jumps.                                                         *)
(***************************************************************************)
GetJump(code, pc) ==
    IF code[pc + 1].b = NO_JUMP THEN NO_JUMP ELSE pc + 1 + code[pc + 1].b

RECURSIVE Jumps(_, _)
Jumps(code, list) ==
    IF list = NO_JUMP THEN {} ELSE {list} \union Jumps(code, GetJump(code, list))

FixJump(code, pc, dest) == [code EXCEPT ![pc + 1].b = dest - (pc + 1)]

JumpControl(code, pc) ==
    IF pc >= 1 /\ code[pc].op \in TestModes THEN pc - 1 ELSE pc

NeedValue(code, list) ==
    \E j \in Jumps(code, list) : code[JumpControl(code, j) + 1].op # "TESTSET"

\* patchtestreg: the register a test leaves its value in, or a test without value.
PatchTestReg(i, reg) ==
    IF reg # NO_REG /\ reg # i.b THEN [i EXCEPT !.a = reg] ELSE Instr("TEST", i.b, 0, i.c)

PatchTest(code, j, reg) == [code EXCEPT ![JumpControl(code, j) + 1] = PatchTestReg(@, reg)]

Valued(code, list) ==
    {j \in Jumps(code, list) : code[JumpControl(code, j) + 1].op = "TESTSET"}

RemoveValues(s, list) ==
    [s EXCEPT !.code = FoldSet(LAMBDA j, code : PatchTest(code, j, NO_REG), @, Valued(@, list))]

\* Jumps that produce a value go to vtarget, the others to dtarget.
PatchListAux(s, list, vtarget, reg, dtarget) ==
    LET valued == Valued(s.code, list)
        Patch(j, code) == IF j \in valued THEN FixJump(PatchTest(code, j, reg), j, vtarget)
                                          ELSE FixJump(code, j, dtarget)
    IN  [s EXCEPT !.code = FoldSet(Patch, @, Jumps(s.code, list))]

DischargeJpc(s) == [PatchListAux(s, s.jpc, PC(s), NO_REG, PC(s)) EXCEPT !.jpc = NO_JUMP]

GetLabel(s) == [s EXCEPT !.lasttarget = PC(s)]

Unlinked(s, l1, l2) == s        \* mutant: the second list is lost

\* luaK_concat: the last jump of l1 is linked to l2.
Linked(s, l1, l2) ==
    IF NO_JUMP \in {l1, l2} THEN s
    ELSE LET end == CHOOSE j \in Jumps(s.code, l1) : GetJump(s.code, j) = NO_JUMP
         IN  [s EXCEPT !.code = FixJump(@, end, l2)]

First(l1, l2) == IF l1 = NO_JUMP THEN l2 ELSE l1
ConcatT(s, l) == [Linked(s, s.e.t, l) EXCEPT !.e.t = First(@, l)]
ConcatF(s, l) == [Linked(s, s.e.f, l) EXCEPT !.e.f = First(@, l)]

PatchToHere(s, list) ==
    [Linked(GetLabel(s), s.jpc, list) EXCEPT !.jpc = First(@, list)]
PatchList(s, list, target) ==
    IF target = PC(s) THEN PatchToHere(s, list)
                      ELSE PatchListAux(s, list, target, NO_REG, target)

(***************************************************************************)
(* Emitting instructions.  The position an instruction gets is PC(s).      *)
(***************************************************************************)
Code(s, op, a, b, c) ==
    [DischargeJpc(s) EXCEPT !.code = Append(@, Instr(op, a, b, c))]

\* Jumps to the jump itself are kept on hold: they join its list.
Jump(s) == Linked(Code([s EXCEPT !.jpc = NO_JUMP], "JMP", 0, NO_JUMP, 0), PC(s), s.jpc)

CondJump(s, op, a, b, c) == Jump(Code(s, op, a, b, c))

\* luaK_nil: a LOADNIL is merged with the one before it, unless a jump lands here.
LoadNil(s, from, n) ==
    LET last == s.code[PC(s)]
        merges == /\ last.op = "LOADNIL"
                  /\ last.a <= from /\ from <= last.b + 1
    IN  CASE PC(s) <= s.lasttarget -> Code(s, "LOADNIL", from, from + n - 1, 0)
          [] PC(s) > s.lasttarget /\ PC(s) = 0 -> s
          [] PC(s) > s.lasttarget /\ PC(s) > 0 ->
               IF merges THEN [s EXCEPT !.code[PC(s)].b = Max({@, from + n - 1})]
                         ELSE Code(s, "LOADNIL", from, from + n - 1, 0)

CodeLabel(s, a, b, jump) == Code(GetLabel(s), "LOADBOOL", a, b, jump)

Ret(s, first, nret) == Code(s, "RETURN", first, nret + 1, 0)

(***************************************************************************)
(* Registers and constants.                                                *)
(***************************************************************************)
OneShort(s, n) == [s EXCEPT !.maxstacksize = Max({@, s.freereg + n - 1})]     \* mutant

CheckStack(s, n) == [s EXCEPT !.maxstacksize = Max({@, s.freereg + n})]

ReserveRegs(s, n) == [CheckStack(s, n) EXCEPT !.freereg = @ + n]
FreeReg(s, reg) == IF ~IsK(reg) /\ reg >= NActVar(s) THEN [s EXCEPT !.freereg = @ - 1] ELSE s
FreeExp(s, e) == IF e.k = "VNONRELOC" THEN FreeReg(s, e.info) ELSE s

AddK(s, v) == IF \E i \in DOMAIN s.k : s.k[i] = v THEN s ELSE [s EXCEPT !.k = Append(@, v)]
IndexOfK(s, v) == SelectInSeq(AddK(s, v).k, LAMBDA w : w = v) - 1

(***************************************************************************)
(* Discharging expressions into registers.                                 *)
(***************************************************************************)
SetReturns(s, nresults) ==
    CASE s.e.k = "VCALL" -> [s EXCEPT !.code[s.e.info + 1].c = nresults + 1]
      [] s.e.k = "VVARARG" ->
           ReserveRegs([s EXCEPT !.code[s.e.info + 1].b = nresults + 1,
                                 !.code[s.e.info + 1].a = s.freereg], 1)
      [] OTHER -> s

SetOneRet(s) ==
    CASE s.e.k = "VCALL" -> SetExp(s, "VNONRELOC", CodeOf(s).a)
      [] s.e.k = "VVARARG" -> [s EXCEPT !.code[s.e.info + 1].b = 2, !.e.k = "VRELOCABLE"]
      [] OTHER -> s

DischargeVars(s) ==
    CASE s.e.k = "VLOCAL"   -> [s EXCEPT !.e.k = "VNONRELOC"]
      [] s.e.k = "VUPVAL"   -> SetExp(Code(s, "GETUPVAL", 0, s.e.info, 0), "VRELOCABLE", PC(s))
      [] s.e.k = "VGLOBAL"  -> SetExp(Code(s, "GETGLOBAL", 0, s.e.info, 0), "VRELOCABLE", PC(s))
      [] s.e.k = "VINDEXED" ->
           SetExp(Code(FreeReg(FreeReg(s, s.e.aux), s.e.info), "GETTABLE", 0, s.e.info, s.e.aux),
                  "VRELOCABLE", PC(s))
      [] OTHER -> SetOneRet(s)

Discharge2Reg(s0, reg) ==
    LET s == DischargeVars(s0)
        Done(d) == SetExp(d, "VNONRELOC", reg)
    IN  CASE s.e.k = "VNIL" -> Done(LoadNil(s, reg, 1))
          [] s.e.k \in {"VTRUE", "VFALSE"} ->
               Done(Code(s, "LOADBOOL", reg, IF s.e.k = "VTRUE" THEN 1 ELSE 0, 0))
          [] s.e.k = "VK" -> Done(Code(s, "LOADK", reg, s.e.info, 0))
          [] s.e.k = "VKNUM" ->
               Done(Code(AddK(s, N(s.e.info)), "LOADK", reg, IndexOfK(s, N(s.e.info)), 0))
          [] s.e.k = "VRELOCABLE" -> Done([s EXCEPT !.code[s.e.info + 1].a = reg])
          [] s.e.k = "VNONRELOC" ->
               Done(IF reg # s.e.info THEN Code(s, "MOVE", reg, s.e.info, 0) ELSE s)
          [] OTHER -> s

Discharge2AnyReg(s) ==
    IF s.e.k = "VNONRELOC" THEN s
    ELSE LET r == ReserveRegs(s, 1) IN Discharge2Reg(r, r.freereg - 1)

\* exp2reg: the value, or the jumps that stand for it, end in register reg.
Exp2Reg(s0, reg) ==
    LET d    == Discharge2Reg(s0, reg)
        s    == IF d.e.k = "VJMP" THEN ConcatT(d, d.e.info) ELSE d
        need == NeedValue(s.code, s.e.t) \/ NeedValue(s.code, s.e.f)
        fj   == IF s.e.k = "VJMP" THEN NO_JUMP ELSE PC(s)
        over == IF fj = NO_JUMP THEN s ELSE Jump(s)
        lf   == CodeLabel(over, reg, 0, 1)
        lt   == PatchToHere(CodeLabel(lf, reg, 1, 0), fj)
        last == GetLabel(IF need THEN lt ELSE s)
        pf   == IF need THEN PC(over) ELSE NO_JUMP
        pt   == IF need THEN PC(lf) ELSE NO_JUMP
        fdone == PatchListAux(last, s.e.f, PC(last), reg, pf)
        done == PatchListAux(fdone, s.e.t, PC(last), reg, pt)
    IN  InitExp(IF HasJumps(s.e) THEN done ELSE s, "VNONRELOC", reg)

Exp2NextReg(s0) ==
    LET d == DischargeVars(s0)
        s == ReserveRegs(FreeExp(d, d.e), 1)
    IN  Exp2Reg(s, s.freereg - 1)

Exp2AnyReg(s0) ==
    LET s == DischargeVars(s0)
    IN  CASE s.e.k = "VNONRELOC" /\ ~HasJumps(s.e) -> s
          [] s.e.k = "VNONRELOC" /\ HasJumps(s.e) /\ s.e.info >= NActVar(s) ->
               Exp2Reg(s, s.e.info)
          [] OTHER -> Exp2NextReg(s)

Exp2Val(s) == IF HasJumps(s.e) THEN Exp2AnyReg(s) ELSE DischargeVars(s)

\* The operand: a register, or a constant when its index fits.
RKOf(s) == IF s.e.k = "VK" THEN RKAsK(s.e.info) ELSE s.e.info
Exp2RK(s0) ==
    LET s == Exp2Val(s0)
        v == CASE s.e.k = "VNIL" -> Nil
               [] s.e.k = "VKNUM" -> N(s.e.info)
               [] OTHER -> Bool(s.e.k = "VTRUE")
    IN  CASE s.e.k \in {"VKNUM", "VTRUE", "VFALSE", "VNIL"} /\ Len(s.k) <= MAXINDEXRK ->
               SetExp(AddK(s, v), "VK", IndexOfK(s, v))
          [] s.e.k = "VK" /\ s.e.info <= MAXINDEXRK -> s
          [] OTHER -> Exp2AnyReg(s)

\* luaK_storevar: the value is s.e
StoreVar(s, var) ==
    CASE var.k = "VLOCAL" -> Exp2Reg(FreeExp(s, s.e), var.info)
      [] var.k \in {"VUPVAL", "VGLOBAL"} ->
           LET r == Exp2AnyReg(s)
               op == IF var.k = "VUPVAL" THEN "SETUPVAL" ELSE "SETGLOBAL"
           IN  FreeExp(Code(r, op, r.e.info, var.info, 0), r.e)
      [] var.k = "VINDEXED" ->
           LET r == Exp2RK(s) IN FreeExp(Code(r, "SETTABLE", var.info, var.aux, RKOf(r)), r.e)

\* luaK_self, for a constant key
Self(s0, key) ==
    LET o == Exp2AnyReg(s0)
        s == ReserveRegs(FreeExp(o, o.e), 2)
        func == s.freereg - 2
        r == Exp2RK(InitExp(AddK(s, key), "VK", IndexOfK(s, key)))
    IN  InitExp(FreeExp(Code(r, "SELF", func, o.e.info, RKOf(r)), r.e), "VNONRELOC", func)

(***************************************************************************)
(* Conditions.                                                             *)
(***************************************************************************)
InvertJump(s) ==
    [s EXCEPT !.code[JumpControl(s.code, s.e.info) + 1].a = 1 - @]

\* jumponcond: a jump taken when the value is cond; its position is the last one.
JumpOnCond(s, cond) ==
    IF s.e.k = "VRELOCABLE" /\ CodeOf(s).op = "NOT"
    THEN CondJump([s EXCEPT !.code = Front(@)], "TEST", CodeOf(s).b, 0, 1 - cond)
    ELSE LET d == Discharge2AnyReg(s)
         IN  CondJump(FreeExp(d, d.e), "TESTSET", NO_REG, d.e.info, cond)

GoIfTrue(s0) ==
    LET s == DischargeVars(s0)
        always == s.e.k \in {"VK", "VKNUM", "VTRUE"}
        j == CASE always -> s
               [] s.e.k = "VFALSE" -> Jump(s)
               [] s.e.k = "VJMP" -> InvertJump(s)
               [] OTHER -> JumpOnCond(s, 0)
        pc == CASE always -> NO_JUMP
                [] s.e.k = "VJMP" -> s.e.info
                [] OTHER -> PC(j) - 1
        c == ConcatF(j, pc)
    IN  [PatchToHere(c, c.e.t) EXCEPT !.e.t = NO_JUMP]

GoIfFalse(s0) ==
    LET s == DischargeVars(s0)
        never == s.e.k \in {"VNIL", "VFALSE"}
        j == CASE never -> s
               [] s.e.k = "VTRUE" -> Jump(s)
               [] s.e.k = "VJMP" -> s
               [] OTHER -> JumpOnCond(s, 1)
        pc == CASE never -> NO_JUMP
                [] s.e.k = "VJMP" -> s.e.info
                [] OTHER -> PC(j) - 1
        c == ConcatT(j, pc)
    IN  [PatchToHere(c, c.e.f) EXCEPT !.e.f = NO_JUMP]

CodeNot(s0) ==
    LET s == DischargeVars(s0)
        d == Discharge2AnyReg(s)
        negated ==
          CASE s.e.k \in {"VNIL", "VFALSE"} -> [s EXCEPT !.e.k = "VTRUE"]
            [] s.e.k \in {"VK", "VKNUM", "VTRUE"} -> [s EXCEPT !.e.k = "VFALSE"]
            [] s.e.k = "VJMP" -> InvertJump(s)
            [] OTHER -> SetExp(Code(FreeExp(d, d.e), "NOT", 0, d.e.info, 0), "VRELOCABLE", PC(d))
        swapped == [negated EXCEPT !.e.t = negated.e.f, !.e.f = negated.e.t]
    IN  RemoveValues(RemoveValues(swapped, swapped.e.f), swapped.e.t)

(***************************************************************************)
(* Operators.  The first operand is e1, the second one s.e.                *)
(***************************************************************************)
ArithOpcode == [o \in ArithOps |->
    CASE o = "+" -> "ADD" [] o = "-" -> "SUB" [] o = "*" -> "MUL" [] o = "%" -> "MOD"]

\* constfolding: two numerals, unless the result would be a NaN.
Folds(op, e1, e2) == op \in ArithOps /\ IsNumeral(e1) /\ IsNumeral(e2) /\ ~(op = "%" /\ e2.info = 0)

CodeUnary(s0, opcode) ==
    LET s == Exp2RK(s0)
    IN  SetExp(Code(FreeExp(s, s.e), opcode, 0, RKOf(s), 0), "VRELOCABLE", PC(s))

Prefix(s, o) ==
    CASE o = "not" -> CodeNot(s)
      [] o = "#" -> CodeUnary(Exp2AnyReg(s), "LEN")
      [] o = "-" /\ IsNumeral(s.e) -> [s EXCEPT !.e.info = -@]
      [] o = "-" /\ s.e.k = "VK" -> CodeUnary(Exp2AnyReg(s), "UNM")
      [] OTHER -> CodeUnary(s, "UNM")

Infix(s, o) ==
    CASE o = "and" -> GoIfTrue(s)
      [] o = "or"  -> GoIfFalse(s)
      [] o = ".."  -> Exp2NextReg(s)
      [] OTHER -> IF IsNumeral(s.e) THEN s ELSE Exp2RK(s)

\* Both operands as registers or constants, the first one already converted by
\* Infix unless it is a numeral: first, second and the state with both freed.
Operands(s, e1) ==
    LET r1 == Exp2RK([s EXCEPT !.e = e1])
        r2 == Exp2RK([r1 EXCEPT !.e = s.e])
    IN  [first |-> RKOf(r1), second |-> RKOf(r2), s |-> FreeExp(FreeExp(r2, r2.e), r1.e)]

CodeArith(s, opcode, e1) ==
    LET o == Operands(s, e1)
    IN  InitExp(Code(o.s, opcode, 0, o.first, o.second), "VRELOCABLE", PC(o.s))

CodeComp(s, opcode, cond, e1) ==
    LET o == Operands(s, e1)
        swap == cond = 0 /\ opcode # "EQ"
        j == CondJump(o.s, opcode, IF swap THEN 1 ELSE cond,
                      IF swap THEN o.second ELSE o.first, IF swap THEN o.first ELSE o.second)
    IN  InitExp(j, "VJMP", PC(j) - 1)

\* A concatenation to the right is extended to the left by one operand.
CodeConcat(s0, e1) ==
    LET s == Exp2Val(s0)
    IN  IF s.e.k = "VRELOCABLE" /\ CodeOf(s).op = "CONCAT"
        THEN FreeExp([s EXCEPT !.code[s.e.info + 1].b = e1.info], e1)
        ELSE CodeArith(Exp2NextReg(s), "CONCAT", e1)

Posfix(s, o, e1) ==
    CASE o = "and" ->
           LET d == DischargeVars(s)
               l == Linked(d, e1.f, d.e.f)
           IN  [l EXCEPT !.e.f = First(e1.f, @)]
      [] o = "or" ->
           LET d == DischargeVars(s)
               l == Linked(d, e1.t, d.e.t)
           IN  [l EXCEPT !.e.t = First(e1.t, @)]
      [] o = ".." -> CodeConcat(s, e1)
      [] o \in ArithOps ->
           IF Folds(o, e1, s.e) THEN InitExp(s, "VKNUM", Number(o, e1.info, s.e.info)[2])
                                ELSE CodeArith(s, ArithOpcode[o], e1)
      [] o = "==" -> CodeComp(s, "EQ", 1, e1)
      [] o = "~=" -> CodeComp(s, "EQ", 0, e1)
      [] o = "<"  -> CodeComp(s, "LT", 1, e1)
      [] o = "<=" -> CodeComp(s, "LE", 1, e1)
      [] o = ">"  -> CodeComp(s, "LT", 0, e1)
      [] o = ">=" -> CodeComp(s, "LE", 0, e1)

\* luaK_setlist; the number of flushes is assumed to fit operand C.
SetList(s, base, nelems, tostore) ==
    LET c == (nelems - 1) \div LFIELDS_PER_FLUSH + 1
        b == IF tostore = MULTRET THEN 0 ELSE tostore
    IN  [Code(s, "SETLIST", base, b, c) EXCEPT !.freereg = base + 1]
=============================================================================
