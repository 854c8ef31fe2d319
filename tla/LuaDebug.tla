------------------------------ MODULE LuaDebug ------------------------------
(***************************************************************************)
(* The bytecode verifier and the symbolic execution of ldebug.cpp, on the  *)
(* prototypes that LuaParser generates: luaG_checkcode accepts or refuses  *)
(* a function, and getobjname names the value in a register for an error   *)
(* message by finding the last instruction that changed it.                *)
(***************************************************************************)
EXTENDS LuaParser

(***************************************************************************)
(* The modes of the instructions (lopcodes.cpp).                           *)
(***************************************************************************)
TestsKeep == {"MOVE", "LOADK", "LOADBOOL", "LOADNIL", "GETUPVAL", "GETGLOBAL", "GETTABLE",
              "CALL", "SELF", "CLOSURE"}      \* mutant: among others a test does not set A

AModes == {"MOVE", "LOADK", "LOADBOOL", "LOADNIL", "GETUPVAL", "GETGLOBAL", "GETTABLE",
           "NEWTABLE", "SELF", "ADD", "SUB", "MUL", "MOD", "UNM", "NOT", "LEN", "CONCAT",
           "TEST", "TESTSET", "CALL", "TAILCALL", "FORLOOP", "FORPREP", "CLOSURE", "VARARG"}

Arithmetic == {"ADD", "SUB", "MUL", "MOD"}
BReg   == {"MOVE", "LOADNIL", "GETTABLE", "SELF", "UNM", "NOT", "LEN", "CONCAT", "TEST", "TESTSET"}
BConst == {"SETTABLE", "EQ", "LT", "LE"} \union Arithmetic
BxK    == {"LOADK", "GETGLOBAL", "SETGLOBAL"}
Jumping == {"JMP", "FORLOOP", "FORPREP"}
BNone  == {"TFORLOOP", "CLOSE"}
CReg   == {"CONCAT"}
CConst == {"GETTABLE", "SELF"} \union BConst
CNone  == {"MOVE", "LOADNIL", "GETUPVAL", "SETUPVAL", "UNM", "NOT", "LEN", "RETURN", "CLOSE",
           "VARARG"}

(***************************************************************************)
(* luaG_checkcode.                                                         *)
(***************************************************************************)
\* The instruction after an open call must use all its results.
OpenOp(i) == i.op \in {"CALL", "TAILCALL", "RETURN", "SETLIST"} /\ i.b = 0

LegalArgs(pt, i) ==
    LET Reg(r) == r < pt.maxstacksize
        RegOrK(r) == IF IsK(r) THEN r - BITRK < Len(pt.k) ELSE Reg(r)
    IN  /\ Reg(i.a)
        /\ i.op \in BReg => Reg(i.b)
        /\ i.op \in BConst => RegOrK(i.b)
        /\ i.op \in BxK => i.b < Len(pt.k)
        /\ i.op \in BNone => i.b = 0
        /\ i.op \in CReg => Reg(i.c)
        /\ i.op \in CConst => RegOrK(i.c)
        /\ i.op \in CNone => i.c = 0

LegalJump(pt, pc, i) ==
    /\ i.op \in Jumping => pc + 1 + i.b \in 0 .. Len(pt.code) - 1
    /\ i.op \in TestModes => pc + 2 < Len(pt.code) /\ pt.code[pc + 2].op = "JMP"
    /\ i.op = "LOADBOOL" /\ i.c # 0 => pc + 2 < Len(pt.code)

LegalUse(pt, pc, i) ==
    LET Reg(r) == r < pt.maxstacksize
        Next == pt.code[pc + 2]
    IN  CASE i.op \in {"GETUPVAL", "SETUPVAL"}   -> i.b < pt.nups
          [] i.op \in {"GETGLOBAL", "SETGLOBAL"} -> pt.k[i.b + 1][1] = "string"
          [] i.op = "SELF"     -> Reg(i.a + 1)
          [] i.op = "CONCAT"   -> i.b < i.c
          [] i.op = "TFORLOOP" -> i.c >= 1 /\ Reg(i.a + 2 + i.c)
          [] i.op \in {"FORLOOP", "FORPREP"} -> Reg(i.a + 3)
          [] i.op \in {"CALL", "TAILCALL"} ->
               /\ i.b # 0 => Reg(i.a + i.b - 1)
               /\ i.c - 1 = MULTRET => OpenOp(Next)
               /\ i.c - 1 > 0 => Reg(i.a + i.c - 2)
          [] i.op = "RETURN"   -> i.b - 1 > 0 => Reg(i.a + i.b - 2)
          [] i.op = "SETLIST"  -> i.b > 0 => Reg(i.a + i.b)
          [] i.op = "CLOSURE"  ->
               /\ i.b < Len(pt.p)
               /\ pc + pt.p[i.b + 1].nups < Len(pt.code)
               /\ \A n \in 1 .. pt.p[i.b + 1].nups : pt.code[pc + n + 1].op \in {"GETUPVAL", "MOVE"}
          [] i.op = "VARARG"   ->
               /\ pt.vararg
               /\ i.b - 1 = MULTRET => OpenOp(Next)
               /\ Reg(i.a + i.b - 2)
          [] OTHER -> TRUE

CheckCode(pt) ==
    /\ Last(pt.code).op = "RETURN"
    /\ \A pc \in 0 .. Len(pt.code) - 1 :
         /\ LegalArgs(pt, pt.code[pc + 1])
         /\ LegalJump(pt, pc, pt.code[pc + 1])
         /\ LegalUse(pt, pc, pt.code[pc + 1])

(***************************************************************************)
(* Symbolic execution for one register.                                    *)
(***************************************************************************)
Changes(i, reg) ==
    \/ i.op \in AModes /\ i.a = reg
    \/ i.op = "LOADNIL" /\ i.a <= reg /\ reg <= i.b
    \/ i.op = "SELF" /\ reg = i.a + 1
    \/ i.op = "TFORLOOP" /\ reg >= i.a + 2
    \/ i.op \in {"CALL", "TAILCALL"} /\ reg >= i.a

\* From pc to lastpc, taking the jumps forward that do not pass lastpc; last is
\* the position of the last instruction that changed reg.
RECURSIVE SymbExec(_, _, _, _, _)
SymbExec(pt, pc, lastpc, reg, last) ==
    IF pc >= lastpc THEN pt.code[last + 1]
    ELSE LET i == pt.code[pc + 1]
             dest == pc + 1 + i.b
             follows == i.op \in Jumping /\ pc < dest /\ dest <= lastpc
         IN  SymbExec(pt, IF follows THEN dest ELSE pc + 1, lastpc, reg,
                      IF Changes(i, reg) THEN pc ELSE last)

\* luaF_getlocalname, for the n-th register counted from 0.
ActiveLocals(pt, pc) ==
    SelectSeq(pt.locvars, LAMBDA v : v.startpc <= pc /\ pc < v.endpc)

\* getobjname: what the value in a register is called, and its kind.
RECURSIVE ObjName(_, _, _)
ObjName(pt, pc, reg) ==
    LET i == SymbExec(pt, 0, pc, reg, Len(pt.code) - 1)
        StringOf(v) == IF v[1] = "string" THEN v[2][1] ELSE "?"
        KName == IF IsK(i.c) THEN StringOf(pt.k[i.c - BITRK + 1]) ELSE "?"
    IN  CASE reg < Len(ActiveLocals(pt, pc)) -> <<"local", ActiveLocals(pt, pc)[reg + 1].name>>
          [] OTHER ->
               CASE i.op = "GETGLOBAL" -> <<"global", StringOf(pt.k[i.b + 1])>>
                 [] i.op = "MOVE" /\ i.b < i.a -> ObjName(pt, pc, i.b)
                 [] i.op = "GETTABLE"  -> <<"field", KName>>
                 [] i.op = "GETUPVAL"  -> <<"upvalue", pt.upvalues[i.b + 1]>>
                 [] i.op = "SELF"      -> <<"method", KName>>
                 [] OTHER -> <<"none", "?">>
=============================================================================
