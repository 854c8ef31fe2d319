------------------------------- MODULE LuaGC --------------------------------
(***************************************************************************)
(* A Lua state at work: the program, which allocates, loads, stores,       *)
(* captures locals, loads chunks and switches coroutines, interleaved with *)
(* the steps of the incremental collector.                                 *)
(*                                                                         *)
(* The program is what lapi.cpp and lvm.cpp let any C or Lua function do   *)
(* to the heap. It works on the registers of the running thread; it reads  *)
(* any field of an object it holds and stores what it holds. Every action  *)
(* is a stretch of code with no luaC_checkGC inside; the collector may run *)
(* between any two, which includes every place where the code calls it.    *)
(***************************************************************************)
EXTENDS LuaCollector

CONSTANTS
  Metas,    (* the metatables it gives each table and userdata, and (Nil)  *)
            (* the other types                                             *)
  Modes,    (* the values it gives the field __mode of a metatable         *)
  GCFields, (* whether it sets or clears the field __gc of a metatable     *)
  Envs      (* the tables it uses as environments                          *)

ASSUME ProgramAssumption ==
  /\ Metas \in [Tables \cup Udata \cup {Nil} -> SUBSET Tables]
  /\ Envs \subseteq Tables
  /\ Modes \subseteq SUBSET {"k", "v"} /\ GCFields \subseteq BOOLEAN

vars == <<heap, list, colours, finalized, currentwhite, weak, running,
          collector>>

Propagating == gcstate = "propagate"

(* What only the collector changes.                                        *)
gcvars == <<finalized, currentwhite, weak, collector>>

-----------------------------------------------------------------------------
(* What the program holds and can reach.                                   *)

Reg(i) == th[running].stack[i]

(* Prototypes are never values of the program: they sit in registers while *)
(* a chunk is loaded.                                                      *)
Held == ({Reg(i) : i \in StackSlots} \cup {th[running].gt, Registry} \cup th[running].gctm)
        \cap (Obj \ Protos)

Fields(o) ==
  IF tt[o] = "function"
  THEN {cl[o].env} \cup {UpValue(u) : u \in {cl[o].upvalue} \cap UpVals}
  ELSE IF tt[o] = "thread" THEN {th[o].gt}
  ELSE IF tt[o] \in {"string", "proto", "upval"} THEN {}
  ELSE Contents(o)
Readable == (Held \cup (UNION {Fields(o) : o \in Held}) \cup {mt}) \cap (Obj \ Protos)

MetaTables == UNION {Metas[x] : x \in Tables \cup Udata \cup {Nil}}

SetReg(i, v) == th' = [th EXCEPT ![running].stack[i] = v]

-----------------------------------------------------------------------------
(* Loads and moves between registers; Nil stands for any other value, and  *)
(* for a register that is popped.                                          *)
Load(i, v) ==
  /\ SetReg(i, v)
  /\ UNCHANGED <<tab, ud, cl, pr, uv, mt, list, colours, running>>

-----------------------------------------------------------------------------
(* Allocation: the new object is white, linked, and left in a register.    *)

(* luaC_link and its relatives.                                            *)
Link(o, l) ==
  /\ list[o] = "free"
  /\ list' = [list EXCEPT ![o] = l]
  /\ marked' = [marked EXCEPT ![o] = currentwhite]
  /\ UNCHANGED <<gray, grayagain>>

(* luaH_new, luaF_newproto: the block is empty.                            *)
NewTable(t, i) ==
  /\ Link(t, "rootgc")
  /\ SetReg(i, t)
  /\ UNCHANGED <<tab, ud, cl, pr, uv, mt, running>>

NewProto(p, i) ==
  /\ Link(p, "rootgc")
  /\ SetReg(i, p)
  /\ UNCHANGED <<tab, ud, cl, pr, uv, mt, running>>

(* luaS_newudata: no metatable, the environment of the caller (getcurrenv).*)
NewUdata(u, env, i) ==
  /\ Link(u, "rootgc")
  /\ ud' = [ud EXCEPT ![u] = [metatable |-> Nil, env |-> env]]
  /\ SetReg(i, u)
  /\ UNCHANGED <<tab, cl, pr, uv, mt, running>>

(* luaE_newthread: the new thread shares the table of globals.             *)
NewThread(h, i) ==
  /\ Link(h, "rootgc")
  /\ th' = [th EXCEPT ![h] = NewThreadRec(th[running].gt),
                      ![running].stack[i] = h]
  /\ UNCHANGED <<tab, ud, cl, pr, uv, mt, running>>

NotRevived(colour) == colour                                 \* mutant

(* A block that waits to be swept and is found again turns to the current  *)
(* white (changewhite).                                                    *)
Revived(colour) ==
  IF colour = OtherWhite(currentwhite) THEN currentwhite ELSE colour

(* luaS_newlstr: strings are unique; one that is dead but not swept yet is *)
(* resurrected.                                                            *)
NewString(s, i) ==
  /\ \/ Link(s, "strt")
     \/ /\ list[s] = "strt"
        /\ marked' = [marked EXCEPT ![s] = Revived(@)]
        /\ UNCHANGED <<list, gray, grayagain>>
  /\ SetReg(i, s)
  /\ UNCHANGED <<tab, ud, cl, pr, uv, mt, running>>

(* lua_pushcclosure with one upvalue.                                      *)
NewCClosure(c, env, v, i) ==
  /\ Link(c, "rootgc")
  /\ cl' = [cl EXCEPT ![c] = [env |-> env, p |-> Nil, upvalue |-> v]]
  /\ SetReg(i, c)
  /\ UNCHANGED <<tab, ud, pr, uv, mt, running>>

-----------------------------------------------------------------------------
(* Lua closures and upvalues (lfunc.cpp).                                  *)

(* OP_CLOSURE in the closure f: a closure of one of the prototypes nested  *)
(* in its own. Where a heap leaves prototypes out, every closure has Nil.   *)
NestedProtos(f) ==
  IF cl[f].p = Nil THEN {Nil} ELSE Protos \cap ProtoRefs(cl[f].p)

(* OP_GETUPVAL: the new closure c shares the upvalue of f, if it has one.  *)
ShareUpVal(c, f, p, i) ==
  /\ Link(c, "rootgc")
  /\ cl' = [cl EXCEPT ![c] = [env |-> cl[f].env, p |-> p, upvalue |-> cl[f].upvalue]]
  /\ SetReg(i, c)
  /\ UNCHANGED <<tab, ud, pr, uv, mt, running>>

(* luaF_findupval: register j already has an open upvalue, or gets one.    *)
LiveOpenAt(j) ==                                             \* mutant
  {u \in OpenUpvals(running) : uv[u].level = j /\ ~isdead(u)}
OpenAt(j) == {u \in OpenUpvals(running) : uv[u].level = j}
Capture(c, f, p, u, j, i) ==
  /\ list[c] = "free"
  /\ IF OpenAt(j) # {}
     THEN /\ u \in OpenAt(j)
          /\ list' = [list EXCEPT ![c] = "rootgc"]
          /\ marked' = [marked EXCEPT ![c] = currentwhite,
                          ![u] = Revived(@)]
          /\ UNCHANGED uv
     ELSE /\ list[u] = "free"
          /\ list' = [list EXCEPT ![c] = "rootgc", ![u] = "openupval"]
          /\ marked' = [marked EXCEPT ![c] = currentwhite, ![u] = currentwhite]
          /\ uv' = [uv EXCEPT ![u] = [owner |-> running, level |-> j, value |-> Nil]]
  /\ cl' = [cl EXCEPT ![c] = [env |-> cl[f].env, p |-> p, upvalue |-> u]]
  /\ SetReg(i, c)
  /\ UNCHANGED <<tab, ud, pr, mt, gray, grayagain, running>>

(* OP_SETUPVAL: the barrier is on the upvalue, whoever shares it.          *)
SetUpval(f, v) ==
  /\ cl[f].upvalue # Nil
  /\ LET u == cl[f].upvalue IN
       IF IsOpen(u)
       THEN /\ th' = [th EXCEPT ![uv[u].owner].stack[uv[u].level] = v]
            /\ BarrierForward(u, v, Propagating)
            /\ UNCHANGED uv
       ELSE /\ uv' = [uv EXCEPT ![u].value = v]
            /\ BarrierForward(u, v, Propagating)
            /\ UNCHANGED th
  /\ UNCHANGED <<tab, ud, cl, pr, mt, list, running>>

NoBarrierOnClose(S) == {}                                    \* mutant

(* luaC_linkupval: what is marked when the gray upvalues in S are closed.  *)
MarkedOnClose(S) == IF Propagating THEN MarkSet({UpValue(u) : u \in S}) ELSE {}

(* luaF_close(L, level) on function return, OP_CLOSE or an error. A dead   *)
(* upvalue is freed. The others get their value and join the root list     *)
(* (luaC_linkupval): a gray one turns black, with a barrier, or white.     *)
CloseUpvals(level) ==
  LET closed == {u \in OpenUpvals(running) : uv[u].level >= level}
      dead   == {u \in closed : isdead(u)}
      kept   == closed \ dead
      grays  == {u \in kept : isgray(u)}
      found  == MarkedOnClose(grays)
  IN  /\ closed # {}
      /\ list' = [o \in Obj |-> IF o \in dead THEN "free"
                                ELSE IF o \in kept THEN "rootgc" ELSE list[o]]
      /\ uv' = [u \in UpVals |->
                  IF u \in dead THEN NoUpVal
                  ELSE IF u \in kept THEN [NoUpVal EXCEPT !.value = UpValue(u)]
                  ELSE uv[u]]
      /\ marked' = [o \in Obj |-> IF o \in dead THEN "white0"
                                  ELSE IF o \in grays
                                  THEN IF Propagating THEN "black" ELSE currentwhite
                                  ELSE Coloured(found)[o]]
      /\ gray' = gray \cup Listed(found)
      /\ UNCHANGED <<tab, ud, cl, pr, th, mt, grayagain, running>>

-----------------------------------------------------------------------------
(* Stores.                                                                 *)

(* luaV_settable, lua_rawset, lua_rawseti, OP_SETLIST.                     *)
SetArray(t, s, v) ==
  /\ tab' = [tab EXCEPT ![t].array[s] = v]
  /\ BarrierBack(t, {v}, Propagating)
  /\ UNCHANGED <<ud, cl, pr, uv, th, mt, list, running>>

(* A key that is in the table, even in an empty node, gets the value there;*)
(* otherwise newkey puts it in an empty node, with a barrier of its own.   *)
SetNode(t, s, k, v) ==
  /\ \/ /\ tab[t].node[s].key = k
        /\ BarrierBack(t, {v}, Propagating)
     \/ /\ \A n \in NodeSlots[t] : tab[t].node[n].key # k
        /\ tab[t].node[s].val = Nil
        /\ BarrierBack(t, {k, v}, Propagating)
  /\ tab' = [tab EXCEPT ![t].node[s] = [key |-> k, val |-> v]]
  /\ UNCHANGED <<ud, cl, pr, uv, th, mt, list, running>>

(* lua_setmetatable on a table, a userdata, any other value.               *)
SetTableMeta(t, m) ==
  /\ tab' = [tab EXCEPT ![t].metatable = m]
  /\ BarrierBack(t, {m}, Propagating)
  /\ UNCHANGED <<ud, cl, pr, uv, th, mt, list, running>>

SetUdataMeta(u, m) ==
  /\ ud' = [ud EXCEPT ![u].metatable = m]
  /\ BarrierForward(u, m, Propagating)
  /\ UNCHANGED <<tab, cl, pr, uv, th, mt, list, running>>

SetBasicMeta(m) ==
  /\ mt' = m
  /\ UNCHANGED <<tab, ud, cl, pr, uv, th, list, colours, running>>

(* The fields __mode and __gc of a table, set or cleared like any other;   *)
(* their values are constants of the program.                              *)
SetMode(t, mode) ==
  /\ tab' = [tab EXCEPT ![t].mode = mode]
  /\ UNCHANGED <<ud, cl, pr, uv, th, mt, list, colours, running>>

SetGC(t, gc) ==
  /\ tab' = [tab EXCEPT ![t].gc = gc]
  /\ UNCHANGED <<ud, cl, pr, uv, th, mt, list, colours, running>>

(* lua_setfenv on a function, a userdata, a thread; lua_replace.           *)
SetClosureEnv(f, e) ==
  /\ cl' = [cl EXCEPT ![f].env = e]
  /\ BarrierForward(f, e, Propagating)
  /\ UNCHANGED <<tab, ud, pr, uv, th, mt, list, running>>

SetUdataEnv(u, e) ==
  /\ ud' = [ud EXCEPT ![u].env = e]
  /\ BarrierForward(u, e, Propagating)
  /\ UNCHANGED <<tab, cl, pr, uv, th, mt, list, running>>

SetThreadEnv(h, e) ==
  /\ th' = [th EXCEPT ![h].gt = e]
  /\ BarrierForward(h, e, Propagating)
  /\ UNCHANGED <<tab, ud, cl, pr, uv, mt, list, running>>

(* lua_replace of an upvalue pseudo-index, lua_setupvalue on a C function. *)
SetCUpvalue(f, v) ==
  /\ cl' = [cl EXCEPT ![f].upvalue = v]
  /\ BarrierForward(f, v, Propagating)
  /\ UNCHANGED <<tab, ud, pr, uv, th, mt, list, running>>

-----------------------------------------------------------------------------
(* Loading a chunk: the prototypes being built are in registers (open_func)*)
(* and get constants and nested prototypes (addk, pushclosure); f_parser   *)
(* makes a closure of the main one.                                        *)

(* Register i holds the prototype, register j the constant.                *)
AddConst(i, n, j) ==
  /\ Reg(i) \in Protos /\ Reg(j) \in Protos \cup Strings /\ Reg(i) # Reg(j)
  /\ pr[Reg(i)][n] = Nil
  /\ pr' = [pr EXCEPT ![Reg(i)][n] = Reg(j)]
  /\ BarrierForward(Reg(i), Reg(j), Propagating)
  /\ UNCHANGED <<tab, ud, cl, uv, th, mt, list, running>>

LoadChunk(c, i) ==
  /\ Reg(i) \in Protos /\ th[running].gt # Nil
  /\ Link(c, "rootgc")
  /\ cl' = [cl EXCEPT ![c] = [env |-> th[running].gt, p |-> Reg(i), upvalue |-> Nil]]
  /\ SetReg(i, c)
  /\ UNCHANGED <<tab, ud, pr, uv, mt, running>>

-----------------------------------------------------------------------------
(* Coroutines (auxresume, lua_resume, lua_yield). `resuming' is the thread *)
(* among the arguments of the C function that resumes it, in a slot that   *)
(* the collector marks; `resumer' is the thread that waits for lua_resume  *)
(* to return, known to the C stack only. lua_xmove passes a value or none. *)

(* A coroutine that is neither the running one nor, having resumed another,*)
(* a normal one (ci = base_ci, or LUA_YIELD).                              *)
Resumable(h) == h # Main /\ h # running /\ th[h].resumer = Nil

Resume(h, i, j) ==
  /\ Resumable(h)
  /\ \E v \in {Reg(i), th[h].stack[j]} :
       th' = [th EXCEPT ![running].resuming = h, ![h].resumer = running,
                        ![h].stack[j] = v]
  /\ running' = h
  /\ UNCHANGED <<tab, ud, cl, pr, uv, mt, list, colours>>

(* lua_yield, the end of the coroutine or an error in it, each of which    *)
(* ends the lua_resume of h. Not across a finalizer, which is a C call.    *)
Yield(h, i, j) ==
  /\ h = th[running].resumer
  /\ th[running].gctm = {}
  /\ \E v \in {Reg(i), th[h].stack[j]} :
       th' = [th EXCEPT ![running].resumer = Nil, ![h].resuming = Nil,
                        ![h].stack[j] = v]
  /\ running' = h
  /\ UNCHANGED <<tab, ud, cl, pr, uv, mt, list, colours>>

(* resume_error on a coroutine that an error ended: its registers from the *)
(* base of the innermost frame up are dropped (an open upvalue reads nil   *)
(* there once traversestack has cleared them), and the message goes to     *)
(* register i. Whether a coroutine has died is left open. A running one    *)
(* drops its own arguments, which is Load, and so is the message that      *)
(* auxresume returns itself. A normal one: LuaGCUnguarded.                 *)
ResumeDead(h, level, i) ==
  /\ Resumable(h)
  /\ th' = [th EXCEPT ![h].stack = [n \in StackSlots |-> IF n >= level THEN Nil ELSE @[n]],
                      ![running].stack[i] = Nil]
  /\ UNCHANGED <<tab, ud, cl, pr, uv, mt, list, colours, running>>

-----------------------------------------------------------------------------

(* The operands of every operation are what the program holds.             *)

Stores ==
  \E v \in Held \cup {Nil} :
    \/ \E t \in Held \cap Tables :
         \/ \E s \in ArraySlots[t] : SetArray(t, s, v)
         \/ \E s \in NodeSlots[t], k \in Held : SetNode(t, s, k, v)
         \/ v \in Metas[t] \cup {Nil} /\ SetTableMeta(t, v)
    \/ \E u \in Held \cap Udata :
         \/ v \in Metas[u] \cup {Nil} /\ SetUdataMeta(u, v)
         \/ v \in Envs /\ SetUdataEnv(u, v)
    \/ v \in Metas[Nil] \cup {Nil} /\ SetBasicMeta(v)
    \/ \E f \in Held \cap Closures : v \in Envs /\ SetClosureEnv(f, v)
    \/ \E h \in (Held \cap Threads) \cup {running} : v \in Envs /\ SetThreadEnv(h, v)
    \/ \E f \in Held \cap CClosures : SetCUpvalue(f, v)
    \/ \E f \in Held \cap LClosures : SetUpval(f, v)

SetFields ==
  \E t \in Held \cap MetaTables :
    \/ \E mode \in Modes : SetMode(t, mode)
    \/ \E gc \in GCFields : SetGC(t, gc)

Allocations ==
  \E i \in StackSlots :
    \/ \E t \in Tables : NewTable(t, i)
    \/ \E u \in Udata, e \in Held \cap Envs : NewUdata(u, e, i)
    \/ \E h \in Threads : NewThread(h, i)
    \/ \E s \in Strings : NewString(s, i)
    \/ \E c \in CClosures, e \in Held \cap Envs, v \in Held \cup {Nil} :
         NewCClosure(c, e, v, i)
    \/ \E f \in Held \cap LClosures : \E c \in LClosures, p \in NestedProtos(f) :
         \/ ShareUpVal(c, f, p, i)
         \/ \E u \in UpVals, j \in StackSlots : Capture(c, f, p, u, j, i)

Loading ==
  \E i \in StackSlots :
    \/ \E p \in Protos : NewProto(p, i)
    \/ \E c \in LClosures : LoadChunk(c, i)
    \/ \E j \in StackSlots, n \in ConstSlots : AddConst(i, n, j)

Switches ==
  \E i \in StackSlots, j \in StackSlots :
    \/ \E h \in Held \cap Threads : Resume(h, i, j) \/ ResumeDead(h, i, j)
    \/ \E h \in Threads : Yield(h, i, j)

Program ==
  /\ ~fullgc
  /\ \/ \E i \in StackSlots, v \in Readable \cup {Nil} : Load(i, v)
     \/ \E level \in StackSlots : CloseUpvals(level)
     \/ Allocations
     \/ Stores
     \/ SetFields
     \/ Loading
     \/ Switches
  /\ UNCHANGED gcvars

Collect == CollectorStep \/ \E u \in Udata : FinalizerReturn(u)

Init == HeapInit /\ CollectorInit
Next == Program \/ Collect \/ FullGC
Spec == Init /\ [][Next]_vars

-----------------------------------------------------------------------------
(* Properties.                                                             *)

(* Every variable keeps the type the headers give it.                      *)
TypeOK == HeapTypeOK /\ CollectorTypeOK

(* No live object and no root refers to a block that is free or that the   *)
(* sweep in progress will free: what the program can reach is never        *)
(* collected, whatever the order of stores, steps and switches.            *)
Roots == {Main, Registry, running, mt} \cap Obj
ReferencesLive ==
  LET live == Live IN
    /\ Roots \cup {u \in Udata : list[u] = "tmudata"} \subseteq live
    /\ \A o \in live : Contents(o) \subseteq live

(* Nor is any thread that the C stack will come back to: the running one   *)
(* and those that wait for a coroutine they resumed, which nothing but     *)
(* their resumers' arguments need refer to.                                *)
Active == {running} \cup ({th[h].resumer : h \in Threads} \ {Nil})
NoDangling == ReferencesLive /\ Active \subseteq Live

(* While marks propagate no black object refers to a white one, except for *)
(* userdata waiting for their finalizer since an earlier cycle: this is    *)
(* what every barrier is for.                                              *)
Tricolor ==
  Propagating => \A o \in Live : isblack(o) /\ list[o] # "tmudata" =>
                                   WhiteIn(Contents(o)) = {}

(* The threads through gclist: an object is in one of gray, grayagain and  *)
(* weak at most, a black or white one in none while marks propagate, and a *)
(* gray object that must be traversed is in one.                           *)
LinkedOnce ==
  Propagating =>
    /\ gray \cap grayagain = {} /\ gray \cap weak = {} /\ grayagain \cap weak = {}
    /\ gray \cup grayagain \cup weak = {o \in OfType(Traversable) : list[o] # "free" /\ isgray(o)}

(* A cycle starts and marks with one white only: nothing that survived the *)
(* sweep, was resurrected or was created keeps the white of the last cycle.*)
OneWhite ==
  gcstate \in {"pause", "propagate", "finalize"} =>
    \A o \in Allocated : marked[o] # OtherWhite(currentwhite)

(* "open upvalues are never black" (reallymarkobject), and neither are     *)
(* threads, which is why stores into a stack have no barrier.              *)
NeverBlack ==
  \A o \in Allocated : isblack(o) => tt[o] # "thread" /\ ~(tt[o] = "upval" /\ IsOpen(o))

(* Closures that capture the same local share one upvalue, even when it    *)
(* was found dead and resurrected.                                         *)
OneUpvalPerSlot ==
  \A u, w \in UpVals :
    (list[u] = "openupval" /\ list[w] = "openupval" /\ u # w) =>
      <<uv[u].owner, uv[u].level>> # <<uv[w].owner, uv[w].level>>

(* A userdata is freed only by a sweep that follows its separation, and    *)
(* one that waits for its finalizer is never freed.                        *)
FinalizedBeforeFreed ==
  [][\A u \in Udata : list[u] # "free" /\ list'[u] = "free" =>
        u \in finalized /\ list[u] = "rootgc"]_vars
=============================================================================
