------------------------------ MODULE LuaHeap ------------------------------
(***************************************************************************)
(* The heap of a Lua state as the collector sees it: the collectable       *)
(* objects (lobject.h, lstate.h), who refers to whom, their colours        *)
(* (lgc.h), the collector's lists, and the marking and barrier operators   *)
(* of lgc.cpp that both the collector and the program use.                 *)
(*                                                                         *)
(* An object is a member of Obj whose type never changes: an element of    *)
(* Obj stands for a block of memory that the allocator hands out, takes    *)
(* back and hands out again, so a reference kept to a freed object is a    *)
(* reference to a free or to a recycled block.                             *)
(*                                                                         *)
(* The lists that thread through objects (rootgc, gray, grayagain, weak,   *)
(* tmudata) are sets: the order in which they are walked is left open.     *)
(* Whether an object is linked twice is a property (LinkedOnce).           *)
(***************************************************************************)
EXTENDS Naturals

CONSTANTS
  Obj,          (* the blocks collectable objects live in                  *)
  tt,           (* type tag of each block                                  *)
  Main,         (* g->mainthread                                           *)
  Registry,     (* the registry table                                      *)
  Globals,      (* the table of globals of the main thread                 *)
  Fixed,        (* objects with FIXEDBIT: main thread, reserved strings    *)
  Nil,          (* nil, and every value that is not collectable            *)
  DeadKey,      (* a node key with type LUA_TDEADKEY                       *)
  ArraySlots,   (* the array part of each table                            *)
  NodeSlots,    (* the hash part of each table                             *)
  ConstSlots,   (* constants and nested functions of every prototype       *)
  StackSlots    (* the registers of every thread, in stack order           *)

Types == {"string", "table", "function", "cfunction", "userdata", "thread",
          "proto", "upval"}

OfType(T) == {o \in Obj : tt[o] \in T}
Strings   == OfType({"string"})
Tables    == OfType({"table"})
LClosures == OfType({"function"})
CClosures == OfType({"cfunction"})
Closures  == OfType({"function", "cfunction"})
Udata     == OfType({"userdata"})
Threads   == OfType({"thread"})
Protos    == OfType({"proto"})
UpVals    == OfType({"upval"})

(* What a TValue can hold, and what a table reference that may be NULL can *)
(* be. A prototype is a value on the stack while it is being built.        *)
Value    == (Obj \ UpVals) \cup {Nil}
TableOrNil == Tables \cup {Nil}
Key      == Value \cup {DeadKey}

ASSUME HeapAssumption ==
  /\ tt \in [Obj -> Types]
  /\ Main \in Obj /\ tt[Main] = "thread"
  /\ Registry \in Obj /\ tt[Registry] = "table"
  /\ Globals \in Obj /\ tt[Globals] = "table"
  /\ Fixed \subseteq {o \in Obj : tt[o] = "string"} \cup {Main}
  /\ Main \in Fixed
  /\ Nil \notin Obj /\ DeadKey \notin Obj /\ Nil # DeadKey
  /\ StackSlots \subseteq Nat
  /\ DOMAIN ArraySlots = Tables /\ DOMAIN NodeSlots = Tables

VARIABLES
  list,         (* the list that links each object, or "free"              *)
  marked,       (* the colour bits of each object's mark byte              *)
  finalized,    (* userdata with FINALIZEDBIT                              *)
  currentwhite, (* the white of this cycle                                 *)
  gray,         (* g->gray, while marks propagate; empty otherwise         *)
  grayagain,    (* g->grayagain, likewise                                  *)
  weak,         (* g->weak, likewise                                       *)
  tab,          (* the contents of tables                                  *)
  ud,           (* the metatable and environment of userdata               *)
  cl,           (* environment, prototype and upvalue of closures          *)
  pr,           (* the constants of prototypes                             *)
  uv,           (* upvalues: the stack slot they share, or their value     *)
  th,           (* threads: globals, registers, C frames                   *)
  mt,           (* g->mt: the metatable of the basic types                 *)
  running       (* the thread that is running, L                           *)

heap    == <<tab, ud, cl, pr, uv, th, mt>>
colours == <<marked, gray, grayagain>>

-----------------------------------------------------------------------------
(* Colours.                                                                *)

Whites == {"white0", "white1"}
OtherWhite(w) == IF w = "white0" THEN "white1" ELSE "white0"

iswhite(o) == marked[o] \in Whites
isblack(o) == marked[o] = "black"
isgray(o)  == marked[o] = "gray"

WhiteIn(S) == {o \in S \cap Obj : list[o] # "free" /\ iswhite(o)}
WhiteObj == WhiteIn(Obj)

(* A collector about to sweep erases what still has the white of the cycle *)
(* that ended, unless FIXEDBIT is set.                                     *)
isdead(o) == marked[o] = OtherWhite(currentwhite) /\ o \notin Fixed

Allocated == {o \in Obj : list[o] # "free"}
Live      == {o \in Allocated : ~isdead(o)}

-----------------------------------------------------------------------------
(* References.                                                             *)

(* Open upvalues read and write the register they share; closed ones own   *)
(* their value (uv->v = &uv->u.value).                                     *)
IsOpen(u) == uv[u].owner # Nil
UpValue(u) == IF IsOpen(u) THEN th[uv[u].owner].stack[uv[u].level]
                           ELSE uv[u].value

ArrayVals(t) == {tab[t].array[s] : s \in ArraySlots[t]}
FullNodes(t) == {s \in NodeSlots[t] : tab[t].node[s].val # Nil}
NodeKeys(t)  == {tab[t].node[s].key : s \in FullNodes(t)}
NodeVals(t)  == {tab[t].node[s].val : s \in FullNodes(t)}

(* The __mode of a table's metatable; "k" and "v" are the letters in it.   *)
Mode(t) == IF tab[t].metatable = Nil THEN {} ELSE tab[tab[t].metatable].mode

(* gfasttm(g, metatable, TM_GC) finds a finalizer.                         *)
HasGC(u) == ud[u].metatable # Nil /\ tab[ud[u].metatable].gc

ThreadRefs(h) ==
  {th[h].gt, th[h].resuming} \cup {th[h].stack[i] : i \in StackSlots} \cup th[h].gctm
ClosureRefs(c) == {cl[c].env, cl[c].p, cl[c].upvalue}
ProtoRefs(p) == {pr[p][i] : i \in ConstSlots}

NonTableRefs(o) ==
  IF tt[o] \in {"function", "cfunction"} THEN ClosureRefs(o)
  ELSE IF tt[o] = "userdata" THEN {ud[o].metatable, ud[o].env}
  ELSE IF tt[o] = "thread" THEN ThreadRefs(o)
  ELSE IF tt[o] = "proto" THEN ProtoRefs(o)
  ELSE IF tt[o] = "upval" THEN {UpValue(o)}
  ELSE {}

(* Everything the program can read from o, weak references included.       *)
Contents(o) ==
  Obj \cap (IF tt[o] = "table"
            THEN {tab[o].metatable} \cup ArrayVals(o) \cup NodeKeys(o) \cup NodeVals(o)
            ELSE NonTableRefs(o))

(* What traversing o marks: the weak half of a weak table is left out.     *)
Refs(o) ==
  Obj \cap (IF tt[o] = "table"
            THEN {tab[o].metatable}
                   \cup (IF "v" \in Mode(o) THEN {} ELSE ArrayVals(o) \cup NodeVals(o))
                   \cup (IF "k" \in Mode(o) THEN {} ELSE NodeKeys(o))
            ELSE NonTableRefs(o))

-----------------------------------------------------------------------------
(* reallymarkobject and the objects it colours.                            *)

(* Types linked in g->gray when marked, to be traversed later.             *)
Traversable == {"table", "function", "cfunction", "thread", "proto"}
ListedAll(S) == S                                            \* mutant
Listed(S) == {o \in S : tt[o] \in Traversable}

(* Userdata and upvalues mark what they refer to at once; an upvalue may   *)
(* mark a userdata which marks a table, and there it ends.                 *)
Immediate(S) == UNION {Refs(o) : o \in {x \in S : tt[x] \in {"userdata", "upval"}}}
MarkSet(S) ==
  LET w0 == WhiteIn(S)
      w1 == w0 \cup WhiteIn(Immediate(w0))
  IN  w1 \cup WhiteIn(Immediate(w1))

OpenUpvalsBlack(o) == IF tt[o] \in {"userdata", "upval"} THEN "black" ELSE "gray" \* mutant

(* Userdata are never gray; open upvalues and strings are never black.     *)
MarkColour(o) ==
  IF tt[o] = "userdata" \/ (tt[o] = "upval" /\ ~IsOpen(o)) THEN "black" ELSE "gray"

Coloured(S) == [o \in Obj |-> IF o \in S THEN MarkColour(o) ELSE marked[o]]

(* reallymarkobject applied to each white object of S.                     *)
MarkObjects(S) ==
  /\ marked' = Coloured(MarkSet(S))
  /\ gray' = gray \cup Listed(MarkSet(S))

-----------------------------------------------------------------------------
(* Write barriers. `marking' says whether the collector is propagating     *)
(* marks. An action applies at most one of them, after its store.          *)

NoBarrierForward(o, v, marking) == UNCHANGED colours         \* mutant

(* luaC_barrierf behind luaC_barrier and luaC_objbarrier: o now refers to v *)
BarrierForward(o, v, marking) ==
  IF isblack(o) /\ v \in WhiteObj
  THEN IF marking
       THEN MarkObjects({v}) /\ UNCHANGED grayagain
       ELSE /\ marked' = [marked EXCEPT ![o] = currentwhite]
            /\ UNCHANGED <<gray, grayagain>>
  ELSE UNCHANGED colours

(* luaC_barrierback behind luaC_barriert and luaC_objbarriert: the table t *)
(* now refers to the values in S. Outside the marking phase the lists are  *)
(* not kept: markroot empties them before anything reads them.             *)
BarrierBack(t, S, marking) ==
  IF isblack(t) /\ WhiteIn(S) # {}
  THEN /\ marked' = [marked EXCEPT ![t] = "gray"]
       /\ grayagain' = IF marking THEN grayagain \cup {t} ELSE grayagain
       /\ UNCHANGED gray
  ELSE UNCHANGED colours

-----------------------------------------------------------------------------
(* Types.                                                                  *)

TableRec(t) == [metatable : TableOrNil, array : [ArraySlots[t] -> Value],
                node : [NodeSlots[t] -> [key : Key, val : Value]],
                mode : SUBSET {"k", "v"}, gc : BOOLEAN]
UdataRec   == [metatable : TableOrNil, env : TableOrNil]
ClosureRec(c) == [env : TableOrNil, p : Protos \cup {Nil},
                  upvalue : IF tt[c] = "function" THEN UpVals \cup {Nil} ELSE Value]
UpValRec   == [owner : Threads \cup {Nil}, level : StackSlots \cup {Nil}, value : Value]
ThreadRec  == [gt : TableOrNil, stack : [StackSlots -> Value], gctm : SUBSET Udata,
               resuming : Threads \cup {Nil}, resumer : Threads \cup {Nil}]

Lists == {"free", "rootgc", "strt", "openupval", "tmudata"}

ColoursTypeOK ==
  /\ marked \in [Obj -> Whites \cup {"gray", "black"}]
  /\ gray \subseteq OfType(Traversable) /\ grayagain \subseteq OfType(Traversable)

ContentsTypeOK ==
  /\ DOMAIN tab = Tables /\ \A t \in Tables : tab[t] \in TableRec(t)
  /\ ud \in [Udata -> UdataRec]
  /\ DOMAIN cl = Closures /\ \A c \in Closures : cl[c] \in ClosureRec(c)
  /\ pr \in [Protos -> [ConstSlots -> Value]]
  /\ uv \in [UpVals -> UpValRec]
  /\ \A u \in UpVals : uv[u].owner # Nil => uv[u].level \in StackSlots
  /\ th \in [Threads -> ThreadRec]
  /\ mt \in TableOrNil

HeapTypeOK ==
  /\ list \in [Obj -> Lists]
  /\ finalized \subseteq Udata
  /\ currentwhite \in Whites
  /\ weak \subseteq Tables
  /\ running \in Threads
  /\ ColoursTypeOK
  /\ ContentsTypeOK

-----------------------------------------------------------------------------
(* Fresh contents, as the allocating function leaves them.                 *)

EmptyTable(t) == [metatable |-> Nil, array |-> [s \in ArraySlots[t] |-> Nil],
                  node |-> [s \in NodeSlots[t] |-> [key |-> Nil, val |-> Nil]],
                  mode |-> {}, gc |-> FALSE]
NoUdata   == [metatable |-> Nil, env |-> Nil]
NoClosure == [env |-> Nil, p |-> Nil, upvalue |-> Nil]
NoConsts  == [i \in ConstSlots |-> Nil]
NoUpVal   == [owner |-> Nil, level |-> Nil, value |-> Nil]
NewThreadRec(gt) == [gt |-> gt, stack |-> [i \in StackSlots |-> Nil],
                     gctm |-> {}, resuming |-> Nil, resumer |-> Nil]

(* lua_newstate and f_luaopen: the main thread, its two tables and the     *)
(* fixed strings exist, everything is of the first white.                  *)
HeapInit ==
  /\ list = [o \in Obj |-> IF o \in {Main, Registry, Globals} THEN "rootgc"
                           ELSE IF o \in Fixed THEN "strt" ELSE "free"]
  /\ marked = [o \in Obj |-> "white0"]
  /\ finalized = {}
  /\ currentwhite = "white0"
  /\ gray = {} /\ grayagain = {} /\ weak = {}
  /\ tab = [t \in Tables |-> EmptyTable(t)]
  /\ ud = [u \in Udata |-> NoUdata]
  /\ cl = [c \in Closures |-> NoClosure]
  /\ pr = [p \in Protos |-> NoConsts]
  /\ uv = [u \in UpVals |-> NoUpVal]
  /\ th = [h \in Threads |-> NewThreadRec(IF h = Main THEN Globals ELSE Nil)]
  /\ mt = Nil
  /\ running = Main
=============================================================================
