----------------------------- MODULE LuaGCProofs -----------------------------
(***************************************************************************)
(* What is proved of LuaGC for every heap, whatever the objects, their     *)
(* types and the sizes of tables, prototypes and stacks: the types, and    *)
(* then that the lists of gray objects are exact, open upvalues and        *)
(* threads are never black, a captured local has one upvalue, and a        *)
(* userdata is freed only after it was separated.                          *)
(***************************************************************************)
EXTENDS LuaGC, TLAPS

-----------------------------------------------------------------------------
(* Where the program's operands come from, and what marking colours.       *)

(* Marking colours objects only (reallymarkobject).                        *)
LEMMA MarkSetType ==
  ASSUME NEW S
  PROVE  MarkSet(S) \subseteq Obj
BY DEF MarkSet, WhiteIn

(* The objects that marking links to the gray list can be traversed.       *)
LEMMA ListedType ==
  ASSUME NEW S, S \subseteq Obj
  PROVE  Listed(S) \subseteq OfType(Traversable)
BY DEF Listed, OfType

(* An upvalue, open or closed, refers to a value.                          *)
LEMMA UpValueType ==
  ASSUME HeapTypeOK, NEW u \in UpVals
  PROVE  UpValue(u) \in Value
<1>1. uv[u] \in UpValRec
  BY DEF HeapTypeOK, ContentsTypeOK
<1>2. CASE IsOpen(u)
  <2>1. uv[u].owner \in Threads /\ uv[u].level \in StackSlots
    BY <1>1, <1>2 DEF HeapTypeOK, ContentsTypeOK, IsOpen, UpValRec
  <2>2. th[uv[u].owner] \in ThreadRec
    BY <2>1 DEF HeapTypeOK, ContentsTypeOK
  <2>. QED  BY <1>2, <2>1, <2>2 DEF UpValue, ThreadRec
<1>3. CASE ~IsOpen(u)
  BY <1>1, <1>3 DEF UpValue, UpValRec
<1>. QED  BY <1>2, <1>3

(* What the running function holds are values.                             *)
LEMMA HeldType ==
  ASSUME HeapTypeOK
  PROVE  Held \subseteq Value \cap Obj
<1>1. th[running] \in ThreadRec
  BY DEF HeapTypeOK, ContentsTypeOK
<1>2. \A i \in StackSlots : Reg(i) \in Value
  BY <1>1 DEF Reg, ThreadRec
<1>3. Tables \cup Udata \subseteq Value
  BY DEF Tables, Udata, UpVals, OfType, Value
<1>4. Registry \in Tables
  BY HeapAssumption DEF Tables, OfType
<1>5. th[running].gt \in Tables \cup {Nil} /\ th[running].gctm \subseteq Udata
  BY <1>1 DEF ThreadRec, TableOrNil
<1>6. Nil \in Value
  BY DEF Value
<1>. QED  BY <1>2, <1>3, <1>4, <1>5, <1>6 DEF Held

(* What it can read from what it holds are values.                         *)
LEMMA ReadableType ==
  ASSUME HeapTypeOK
  PROVE  Readable \subseteq Value
<1>1. Nil \in Value /\ TableOrNil \subseteq Value
  BY DEF Value, TableOrNil, Tables, UpVals, OfType
<1>2. ASSUME NEW o \in Held PROVE Fields(o) \cap (Obj \ Protos) \subseteq Value
  <2>1. o \in Obj
    BY HeldType
  <2>2. CASE tt[o] = "table"
    <3>1. tab[o] \in TableRec(o)
      BY <2>1, <2>2 DEF HeapTypeOK, ContentsTypeOK, Tables, OfType
    <3>2. tab[o].metatable \in Value /\ \A s \in ArraySlots[o] : tab[o].array[s] \in Value
      BY <1>1, <3>1 DEF TableRec
    <3>3. \A s \in NodeSlots[o] : tab[o].node[s].key \in Key /\ tab[o].node[s].val \in Value
      BY <3>1 DEF TableRec
    <3>4. \A s \in NodeSlots[o] : tab[o].node[s].key \in Obj => tab[o].node[s].key \in Value
      BY <3>3, HeapAssumption DEF Key
    <3>. QED
      BY <2>2, <3>2, <3>3, <3>4 DEF Fields, Contents, ArrayVals, NodeKeys, NodeVals, FullNodes
  <2>3. CASE tt[o] = "function"
    <3>1. cl[o] \in ClosureRec(o)
      BY <2>1, <2>3 DEF HeapTypeOK, ContentsTypeOK, Closures, OfType
    <3>. QED
      BY <1>1, <2>3, <3>1, UpValueType DEF Fields, ClosureRec
  <2>4. CASE tt[o] = "cfunction"
    <3>1. cl[o] \in ClosureRec(o)
      BY <2>1, <2>4 DEF HeapTypeOK, ContentsTypeOK, Closures, OfType
    <3>2. cl[o].env \in Value /\ cl[o].upvalue \in Value /\ cl[o].p \in Protos \cup {Nil}
      BY <1>1, <2>4, <3>1 DEF ClosureRec
    <3>. QED
      BY <1>1, <2>4, <3>2 DEF Fields, Contents, NonTableRefs, ClosureRefs
  <2>5. CASE tt[o] = "userdata"
    <3>1. ud[o] \in UdataRec
      BY <2>1, <2>5 DEF HeapTypeOK, ContentsTypeOK, Udata, OfType
    <3>. QED
      BY <1>1, <2>5, <3>1 DEF Fields, Contents, NonTableRefs, UdataRec
  <2>6. CASE tt[o] = "thread"
    <3>1. th[o] \in ThreadRec
      BY <2>1, <2>6 DEF HeapTypeOK, ContentsTypeOK, Threads, OfType
    <3>. QED
      BY <1>1, <2>6, <3>1 DEF Fields, ThreadRec
  <2>7. CASE tt[o] \in {"string", "proto", "upval"}
    BY <2>7 DEF Fields
  <2>8. tt[o] \in Types
    BY <2>1, HeapAssumption
  <2>. QED  BY <2>2, <2>3, <2>4, <2>5, <2>6, <2>7, <2>8 DEF Types
<1>3. mt \in Value
  BY <1>1 DEF HeapTypeOK, ContentsTypeOK
<1>4. Held \subseteq Value
  BY HeldType
<1>. QED  BY <1>2, <1>3, <1>4 DEF Readable

-----------------------------------------------------------------------------
(* Colours and barriers.                                                   *)

(* Marking a set of objects keeps the types of the colours and gray list.  *)
LEMMA ColouredType ==
  ASSUME ColoursTypeOK, NEW S, S \subseteq Obj
  PROVE  /\ Coloured(S) \in [Obj -> Whites \cup {"gray", "black"}]
         /\ gray \cup Listed(S) \subseteq OfType(Traversable)
<1>1. \A o \in Obj : MarkColour(o) \in {"gray", "black"}
  BY DEF MarkColour
<1>2. Listed(S) \subseteq OfType(Traversable)
  BY ListedType
<1>. QED  BY <1>1, <1>2 DEF Coloured, ColoursTypeOK

(* luaC_barrierf leaves well-typed colours.                                *)
LEMMA BarrierForwardType ==
  ASSUME ColoursTypeOK, currentwhite \in Whites, NEW o, NEW v, NEW m,
         BarrierForward(o, v, m)
  PROVE  ColoursTypeOK'
<1>1. CASE UNCHANGED colours
  BY <1>1 DEF colours, ColoursTypeOK
<1>2. CASE MarkObjects({v}) /\ UNCHANGED grayagain
  <2>1. MarkSet({v}) \subseteq Obj
    BY MarkSetType
  <2>. QED  BY <1>2, <2>1, ColouredType DEF MarkObjects, ColoursTypeOK
<1>3. CASE /\ marked' = [marked EXCEPT ![o] = currentwhite]
           /\ UNCHANGED <<gray, grayagain>>
  BY <1>3 DEF ColoursTypeOK
<1>. QED  BY <1>1, <1>2, <1>3 DEF BarrierForward

(* So does luaC_barrierback.                                               *)
LEMMA BarrierBackType ==
  ASSUME ColoursTypeOK, NEW t \in Tables, NEW S, NEW m,
         BarrierBack(t, S, m)
  PROVE  ColoursTypeOK'
<1>1. t \in OfType(Traversable)
  BY DEF Tables, OfType, Traversable
<1>. QED  BY <1>1 DEF BarrierBack, colours, ColoursTypeOK

-----------------------------------------------------------------------------
(* Type correctness. TypeOK is not inductive: the bucket that SweepString  *)
(* leaves behind could run past the end of strt.                           *)

TypeInv == TypeOK /\ (gcstate = "sweepstring" => sweepstrgc < NBuckets)

(* lua_newstate establishes it.                                            *)
LEMMA InitType == Init => TypeInv
<1>. SUFFICES ASSUME Init PROVE TypeInv
  OBVIOUS
<1>. USE DEF Init, HeapInit, CollectorInit
<1>1. ColoursTypeOK
  BY DEF ColoursTypeOK, Whites
<1>2. Nil \in Value /\ Nil \in TableOrNil /\ Nil \in Key
  BY DEF Value, TableOrNil, Key
<1>3. \A t \in Tables : EmptyTable(t) \in TableRec(t)
  BY <1>2 DEF EmptyTable, TableRec
<1>4. Globals \in Tables /\ Main \in Threads
  BY HeapAssumption DEF Tables, Threads, OfType
<1>5. \A gt \in TableOrNil : NewThreadRec(gt) \in ThreadRec
  BY <1>2 DEF NewThreadRec, ThreadRec
<1>6. NoUpVal \in UpValRec /\ NoUdata \in UdataRec /\ NoConsts \in [ConstSlots -> Value]
  BY <1>2 DEF NoUpVal, UpValRec, NoUdata, UdataRec, NoConsts
<1>7. \A c \in Closures : NoClosure \in ClosureRec(c)
  BY <1>2 DEF NoClosure, ClosureRec
<1>8. th \in [Threads -> ThreadRec]
  BY <1>2, <1>4, <1>5 DEF TableOrNil
<1>9. ContentsTypeOK
  <2>1. \A u \in UpVals : uv[u].owner = Nil
    BY DEF NoUpVal
  <2>. QED  BY <1>2, <1>3, <1>6, <1>7, <1>8, <2>1 DEF ContentsTypeOK
<1>10. HeapTypeOK
  BY <1>1, <1>4, <1>9 DEF HeapTypeOK, Lists, Whites
<1>11. CollectorTypeOK
  <2>1. sweepstrgc \in 0 .. NBuckets
    BY CollectorAssumption
  <2>2. fullgc \in BOOLEAN
    OBVIOUS
  <2>. QED  BY <2>1, <2>2 DEF CollectorTypeOK, GCStates
<1>12. gcstate # "sweepstring"
  OBVIOUS
<1>. QED  BY <1>10, <1>11, <1>12 DEF TypeInv, TypeOK

(* Writing a value into a register of any thread keeps the type of th.     *)
LEMMA StackUpdate ==
  ASSUME NEW t \in [Threads -> ThreadRec], NEW h, NEW i, NEW v \in Value
  PROVE  [t EXCEPT ![h].stack[i] = v] \in [Threads -> ThreadRec]
BY DEF ThreadRec

(* The same, of the step that does it.                                     *)
LEMMA StackType ==
  ASSUME ContentsTypeOK, NEW h, NEW i, NEW v \in Value,
         th' = [th EXCEPT ![h].stack[i] = v]
  PROVE  th' \in [Threads -> ThreadRec]
BY StackUpdate DEF ContentsTypeOK

(* Allocated objects get a list and the current white.                     *)
LEMMA LinkType ==
  ASSUME HeapTypeOK, NEW o, NEW l \in Lists, Link(o, l)
  PROVE  list' \in [Obj -> Lists] /\ ColoursTypeOK'
BY DEF Link, HeapTypeOK, ColoursTypeOK

(* luaS_newlstr returns a string of the current white, or one that is      *)
(* marked.                                                                 *)
LEMMA NewStringType ==
  ASSUME HeapTypeOK, NEW s \in Strings, NEW i \in StackSlots, NewString(s, i)
  PROVE  list' \in [Obj -> Lists] /\ ColoursTypeOK'
<1>1. CASE Link(s, "strt")
  BY <1>1, LinkType DEF Lists
<1>2. CASE /\ marked' = [marked EXCEPT ![s] = Revived(@)]
           /\ UNCHANGED <<list, gray, grayagain>>
  <2>1. Revived(marked[s]) \in Whites \cup {"gray", "black"}
    BY DEF Revived, HeapTypeOK, ColoursTypeOK, Strings, OfType
  <2>. QED  BY <1>2, <2>1 DEF HeapTypeOK, ColoursTypeOK
<1>. QED  BY <1>1, <1>2 DEF NewString

(* Loads.                                                                  *)
LEMMA LoadType ==
  ASSUME HeapTypeOK, NEW i \in StackSlots, NEW v \in Readable \cup {Nil}, Load(i, v),
         UNCHANGED gcvars
  PROVE  HeapTypeOK'
<1>1. v \in Value
  BY ReadableType DEF Value
<1>2. th' \in [Threads -> ThreadRec]
  BY <1>1, StackType DEF Load, SetReg, HeapTypeOK
<1>3. ContentsTypeOK'
  BY <1>2 DEF Load, HeapTypeOK, ContentsTypeOK
<1>. QED  BY <1>3 DEF Load, gcvars, HeapTypeOK, ColoursTypeOK, colours

(* luaF_close.                                                             *)
LEMMA CloseUpvalsType ==
  ASSUME HeapTypeOK, NEW level \in StackSlots, CloseUpvals(level), UNCHANGED gcvars
  PROVE  HeapTypeOK'
<1>. DEFINE closed == {u \in OpenUpvals(running) : uv[u].level >= level}
            dead   == {u \in closed : isdead(u)}
            kept   == closed \ dead
            grays  == {u \in kept : isgray(u)}
            found  == MarkedOnClose(grays)
<1>1. found \subseteq Obj
  BY MarkSetType DEF MarkedOnClose
<1>2. gray' = gray \cup Listed(found) /\ grayagain' = grayagain
  BY DEF CloseUpvals
<1>3. \A o \in Obj : Coloured(found)[o] \in Whites \cup {"gray", "black"}
  BY <1>1, ColouredType DEF HeapTypeOK
<1>4. marked' = [o \in Obj |-> IF o \in dead THEN "white0"
                               ELSE IF o \in grays
                               THEN IF Propagating THEN "black" ELSE currentwhite
                               ELSE Coloured(found)[o]]
  BY DEF CloseUpvals
<1>5. ColoursTypeOK'
  <2>1. marked' \in [Obj -> Whites \cup {"gray", "black"}]
    BY <1>3, <1>4 DEF HeapTypeOK, Whites
  <2>2. Listed(found) \subseteq OfType(Traversable)
    BY <1>1, ListedType
  <2>. QED  BY <1>2, <2>1, <2>2 DEF ColoursTypeOK, HeapTypeOK
<1>6. list' \in [Obj -> Lists]
  BY DEF CloseUpvals, HeapTypeOK, Lists
<1>7. uv' = [u \in UpVals |-> IF u \in dead THEN NoUpVal
                              ELSE IF u \in kept THEN [NoUpVal EXCEPT !.value = UpValue(u)]
                              ELSE uv[u]]
  BY DEF CloseUpvals
<1>8. Nil \in Value
  BY DEF Value
<1>9. \A u \in UpVals : [NoUpVal EXCEPT !.value = UpValue(u)] \in UpValRec
  BY <1>8, UpValueType DEF NoUpVal, UpValRec
<1>10. NoUpVal \in UpValRec
  BY <1>8 DEF NoUpVal, UpValRec
<1>11. /\ uv' \in [UpVals -> UpValRec]
       /\ \A u \in UpVals : uv'[u].owner # Nil => uv'[u].level \in StackSlots
  BY <1>7, <1>9, <1>10 DEF NoUpVal, HeapTypeOK, ContentsTypeOK
<1>12. ContentsTypeOK'
  BY <1>11 DEF CloseUpvals, HeapTypeOK, ContentsTypeOK
<1>. QED  BY <1>5, <1>6, <1>12 DEF CloseUpvals, gcvars, HeapTypeOK

(* Allocations.                                                            *)
LEMMA AllocationsType ==
  ASSUME HeapTypeOK, Allocations, UNCHANGED gcvars
  PROVE  HeapTypeOK'
<1>1. PICK i \in StackSlots :
         \/ \E t \in Tables : NewTable(t, i)
         \/ \E u \in Udata, e \in Held \cap Envs : NewUdata(u, e, i)
         \/ \E h \in Threads : NewThread(h, i)
         \/ \E s \in Strings : NewString(s, i)
         \/ \E c \in CClosures, e \in Held \cap Envs, v \in Held \cup {Nil} :
              NewCClosure(c, e, v, i)
         \/ \E f \in Held \cap LClosures : \E c \in LClosures, p \in NestedProtos(f) :
              \/ ShareUpVal(c, f, p, i)
              \/ \E u \in UpVals, j \in StackSlots : Capture(c, f, p, u, j, i)
  BY DEF Allocations
<1>2. Held \subseteq Value /\ Nil \in Value
  BY HeldType DEF Value
<1>3. Envs \subseteq TableOrNil /\ Nil \in TableOrNil
  BY ProgramAssumption DEF TableOrNil
<1>4. Tables \cup Udata \cup Threads \cup Strings \cup Closures \subseteq Value
  BY DEF Tables, Udata, Threads, Strings, Closures, UpVals, OfType, Value
<1>5. ASSUME NEW t \in Tables, NewTable(t, i)
      PROVE  HeapTypeOK'
  <2>1. th' \in [Threads -> ThreadRec]
    BY <1>4, <1>5, StackType DEF NewTable, SetReg, HeapTypeOK
  <2>2. ContentsTypeOK'
    BY <1>5, <2>1 DEF NewTable, HeapTypeOK, ContentsTypeOK
  <2>3. list' \in [Obj -> Lists] /\ ColoursTypeOK'
    BY <1>5, LinkType DEF NewTable, Lists
  <2>. QED  BY <1>5, <2>2, <2>3 DEF NewTable, gcvars, HeapTypeOK
<1>6. ASSUME NEW u \in Udata, NEW e \in Held \cap Envs, NewUdata(u, e, i)
      PROVE  HeapTypeOK'
  <2>1. th' \in [Threads -> ThreadRec]
    BY <1>4, <1>6, StackType DEF NewUdata, SetReg, HeapTypeOK
  <2>2. [metatable |-> Nil, env |-> e] \in UdataRec
    BY <1>3 DEF UdataRec
  <2>3. ContentsTypeOK'
    BY <1>6, <2>1, <2>2 DEF NewUdata, HeapTypeOK, ContentsTypeOK
  <2>4. list' \in [Obj -> Lists] /\ ColoursTypeOK'
    BY <1>6, LinkType DEF NewUdata, Lists
  <2>. QED  BY <1>6, <2>3, <2>4 DEF NewUdata, gcvars, HeapTypeOK
<1>7. ASSUME NEW h \in Threads, NewThread(h, i)
      PROVE  HeapTypeOK'
  <2>1. th[running].gt \in TableOrNil
    BY DEF HeapTypeOK, ContentsTypeOK, ThreadRec
  <2>2. NewThreadRec(th[running].gt) \in ThreadRec
    BY <1>2, <2>1 DEF NewThreadRec, ThreadRec
  <2>3. [th EXCEPT ![h] = NewThreadRec(th[running].gt)] \in [Threads -> ThreadRec]
    BY <2>2 DEF HeapTypeOK, ContentsTypeOK
  <2>4. th' = [[th EXCEPT ![h] = NewThreadRec(th[running].gt)]
                 EXCEPT ![running].stack[i] = h]
    BY <1>7 DEF NewThread
  <2>5. th' \in [Threads -> ThreadRec]
    BY <1>4, <2>3, <2>4, StackUpdate
  <2>6. ContentsTypeOK'
    BY <1>7, <2>5 DEF NewThread, HeapTypeOK, ContentsTypeOK
  <2>7. list' \in [Obj -> Lists] /\ ColoursTypeOK'
    BY <1>7, LinkType DEF NewThread, Lists
  <2>. QED  BY <1>7, <2>6, <2>7 DEF NewThread, gcvars, HeapTypeOK
<1>8. ASSUME NEW s \in Strings, NewString(s, i)
      PROVE  HeapTypeOK'
  <2>1. th' \in [Threads -> ThreadRec]
    BY <1>4, <1>8, StackType DEF NewString, SetReg, HeapTypeOK
  <2>2. ContentsTypeOK'
    BY <1>8, <2>1 DEF NewString, HeapTypeOK, ContentsTypeOK
  <2>3. list' \in [Obj -> Lists] /\ ColoursTypeOK'
    BY <1>8, NewStringType
  <2>. QED  BY <1>8, <2>2, <2>3 DEF NewString, gcvars, HeapTypeOK
<1>9. ASSUME NEW c \in CClosures, NEW e \in Held \cap Envs, NEW v \in Held \cup {Nil},
             NewCClosure(c, e, v, i)
      PROVE  HeapTypeOK'
  <2>1. c \in Closures /\ tt[c] = "cfunction"
    BY DEF CClosures, Closures, OfType
  <2>2. th' \in [Threads -> ThreadRec]
    BY <1>4, <1>9, <2>1, StackType DEF NewCClosure, SetReg, HeapTypeOK
  <2>3. [env |-> e, p |-> Nil, upvalue |-> v] \in ClosureRec(c)
    BY <1>2, <1>3, <2>1 DEF ClosureRec
  <2>4. ContentsTypeOK'
    BY <1>9, <2>2, <2>3 DEF NewCClosure, HeapTypeOK, ContentsTypeOK
  <2>5. list' \in [Obj -> Lists] /\ ColoursTypeOK'
    BY <1>9, LinkType DEF NewCClosure, Lists
  <2>. QED  BY <1>9, <2>4, <2>5 DEF NewCClosure, gcvars, HeapTypeOK
<1>10. ASSUME NEW f \in Held \cap LClosures, NEW c \in LClosures, NEW p \in NestedProtos(f),
              \/ ShareUpVal(c, f, p, i)
              \/ \E u \in UpVals, j \in StackSlots : Capture(c, f, p, u, j, i)
       PROVE  HeapTypeOK'
  <2>1. /\ c \in Closures /\ f \in Closures /\ c \in Value
        /\ tt[c] = "function" /\ tt[f] = "function"
    BY <1>4 DEF LClosures, Closures, OfType
  <2>2. p \in Protos \cup {Nil}
    BY DEF NestedProtos
  <2>3. cl[f] \in ClosureRec(f)
    BY <2>1 DEF HeapTypeOK, ContentsTypeOK
  <2>4. CASE ShareUpVal(c, f, p, i)
    <3>1. th' \in [Threads -> ThreadRec]
      BY <2>1, <2>4, StackType DEF ShareUpVal, SetReg, HeapTypeOK
    <3>2. [env |-> cl[f].env, p |-> p, upvalue |-> cl[f].upvalue] \in ClosureRec(c)
      BY <2>1, <2>2, <2>3 DEF ClosureRec
    <3>3. ContentsTypeOK'
      BY <2>4, <3>1, <3>2 DEF ShareUpVal, HeapTypeOK, ContentsTypeOK
    <3>4. list' \in [Obj -> Lists] /\ ColoursTypeOK'
      BY <2>4, LinkType DEF ShareUpVal, Lists
    <3>. QED  BY <2>4, <3>3, <3>4 DEF ShareUpVal, gcvars, HeapTypeOK
  <2>5. ASSUME NEW u \in UpVals, NEW j \in StackSlots, Capture(c, f, p, u, j, i)
        PROVE  HeapTypeOK'
    <3>1. th' \in [Threads -> ThreadRec]
      BY <2>1, <2>5, StackType DEF Capture, SetReg, HeapTypeOK
    <3>2. [env |-> cl[f].env, p |-> p, upvalue |-> u] \in ClosureRec(c)
      BY <2>1, <2>2, <2>3 DEF ClosureRec
    <3>3. [owner |-> running, level |-> j, value |-> Nil] \in UpValRec
      BY <1>2 DEF UpValRec, HeapTypeOK
    <3>4. /\ uv' \in [UpVals -> UpValRec]
          /\ \A x \in UpVals : uv'[x].owner # Nil => uv'[x].level \in StackSlots
      BY <2>5, <3>3 DEF Capture, HeapTypeOK, ContentsTypeOK
    <3>5. ContentsTypeOK'
      BY <2>5, <3>1, <3>2, <3>4 DEF Capture, HeapTypeOK, ContentsTypeOK
    <3>6. list' \in [Obj -> Lists]
      BY <2>5 DEF Capture, HeapTypeOK, Lists
    <3>7. u \in Obj
      BY DEF UpVals, OfType
    <3>8. marked' \in [Obj -> Whites \cup {"gray", "black"}]
      <4>1. Revived(marked[u]) \in Whites \cup {"gray", "black"}
        BY <3>7 DEF Revived, HeapTypeOK, ColoursTypeOK
      <4>2. c # u
        BY <2>1 DEF UpVals, OfType
      <4>. QED  BY <2>5, <4>1, <4>2 DEF Capture, HeapTypeOK, ColoursTypeOK
    <3>. QED  BY <2>5, <3>5, <3>6, <3>8 DEF Capture, gcvars, HeapTypeOK, ColoursTypeOK
  <2>. QED  BY <1>10, <2>4, <2>5
<1>. QED  BY <1>1, <1>5, <1>6, <1>7, <1>8, <1>9, <1>10

(* The stores of tables.                                                   *)
LEMMA TableStoreType ==
  ASSUME HeapTypeOK, NEW t \in Held \cap Tables, NEW v \in Held \cup {Nil},
         UNCHANGED gcvars,
         \/ \E s \in ArraySlots[t] : SetArray(t, s, v)
         \/ \E s \in NodeSlots[t], k \in Held : SetNode(t, s, k, v)
         \/ v \in Metas[t] \cup {Nil} /\ SetTableMeta(t, v)
  PROVE  HeapTypeOK'
<1>1. Held \subseteq Value /\ Nil \in Value
  BY HeldType DEF Value
<1>2. tab[t] \in TableRec(t)
  BY DEF HeapTypeOK, ContentsTypeOK
<1>3. ASSUME NEW r \in TableRec(t), tab' = [tab EXCEPT ![t] = r],
             ColoursTypeOK', UNCHANGED <<ud, cl, pr, uv, th, mt, list, running>>
      PROVE  HeapTypeOK'
  <2>1. ContentsTypeOK'
    BY <1>3 DEF HeapTypeOK, ContentsTypeOK
  <2>. QED  BY <1>3, <2>1 DEF gcvars, HeapTypeOK
<1>4. ASSUME NEW s \in ArraySlots[t], SetArray(t, s, v)
      PROVE  HeapTypeOK'
  <2>1. [tab[t] EXCEPT !.array[s] = v] \in TableRec(t)
    BY <1>1, <1>2 DEF TableRec
  <2>2. tab' = [tab EXCEPT ![t] = [tab[t] EXCEPT !.array[s] = v]]
    BY <1>4 DEF SetArray
  <2>3. ColoursTypeOK'
    BY <1>4, BarrierBackType DEF SetArray, HeapTypeOK
  <2>. QED  BY <1>3, <1>4, <2>1, <2>2, <2>3 DEF SetArray
<1>5. ASSUME NEW s \in NodeSlots[t], NEW k \in Held, SetNode(t, s, k, v)
      PROVE  HeapTypeOK'
  <2>1. k \in Key
    BY <1>1 DEF Key
  <2>2. [tab[t] EXCEPT !.node[s] = [key |-> k, val |-> v]] \in TableRec(t)
    BY <1>1, <1>2, <2>1 DEF TableRec
  <2>3. tab' = [tab EXCEPT ![t] = [tab[t] EXCEPT !.node[s] = [key |-> k, val |-> v]]]
    BY <1>5 DEF SetNode
  <2>4. ColoursTypeOK'
    BY <1>5, BarrierBackType DEF SetNode, HeapTypeOK
  <2>. QED  BY <1>3, <1>5, <2>2, <2>3, <2>4 DEF SetNode
<1>6. ASSUME v \in Metas[t] \cup {Nil}, SetTableMeta(t, v)
      PROVE  HeapTypeOK'
  <2>1. v \in TableOrNil
    BY <1>6, ProgramAssumption DEF TableOrNil
  <2>2. [tab[t] EXCEPT !.metatable = v] \in TableRec(t)
    BY <1>2, <2>1 DEF TableRec
  <2>3. tab' = [tab EXCEPT ![t] = [tab[t] EXCEPT !.metatable = v]]
    BY <1>6 DEF SetTableMeta
  <2>4. ColoursTypeOK'
    BY <1>6, BarrierBackType DEF SetTableMeta, HeapTypeOK
  <2>. QED  BY <1>3, <1>6, <2>2, <2>3, <2>4 DEF SetTableMeta
<1>. QED  BY <1>4, <1>5, <1>6

(* Every other store.                                                      *)
LEMMA StoresType ==
  ASSUME HeapTypeOK, Stores, UNCHANGED gcvars
  PROVE  HeapTypeOK'
<1>1. PICK v \in Held \cup {Nil} :
         \/ \E t \in Held \cap Tables :
              \/ \E s \in ArraySlots[t] : SetArray(t, s, v)
              \/ \E s \in NodeSlots[t], k \in Held : SetNode(t, s, k, v)
              \/ v \in Metas[t] \cup {Nil} /\ SetTableMeta(t, v)
         \/ \E u \in Held \cap Udata :
              \/ v \in Metas[u] \cup {Nil} /\ SetUdataMeta(u, v)
              \/ v \in Envs /\ SetUdataEnv(u, v)
         \/ v \in Metas[Nil] \cup {Nil} /\ SetBasicMeta(v)
         \/ \E f \in Held \cap Closures : v \in Envs /\ SetClosureEnv(f, v)
         \/ \E h \in (Held \cap Threads) \cup {running} : v \in Envs /\ SetThreadEnv(h, v)
         \/ \E f \in Held \cap CClosures : SetCUpvalue(f, v)
         \/ \E f \in Held \cap LClosures : SetUpval(f, v)
  BY DEF Stores
<1>2. v \in Value
  BY HeldType DEF Value
<1>3. v \in Envs => v \in TableOrNil
  BY ProgramAssumption DEF TableOrNil
<1>4. ASSUME NEW u \in Held \cap Udata,
             \/ v \in Metas[u] \cup {Nil} /\ SetUdataMeta(u, v)
             \/ v \in Envs /\ SetUdataEnv(u, v)
      PROVE  HeapTypeOK'
  <2>1. v \in TableOrNil
    BY <1>3, <1>4, ProgramAssumption DEF TableOrNil
  <2>2. ColoursTypeOK'
    BY <1>4, BarrierForwardType DEF SetUdataMeta, SetUdataEnv, HeapTypeOK
  <2>3. ud' \in [Udata -> UdataRec]
    BY <1>4, <2>1 DEF SetUdataMeta, SetUdataEnv, HeapTypeOK, ContentsTypeOK, UdataRec
  <2>4. ContentsTypeOK'
    BY <1>4, <2>3 DEF SetUdataMeta, SetUdataEnv, HeapTypeOK, ContentsTypeOK
  <2>. QED  BY <1>4, <2>2, <2>4 DEF SetUdataMeta, SetUdataEnv, gcvars, HeapTypeOK
<1>5. ASSUME v \in Metas[Nil] \cup {Nil}, SetBasicMeta(v)
      PROVE  HeapTypeOK'
  <2>1. v \in TableOrNil
    BY <1>5, ProgramAssumption DEF TableOrNil
  <2>2. ContentsTypeOK'
    BY <1>5, <2>1 DEF SetBasicMeta, HeapTypeOK, ContentsTypeOK
  <2>. QED  BY <1>5, <2>2 DEF SetBasicMeta, gcvars, colours, HeapTypeOK, ColoursTypeOK
<1>6. ASSUME NEW f \in Held \cap Closures, v \in Envs, SetClosureEnv(f, v)
      PROVE  HeapTypeOK'
  <2>1. [cl[f] EXCEPT !.env = v] \in ClosureRec(f)
    BY <1>3, <1>6 DEF HeapTypeOK, ContentsTypeOK, ClosureRec
  <2>2. cl' = [cl EXCEPT ![f] = [cl[f] EXCEPT !.env = v]]
    BY <1>6 DEF SetClosureEnv
  <2>3. ContentsTypeOK'
    BY <1>6, <2>1, <2>2 DEF SetClosureEnv, HeapTypeOK, ContentsTypeOK
  <2>4. ColoursTypeOK'
    BY <1>6, BarrierForwardType DEF SetClosureEnv, HeapTypeOK
  <2>. QED  BY <1>6, <2>3, <2>4 DEF SetClosureEnv, gcvars, HeapTypeOK
<1>7. ASSUME NEW h \in (Held \cap Threads) \cup {running}, v \in Envs, SetThreadEnv(h, v)
      PROVE  HeapTypeOK'
  <2>1. th' \in [Threads -> ThreadRec]
    BY <1>3, <1>7 DEF SetThreadEnv, HeapTypeOK, ContentsTypeOK, ThreadRec
  <2>2. ContentsTypeOK'
    BY <1>7, <2>1 DEF SetThreadEnv, HeapTypeOK, ContentsTypeOK
  <2>3. ColoursTypeOK'
    BY <1>7, BarrierForwardType DEF SetThreadEnv, HeapTypeOK
  <2>. QED  BY <1>7, <2>2, <2>3 DEF SetThreadEnv, gcvars, HeapTypeOK
<1>8. ASSUME NEW f \in Held \cap CClosures, SetCUpvalue(f, v)
      PROVE  HeapTypeOK'
  <2>1. f \in Closures /\ tt[f] = "cfunction"
    BY DEF CClosures, Closures, OfType
  <2>2. [cl[f] EXCEPT !.upvalue = v] \in ClosureRec(f)
    BY <1>2, <2>1 DEF HeapTypeOK, ContentsTypeOK, ClosureRec
  <2>3. cl' = [cl EXCEPT ![f] = [cl[f] EXCEPT !.upvalue = v]]
    BY <1>8 DEF SetCUpvalue
  <2>4. ContentsTypeOK'
    BY <1>8, <2>2, <2>3 DEF SetCUpvalue, HeapTypeOK, ContentsTypeOK
  <2>5. ColoursTypeOK'
    BY <1>8, BarrierForwardType DEF SetCUpvalue, HeapTypeOK
  <2>. QED  BY <1>8, <2>4, <2>5 DEF SetCUpvalue, gcvars, HeapTypeOK
<1>9. ASSUME NEW f \in Held \cap LClosures, SetUpval(f, v)
      PROVE  HeapTypeOK'
  <2>. DEFINE u == cl[f].upvalue
  <2>1. ColoursTypeOK'
    BY <1>9, BarrierForwardType DEF SetUpval, HeapTypeOK
  <2>2. CASE IsOpen(u)
    <3>1. th' = [th EXCEPT ![uv[u].owner].stack[uv[u].level] = v] /\ uv' = uv
      BY <1>9, <2>2 DEF SetUpval
    <3>2. th' \in [Threads -> ThreadRec]
      BY <1>2, <3>1, StackType DEF HeapTypeOK
    <3>3. ContentsTypeOK'
      BY <1>9, <3>1, <3>2 DEF SetUpval, HeapTypeOK, ContentsTypeOK
    <3>. QED  BY <1>9, <2>1, <3>3 DEF SetUpval, HeapTypeOK, gcvars
  <2>3. CASE ~IsOpen(u)
    <3>1. uv' = [uv EXCEPT ![u].value = v] /\ th' = th
      BY <1>9, <2>3 DEF SetUpval
    <3>2. /\ uv' \in [UpVals -> UpValRec]
          /\ \A x \in UpVals : uv'[x].owner # Nil => uv'[x].level \in StackSlots
      BY ZenonT(40), <1>2, <3>1 DEF HeapTypeOK, ContentsTypeOK, UpValRec
    <3>3. ContentsTypeOK'
      BY <1>9, <3>1, <3>2 DEF SetUpval, HeapTypeOK, ContentsTypeOK
    <3>. QED  BY <1>9, <2>1, <3>3 DEF SetUpval, HeapTypeOK, gcvars
  <2>4. ContentsTypeOK' /\ UNCHANGED <<list, running>>
    BY <1>9, <2>2, <2>3 DEF SetUpval, HeapTypeOK
  <2>. QED  BY <2>1, <2>4 DEF gcvars, HeapTypeOK
<1>. QED  BY <1>1, <1>4, <1>5, <1>6, <1>7, <1>8, <1>9, TableStoreType

(* The fields __mode and __gc of a metatable.                              *)
LEMMA SetFieldsType ==
  ASSUME HeapTypeOK, SetFields, UNCHANGED gcvars
  PROVE  HeapTypeOK'
<1>1. PICK t \in Held \cap MetaTables :
         \/ \E mode \in Modes : SetMode(t, mode)
         \/ \E gc \in GCFields : SetGC(t, gc)
  BY DEF SetFields
<1>2. t \in Tables
  BY ProgramAssumption DEF MetaTables
<1>3. UNCHANGED <<ud, cl, pr, uv, th, mt, list, colours, running>>
  BY <1>1 DEF SetMode, SetGC
<1>4. PICK r \in TableRec(t) : tab' = [tab EXCEPT ![t] = r]
  <2>1. tab[t] \in TableRec(t)
    BY <1>2 DEF HeapTypeOK, ContentsTypeOK
  <2>2. ASSUME NEW mode \in Modes, SetMode(t, mode)
        PROVE  \E r \in TableRec(t) : tab' = [tab EXCEPT ![t] = r]
    <3>1. [tab[t] EXCEPT !.mode = mode] \in TableRec(t)
      BY <2>1, ProgramAssumption DEF TableRec
    <3>. QED  BY <2>2, <3>1 DEF SetMode
  <2>3. ASSUME NEW gc \in GCFields, SetGC(t, gc)
        PROVE  \E r \in TableRec(t) : tab' = [tab EXCEPT ![t] = r]
    <3>1. [tab[t] EXCEPT !.gc = gc] \in TableRec(t)
      BY <2>1, ProgramAssumption DEF TableRec
    <3>. QED  BY <2>3, <3>1 DEF SetGC
  <2>. QED  BY <1>1, <2>2, <2>3
<1>5. ContentsTypeOK'
  BY <1>2, <1>3, <1>4 DEF HeapTypeOK, ContentsTypeOK
<1>. QED  BY <1>3, <1>5 DEF colours, gcvars, HeapTypeOK, ColoursTypeOK

(* Loading a chunk.                                                        *)
LEMMA LoadingType ==
  ASSUME HeapTypeOK, Loading, UNCHANGED gcvars
  PROVE  HeapTypeOK'
<1>1. PICK i \in StackSlots :
         \/ \E p \in Protos : NewProto(p, i)
         \/ \E c \in LClosures : LoadChunk(c, i)
         \/ \E j \in StackSlots, n \in ConstSlots : AddConst(i, n, j)
  BY DEF Loading
<1>2. Protos \cup LClosures \subseteq Value
  BY DEF Protos, LClosures, UpVals, OfType, Value
<1>3. ASSUME NEW p \in Protos, NewProto(p, i)
      PROVE  HeapTypeOK'
  <2>1. th' \in [Threads -> ThreadRec]
    BY <1>2, <1>3, StackType DEF NewProto, SetReg, HeapTypeOK
  <2>2. ContentsTypeOK'
    BY <1>3, <2>1 DEF NewProto, HeapTypeOK, ContentsTypeOK
  <2>3. list' \in [Obj -> Lists] /\ ColoursTypeOK'
    BY <1>3, LinkType DEF NewProto, Lists
  <2>. QED  BY <1>3, <2>2, <2>3 DEF NewProto, gcvars, HeapTypeOK
<1>4. ASSUME NEW c \in LClosures, LoadChunk(c, i)
      PROVE  HeapTypeOK'
  <2>1. th' \in [Threads -> ThreadRec]
    BY <1>2, <1>4, StackType DEF LoadChunk, SetReg, HeapTypeOK
  <2>2. c \in Closures /\ tt[c] = "function"
    BY DEF LClosures, Closures, OfType
  <2>3. th[running].gt \in TableOrNil
    BY DEF HeapTypeOK, ContentsTypeOK, ThreadRec
  <2>4. [env |-> th[running].gt, p |-> Reg(i), upvalue |-> Nil] \in ClosureRec(c)
    BY <1>4, <2>2, <2>3 DEF LoadChunk, ClosureRec
  <2>5. ContentsTypeOK'
    BY <1>4, <2>1, <2>4 DEF LoadChunk, HeapTypeOK, ContentsTypeOK
  <2>6. list' \in [Obj -> Lists] /\ ColoursTypeOK'
    BY <1>4, LinkType DEF LoadChunk, Lists
  <2>. QED  BY <1>4, <2>5, <2>6 DEF LoadChunk, gcvars, HeapTypeOK
<1>5. ASSUME NEW j \in StackSlots, NEW n \in ConstSlots, AddConst(i, n, j)
      PROVE  HeapTypeOK'
  <2>1. Protos \cup Strings \subseteq Value
    BY DEF Protos, Strings, UpVals, OfType, Value
  <2>2. pr' \in [Protos -> [ConstSlots -> Value]]
    BY <1>5, <2>1 DEF AddConst, HeapTypeOK, ContentsTypeOK
  <2>3. ContentsTypeOK'
    BY <1>5, <2>2 DEF AddConst, HeapTypeOK, ContentsTypeOK
  <2>4. ColoursTypeOK'
    BY <1>5, BarrierForwardType DEF AddConst, HeapTypeOK
  <2>. QED  BY <1>5, <2>3, <2>4 DEF AddConst, gcvars, HeapTypeOK
<1>. QED  BY <1>1, <1>3, <1>4, <1>5

(* Coroutine switches.                                                     *)
LEMMA SwitchesType ==
  ASSUME HeapTypeOK, Switches, UNCHANGED gcvars
  PROVE  HeapTypeOK'
<1>1. PICK i \in StackSlots, j \in StackSlots, h \in Threads :
         Resume(h, i, j) \/ ResumeDead(h, i, j) \/ Yield(h, i, j)
  BY DEF Switches
<1>2. /\ th \in [Threads -> ThreadRec] /\ running \in Threads /\ Nil \in Value
      /\ Reg(i) \in Value /\ th[h].stack[j] \in Value
  BY DEF Reg, HeapTypeOK, ContentsTypeOK, ThreadRec, Value
<1>4. running' \in {h, running} /\ UNCHANGED <<tab, ud, cl, pr, uv, mt, list, colours>>
  BY <1>1 DEF Resume, ResumeDead, Yield
<1>5. th' \in [Threads -> ThreadRec]
  <2>1. CASE Resume(h, i, j)
    <3>1. PICK v \in {Reg(i), th[h].stack[j]} :
            th' = [th EXCEPT ![running].resuming = h, ![h].resumer = running, ![h].stack[j] = v]
      BY <2>1 DEF Resume
    <3>2. v \in Value /\ th' = [[th EXCEPT ![running].resuming = h, ![h].resumer = running]
                                EXCEPT ![h].stack[j] = v]
      BY <1>2, <3>1
    <3>3. [th EXCEPT ![running].resuming = h, ![h].resumer = running] \in [Threads -> ThreadRec]
      BY <1>2 DEF ThreadRec
    <3>. QED  BY <3>2, <3>3, StackUpdate
  <2>2. CASE Yield(h, i, j)
    <3>1. PICK v \in {Reg(i), th[h].stack[j]} :
            th' = [th EXCEPT ![running].resumer = Nil, ![h].resuming = Nil, ![h].stack[j] = v]
      BY <2>2 DEF Yield
    <3>2. v \in Value /\ th' = [[th EXCEPT ![running].resumer = Nil, ![h].resuming = Nil]
                                EXCEPT ![h].stack[j] = v]
      BY <1>2, <3>1
    <3>3. [th EXCEPT ![running].resumer = Nil, ![h].resuming = Nil] \in [Threads -> ThreadRec]
      BY <1>2 DEF ThreadRec
    <3>. QED  BY <3>2, <3>3, StackUpdate
  <2>3. CASE ResumeDead(h, i, j)
    <3>. DEFINE dropped == [n \in StackSlots |-> IF n >= i THEN Nil ELSE th[h].stack[n]]
    <3>1. th' = [[th EXCEPT ![h].stack = dropped] EXCEPT ![running].stack[j] = Nil]
      BY <1>2, <2>3 DEF ResumeDead
    <3>2. dropped \in [StackSlots -> Value]
      BY <1>2 DEF ThreadRec
    <3>3. [th EXCEPT ![h].stack = dropped] \in [Threads -> ThreadRec]
      <4>. HIDE DEF dropped
      <4>. QED  BY <1>2, <3>2 DEF ThreadRec
    <3>. HIDE DEF dropped
    <3>. QED  BY <1>2, <3>1, <3>3, StackUpdate
  <2>. QED  BY <1>1, <2>1, <2>2, <2>3
<1>6. ContentsTypeOK'
  BY <1>4, <1>5 DEF HeapTypeOK, ContentsTypeOK
<1>. QED  BY <1>2, <1>4, <1>6 DEF colours, gcvars, HeapTypeOK, ColoursTypeOK

(* A step of the program keeps the types of the heap, and does not touch   *)
(* the variables of the collector.                                         *)
LEMMA ProgramType ==
  ASSUME TypeInv, Program
  PROVE  TypeInv'
<1>1. HeapTypeOK /\ CollectorTypeOK
  BY DEF TypeInv, TypeOK
<1>2. UNCHANGED gcvars
  BY DEF Program
<1>3. HeapTypeOK'
  BY <1>1, <1>2, LoadType, CloseUpvalsType, AllocationsType, StoresType,
     SetFieldsType, LoadingType, SwitchesType DEF Program
<1>4. CollectorTypeOK'
  BY <1>1, <1>2 DEF gcvars, collector, CollectorTypeOK
<1>. QED  BY <1>2, <1>3, <1>4 DEF TypeInv, TypeOK, gcvars, collector

-----------------------------------------------------------------------------
(* The collector.                                                          *)

(* markroot leaves well-typed colours.                                     *)
LEMMA MarkRootType ==
  ASSUME TypeInv, MarkRoot, fullgc' \in BOOLEAN
  PROVE  TypeInv'
<1>. USE DEF TypeInv, TypeOK
<1>1. RootMarks \subseteq Obj
  BY MarkSetType DEF RootMarks
<1>2. ColoursTypeOK'
  BY <1>1, ColouredType, ListedType DEF MarkRoot, HeapTypeOK, ColoursTypeOK
<1>3. ContentsTypeOK'
  BY DEF MarkRoot, heap, HeapTypeOK, ContentsTypeOK
<1>4. HeapTypeOK'
  BY <1>2, <1>3 DEF MarkRoot, HeapTypeOK
<1>5. gcstate' = "propagate" /\ UNCHANGED <<sweepstrgc, unswept>>
  BY DEF MarkRoot
<1>6. CollectorTypeOK'
  BY <1>5 DEF CollectorTypeOK, GCStates
<1>7. gcstate' # "sweepstring"
  BY <1>5
<1>. QED  BY <1>4, <1>6, <1>7

(* A node that loses its dead key, and its value, keeps its type.          *)
LEMMA NodeType ==
  ASSUME NEW n \in [key : Key, val : Value], NEW t
  PROVE  /\ RemoveEntry(n) \in [key : Key, val : Value]
         /\ CleanedNode(t, n) \in [key : Key, val : Value]
BY DEF RemoveEntry, CleanedNode, Key, Value

(* A table keeps its type when it is traversed and when it is cleared.     *)
LEMMA ClearedType ==
  ASSUME NEW t, tab[t] \in TableRec(t), NEW marks, NEW fin
  PROVE  Cleaned(t) \in TableRec(t) /\ Cleared(t, marks, fin) \in TableRec(t)
<1>1. \A s \in NodeSlots[t] : tab[t].node[s] \in [key : Key, val : Value]
  BY DEF TableRec
<1>2. \A s \in ArraySlots[t] : tab[t].array[s] \in Value
  BY DEF TableRec
<1>3. Nil \in Value
  BY DEF Value
<1>4. Cleaned(t) \in TableRec(t)
  <2>1. \A s \in NodeSlots[t] : CleanedNode(t, tab[t].node[s]) \in [key : Key, val : Value]
    BY <1>1, NodeType
  <2>. QED  BY <2>1 DEF Cleaned, TableRec
<1>5. Cleared(t, marks, fin) \in TableRec(t)
  <2>. DEFINE A(s) == IF "v" \in Mode(t) /\ DeadValue(tab[t].array[s], marks, fin)
                      THEN Nil ELSE tab[t].array[s]
              N(s) == IF IsWeak(t) /\ DeadEntry(tab[t].node[s], marks, fin)
                      THEN RemoveEntry(tab[t].node[s]) ELSE CleanedNode(t, tab[t].node[s])
  <2>1. \A s \in NodeSlots[t] : N(s) \in [key : Key, val : Value]
    BY <1>1, NodeType
  <2>2. \A s \in ArraySlots[t] : A(s) \in Value
    BY <1>2, <1>3
  <2>3. Cleared(t, marks, fin) = [tab[t] EXCEPT !.array = [s \in ArraySlots[t] |-> A(s)],
                                                !.node  = [s \in NodeSlots[t] |-> N(s)]]
    BY DEF Cleared, TableRec
  <2>4. /\ [s \in ArraySlots[t] |-> A(s)] \in [ArraySlots[t] -> Value]
        /\ [s \in NodeSlots[t] |-> N(s)] \in [NodeSlots[t] -> [key : Key, val : Value]]
    BY <2>1, <2>2
  <2>. HIDE DEF A, N
  <2>. QED  BY <2>3, <2>4 DEF TableRec
<1>. QED  BY <1>4, <1>5

(* propagatemark.                                                          *)
LEMMA PropagateMarkType ==
  ASSUME TypeInv, NEW o \in gray, PropagateMark(o)
  PROVE  TypeInv'
<1>. USE DEF TypeInv, TypeOK
<1>. DEFINE found == MarkSet(Refs(o))
<1>1. found \subseteq Obj
  BY MarkSetType
<1>2. o \in Obj
  BY DEF HeapTypeOK, ColoursTypeOK, OfType
<1>3. TraversedColour(o) \in {"gray", "black"}
  BY DEF TraversedColour
<1>4. /\ Coloured(found) \in [Obj -> Whites \cup {"gray", "black"}]
      /\ Listed(found) \subseteq OfType(Traversable)
  BY <1>1, ColouredType, ListedType DEF HeapTypeOK
<1>5. /\ marked' = [Coloured(found) EXCEPT ![o] = TraversedColour(o)]
      /\ gray' = (gray \ {o}) \cup Listed(found)
      /\ grayagain' = grayagain \cup ({o} \cap Threads)
  BY DEF PropagateMark
<1>6. ColoursTypeOK'
  <2>1. marked' \in [Obj -> Whites \cup {"gray", "black"}]
    BY <1>3, <1>4, <1>5
  <2>2. Threads \subseteq OfType(Traversable)
    BY DEF Threads, OfType, Traversable
  <2>. QED  BY <1>4, <1>5, <2>1, <2>2 DEF HeapTypeOK, ColoursTypeOK
<1>7. weak' \subseteq Tables
  BY <1>2 DEF PropagateMark, HeapTypeOK, IsWeak, Tables, OfType
<1>8. tab' = [t \in Tables |-> IF t = o THEN Cleaned(t) ELSE tab[t]]
  BY DEF PropagateMark
<1>9. \A t \in Tables : tab'[t] \in TableRec(t)
  BY <1>8, ClearedType DEF HeapTypeOK, ContentsTypeOK
<1>10. ContentsTypeOK'
  BY <1>8, <1>9 DEF PropagateMark, HeapTypeOK, ContentsTypeOK
<1>11. HeapTypeOK'
  BY <1>6, <1>7, <1>10 DEF PropagateMark, HeapTypeOK
<1>12. UNCHANGED collector
  BY DEF PropagateMark
<1>. QED  BY <1>11, <1>12 DEF collector, CollectorTypeOK

(* atomic.                                                                 *)
LEMMA AtomicType ==
  ASSUME TypeInv, Atomic
  PROVE  TypeInv'
<1>. USE DEF TypeInv, TypeOK
<1>. DEFINE reached    == WhiteClosure(AtomicStart)
            sep        == Separated(reached)
            tofinalize == ToFinalize(sep)
            marks      == reached \cup
                          WhiteClosure(tofinalize \cup UNION {Refs(u) : u \in tofinalize})
            traversed  == Retraversed \cup Listed(marks)
            weaktabs   == {t \in traversed : IsWeak(t)}
            seen       == WhiteIn(UNION {SeenStrings(t, marks) : t \in weaktabs})
            colour(o)  == IF o \in tofinalize THEN "black"
                          ELSE IF o \in traversed THEN TraversedColour(o)
                          ELSE IF o \in marks THEN MarkColour(o)
                          ELSE IF o \in seen THEN "gray"
                          ELSE marked[o]
<1>1. /\ marked' = [o \in Obj |-> colour(o)]
      /\ list' = [o \in Obj |-> IF o \in tofinalize THEN "tmudata" ELSE list[o]]
      /\ finalized' = finalized \cup sep
      /\ tab' = [t \in Tables |-> IF t \in traversed
                                  THEN Cleared(t, marks, finalized \cup sep) ELSE tab[t]]
      /\ unswept' = {o \in Obj : list[o] = "rootgc"} \ tofinalize
  BY DEF Atomic
<1>2. sep \subseteq Udata
  BY DEF Separated
<1>. HIDE DEF reached, sep, tofinalize, marks, traversed, seen
<1>3. /\ gray' = {} /\ grayagain' = {} /\ weak' = {}
      /\ currentwhite' = OtherWhite(currentwhite)
      /\ sweepstrgc' = 0
      /\ gcstate' = "sweepstring"
      /\ UNCHANGED <<ud, cl, pr, uv, th, mt, running, fullgc>>
  BY DEF Atomic
<1>4. \A o \in Obj : colour(o) \in Whites \cup {"gray", "black"}
  <2>1. \A o \in Obj : TraversedColour(o) \in {"gray", "black"} /\ MarkColour(o) \in {"gray", "black"}
    BY DEF TraversedColour, MarkColour
  <2>2. \A o \in Obj : marked[o] \in Whites \cup {"gray", "black"}
    BY DEF HeapTypeOK, ColoursTypeOK
  <2>. QED  BY <2>1, <2>2
<1>. HIDE DEF colour
<1>5. ColoursTypeOK'
  BY <1>1, <1>3, <1>4 DEF ColoursTypeOK, Whites
<1>6. \A t \in Tables : tab'[t] \in TableRec(t)
  BY <1>1, ClearedType DEF HeapTypeOK, ContentsTypeOK
<1>7. ContentsTypeOK'
  BY <1>1, <1>3, <1>6 DEF HeapTypeOK, ContentsTypeOK
<1>8. list' \in [Obj -> Lists]
  BY <1>1 DEF HeapTypeOK, Lists
<1>9. HeapTypeOK'
  <2>1. finalized' \subseteq Udata
    BY <1>1, <1>2 DEF HeapTypeOK
  <2>2. currentwhite' \in Whites
    BY <1>3 DEF HeapTypeOK, OtherWhite, Whites
  <2>. QED  BY <1>3, <1>5, <1>7, <1>8, <2>1, <2>2 DEF HeapTypeOK
<1>10. sweepstrgc' \in 0 .. NBuckets /\ sweepstrgc' < NBuckets
  BY <1>3, CollectorAssumption
<1>11. unswept' \subseteq Obj
  BY <1>1
<1>12. CollectorTypeOK'
  BY <1>3, <1>10, <1>11 DEF CollectorTypeOK, GCStates
<1>. QED  BY <1>9, <1>10, <1>12

(* Sweeping any objects leaves well-typed colours.                         *)
LEMMA SweptType ==
  ASSUME HeapTypeOK, NEW S, Swept(S), UNCHANGED <<gray, grayagain>>
  PROVE  ColoursTypeOK' /\ finalized' \subseteq Udata
BY DEF Swept, HeapTypeOK, ColoursTypeOK, Whites

(* sweepwholelist on a bucket of strt.                                     *)
LEMMA SweepStringType ==
  ASSUME TypeInv, SweepString
  PROVE  TypeInv'
<1>. USE DEF TypeInv, TypeOK
<1>1. ColoursTypeOK' /\ finalized' \subseteq Udata
  BY SweptType DEF SweepString
<1>2. list' \in [Obj -> Lists]
  BY DEF SweepString, HeapTypeOK, Lists
<1>3. HeapTypeOK'
  <2>1. ContentsTypeOK'
    BY DEF SweepString, heap, HeapTypeOK, ContentsTypeOK
  <2>. QED  BY <1>1, <1>2, <2>1 DEF SweepString, HeapTypeOK
<1>4. /\ gcstate = "sweepstring" /\ sweepstrgc' = sweepstrgc + 1
      /\ gcstate' = IF sweepstrgc + 1 >= NBuckets THEN "sweep" ELSE gcstate
      /\ UNCHANGED <<unswept, fullgc>>
  BY DEF SweepString
<1>5. sweepstrgc \in Nat /\ sweepstrgc < NBuckets /\ NBuckets \in Nat
  BY <1>4, CollectorAssumption DEF CollectorTypeOK
<1>6. sweepstrgc' \in 0 .. NBuckets
  BY <1>4, <1>5
<1>7. gcstate' = "sweepstring" => sweepstrgc' < NBuckets
  BY <1>4, <1>5
<1>8. CollectorTypeOK'
  BY <1>4, <1>6 DEF CollectorTypeOK, GCStates
<1>. QED  BY <1>3, <1>7, <1>8

(* sweeplist on the root list, and luaE_freethread.                        *)
LEMMA SweepType ==
  ASSUME TypeInv, NEW S \in SUBSET unswept, Sweep(S)
  PROVE  TypeInv'
<1>. USE DEF TypeInv, TypeOK
<1>. DEFINE all     == S \cup UNION {OpenUpvals(h) : h \in S \cap Threads}
            dead    == {o \in all : isdead(o)}
            orphans == (UNION {OpenUpvals(h) : h \in dead \cap Threads}) \ dead
<1>1. /\ Swept(all)
      /\ list' = [o \in Obj |-> IF o \in dead THEN "free"
                                ELSE IF o \in orphans THEN "rootgc" ELSE list[o]]
      /\ tab' = [t \in Tables |-> IF t \in dead THEN EmptyTable(t) ELSE tab[t]]
      /\ ud' = [u \in Udata |-> IF u \in dead THEN NoUdata ELSE ud[u]]
      /\ cl' = [c \in Closures |-> IF c \in dead THEN NoClosure ELSE cl[c]]
      /\ pr' = [p \in Protos |-> IF p \in dead THEN NoConsts ELSE pr[p]]
      /\ th' = [h \in Threads |-> IF h \in dead THEN NewThreadRec(Nil) ELSE th[h]]
      /\ uv' = [u \in UpVals |->
                  IF u \in dead THEN NoUpVal
                  ELSE IF u \in orphans THEN [NoUpVal EXCEPT !.value = UpValue(u)]
                  ELSE uv[u]]
  BY DEF Sweep
<1>. HIDE DEF all, dead, orphans
<1>2. /\ unswept' = unswept \ S
      /\ gcstate' \in {"finalize", gcstate} /\ gcstate = "sweep"
      /\ UNCHANGED <<mt, currentwhite, gray, grayagain, weak, running, sweepstrgc, fullgc>>
  BY DEF Sweep
<1>3. ColoursTypeOK' /\ finalized' \subseteq Udata
  BY <1>1, <1>2, SweptType
<1>4. Nil \in Value /\ Nil \in TableOrNil /\ Nil \in Key
  BY DEF Value, TableOrNil, Key
<1>5. \A t \in Tables : tab'[t] \in TableRec(t)
  <2>1. \A t \in Tables : EmptyTable(t) \in TableRec(t)
    BY <1>4 DEF EmptyTable, TableRec
  <2>. QED  BY <1>1, <2>1 DEF HeapTypeOK, ContentsTypeOK
<1>6. ud' \in [Udata -> UdataRec] /\ pr' \in [Protos -> [ConstSlots -> Value]]
  BY <1>1, <1>4 DEF NoUdata, UdataRec, NoConsts, HeapTypeOK, ContentsTypeOK
<1>7. \A c \in Closures : cl'[c] \in ClosureRec(c)
  <2>1. \A c \in Closures : NoClosure \in ClosureRec(c)
    BY <1>4 DEF NoClosure, ClosureRec
  <2>. QED  BY <1>1, <2>1 DEF HeapTypeOK, ContentsTypeOK
<1>8. th' \in [Threads -> ThreadRec]
  <2>1. NewThreadRec(Nil) \in ThreadRec
    BY <1>4 DEF NewThreadRec, ThreadRec
  <2>. QED  BY <1>1, <2>1 DEF HeapTypeOK, ContentsTypeOK
<1>9. /\ uv' \in [UpVals -> UpValRec]
      /\ \A u \in UpVals : uv'[u].owner # Nil => uv'[u].level \in StackSlots
  <2>1. NoUpVal \in UpValRec
    BY <1>4 DEF NoUpVal, UpValRec
  <2>2. \A u \in UpVals : [NoUpVal EXCEPT !.value = UpValue(u)] \in UpValRec
    BY <1>4, UpValueType DEF NoUpVal, UpValRec
  <2>. QED  BY <1>1, <2>1, <2>2 DEF NoUpVal, HeapTypeOK, ContentsTypeOK
<1>10. ContentsTypeOK'
  BY <1>1, <1>2, <1>5, <1>6, <1>7, <1>8, <1>9 DEF HeapTypeOK, ContentsTypeOK
<1>11. list' \in [Obj -> Lists]
  BY <1>1 DEF HeapTypeOK, Lists
<1>12. HeapTypeOK'
  BY <1>2, <1>3, <1>10, <1>11 DEF HeapTypeOK
<1>13. CollectorTypeOK'
  BY <1>2 DEF CollectorTypeOK, GCStates
<1>14. gcstate' # "sweepstring"
  BY <1>2
<1>. QED  BY <1>12, <1>13, <1>14

(* GCTM and the return of a finalizer.                                     *)
LEMMA FinalizersType ==
  ASSUME TypeInv, NEW u \in Udata, GCTM(u) \/ FinalizerReturn(u)
  PROVE  TypeInv'
<1>. USE DEF TypeInv, TypeOK
<1>1. UNCHANGED <<tab, ud, cl, pr, uv, mt, finalized, currentwhite,
                  gray, grayagain, weak, running, collector>>
  BY DEF GCTM, FinalizerReturn, colours
<1>2. th' \in [Threads -> ThreadRec]
  <2>1. th \in [Threads -> ThreadRec] /\ running \in Threads
    BY DEF HeapTypeOK, ContentsTypeOK
  <2>2. PICK X \in SUBSET Udata : th' = [th EXCEPT ![running].gctm = X]
    <3>1. th[running].gctm \subseteq Udata
      BY <2>1 DEF ThreadRec
    <3>. QED  BY <3>1 DEF GCTM, FinalizerReturn
  <2>. QED  BY <2>1, <2>2 DEF ThreadRec
<1>3. ContentsTypeOK'
  BY <1>1, <1>2 DEF HeapTypeOK, ContentsTypeOK
<1>4. list' \in [Obj -> Lists] /\ marked' \in [Obj -> Whites \cup {"gray", "black"}]
  BY DEF GCTM, FinalizerReturn, colours, HeapTypeOK, ColoursTypeOK, Lists
<1>5. HeapTypeOK'
  BY <1>1, <1>3, <1>4 DEF HeapTypeOK, ColoursTypeOK
<1>. QED  BY <1>1, <1>5 DEF collector, CollectorTypeOK

(* The end of a cycle, and the beginning of luaC_fullgc.                   *)
LEMMA EndCycleType ==
  ASSUME TypeInv, EndCycle \/ FullGC
  PROVE  TypeInv'
<1>. USE DEF TypeInv, TypeOK
<1>1. /\ UNCHANGED <<heap, list, marked, finalized, currentwhite, running>>
      /\ weak' \in {weak, {}} /\ gray' \in {gray, {}} /\ grayagain' \in {grayagain, {}}
  BY DEF EndCycle, FullGC, colours
<1>2. HeapTypeOK'
  <2>1. ContentsTypeOK' /\ ColoursTypeOK'
    BY <1>1 DEF heap, HeapTypeOK, ContentsTypeOK, ColoursTypeOK
  <2>. QED  BY <1>1, <2>1 DEF HeapTypeOK
<1>3. fullgc' \in BOOLEAN
  BY DEF EndCycle, FullGC, CollectorTypeOK
<1>4. /\ gcstate' \in GCStates
      /\ unswept' \subseteq Obj
      /\ sweepstrgc' \in {0, sweepstrgc}
      /\ gcstate' = "sweepstring" => sweepstrgc' = 0 \/ UNCHANGED <<gcstate, sweepstrgc>>
  BY DEF EndCycle, FullGC, CollectorTypeOK, GCStates
<1>5. /\ sweepstrgc' \in 0 .. NBuckets
      /\ gcstate' = "sweepstring" => sweepstrgc' < NBuckets
  BY <1>4, CollectorAssumption DEF CollectorTypeOK
<1>6. CollectorTypeOK'
  BY <1>3, <1>4, <1>5 DEF CollectorTypeOK
<1>. QED  BY <1>2, <1>5, <1>6

-----------------------------------------------------------------------------
(* Every step of the program, of the collector and of a full collection    *)
(* keeps TypeInv.                                                          *)
LEMMA NextType == TypeInv /\ [Next]_vars => TypeInv'
<1>. SUFFICES ASSUME TypeInv, [Next]_vars PROVE TypeInv'
  OBVIOUS
<1>1. CASE Program
  BY <1>1, ProgramType
<1>2. CASE CollectorStep
  <2>1. CASE StartCycle
    <3>1. fullgc' \in BOOLEAN
      BY <2>1 DEF StartCycle, TypeInv, TypeOK, CollectorTypeOK
    <3>. QED  BY <2>1, <3>1, MarkRootType DEF StartCycle
  <2>2. CASE \E o \in gray : PropagateMark(o)
    BY <2>2, PropagateMarkType
  <2>3. CASE Atomic
    BY <2>3, AtomicType
  <2>4. CASE SweepString
    BY <2>4, SweepStringType
  <2>5. CASE \E S \in SUBSET unswept : Sweep(S)
    BY <2>5, SweepType
  <2>6. CASE \E u \in Udata : GCTM(u)
    BY <2>6, FinalizersType
  <2>7. CASE EndCycle
    BY <2>7, EndCycleType
  <2>8. CASE FullMark
    <3>1. fullgc' \in BOOLEAN
      BY <2>8 DEF FullMark
    <3>. QED  BY <2>8, <3>1, MarkRootType DEF FullMark
  <2>. QED  BY <1>2, <2>1, <2>2, <2>3, <2>4, <2>5, <2>6, <2>7, <2>8 DEF CollectorStep
<1>3. CASE \E u \in Udata : FinalizerReturn(u)
  BY <1>3, FinalizersType
<1>4. CASE FullGC
  BY <1>4, EndCycleType
<1>5. CASE UNCHANGED vars
  <2>1. HeapTypeOK'
    <3>1. ContentsTypeOK' /\ ColoursTypeOK'
      BY <1>5 DEF TypeInv, TypeOK, vars, heap, colours, HeapTypeOK, ContentsTypeOK, ColoursTypeOK
    <3>. QED  BY <1>5, <3>1 DEF TypeInv, TypeOK, vars, HeapTypeOK
  <2>2. CollectorTypeOK' /\ UNCHANGED <<gcstate, sweepstrgc>>
    BY <1>5 DEF TypeInv, TypeOK, vars, collector, CollectorTypeOK
  <2>. QED  BY <2>1, <2>2 DEF TypeInv, TypeOK
<1>. QED  BY <1>1, <1>2, <1>3, <1>4, <1>5 DEF Next, Collect

(* Whatever the program does and wherever the collector stands, the fields *)
(* of every object hold what the headers (lobject.h, lstate.h) let them    *)
(* hold: no store confuses a prototype, an upvalue, a metatable or a value.*)
THEOREM TypeCorrect == Spec => []TypeOK
<1>1. TypeInv => TypeOK
  BY DEF TypeInv
<1>. QED  BY <1>1, InitType, NextType, PTL DEF Spec

-----------------------------------------------------------------------------
(***************************************************************************)
(* Colours and lists.  A step of the program does one of a few things to   *)
(* the colour of an object; ProgramColours says which, and the invariants  *)
(* below follow from that and from what each step of the collector does.   *)
(***************************************************************************)

(* What a step of the program may do to the object o.                      *)
SameLists(o) == (o \in gray' <=> o \in gray) /\ (o \in grayagain' <=> o \in grayagain)

Kept(o) == list'[o] = list[o] /\ marked'[o] = marked[o] /\ SameLists(o)

Created(o) ==
  /\ list[o] = "free"
  /\ list'[o] = IF tt[o] = "string" THEN "strt"
                ELSE IF tt[o] = "upval" THEN "openupval" ELSE "rootgc"
  /\ marked'[o] = currentwhite
  /\ SameLists(o)

(* A string or an open upvalue found again after the marking ended.        *)
Resurrected(o) ==
  /\ tt[o] \in {"string", "upval"}
  /\ marked[o] = OtherWhite(currentwhite)
  /\ list'[o] = list[o] /\ marked'[o] = currentwhite /\ SameLists(o)

(* reallymarkobject, called by a barrier.                                  *)
Marked(o) ==
  /\ Propagating /\ list[o] # "free" /\ iswhite(o)
  /\ list'[o] = list[o] /\ marked'[o] = MarkColour(o)
  /\ o \in gray' <=> o \in gray \/ tt[o] \in Traversable
  /\ o \in grayagain' <=> o \in grayagain

(* luaC_barrierf outside the marking phase.                                *)
Whitened(o) ==
  /\ ~Propagating /\ isblack(o)
  /\ list'[o] = list[o] /\ marked'[o] = currentwhite /\ SameLists(o)

(* luaC_barrierback.                                                       *)
Grayed(o) ==
  /\ tt[o] = "table" /\ isblack(o)
  /\ list'[o] = list[o] /\ marked'[o] = "gray"
  /\ o \in gray' <=> o \in gray
  /\ o \in grayagain' <=> o \in grayagain \/ Propagating

(* luaF_close: the dead are freed, the others keep their colour unless it  *)
(* is gray.                                                                *)
Closed(o) ==
  /\ o \in UpVals /\ list[o] = "openupval"
  /\ uv'[o].owner = Nil
  /\ \/ isdead(o) /\ list'[o] = "free" /\ marked'[o] = "white0"
     \/ /\ ~isdead(o) /\ list'[o] = "rootgc"
        /\ IF isgray(o) THEN marked'[o] = IF Propagating THEN "black" ELSE currentwhite
                        ELSE marked'[o] = marked[o]

ColourStep(o) ==
  Kept(o) \/ Created(o) \/ Resurrected(o) \/ Marked(o) \/ Whitened(o) \/ Grayed(o) \/ Closed(o)

-----------------------------------------------------------------------------

(* What marking values colours is values: userdata refer to tables alone.  *)
LEMMA MarkSetValues ==
  ASSUME HeapTypeOK, NEW S, S \cap UpVals = {}
  PROVE  MarkSet(S) \cap UpVals = {}
<1>1. ASSUME NEW X \in SUBSET Obj, X \cap UpVals = {}
      PROVE  Immediate(X) \cap UpVals = {}
  <2>1. \A o \in X \cap Obj : tt[o] # "upval"
    BY <1>1 DEF UpVals, OfType
  <2>2. ASSUME NEW o \in Obj, tt[o] = "userdata" PROVE Refs(o) \cap UpVals = {}
    <3>1. ud[o] \in UdataRec
      BY <2>2 DEF HeapTypeOK, ContentsTypeOK, Udata, OfType
    <3>2. Refs(o) \subseteq Tables
      BY <2>2, <3>1, HeapAssumption DEF Refs, NonTableRefs, UdataRec, TableOrNil
    <3>. QED  BY <3>2 DEF Tables, UpVals, OfType
  <2>. QED  BY <2>1, <2>2 DEF Immediate
<1>. DEFINE w0 == WhiteIn(S)
            w1 == w0 \cup WhiteIn(Immediate(w0))
<1>2. w0 \cap UpVals = {}
  BY DEF WhiteIn
<1>3. w1 \cap UpVals = {}
  BY <1>1, <1>2 DEF WhiteIn
<1>. QED  BY <1>1, <1>3 DEF MarkSet, WhiteIn

(* Nothing happens to colours and lists.                                   *)
LEMMA UnchangedColours ==
  ASSUME UNCHANGED <<list, colours>>, NEW o \in Obj
  PROVE  ColourStep(o)
BY DEF colours, ColourStep, Kept, SameLists

(* Allocation (luaC_link).                                                 *)
LEMMA LinkColours ==
  ASSUME TypeInv, NEW x \in Obj, NEW l, Link(x, l), NEW o \in Obj,
         tt[x] # "upval", IF tt[x] = "string" THEN l = "strt" ELSE l = "rootgc"
  PROVE  ColourStep(o)
<1>1. marked \in [Obj -> Whites \cup {"gray", "black"}] /\ list \in [Obj -> Lists]
  BY DEF TypeInv, TypeOK, HeapTypeOK, ColoursTypeOK
<1>2. CASE o = x
  BY <1>1, <1>2 DEF Link, ColourStep, Created, SameLists
<1>3. CASE o # x
  BY <1>1, <1>3 DEF Link, ColourStep, Kept, SameLists
<1>. QED  BY <1>2, <1>3

(* Marking (reallymarkobject).                                             *)
LEMMA MarkColours ==
  ASSUME NEW S, MarkObjects(S), Propagating, UNCHANGED <<list, grayagain>>, NEW o \in Obj
  PROVE  ColourStep(o)
<1>1. MarkSet(S) \subseteq WhiteObj
  BY DEF MarkSet, WhiteIn, WhiteObj
<1>2. CASE o \in MarkSet(S)
  BY <1>1, <1>2 DEF MarkObjects, Coloured, Listed, WhiteObj, WhiteIn, ColourStep, Marked
<1>3. CASE o \notin MarkSet(S)
  BY <1>3 DEF MarkObjects, Coloured, Listed, ColourStep, Kept, SameLists
<1>. QED  BY <1>2, <1>3

(* A store with a forward barrier.                                         *)
LEMMA BarrierForwardColours ==
  ASSUME TypeInv, NEW x, NEW v, BarrierForward(x, v, Propagating), UNCHANGED list,
         NEW o \in Obj
  PROVE  ColourStep(o)
<1>1. CASE UNCHANGED colours
  BY <1>1, UnchangedColours
<1>2. CASE Propagating /\ MarkObjects({v}) /\ UNCHANGED grayagain
  BY <1>2, MarkColours
<1>3. CASE ~Propagating /\ isblack(x) /\ marked' = [marked EXCEPT ![x] = currentwhite]
           /\ UNCHANGED <<gray, grayagain>>
  <2>1. marked \in [Obj -> Whites \cup {"gray", "black"}]
    BY DEF TypeInv, TypeOK, HeapTypeOK, ColoursTypeOK
  <2>2. CASE o = x
    BY <1>3, <2>1, <2>2 DEF ColourStep, Whitened, SameLists
  <2>3. CASE o # x
    BY <1>3, <2>1, <2>3 DEF ColourStep, Kept, SameLists
  <2>. QED  BY <2>2, <2>3
<1>. QED  BY <1>1, <1>2, <1>3 DEF BarrierForward

(* A store into a table, with a backward barrier.                          *)
LEMMA BarrierBackColours ==
  ASSUME TypeInv, NEW t \in Tables, NEW S, BarrierBack(t, S, Propagating), UNCHANGED list,
         NEW o \in Obj
  PROVE  ColourStep(o)
<1>1. CASE UNCHANGED colours
  BY <1>1, UnchangedColours
<1>2. CASE /\ isblack(t) /\ marked' = [marked EXCEPT ![t] = "gray"]
           /\ grayagain' = IF Propagating THEN grayagain \cup {t} ELSE grayagain
           /\ UNCHANGED gray
  <2>1. marked \in [Obj -> Whites \cup {"gray", "black"}] /\ tt[t] = "table"
    BY DEF TypeInv, TypeOK, HeapTypeOK, ColoursTypeOK, Tables, OfType
  <2>2. CASE o = t
    BY <1>2, <2>1, <2>2 DEF ColourStep, Grayed
  <2>3. CASE o # t
    BY <1>2, <2>1, <2>3 DEF ColourStep, Kept, SameLists
  <2>. QED  BY <2>2, <2>3
<1>. QED  BY <1>1, <1>2 DEF BarrierBack

-----------------------------------------------------------------------------
(* Each group of operations of the program.                                *)

(* Allocations of everything but upvalues.                                 *)
LEMMA AllocationsColours ==
  ASSUME TypeInv, Allocations, NEW o \in Obj
  PROVE  ColourStep(o)
<1>1. marked \in [Obj -> Whites \cup {"gray", "black"}] /\ list \in [Obj -> Lists]
      /\ currentwhite \in Whites
  BY DEF TypeInv, TypeOK, HeapTypeOK, ColoursTypeOK
<1>2. PICK i \in StackSlots :
        \/ \E t \in Tables : NewTable(t, i)
        \/ \E u \in Udata, e \in Held \cap Envs : NewUdata(u, e, i)
        \/ \E h \in Threads : NewThread(h, i)
        \/ \E s \in Strings : NewString(s, i)
        \/ \E c \in CClosures, e \in Held \cap Envs, v \in Held \cup {Nil} :
             NewCClosure(c, e, v, i)
        \/ \E f \in Held \cap LClosures : \E c \in LClosures, p \in NestedProtos(f) :
             \/ ShareUpVal(c, f, p, i)
             \/ \E u \in UpVals, j \in StackSlots : Capture(c, f, p, u, j, i)
  BY DEF Allocations
<1>3. ASSUME NEW x \in Obj, tt[x] \notin {"string", "upval"}, Link(x, "rootgc")
      PROVE  ColourStep(o)
  BY <1>3, LinkColours
<1>4. CASE \E t \in Tables : NewTable(t, i)
  BY <1>3, <1>4 DEF NewTable, Tables, OfType
<1>5. CASE \E u \in Udata, e \in Held \cap Envs : NewUdata(u, e, i)
  BY <1>3, <1>5 DEF NewUdata, Udata, OfType
<1>6. CASE \E h \in Threads : NewThread(h, i)
  BY <1>3, <1>6 DEF NewThread, Threads, OfType
<1>7. CASE \E c \in CClosures, e \in Held \cap Envs, v \in Held \cup {Nil} :
             NewCClosure(c, e, v, i)
  BY <1>3, <1>7 DEF NewCClosure, CClosures, OfType
<1>8. ASSUME NEW s \in Strings, NewString(s, i) PROVE ColourStep(o)
  <2>1. s \in Obj /\ tt[s] = "string"
    BY DEF Strings, OfType
  <2>2. CASE Link(s, "strt")
    BY <2>1, <2>2, LinkColours
  <2>3. CASE marked' = [marked EXCEPT ![s] = Revived(@)] /\ UNCHANGED <<list, gray, grayagain>>
    <3>1. \/ marked'[s] = marked[s]
          \/ marked[s] = OtherWhite(currentwhite) /\ marked'[s] = currentwhite
      BY <1>1, <2>1, <2>3 DEF Revived
    <3>2. \A x \in Obj \ {s} : marked'[x] = marked[x]
      BY <1>1, <2>3
    <3>. QED  BY <2>1, <2>3, <3>1, <3>2 DEF ColourStep, Kept, Resurrected, SameLists
  <2>. QED  BY <1>8, <2>2, <2>3 DEF NewString
<1>9. ASSUME NEW f, NEW c \in LClosures, NEW p, ShareUpVal(c, f, p, i) PROVE ColourStep(o)
  BY <1>3, <1>9 DEF ShareUpVal, LClosures, OfType
<1>10. ASSUME NEW f, NEW c \in LClosures, NEW p, NEW u \in UpVals, NEW j,
              Capture(c, f, p, u, j, i)
       PROVE  ColourStep(o)
  <2>1. c \in Obj /\ u \in Obj /\ tt[c] = "function" /\ tt[u] = "upval" /\ c # u
    BY DEF LClosures, UpVals, OfType
  <2>2. UNCHANGED <<gray, grayagain>> /\ list[c] = "free"
    BY <1>10 DEF Capture
  <2>3. list'[c] = "rootgc" /\ marked'[c] = currentwhite
    BY <1>1, <1>10, <2>1 DEF Capture
  <2>4. \A x \in Obj \ {c, u} : list'[x] = list[x] /\ marked'[x] = marked[x]
    BY <1>1, <1>10, <2>1 DEF Capture
  <2>5. \/ /\ list'[u] = list[u]
           /\ \/ marked'[u] = marked[u]
              \/ marked[u] = OtherWhite(currentwhite) /\ marked'[u] = currentwhite
        \/ list[u] = "free" /\ list'[u] = "openupval" /\ marked'[u] = currentwhite
    BY <1>1, <1>10, <2>1 DEF Capture, Revived
  <2>. QED
    BY <2>1, <2>2, <2>3, <2>4, <2>5 DEF ColourStep, Kept, Created, Resurrected, SameLists
<1>. QED  BY <1>2, <1>4, <1>5, <1>6, <1>7, <1>8, <1>9, <1>10

(* Closing upvalues marks what the gray ones refer to while marks          *)
(* propagate, and moves all of them out of the open list.                  *)
LEMMA CloseUpvalsColours ==
  ASSUME TypeInv, NEW level, CloseUpvals(level), NEW o \in Obj
  PROVE  ColourStep(o)
<1>. DEFINE closed == {u \in OpenUpvals(running) : uv[u].level >= level}
            dead   == {u \in closed : isdead(u)}
            kept   == closed \ dead
            grays  == {u \in kept : isgray(u)}
            found  == MarkedOnClose(grays)
<1>1. /\ list' = [x \in Obj |-> IF x \in dead THEN "free"
                                ELSE IF x \in kept THEN "rootgc" ELSE list[x]]
      /\ uv' = [u \in UpVals |->
                  IF u \in dead THEN NoUpVal
                  ELSE IF u \in kept THEN [NoUpVal EXCEPT !.value = UpValue(u)]
                  ELSE uv[u]]
      /\ marked' = [x \in Obj |-> IF x \in dead THEN "white0"
                                  ELSE IF x \in grays
                                  THEN IF Propagating THEN "black" ELSE currentwhite
                                  ELSE Coloured(found)[x]]
      /\ gray' = gray \cup Listed(found)
      /\ UNCHANGED grayagain
  BY DEF CloseUpvals
<1>2. closed \subseteq UpVals /\ \A u \in closed : list[u] = "openupval"
  BY DEF OpenUpvals
<1>3. CASE o \in closed
  <2>1. o \in UpVals /\ o \in Obj /\ list[o] = "openupval" /\ uv'[o].owner = Nil
    BY <1>1, <1>2, <1>3 DEF NoUpVal, UpVals, OfType
  <2>2. o \notin found
    <3>1. HeapTypeOK
      BY DEF TypeInv, TypeOK
    <3>2. \A u \in grays : UpValue(u) \in Value
      BY <1>2, <3>1, UpValueType
    <3>3. {UpValue(u) : u \in grays} \cap UpVals = {}
      BY <3>2, HeapAssumption DEF Value, UpVals, OfType
    <3>. QED  BY <2>1, <3>1, <3>3, MarkSetValues DEF MarkedOnClose
  <2>3. CASE o \in dead
    BY <1>1, <2>1, <2>3 DEF ColourStep, Closed
  <2>4. CASE o \notin dead
    BY <1>1, <1>3, <2>1, <2>2, <2>4 DEF Coloured, ColourStep, Closed
  <2>. QED  BY <2>3, <2>4
<1>4. CASE o \notin closed
  <2>1. list'[o] = list[o] /\ marked'[o] = Coloured(found)[o]
    BY <1>1, <1>4
  <2>2. found \subseteq WhiteObj /\ (found # {} => Propagating)
    BY DEF MarkedOnClose, MarkSet, WhiteIn, WhiteObj
  <2>3. CASE o \in found
    BY <1>1, <2>1, <2>2, <2>3 DEF Coloured, Listed, WhiteObj, WhiteIn, ColourStep, Marked
  <2>4. CASE o \notin found
    BY <1>1, <2>1, <2>4 DEF Coloured, Listed, ColourStep, Kept, SameLists
  <2>. QED  BY <2>3, <2>4
<1>. QED  BY <1>3, <1>4

(* Every store has a barrier or needs none.                                *)
LEMMA StoresColours ==
  ASSUME TypeInv, Stores, NEW o \in Obj
  PROVE  ColourStep(o)
<1>1. ASSUME NEW t \in Tables, NEW S, BarrierBack(t, S, Propagating), UNCHANGED list
      PROVE  ColourStep(o)
  BY <1>1, BarrierBackColours
<1>2. ASSUME NEW x, NEW v, BarrierForward(x, v, Propagating), UNCHANGED list
      PROVE  ColourStep(o)
  BY <1>2, BarrierForwardColours
<1>3. PICK v \in Held \cup {Nil} :
        \/ \E t \in Held \cap Tables :
             \/ \E s \in ArraySlots[t] : SetArray(t, s, v)
             \/ \E s \in NodeSlots[t], k \in Held : SetNode(t, s, k, v)
             \/ v \in Metas[t] \cup {Nil} /\ SetTableMeta(t, v)
        \/ \E u \in Held \cap Udata :
             \/ v \in Metas[u] \cup {Nil} /\ SetUdataMeta(u, v)
             \/ v \in Envs /\ SetUdataEnv(u, v)
        \/ v \in Metas[Nil] \cup {Nil} /\ SetBasicMeta(v)
        \/ \E f \in Held \cap Closures : v \in Envs /\ SetClosureEnv(f, v)
        \/ \E h \in (Held \cap Threads) \cup {running} : v \in Envs /\ SetThreadEnv(h, v)
        \/ \E f \in Held \cap CClosures : SetCUpvalue(f, v)
        \/ \E f \in Held \cap LClosures : SetUpval(f, v)
  BY DEF Stores
<1>4. CASE \E t \in Held \cap Tables :
             \/ \E s \in ArraySlots[t] : SetArray(t, s, v)
             \/ \E s \in NodeSlots[t], k \in Held : SetNode(t, s, k, v)
             \/ SetTableMeta(t, v)
  BY <1>1, <1>4 DEF SetArray, SetNode, SetTableMeta
<1>5. CASE \E u \in Held \cap Udata : SetUdataMeta(u, v) \/ SetUdataEnv(u, v)
  BY <1>2, <1>5 DEF SetUdataMeta, SetUdataEnv
<1>6. CASE SetBasicMeta(v)
  BY <1>6, UnchangedColours DEF SetBasicMeta
<1>7. CASE \/ \E f \in Held \cap Closures : SetClosureEnv(f, v)
           \/ \E h \in (Held \cap Threads) \cup {running} : SetThreadEnv(h, v)
           \/ \E f \in Held \cap CClosures : SetCUpvalue(f, v)
           \/ \E f \in Held \cap LClosures : SetUpval(f, v)
  BY <1>2, <1>7 DEF SetClosureEnv, SetThreadEnv, SetCUpvalue, SetUpval
<1>. QED  BY <1>3, <1>4, <1>5, <1>6, <1>7

(* The program as a whole.                                                 *)
LEMMA ProgramColours ==
  ASSUME TypeInv, Program
  PROVE  \A o \in Obj : ColourStep(o)
<1>. TAKE o \in Obj
<1>1. CASE \/ \E i \in StackSlots, v \in Readable \cup {Nil} : Load(i, v)
           \/ SetFields \/ Switches
  <2>1. UNCHANGED <<list, colours>>
    BY <1>1 DEF Load, SetFields, SetMode, SetGC, Switches, Resume, ResumeDead, Yield
  <2>. QED  BY <2>1, UnchangedColours
<1>2. CASE \E level \in StackSlots : CloseUpvals(level)
  BY <1>2, CloseUpvalsColours
<1>3. CASE Allocations
  BY <1>3, AllocationsColours
<1>4. CASE Stores
  BY <1>4, StoresColours
<1>5. CASE Loading
  <2>1. ASSUME NEW p \in Protos, NEW i, NewProto(p, i) PROVE ColourStep(o)
    <3>1. p \in Obj /\ tt[p] \notin {"string", "upval"}
      BY DEF Protos, OfType
    <3>. QED  BY <2>1, <3>1, LinkColours DEF NewProto
  <2>2. ASSUME NEW c \in LClosures, NEW i, LoadChunk(c, i) PROVE ColourStep(o)
    <3>1. c \in Obj /\ tt[c] \notin {"string", "upval"}
      BY DEF LClosures, OfType
    <3>. QED  BY <2>2, <3>1, LinkColours DEF LoadChunk
  <2>3. ASSUME NEW i, NEW n, NEW j, AddConst(i, n, j) PROVE ColourStep(o)
    BY <2>3, BarrierForwardColours DEF AddConst
  <2>. QED  BY <1>5, <2>1, <2>2, <2>3 DEF Loading
<1>. QED  BY <1>1, <1>2, <1>3, <1>4, <1>5 DEF Program

(* Only luaF_findupval opens upvalues, for the running thread, and only    *)
(* luaF_close takes their owner away.                                      *)
SameSlot(u) ==
  list'[u] = list[u] /\ uv'[u].owner = uv[u].owner /\ uv'[u].level = uv[u].level
Opened(u) ==
  /\ list[u] = "free" /\ list'[u] = "openupval" /\ marked'[u] = currentwhite
  /\ uv'[u].owner = running
Unowned(u) ==
  list[u] = "openupval" /\ list'[u] \in {"rootgc", "free"} /\ uv'[u].owner = Nil

(* What a step of the program does to the slot of an upvalue.              *)
LEMMA ProgramOwners ==
  ASSUME TypeInv, Program, NEW u \in UpVals
  PROVE  SameSlot(u) \/ Opened(u) \/ Unowned(u)
<1>1. /\ marked \in [Obj -> Whites \cup {"gray", "black"}] /\ uv \in [UpVals -> UpValRec]
      /\ list \in [Obj -> Lists] /\ running \in Threads
      /\ u \in Obj /\ tt[u] = "upval"
  BY DEF TypeInv, TypeOK, HeapTypeOK, ColoursTypeOK, ContentsTypeOK, UpVals, OfType
<1>2. CASE UNCHANGED <<list, uv>>
  BY <1>2 DEF SameSlot
<1>3. ASSUME NEW x \in Obj, tt[x] # "upval", NEW l, Link(x, l), UNCHANGED uv PROVE SameSlot(u)
  BY <1>1, <1>3 DEF Link, SameSlot
<1>4. ASSUME NEW c \in LClosures, NEW f, NEW p, NEW w \in UpVals, NEW j, NEW i,
             Capture(c, f, p, w, j, i)
      PROVE  SameSlot(u) \/ Opened(u)
  <2>1. w \in Obj /\ c \in Obj /\ c # u /\ c # w
    BY <1>1 DEF LClosures, UpVals, OfType
  <2>2. CASE UNCHANGED uv /\ list' = [list EXCEPT ![c] = "rootgc"]
    BY <1>1, <2>1, <2>2 DEF SameSlot
  <2>3. CASE /\ list[w] = "free"
             /\ list' = [list EXCEPT ![c] = "rootgc", ![w] = "openupval"]
             /\ marked' = [marked EXCEPT ![c] = currentwhite, ![w] = currentwhite]
             /\ uv' = [uv EXCEPT ![w] = [owner |-> running, level |-> j, value |-> Nil]]
    BY <1>1, <2>1, <2>3 DEF SameSlot, Opened
  <2>. QED  BY <1>4, <2>2, <2>3 DEF Capture
<1>5. ASSUME NEW f, NEW v, SetUpval(f, v) PROVE SameSlot(u)
  <2>1. uv' = uv \/ uv' = [uv EXCEPT ![cl[f].upvalue].value = v]
    BY <1>5 DEF SetUpval
  <2>2. uv[u] \in UpValRec /\ list' = list
    BY <1>1, <1>5 DEF SetUpval
  <2>. QED  BY <1>1, <2>1, <2>2 DEF UpValRec, SameSlot
<1>6. ASSUME NEW level, CloseUpvals(level) PROVE SameSlot(u) \/ Unowned(u)
  <2>1. OpenUpvals(running) \subseteq UpVals /\ \A w \in OpenUpvals(running) : list[w] = "openupval"
    BY DEF OpenUpvals
  <2>. QED  BY <1>1, <1>6, <2>1 DEF CloseUpvals, NoUpVal, SameSlot, Unowned
<1>7. CASE Allocations
  <2>. DEFINE captures == \E i \in StackSlots : \E f \in Held \cap LClosures : \E c \in LClosures :
                            \E p \in NestedProtos(f) : \E w \in UpVals, j \in StackSlots :
                              Capture(c, f, p, w, j, i)
              links == UNCHANGED uv /\ \E x \in Obj : \E l : tt[x] # "upval" /\ Link(x, l)
  <2>1. \A x \in Tables \cup Udata \cup Threads \cup Strings \cup Closures :
          x \in Obj /\ tt[x] # "upval"
    BY DEF Tables, Udata, Threads, Strings, Closures, OfType
  <2>2. CClosures \cup LClosures \subseteq Closures
    BY DEF CClosures, LClosures, Closures, OfType
  <2>3. UNCHANGED <<list, uv>> \/ captures \/ links
    BY <1>7, <2>1, <2>2
       DEF Allocations, NewTable, NewUdata, NewThread, NewString, NewCClosure, ShareUpVal
  <2>4. CASE captures
    <3>1. PICK i \in StackSlots, f \in Held \cap LClosures, c \in LClosures :
            \E p \in NestedProtos(f) : \E w \in UpVals, j \in StackSlots : Capture(c, f, p, w, j, i)
      BY <2>4
    <3>. QED  BY <3>1, <1>4
  <2>5. CASE links
    BY <1>3, <2>5
  <2>. HIDE DEF captures, links
  <2>. QED  BY <1>2, <2>3, <2>4, <2>5
<1>8. CASE Stores
  <2>1. ASSUME NEW v, \/ \E t \in Tables : \/ \E s, k : SetArray(t, s, v) \/ SetNode(t, s, k, v)
                                        \/ SetTableMeta(t, v)
                      \/ \E x \in Udata : SetUdataMeta(x, v) \/ SetUdataEnv(x, v)
                      \/ SetBasicMeta(v)
                      \/ \E f : SetClosureEnv(f, v) \/ SetThreadEnv(f, v) \/ SetCUpvalue(f, v)
        PROVE  UNCHANGED <<list, uv>>
    BY <2>1 DEF SetArray, SetNode, SetTableMeta, SetUdataMeta, SetUdataEnv, SetBasicMeta,
       SetClosureEnv, SetThreadEnv, SetCUpvalue
  <2>2. \/ UNCHANGED <<list, uv>>
        \/ \E v \in Held \cup {Nil} : \E f \in Held \cap LClosures : SetUpval(f, v)
    BY <1>8, <2>1 DEF Stores
  <2>. QED  BY <1>2, <1>5, <2>2
<1>9. CASE Loading
  <2>1. \A x \in Protos \cup LClosures : x \in Obj /\ tt[x] # "upval"
    BY DEF Protos, LClosures, OfType
  <2>2. UNCHANGED uv /\ (UNCHANGED list \/ \E x \in Obj : \E l : tt[x] # "upval" /\ Link(x, l))
    BY <1>9, <2>1 DEF Loading, NewProto, LoadChunk, AddConst
  <2>. QED  BY <1>2, <1>3, <2>2
<1>10. CASE \/ \E i \in StackSlots, v \in Readable \cup {Nil} : Load(i, v)
            \/ SetFields \/ Switches
  BY <1>2, <1>10 DEF Load, SetFields, SetMode, SetGC, Switches, Resume, ResumeDead, Yield
<1>. QED  BY <1>6, <1>7, <1>8, <1>9, <1>10 DEF Program

-----------------------------------------------------------------------------
(* Open upvalues and threads are never black.                              *)

(* NeverBlack, of free blocks too.                                         *)
BlackOK ==
  \A o \in Obj : isblack(o) => tt[o] # "thread" /\ (tt[o] = "upval" => ~IsOpen(o))

(* The program blackens only what a barrier marks and what it closes.      *)
LEMMA ProgramBlack ==
  ASSUME TypeInv, BlackOK, Program
  PROVE  BlackOK'
<1>. SUFFICES ASSUME NEW o \in Obj, marked'[o] = "black"
              PROVE  tt[o] # "thread" /\ (tt[o] = "upval" => uv'[o].owner = Nil)
  BY DEF BlackOK, isblack, IsOpen
<1>1. currentwhite # "black"
  BY DEF TypeInv, TypeOK, HeapTypeOK, Whites
<1>2. ColourStep(o)
  BY ProgramColours
<1>3. CASE Kept(o) \/ Marked(o)
  <2>1. tt[o] # "thread" /\ (tt[o] = "upval" => uv[o].owner = Nil)
    BY <1>3 DEF Kept, Marked, MarkColour, BlackOK, isblack, IsOpen
  <2>2. tt[o] = "upval" => o \in UpVals
    BY DEF UpVals, OfType
  <2>. QED  BY <1>1, <2>1, <2>2, ProgramOwners DEF SameSlot, Opened, Unowned
<1>4. CASE Closed(o)
  BY <1>4, HeapAssumption DEF Closed, UpVals, OfType
<1>. QED  BY <1>1, <1>2, <1>3, <1>4 DEF ColourStep, Created, Resurrected, Whitened, Grayed

(* The collector blackens what it traverses, userdata and closed upvalues. *)
LEMMA CollectorBlack ==
  ASSUME TypeInv, BlackOK, CollectorStep \/ (\E u \in Udata : FinalizerReturn(u)) \/ FullGC
  PROVE  BlackOK'
<1>1. /\ marked \in [Obj -> Whites \cup {"gray", "black"}] /\ currentwhite \in Whites
      /\ gray \subseteq OfType(Traversable) /\ grayagain \subseteq OfType(Traversable)
      /\ weak \subseteq Tables
  BY DEF TypeInv, TypeOK, HeapTypeOK, ColoursTypeOK
<1>2. ASSUME UNCHANGED uv,
             \A o \in Obj : marked'[o] = "black" =>
                isblack(o) \/ MarkColour(o) = "black" \/ tt[o] \in Traversable \ {"thread"}
      PROVE  BlackOK'
  BY <1>2 DEF BlackOK, MarkColour, isblack, IsOpen, Traversable
<1>3. CASE MarkRoot
  BY <1>2, <1>3 DEF MarkRoot, Coloured, heap, isblack
<1>4. ASSUME NEW x \in gray, PropagateMark(x) PROVE BlackOK'
  <2>1. x \in Obj /\ tt[x] \in Traversable
    BY <1>1 DEF OfType
  <2>2. TraversedColour(x) = "black" => tt[x] # "thread"
    BY DEF TraversedColour
  <2>. QED  BY <1>2, <1>4, <2>1, <2>2 DEF PropagateMark, Coloured, isblack
<1>5. CASE Atomic
  <2>. DEFINE reached    == WhiteClosure(AtomicStart)
              sep        == Separated(reached)
              tofinalize == ToFinalize(sep)
              marks      == reached \cup WhiteClosure(tofinalize \cup UNION {Refs(u) : u \in tofinalize})
              traversed  == Retraversed \cup Listed(marks)
              weaktabs   == {t \in traversed : IsWeak(t)}
              seen       == WhiteIn(UNION {SeenStrings(t, marks) : t \in weaktabs})
  <2>1. marked' = [o \in Obj |-> IF o \in tofinalize THEN "black"
                                 ELSE IF o \in traversed THEN TraversedColour(o)
                                 ELSE IF o \in marks THEN MarkColour(o)
                                 ELSE IF o \in seen THEN "gray"
                                 ELSE marked[o]]
    BY <1>5 DEF Atomic
  <2>2. \A o \in tofinalize : tt[o] = "userdata"
    BY DEF ToFinalize, Separated, Udata, OfType
  <2>3. \A o \in traversed : tt[o] \in Traversable
    BY <1>1 DEF Retraversed, Listed, Tables, OfType, Traversable
  <2>4. \A o \in Obj : TraversedColour(o) = "black" => tt[o] # "thread"
    BY DEF TraversedColour
  <2>. QED
    <3>. HIDE DEF tofinalize, traversed, marks, seen
    <3>1. ASSUME NEW o \in Obj, marked'[o] = "black"
          PROVE  isblack(o) \/ MarkColour(o) = "black" \/ tt[o] \in Traversable \ {"thread"}
      BY <2>1, <2>2, <2>3, <2>4, <3>1 DEF MarkColour, isblack
    <3>. QED  BY <1>2, <1>5, <3>1 DEF Atomic
<1>6. ASSUME NEW S, Swept(S) PROVE \A o \in Obj : marked'[o] = "black" => isblack(o)
  BY <1>1, <1>6 DEF Swept, isblack, Whites
<1>7. CASE SweepString
  <2>1. UNCHANGED uv
    BY <1>7 DEF SweepString, heap
  <2>. QED  BY <1>2, <1>6, <1>7, <2>1 DEF SweepString
<1>8. CASE \E S \in SUBSET unswept : Sweep(S)
  <2>1. \A o \in Obj : marked'[o] = "black" => isblack(o)
    BY <1>6, <1>8 DEF Sweep
  <2>2. \A u \in UpVals : uv'[u] = uv[u] \/ uv'[u].owner = Nil
    BY <1>8 DEF Sweep, NoUpVal
  <2>3. \A o \in Obj : tt[o] = "upval" => o \in UpVals
    BY DEF UpVals, OfType
  <2>. QED  BY <2>1, <2>2, <2>3 DEF BlackOK, isblack, IsOpen
<1>9. CASE (\E u \in Udata : GCTM(u) \/ FinalizerReturn(u)) \/ EndCycle \/ FullGC
  <2>1. UNCHANGED uv
    BY <1>9 DEF GCTM, FinalizerReturn, EndCycle, FullGC, heap
  <2>2. \A o \in Obj : marked'[o] = "black" => isblack(o)
    BY <1>1, <1>9 DEF GCTM, FinalizerReturn, EndCycle, FullGC, colours, isblack, Whites, Udata, OfType
  <2>. QED  BY <1>2, <2>1, <2>2
<1>. QED
  BY <1>3, <1>4, <1>5, <1>7, <1>8, <1>9 DEF CollectorStep, StartCycle, FullMark

(* Stores into the stack of a thread and into an open upvalue need no      *)
(* barrier: whatever the heap and the program, neither is ever black       *)
(* (reallymarkobject, propagatemark, luaF_close, luaC_linkupval).          *)
THEOREM OpenNeverBlack == Spec => []NeverBlack
<1>1. Init => BlackOK
  BY DEF Init, HeapInit, BlackOK, isblack
<1>2. TypeInv /\ BlackOK /\ [Next]_vars => BlackOK'
  <2>1. CASE UNCHANGED vars
    BY <2>1 DEF vars, heap, colours, BlackOK, isblack, IsOpen
  <2>. QED  BY <2>1, ProgramBlack, CollectorBlack DEF Next, Collect
<1>3. BlackOK => NeverBlack
  BY DEF BlackOK, NeverBlack, Allocated
<1>. QED  BY <1>1, <1>2, <1>3, InitType, NextType, PTL DEF Spec

-----------------------------------------------------------------------------
(* One open upvalue for each register that is captured.                    *)

(* No upvalue is opened and none moves.                                    *)
SlotsKept ==
  \A u \in UpVals : list'[u] = "openupval" =>
    /\ list[u] = "openupval"
    /\ uv'[u].owner = uv[u].owner /\ uv'[u].level = uv[u].level

(* Of the operations of the program, luaF_findupval alone opens upvalues.  *)
LEMMA ProgramSlots ==
  ASSUME TypeInv, Program
  PROVE  \/ SlotsKept
         \/ \E w \in UpVals, j \in StackSlots :
              /\ OpenAt(j) = {}
              /\ uv' = [uv EXCEPT ![w] = [owner |-> running, level |-> j, value |-> Nil]]
              /\ \A u \in UpVals \ {w} : list'[u] = list[u]
<1>1. list \in [Obj -> Lists] /\ uv \in [UpVals -> UpValRec]
  BY DEF TypeInv, TypeOK, HeapTypeOK, ContentsTypeOK
<1>2. \A u \in UpVals : u \in Obj /\ tt[u] = "upval"
  BY DEF UpVals, OfType
<1>3. CASE UNCHANGED <<list, uv>>
  BY <1>3 DEF SlotsKept
<1>4. ASSUME NEW x, NEW l, Link(x, l), l # "openupval", UNCHANGED uv PROVE SlotsKept
  BY <1>1, <1>2, <1>4 DEF Link, SlotsKept
<1>5. ASSUME NEW level, CloseUpvals(level) PROVE SlotsKept
  BY <1>2, <1>5 DEF CloseUpvals, SlotsKept
<1>6. ASSUME NEW f, NEW v, SetUpval(f, v) PROVE SlotsKept
  <2>1. UNCHANGED list
    BY <1>6 DEF SetUpval
  <2>2. uv' = uv \/ uv' = [uv EXCEPT ![cl[f].upvalue].value = v]
    BY <1>6 DEF SetUpval
  <2>3. \A u \in UpVals : uv'[u].owner = uv[u].owner /\ uv'[u].level = uv[u].level
    BY <1>1, <2>2 DEF UpValRec
  <2>. QED  BY <2>1, <2>3 DEF SlotsKept
<1>7. CASE Allocations
  <2>. DEFINE captures == \E i \in StackSlots : \E f \in Held \cap LClosures : \E c \in LClosures :
                            \E p \in NestedProtos(f) : \E w \in UpVals, j \in StackSlots :
                              Capture(c, f, p, w, j, i)
  <2>1. \/ UNCHANGED <<list, uv>> \/ captures
        \/ UNCHANGED uv /\ \E x : Link(x, "rootgc") \/ Link(x, "strt")
    BY <1>7 DEF Allocations, NewTable, NewUdata, NewThread, NewString, NewCClosure, ShareUpVal
  <2>2. ASSUME captures, ~SlotsKept
        PROVE  \E w \in UpVals, j \in StackSlots :
                 /\ OpenAt(j) = {}
                 /\ uv' = [uv EXCEPT ![w] = [owner |-> running, level |-> j, value |-> Nil]]
                 /\ \A u \in UpVals \ {w} : list'[u] = list[u]
    <3>1. PICK i \in StackSlots, f \in Held \cap LClosures, c \in LClosures :
            \E p \in NestedProtos(f) : \E w \in UpVals, j \in StackSlots : Capture(c, f, p, w, j, i)
      BY <2>2
    <3>2. PICK p \in NestedProtos(f), w \in UpVals, j \in StackSlots : Capture(c, f, p, w, j, i)
      BY <3>1
    <3>3. c \notin UpVals
      BY DEF LClosures, UpVals, OfType
    <3>4. CASE OpenAt(j) # {}
      <4>1. list' = [list EXCEPT ![c] = "rootgc"] /\ UNCHANGED uv
        BY <3>2, <3>4 DEF Capture
      <4>. QED  BY <1>1, <1>2, <2>2, <3>3, <4>1 DEF SlotsKept
    <3>5. CASE OpenAt(j) = {}
      <4>1. /\ list' = [list EXCEPT ![c] = "rootgc", ![w] = "openupval"]
            /\ uv' = [uv EXCEPT ![w] = [owner |-> running, level |-> j, value |-> Nil]]
        BY <3>2, <3>5 DEF Capture
      <4>2. \A u \in UpVals \ {w} : list'[u] = list[u]
        BY <1>1, <1>2, <3>3, <4>1
      <4>. QED  BY <3>5, <4>1, <4>2
    <3>. QED  BY <3>4, <3>5
  <2>. HIDE DEF captures
  <2>. QED  BY <1>3, <1>4, <2>1, <2>2
<1>8. CASE Stores
  <2>1. ASSUME NEW v, \/ \E t \in Tables : \/ \E s, k : SetArray(t, s, v) \/ SetNode(t, s, k, v)
                                        \/ SetTableMeta(t, v)
                      \/ \E u \in Udata : SetUdataMeta(u, v) \/ SetUdataEnv(u, v)
                      \/ SetBasicMeta(v)
                      \/ \E f : SetClosureEnv(f, v) \/ SetThreadEnv(f, v) \/ SetCUpvalue(f, v)
        PROVE  UNCHANGED <<list, uv>>
    BY <2>1 DEF SetArray, SetNode, SetTableMeta, SetUdataMeta, SetUdataEnv, SetBasicMeta,
       SetClosureEnv, SetThreadEnv, SetCUpvalue
  <2>2. \/ UNCHANGED <<list, uv>>
        \/ \E v \in Held \cup {Nil} : \E f \in Held \cap LClosures : SetUpval(f, v)
    BY <1>8, <2>1 DEF Stores
  <2>. QED  BY <1>3, <1>6, <2>2
<1>9. CASE Loading
  <2>1. UNCHANGED uv /\ (UNCHANGED list \/ \E x : Link(x, "rootgc"))
    BY <1>9 DEF Loading, NewProto, LoadChunk, AddConst
  <2>. QED  BY <1>3, <1>4, <2>1
<1>10. CASE \/ \E i \in StackSlots, v \in Readable \cup {Nil} : Load(i, v)
            \/ SetFields \/ Switches
  BY <1>3, <1>10 DEF Load, SetFields, SetMode, SetGC, Switches, Resume, ResumeDead, Yield
<1>. QED  BY <1>5, <1>7, <1>8, <1>9, <1>10 DEF Program

(* The collector frees upvalues and closes those of dead threads.          *)
LEMMA CollectorSlots ==
  ASSUME TypeInv, CollectorStep \/ (\E u \in Udata : FinalizerReturn(u)) \/ FullGC
  PROVE  SlotsKept
<1>1. list \in [Obj -> Lists] /\ \A u \in UpVals : u \in Obj /\ tt[u] = "upval"
  BY DEF TypeInv, TypeOK, HeapTypeOK, UpVals, OfType
<1>2. CASE UNCHANGED <<list, uv>>
  BY <1>2 DEF SlotsKept
<1>3. CASE Atomic
  BY <1>1, <1>3 DEF Atomic, SlotsKept
<1>4. CASE SweepString
  BY <1>1, <1>4 DEF SweepString, SlotsKept, heap
<1>5. CASE \E S \in SUBSET unswept : Sweep(S)
  BY <1>1, <1>5 DEF Sweep, SlotsKept
<1>6. CASE \E u \in Udata : GCTM(u)
  BY <1>1, <1>6 DEF GCTM, SlotsKept, Udata, OfType
<1>. QED
  BY <1>2, <1>3, <1>4, <1>5, <1>6 DEF CollectorStep, StartCycle, FullMark, MarkRoot, PropagateMark,
     EndCycle, FullGC, FinalizerReturn, heap

(* Closures that capture the same local share one upvalue, in every heap:  *)
(* luaF_findupval opens one only if the open list of the thread has none   *)
(* for the register, dead ones included, and open upvalues never move.     *)
THEOREM OneUpvalForEachSlot == Spec => []OneUpvalPerSlot
<1>1. Init => OneUpvalPerSlot
  <2>1. \A u \in UpVals : u \in Obj
    BY DEF UpVals, OfType
  <2>. QED  BY <2>1 DEF Init, HeapInit, OneUpvalPerSlot
<1>2. ASSUME OneUpvalPerSlot, SlotsKept PROVE OneUpvalPerSlot'
  BY <1>2 DEF OneUpvalPerSlot, SlotsKept
<1>3. ASSUME TypeInv, OneUpvalPerSlot, NEW w \in UpVals, NEW j \in StackSlots, OpenAt(j) = {},
             uv' = [uv EXCEPT ![w] = [owner |-> running, level |-> j, value |-> Nil]],
             \A u \in UpVals \ {w} : list'[u] = list[u]
      PROVE  OneUpvalPerSlot'
  <2>1. \A u \in UpVals \ {w} : uv'[u] = uv[u]
    BY <1>3 DEF TypeInv, TypeOK, HeapTypeOK, ContentsTypeOK
  <2>2. uv'[w].owner = running /\ uv'[w].level = j
    BY <1>3 DEF TypeInv, TypeOK, HeapTypeOK, ContentsTypeOK
  <2>3. \A u \in UpVals : list[u] = "openupval" => ~(uv[u].owner = running /\ uv[u].level = j)
    BY <1>3 DEF OpenAt, OpenUpvals
  <2>. QED  BY <1>3, <2>1, <2>2, <2>3 DEF OneUpvalPerSlot
<1>4. TypeInv /\ OneUpvalPerSlot /\ [Next]_vars => OneUpvalPerSlot'
  <2>1. CASE UNCHANGED vars
    BY <2>1 DEF vars, heap, OneUpvalPerSlot
  <2>. QED  BY <1>2, <1>3, <2>1, ProgramSlots, CollectorSlots DEF Next, Collect
<1>. QED  BY <1>1, <1>4, InitType, NextType, PTL DEF Spec

-----------------------------------------------------------------------------
(***************************************************************************)
(* What is proved of a whole cycle of LuaGC, for every heap: the lists     *)
(* that thread through the gray objects are exact while marks propagate,   *)
(* and a userdata is freed only by a sweep that follows its separation.    *)
(*                                                                         *)
(* Neither is inductive. Both need to know what a sweep leaves behind: in  *)
(* a pause every object is white again, and in a sweep what is not lies    *)
(* ahead of it (LinkInv, UdataInv).                                        *)
(***************************************************************************)

Sweeping == gcstate \in {"sweepstring", "sweep"}
AtRest   == gcstate \in {"pause", "finalize"}

TraversableObj == OfType(Traversable)

-----------------------------------------------------------------------------
(* The lists of gray objects.                                              *)

GrayLists ==
  /\ gray \cap grayagain = {} /\ gray \cap weak = {} /\ grayagain \cap weak = {}
  /\ \A o \in TraversableObj :
       o \in gray \cup grayagain \cup weak <=> list[o] # "free" /\ isgray(o)

LinkInv ==
  /\ \A o \in TraversableObj : list[o] = "rootgc" \/ (list[o] = "free" /\ iswhite(o))
  /\ Propagating => GrayLists
  /\ AtRest => \A o \in TraversableObj : list[o] # "free" => iswhite(o)
  /\ Sweeping => \A o \in TraversableObj : list[o] # "free" /\ ~iswhite(o) => o \in unswept

(* What a step of the program does to the collector's own variables.       *)
LEMMA ProgramKeeps ==
  ASSUME Program
  PROVE  UNCHANGED <<gcstate, unswept, weak, finalized, currentwhite>>
BY DEF Program, gcvars, collector

(* A barrier links what it grays, and finds nothing to gray at rest.       *)
LEMMA ProgramLinks ==
  ASSUME TypeInv, LinkInv, Program
  PROVE  LinkInv'
<1>1. UNCHANGED <<gcstate, unswept, weak>> /\ currentwhite \in Whites
  BY ProgramKeeps DEF TypeInv, TypeOK, HeapTypeOK
<1>2. ASSUME NEW o \in TraversableObj
      PROVE  Kept(o) \/ Created(o) \/ Marked(o) \/ Whitened(o) \/ Grayed(o)
  <2>1. o \in Obj /\ tt[o] \in Traversable
    BY DEF TraversableObj, OfType
  <2>2. o \notin UpVals /\ tt[o] \notin {"string", "upval"}
    BY <2>1 DEF UpVals, OfType, Traversable
  <2>. QED  BY <2>1, <2>2, ProgramColours DEF ColourStep, Resurrected, Closed
<1>3. \A o \in TraversableObj : tt[o] \in Traversable
  BY DEF TraversableObj, OfType
<1>4. ASSUME NEW o \in TraversableObj
      PROVE  list'[o] = "rootgc" \/ (list'[o] = "free" /\ marked'[o] \in Whites)
  BY <1>1, <1>2, <1>3 DEF LinkInv, Kept, Created, Marked, Whitened, Grayed, Traversable,
     iswhite, isblack, Whites
<1>5. CASE Propagating
  <2>1. /\ gray \cap grayagain = {} /\ gray \cap weak = {} /\ grayagain \cap weak = {}
        /\ \A o \in TraversableObj :
             o \in gray \cup grayagain \cup weak <=> list[o] # "free" /\ isgray(o)
    BY <1>5 DEF LinkInv, GrayLists
  <2>2. gray' \cup grayagain' \cup weak \subseteq TraversableObj
    <3>1. TypeInv'
      BY ProgramType
    <3>2. Tables \subseteq TraversableObj
      BY DEF Tables, TraversableObj, OfType, Traversable
    <3>. QED
      BY <1>1, <3>1, <3>2 DEF TypeInv, TypeOK, HeapTypeOK, ColoursTypeOK, TraversableObj
  <2>3. ASSUME NEW o \in TraversableObj
        PROVE  /\ ~(o \in gray' /\ o \in grayagain') /\ ~(o \in gray' /\ o \in weak)
               /\ ~(o \in grayagain' /\ o \in weak)
               /\ o \in gray' \cup grayagain' \cup weak <=> list'[o] # "free" /\ marked'[o] = "gray"
    <3>1. CASE Kept(o)
      BY <2>1, <3>1 DEF Kept, SameLists, isgray
    <3>2. CASE Created(o)
      BY <1>1, <1>3, <2>1, <3>2 DEF Created, SameLists, isgray, Whites, Traversable
    <3>3. CASE Marked(o)
      BY <1>3, <2>1, <3>3 DEF Marked, MarkColour, iswhite, isgray, Whites, Traversable
    <3>4. CASE Grayed(o)
      <4>1. list[o] # "free"
        BY <3>4 DEF Grayed, LinkInv, iswhite, isblack, Whites
      <4>. QED  BY <1>5, <2>1, <3>4, <4>1 DEF Grayed, isblack, isgray
    <3>. QED  BY <1>2, <1>5, <3>1, <3>2, <3>3, <3>4 DEF Whitened
  <2>4. GrayLists'
    BY <1>1, <2>2, <2>3 DEF GrayLists, isgray
  <2>. QED  BY <1>1, <1>4, <1>5, <2>4 DEF LinkInv, Propagating, AtRest, Sweeping, iswhite
<1>6. CASE ~Propagating
  <2>1. ASSUME NEW o \in TraversableObj, list'[o] # "free", ~(marked'[o] \in Whites)
        PROVE  ~iswhite(o) /\ list[o] # "free"
    <3>1. Kept(o) \/ Grayed(o)
      BY <1>1, <1>2, <1>6, <2>1 DEF Created, Marked, Whitened
    <3>. QED  BY <2>1, <3>1 DEF Kept, Grayed, isblack, iswhite, Whites
  <2>. QED  BY <1>1, <1>4, <1>6, <2>1 DEF LinkInv, Propagating, AtRest, Sweeping, iswhite
<1>. QED  BY <1>5, <1>6

(* markroot starts with everything white.                                  *)
LEMMA MarkRootLinks ==
  ASSUME TypeInv, LinkInv, AtRest, MarkRoot
  PROVE  LinkInv'
<1>1. RootMarks \subseteq WhiteObj
  BY DEF RootMarks, MarkSet, WhiteIn, WhiteObj
<1>2. /\ list' = list /\ gcstate' = "propagate"
      /\ marked' = Coloured(RootMarks) /\ gray' = Listed(RootMarks)
      /\ grayagain' = {} /\ weak' = {}
  BY DEF MarkRoot
<1>3. ASSUME NEW o \in TraversableObj
      PROVE  /\ list'[o] = "rootgc" \/ (list'[o] = "free" /\ marked'[o] \in Whites)
             /\ o \in gray' <=> list'[o] # "free" /\ marked'[o] = "gray"
  <2>1. o \in Obj /\ tt[o] \in Traversable
    BY DEF TraversableObj, OfType
  <2>2. list[o] # "free" => iswhite(o)
    BY DEF LinkInv, AtRest
  <2>3. MarkColour(o) = "gray"
    BY <2>1 DEF MarkColour, Traversable
  <2>. QED
    BY <1>1, <1>2, <2>1, <2>2, <2>3 DEF Coloured, Listed, LinkInv, WhiteObj, WhiteIn, iswhite, Whites
<1>4. GrayLists'
  BY <1>2, <1>3 DEF GrayLists, isgray
<1>. QED  BY <1>2, <1>3, <1>4 DEF LinkInv, AtRest, Sweeping, Propagating, iswhite

(* propagatemark moves an object from gray to where its colour says.       *)
LEMMA PropagateMarkLinks ==
  ASSUME TypeInv, LinkInv, NEW x \in gray, PropagateMark(x)
  PROVE  LinkInv'
<1>. DEFINE found == MarkSet(Refs(x))
<1>1. found \subseteq WhiteObj
  BY DEF MarkSet, WhiteIn, WhiteObj
<1>2. /\ list' = list /\ gcstate' = gcstate /\ gcstate = "propagate"
      /\ marked' = [Coloured(found) EXCEPT ![x] = TraversedColour(x)]
      /\ gray' = (gray \ {x}) \cup Listed(found)
      /\ grayagain' = grayagain \cup ({x} \cap Threads)
      /\ weak' = IF IsWeak(x) THEN weak \cup {x} ELSE weak
  BY DEF PropagateMark, collector
<1>3. GrayLists
  BY <1>2 DEF LinkInv, Propagating
<1>4. x \in TraversableObj /\ x \in Obj /\ tt[x] \in Traversable
  BY DEF TypeInv, TypeOK, HeapTypeOK, ColoursTypeOK, TraversableObj, OfType
<1>5. isgray(x) /\ list[x] # "free" /\ x \notin grayagain /\ x \notin weak
  BY <1>3, <1>4 DEF GrayLists
<1>6. x \notin found
  BY <1>1, <1>5 DEF WhiteObj, WhiteIn, iswhite, isgray, Whites
<1>. HIDE DEF found
<1>7. ASSUME NEW o \in TraversableObj
      PROVE  /\ list'[o] = "rootgc" \/ (list'[o] = "free" /\ marked'[o] \in Whites)
             /\ ~(o \in gray' /\ o \in grayagain') /\ ~(o \in gray' /\ o \in weak')
             /\ ~(o \in grayagain' /\ o \in weak')
             /\ o \in gray' \cup grayagain' \cup weak' <=> list'[o] # "free" /\ marked'[o] = "gray"
  <2>1. o \in Obj /\ tt[o] \in Traversable
    BY DEF TraversableObj, OfType
  <2>2. CASE o = x
    <3>1. marked'[o] = TraversedColour(x) /\ o \notin gray'
      BY <1>2, <1>6, <2>1, <2>2 DEF Coloured, Listed
    <3>2. list'[o] = "rootgc"
      BY <1>2, <1>4, <1>5, <2>2 DEF LinkInv
    <3>3. o \in grayagain' <=> tt[o] = "thread"
      BY <1>2, <1>5, <2>1, <2>2 DEF Threads, OfType
    <3>4. o \in weak' <=> IsWeak(o)
      BY <1>2, <1>5, <2>2
    <3>. QED  BY <2>2, <3>1, <3>2, <3>3, <3>4 DEF TraversedColour, IsWeak
  <2>3. CASE o \in found
    <3>1. marked'[o] = "gray" /\ o \in gray' /\ list[o] # "free"
      BY <1>1, <1>2, <1>6, <2>1, <2>3 DEF Coloured, Listed, MarkColour, Traversable, WhiteObj, WhiteIn
    <3>2. o \notin grayagain /\ o \notin weak
      BY <1>1, <1>3, <2>3 DEF GrayLists, WhiteObj, WhiteIn, iswhite, isgray, Whites
    <3>. QED  BY <1>2, <1>6, <2>3, <3>1, <3>2 DEF LinkInv
  <2>4. CASE o # x /\ o \notin found
    <3>1. marked'[o] = marked[o] /\ (o \in gray' <=> o \in gray)
          /\ (o \in grayagain' <=> o \in grayagain) /\ (o \in weak' <=> o \in weak)
      BY <1>2, <2>1, <2>4 DEF Coloured, Listed
    <3>. QED  BY <1>2, <1>3, <2>1, <3>1 DEF LinkInv, GrayLists, isgray, iswhite
  <2>. QED  BY <2>2, <2>3, <2>4
<1>8. gray' \cup grayagain' \cup weak' \subseteq TraversableObj
  <2>1. TypeInv'
    BY PropagateMarkType
  <2>2. Tables \subseteq TraversableObj
    BY DEF Tables, TraversableObj, OfType, Traversable
  <2>. QED  BY <2>1, <2>2 DEF TypeInv, TypeOK, HeapTypeOK, ColoursTypeOK, TraversableObj
<1>9. GrayLists'
  BY <1>7, <1>8 DEF GrayLists, isgray
<1>. QED  BY <1>2, <1>7, <1>9 DEF LinkInv, AtRest, Sweeping, Propagating, iswhite

(* atomic puts all that was marked ahead of the sweep.                     *)
LEMMA AtomicLinks ==
  ASSUME TypeInv, LinkInv, Atomic
  PROVE  LinkInv'
<1>. DEFINE reached    == WhiteClosure(AtomicStart)
            sep        == Separated(reached)
            tofinalize == ToFinalize(sep)
            marks      == reached \cup WhiteClosure(tofinalize \cup UNION {Refs(u) : u \in tofinalize})
            traversed  == Retraversed \cup Listed(marks)
            weaktabs   == {t \in traversed : IsWeak(t)}
            seen       == WhiteIn(UNION {SeenStrings(t, marks) : t \in weaktabs})
<1>1. /\ gcstate = "propagate" /\ gcstate' = "sweepstring"
      /\ marked' = [o \in Obj |-> IF o \in tofinalize THEN "black"
                                  ELSE IF o \in traversed THEN TraversedColour(o)
                                  ELSE IF o \in marks THEN MarkColour(o)
                                  ELSE IF o \in seen THEN "gray"
                                  ELSE marked[o]]
      /\ list' = [o \in Obj |-> IF o \in tofinalize THEN "tmudata" ELSE list[o]]
      /\ unswept' = {o \in Obj : list[o] = "rootgc"} \ tofinalize
  BY DEF Atomic
<1>2. GrayLists
  BY <1>1 DEF LinkInv, Propagating
<1>3. marks \subseteq WhiteObj /\ seen \subseteq WhiteObj
  BY DEF WhiteClosure, WhiteIn, WhiteObj
<1>4. ASSUME NEW o \in TraversableObj
      PROVE  /\ list'[o] = "rootgc" \/ (list'[o] = "free" /\ marked'[o] \in Whites)
             /\ list'[o] = "rootgc" => o \in unswept'
  <2>1. o \in Obj /\ tt[o] \in Traversable
    BY DEF TraversableObj, OfType
  <2>2. o \notin tofinalize
    BY <2>1 DEF ToFinalize, Separated, Udata, OfType, Traversable
  <2>3. list[o] = "free" => o \notin traversed /\ o \notin marks /\ o \notin seen
    BY <1>2, <1>3 DEF GrayLists, Retraversed, Listed, WhiteObj, WhiteIn
  <2>. HIDE DEF tofinalize, marks, traversed, seen
  <2>4. list'[o] = list[o] /\ (list[o] = "free" => marked'[o] = marked[o])
    BY <1>1, <2>1, <2>2, <2>3
  <2>. QED  BY <1>1, <2>1, <2>2, <2>4 DEF LinkInv, iswhite
<1>. QED  BY <1>1, <1>4 DEF LinkInv, AtRest, Sweeping, Propagating, iswhite

(* What a sweep step visits is white or free when it ends.                 *)
LEMMA SweepLinks ==
  ASSUME TypeInv, LinkInv, SweepString \/ \E S \in SUBSET unswept : Sweep(S)
  PROVE  LinkInv'
<1>1. currentwhite \in Whites /\ "white0" \in Whites
  BY DEF TypeInv, TypeOK, HeapTypeOK, Whites
<1>2. \A o \in TraversableObj : o \in Obj /\ tt[o] \in Traversable
  BY DEF TraversableObj, OfType
<1>3. CASE SweepString
  <2>1. /\ gcstate = "sweepstring" /\ gcstate' \in {"sweepstring", "sweep"} /\ unswept' = unswept
    BY <1>3 DEF SweepString
  <2>2. \A o \in TraversableObj : marked'[o] = marked[o] /\ list'[o] = list[o]
    BY <1>2, <1>3 DEF SweepString, Swept, Strings, OfType, Traversable
  <2>. QED  BY <2>1, <2>2 DEF LinkInv, AtRest, Sweeping, Propagating, iswhite
<1>4. ASSUME NEW S \in SUBSET unswept, Sweep(S) PROVE LinkInv'
  <2>. DEFINE all     == S \cup UNION {OpenUpvals(h) : h \in S \cap Threads}
              dead    == {o \in all : isdead(o)}
              orphans == (UNION {OpenUpvals(h) : h \in dead \cap Threads}) \ dead
  <2>1. /\ gcstate = "sweep" /\ gcstate' = (IF unswept \subseteq S THEN "finalize" ELSE gcstate)
        /\ unswept' = unswept \ S
        /\ marked' = [o \in Obj |-> IF o \notin all THEN marked[o]
                                     ELSE IF isdead(o) THEN "white0" ELSE currentwhite]
        /\ list' = [o \in Obj |-> IF o \in dead THEN "free"
                                  ELSE IF o \in orphans THEN "rootgc" ELSE list[o]]
    BY <1>4 DEF Sweep, Swept, SweepEnds
  <2>2. ASSUME NEW o \in TraversableObj
        PROVE  /\ list'[o] = "rootgc" \/ (list'[o] = "free" /\ marked'[o] \in Whites)
               /\ marked'[o] \in Whites \/ (marked'[o] = marked[o] /\ list'[o] = list[o] /\ o \notin S)
    <3>1. o \in all <=> o \in S
      BY <1>2 DEF OpenUpvals, UpVals, OfType, Traversable
    <3>2. o \notin orphans
      BY <1>2 DEF OpenUpvals, UpVals, OfType, Traversable
    <3>3. o \in dead <=> o \in S /\ isdead(o)
      BY <3>1
    <3>. HIDE DEF all, dead, orphans
    <3>. QED  BY <1>1, <1>2, <2>1, <3>1, <3>2, <3>3 DEF LinkInv, iswhite
  <2>. HIDE DEF all, dead, orphans
  <2>. QED  BY <2>1, <2>2 DEF LinkInv, AtRest, Sweeping, Propagating, iswhite
<1>. QED  BY <1>3, <1>4

(* Finalizers and the ends of cycles touch no traversable object.          *)
LEMMA RestLinks ==
  ASSUME TypeInv, LinkInv,
         (\E u \in Udata : GCTM(u) \/ FinalizerReturn(u)) \/ EndCycle \/ FullGC
  PROVE  LinkInv'
<1>1. CASE \E u \in Udata : GCTM(u)
  <2>1. UNCHANGED <<gray, grayagain, weak, gcstate, unswept>>
    BY <1>1 DEF GCTM, collector
  <2>2. \A o \in TraversableObj : marked'[o] = marked[o] /\ list'[o] = list[o]
    BY <1>1 DEF GCTM, TypeInv, TypeOK, HeapTypeOK, ColoursTypeOK, Udata, TraversableObj, OfType,
       Traversable
  <2>3. gcstate = "finalize"
    BY <1>1 DEF GCTM
  <2>. QED  BY <2>1, <2>2, <2>3 DEF LinkInv, AtRest, Sweeping, Propagating, iswhite
<1>2. CASE (\E u \in Udata : FinalizerReturn(u)) \/ EndCycle
  <2>1. UNCHANGED <<list, colours, weak, unswept>>
        /\ (UNCHANGED gcstate \/ (gcstate = "finalize" /\ gcstate' = "pause"))
    BY <1>2 DEF FinalizerReturn, EndCycle, collector
  <2>. QED
    BY <2>1 DEF LinkInv, AtRest, Sweeping, Propagating, iswhite, isgray, GrayLists, colours
<1>3. CASE FullGC
  <2>1. UNCHANGED <<list, marked>>
    BY <1>3 DEF FullGC
  <2>2. CASE UNCHANGED <<unswept, gray, grayagain, weak, gcstate>>
    BY <2>1, <2>2 DEF LinkInv, AtRest, Sweeping, Propagating, iswhite, isgray, GrayLists
  <2>3. CASE gcstate' = "sweepstring" /\ unswept' = {o \in Obj : list[o] = "rootgc"}
    BY <2>1, <2>3 DEF LinkInv, AtRest, Sweeping, Propagating, iswhite, TraversableObj, OfType
  <2>. QED  BY <1>3, <2>2, <2>3 DEF FullGC
<1>. QED  BY <1>1, <1>2, <1>3

(* Every object threaded through gclist is in one list only, and the lists *)
(* hold exactly the gray objects that are still to be traversed, in every  *)
(* heap and whatever becomes weak in the middle of a cycle                 *)
(* (reallymarkobject, propagatemark, luaC_barrierback, singlestep).        *)
THEOREM GrayListsExact == Spec => []LinkedOnce
<1>1. Init => LinkInv
  <2>1. \A o \in TraversableObj : o \in Obj /\ (o \in Fixed => o = Main)
    BY HeapAssumption DEF TraversableObj, OfType, Traversable
  <2>. QED
    BY ZenonT(40), <2>1 DEF Init, HeapInit, CollectorInit, LinkInv, AtRest, Sweeping, Propagating, iswhite, Whites
<1>2. TypeInv /\ LinkInv /\ [Next]_vars => LinkInv'
  <2>. SUFFICES ASSUME TypeInv, LinkInv, [Next]_vars PROVE LinkInv'
    OBVIOUS
  <2>1. CASE UNCHANGED vars
    BY <2>1 DEF vars, colours, collector, LinkInv, AtRest, Sweeping, Propagating, iswhite, isgray,
       GrayLists
  <2>2. CASE Program
    BY <2>2, ProgramLinks
  <2>3. CASE StartCycle \/ FullMark
    BY <2>3, MarkRootLinks DEF StartCycle, FullMark, AtRest
  <2>4. CASE \E o \in gray : PropagateMark(o)
    BY <2>4, PropagateMarkLinks
  <2>5. CASE Atomic
    BY <2>5, AtomicLinks
  <2>6. CASE SweepString \/ \E S \in SUBSET unswept : Sweep(S)
    BY <2>6, SweepLinks
  <2>7. CASE (\E u \in Udata : GCTM(u) \/ FinalizerReturn(u)) \/ EndCycle \/ FullGC
    BY <2>7, RestLinks
  <2>. QED  BY <2>1, <2>2, <2>3, <2>4, <2>5, <2>6, <2>7 DEF Next, Collect, CollectorStep
<1>3. TypeInv /\ LinkInv => LinkedOnce
  <2>1. Tables \subseteq TraversableObj
    BY DEF Tables, TraversableObj, OfType, Traversable
  <2>. QED
    BY <2>1 DEF TypeInv, TypeOK, HeapTypeOK, ColoursTypeOK, LinkInv, GrayLists, LinkedOnce, TraversableObj
<1>. QED  BY <1>1, <1>2, <1>3, InitType, NextType, PTL DEF Spec

-----------------------------------------------------------------------------
(* Userdata are separated before they are freed.                           *)

OldWhite(u) == marked[u] = OtherWhite(currentwhite)

UdataInv ==
  /\ \A u \in Udata : list[u] \in {"free", "rootgc", "tmudata"}
  /\ \A u \in Udata : list[u] # "free" /\ OldWhite(u) =>
       Sweeping /\ u \in unswept /\ list[u] = "rootgc" /\ u \in finalized

FreedAfterFinalized ==
  \A u \in Udata : list[u] # "free" /\ list'[u] = "free" => u \in finalized /\ list[u] = "rootgc"

(* The program frees no userdata and gives none the white of last cycle.   *)
LEMMA ProgramUdata ==
  ASSUME TypeInv, UdataInv, Program
  PROVE  UdataInv' /\ FreedAfterFinalized
<1>1. UNCHANGED <<gcstate, unswept, finalized, currentwhite>> /\ currentwhite \in Whites
  BY ProgramKeeps DEF TypeInv, TypeOK, HeapTypeOK
<1>2. ASSUME NEW u \in Udata
      PROVE  /\ \/ list'[u] = list[u] /\ (marked'[u] = marked[u] \/ marked'[u] # OtherWhite(currentwhite))
                \/ list'[u] = "rootgc" /\ marked'[u] # OtherWhite(currentwhite)
  <2>1. u \in Obj /\ tt[u] = "userdata" /\ u \notin UpVals
    BY DEF Udata, UpVals, OfType
  <2>2. ColourStep(u)
    BY <2>1, ProgramColours
  <2>3. OtherWhite(currentwhite) # currentwhite /\ OtherWhite(currentwhite) \notin {"gray", "black"}
    BY <1>1 DEF OtherWhite, Whites
  <2>. QED
    BY <2>1, <2>2, <2>3 DEF ColourStep, Kept, Created, Resurrected, Marked, Whitened, Grayed, Closed,
       MarkColour
<1>. QED  BY <1>1, <1>2 DEF UdataInv, OldWhite, Sweeping, FreedAfterFinalized

(* luaC_separateudata leaves no old white userdata out.                    *)
LEMMA AtomicUdata ==
  ASSUME TypeInv, UdataInv, Atomic
  PROVE  UdataInv' /\ FreedAfterFinalized
<1>. DEFINE reached    == WhiteClosure(AtomicStart)
            sep        == Separated(reached)
            tofinalize == ToFinalize(sep)
            marks      == reached \cup WhiteClosure(tofinalize \cup UNION {Refs(u) : u \in tofinalize})
            traversed  == Retraversed \cup Listed(marks)
            weaktabs   == {t \in traversed : IsWeak(t)}
            seen       == WhiteIn(UNION {SeenStrings(t, marks) : t \in weaktabs})
<1>1. /\ gcstate' = "sweepstring"
      /\ marked' = [o \in Obj |-> IF o \in tofinalize THEN "black"
                                  ELSE IF o \in traversed THEN TraversedColour(o)
                                  ELSE IF o \in marks THEN MarkColour(o)
                                  ELSE IF o \in seen THEN "gray"
                                  ELSE marked[o]]
      /\ list' = [o \in Obj |-> IF o \in tofinalize THEN "tmudata" ELSE list[o]]
      /\ finalized' = finalized \cup sep
      /\ unswept' = {o \in Obj : list[o] = "rootgc"} \ tofinalize
      /\ currentwhite' = OtherWhite(currentwhite)
  BY DEF Atomic
<1>2. currentwhite \in Whites
  BY DEF TypeInv, TypeOK, HeapTypeOK
<1>3. OtherWhite(currentwhite') = currentwhite
  BY <1>1, <1>2 DEF OtherWhite, Whites
<1>4. ASSUME NEW u \in Udata
      PROVE  /\ list'[u] \in {list[u], "tmudata"}
             /\ list'[u] = "free" => list[u] = "free"
             /\ list'[u] # "free" /\ marked'[u] = currentwhite =>
                  u \in unswept' /\ list'[u] = "rootgc" /\ u \in finalized'
  <2>1. u \in Obj
    BY DEF Udata, OfType
  <2>2. list[u] = "tmudata" => u \in tofinalize
    BY DEF ToFinalize
  <2>3. list[u] = "rootgc" /\ marked[u] = currentwhite /\ u \notin marks => u \in sep \cup finalized
    BY <1>2, <2>1 DEF Separated, WhiteObj, WhiteIn, iswhite
  <2>4. TraversedColour(u) \notin Whites /\ MarkColour(u) \notin Whites
        /\ "gray" \notin Whites /\ "black" \notin Whites
    BY DEF TraversedColour, MarkColour, Whites
  <2>5. list[u] \in {"free", "rootgc", "tmudata"}
    BY DEF UdataInv
  <2>. HIDE DEF tofinalize, marks, traversed, seen, sep
  <2>6. list'[u] = IF u \in tofinalize THEN "tmudata" ELSE list[u]
    BY <1>1, <2>1
  <2>7. ASSUME marked'[u] = currentwhite
        PROVE  u \notin tofinalize /\ u \notin marks /\ marked[u] = currentwhite
    BY <1>1, <1>2, <2>1, <2>4, <2>7
  <2>. QED  BY <1>1, <2>1, <2>2, <2>3, <2>5, <2>6, <2>7
<1>. QED
  BY <1>1, <1>3, <1>4 DEF UdataInv, OldWhite, Sweeping, FreedAfterFinalized

(* A sweep frees only userdata that it has still to visit.                 *)
LEMMA SweepUdata ==
  ASSUME TypeInv, UdataInv, SweepString \/ \E S \in SUBSET unswept : Sweep(S)
  PROVE  UdataInv' /\ FreedAfterFinalized
<1>1. currentwhite' = currentwhite /\ currentwhite # OtherWhite(currentwhite)
  BY DEF SweepString, Sweep, TypeInv, TypeOK, HeapTypeOK, OtherWhite, Whites
<1>2. \A u \in Udata : u \in Obj /\ tt[u] = "userdata"
  BY DEF Udata, OfType
<1>3. CASE SweepString
  <2>. DEFINE bucket == {s \in Strings : list[s] = "strt" /\ Bucket[s] = sweepstrgc}
  <2>1. /\ gcstate = "sweepstring" /\ gcstate' \in {"sweepstring", "sweep"} /\ unswept' = unswept
        /\ finalized' = finalized \ {o \in bucket : isdead(o)}
    BY <1>3 DEF SweepString, Swept
  <2>2. \A u \in Udata : u \notin bucket /\ marked'[u] = marked[u] /\ list'[u] = list[u]
    BY <1>2, <1>3 DEF SweepString, Swept, Strings, OfType
  <2>. QED  BY <1>1, <2>1, <2>2 DEF UdataInv, OldWhite, Sweeping, FreedAfterFinalized
<1>4. ASSUME NEW S \in SUBSET unswept, Sweep(S) PROVE UdataInv' /\ FreedAfterFinalized
  <2>. DEFINE all     == S \cup UNION {OpenUpvals(h) : h \in S \cap Threads}
              dead    == {o \in all : isdead(o)}
              orphans == (UNION {OpenUpvals(h) : h \in dead \cap Threads}) \ dead
  <2>1. /\ gcstate = "sweep" /\ gcstate' = (IF unswept \subseteq S THEN "finalize" ELSE gcstate)
        /\ unswept' = unswept \ S
        /\ marked' = [o \in Obj |-> IF o \notin all THEN marked[o]
                                     ELSE IF isdead(o) THEN "white0" ELSE currentwhite]
        /\ finalized' = finalized \ dead
        /\ list' = [o \in Obj |-> IF o \in dead THEN "free"
                                  ELSE IF o \in orphans THEN "rootgc" ELSE list[o]]
    BY <1>4 DEF Sweep, Swept, SweepEnds
  <2>2. ASSUME NEW u \in Udata
        PROVE  /\ list'[u] \in {list[u], "free"}
               /\ list'[u] = "free" => list[u] = "free" \/ OldWhite(u)
               /\ list'[u] # "free" /\ marked'[u] = OtherWhite(currentwhite) =>
                    /\ marked'[u] = marked[u] /\ list'[u] = list[u]
                    /\ u \notin S /\ (u \in finalized' <=> u \in finalized)
    <3>1. u \in all <=> u \in S
      BY <1>2 DEF OpenUpvals, UpVals, OfType
    <3>2. u \notin orphans
      BY <1>2 DEF OpenUpvals, UpVals, OfType
    <3>3. u \in dead <=> u \in S /\ isdead(u)
      BY <3>1
    <3>. HIDE DEF all, dead, orphans
    <3>. QED  BY <1>1, <1>2, <2>1, <3>1, <3>2, <3>3 DEF OldWhite, isdead
  <2>. HIDE DEF all, dead, orphans
  <2>3. UdataInv'
    BY <1>1, <2>1, <2>2 DEF UdataInv, OldWhite, Sweeping
  <2>4. FreedAfterFinalized
    BY <2>2 DEF UdataInv, FreedAfterFinalized
  <2>. QED  BY <2>3, <2>4
<1>. QED  BY <1>3, <1>4

(* The other steps of the collector free nothing.                          *)
LEMMA OtherStepsUdata ==
  ASSUME TypeInv, UdataInv,
         \/ StartCycle \/ FullMark \/ (\E o \in gray : PropagateMark(o))
         \/ (\E u \in Udata : GCTM(u) \/ FinalizerReturn(u)) \/ EndCycle \/ FullGC
  PROVE  UdataInv' /\ FreedAfterFinalized
<1>1. /\ currentwhite' = currentwhite /\ finalized' = finalized
      /\ currentwhite # OtherWhite(currentwhite)
      /\ OtherWhite(currentwhite) \notin {"gray", "black"}
      /\ marked \in [Obj -> Whites \cup {"gray", "black"}] /\ list \in [Obj -> Lists]
  <2>1. currentwhite \in Whites
    BY DEF TypeInv, TypeOK, HeapTypeOK
  <2>. QED
    BY <2>1 DEF StartCycle, FullMark, MarkRoot, PropagateMark, GCTM, FinalizerReturn, EndCycle, FullGC,
       TypeInv, TypeOK, HeapTypeOK, ColoursTypeOK, OtherWhite, Whites
<1>2. \A u \in Udata : u \in Obj
  BY DEF Udata, OfType
<1>3. ASSUME Sweeping' => (Sweeping /\ unswept' = unswept) \/ AtRest \/ Propagating,
             Sweeping => Sweeping' /\ unswept' = unswept,
             \A u \in Udata : list'[u] = list[u] \/ (list[u] = "tmudata" /\ list'[u] = "rootgc"),
             \A u \in Udata : marked'[u] \in {marked[u], "gray", "black", currentwhite}
      PROVE  UdataInv' /\ FreedAfterFinalized
  BY <1>1, <1>3 DEF UdataInv, OldWhite, FreedAfterFinalized
<1>4. CASE StartCycle \/ FullMark
  <2>1. AtRest /\ MarkRoot
    BY <1>4 DEF StartCycle, FullMark, AtRest
  <2>2. \A o \in Obj : marked'[o] \in {marked[o], "gray", "black"}
    BY <2>1 DEF MarkRoot, Coloured, MarkColour
  <2>. QED  BY <1>2, <1>3, <2>1, <2>2 DEF MarkRoot, AtRest, Sweeping
<1>5. CASE \E o \in gray : PropagateMark(o)
  <2>1. /\ gcstate = "propagate" /\ gcstate' = gcstate /\ unswept' = unswept /\ list' = list
    BY <1>5 DEF PropagateMark, collector
  <2>2. \A o \in Obj : marked'[o] \in {marked[o], "gray", "black"}
    BY <1>5 DEF PropagateMark, Coloured, MarkColour, TraversedColour
  <2>. QED  BY <1>2, <1>3, <2>1, <2>2 DEF Sweeping
<1>6. CASE (\E u \in Udata : GCTM(u) \/ FinalizerReturn(u)) \/ EndCycle
  <2>1. /\ gcstate' = gcstate \/ (gcstate = "finalize" /\ gcstate' = "pause")
        /\ unswept' = unswept
    BY <1>6 DEF GCTM, FinalizerReturn, EndCycle, collector
  <2>2. \A u \in Udata : /\ list'[u] = list[u] \/ (list[u] = "tmudata" /\ list'[u] = "rootgc")
                         /\ marked'[u] \in {marked[u], currentwhite}
    BY <1>1, <1>2, <1>6 DEF GCTM, FinalizerReturn, EndCycle, colours
  <2>. QED  BY <1>3, <2>1, <2>2 DEF Sweeping
<1>7. CASE FullGC
  <2>1. /\ list' = list /\ marked' = marked
        /\ \/ gcstate \in {"pause", "propagate"}
           \/ gcstate' = gcstate /\ unswept' = unswept
    BY <1>7 DEF FullGC
  <2>2. Sweeping => gcstate' = gcstate /\ unswept' = unswept
    BY <2>1 DEF Sweeping
  <2>. QED  BY <1>3, <2>1, <2>2 DEF Sweeping, AtRest, Propagating
<1>. QED  BY <1>4, <1>5, <1>6, <1>7

(* A userdata is freed only by a sweep that comes after luaC_separateudata *)
(* has set its FINALIZEDBIT, so that no finalizer is lost, and never while *)
(* it waits for it in tmudata, whatever happens to its metatable.          *)
THEOREM SeparatedBeforeFreed == Spec => FinalizedBeforeFreed
<1>1. Init => UdataInv
  <2>1. ASSUME Init, NEW u \in Udata PROVE list[u] = "free"
    <3>1. u \in Obj /\ tt[u] = "userdata"
      BY DEF Udata, OfType
    <3>2. u \notin {Main, Registry, Globals} /\ u \notin Fixed
      BY <3>1, HeapAssumption
    <3>. QED  BY <2>1, <3>1, <3>2 DEF Init, HeapInit
  <2>. QED  BY <2>1 DEF UdataInv
<1>2. TypeInv /\ UdataInv /\ [Next]_vars => UdataInv' /\ (FreedAfterFinalized \/ UNCHANGED vars)
  <2>1. CASE UNCHANGED vars
    BY <2>1 DEF vars, colours, collector, UdataInv, OldWhite, Sweeping
  <2>. QED
    BY <2>1, ProgramUdata, AtomicUdata, SweepUdata, OtherStepsUdata DEF Next, Collect, CollectorStep
<1>3. TypeInv /\ UdataInv /\ [Next]_vars =>
        [\A u \in Udata : list[u] # "free" /\ list'[u] = "free" =>
            u \in finalized /\ list[u] = "rootgc"]_vars
  BY <1>2 DEF FreedAfterFinalized
<1>. QED  BY <1>1, <1>2, <1>3, InitType, NextType, PTL DEF Spec, FinalizedBeforeFreed
=============================================================================
