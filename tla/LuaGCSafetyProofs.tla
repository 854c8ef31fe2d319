-------------------------- MODULE LuaGCSafetyProofs --------------------------
(***************************************************************************)
(* The soundness of the collector of LuaGC, for every heap and program: no *)
(* live object refers to a block that is free or about to be freed, the    *)
(* barriers keep black from white, and outside a sweep everything has the  *)
(* current white.                                                          *)
(*                                                                         *)
(* SafeInv is the inductive invariant and ProgramSafe its proof for the    *)
(* program; here are the steps of the collector. The one that matters is   *)
(* Atomic, which decides what lives: what is not white after it refers to  *)
(* nothing that is, weak tables included.                                  *)
(***************************************************************************)
EXTENDS LuaGCProgramProofs

-----------------------------------------------------------------------------
(* What every step of the collector keeps.                                 *)

(* The invariants that are proved in the modules before.                   *)
LEMMA CollectorBasics ==
  ASSUME SafeInv, CollectorStep \/ (\E u \in Udata : FinalizerReturn(u)) \/ FullGC
  PROVE  TypeInv' /\ LinkInv' /\ BlackOK' /\ UdataInv'
<1>1. TypeInv'
  BY NextType DEF SafeInv, Next, Collect
<1>2. BlackOK'
  BY CollectorBlack DEF SafeInv
<1>3. LinkInv'
  <2>1. CASE MarkRoot /\ AtRest
    BY <2>1, MarkRootLinks DEF SafeInv
  <2>. QED
    BY <2>1, PropagateMarkLinks, AtomicLinks, SweepLinks, RestLinks
       DEF SafeInv, CollectorStep, StartCycle, FullMark, AtRest
<1>4. UdataInv'
  BY AtomicUdata, SweepUdata, OtherStepsUdata DEF SafeInv, CollectorStep
<1>. QED  BY <1>1, <1>2, <1>3, <1>4

(* If the heap does not change, no object refers to anything else.         *)
LEMMA HeapKept ==
  ASSUME UNCHANGED heap, NEW o \in Obj
  PROVE  Contents(o)' = Contents(o) /\ Keys(o)' = Keys(o)
<1>1. UNCHANGED <<tab, ud, cl, pr, uv, th>>
  BY DEF heap
<1>2. UpValue(o)' = UpValue(o)
  BY <1>1 DEF UpValue, IsOpen
<1>. QED  BY <1>1, <1>2, SameContents

(* If everything that is live stays live and refers to less, nothing       *)
(* dangles.                                                                *)
LEMMA LessRefs ==
  ASSUME SafeInv, UNCHANGED <<running, mt>>, Live' = Live,
         \A o \in Live : Contents(o)' \subseteq Live,
         \A u \in Udata : list'[u] = "tmudata" => u \in Live
  PROVE  ReferencesLive'
<1>1. Roots \subseteq Live
  BY DEF SafeInv, ReferencesLive
<1>2. Roots' = Roots
  BY DEF Roots
<1>. QED  BY <1>1, <1>2 DEF ReferencesLive

(* What is linked to a list of gray objects is allocated and not white.    *)
LEMMA ListedGray ==
  ASSUME SafeInv, Propagating
  PROVE  Retraversed \subseteq {o \in TraversableObj : list[o] # "free" /\ isgray(o)}
<1>1. GrayLists
  BY DEF SafeInv, LinkInv
<1>2. Retraversed \subseteq TraversableObj
  BY DEF SafeInv, TypeInv, TypeOK, HeapTypeOK, ColoursTypeOK, Retraversed, TraversableObj, Tables,
     OfType, Traversable
<1>. QED  BY <1>1, <1>2 DEF GrayLists, Retraversed

-----------------------------------------------------------------------------
(* The marking phase.                                                      *)

(* What is marked from S: nothing free, nothing that becomes white; what   *)
(* is white and found black or gray keeps the invariants of colours.       *)
LEMMA MarkedFrom ==
  ASSUME SafeInv, NEW S, NEW o \in MarkSet(S)
  PROVE  /\ o \in WhiteObj /\ o \in Obj /\ list[o] # "free" /\ iswhite(o)
         /\ MarkColour(o) \notin Whites
         /\ MarkColour(o) = "gray" => o \notin Udata /\ (o \in UpVals => list[o] = "openupval")
         /\ MarkColour(o) = "black" =>
              tt[o] # "table" /\ WhiteIn(Contents(o)) \subseteq MarkSet(S)
<1>1. o \in WhiteObj
  BY DEF MarkSet, WhiteIn, WhiteObj
<1>2. MarkColour(o) = "black" => WhiteIn(Contents(o)) \subseteq MarkSet(S)
  BY MarkSetClosed DEF SafeInv, TypeInv, TypeOK
<1>. QED
  BY <1>1, <1>2 DEF WhiteObj, WhiteIn, MarkColour, Whites, SafeInv, ListOK, Udata, UpVals, OfType

(* Between cycles everything has the current white, but for userdata that  *)
(* wait for their finalizer; what markroot blackens refers to what it marks*)
LEMMA MarkRootSafe ==
  ASSUME SafeInv, AtRest, MarkRoot, fullgc' \in BOOLEAN
  PROVE  SafeInv'
<1>1. /\ TypeInv /\ ColourOK /\ FreeOK /\ ListOK /\ GrayOK /\ ReferencesLive /\ ChainOK /\ UdataInv
      /\ LinkInv /\ BlackOK /\ currentwhite # OtherWhite(currentwhite)
      /\ OtherWhite(currentwhite) \notin {"gray", "black"} /\ currentwhite \in Whites
      /\ "black" \notin Whites
  BY StateTypes DEF SafeInv
<1>2. /\ marked' = Coloured(RootMarks) /\ gcstate' = "propagate"
      /\ UNCHANGED <<heap, list, finalized, currentwhite, running>>
  BY DEF MarkRoot
<1>3. TypeInv' /\ LinkInv' /\ BlackOK' /\ UdataInv'
  <2>1. TypeInv'
    BY <1>1, MarkRootType
  <2>2. LinkInv'
    BY <1>1, MarkRootLinks
  <2>3. \A o \in Obj : marked'[o] = "black" => isblack(o) \/ MarkColour(o) = "black"
    BY <1>2 DEF Coloured, isblack
  <2>4. BlackOK'
    BY <1>1, <1>2, <2>3 DEF BlackOK, isblack, MarkColour, IsOpen, heap
  <2>5. \A u \in Udata : marked'[u] = marked[u] \/ marked'[u] \in {"gray", "black"}
    BY <1>2 DEF Coloured, MarkColour, Udata, OfType
  <2>6. UdataInv'
    BY <1>1, <1>2, <2>5 DEF UdataInv, OldWhite, AtRest, Sweeping
  <2>. QED  BY <2>1, <2>2, <2>4, <2>6
<1>4. \A o \in Obj : Contents(o)' = Contents(o) /\ Keys(o)' = Keys(o)
  BY <1>2, HeapKept
<1>5. ASSUME NEW o \in Obj
      PROVE  \/ o \in RootMarks /\ marked'[o] = MarkColour(o) /\ list[o] # "free"
             \/ o \notin RootMarks /\ marked'[o] = marked[o]
  BY <1>2, MarkedFrom DEF Coloured, RootMarks
<1>6. Live = Allocated /\ Live' = Allocated
  <2>1. Live = Allocated
    BY <1>1, AllLive
  <2>2. \A o \in Allocated : marked'[o] # OtherWhite(currentwhite)
    BY <1>1, <1>5 DEF ColourOK, AtRest, Propagating, Sweeping, Allocated, isblack, MarkColour
  <2>. QED  BY <1>2, <2>1, <2>2 DEF Live, Allocated, isdead
<1>7. ListOK' /\ ChainOK'
  BY <1>1, <1>2 DEF ListOK, ChainOK, ChainFrom, Resumers, Paired, IsOpen, heap
<1>8. FreeOK'
  BY <1>1, <1>2, <1>4, <1>5 DEF FreeOK, iswhite
<1>9. ColourOK'
  <2>1. ASSUME NEW o \in Obj, list'[o] # "free"
        PROVE  \/ marked'[o] = currentwhite
               \/ list'[o] = "tmudata" /\ marked'[o] = "black"
               \/ marked'[o] \notin Whites
    BY <1>1, <1>2, <1>5, <2>1, MarkedFrom
       DEF ColourOK, AtRest, Propagating, Sweeping, Allocated, isblack, RootMarks
  <2>. QED  BY <1>2, <2>1 DEF ColourOK, Allocated, isblack, iswhite, Propagating
<1>10. GrayOK'
  <2>1. \A o \in Udata \cup UpVals : o \in Obj
    BY DEF Udata, UpVals, OfType
  <2>. QED  BY <1>1, <1>2, <1>5, <2>1, MarkedFrom DEF GrayOK, isgray, RootMarks
<1>11. MarkedOK'
  <2>1. ASSUME NEW x \in Allocated, NEW S, x \in S, WhiteIn(S) \subseteq RootMarks
        PROVE  marked'[x] \notin Whites
    BY <1>1, <1>5, <2>1, MarkedFrom DEF Allocated, WhiteIn, iswhite, RootMarks
  <2>2. WhiteIn({Main, th[Main].gt, Registry, mt}) \subseteq RootMarks
    BY DEF RootMarks, MarkSet
  <2>3. Main \in Allocated /\ Registry \in Allocated
    BY <1>1, <1>6, Permanent DEF ReferencesLive, Roots
  <2>4. marked'[Main] \notin Whites /\ marked'[Registry] \notin Whites
    BY <2>1, <2>2, <2>3
  <2>5. ASSUME NEW o \in Obj, marked'[o] = "black", list[o] # "tmudata",
               NEW x \in Contents(o) \cup Keys(o)
        PROVE  marked'[x] \notin Whites
    <3>1. ~isblack(o)
      BY <1>1, <2>5 DEF FreeOK, ColourOK, AtRest, Propagating, Sweeping, Allocated, iswhite, isblack
    <3>2. o \in RootMarks /\ MarkColour(o) = "black" /\ o \in Allocated
      BY <1>5, <2>5, <3>1 DEF isblack, Allocated
    <3>3. tt[o] # "table" /\ WhiteIn(Contents(o)) \subseteq RootMarks
      BY <3>2, MarkedFrom DEF RootMarks
    <3>4. x \in Contents(o) /\ x \in Allocated
      BY <1>1, <1>6, <2>5, <3>2, <3>3 DEF ReferencesLive, Keys
    <3>. QED  BY <2>1, <3>3, <3>4
  <2>. QED  BY <1>2, <1>4, <2>4, <2>5 DEF MarkedOK, isblack, iswhite
<1>12. ReferencesLive'
  <2>1. \A o \in Live : Contents(o)' \subseteq Live
    BY <1>1, <1>4 DEF ReferencesLive, Live, Allocated
  <2>2. \A u \in Udata : list'[u] = "tmudata" => u \in Live
    BY <1>1, <1>2 DEF ReferencesLive
  <2>. QED  BY <1>2, <1>6, <2>1, <2>2, LessRefs DEF heap
<1>. QED  BY <1>3, <1>7, <1>8, <1>9, <1>10, <1>11, <1>12 DEF SafeInv

(* traversetable gives up what the program cannot see: the contents stay,  *)
(* and of the keys those of entries remain.                                *)
LEMMA CleanedContents ==
  ASSUME SafeInv, NEW t \in Tables, tab'[t] = Cleaned(t)
  PROVE  /\ Contents(t)' = Contents(t) /\ Keys(t)' \subseteq Keys(t)
         /\ Mode(t) = {} => Keys(t)' \subseteq Contents(t)
<1>1. tab[t] \in TableRec(t) /\ t \in Obj /\ tt[t] = "table"
  BY DEF SafeInv, TypeInv, TypeOK, HeapTypeOK, ContentsTypeOK, Tables, OfType
<1>2. /\ tab'[t].metatable = tab[t].metatable /\ tab'[t].array = tab[t].array
      /\ \A s \in NodeSlots[t] : tab'[t].node[s] = CleanedNode(t, tab[t].node[s])
  BY <1>1 DEF Cleaned, TableRec
<1>3. ASSUME NEW s \in NodeSlots[t]
      PROVE  /\ tab'[t].node[s].val = tab[t].node[s].val
             /\ tab[t].node[s].val # Nil => tab'[t].node[s].key = tab[t].node[s].key
             /\ tab'[t].node[s].key \in Obj => tab'[t].node[s].key = tab[t].node[s].key
             /\ Mode(t) = {} /\ tab'[t].node[s].key \in Obj => tab[t].node[s].val # Nil
  <2>1. \/ tab'[t].node[s] = tab[t].node[s] /\ ~(tab[t].node[s].val = Nil /\ Mode(t) # {"k", "v"})
        \/ tab[t].node[s].val = Nil /\ tab'[t].node[s].val = Nil /\ tab'[t].node[s].key \notin Obj
    <3>1. CASE tab[t].node[s].val = Nil /\ Mode(t) # {"k", "v"}
      <4>1. tab'[t].node[s] = RemoveEntry(tab[t].node[s])
        BY <1>2, <3>1 DEF CleanedNode
      <4>. QED  BY <3>1, <4>1, HeapAssumption DEF RemoveEntry
    <3>2. CASE ~(tab[t].node[s].val = Nil /\ Mode(t) # {"k", "v"})
      <4>1. tab'[t].node[s] = tab[t].node[s]
        BY <1>2, <3>2 DEF CleanedNode
      <4>. QED  BY <3>2, <4>1
    <3>. QED  BY <3>1, <3>2
  <2>. QED  BY <2>1
<1>4. FullNodes(t)' = FullNodes(t)
  BY <1>3 DEF FullNodes
<1>5. NodeKeys(t)' = NodeKeys(t) /\ NodeVals(t)' = NodeVals(t) /\ ArrayVals(t)' = ArrayVals(t)
  BY <1>2, <1>3, <1>4 DEF NodeKeys, NodeVals, ArrayVals, FullNodes
<1>6. Contents(t)' = Contents(t)
  BY <1>1, <1>2, <1>5 DEF Contents
<1>7. Keys(t)' \subseteq Keys(t)
  BY <1>1, <1>3 DEF Keys
<1>8. Mode(t) = {} => Keys(t)' \subseteq Contents(t)
  BY <1>1, <1>3 DEF Keys, Contents, NodeKeys, FullNodes
<1>. QED  BY <1>6, <1>7, <1>8

(* A table that is not weak marks all that it refers to.                   *)
LEMMA StrongContents ==
  ASSUME SafeInv, NEW o \in Obj, ~IsWeak(o)
  PROVE  Contents(o) = Refs(o)
BY DEF IsWeak, Contents, Refs

(* A traversed object turns black only if it has marked all that it refers *)
(* to.                                                                     *)
LEMMA PropagateMarkSafe ==
  ASSUME SafeInv, NEW x \in gray, PropagateMark(x)
  PROVE  SafeInv'
<1>. DEFINE found == MarkSet(Refs(x))
<1>1. /\ TypeInv /\ ColourOK /\ FreeOK /\ ListOK /\ GrayOK /\ ReferencesLive /\ ChainOK /\ MarkedOK
      /\ currentwhite # OtherWhite(currentwhite) /\ currentwhite \in Whites
      /\ OtherWhite(currentwhite) \in Whites /\ "black" \notin Whites /\ "gray" \notin Whites
      /\ marked \in [Obj -> Whites \cup {"gray", "black"}]
  BY StateTypes DEF SafeInv
<1>2. /\ marked' = [Coloured(found) EXCEPT ![x] = TraversedColour(x)] /\ Propagating
      /\ tab' = [t \in Tables |-> IF t = x THEN Cleaned(t) ELSE tab[t]]
      /\ UNCHANGED <<ud, cl, pr, uv, th, mt, list, finalized, currentwhite, running>>
      /\ UNCHANGED <<gcstate, sweepstrgc, unswept, fullgc>>
  BY DEF PropagateMark, Propagating, collector
<1>3. x \in Obj /\ list[x] # "free" /\ isgray(x) /\ tt[x] \in Traversable /\ x \in Allocated
  <2>1. x \in Retraversed
    BY DEF Retraversed
  <2>. QED  BY <1>2, <2>1, ListedGray DEF TraversableObj, OfType, Allocated
<1>4. TypeInv' /\ LinkInv' /\ BlackOK' /\ UdataInv'
  BY CollectorBasics DEF CollectorStep
<1>5. ASSUME NEW o \in Obj
      PROVE  \/ o = x /\ marked'[o] = TraversedColour(o)
             \/ o # x /\ o \in found /\ marked'[o] = MarkColour(o)
             \/ o # x /\ o \notin found /\ marked'[o] = marked[o]
  BY <1>2 DEF Coloured
<1>. HIDE DEF found
<1>6. ASSUME NEW o \in Obj
      PROVE  /\ Contents(o)' = Contents(o) /\ Keys(o)' \subseteq Keys(o)
             /\ o = x /\ ~IsWeak(x) => Keys(o)' \subseteq Contents(o)
  <2>1. CASE o = x /\ tt[o] = "table"
    <3>1. o \in Tables /\ tab'[o] = Cleaned(o)
      BY <1>2, <2>1 DEF Tables, OfType
    <3>. QED  BY <2>1, <3>1, CleanedContents DEF IsWeak
  <2>2. CASE ~(o = x /\ tt[o] = "table")
    <3>1. tt[o] = "table" => tab'[o] = tab[o]
      BY <1>2, <2>2 DEF Tables, OfType
    <3>2. UpValue(o)' = UpValue(o)
      BY <1>2 DEF UpValue, IsOpen
    <3>3. Contents(o)' = Contents(o) /\ Keys(o)' = Keys(o)
      BY <1>2, <3>1, <3>2, SameContents
    <3>. QED  BY <2>2, <3>3 DEF Keys
  <2>. QED  BY <2>1, <2>2
<1>7. \A o \in found : /\ o \in Obj /\ list[o] # "free" /\ iswhite(o) /\ MarkColour(o) \notin Whites
                       /\ MarkColour(o) = "gray" => o \notin Udata /\ (o \in UpVals => list[o] = "openupval")
                       /\ MarkColour(o) = "black" =>
                            tt[o] # "table" /\ WhiteIn(Contents(o)) \subseteq found
  BY <1>1, MarkedFrom DEF found
<1>8. TraversedColour(x) \in {"gray", "black"} /\ (TraversedColour(x) = "black" => ~IsWeak(x))
  BY DEF TraversedColour
<1>9. ASSUME NEW o \in Obj, marked'[o] # marked[o] PROVE list[o] # "free" /\ marked'[o] \notin Whites
  BY <1>1, <1>3, <1>5, <1>7, <1>8, <1>9
<1>10. Live' = Live
  BY <1>1, <1>2, <1>9, AllLive DEF Live, Allocated, isdead
<1>11. ListOK' /\ ChainOK'
  BY <1>1, <1>2 DEF ListOK, ChainOK, ChainFrom, Resumers, Paired, IsOpen
<1>12. FreeOK'
  BY <1>1, <1>2, <1>6, <1>9 DEF FreeOK, iswhite
<1>13. ColourOK'
  <2>1. ASSUME NEW o \in Obj, list'[o] # "free"
        PROVE  \/ marked'[o] = currentwhite
               \/ list'[o] = "tmudata" /\ marked'[o] = "black"
               \/ marked'[o] \notin Whites
    BY <1>1, <1>2, <1>9, <2>1 DEF ColourOK, Propagating, Sweeping, Allocated, isblack, iswhite
  <2>. QED  BY <1>2, <2>1 DEF ColourOK, Allocated, isblack, iswhite, Propagating
<1>14. GrayOK'
  <2>1. \A o \in Udata \cup UpVals : o \in Obj /\ o # x
    BY <1>3 DEF Udata, UpVals, OfType, Traversable
  <2>. QED  BY <1>1, <1>2, <1>5, <1>7, <2>1 DEF GrayOK, isgray
<1>15. MarkedOK'
  <2>1. ASSUME NEW y \in Obj, ~iswhite(y) PROVE marked'[y] \notin Whites
    BY <1>9, <2>1 DEF iswhite
  <2>2. ASSUME NEW y \in Allocated, NEW S, y \in S, WhiteIn(S) \subseteq found
        PROVE  marked'[y] \notin Whites
    <3>1. CASE iswhite(y)
      <4>1. y \in found /\ y \in Obj
        BY <2>2, <3>1 DEF Allocated, WhiteIn
      <4>. QED  BY <1>1, <1>5, <1>7, <1>8, <4>1
    <3>2. CASE ~iswhite(y)
      BY <2>1, <3>2 DEF Allocated
    <3>. QED  BY <3>1, <3>2
  <2>3. Live = Allocated
    BY <1>1, <1>2, AllLive
  <2>4. ASSUME NEW o \in Obj, marked'[o] = "black", list[o] # "tmudata",
               NEW y \in Contents(o)' \cup Keys(o)'
        PROVE  marked'[y] \notin Whites
    <3>1. CASE o = x
      <4>1. ~IsWeak(x)
        BY <1>5, <1>8, <2>4, <3>1
      <4>2. y \in Refs(x) /\ y \in Allocated
        <5>1. y \in Contents(x) /\ x \in Live
          BY <1>3, <1>6, <2>3, <2>4, <3>1, <4>1
        <5>. QED  BY <1>1, <1>3, <2>3, <4>1, <5>1, StrongContents DEF ReferencesLive
      <4>3. WhiteIn(Refs(x)) \subseteq found
        BY DEF found, MarkSet
      <4>. QED  BY <2>2, <4>2, <4>3
    <3>2. CASE o \in found /\ o # x
      <4>1. MarkColour(o) = "black" /\ o \in Live
        BY <1>5, <1>7, <2>3, <2>4, <3>2 DEF Allocated
      <4>2. y \in Contents(o) /\ WhiteIn(Contents(o)) \subseteq found
        BY <1>6, <1>7, <2>4, <3>2, <4>1 DEF Keys
      <4>3. y \in Allocated
        BY <1>1, <2>3, <4>1, <4>2 DEF ReferencesLive
      <4>. QED  BY <2>2, <4>2, <4>3
    <3>3. CASE o \notin found /\ o # x
      <4>1. isblack(o) /\ y \in Contents(o) \cup Keys(o)
        BY <1>5, <1>6, <2>4, <3>3 DEF isblack
      <4>2. ~iswhite(y) /\ y \in Obj
        BY <1>1, <1>2, <2>4, <4>1 DEF MarkedOK, Contents, Keys
      <4>. QED  BY <2>1, <4>2
    <3>. QED  BY <3>1, <3>2, <3>3
  <2>5. marked'[Main] \notin Whites /\ marked'[Registry] \notin Whites
    BY <1>1, <1>2, <2>1, Permanent DEF MarkedOK
  <2>. QED  BY <1>2, <2>4, <2>5 DEF MarkedOK, isblack, iswhite, Propagating
<1>16. ReferencesLive'
  <2>1. \A o \in Live : Contents(o)' \subseteq Live
    BY <1>1, <1>6 DEF ReferencesLive, Live, Allocated
  <2>2. \A u \in Udata : list'[u] = "tmudata" => u \in Live
    BY <1>1, <1>2 DEF ReferencesLive
  <2>. QED  BY <1>2, <1>10, <2>1, <2>2, LessRefs
<1>. QED  BY <1>4, <1>11, <1>12, <1>13, <1>14, <1>15, <1>16 DEF SafeInv

-----------------------------------------------------------------------------
(* The end of the marking phase.                                           *)

(* propagateall leaves no white object that a marked one refers to.        *)
LEMMA ClosureClosed ==
  ASSUME NEW S
  PROVE  /\ WhiteIn(S) \subseteq WhiteClosure(S) /\ WhiteClosure(S) \subseteq WhiteObj
         /\ \A x \in WhiteClosure(S) : WhiteIn(Refs(x)) \subseteq WhiteClosure(S)
<1>1. WhiteIn(S) \subseteq WhiteObj /\ \A x : WhiteIn(Refs(x)) \subseteq WhiteObj
  BY DEF WhiteIn, WhiteObj
<1>2. WhiteIn(S) \subseteq WhiteClosure(S) /\ WhiteClosure(S) \subseteq WhiteObj
  BY <1>1 DEF WhiteClosure
<1>3. ASSUME NEW x \in WhiteClosure(S), NEW y \in WhiteIn(Refs(x)) PROVE y \in WhiteClosure(S)
  <2>1. ASSUME NEW X \in SUBSET WhiteObj, WhiteIn(S) \subseteq X,
               \A z \in X : WhiteIn(Refs(z)) \subseteq X
        PROVE  y \in X
    <3>1. x \in X
      BY <2>1 DEF WhiteClosure
    <3>. QED  BY <2>1, <3>1, <1>3
  <2>2. y \in WhiteObj
    BY <1>1, <1>3
  <2>. QED  BY <2>1, <2>2 DEF WhiteClosure
<1>. QED  BY <1>2, <1>3

(* What a table still refers to when it was traversed and cleared is what  *)
(* it marked, what is not dead, or a string that cleartable has marked.    *)
LEMMA ClearedContents ==
  ASSUME SafeInv, NEW t \in Tables, NEW marks, NEW fin, tab'[t] = Cleared(t, marks, fin),
         NEW x \in Contents(t)'
  PROVE  /\ x \in Contents(t)
         /\ \/ x \in Refs(t)
            \/ x \notin WhiteObj \ marks
            \/ IsWeak(t) /\ x \in SeenStrings(t, marks)
<1>. DEFINE safe == \/ x \in Refs(t)
                    \/ x \notin WhiteObj \ marks
                    \/ IsWeak(t) /\ x \in SeenStrings(t, marks)
<1>1. tab[t] \in TableRec(t) /\ t \in Obj /\ tt[t] = "table" /\ x \in Obj
  BY DEF SafeInv, TypeInv, TypeOK, HeapTypeOK, ContentsTypeOK, Tables, OfType, Contents
<1>2. /\ tab'[t].metatable = tab[t].metatable
      /\ \A s \in ArraySlots[t] : tab'[t].array[s] =
           IF "v" \in Mode(t) /\ DeadValue(tab[t].array[s], marks, fin) THEN Nil ELSE tab[t].array[s]
      /\ \A s \in NodeSlots[t] : tab'[t].node[s] =
           IF IsWeak(t) /\ DeadEntry(tab[t].node[s], marks, fin) THEN RemoveEntry(tab[t].node[s])
           ELSE CleanedNode(t, tab[t].node[s])
  BY <1>1 DEF Cleared, TableRec
<1>3. x \in {tab'[t].metatable} \cup ArrayVals(t)' \cup NodeKeys(t)' \cup NodeVals(t)'
  BY <1>1 DEF Contents
<1>4. CASE x = tab'[t].metatable
  BY <1>1, <1>2, <1>4 DEF Contents, Refs
<1>5. ~Dead(x, marks) => x \notin WhiteObj \ marks \/ x \in Strings
  BY <1>1 DEF Dead, Strings, OfType
<1>6. CASE x \in ArrayVals(t)'
  <2>1. PICK s \in ArraySlots[t] : x = tab'[t].array[s]
    BY <1>6 DEF ArrayVals
  <2>2. /\ x = tab[t].array[s] /\ x \in ArrayVals(t)
        /\ "v" \in Mode(t) => ~DeadValue(x, marks, fin)
    BY <1>1, <1>2, <2>1, HeapAssumption DEF ArrayVals
  <2>3. x \in Contents(t) /\ ("v" \notin Mode(t) => x \in Refs(t))
    BY <1>1, <2>2 DEF Contents, Refs
  <2>4. "v" \in Mode(t) => safe
    BY <1>1, <1>5, <2>2 DEF DeadValue, SeenStrings, IsWeak
  <2>. QED  BY <2>3, <2>4
<1>7. ASSUME NEW s \in NodeSlots[t], tab'[t].node[s].val # Nil
      PROVE  /\ tab'[t].node[s] = tab[t].node[s] /\ s \in FullNodes(t)
             /\ IsWeak(t) => ~DeadEntry(tab[t].node[s], marks, fin)
  <2>1. \A n : RemoveEntry(n).val = Nil
    BY DEF RemoveEntry
  <2>. QED  BY <1>2, <1>7, <2>1 DEF CleanedNode, FullNodes
<1>8. CASE x \in NodeKeys(t)'
  <2>1. PICK s \in NodeSlots[t] : x = tab'[t].node[s].key /\ tab'[t].node[s].val # Nil
    BY <1>8 DEF NodeKeys, FullNodes
  <2>2. x = tab[t].node[s].key /\ x \in NodeKeys(t) /\ tab[t].node[s].val # Nil
    BY <1>7, <2>1 DEF NodeKeys, FullNodes
  <2>3. x \in Contents(t) /\ (~IsWeak(t) => x \in Refs(t))
    BY <1>1, <2>2 DEF Contents, Refs, IsWeak
  <2>4. IsWeak(t) => ~Dead(x, marks)
    BY <1>7, <2>1, <2>2 DEF DeadEntry
  <2>5. x \in Strings => x \in SeenStrings(t, marks)
    BY <2>2 DEF SeenStrings
  <2>. QED  BY <1>5, <2>3, <2>4, <2>5
<1>9. CASE x \in NodeVals(t)'
  <2>1. PICK s \in NodeSlots[t] : x = tab'[t].node[s].val /\ tab'[t].node[s].val # Nil
    BY <1>9 DEF NodeVals, FullNodes
  <2>2. x = tab[t].node[s].val /\ x \in NodeVals(t) /\ s \in FullNodes(t)
    BY <1>7, <2>1 DEF NodeVals
  <2>3. x \in Contents(t) /\ (~IsWeak(t) => x \in Refs(t))
    BY <1>1, <2>2 DEF Contents, Refs, IsWeak
  <2>4. IsWeak(t) => ~Dead(x, marks) /\ ~Dead(tab[t].node[s].key, marks)
    BY <1>7, <2>1, <2>2 DEF DeadEntry, DeadValue
  <2>5. x \in Strings /\ ~Dead(tab[t].node[s].key, marks) => x \in SeenStrings(t, marks)
    BY <2>2 DEF SeenStrings
  <2>. QED  BY <1>5, <2>3, <2>4, <2>5
<1>. QED  BY <1>3, <1>4, <1>6, <1>8, <1>9

(* The collector has marked everything that can be reached, so that what   *)
(* stays white, and will be swept, is not referred to by anything that is  *)
(* not; what finalizers may revive is marked as well.                      *)
LEMMA AtomicSafe ==
  ASSUME SafeInv, Atomic
  PROVE  SafeInv'
<1>. DEFINE reached    == WhiteClosure(AtomicStart)
            sep        == Separated(reached)
            tofinalize == ToFinalize(sep)
            marks      == reached \cup WhiteClosure(tofinalize \cup UNION {Refs(u) : u \in tofinalize})
            traversed  == Retraversed \cup Listed(marks)
            weaktabs   == {t \in traversed : IsWeak(t)}
            seen       == WhiteIn(UNION {SeenStrings(t, marks) : t \in weaktabs})
<1>1. /\ TypeInv /\ LinkInv /\ UdataInv /\ BlackOK
      /\ ColourOK /\ FreeOK /\ ListOK /\ GrayOK /\ ReferencesLive /\ ChainOK /\ MarkedOK
      /\ currentwhite # OtherWhite(currentwhite) /\ currentwhite \in Whites
      /\ OtherWhite(OtherWhite(currentwhite)) = currentwhite
      /\ OtherWhite(currentwhite) \in Whites /\ "black" \notin Whites /\ "gray" \notin Whites
      /\ marked \in [Obj -> Whites \cup {"gray", "black"}] /\ list \in [Obj -> Lists]
  BY StateTypes DEF SafeInv, Whites, OtherWhite
<1>2. /\ Propagating /\ gray = {}
      /\ marked' = [o \in Obj |-> IF o \in tofinalize THEN "black"
                                  ELSE IF o \in traversed THEN TraversedColour(o)
                                  ELSE IF o \in marks THEN MarkColour(o)
                                  ELSE IF o \in seen THEN "gray"
                                  ELSE marked[o]]
      /\ list' = [o \in Obj |-> IF o \in tofinalize THEN "tmudata" ELSE list[o]]
      /\ tab' = [t \in Tables |-> IF t \in traversed
                                  THEN Cleared(t, marks, finalized \cup sep) ELSE tab[t]]
      /\ unswept' = {o \in Obj : list[o] = "rootgc"} \ tofinalize
      /\ currentwhite' = OtherWhite(currentwhite) /\ sweepstrgc' = 0 /\ gcstate' = "sweepstring"
      /\ UNCHANGED <<ud, cl, pr, uv, th, mt, running>>
  BY DEF Atomic, Propagating
<1>3. TypeInv' /\ LinkInv' /\ BlackOK' /\ UdataInv'
  BY CollectorBasics DEF CollectorStep
<1>4. /\ marks \subseteq WhiteObj
      /\ WhiteIn(AtomicStart) \subseteq marks
      /\ \A u \in tofinalize : WhiteIn(Refs(u)) \subseteq marks
      /\ \A x \in marks : WhiteIn(Refs(x)) \subseteq marks
  <2>. DEFINE from == tofinalize \cup UNION {Refs(u) : u \in tofinalize}
  <2>1. /\ WhiteIn(AtomicStart) \subseteq reached /\ reached \subseteq WhiteObj
        /\ \A x \in reached : WhiteIn(Refs(x)) \subseteq reached
    BY ClosureClosed
  <2>2. /\ WhiteIn(from) \subseteq WhiteClosure(from) /\ WhiteClosure(from) \subseteq WhiteObj
        /\ \A x \in WhiteClosure(from) : WhiteIn(Refs(x)) \subseteq WhiteClosure(from)
    <3>. HIDE DEF from
    <3>. QED  BY ClosureClosed
  <2>3. \A u \in tofinalize : WhiteIn(Refs(u)) \subseteq WhiteIn(from)
    BY DEF WhiteIn
  <2>4. marks = reached \cup WhiteClosure(from)
    OBVIOUS
  <2>. HIDE DEF from, reached, marks, tofinalize
  <2>. QED  BY <2>1, <2>2, <2>3, <2>4
<1>5. /\ tofinalize \subseteq Udata
      /\ \A u \in tofinalize : list[u] \in {"rootgc", "tmudata"}
      /\ \A u \in Udata : list[u] = "tmudata" => u \in tofinalize
  BY DEF ToFinalize, Separated
<1>6. /\ traversed = Retraversed \cup Listed(marks) /\ Listed(marks) \subseteq marks
      /\ \A o \in marks : tt[o] \in Traversable => o \in traversed
      /\ \A o \in traversed : tt[o] \in Traversable
  <2>1. \A o \in Retraversed : tt[o] \in Traversable
    BY <1>2, ListedGray DEF TraversableObj, OfType
  <2>. QED  BY <2>1 DEF Listed
<1>7. seen \subseteq WhiteIn(Strings)
  BY DEF SeenStrings, WhiteIn
<1>8. \A t \in traversed : IsWeak(t) => WhiteIn(SeenStrings(t, marks)) \subseteq seen
  BY DEF WhiteIn
<1>. HIDE DEF reached, sep, tofinalize, marks, traversed, weaktabs, seen
<1>9. Retraversed \subseteq {o \in TraversableObj : list[o] # "free" /\ isgray(o)}
  BY <1>2, ListedGray
<1>10. ASSUME NEW o \in Obj
       PROVE  \/ o \in tofinalize /\ marked'[o] = "black" /\ list'[o] = "tmudata"
              \/ /\ o \in traversed /\ marked'[o] = TraversedColour(o) /\ list'[o] = list[o]
                 /\ o \notin tofinalize
              \/ /\ o \in marks \ traversed /\ marked'[o] = MarkColour(o) /\ list'[o] = list[o]
                 /\ o \notin tofinalize
              \/ o \in seen /\ marked'[o] = "gray" /\ list'[o] = list[o] /\ o \notin tofinalize
              \/ /\ o \notin tofinalize \cup traversed \cup marks \cup seen
                 /\ marked'[o] = marked[o] /\ list'[o] = list[o]
  BY <1>2
<1>11. ASSUME NEW o \in tofinalize \cup traversed \cup marks \cup seen
       PROVE  o \in Obj /\ list[o] # "free" /\ marked'[o] \notin Whites /\ list'[o] # "free"
  <2>1. o \in Obj /\ list[o] # "free"
    BY <1>4, <1>5, <1>6, <1>7, <1>9 DEF WhiteObj, WhiteIn, TraversableObj, OfType, Udata
  <2>2. TraversedColour(o) \notin Whites /\ MarkColour(o) \notin Whites
    BY DEF TraversedColour, MarkColour, Whites
  <2>. QED  BY <1>1, <1>10, <2>1, <2>2
<1>12. ASSUME NEW o \in Obj
       PROVE  /\ list'[o] = "free" <=> list[o] = "free"
              /\ list[o] = "free" => marked'[o] = marked[o]
              /\ o \in UpVals \cup Strings \cup Threads => list'[o] = list[o]
  <2>1. o \in UpVals \cup Strings \cup Threads => o \notin tofinalize
    BY <1>5 DEF UpVals, Strings, Threads, Udata, OfType
  <2>. QED  BY <1>10, <1>11, <2>1
<1>13. ASSUME NEW o \in Obj, ~iswhite(o) PROVE marked'[o] \notin Whites
  BY <1>10, <1>11, <1>13 DEF iswhite
<1>14. ASSUME NEW x \in Allocated, NEW S, x \in S, WhiteIn(S) \subseteq marks
       PROVE  marked'[x] \notin Whites
  <2>1. x \in Obj /\ list[x] # "free"
    BY DEF Allocated
  <2>2. CASE iswhite(x)
    BY <1>11, <1>14, <2>1, <2>2 DEF WhiteIn
  <2>3. CASE ~iswhite(x)
    BY <1>13, <2>1, <2>3
  <2>. QED  BY <2>2, <2>3
<1>15. Live = Allocated
  BY <1>1, <1>2, AllLive
<1>16. Live' = {o \in Allocated : marked'[o] \notin Whites \/ o \in Fixed}
  <2>1. ASSUME NEW o \in Allocated
        PROVE  isdead(o)' <=> marked'[o] \in Whites /\ o \notin Fixed
    <3>1. marked'[o] \in Whites => marked'[o] = currentwhite
      <4>1. o \in Obj /\ list[o] # "free" /\ Propagating
        BY <1>2 DEF Allocated
      <4>2. marked[o] \in Whites => marked[o] = currentwhite
        BY <1>1, <4>1 DEF ColourOK, Propagating, Sweeping, Allocated, isblack, iswhite
      <4>. QED  BY <1>10, <1>11, <4>1, <4>2
    <3>. QED  BY <1>1, <1>2, <3>1 DEF isdead
  <2>2. Allocated' = Allocated
    BY <1>12 DEF Allocated
  <2>. QED  BY <2>1, <2>2 DEF Live
<1>17. ASSUME NEW o \in Obj
       PROVE  /\ Contents(o)' \subseteq Contents(o)
              /\ o \notin traversed \/ tt[o] # "table" => Contents(o)' = Contents(o)
  <2>1. CASE tt[o] = "table" /\ o \in traversed
    <3>1. o \in Tables /\ tab'[o] = Cleared(o, marks, finalized \cup sep)
      BY <1>2, <2>1 DEF Tables, OfType
    <3>2. \A x \in Contents(o)' : x \in Contents(o)
      BY <3>1, ClearedContents
    <3>. QED  BY <2>1, <3>2
  <2>2. CASE ~(tt[o] = "table" /\ o \in traversed)
    <3>1. tt[o] = "table" => tab'[o] = tab[o]
      BY <1>2, <2>2 DEF Tables, OfType
    <3>2. UpValue(o)' = UpValue(o)
      BY <1>2 DEF UpValue, IsOpen
    <3>. QED  BY <1>2, <3>1, <3>2, SameContents
  <2>. QED  BY <2>1, <2>2
<1>18. ASSUME NEW o \in Allocated, marked'[o] \notin Whites, NEW x \in Contents(o)'
       PROVE  marked'[x] \notin Whites \/ x \in Fixed
  <2>1. o \in Obj /\ x \in Contents(o) /\ x \in Allocated
    <3>1. o \in Obj /\ x \in Contents(o)
      BY <1>17 DEF Allocated
    <3>. QED  BY <1>1, <1>15, <3>1 DEF ReferencesLive
  <2>2. ASSUME WhiteIn(Refs(o)) \subseteq marks, o \notin traversed \/ tt[o] # "table"
        PROVE  marked'[x] \notin Whites
    <3>1. CASE x \in Refs(o)
      BY <1>14, <2>1, <2>2, <3>1
    <3>2. CASE x \notin Refs(o)
      <4>1. tt[o] = "table"
        BY <2>1, <3>2, NonTableContents
      <4>2. o \notin traversed
        BY <2>2, <4>1
      <4>3. o \notin marks
        BY <1>6, <4>1, <4>2 DEF Traversable
      <4>4. ~iswhite(o) /\ isblack(o)
        <5>1. ~iswhite(o)
          <6>1. o \notin tofinalize \cup seen
            BY <1>5, <1>7, <4>1 DEF Udata, WhiteIn, Strings, OfType
          <6>. QED  BY <1>10, <1>18, <2>1, <4>2, <4>3, <6>1 DEF iswhite
        <5>2. ~isgray(o)
          <6>1. o \in TraversableObj
            BY <2>1, <4>1 DEF TraversableObj, OfType, Traversable
          <6>. QED
            BY <1>1, <1>2, <1>6, <2>1, <4>2, <6>1 DEF LinkInv, GrayLists, Retraversed, Allocated
        <5>. QED  BY <1>1, <2>1, <5>1, <5>2 DEF iswhite, isgray, isblack
      <4>5. list[o] # "tmudata"
        BY <1>1, <2>1, <4>1 DEF LinkInv, TraversableObj, OfType, Traversable
      <4>6. ~iswhite(x)
        BY <1>1, <1>2, <2>1, <4>4, <4>5 DEF MarkedOK
      <4>. QED  BY <1>13, <2>1, <4>6 DEF Allocated
    <3>. QED  BY <3>1, <3>2
  <2>3. CASE o \in tofinalize
    <3>1. tt[o] # "table"
      BY <1>5, <2>3 DEF Udata, OfType
    <3>. QED  BY <1>4, <2>2, <2>3, <3>1
  <2>4. CASE o \in marks \cup Retraversed
    <3>1. WhiteIn(Refs(o)) \subseteq marks
      <4>1. CASE o \in marks
        BY <1>4, <4>1
      <4>2. CASE o \in Retraversed
        <5>1. WhiteIn(Refs(o)) \subseteq WhiteIn(AtomicStart)
          BY <4>2 DEF AtomicStart, WhiteIn
        <5>. QED  BY <1>4, <5>1
      <4>. QED  BY <2>4, <4>1, <4>2
    <3>2. CASE tt[o] = "table" /\ o \in traversed
      <4>1. o \in Tables /\ tab'[o] = Cleared(o, marks, finalized \cup sep)
        BY <1>2, <2>1, <3>2 DEF Tables, OfType
      <4>2. \/ x \in Refs(o)
            \/ x \notin WhiteObj \ marks
            \/ IsWeak(o) /\ x \in SeenStrings(o, marks)
        BY <4>1, ClearedContents
      <4>3. CASE x \in Refs(o)
        BY <1>14, <2>1, <3>1, <4>3
      <4>4. CASE x \notin WhiteObj \ marks
        BY <1>11, <1>13, <2>1, <4>4 DEF WhiteObj, WhiteIn, Allocated
      <4>5. CASE IsWeak(o) /\ x \in SeenStrings(o, marks)
        <5>1. WhiteIn(SeenStrings(o, marks)) \subseteq seen
          BY <1>8, <3>2, <4>5
        <5>. QED  BY <1>11, <1>13, <2>1, <4>5, <5>1 DEF WhiteIn, Allocated
      <4>. QED  BY <4>2, <4>3, <4>4, <4>5
    <3>3. CASE ~(tt[o] = "table" /\ o \in traversed)
      BY <2>2, <3>1, <3>3
    <3>. QED  BY <3>2, <3>3
  <2>5. CASE o \notin tofinalize \cup traversed \cup marks
    <3>1. CASE tt[o] = "string"
      BY <2>1, <3>1 DEF Contents, NonTableRefs
    <3>2. CASE tt[o] # "string"
      <4>1. ~iswhite(o)
        <5>1. o \notin seen
          BY <1>7, <3>2 DEF WhiteIn, Strings, OfType
        <5>. QED  BY <1>10, <1>18, <2>1, <2>5, <5>1 DEF iswhite
      <4>2. CASE isblack(o)
        <5>1. list[o] # "tmudata"
          BY <1>1, <1>5, <2>1, <2>5, ListTypes
        <5>2. ~iswhite(x)
          BY <1>1, <1>2, <2>1, <4>2, <5>1 DEF MarkedOK
        <5>. QED  BY <1>13, <2>1, <5>2 DEF Allocated
      <4>3. CASE isgray(o)
        <5>1. o \notin TraversableObj
          BY <1>1, <1>2, <1>6, <2>1, <2>5, <4>3 DEF LinkInv, GrayLists, Retraversed, Allocated
        <5>2. o \notin Udata
          BY <1>1, <4>3 DEF GrayOK
        <5>3. tt[o] = "upval" /\ o \in UpVals
          BY <2>1, <3>2, <5>1, <5>2, HeapAssumption
             DEF TraversableObj, Udata, UpVals, OfType, Types, Traversable
        <5>4. list[o] = "openupval"
          BY <1>1, <4>3, <5>3 DEF GrayOK
        <5>5. x = UpValue(o)
          BY <2>1, <5>3 DEF Contents, NonTableRefs
        <5>6. x \in AtomicStart
          BY <4>3, <5>3, <5>4, <5>5 DEF AtomicStart
        <5>. QED  BY <1>4, <1>14, <2>1, <5>6
      <4>. QED  BY <1>1, <2>1, <4>1, <4>2, <4>3 DEF iswhite, isblack, isgray
    <3>. QED  BY <3>1, <3>2
  <2>. QED  BY <1>6, <2>3, <2>4, <2>5
<1>19. ReferencesLive'
  <2>1. \A o \in Live' : Contents(o)' \subseteq Live'
    <3>1. ASSUME NEW o \in Live', NEW x \in Contents(o)' PROVE x \in Live'
      <4>1. o \in Allocated /\ o \in Obj /\ x \in Contents(o)
        BY <1>16, <1>17, <3>1 DEF Allocated
      <4>2. x \in Allocated
        BY <1>1, <1>15, <4>1 DEF ReferencesLive
      <4>3. marked'[o] \in Whites => Contents(o) = {}
        <5>1. ASSUME marked'[o] \in Whites PROVE tt[o] = "string"
          <6>1. o \in Fixed
            BY <1>16, <3>1, <5>1
          <6>2. o # Main
            BY <1>1, <1>2, <1>13, <5>1, Permanent DEF MarkedOK
          <6>. QED  BY <6>1, <6>2, HeapAssumption
        <5>. QED  BY <5>1 DEF Contents, NonTableRefs
      <4>. QED  BY <1>16, <1>18, <3>1, <4>1, <4>2, <4>3
    <3>. QED  BY <3>1
  <2>2. Main \in Live' /\ Registry \in Live'
    <3>1. Main \in Allocated /\ Registry \in Allocated
      BY <1>1, <1>15, Permanent DEF ReferencesLive, Roots
    <3>. QED  BY <1>1, <1>2, <1>13, <1>16, <3>1, Permanent DEF MarkedOK
  <2>3. {running, mt} \cap Obj \subseteq Live'
    <3>1. {running, mt} \cap Obj \subseteq Allocated
      BY <1>1, <1>15 DEF ReferencesLive, Roots
    <3>2. \A x \in {running, mt} \cap Obj : x \in AtomicStart
      BY DEF AtomicStart
    <3>. QED  BY <1>4, <1>14, <1>16, <3>1, <3>2
  <2>4. \A u \in Udata : list'[u] = "tmudata" => u \in Live'
    <3>1. ASSUME NEW u \in Udata, list'[u] = "tmudata" PROVE u \in Live'
      <4>1. u \in Obj /\ u \in tofinalize
        BY <1>5, <1>10, <3>1 DEF Udata, OfType
      <4>. QED  BY <1>11, <1>16, <4>1 DEF Allocated
    <3>. QED  BY <3>1
  <2>. QED  BY <1>2, <2>1, <2>2, <2>3, <2>4 DEF ReferencesLive, Roots
<1>20. ListOK'
  <2>1. \A o \in UpVals \cup Strings \cup Threads : list'[o] = list[o]
    BY <1>12 DEF UpVals, Strings, Threads, OfType
  <2>2. \A u \in UpVals : uv[u].owner \in Threads \cup {Nil}
    BY <1>1, StateTypes DEF UpValRec
  <2>. QED  BY <1>1, <1>2, <2>1, <2>2 DEF ListOK, IsOpen
<1>21. FreeOK'
  BY <1>1, <1>12, <1>17 DEF FreeOK, iswhite
<1>22. ChainOK'
  BY <1>1, <1>2 DEF ChainOK, ChainFrom, Resumers, Paired
<1>23. ColourOK'
  <2>1. ASSUME NEW o \in Obj, list'[o] # "free"
        PROVE  (list'[o] = "tmudata" /\ marked'[o] = "black") \/ Ahead(o)'
    <3>1. CASE list'[o] = "tmudata"
      <4>1. o \in tofinalize
        BY <1>1, <1>5, <1>10, <3>1, ListTypes
      <4>. QED  BY <1>10, <3>1, <4>1
    <3>2. CASE list'[o] # "tmudata"
      <4>1. o \notin tofinalize /\ list'[o] = list[o]
        BY <1>10, <3>2
      <4>2. CASE list[o] = "rootgc"
        BY <1>2, <4>1, <4>2 DEF Ahead
      <4>3. CASE list[o] = "strt"
        <5>1. o \in Strings /\ Bucket[o] \in Nat
          BY <1>1, <4>3, ListTypes, CollectorAssumption
        <5>. QED  BY <1>2, <4>1, <4>3, <5>1 DEF Ahead
      <4>4. CASE list[o] = "openupval"
        <5>1. o \in UpVals /\ uv[o].owner \in Threads /\ list[uv[o].owner] # "free"
          <6>1. o \in UpVals
            BY <1>1, <4>4, ListTypes
          <6>2. uv[o].owner \in Threads \cup {Nil}
            BY <1>1, <6>1, StateTypes DEF UpValRec
          <6>. QED  BY <1>1, <4>4, <6>1, <6>2 DEF ListOK, IsOpen
        <5>2. uv[o].owner \in Obj /\ list[uv[o].owner] = "rootgc"
          BY <1>1, <5>1 DEF LinkInv, TraversableObj, Threads, OfType, Traversable
        <5>3. uv[o].owner \notin tofinalize
          BY <1>5, <5>1 DEF Udata, Threads, OfType
        <5>. QED  BY <1>2, <4>1, <4>4, <5>2, <5>3 DEF Ahead
      <4>. QED  BY <1>1, <2>1, <3>2, <4>1, <4>2, <4>3, <4>4 DEF Lists
    <3>. QED  BY <3>1, <3>2
  <2>. QED  BY <1>2, <2>1 DEF ColourOK, Allocated, Sweeping, isblack
<1>24. GrayOK'
  <2>1. \A o \in Udata \cup UpVals : /\ o \in Obj /\ tt[o] \notin Traversable /\ tt[o] # "string"
                                     /\ o \in Udata => tt[o] = "userdata"
                                     /\ o \in UpVals => tt[o] = "upval"
    BY DEF Udata, UpVals, OfType, Traversable
  <2>2. ASSUME NEW o \in Udata \cup UpVals, marked'[o] = "gray"
        PROVE  o \notin Udata /\ (o \in UpVals => list'[o] = "openupval")
    <3>1. o \notin traversed \cup seen \cup tofinalize
      BY <1>6, <1>7, <1>10, <2>1, <2>2 DEF WhiteIn, Strings, OfType
    <3>2. CASE o \in marks
      <4>1. MarkColour(o) = "gray" /\ list'[o] = list[o]
        BY <1>10, <2>1, <2>2, <3>1, <3>2
      <4>. QED  BY <1>1, <2>1, <4>1 DEF MarkColour, ListOK
    <3>3. CASE o \notin marks
      <4>1. isgray(o) /\ list'[o] = list[o]
        BY <1>10, <2>1, <2>2, <3>1, <3>3 DEF isgray
      <4>. QED  BY <1>1, <4>1 DEF GrayOK
    <3>. QED  BY <3>2, <3>3
  <2>. QED  BY <2>2 DEF GrayOK, isgray
<1>25. MarkedOK'
  BY <1>2 DEF MarkedOK, Propagating
<1>. QED
  BY <1>3, <1>19, <1>20, <1>21, <1>22, <1>23, <1>24, <1>25 DEF SafeInv

-----------------------------------------------------------------------------
(* The sweep.                                                              *)

(* A bucket of strings is swept: the dead are freed, the others get the    *)
(* current white.                                                          *)
LEMMA SweepStringSafe ==
  ASSUME SafeInv, SweepString
  PROVE  SafeInv'
<1>. DEFINE bucket == {s \in Strings : list[s] = "strt" /\ Bucket[s] = sweepstrgc}
<1>1. /\ TypeInv /\ LinkInv /\ UdataInv /\ ColourOK /\ FreeOK /\ ListOK /\ GrayOK /\ ReferencesLive /\ ChainOK
      /\ currentwhite # OtherWhite(currentwhite) /\ currentwhite \in Whites
      /\ "white0" \in Whites /\ "black" \notin Whites /\ "gray" \notin Whites
  BY StateTypes DEF SafeInv
<1>2. /\ gcstate = "sweepstring" /\ Sweeping /\ sweepstrgc' = sweepstrgc + 1
      /\ gcstate' = IF sweepstrgc + 1 >= NBuckets THEN "sweep" ELSE gcstate
      /\ UNCHANGED <<heap, currentwhite, running, unswept>>
      /\ marked' = [o \in Obj |-> IF o \notin bucket THEN marked[o]
                                   ELSE IF isdead(o) THEN "white0" ELSE currentwhite]
      /\ list' = [o \in Obj |-> IF o \in bucket /\ isdead(o) THEN "free" ELSE list[o]]
  BY DEF SweepString, Swept, Sweeping
<1>3. TypeInv' /\ LinkInv' /\ BlackOK' /\ UdataInv'
  BY CollectorBasics DEF CollectorStep
<1>4. \A o \in Obj : Contents(o)' = Contents(o) /\ Keys(o)' = Keys(o)
  BY <1>2, HeapKept
<1>5. \A o \in bucket : o \in Obj /\ tt[o] = "string" /\ list[o] = "strt" /\ Bucket[o] = sweepstrgc
  BY DEF Strings, OfType
<1>. HIDE DEF bucket
<1>6. Live' = Live
  BY <1>1, <1>2, <1>5 DEF Live, Allocated, isdead
<1>7. ReferencesLive'
  <2>1. \A o \in Live : Contents(o)' \subseteq Live
    BY <1>1, <1>4 DEF ReferencesLive, Live, Allocated
  <2>2. \A u \in Udata : list'[u] = "tmudata" => u \in Live
    BY <1>1, <1>2 DEF ReferencesLive, Udata, OfType
  <2>. QED  BY <1>2, <1>6, <2>1, <2>2, LessRefs DEF heap
<1>8. ListOK'
  <2>1. \A o \in UpVals \cup Threads : o \in Obj /\ list'[o] = list[o]
    BY <1>2, <1>5 DEF UpVals, Threads, OfType
  <2>2. \A o \in Strings : o \in Obj /\ list'[o] \in {list[o], "free"}
    BY <1>2 DEF Strings, OfType
  <2>3. \A u \in UpVals : uv[u].owner \in Threads \cup {Nil}
    BY <1>1, StateTypes DEF UpValRec
  <2>. QED  BY <1>1, <1>2, <2>1, <2>2, <2>3 DEF ListOK, IsOpen, heap
<1>9. ChainOK'
  BY <1>1, <1>2 DEF ChainOK, ChainFrom, Resumers, Paired, heap
<1>10. FreeOK'
  <2>1. ASSUME NEW o \in Obj, list'[o] = "free"
        PROVE  marked'[o] \in Whites /\ Contents(o) = {}
    <3>1. CASE o \in bucket
      BY <1>1, <1>2, <1>5, <3>1 DEF Contents, NonTableRefs
    <3>2. CASE o \notin bucket
      BY <1>1, <1>2, <2>1, <3>2 DEF FreeOK, iswhite
    <3>. QED  BY <3>1, <3>2
  <2>. QED  BY <1>4, <2>1 DEF FreeOK, iswhite
<1>11. ColourOK'
  <2>1. ASSUME NEW o \in Obj, list'[o] # "free"
        PROVE  \/ marked'[o] = currentwhite
               \/ list'[o] = "tmudata" /\ marked'[o] = "black"
               \/ Ahead(o)'
    <3>1. CASE o \in bucket
      BY <1>2, <2>1, <3>1
    <3>2. CASE o \notin bucket
      <4>1. list'[o] = list[o] /\ marked'[o] = marked[o] /\ list[o] # "free"
        BY <1>2, <2>1, <3>2
      <4>2. Ahead(o) => Ahead(o)'
        <5>1. CASE list[o] = "strt"
          <6>1. o \in Strings
            BY <1>1, <5>1, ListTypes
          <6>2. Bucket[o] \in 0 .. NBuckets - 1 /\ NBuckets \in Nat
            BY <6>1, CollectorAssumption
          <6>3. Bucket[o] # sweepstrgc
            BY <3>2, <5>1, <6>1 DEF bucket
          <6>4. sweepstrgc \in Nat
            BY <1>1, CollectorAssumption DEF TypeInv, TypeOK, CollectorTypeOK
          <6>. QED  BY <1>2, <4>1, <5>1, <6>2, <6>3, <6>4 DEF Ahead
        <5>2. CASE list[o] # "strt"
          BY <1>2, <4>1, <5>2 DEF Ahead, heap
        <5>. QED  BY <5>1, <5>2
      <4>. QED
        BY <1>1, <1>2, <4>1, <4>2 DEF ColourOK, Allocated, Propagating, isblack
    <3>. QED  BY <3>1, <3>2
  <2>. QED  BY <1>2, <2>1 DEF ColourOK, Allocated, Sweeping, isblack
<1>12. GrayOK'
  <2>1. \A o \in Udata \cup UpVals : o \in Obj /\ o \notin bucket
    BY <1>5 DEF Udata, UpVals, OfType
  <2>. QED  BY <1>1, <1>2, <2>1 DEF GrayOK, isgray
<1>13. MarkedOK'
  BY <1>2 DEF MarkedOK, Propagating
<1>. QED
  BY <1>3, <1>7, <1>8, <1>9, <1>10, <1>11, <1>12, <1>13 DEF SafeInv

(* The blocks that a sweep frees keep nothing.                             *)
LEMMA FreedContents ==
  ASSUME NEW o \in Obj,
         tt[o] = "table" => tab'[o] = EmptyTable(o),
         tt[o] \in {"function", "cfunction"} => cl'[o] = NoClosure,
         tt[o] = "userdata" => ud'[o] = NoUdata,
         tt[o] = "thread" => th'[o] = NewThreadRec(Nil),
         tt[o] = "proto" => pr'[o] = NoConsts,
         tt[o] = "upval" => uv'[o] = NoUpVal
  PROVE  Contents(o)' = {}
<1>1. Nil \notin Obj
  BY HeapAssumption
<1>2. CASE tt[o] = "table"
  <2>1. /\ tab'[o].metatable = Nil /\ \A s \in ArraySlots[o] : tab'[o].array[s] = Nil
        /\ \A s \in NodeSlots[o] : tab'[o].node[s].val = Nil
    BY <1>2 DEF EmptyTable
  <2>2. ArrayVals(o)' \subseteq {Nil} /\ NodeKeys(o)' = {} /\ NodeVals(o)' = {}
    BY <2>1 DEF ArrayVals, NodeKeys, NodeVals, FullNodes
  <2>3. Contents(o)' = Obj \cap ({tab'[o].metatable} \cup ArrayVals(o)' \cup NodeKeys(o)' \cup NodeVals(o)')
    BY <1>2 DEF Contents
  <2>. QED  BY <1>1, <2>1, <2>2, <2>3
<1>3. CASE tt[o] # "table"
  <2>1. Contents(o)' = Obj \cap NonTableRefs(o)'
    BY <1>3 DEF Contents
  <2>2. NonTableRefs(o)' \subseteq {Nil}
    <3>1. CASE tt[o] \in {"function", "cfunction"}
      BY <3>1 DEF NonTableRefs, ClosureRefs, NoClosure
    <3>2. CASE tt[o] = "userdata"
      BY <3>2 DEF NonTableRefs, NoUdata
    <3>3. CASE tt[o] = "thread"
      BY <3>3 DEF NonTableRefs, ThreadRefs, NewThreadRec
    <3>4. CASE tt[o] = "proto"
      BY <3>4 DEF NonTableRefs, ProtoRefs, NoConsts
    <3>5. CASE tt[o] = "upval"
      BY <3>5 DEF NonTableRefs, UpValue, IsOpen, NoUpVal
    <3>6. CASE tt[o] \notin {"function", "cfunction", "userdata", "thread", "proto", "upval"}
      BY <3>6 DEF NonTableRefs
    <3>. QED  BY <3>1, <3>2, <3>3, <3>4, <3>5, <3>6
  <2>. QED  BY <1>1, <2>1, <2>2
<1>. QED  BY <1>2, <1>3

(* Some objects of the root list are swept, the open upvalues of a thread  *)
(* with it. Nothing live goes, nothing live refers to what goes.           *)
LEMMA SweepSafe ==
  ASSUME SafeInv, NEW S \in SUBSET unswept, Sweep(S)
  PROVE  SafeInv'
<1>. DEFINE all     == S \cup UNION {OpenUpvals(h) : h \in S \cap Threads}
            dead    == {o \in all : isdead(o)}
            orphans == (UNION {OpenUpvals(h) : h \in dead \cap Threads}) \ dead
<1>1. /\ TypeInv /\ LinkInv /\ UdataInv /\ ColourOK /\ FreeOK /\ ListOK /\ GrayOK /\ ReferencesLive /\ ChainOK
      /\ currentwhite # OtherWhite(currentwhite) /\ currentwhite \in Whites
      /\ "white0" \in Whites /\ "black" \notin Whites /\ "gray" \notin Whites
  BY StateTypes DEF SafeInv
<1>2. /\ gcstate = "sweep" /\ Sweeping /\ unswept' = unswept \ S
      /\ gcstate' = IF unswept \subseteq S THEN "finalize" ELSE gcstate
      /\ UNCHANGED <<mt, currentwhite, running, sweepstrgc>>
      /\ marked' = [o \in Obj |-> IF o \notin all THEN marked[o]
                                   ELSE IF isdead(o) THEN "white0" ELSE currentwhite]
      /\ list' = [o \in Obj |-> IF o \in dead THEN "free"
                                ELSE IF o \in orphans THEN "rootgc" ELSE list[o]]
      /\ tab' = [t \in Tables |-> IF t \in dead THEN EmptyTable(t) ELSE tab[t]]
      /\ ud' = [u \in Udata |-> IF u \in dead THEN NoUdata ELSE ud[u]]
      /\ cl' = [c \in Closures |-> IF c \in dead THEN NoClosure ELSE cl[c]]
      /\ pr' = [p \in Protos |-> IF p \in dead THEN NoConsts ELSE pr[p]]
      /\ th' = [h \in Threads |-> IF h \in dead THEN NewThreadRec(Nil) ELSE th[h]]
      /\ uv' = [u \in UpVals |->
                  IF u \in dead THEN NoUpVal
                  ELSE IF u \in orphans THEN [NoUpVal EXCEPT !.value = UpValue(u)]
                  ELSE uv[u]]
  BY DEF Sweep, Swept, SweepEnds, Sweeping
<1>3. TypeInv' /\ LinkInv' /\ BlackOK' /\ UdataInv'
  BY CollectorBasics DEF CollectorStep
<1>4. all \subseteq Obj /\ dead \subseteq all /\ (\A o \in dead : isdead(o)) /\ S \subseteq all
  BY <1>1 DEF TypeInv, TypeOK, CollectorTypeOK, OpenUpvals, UpVals, OfType
<1>5. ASSUME NEW u \in orphans
      PROVE  /\ u \in all /\ ~isdead(u) /\ u \notin dead /\ u \in UpVals /\ u \in Obj
             /\ list[u] = "openupval"
  <2>1. PICK h \in dead \cap Threads : u \in OpenUpvals(h)
    OBVIOUS
  <2>2. h \in S
    BY <1>4, <2>1 DEF OpenUpvals, UpVals, Threads, OfType
  <2>3. u \in all
    BY <2>1, <2>2
  <2>. QED  BY <2>1, <2>3 DEF OpenUpvals, UpVals, OfType
<1>6. ASSUME NEW u \in UpVals, list[u] = "openupval", uv[u].owner \in S
      PROVE  u \in all /\ (uv[u].owner \in dead => u \in dead \cup orphans)
  <2>1. uv[u].owner \in Threads
    <3>1. uv[u].owner \in Threads \cup {Nil}
      BY <1>1, StateTypes DEF UpValRec
    <3>. QED  BY <1>1, <1>6, <3>1 DEF ListOK, IsOpen
  <2>2. u \in OpenUpvals(uv[u].owner)
    BY <1>6 DEF OpenUpvals
  <2>. QED  BY <1>6, <2>1, <2>2
<1>7. ASSUME NEW h \in Threads, h \in all PROVE h \in S
  BY <1>7 DEF OpenUpvals, UpVals, Threads, OfType
<1>8. ASSUME NEW o \in all, ~isdead(o) PROVE o \notin dead
  BY <1>8
<1>9. ASSUME NEW o \in all, isdead(o) PROVE o \in dead
  BY <1>9
<1>. HIDE DEF all, dead, orphans
<1>10. ASSUME NEW u \in UpVals, u \notin dead
       PROVE  /\ u \in Obj /\ tt[u] = "upval"
              /\ UpValue(u)' = UpValue(u)
              /\ IsOpen(u)' => IsOpen(u) /\ uv'[u] = uv[u] /\ list'[u] = list[u] /\ u \notin orphans
              /\ ~IsOpen(u) => list'[u] = list[u]
              /\ list'[u] = "openupval" <=> IsOpen(u)'
              /\ IsOpen(u)' => uv[u].owner \in Threads /\ uv[u].owner \notin dead
  <2>1. u \in Obj /\ tt[u] = "upval"
    BY DEF UpVals, OfType
  <2>2. uv[u].owner \in Threads \cup {Nil} /\ (list[u] = "openupval" <=> IsOpen(u))
    BY <1>1, StateTypes DEF UpValRec, ListOK
  <2>3. CASE u \in orphans
    <3>1. uv'[u] = [NoUpVal EXCEPT !.value = UpValue(u)] /\ list'[u] = "rootgc"
      BY <1>2, <1>10, <2>1, <2>3
    <3>2. uv'[u].owner = Nil /\ uv'[u].value = UpValue(u)
      BY <3>1 DEF NoUpVal
    <3>. QED  BY <1>5, <2>1, <2>2, <2>3, <3>1, <3>2 DEF IsOpen, UpValue
  <2>4. CASE u \notin orphans
    <3>1. uv'[u] = uv[u] /\ list'[u] = list[u]
      BY <1>2, <1>10, <2>1, <2>4
    <3>2. IsOpen(u) => uv[u].owner \in Threads /\ uv[u].owner \notin dead
      BY <1>4, <1>6, <1>7, <1>10, <2>2, <2>4 DEF IsOpen
    <3>3. IsOpen(u) => th'[uv[u].owner] = th[uv[u].owner]
      BY <1>2, <3>2
    <3>. QED  BY <2>1, <2>2, <2>4, <3>1, <3>2, <3>3 DEF IsOpen, UpValue
  <2>. QED  BY <2>3, <2>4
<1>11. ASSUME NEW o \in Obj, o \notin dead
       PROVE  Contents(o)' = Contents(o) /\ Keys(o)' = Keys(o)
  <2>1. /\ tt[o] = "table" => tab'[o] = tab[o]
        /\ tt[o] \in {"function", "cfunction"} => cl'[o] = cl[o]
        /\ tt[o] = "userdata" => ud'[o] = ud[o]
        /\ tt[o] = "thread" => th'[o] = th[o]
        /\ tt[o] = "proto" => pr'[o] = pr[o]
    BY <1>2, <1>11 DEF Tables, Closures, Udata, Threads, Protos, OfType
  <2>2. tt[o] = "upval" => UpValue(o)' = UpValue(o)
    BY <1>10, <1>11 DEF UpVals, OfType
  <2>. QED  BY <2>1, <2>2, SameContents
<1>12. ASSUME NEW o \in dead
       PROVE  Contents(o)' = {} /\ list'[o] = "free" /\ marked'[o] = "white0" /\ o \in Obj
  <2>1. o \in Obj /\ list'[o] = "free" /\ marked'[o] = "white0"
    BY <1>2, <1>4
  <2>2. /\ tt[o] = "table" => tab'[o] = EmptyTable(o)
        /\ tt[o] \in {"function", "cfunction"} => cl'[o] = NoClosure
        /\ tt[o] = "userdata" => ud'[o] = NoUdata
        /\ tt[o] = "thread" => th'[o] = NewThreadRec(Nil)
        /\ tt[o] = "proto" => pr'[o] = NoConsts
        /\ tt[o] = "upval" => uv'[o] = NoUpVal
    BY <1>2, <2>1 DEF Tables, Closures, Udata, Threads, Protos, UpVals, OfType
  <2>. QED  BY <2>1, <2>2, FreedContents
<1>13. ASSUME NEW o \in Obj, o \notin dead
       PROVE  /\ list'[o] = list[o] \/ (o \in orphans /\ list'[o] = "rootgc" /\ list[o] = "openupval")
              /\ IF o \in all THEN marked'[o] = currentwhite ELSE marked'[o] = marked[o]
  BY <1>2, <1>5, <1>9, <1>13
<1>14. Live' = Live
  <2>1. ASSUME NEW o \in Obj PROVE o \in Live' <=> o \in Live
    <3>1. CASE o \in dead
      BY <1>4, <1>12, <3>1 DEF Live, Allocated
    <3>2. CASE o \notin dead
      <4>1. list'[o] = "free" <=> list[o] = "free"
        BY <1>13, <3>2
      <4>2. isdead(o)' <=> isdead(o)
        BY <1>1, <1>2, <1>9, <1>13, <3>2 DEF isdead
      <4>. QED  BY <4>1, <4>2 DEF Live, Allocated
    <3>. QED  BY <3>1, <3>2
  <2>. QED  BY <2>1 DEF Live, Allocated
<1>15. Live \cap dead = {}
  BY <1>4 DEF Live
<1>16. ReferencesLive'
  <2>1. \A o \in Live : Contents(o)' \subseteq Live
    BY <1>1, <1>11, <1>15 DEF ReferencesLive, Live, Allocated
  <2>2. ASSUME NEW u \in Udata, list'[u] = "tmudata" PROVE u \in Live
    <3>1. u \in Obj
      BY DEF Udata, OfType
    <3>. QED  BY <1>1, <1>12, <1>13, <2>2, <3>1 DEF ReferencesLive
  <2>. QED  BY <1>2, <1>14, <2>1, <2>2, LessRefs
<1>17. ListOK'
  <2>1. ASSUME NEW s \in Strings PROVE list'[s] \in {"free", "strt"}
    BY <1>1, <1>12, <1>13 DEF ListOK, Strings, OfType
  <2>2. ASSUME NEW u \in UpVals
        PROVE  /\ list'[u] \in {"free", "rootgc", "openupval"}
               /\ list'[u] = "openupval" <=> IsOpen(u)'
               /\ IsOpen(u)' => list'[uv'[u].owner] # "free"
    <3>1. CASE u \in dead
      <4>1. uv'[u] = NoUpVal
        BY <1>2, <3>1
      <4>. QED  BY <1>12, <3>1, <4>1 DEF IsOpen, NoUpVal
    <3>2. CASE u \notin dead
      <4>1. list'[u] \in {"free", "rootgc", "openupval"}
        BY <1>1, <1>10, <1>13, <3>2 DEF ListOK
      <4>2. ASSUME IsOpen(u)' PROVE list'[uv'[u].owner] # "free"
        <5>1. uv'[u] = uv[u] /\ uv[u].owner \in Threads /\ uv[u].owner \notin dead /\ IsOpen(u)
          BY <1>10, <3>2, <4>2
        <5>2. uv[u].owner \in Obj /\ list[uv[u].owner] # "free"
          BY <1>1, <5>1 DEF ListOK, Threads, OfType
        <5>. QED  BY <1>13, <5>1, <5>2
      <4>. QED  BY <1>10, <3>2, <4>1, <4>2
    <3>. QED  BY <3>1, <3>2
  <2>. QED  BY <2>1, <2>2 DEF ListOK
<1>18. ChainOK'
  <2>1. Resumers \cup {running} \subseteq Live
    BY <1>1, ResumersLive, RegistersLive
  <2>2. ASSUME NEW h \in Threads
        PROVE  th'[h].resuming = th[h].resuming /\ th'[h].resumer = th[h].resumer
    <3>1. CASE h \in dead
      <4>1. th[h].resuming = Nil /\ th[h].resumer = Nil
        BY <1>1, <1>15, <2>1, <3>1, ResumedLive DEF Resumers
      <4>2. th'[h] = NewThreadRec(Nil)
        BY <1>2, <3>1
      <4>. QED  BY <4>1, <4>2 DEF NewThreadRec
    <3>2. CASE h \notin dead
      BY <1>2, <3>2
    <3>. QED  BY <3>1, <3>2
  <2>3. Resumers' = Resumers
    BY <2>2 DEF Resumers
  <2>4. \A X \in SUBSET Threads : ChainFrom(X)' <=> ChainFrom(X)
    BY <2>2 DEF ChainFrom
  <2>5. th'[running].resuming = Nil
    BY <1>1, <2>2, StateTypes DEF ChainOK
  <2>6. Paired'
    BY <1>1, <2>2 DEF ChainOK, Paired
  <2>. QED  BY <1>1, <1>2, <2>3, <2>4, <2>5, <2>6 DEF ChainOK
<1>19. FreeOK'
  <2>1. ASSUME NEW o \in Obj, list'[o] = "free"
        PROVE  marked'[o] \in Whites /\ Contents(o)' = {}
    <3>1. CASE o \in dead
      BY <1>1, <1>12, <3>1
    <3>2. CASE o \notin dead
      BY <1>1, <1>11, <1>13, <2>1, <3>2 DEF FreeOK, iswhite
    <3>. QED  BY <3>1, <3>2
  <2>. QED  BY <2>1 DEF FreeOK, iswhite
<1>20. ColourOK'
  <2>1. ASSUME NEW o \in Obj, list'[o] # "free"
        PROVE  \/ marked'[o] = currentwhite
               \/ list'[o] = "tmudata" /\ marked'[o] = "black"
               \/ Sweeping' /\ Ahead(o)'
    <3>1. o \notin dead
      BY <1>12, <2>1
    <3>2. CASE o \in all
      BY <1>13, <3>1, <3>2
    <3>3. CASE o \notin all
      <4>1. list'[o] = list[o] /\ marked'[o] = marked[o] /\ list[o] # "free" /\ o \notin S
        BY <1>4, <1>5, <1>13, <2>1, <3>1, <3>3
      <4>2. Ahead(o) => Sweeping' /\ Ahead(o)'
        <5>1. CASE list[o] = "rootgc" /\ o \in unswept
          BY <1>2, <4>1, <5>1 DEF Ahead, Sweeping
        <5>2. CASE list[o] = "openupval" /\ uv[o].owner \in unswept
          <6>1. o \in UpVals
            BY <1>1, <5>2, ListTypes
          <6>2. uv[o].owner \notin S
            BY <1>6, <3>3, <5>2, <6>1
          <6>3. uv'[o] = uv[o]
            BY <1>2, <1>5, <3>1, <3>3, <6>1
          <6>. QED  BY <1>2, <4>1, <5>2, <6>2, <6>3 DEF Ahead, Sweeping
        <5>. QED  BY <1>2, <5>1, <5>2 DEF Ahead
      <4>. QED
        BY <1>1, <1>2, <4>1, <4>2 DEF ColourOK, Allocated, Propagating, isblack
    <3>. QED  BY <3>2, <3>3
  <2>. QED  BY <1>2, <2>1 DEF ColourOK, Allocated, isblack
<1>21. GrayOK'
  <2>1. ASSUME NEW o \in Udata \cup UpVals, marked'[o] = "gray"
        PROVE  marked[o] = "gray" /\ list'[o] = list[o]
    <3>1. o \in Obj
      BY DEF Udata, UpVals, OfType
    <3>2. o \notin dead
      BY <1>1, <1>12, <2>1
    <3>3. o \notin all
      BY <1>1, <1>13, <2>1, <3>1, <3>2
    <3>. QED  BY <1>5, <1>13, <2>1, <3>1, <3>2, <3>3
  <2>. QED  BY <1>1, <2>1 DEF GrayOK, isgray
<1>22. MarkedOK'
  BY <1>2 DEF MarkedOK, Propagating
<1>. QED
  BY <1>3, <1>16, <1>17, <1>18, <1>19, <1>20, <1>21, <1>22 DEF SafeInv

-----------------------------------------------------------------------------
(* Finalizers, the end of a cycle and luaC_fullgc.                         *)

(* The userdata whose finalizer is called is live, and white again.        *)
LEMMA GCTMSafe ==
  ASSUME SafeInv, NEW u \in Udata, GCTM(u)
  PROVE  SafeInv'
<1>1. /\ TypeInv /\ LinkInv /\ UdataInv /\ ColourOK /\ FreeOK /\ ListOK /\ GrayOK /\ ReferencesLive /\ ChainOK
      /\ currentwhite # OtherWhite(currentwhite) /\ currentwhite \in Whites
      /\ "black" \notin Whites /\ "gray" \notin Whites
      /\ marked \in [Obj -> Whites \cup {"gray", "black"}] /\ list \in [Obj -> Lists]
      /\ running \in Threads /\ th \in [Threads -> ThreadRec]
  BY StateTypes DEF SafeInv
<1>2. /\ gcstate = "finalize" /\ AtRest /\ ~Propagating /\ ~Sweeping /\ list[u] = "tmudata"
      /\ list' = [list EXCEPT ![u] = "rootgc"] /\ marked' = [marked EXCEPT ![u] = currentwhite]
      /\ UNCHANGED <<tab, ud, cl, pr, uv, mt, currentwhite, running>> /\ gcstate' = gcstate
  BY DEF GCTM, AtRest, Propagating, Sweeping, collector
<1>3. /\ \A h \in Threads : /\ th'[h].gt = th[h].gt /\ th'[h].stack = th[h].stack
                            /\ th'[h].resuming = th[h].resuming
                            /\ th'[h].resumer = th[h].resumer
                            /\ h # running => th'[h] = th[h]
      /\ th'[running].gctm \subseteq th[running].gctm \cup {u}
  BY <1>1 DEF GCTM, ThreadRec
<1>4. u \in Obj /\ tt[u] = "userdata" /\ u \in Live /\ u \in Allocated
  BY <1>1, <1>2 DEF ReferencesLive, Live, Udata, OfType
<1>5. TypeInv' /\ LinkInv' /\ BlackOK' /\ UdataInv'
  BY CollectorBasics DEF CollectorStep
<1>6. \A x \in Obj : list'[x] = IF x = u THEN "rootgc" ELSE list[x]
  BY <1>1, <1>2, <1>4
<1>7. \A x \in Obj : marked'[x] = IF x = u THEN currentwhite ELSE marked[x]
  BY <1>1, <1>2, <1>4
<1>8. Live = Allocated /\ Live' = Allocated
  <2>1. Live = Allocated
    BY <1>1, <1>2, AllLive
  <2>2. Allocated' = Allocated
    BY <1>4, <1>6 DEF Allocated
  <2>3. \A x \in Allocated : ~isdead(x)'
    BY <1>1, <1>2, <1>7, <2>1 DEF Live, Allocated, isdead
  <2>. QED  BY <2>1, <2>2, <2>3 DEF Live
<1>9. ASSUME NEW o \in Obj
      PROVE  /\ o # running => Contents(o)' = Contents(o)
             /\ o = running => Contents(o)' \subseteq Contents(o) \cup {u}
  <2>1. CASE o # running
    <3>1. tt[o] = "thread" => th'[o] = th[o]
      BY <1>3, <2>1 DEF Threads, OfType
    <3>2. tt[o] = "upval" => UpValue(o)' = UpValue(o)
      <4>1. tt[o] = "upval" => uv[o].owner \in Threads \cup {Nil}
        BY <1>1, StateTypes DEF UpValRec, UpVals, OfType
      <4>. QED  BY <1>2, <1>3, <4>1 DEF UpValue, IsOpen
    <3>. QED  BY <1>2, <2>1, <3>1, <3>2, SameContents
  <2>2. CASE o = running
    <3>1. tt[o] = "thread" /\ o \in Threads
      BY <1>1, <2>2 DEF Threads, OfType
    <3>2. ThreadRefs(o)' \subseteq ThreadRefs(o) \cup {u}
      BY <1>3, <2>2, <3>1 DEF ThreadRefs
    <3>. QED  BY <2>2, <3>1, <3>2 DEF Contents, NonTableRefs
  <2>. QED  BY <2>1, <2>2
<1>10. ReferencesLive'
  <2>1. \A o \in Live : Contents(o)' \subseteq Live
    BY <1>1, <1>4, <1>9 DEF ReferencesLive, Live, Allocated
  <2>2. \A x \in Udata : list'[x] = "tmudata" => x \in Live
    BY <1>1, <1>6 DEF ReferencesLive, Udata, OfType
  <2>. QED  BY <1>2, <1>8, <2>1, <2>2, LessRefs
<1>11. ListOK'
  <2>1. \A o \in UpVals \cup Threads \cup Strings : o \in Obj /\ list'[o] = list[o]
    BY <1>4, <1>6 DEF UpVals, Threads, Strings, OfType
  <2>2. \A w \in UpVals : uv[w].owner \in Threads \cup {Nil}
    BY <1>1, StateTypes DEF UpValRec
  <2>. QED  BY <1>1, <1>2, <2>1, <2>2 DEF ListOK, IsOpen
<1>12. ChainOK'
  BY <1>1, <1>2, <1>3 DEF ChainOK, ChainFrom, Resumers, Paired
<1>13. FreeOK'
  <2>1. running \in Live
    BY <1>1, RegistersLive
  <2>. QED  BY <1>1, <1>6, <1>7, <1>9, <2>1 DEF FreeOK, iswhite, Live, Allocated
<1>14. ColourOK'
  BY <1>1, <1>2, <1>6, <1>7 DEF ColourOK, Allocated, Propagating, Sweeping, isblack, iswhite
<1>15. GrayOK'
  <2>1. \A o \in UpVals \cup Udata : o \in Obj
    BY DEF UpVals, Udata, OfType
  <2>. QED  BY <1>1, <1>4, <1>6, <1>7, <2>1 DEF GrayOK, isgray, UpVals, OfType
<1>16. MarkedOK'
  BY <1>2 DEF MarkedOK, Propagating
<1>. QED
  BY <1>5, <1>10, <1>11, <1>12, <1>13, <1>14, <1>15, <1>16 DEF SafeInv

(* When a finalizer returns, its thread refers to one object less.         *)
LEMMA FinalizerReturnSafe ==
  ASSUME SafeInv, NEW u \in Udata, FinalizerReturn(u)
  PROVE  SafeInv'
<1>1. /\ TypeInv /\ ColourOK /\ FreeOK /\ ListOK /\ GrayOK /\ ReferencesLive /\ ChainOK /\ MarkedOK
      /\ running \in Threads /\ th \in [Threads -> ThreadRec]
  BY StateTypes DEF SafeInv
<1>2. UNCHANGED <<tab, ud, cl, pr, uv, mt, list, marked, gray, grayagain, currentwhite, weak, running,
                  gcstate, sweepstrgc, unswept, fullgc>>
  BY DEF FinalizerReturn, colours, collector
<1>3. \A h \in Threads : /\ th'[h].gt = th[h].gt /\ th'[h].stack = th[h].stack
                         /\ th'[h].resuming = th[h].resuming
                         /\ th'[h].resumer = th[h].resumer
                         /\ th'[h].gctm \subseteq th[h].gctm
  BY <1>1 DEF FinalizerReturn, ThreadRec
<1>4. TypeInv' /\ LinkInv' /\ BlackOK' /\ UdataInv'
  BY CollectorBasics
<1>5. Live' = Live
  BY <1>2 DEF Live, Allocated, isdead
<1>6. ASSUME NEW o \in Obj
      PROVE  Contents(o)' \subseteq Contents(o) /\ Keys(o)' = Keys(o)
  <2>1. CASE tt[o] # "thread"
    <3>1. tt[o] = "upval" => UpValue(o)' = UpValue(o)
      <4>1. tt[o] = "upval" => uv[o].owner \in Threads \cup {Nil}
        BY <1>1, StateTypes DEF UpValRec, UpVals, OfType
      <4>. QED  BY <1>2, <1>3, <4>1 DEF UpValue, IsOpen
    <3>. QED  BY <1>2, <2>1, <3>1, SameContents
  <2>2. CASE tt[o] = "thread"
    <3>1. o \in Threads
      BY <2>2 DEF Threads, OfType
    <3>2. ThreadRefs(o)' \subseteq ThreadRefs(o)
      BY <1>3, <3>1 DEF ThreadRefs
    <3>. QED  BY <2>2, <3>2 DEF Contents, NonTableRefs, Keys
  <2>. QED  BY <2>1, <2>2
<1>7. ReferencesLive'
  <2>1. \A o \in Live : Contents(o)' \subseteq Live
    BY <1>1, <1>6 DEF ReferencesLive, Live, Allocated
  <2>2. \A x \in Udata : list'[x] = "tmudata" => x \in Live
    BY <1>1, <1>2 DEF ReferencesLive
  <2>. QED  BY <1>2, <1>5, <2>1, <2>2, LessRefs
<1>8. ListOK' /\ ChainOK'
  BY <1>1, <1>2, <1>3 DEF ListOK, IsOpen, ChainOK, ChainFrom, Resumers, Paired
<1>9. FreeOK'
  BY <1>1, <1>2, <1>6 DEF FreeOK, iswhite
<1>10. ColourOK' /\ GrayOK'
  BY <1>1, <1>2 DEF ColourOK, Ahead, Allocated, Propagating, Sweeping, isblack, iswhite, GrayOK, isgray
<1>11. MarkedOK'
  BY <1>1, <1>2, <1>6 DEF MarkedOK, Propagating, isblack, iswhite
<1>. QED
  BY <1>4, <1>7, <1>8, <1>9, <1>10, <1>11 DEF SafeInv

(* Steps that change no heap, list or mark: what they may break is what is *)
(* said of colours in each state of the collector.                         *)
LEMMA StillSafe ==
  ASSUME SafeInv, UNCHANGED <<heap, list, marked, currentwhite, running>>,
         TypeInv', LinkInv', BlackOK', UdataInv', ColourOK', MarkedOK'
  PROVE  SafeInv'
<1>1. FreeOK /\ ListOK /\ GrayOK /\ ReferencesLive /\ ChainOK
  BY DEF SafeInv
<1>2. \A o \in Obj : Contents(o)' = Contents(o)
  BY HeapKept
<1>3. Live' = Live
  BY DEF Live, Allocated, isdead
<1>4. ReferencesLive'
  <2>1. \A o \in Live : Contents(o)' \subseteq Live
    BY <1>1, <1>2 DEF ReferencesLive, Live, Allocated
  <2>2. \A x \in Udata : list'[x] = "tmudata" => x \in Live
    BY <1>1 DEF ReferencesLive
  <2>. QED  BY <1>3, <2>1, <2>2, LessRefs DEF heap
<1>5. ListOK' /\ ChainOK'
  BY <1>1 DEF ListOK, IsOpen, ChainOK, ChainFrom, Resumers, Paired, heap
<1>6. FreeOK' /\ GrayOK'
  BY <1>1, <1>2 DEF FreeOK, GrayOK, iswhite, isgray
<1>. QED  BY <1>4, <1>5, <1>6 DEF SafeInv

(* The end of a cycle keeps the colours.                                   *)
LEMMA EndCycleSafe ==
  ASSUME SafeInv, EndCycle
  PROVE  SafeInv'
<1>1. UNCHANGED <<heap, list, marked, currentwhite, running>> /\ gcstate = "finalize" /\ gcstate' = "pause"
  BY DEF EndCycle, colours
<1>2. TypeInv' /\ LinkInv' /\ BlackOK' /\ UdataInv'
  BY CollectorBasics DEF CollectorStep
<1>3. ColourOK' /\ MarkedOK'
  BY <1>1 DEF SafeInv, ColourOK, MarkedOK, Allocated, Propagating, Sweeping, isblack
<1>. QED  BY <1>1, <1>2, <1>3, StillSafe

(* luaC_fullgc abandons the marks and has everything before it.            *)
LEMMA FullGCSafe ==
  ASSUME SafeInv, FullGC
  PROVE  SafeInv'
<1>1. UNCHANGED <<heap, list, marked, currentwhite, running>>
  BY DEF FullGC
<1>2. TypeInv' /\ LinkInv' /\ BlackOK' /\ UdataInv'
  BY CollectorBasics
<1>3. /\ TypeInv /\ LinkInv /\ UdataInv /\ ColourOK /\ ListOK /\ GrayOK /\ MarkedOK
      /\ marked \in [Obj -> Whites \cup {"gray", "black"}] /\ list \in [Obj -> Lists]
  BY StateTypes DEF SafeInv
<1>4. CASE gcstate \in {"pause", "propagate"}
  <2>1. /\ gcstate' = "sweepstring" /\ sweepstrgc' = 0 /\ unswept' = {o \in Obj : list[o] = "rootgc"}
        /\ ~Sweeping
    BY <1>4 DEF FullGC, Sweeping
  <2>2. ASSUME NEW o \in Obj, list[o] # "free"
        PROVE  (list[o] = "tmudata" /\ isblack(o)) \/ marked[o] = currentwhite \/ Ahead(o)'
    <3>1. CASE list[o] = "tmudata"
      <4>1. o \in Udata
        BY <1>3, <3>1, ListTypes
      <4>. QED
        BY <1>3, <2>1, <2>2, <3>1, <4>1 DEF ColourOK, GrayOK, Allocated, isgray, isblack, iswhite
    <3>2. CASE list[o] = "rootgc"
      BY <1>1, <2>1, <3>2 DEF Ahead
    <3>3. CASE list[o] = "strt"
      <4>1. o \in Strings /\ Bucket[o] \in Nat
        BY <1>3, <3>3, ListTypes, CollectorAssumption
      <4>. QED  BY <1>1, <2>1, <3>3, <4>1 DEF Ahead
    <3>4. CASE list[o] = "openupval"
      <4>1. o \in UpVals
        BY <1>3, <3>4, ListTypes
      <4>2. uv[o].owner \in Threads \cup {Nil}
        BY <1>3, <4>1, StateTypes DEF UpValRec
      <4>3. uv[o].owner \in Threads /\ list[uv[o].owner] # "free"
        BY <1>3, <3>4, <4>1, <4>2 DEF ListOK, IsOpen
      <4>4. uv[o].owner \in Obj /\ list[uv[o].owner] = "rootgc"
        BY <1>3, <4>3 DEF LinkInv, TraversableObj, Threads, OfType, Traversable
      <4>. QED  BY <1>1, <2>1, <3>4, <4>4 DEF Ahead, heap
    <3>. QED  BY <1>3, <2>2, <3>1, <3>2, <3>3, <3>4 DEF Lists
  <2>3. ColourOK' /\ MarkedOK'
    BY <1>1, <2>1, <2>2 DEF ColourOK, MarkedOK, Allocated, Propagating, Sweeping, isblack
  <2>. QED  BY <1>1, <1>2, <2>3, StillSafe
<1>5. CASE gcstate \notin {"pause", "propagate"}
  <2>1. UNCHANGED <<gcstate, sweepstrgc, unswept>>
    BY <1>5 DEF FullGC
  <2>2. ColourOK'
    BY <1>1, <1>3, <2>1 DEF ColourOK, Ahead, Allocated, Propagating, Sweeping, isblack, iswhite, heap
  <2>3. MarkedOK'
    BY <1>5, <2>1 DEF MarkedOK, Propagating
  <2>. QED  BY <1>1, <1>2, <2>2, <2>3, StillSafe
<1>. QED  BY <1>4, <1>5

-----------------------------------------------------------------------------
(* The theorems.                                                           *)

(* lua_newstate leaves three objects and the fixed strings, all white.     *)
LEMMA InitSafe == Init => SafeInv
<1>. SUFFICES ASSUME Init PROVE SafeInv
  OBVIOUS
<1>1. TypeInv
  BY InitType
<1>2. /\ list = [o \in Obj |-> IF o \in {Main, Registry, Globals} THEN "rootgc"
                                ELSE IF o \in Fixed THEN "strt" ELSE "free"]
      /\ marked = [o \in Obj |-> "white0"] /\ currentwhite = "white0" /\ gcstate = "pause"
      /\ mt = Nil /\ running = Main
  BY DEF Init, HeapInit, CollectorInit
<1>3. /\ tab = [t \in Tables |-> EmptyTable(t)] /\ ud = [u \in Udata |-> NoUdata]
      /\ cl = [c \in Closures |-> NoClosure] /\ pr = [p \in Protos |-> NoConsts]
      /\ uv = [u \in UpVals |-> NoUpVal]
      /\ th = [h \in Threads |-> NewThreadRec(IF h = Main THEN Globals ELSE Nil)]
  BY DEF Init, HeapInit
<1>4. /\ \A o \in Obj : o \in Fixed => o = Main \/ tt[o] = "string"
      /\ Globals \in Obj /\ tt[Globals] = "table" /\ tt[Main] = "thread" /\ tt[Registry] = "table"
      /\ Main \in Obj /\ Registry \in Obj /\ Nil \notin Obj /\ Main \in Threads
  BY HeapAssumption, Permanent DEF OfType
<1>5. LinkInv
  <2>1. \A o \in TraversableObj : o \in Obj /\ (o \in Fixed => o = Main)
    BY <1>4 DEF TraversableObj, OfType, Traversable
  <2>. QED  BY <1>2, <2>1 DEF LinkInv, AtRest, Sweeping, Propagating, iswhite, Whites
<1>6. BlackOK /\ GrayOK
  BY <1>2 DEF BlackOK, GrayOK, isblack, isgray, Udata, UpVals, OfType
<1>7. UdataInv
  BY <1>2, <1>4 DEF UdataInv, OldWhite, OtherWhite, Udata, OfType
<1>8. ListOK
  <2>1. \A u \in UpVals : ~IsOpen(u)
    BY <1>3 DEF IsOpen, NoUpVal
  <2>2. \A u \in UpVals : u \in Obj /\ list[u] = "free"
    BY <1>2, <1>4 DEF UpVals, OfType
  <2>3. \A s \in Strings : list[s] \in {"free", "strt"}
    BY <1>2, <1>4 DEF Strings, OfType
  <2>. QED  BY <2>1, <2>2, <2>3 DEF ListOK
<1>9. \A h \in Threads : th[h].resuming = Nil /\ th[h].resumer = Nil /\ h # Nil
  BY <1>3, <1>4 DEF NewThreadRec, Threads, OfType
<1>10. ChainOK
  BY <1>2, <1>4, <1>9 DEF ChainOK, ChainFrom, Resumers, Paired
<1>11. ASSUME NEW o \in Obj PROVE Contents(o) \subseteq IF o = Main THEN {Globals} ELSE {}
  <2>1. CASE tt[o] = "table"
    <3>1. o \in Tables /\ tab[o] = EmptyTable(o)
      BY <1>3, <2>1 DEF Tables, OfType
    <3>2. ArrayVals(o) \subseteq {Nil} /\ NodeKeys(o) = {} /\ NodeVals(o) = {} /\ tab[o].metatable = Nil
      BY <3>1 DEF EmptyTable, ArrayVals, NodeKeys, NodeVals, FullNodes
    <3>. QED  BY <1>4, <2>1, <3>2 DEF Contents
  <2>2. CASE tt[o] # "table"
    <3>1. CASE tt[o] \in {"function", "cfunction"}
      BY <1>3, <1>4, <3>1 DEF Contents, NonTableRefs, ClosureRefs, NoClosure, Closures, OfType
    <3>2. CASE tt[o] = "userdata"
      BY <1>3, <1>4, <3>2 DEF Contents, NonTableRefs, NoUdata, Udata, OfType
    <3>3. CASE tt[o] = "thread"
      <4>1. th[o] = NewThreadRec(IF o = Main THEN Globals ELSE Nil)
        BY <1>3, <3>3 DEF Threads, OfType
      <4>2. ThreadRefs(o) \subseteq {Nil} \cup (IF o = Main THEN {Globals} ELSE {})
        BY <4>1 DEF ThreadRefs, NewThreadRec
      <4>. QED  BY <1>4, <3>3, <4>2 DEF Contents, NonTableRefs
    <3>4. CASE tt[o] = "proto"
      BY <1>3, <1>4, <3>4 DEF Contents, NonTableRefs, ProtoRefs, NoConsts, Protos, OfType
    <3>5. CASE tt[o] = "upval"
      BY <1>3, <1>4, <3>5 DEF Contents, NonTableRefs, UpValue, IsOpen, NoUpVal, UpVals, OfType
    <3>6. CASE tt[o] \notin {"function", "cfunction", "userdata", "thread", "proto", "upval"}
      BY <2>2, <3>6 DEF Contents, NonTableRefs
    <3>. QED  BY <3>1, <3>2, <3>3, <3>4, <3>5, <3>6
  <2>. QED  BY <2>1, <2>2
<1>12. FreeOK /\ ColourOK
  BY <1>2, <1>11 DEF FreeOK, ColourOK, Allocated, iswhite, Whites
<1>13. MarkedOK
  BY <1>2 DEF MarkedOK, Propagating
<1>14. ReferencesLive
  <2>1. {Main, Registry, Globals} \subseteq Live
    BY <1>2, <1>4 DEF Live, Allocated, isdead, OtherWhite
  <2>2. Roots \subseteq Live
    BY <1>2, <1>4, <2>1 DEF Roots
  <2>3. \A o \in Live : Contents(o) \subseteq Live
    BY <1>11, <2>1 DEF Live, Allocated
  <2>4. {u \in Udata : list[u] = "tmudata"} = {}
    BY <1>2 DEF Udata, OfType
  <2>. QED  BY <2>2, <2>3, <2>4 DEF ReferencesLive
<1>. QED
  BY <1>1, <1>5, <1>6, <1>7, <1>8, <1>10, <1>12, <1>13, <1>14 DEF SafeInv

(* Every step of the program and of the collector keeps SafeInv.           *)
LEMMA NextSafe == SafeInv /\ [Next]_vars => SafeInv'
<1>. SUFFICES ASSUME SafeInv, [Next]_vars PROVE SafeInv'
  OBVIOUS
<1>1. CASE Program
  BY <1>1, ProgramSafe
<1>2. CASE CollectorStep
  <2>1. CASE StartCycle
    <3>1. AtRest /\ MarkRoot /\ fullgc' \in BOOLEAN
      BY <2>1 DEF StartCycle, AtRest, SafeInv, TypeInv, TypeOK, CollectorTypeOK
    <3>. QED  BY <3>1, MarkRootSafe
  <2>2. CASE FullMark
    <3>1. AtRest /\ MarkRoot /\ fullgc' \in BOOLEAN
      BY <2>2 DEF FullMark, AtRest
    <3>. QED  BY <3>1, MarkRootSafe
  <2>3. CASE \E o \in gray : PropagateMark(o)
    BY <2>3, PropagateMarkSafe
  <2>4. CASE Atomic
    BY <2>4, AtomicSafe
  <2>5. CASE SweepString
    BY <2>5, SweepStringSafe
  <2>6. CASE \E S \in SUBSET unswept : Sweep(S)
    BY <2>6, SweepSafe
  <2>7. CASE \E u \in Udata : GCTM(u)
    BY <2>7, GCTMSafe
  <2>8. CASE EndCycle
    BY <2>8, EndCycleSafe
  <2>. QED
    BY <1>2, <2>1, <2>2, <2>3, <2>4, <2>5, <2>6, <2>7, <2>8 DEF CollectorStep
<1>3. CASE \E u \in Udata : FinalizerReturn(u)
  BY <1>3, FinalizerReturnSafe
<1>4. CASE FullGC
  BY <1>4, FullGCSafe
<1>5. CASE UNCHANGED vars
  <2>1. UNCHANGED <<heap, list, colours, finalized, currentwhite, weak, running, collector>>
    BY <1>5 DEF vars
  <2>2. UNCHANGED <<marked, gray, grayagain, gcstate, sweepstrgc, unswept, fullgc>>
    BY <2>1 DEF colours, collector
  <2>3. UNCHANGED <<tab, ud, cl, pr, uv, th, mt>>
    BY <2>1 DEF heap
  <2>4. TypeInv'
    BY NextType DEF SafeInv
  <2>5. LinkInv' /\ BlackOK' /\ UdataInv'
    BY <2>1, <2>2, <2>3
       DEF SafeInv, LinkInv, BlackOK, UdataInv, OldWhite, GrayLists, AtRest, Sweeping, Propagating,
           iswhite, isgray, isblack, IsOpen
  <2>6. ColourOK'
    BY <2>1, <2>2, <2>3
       DEF SafeInv, ColourOK, Ahead, Allocated, Propagating, Sweeping, iswhite, isblack
  <2>7. MarkedOK'
    <3>1. \A o \in Obj : Contents(o)' = Contents(o) /\ Keys(o)' = Keys(o)
      BY <2>1, HeapKept
    <3>. QED  BY <2>1, <2>2, <3>1 DEF SafeInv, MarkedOK, Propagating, iswhite, isblack
  <2>. QED  BY <2>1, <2>2, <2>4, <2>5, <2>6, <2>7, StillSafe
<1>. QED  BY <1>1, <1>2, <1>3, <1>4, <1>5 DEF Next, Collect

(* What the program can reach is never freed, nor will the sweep that is   *)
(* under way free it, and neither is a thread that runs or waits for one   *)
(* it resumed: whatever the heap, the order of stores, steps of the        *)
(* collector, resumes, yields, refused resumes of dead coroutines and      *)
(* finalizers (lgc.cpp, the barriers of lapi.cpp, lvm.cpp, lfunc.cpp and   *)
(* ltable.cpp, lua_resume). What LuaGCUnguarded holds is excluded: the     *)
(* refused resume of a normal coroutine does free such a thread.           *)
THEOREM NothingDangles == Spec => []NoDangling
<1>1. SafeInv => NoDangling
  <2>. SUFFICES ASSUME SafeInv PROVE NoDangling
    OBVIOUS
  <2>1. running \in Live
    BY RegistersLive DEF SafeInv
  <2>2. \A h \in Threads : th[h].resumer = Nil \/ th[h].resumer \in Live
    BY ResumedLive DEF SafeInv
  <2>. QED  BY <2>1, <2>2 DEF SafeInv, NoDangling, Active
<1>. QED  BY <1>1, InitSafe, NextSafe, PTL DEF Spec

(* While marks propagate no black object refers to a white one, but for    *)
(* the userdata that still wait for the finalizer of an earlier cycle: the *)
(* barrier of every store does what it is for (luaC_barrierf,              *)
(* luaC_barrierback, luaC_linkupval), and so do the traversals.            *)
THEOREM BarriersSuffice == Spec => []Tricolor
<1>1. SafeInv => Tricolor
  BY DEF SafeInv, MarkedOK, Tricolor, WhiteIn, Live, Allocated, iswhite
<1>. QED  BY <1>1, InitSafe, NextSafe, PTL DEF Spec

(* Outside a sweep nothing has the white of the cycle that ended: every    *)
(* object was swept, resurrected, recoloured by a barrier or created with  *)
(* the current white (sweeplist, luaC_linkupval, changewhite, luaC_white). *)
THEOREM CurrentWhiteOnly == Spec => []OneWhite
<1>1. SafeInv => OneWhite
  <2>1. SafeInv => /\ ColourOK /\ currentwhite # OtherWhite(currentwhite)
                   /\ OtherWhite(currentwhite) \in Whites /\ "black" \notin Whites
    BY StateTypes DEF SafeInv
  <2>. QED
    BY <2>1 DEF ColourOK, OneWhite, Sweeping, isblack, iswhite
<1>. QED  BY <1>1, InitSafe, NextSafe, PTL DEF Spec
=============================================================================
