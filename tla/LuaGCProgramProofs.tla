-------------------------- MODULE LuaGCProgramProofs --------------------------
(***************************************************************************)
(* Towards the soundness of the collector of LuaGC, for every heap: the    *)
(* inductive invariant from which it follows, and why every step of the    *)
(* program keeps it. LuaGCSafetyProofs has the steps of the collector and  *)
(* the theorems.                                                           *)
(*                                                                         *)
(* A step of the program changes few references. RefStep says of an object *)
(* that each of its references is old, or new and safe: to a live object,  *)
(* and not to a white one from a black one while marks propagate. Every    *)
(* operation with its barrier is shown to be such a step.                  *)
(***************************************************************************)
EXTENDS LuaGCProofs

-----------------------------------------------------------------------------
(* The inductive invariant.                                                *)

(* Which list links an object of each type; an open upvalue is in the open *)
(* list of a thread that is allocated.                                     *)
ListOK ==
  /\ \A s \in Strings : list[s] \in {"free", "strt"}
  /\ \A u \in UpVals : /\ list[u] \in {"free", "rootgc", "openupval"}
                       /\ list[u] = "openupval" <=> IsOpen(u)
                       /\ IsOpen(u) => list[uv[u].owner] # "free"

(* A free block is white and refers to nothing.                            *)
FreeOK == \A o \in Obj : list[o] = "free" => iswhite(o) /\ Contents(o) = {}

(* The threads that resume one another: whatever contains the main thread  *)
(* and what its threads resume contains all that resume and the one that   *)
(* is running. Each thread that is resumed knows who resumed it.           *)
Resumers == {h \in Threads : th[h].resuming # Nil}
ChainFrom(X) == Main \in X /\ \A h \in X : th[h].resuming \in X \cup {Nil}
Paired == \A g \in Threads, h \in Threads : th[g].resuming = h <=> th[h].resumer = g
ChainOK ==
  /\ th[running].resuming = Nil
  /\ \A X \in SUBSET Threads : ChainFrom(X) => Resumers \cup {running} \subseteq X
  /\ Paired

(* What the sweep in progress has still to visit.                          *)
Ahead(o) ==
  \/ list[o] = "rootgc" /\ o \in unswept
  \/ list[o] = "strt" /\ gcstate = "sweepstring" /\ Bucket[o] >= sweepstrgc
  \/ list[o] = "openupval" /\ uv[o].owner \in unswept

(* Every object is of the current white, but for what waits in tmudata,    *)
(* what is marked, and what is not swept yet.                              *)
ColourOK ==
  \A o \in Allocated :
    \/ marked[o] = currentwhite
    \/ list[o] = "tmudata" /\ isblack(o)
    \/ Propagating /\ ~iswhite(o)
    \/ Sweeping /\ Ahead(o)

(* Userdata are never gray, and of the upvalues only open ones are.        *)
GrayOK ==
  /\ \A u \in Udata : ~isgray(u)
  /\ \A u \in UpVals : isgray(u) => list[u] = "openupval"

(* The keys of a table, those of empty nodes included: a store may bring   *)
(* such a node back.                                                       *)
Keys(o) == IF tt[o] = "table" THEN Obj \cap {tab[o].node[s].key : s \in NodeSlots[o]} ELSE {}

(* While marks propagate the main thread and the registry are marked, and  *)
(* what a black object refers to is marked.                                *)
MarkedOK ==
  Propagating =>
    /\ ~iswhite(Main) /\ ~iswhite(Registry)
    /\ \A o \in Obj : isblack(o) /\ list[o] # "tmudata" =>
         \A x \in Contents(o) \cup Keys(o) : ~iswhite(x)

SafeInv ==
  /\ TypeInv /\ LinkInv /\ BlackOK /\ UdataInv
  /\ ListOK /\ FreeOK /\ ChainOK /\ ColourOK /\ GrayOK /\ MarkedOK /\ ReferencesLive

-----------------------------------------------------------------------------
(* The heap: contents, marking, and what is live.                          *)

(* Main and the registry have their types.                                 *)
LEMMA Permanent == Main \in Threads /\ Registry \in Tables /\ Main \in Obj /\ Registry \in Obj
BY HeapAssumption DEF Threads, Tables, OfType

(* An object of which no field changes refers to what it did.              *)
LEMMA SameContents ==
  ASSUME NEW o \in Obj,
         tt[o] = "table" => tab'[o] = tab[o],
         tt[o] \in {"function", "cfunction"} => cl'[o] = cl[o],
         tt[o] = "userdata" => ud'[o] = ud[o],
         tt[o] = "thread" => th'[o] = th[o],
         tt[o] = "proto" => pr'[o] = pr[o],
         tt[o] = "upval" => UpValue(o)' = UpValue(o)
  PROVE  Contents(o)' = Contents(o) /\ Keys(o)' = Keys(o)
<1>1. CASE tt[o] = "table"
  BY <1>1 DEF Contents, Keys, ArrayVals, NodeKeys, NodeVals, FullNodes
<1>2. CASE tt[o] # "table"
  BY <1>2 DEF Contents, Keys, NonTableRefs, ClosureRefs, ThreadRefs, ProtoRefs
<1>. QED  BY <1>1, <1>2

(* What a userdata, an upvalue or any object but a table refers to is what *)
(* traversing it marks.                                                    *)
LEMMA NonTableContents ==
  ASSUME NEW o \in Obj, tt[o] # "table"
  PROVE  Contents(o) = Refs(o) /\ Keys(o) = {}
BY DEF Contents, Refs, Keys

(* Marking a userdata or a closed upvalue marks what it refers to: these   *)
(* are black at once (reallymarkobject).                                   *)
LEMMA MarkSetClosed ==
  ASSUME HeapTypeOK, NEW S, NEW o \in MarkSet(S), MarkColour(o) = "black"
  PROVE  WhiteIn(Contents(o)) \subseteq MarkSet(S)
<1>. DEFINE w0 == WhiteIn(S)
            w1 == w0 \cup WhiteIn(Immediate(w0))
<1>1. MarkSet(S) = w1 \cup WhiteIn(Immediate(w1)) /\ w1 \subseteq Obj
  BY DEF MarkSet, WhiteIn
<1>2. o \in Obj /\ tt[o] \in {"userdata", "upval"}
  BY <1>1 DEF MarkColour, WhiteIn
<1>3. Contents(o) = Refs(o)
  BY <1>2, NonTableContents
<1>4. CASE o \in w1
  <2>1. Refs(o) \subseteq Immediate(w1)
    BY <1>2, <1>4 DEF Immediate
  <2>. QED  BY <1>1, <1>3, <2>1 DEF WhiteIn
<1>5. CASE o \in WhiteIn(Immediate(w1)) \ w1
  <2>1. PICK p \in w1 : tt[p] \in {"userdata", "upval"} /\ o \in Refs(p)
    BY <1>5 DEF WhiteIn, Immediate
  <2>2. p \notin w0
    BY <1>5, <2>1 DEF WhiteIn, Immediate
  <2>3. PICK q \in w0 : tt[q] \in {"userdata", "upval"} /\ p \in Refs(q)
    BY <2>1, <2>2 DEF WhiteIn, Immediate
  <2>4. ASSUME NEW x \in Obj, tt[x] = "userdata" PROVE Refs(x) \subseteq Tables
    <3>1. ud[x] \in UdataRec
      BY <2>4 DEF HeapTypeOK, ContentsTypeOK, Udata, OfType
    <3>. QED
      BY <2>4, <3>1, HeapAssumption DEF Refs, NonTableRefs, UdataRec, TableOrNil
  <2>5. ASSUME NEW x \in Obj, tt[x] = "upval" PROVE Refs(x) \cap UpVals = {}
    <3>1. UpValue(x) \in Value
      BY <2>5, UpValueType DEF UpVals, OfType
    <3>. QED  BY <2>5, <3>1, HeapAssumption DEF Refs, NonTableRefs, Value
  <2>6. p \in Obj /\ q \in Obj
    BY <1>1
  <2>7. tt[q] = "upval" /\ tt[p] = "userdata"
    BY <2>1, <2>3, <2>4, <2>5, <2>6 DEF Tables, UpVals, OfType
  <2>. QED  BY <1>2, <2>1, <2>4, <2>6, <2>7 DEF Tables, OfType
<1>. QED  BY <1>1, <1>4, <1>5

(* While marks propagate everything that is allocated is live.             *)
LEMMA AllLive ==
  ASSUME TypeInv, ColourOK, Propagating \/ AtRest
  PROVE  Live = Allocated
<1>1. currentwhite \in Whites
  BY DEF TypeInv, TypeOK, HeapTypeOK
<1>. QED
  BY <1>1 DEF ColourOK, Live, isdead, Propagating, AtRest, Sweeping, OtherWhite, iswhite, isblack, Whites

(* Everything in the registers of the running thread is live.              *)
LEMMA RegistersLive ==
  ASSUME TypeInv, ReferencesLive
  PROVE  /\ running \in Live /\ running \in Threads
         /\ \A i \in StackSlots : Reg(i) \in Obj => Reg(i) \in Live
         /\ th[running].gt \in Obj => th[running].gt \in Live
         /\ th[running].gctm \subseteq Live
<1>1. running \in Threads /\ running \in Obj /\ tt[running] = "thread"
  BY DEF TypeInv, TypeOK, HeapTypeOK, Threads, OfType
<1>2. running \in Live /\ Contents(running) \subseteq Live
  BY <1>1 DEF ReferencesLive, Roots
<1>3. Contents(running) = Obj \cap ThreadRefs(running)
  BY <1>1 DEF Contents, NonTableRefs
<1>4. th[running].gctm \subseteq Obj
  BY <1>1 DEF TypeInv, TypeOK, HeapTypeOK, ContentsTypeOK, ThreadRec, Udata, OfType
<1>. QED  BY <1>1, <1>2, <1>3, <1>4 DEF ThreadRefs, Reg

(* So is what the program holds, and what it can read.                     *)
LEMMA HeldLive ==
  ASSUME TypeInv, ReferencesLive
  PROVE  Held \subseteq Live /\ Readable \subseteq Live
<1>1. Held \subseteq Live
  BY RegistersLive DEF Held, ReferencesLive, Roots
<1>2. ASSUME NEW o \in Held PROVE Fields(o) \cap Obj \subseteq Live
  <2>1. o \in Live /\ o \in Obj /\ Contents(o) \subseteq Live
    BY <1>1 DEF ReferencesLive, Live, Allocated
  <2>2. CASE tt[o] = "function"
    <3>1. {cl[o].env, cl[o].upvalue} \cap Obj \subseteq Contents(o)
      BY <2>2 DEF Contents, NonTableRefs, ClosureRefs
    <3>2. ASSUME NEW u \in UpVals, u = cl[o].upvalue PROVE {UpValue(u)} \cap Obj \subseteq Live
      <4>1. u \in Obj /\ tt[u] = "upval"
        BY DEF UpVals, OfType
      <4>2. u \in Live /\ {UpValue(u)} \cap Obj \subseteq Contents(u)
        BY <2>1, <3>1, <3>2, <4>1 DEF Contents, NonTableRefs
      <4>. QED  BY <4>2 DEF ReferencesLive
    <3>. QED  BY <2>1, <2>2, <3>1, <3>2 DEF Fields
  <2>3. CASE tt[o] = "thread"
    BY <2>1, <2>3 DEF Fields, Contents, NonTableRefs, ThreadRefs
  <2>4. CASE tt[o] \notin {"function", "thread"}
    BY <2>1, <2>4 DEF Fields
  <2>. QED  BY <2>2, <2>3, <2>4
<1>3. mt \in Obj => mt \in Live
  BY DEF ReferencesLive, Roots
<1>. QED  BY <1>1, <1>2, <1>3 DEF Readable

(* The threads that resume one another are live.                           *)
LEMMA ResumersLive ==
  ASSUME TypeInv, ReferencesLive, ChainOK
  PROVE  Resumers \subseteq Live
<1>. DEFINE X == Live \cap Threads
<1>1. Main \in X
  BY Permanent DEF ReferencesLive, Roots
<1>2. ASSUME NEW h \in X PROVE th[h].resuming \in X \cup {Nil}
  <2>1. tt[h] = "thread" /\ h \in Obj
    BY DEF Threads, OfType
  <2>2. th[h].resuming \in Threads \cup {Nil}
    BY DEF TypeInv, TypeOK, HeapTypeOK, ContentsTypeOK, ThreadRec
  <2>3. th[h].resuming \in Obj => th[h].resuming \in Contents(h)
    BY <2>1 DEF Contents, NonTableRefs, ThreadRefs
  <2>. QED  BY <2>2, <2>3 DEF ReferencesLive, Threads, OfType
<1>. QED  BY <1>1, <1>2 DEF ChainOK, ChainFrom

(* A thread that knows who resumed it is live, and so is the one it knows. *)
LEMMA ResumedLive ==
  ASSUME TypeInv, ReferencesLive, ChainOK, NEW h \in Threads, th[h].resumer # Nil
  PROVE  h \in Live /\ th[h].resumer \in Live
<1>1. th[h].resumer \in Threads /\ h \in Obj /\ Nil \notin Threads
  BY HeapAssumption DEF TypeInv, TypeOK, HeapTypeOK, ContentsTypeOK, ThreadRec, Threads, OfType
<1>2. PICK g \in Threads : g = th[h].resumer /\ th[g].resuming = h
  BY <1>1 DEF ChainOK, Paired
<1>3. g \in Live /\ g \in Obj /\ tt[g] = "thread"
  BY <1>1, <1>2, ResumersLive DEF Resumers, Threads, OfType
<1>4. h \in Contents(g)
  BY <1>1, <1>2, <1>3 DEF Contents, NonTableRefs, ThreadRefs
<1>. QED  BY <1>2, <1>3, <1>4 DEF ReferencesLive

-----------------------------------------------------------------------------
(* The program: lists, colours and threads.                                *)

(* The types of the variables, as the steps of SafeInv need them.          *)
LEMMA StateTypes ==
  ASSUME TypeInv
  PROVE  /\ marked \in [Obj -> Whites \cup {"gray", "black"}] /\ list \in [Obj -> Lists]
         /\ currentwhite \in Whites /\ running \in Threads
         /\ th \in [Threads -> ThreadRec] /\ uv \in [UpVals -> UpValRec]
         /\ currentwhite # OtherWhite(currentwhite) /\ OtherWhite(currentwhite) \in Whites
         /\ "gray" \notin Whites /\ "black" \notin Whites /\ "white0" \in Whites
BY DEF TypeInv, TypeOK, HeapTypeOK, ColoursTypeOK, ContentsTypeOK, Whites, OtherWhite

(* An open upvalue is never black, and if it is white but not dead, it has *)
(* the current white.                                                      *)
LEMMA OpenColours ==
  ASSUME TypeInv, BlackOK, ListOK, NEW u \in UpVals, list[u] = "openupval"
  PROVE  ~isblack(u) /\ (~isdead(u) /\ ~isgray(u) => marked[u] = currentwhite)
<1>1. u \in Obj /\ tt[u] = "upval" /\ u \notin Fixed
  BY HeapAssumption DEF UpVals, OfType
<1>2. ~isblack(u)
  BY <1>1 DEF BlackOK, ListOK
<1>. QED
  BY <1>1, <1>2, StateTypes DEF isdead, isgray, isblack, Whites, OtherWhite

(* What is live stays live, and what is marked stays marked: the program   *)
(* frees dead upvalues only.                                               *)
LEMMA ProgramKeepsLive ==
  ASSUME TypeInv, FreeOK, Program
  PROVE  /\ Live \subseteq Live'
         /\ \A o \in Obj : Propagating /\ ~iswhite(o) => marked'[o] \notin Whites
<1>1. currentwhite' = currentwhite
  BY ProgramKeeps
<1>2. ASSUME NEW o \in Live PROVE o \in Live'
  <2>1. o \in Obj /\ list[o] # "free" /\ ~isdead(o)
    BY DEF Live, Allocated
  <2>2. ColourStep(o)
    BY <2>1, ProgramColours
  <2>3. list'[o] # "free" /\ (marked'[o] # OtherWhite(currentwhite) \/ marked'[o] = marked[o])
    BY <2>1, <2>2, StateTypes DEF ColourStep, Kept, Created, Resurrected, Marked, Whitened, Grayed,
       Closed, MarkColour
  <2>. QED  BY <1>1, <2>1, <2>3 DEF Live, Allocated, isdead
<1>3. ASSUME NEW o \in Obj, Propagating, ~iswhite(o) PROVE marked'[o] \notin Whites
  <2>1. ColourStep(o)
    BY ProgramColours
  <2>2. list[o] # "free" /\ ~isdead(o) /\ marked[o] # OtherWhite(currentwhite)
    BY <1>3, StateTypes DEF FreeOK, iswhite, isdead
  <2>. QED
    BY <1>3, <2>1, <2>2, StateTypes DEF ColourStep, Kept, Created, Resurrected, Marked, Whitened,
       Grayed, Closed, isgray, iswhite
<1>. QED  BY <1>2, <1>3

(* Strings and upvalues are linked where they belong.                      *)
LEMMA ProgramLists ==
  ASSUME TypeInv, ListOK, FreeOK, ReferencesLive, Program
  PROVE  ListOK'
<1>1. ASSUME NEW s \in Strings PROVE list'[s] \in {"free", "strt"}
  <2>1. s \in Obj /\ tt[s] = "string" /\ s \notin UpVals
    BY DEF Strings, UpVals, OfType
  <2>2. ColourStep(s)
    BY <2>1, ProgramColours
  <2>. QED
    BY <2>1, <2>2 DEF ListOK, ColourStep, Kept, Created, Resurrected, Marked, Whitened, Grayed, Closed
<1>2. \A h \in Threads : list[h] # "free" => list'[h] # "free"
  <2>1. ASSUME NEW h \in Threads, list[h] # "free" PROVE list'[h] # "free"
    <3>1. h \in Obj /\ tt[h] = "thread" /\ h \notin UpVals
      BY DEF Threads, UpVals, OfType
    <3>2. ColourStep(h)
      BY <3>1, ProgramColours
    <3>. QED
      BY <2>1, <3>1, <3>2 DEF ColourStep, Kept, Created, Resurrected, Marked, Whitened, Grayed, Closed
  <2>. QED  BY <2>1
<1>3. ASSUME NEW u \in UpVals
      PROVE  /\ list'[u] \in {"free", "rootgc", "openupval"}
             /\ list'[u] = "openupval" <=> IsOpen(u)'
             /\ IsOpen(u)' => list'[uv'[u].owner] # "free"
  <2>1. SameSlot(u) \/ Opened(u) \/ Unowned(u)
    BY ProgramOwners
  <2>2. CASE SameSlot(u)
    <3>1. uv[u].owner \in Threads \cup {Nil}
      BY StateTypes DEF UpValRec
    <3>. QED  BY <1>2, <2>2, <3>1 DEF SameSlot, ListOK, IsOpen
  <2>3. CASE Opened(u)
    <3>1. running \in Threads /\ running \in Live
      BY RegistersLive
    <3>2. list'[running] # "free" /\ running # Nil
      BY <1>2, <3>1, HeapAssumption DEF Live, Allocated
    <3>. QED  BY <2>3, <3>2 DEF Opened, IsOpen
  <2>4. CASE Unowned(u)
    BY <2>4 DEF Unowned, IsOpen
  <2>. QED  BY <2>1, <2>2, <2>3, <2>4
<1>. QED  BY <1>1, <1>3 DEF ListOK

(* Only upvalues are in an open list, only strings in strt, and only       *)
(* userdata wait for their finalizer.                                      *)
LEMMA ListTypes ==
  ASSUME LinkInv, UdataInv, ListOK, NEW o \in Obj
  PROVE  /\ list[o] = "openupval" => o \in UpVals
         /\ list[o] = "tmudata" => o \in Udata
         /\ list[o] = "strt" => o \in Strings
<1>1. tt[o] \in Traversable => list[o] \in {"free", "rootgc"}
  BY DEF LinkInv, TraversableObj, OfType
<1>2. tt[o] \in Types
  BY HeapAssumption
<1>3. \/ tt[o] \in Traversable
      \/ o \in Udata \/ o \in Strings \/ o \in UpVals
  BY <1>2 DEF Types, Traversable, Udata, Strings, UpVals, OfType
<1>. QED  BY <1>1, <1>3 DEF UdataInv, ListOK

(* Nothing gets the white of the last cycle.                               *)
LEMMA ProgramWhites ==
  ASSUME TypeInv, LinkInv, UdataInv, BlackOK, ListOK, ColourOK, Program
  PROVE  ColourOK'
<1>1. UNCHANGED <<gcstate, unswept, sweepstrgc, currentwhite>>
  BY DEF Program, gcvars, collector
<1>. SUFFICES ASSUME NEW o \in Obj, list'[o] # "free"
              PROVE  \/ marked'[o] = currentwhite
                     \/ list'[o] = "tmudata" /\ marked'[o] = "black"
                     \/ Propagating /\ marked'[o] \notin Whites
                     \/ Sweeping /\ Ahead(o)'
  BY <1>1 DEF ColourOK, Allocated, isblack, iswhite, Propagating, Sweeping
<1>2. ColourStep(o)
  BY ProgramColours
<1>3. ASSUME list'[o] = list[o] PROVE Ahead(o) => Ahead(o)'
  <2>1. CASE o \in UpVals
    BY <1>1, <1>3, <2>1, ProgramOwners DEF Ahead, SameSlot, Opened, Unowned
  <2>2. CASE o \notin UpVals
    BY <1>1, <1>3, <2>2, ListTypes DEF Ahead
  <2>. QED  BY <2>1, <2>2
<1>4. CASE Kept(o)
  BY <1>3, <1>4 DEF Kept, ColourOK, Allocated, isblack, iswhite
<1>5. CASE Grayed(o)
  <2>1. list[o] # "tmudata" /\ list'[o] = list[o] /\ marked'[o] = "gray" /\ isblack(o)
    BY <1>5, ListTypes DEF Grayed, Udata, OfType
  <2>. QED  BY <1>3, <2>1, StateTypes DEF ColourOK, Allocated, isblack
<1>6. CASE Closed(o)
  <2>1. o \in UpVals /\ list[o] = "openupval" /\ ~isdead(o)
    BY <1>6 DEF Closed
  <2>. QED  BY <1>6, <2>1, OpenColours, StateTypes DEF Closed
<1>. QED
  BY <1>2, <1>4, <1>5, <1>6, StateTypes DEF ColourStep, Created, Resurrected, Marked, Whitened,
     MarkColour

(* Userdata do not turn gray, nor do upvalues that are not open.           *)
LEMMA ProgramGrays ==
  ASSUME TypeInv, BlackOK, ListOK, GrayOK, Program
  PROVE  GrayOK'
<1>1. ASSUME NEW o \in Udata \cup UpVals, marked'[o] = "gray"
      PROVE  o \in UpVals /\ list'[o] = "openupval"
  <2>1. o \in Obj /\ tt[o] \in {"userdata", "upval"} /\ (o \in Udata => tt[o] = "userdata")
    BY DEF Udata, UpVals, OfType
  <2>2. o \in UpVals <=> tt[o] = "upval"
    BY <2>1 DEF UpVals, OfType
  <2>3. ColourStep(o)
    BY <2>1, ProgramColours
  <2>4. CASE Kept(o)
    BY <1>1, <2>4 DEF Kept, GrayOK, isgray
  <2>5. CASE Marked(o)
    BY <1>1, <2>1, <2>2, <2>5 DEF Marked, MarkColour, ListOK
  <2>6. CASE Closed(o)
    BY <1>1, <2>6, StateTypes DEF Closed, isgray
  <2>. QED
    BY <1>1, <2>1, <2>3, <2>4, <2>5, <2>6, StateTypes DEF ColourStep, Created, Resurrected, Whitened,
       Grayed
<1>2. Udata \cap UpVals = {}
  BY DEF Udata, UpVals, OfType
<1>. QED  BY <1>1, <1>2 DEF GrayOK, isgray

(* Nothing but a switch changes which thread resumes which.                *)
SameChain(h) == th'[h].resuming = th[h].resuming /\ th'[h].resumer = th[h].resumer
LEMMA ProgramResuming ==
  ASSUME TypeInv, FreeOK, ChainOK, ReferencesLive, Program, ~Switches
  PROVE  running' = running /\ \A h \in Threads : SameChain(h)
<1>1. th \in [Threads -> ThreadRec]
  BY StateTypes
<1>2. ASSUME NEW i, NEW v, SetReg(i, v) PROVE \A h \in Threads : SameChain(h)
  BY <1>1, <1>2 DEF SetReg, ThreadRec, SameChain
<1>3. ASSUME NEW g \in Threads, NEW i \in StackSlots, NewThread(g, i)
      PROVE  \A h \in Threads : SameChain(h)
  <2>1. list[g] = "free" /\ g \in Obj /\ tt[g] = "thread"
    BY <1>3 DEF NewThread, Link, Threads, OfType
  <2>2. th[g].resuming \notin Obj
    BY <2>1 DEF FreeOK, Contents, NonTableRefs, ThreadRefs
  <2>3. th[g].resuming = Nil /\ th[g].resumer = Nil
    BY <1>1, <2>1, <2>2, ResumedLive DEF ThreadRec, Threads, OfType, Live, Allocated
  <2>. QED  BY <1>1, <1>3, <2>3 DEF NewThread, NewThreadRec, ThreadRec, SameChain
<1>4. CASE Allocations
  <2>1. \/ \E i, v : SetReg(i, v)
        \/ \E g \in Threads, i \in StackSlots : NewThread(g, i)
    BY <1>4 DEF Allocations, NewTable, NewUdata, NewString, NewCClosure, ShareUpVal, Capture
  <2>2. running' = running
    BY <1>4 DEF Allocations, NewTable, NewUdata, NewThread, NewString, NewCClosure, ShareUpVal, Capture
  <2>. QED  BY <1>2, <1>3, <2>1, <2>2
<1>5. CASE Stores
  <2>. DEFINE writes == \/ UNCHANGED th
                        \/ \E h, v : th' = [th EXCEPT ![h].gt = v]
                        \/ \E h, i, v : th' = [th EXCEPT ![h].stack[i] = v]
  <2>1. ASSUME NEW v, \/ \E t \in Tables : \/ \E s, k : SetArray(t, s, v) \/ SetNode(t, s, k, v)
                                        \/ SetTableMeta(t, v)
                      \/ \E x \in Udata : SetUdataMeta(x, v) \/ SetUdataEnv(x, v)
                      \/ SetBasicMeta(v)
                      \/ \E f : SetClosureEnv(f, v) \/ SetCUpvalue(f, v)
                      \/ \E h : SetThreadEnv(h, v)
                      \/ \E f : SetUpval(f, v)
        PROVE  writes
    BY <2>1 DEF SetArray, SetNode, SetTableMeta, SetUdataMeta, SetUdataEnv, SetBasicMeta,
       SetClosureEnv, SetThreadEnv, SetCUpvalue, SetUpval
  <2>3. writes
    <3>. HIDE DEF writes
    <3>. QED  BY <1>5, <2>1 DEF Stores
  <2>2. running' = running
    <3>1. ASSUME NEW v, \/ \E t \in Tables : \/ \E x, k : SetArray(t, x, v) \/ SetNode(t, x, k, v)
                                          \/ SetTableMeta(t, v)
                        \/ \E x \in Udata : SetUdataMeta(x, v) \/ SetUdataEnv(x, v)
                        \/ SetBasicMeta(v)
                        \/ \E f : SetClosureEnv(f, v) \/ SetCUpvalue(f, v)
                        \/ \E h : SetThreadEnv(h, v)
                        \/ \E f : SetUpval(f, v)
          PROVE  running' = running
      BY <3>1 DEF SetArray, SetNode, SetTableMeta, SetUdataMeta, SetUdataEnv, SetBasicMeta,
         SetClosureEnv, SetThreadEnv, SetCUpvalue, SetUpval
    <3>. QED  BY <1>5, <3>1 DEF Stores
  <2>. QED  BY <1>1, <2>2, <2>3 DEF ThreadRec, SameChain
<1>6. CASE \/ \E i \in StackSlots, v \in Readable \cup {Nil} : Load(i, v)
           \/ \E level \in StackSlots : CloseUpvals(level)
           \/ SetFields \/ Loading
  <2>1. UNCHANGED <<th, running>> \/ (running' = running /\ \E i, v : SetReg(i, v))
    BY <1>6 DEF Load, CloseUpvals, SetFields, SetMode, SetGC, Loading, NewProto, LoadChunk, AddConst
  <2>. QED  BY <1>2, <2>1 DEF SameChain
<1>. QED  BY <1>4, <1>5, <1>6 DEF Program

(* A switch adds a thread to the end of the chain, or takes the last away. *)
LEMMA ProgramChain ==
  ASSUME TypeInv, FreeOK, ChainOK, ReferencesLive, Program
  PROVE  ChainOK'
<1>1. th \in [Threads -> ThreadRec] /\ running \in Threads /\ Nil \notin Threads
  BY StateTypes, HeapAssumption DEF Threads, OfType
<1>2. ASSUME running' = running, \A h \in Threads : SameChain(h) PROVE ChainOK'
  BY <1>1, <1>2 DEF ChainOK, ChainFrom, Resumers, Paired, SameChain
<1>3. ASSUME NEW h \in Threads, NEW i, NEW j, Resume(h, i, j) PROVE ChainOK'
  <2>1. h # Main /\ h # running /\ th[h].resumer = Nil /\ running' = h
    BY <1>3 DEF Resume, Resumable
  <2>2. /\ th'[running].resuming = h /\ th'[h].resumer = running
        /\ \A g \in Threads \ {running} : th'[g].resuming = th[g].resuming
        /\ \A g \in Threads \ {h} : th'[g].resumer = th[g].resumer
    <3>1. PICK v : th' = [th EXCEPT ![running].resuming = h, ![h].resumer = running,
                                    ![h].stack[j] = v]
      BY <1>3 DEF Resume
    <3>. QED  BY <1>1, <2>1, <3>1 DEF ThreadRec
  <2>3. \A g \in Threads : th[g].resuming # h
    BY <1>1, <2>1 DEF ChainOK, Paired
  <2>4. ChainFrom(Threads \ {h})
    <3>1. \A g \in Threads : th[g].resuming \in Threads \cup {Nil}
      BY <1>1 DEF ThreadRec
    <3>. QED  BY <2>1, <2>3, <3>1, Permanent DEF ChainFrom
  <2>5. h \notin Resumers
    BY <2>4 DEF ChainOK
  <2>6. ASSUME NEW X \in SUBSET Threads, ChainFrom(X)' PROVE Resumers' \cup {running'} \subseteq X
    <3>1. ChainFrom(X)
      BY <2>2, <2>6 DEF ChainFrom, ChainOK
    <3>2. Resumers \cup {running} \subseteq X
      BY <3>1 DEF ChainOK
    <3>3. h \in X
      BY <1>1, <2>2, <2>6, <3>2 DEF ChainFrom
    <3>. QED  BY <2>1, <2>2, <3>2, <3>3 DEF Resumers
  <2>7. th'[running'].resuming = Nil
    BY <2>1, <2>2, <2>5 DEF Resumers
  <2>8. Paired'
    <3>1. th[running].resuming = Nil /\ \A g \in Threads : th[g].resumer # running \/ th[running].resuming = g
      BY <1>1 DEF ChainOK, Paired
    <3>2. \A g \in Threads : th[g].resumer # running
      BY <1>1, <3>1
    <3>. QED  BY <1>1, <2>1, <2>2, <2>3, <3>1, <3>2 DEF ChainOK, Paired
  <2>. QED  BY <2>6, <2>7, <2>8 DEF ChainOK
<1>4. ASSUME NEW h \in Threads, NEW i, NEW j, Yield(h, i, j) PROVE ChainOK'
  <2>1. th[h].resuming = running /\ th[running].resumer = h /\ running' = h
    BY <1>1, <1>4 DEF Yield, ChainOK, Paired
  <2>2. h # running /\ h \in Resumers /\ running \notin Resumers
    BY <1>1, <2>1 DEF ChainOK, Resumers
  <2>3. /\ th'[h].resuming = Nil /\ \A g \in Threads \ {h} : th'[g].resuming = th[g].resuming
        /\ th'[running].resumer = Nil
        /\ \A g \in Threads \ {running} : th'[g].resumer = th[g].resumer
    <3>1. PICK v : th' = [th EXCEPT ![running].resumer = Nil, ![h].resuming = Nil,
                                    ![h].stack[j] = v]
      BY <1>4 DEF Yield
    <3>. QED  BY <1>1, <2>2, <3>1 DEF ThreadRec
  <2>4. ASSUME NEW X \in SUBSET Threads, ChainFrom(X)' PROVE Resumers' \cup {running'} \subseteq X
    <3>1. ChainFrom(X \cup {running})
      BY <1>1, <2>1, <2>3, <2>4 DEF ChainFrom, ChainOK
    <3>2. Resumers \cup {running} \subseteq X \cup {running}
      BY <1>1, <3>1 DEF ChainOK
    <3>. QED  BY <2>1, <2>2, <2>3, <3>2 DEF Resumers
  <2>5. Paired'
    <3>1. ASSUME NEW f \in Threads, NEW g \in Threads
          PROVE  th'[f].resuming = g <=> th'[g].resumer = f
      <4>1. CASE f = h \/ g = running
        BY <1>1, <2>1, <2>2, <2>3, <3>1, <4>1 DEF ChainOK, Paired
      <4>2. CASE f # h /\ g # running
        BY <2>3, <3>1, <4>2 DEF ChainOK, Paired
      <4>. QED  BY <4>1, <4>2
    <3>. QED  BY <3>1 DEF Paired
  <2>. QED  BY <2>1, <2>3, <2>4, <2>5 DEF ChainOK
<1>5. ASSUME NEW h \in Threads, NEW i, NEW j, ResumeDead(h, i, j) PROVE ChainOK'
  <2>1. running' = running
    BY <1>5 DEF ResumeDead
  <2>2. PICK r : th' = [th EXCEPT ![h].stack = r, ![running].stack[j] = Nil]
    BY <1>5 DEF ResumeDead
  <2>3. \A g \in Threads : SameChain(g)
    BY <1>1, <2>2 DEF ThreadRec, SameChain
  <2>. QED  BY <1>2, <2>1, <2>3
<1>6. CASE Switches
  BY <1>3, <1>4, <1>5, <1>6, HeldType DEF Switches
<1>. QED  BY <1>2, <1>6, ProgramResuming

-----------------------------------------------------------------------------
(* References that a step of the program adds.                             *)

(* It refers to an object that is live, and marked if it has to be.        *)
NewRef(o, x) ==
  x \in Live' /\ (Propagating /\ marked'[o] = "black" => marked'[x] \notin Whites)

(* It was there, and no black object has it that was not black.            *)
OldRef(o, x) ==
  x \in Contents(o) /\ o \in Live /\ (Propagating /\ marked'[o] = "black" => isblack(o))

RefStep(o) ==
  /\ o \in Live' => \A x \in Contents(o)' : NewRef(o, x) \/ OldRef(o, x)
  /\ Propagating /\ marked'[o] = "black" =>
       \A x \in Keys(o)' : marked'[x] \notin Whites \/ (x \in Keys(o) /\ isblack(o))
  /\ list'[o] = "free" => Contents(o)' = {}

(* If this is all that a step of the program does, nothing dangles and     *)
(* every black object keeps to marked ones.                                *)
LEMMA RefStepsSafe ==
  ASSUME SafeInv, Program, \A o \in Obj : RefStep(o), {running', mt'} \cap Obj \subseteq Live'
  PROVE  FreeOK' /\ MarkedOK' /\ ReferencesLive'
<1>. USE DEF SafeInv
<1>1. UNCHANGED <<gcstate, currentwhite>>
  BY ProgramKeeps
<1>2. FreeOK'
  <2>1. ASSUME NEW o \in Obj, list'[o] = "free" PROVE marked'[o] \in Whites
    <3>1. ColourStep(o)
      BY ProgramColours
    <3>2. list[o] = "free" => marked[o] \in Whites /\ ~isblack(o)
      BY StateTypes DEF FreeOK, iswhite, isblack
    <3>3. currentwhite \in Whites /\ "white0" \in Whites
      BY StateTypes
    <3>. HIDE DEF SafeInv
    <3>. QED
      BY <2>1, <3>1, <3>2, <3>3 DEF ColourStep, Kept, Created, Resurrected, Marked, Whitened, Grayed,
         Closed
  <2>. QED  BY <2>1 DEF FreeOK, RefStep, iswhite
<1>3. \A o \in Obj : list'[o] = "tmudata" <=> list[o] = "tmudata"
  <2>1. ASSUME NEW o \in Obj PROVE list'[o] = "tmudata" <=> list[o] = "tmudata"
    <3>1. ColourStep(o)
      BY ProgramColours
    <3>. QED
      BY <3>1 DEF ColourStep, Kept, Created, Resurrected, Marked, Whitened, Grayed, Closed
  <2>. QED  BY <2>1
<1>4. MarkedOK'
  <2>1. CASE Propagating
    <3>1. marked'[Main] \notin Whites /\ marked'[Registry] \notin Whites
      BY <2>1, Permanent, ProgramKeepsLive DEF MarkedOK
    <3>2. ASSUME NEW o \in Obj, marked'[o] = "black", list'[o] # "tmudata",
                 NEW x \in Contents(o)' \cup Keys(o)'
          PROVE  marked'[x] \notin Whites
      <4>1. o \in Live'
        BY <1>1, <1>2, <3>2, StateTypes DEF FreeOK, Live, Allocated, isdead, iswhite
      <4>2. x \in Contents(o) \cup Keys(o) /\ isblack(o) => ~iswhite(x) /\ x \in Obj
        BY <1>3, <2>1, <3>2 DEF MarkedOK, Contents, Keys
      <4>. QED  BY <2>1, <3>2, <4>1, <4>2, ProgramKeepsLive DEF RefStep, NewRef, OldRef
    <3>. QED  BY <3>1, <3>2 DEF MarkedOK, isblack, iswhite
  <2>2. CASE ~Propagating
    BY <1>1, <2>2 DEF MarkedOK, Propagating
  <2>. QED  BY <2>1, <2>2
<1>5. ReferencesLive'
  <2>1. Live \subseteq Live'
    BY ProgramKeepsLive
  <2>2. Main \in Live /\ Registry \in Live
    BY Permanent DEF ReferencesLive, Roots
  <2>3. \A u \in Udata : list'[u] = "tmudata" => u \in Live'
    BY <1>3, <2>1 DEF ReferencesLive, Udata, OfType
  <2>4. ASSUME NEW o \in Live' PROVE Contents(o)' \subseteq Live'
    <3>1. o \in Obj
      BY DEF Live, Allocated
    <3>. QED  BY <2>1, <3>1 DEF RefStep, NewRef, OldRef, ReferencesLive
  <2>. QED  BY <2>1, <2>2, <2>3, <2>4 DEF ReferencesLive, Roots
<1>. QED  BY <1>2, <1>4, <1>5

(* What an object of the program turns live from: allocation, or a string  *)
(* or an open upvalue found again.                                         *)
LEMMA BornLive ==
  ASSUME TypeInv, ListOK, BlackOK, ColourOK, Program, NEW o \in Live', o \notin Live
  PROVE  \/ list[o] = "free"
         \/ tt[o] = "string"
         \/ /\ tt[o] = "upval" /\ list'[o] = list[o] /\ marked'[o] = currentwhite
            /\ marked[o] # currentwhite
<1>1. o \in Obj /\ list'[o] # "free" /\ ~isdead(o)'
  BY DEF Live, Allocated
<1>2. ColourStep(o)
  BY <1>1, ProgramColours
<1>3. list[o] # "free" => isdead(o) /\ marked[o] = OtherWhite(currentwhite)
  BY <1>1 DEF Live, Allocated, isdead
<1>4. currentwhite' = currentwhite
  BY ProgramKeeps
<1>5. CASE Marked(o)
  <2>1. o \in Live
    BY <1>1, <1>5, AllLive DEF Marked, Allocated
  <2>. QED  BY <2>1
<1>. QED
  BY <1>1, <1>2, <1>3, <1>4, <1>5, StateTypes DEF ColourStep, Kept, Created, Resurrected, Marked,
     Whitened, Grayed, Closed, isdead, isblack

-----------------------------------------------------------------------------
(* Loads, allocations and switches: the registers get what is live, and    *)
(* what is created refers to what is live.                                 *)

(* The thread h gets references from N only.                               *)
ThreadGets(h, N) ==
  /\ list'[h] # "free"
  /\ ThreadRefs(h)' \subseteq ThreadRefs(h) \cup N
  /\ \A i \in StackSlots : th'[h].stack[i] \in {th[h].stack[i]} \cup N

(* o refers to what it did, or is created with references from N.          *)
SameRefs(o) == Contents(o)' = Contents(o) /\ Keys(o)' = Keys(o)
CreatedWith(o, N) ==
  list[o] = "free" /\ list'[o] # "free" /\ Contents(o)' \subseteq N /\ Keys(o)' = {}

(* A step after which some threads refer to more, and the objects created  *)
(* to what is live, is a safe one.                                         *)
LEMMA RegisterRefs ==
  ASSUME SafeInv, Program, NEW N, N \cap Obj \subseteq Live',
         \A o \in Obj : marked'[o] \in {marked[o], currentwhite},
         \A h \in Threads : th'[h] = th[h] \/ ThreadGets(h, N),
         \A o \in Obj \ (UpVals \cup Threads) : SameRefs(o) \/ CreatedWith(o, N),
         \A u \in UpVals : /\ uv'[u] = uv[u] \/ (Opened(u) /\ uv'[u].level \in StackSlots)
                           /\ \/ marked'[u] = marked[u]
                              \/ list'[u] = "openupval" /\ uv'[u].owner = running
  PROVE  \A o \in Obj : RefStep(o)
<1>1. /\ TypeInv /\ BlackOK /\ ListOK /\ FreeOK /\ ColourOK /\ ReferencesLive
      /\ currentwhite # "black"
  BY StateTypes DEF SafeInv
<1>2. Live \subseteq Live' /\ BlackOK'
  BY <1>1, ProgramKeepsLive, ProgramBlack
<1>3. ASSUME NEW o \in Obj PROVE marked'[o] = "black" => isblack(o)
  BY <1>1 DEF isblack
<1>4. ASSUME NEW o \in Obj, list[o] = "free" PROVE Contents(o) = {} /\ ~isblack(o)
  BY <1>1, StateTypes, <1>4 DEF FreeOK, iswhite, isblack
<1>5. ASSUME NEW o \in Obj \ UpVals, list'[o] = "free" PROVE list[o] = "free"
  <2>1. ColourStep(o)
    BY <1>1, ProgramColours
  <2>. QED
    BY <1>5, <2>1 DEF ColourStep, Kept, Created, Resurrected, Marked, Whitened, Grayed, Closed
<1>6. ASSUME NEW o \in Obj \ UpVals, SameRefs(o) PROVE RefStep(o)
  <2>1. o \in Live' /\ o \notin Live => Contents(o) = {}
    <3>1. tt[o] = "string" => Contents(o) = {}
      BY DEF Contents, NonTableRefs
    <3>2. tt[o] # "upval"
      BY DEF UpVals, OfType
    <3>. QED  BY <1>1, <1>4, <3>1, <3>2, BornLive
  <2>. QED  BY <1>3, <1>4, <1>5, <1>6, <2>1 DEF SameRefs, RefStep, OldRef
<1>7. ASSUME NEW o \in Obj, CreatedWith(o, N) PROVE RefStep(o)
  <2>1. marked'[o] # "black"
    BY <1>3, <1>4, <1>7 DEF CreatedWith
  <2>2. Contents(o)' \subseteq Obj
    BY DEF Contents
  <2>. QED  BY <1>7, <2>1, <2>2 DEF CreatedWith, RefStep, NewRef
<1>8. ASSUME NEW h \in Threads, ThreadGets(h, N) PROVE RefStep(h)
  <2>1. h \in Obj /\ tt[h] = "thread" /\ marked'[h] # "black"
    BY <1>2 DEF BlackOK, isblack, Threads, OfType
  <2>2. Contents(h)' \subseteq Contents(h) \cup (N \cap Obj) /\ Keys(h)' = {}
    BY <1>8, <2>1 DEF ThreadGets, Contents, NonTableRefs, Keys
  <2>3. h \in Live' /\ h \notin Live => Contents(h) = {}
    BY <1>1, <1>4, <2>1, BornLive
  <2>. QED  BY <1>8, <2>1, <2>2, <2>3 DEF ThreadGets, RefStep, NewRef, OldRef
<1>9. ASSUME NEW u \in UpVals PROVE RefStep(u)
  <2>1. /\ u \in Obj /\ tt[u] = "upval" /\ Keys(u)' = {}
        /\ Contents(u)' = Obj \cap {UpValue(u)'} /\ Contents(u) = Obj \cap {UpValue(u)}
    BY DEF UpVals, OfType, Keys, Contents, NonTableRefs
  <2>2. \A h \in Threads, i \in StackSlots : th'[h].stack[i] \in {th[h].stack[i]} \cup N
    BY DEF ThreadGets
  <2>3. \A i \in StackSlots : th[running].stack[i] \in Obj => th[running].stack[i] \in Live'
    BY <1>1, <1>2, RegistersLive DEF Reg
  <2>4. running \in Threads
    BY <1>1, StateTypes
  <2>5. CASE Opened(u) /\ uv'[u].level \in StackSlots
    <3>1. uv'[u].owner # Nil
      BY <2>4, <2>5, HeapAssumption DEF Opened, Threads, OfType
    <3>2. UpValue(u)' = th'[running].stack[uv'[u].level]
      BY <2>5, <3>1 DEF Opened, UpValue, IsOpen
    <3>3. \A x \in Contents(u)' : x \in Live'
      BY <2>1, <2>2, <2>3, <2>4, <2>5, <3>2
    <3>. QED  BY <1>1, <2>1, <2>5, <3>3 DEF Opened, RefStep, NewRef
  <2>6. CASE uv'[u] = uv[u] /\ ~IsOpen(u)
    <3>1. Contents(u)' = Contents(u) /\ list[u] # "openupval" /\ uv[u].owner = Nil
      BY <1>1, <2>1, <2>6 DEF UpValue, IsOpen, ListOK
    <3>2. list'[u] = list[u]
      <4>1. uv'[u].owner # running
        BY <2>4, <2>6, <3>1, HeapAssumption DEF Threads, OfType
      <4>. QED  BY <1>1, <3>1, <4>1, ProgramOwners DEF SameSlot, Opened, Unowned
    <3>3. u \in Live' /\ u \notin Live => Contents(u) = {}
      BY <1>1, <1>4, <2>1, <3>1, <3>2, BornLive
    <3>. QED  BY <1>3, <1>4, <2>1, <3>1, <3>2, <3>3 DEF RefStep, OldRef
  <2>7. CASE uv'[u] = uv[u] /\ IsOpen(u)
    <3>1. /\ uv[u].owner \in Threads /\ uv[u].level \in StackSlots
          /\ UpValue(u) = th[uv[u].owner].stack[uv[u].level]
          /\ UpValue(u)' = th'[uv[u].owner].stack[uv[u].level]
      <4>1. uv[u].owner \in Threads \cup {Nil} /\ (uv[u].owner # Nil => uv[u].level \in StackSlots)
        BY <1>1 DEF TypeInv, TypeOK, HeapTypeOK, ContentsTypeOK, UpValRec
      <4>. QED  BY <2>7, <4>1 DEF UpValue, IsOpen
    <3>2. list[u] = "openupval" /\ list'[u] = "openupval" /\ marked'[u] # "black"
      <4>1. list[u] = "openupval" /\ uv'[u].owner # Nil
        BY <1>1, <2>7 DEF ListOK, IsOpen
      <4>2. marked'[u] # "black"
        BY <1>2, <2>1, <4>1 DEF BlackOK, isblack, IsOpen
      <4>. QED  BY <1>1, <4>1, <4>2, ProgramOwners DEF SameSlot, Opened, Unowned
    <3>3. ASSUME NEW x \in Contents(u)', u \in Live' PROVE NewRef(u, x) \/ OldRef(u, x)
      <4>1. x \in Obj /\ (x \in N \/ x \in Contents(u))
        BY <2>1, <2>2, <3>1
      <4>2. CASE x \in N
        BY <3>2, <4>1, <4>2 DEF NewRef
      <4>3. CASE x \in Contents(u) /\ u \in Live
        BY <3>2, <4>3 DEF OldRef
      <4>4. CASE x \in Contents(u) /\ u \notin Live
        <5>1. marked'[u] # marked[u]
          BY <1>1, <2>1, <3>2, <3>3, <4>4, BornLive
        <5>2. uv[u].owner = running
          BY <2>7, <5>1
        <5>. QED  BY <2>1, <2>3, <3>1, <3>2, <4>4, <5>2 DEF NewRef
      <4>. QED  BY <4>1, <4>2, <4>3, <4>4
    <3>. QED  BY <2>1, <3>2, <3>3 DEF RefStep
  <2>. QED  BY <2>5, <2>6, <2>7
<1>10. ASSUME NEW h \in Threads, th'[h] = th[h] PROVE RefStep(h)
  <2>1. h \in Obj \ UpVals /\ tt[h] = "thread"
    BY DEF Threads, UpVals, OfType
  <2>2. SameRefs(h)
    BY <1>10, <2>1, SameContents DEF SameRefs
  <2>. QED  BY <1>6, <2>1, <2>2
<1>. QED
  <2>1. ASSUME NEW o \in Obj PROVE RefStep(o)
    BY <1>6, <1>7, <1>8, <1>9, <1>10
  <2>. QED  BY <2>1

(* A register of the running thread is set.                                *)
LEMMA SetRegGets ==
  ASSUME SafeInv, Program, NEW i \in StackSlots, NEW v, SetReg(i, v), NEW N, v \in N
  PROVE  \A h \in Threads : th'[h] = th[h] \/ ThreadGets(h, N)
<1>1. th \in [Threads -> ThreadRec] /\ running \in Threads /\ list'[running] # "free"
  BY StateTypes, RegistersLive, ProgramKeepsLive DEF SafeInv, Live, Allocated
<1>2. \A h \in Threads \ {running} : th'[h] = th[h]
  BY <1>1 DEF SetReg
<1>3. th'[running] = [th[running] EXCEPT !.stack[i] = v]
  BY <1>1 DEF SetReg
<1>4. th[running] \in ThreadRec
  BY <1>1
<1>5. /\ th'[running].gt = th[running].gt /\ th'[running].resuming = th[running].resuming
      /\ th'[running].gctm = th[running].gctm
      /\ \A j \in StackSlots : th'[running].stack[j] \in {th[running].stack[j], v}
  BY <1>3, <1>4 DEF ThreadRec
<1>6. ASSUME NEW h \in Threads, h = running PROVE ThreadGets(h, N)
  BY <1>1, <1>5, <1>6 DEF ThreadGets, ThreadRefs
<1>. QED  BY <1>2, <1>6

(* What is allocated with the current white is live.                       *)
LEMMA CurrentLive ==
  ASSUME SafeInv, Program, NEW o \in Obj, list'[o] # "free", marked'[o] = currentwhite
  PROVE  o \in Live'
BY ProgramKeeps, StateTypes DEF SafeInv, Live, Allocated, isdead

(* What a closure the program holds refers to is live, and so are the      *)
(* prototypes nested in its own.                                           *)
LEMMA ClosureLive ==
  ASSUME SafeInv, NEW f \in Held \cap LClosures
  PROVE  /\ {cl[f].env, cl[f].p, cl[f].upvalue} \cap Obj \subseteq Live
         /\ NestedProtos(f) \cap Obj \subseteq Live
<1>1. f \in Live /\ tt[f] = "function"
  BY HeldLive DEF SafeInv, LClosures, OfType
<1>2. {cl[f].env, cl[f].p, cl[f].upvalue} \cap Obj \subseteq Live
  BY <1>1 DEF SafeInv, ReferencesLive, Contents, NonTableRefs, ClosureRefs
<1>3. CASE cl[f].p = Nil
  BY <1>2, <1>3, HeapAssumption DEF NestedProtos
<1>4. CASE cl[f].p # Nil
  <2>1. cl[f].p \in Protos
    <3>1. f \in Closures
      BY <1>1 DEF Closures, Live, Allocated, OfType
    <3>. QED
      BY <1>4, <3>1 DEF SafeInv, TypeInv, TypeOK, HeapTypeOK, ContentsTypeOK, ClosureRec
  <2>2. cl[f].p \in Live /\ tt[cl[f].p] = "proto"
    BY <1>2, <2>1 DEF Protos, OfType
  <2>3. Protos \cap ProtoRefs(cl[f].p) \subseteq Live
    BY <2>2 DEF SafeInv, ReferencesLive, Contents, NonTableRefs, Protos, OfType
  <2>. QED  BY <1>2, <1>4, <2>3 DEF NestedProtos
<1>. QED  BY <1>2, <1>3, <1>4

(* An object is linked with references from N, and left in a register.     *)
LEMMA LinkRefs ==
  ASSUME SafeInv, Program, NEW c \in Obj \ UpVals, NEW l, l # "free", Link(c, l),
         NEW i \in StackSlots, SetReg(i, c), NEW N, N \cap Obj \subseteq Live, UNCHANGED uv,
         \A o \in Obj \ (UpVals \cup Threads) : SameRefs(o) \/ CreatedWith(o, N)
  PROVE  \A o \in Obj : RefStep(o)
<1>. DEFINE M == N \cup {c}
<1>1. list'[c] # "free" /\ marked'[c] = currentwhite
      /\ \A o \in Obj : marked'[o] \in {marked[o], currentwhite}
      /\ \A u \in UpVals : marked'[u] = marked[u]
  <2>1. marked \in [Obj -> Whites \cup {"gray", "black"}] /\ list \in [Obj -> Lists]
    BY StateTypes DEF SafeInv
  <2>. QED  BY <2>1 DEF Link, UpVals, OfType
<1>2. M \cap Obj \subseteq Live'
  BY <1>1, CurrentLive, ProgramKeepsLive DEF SafeInv
<1>3. \A h \in Threads : th'[h] = th[h] \/ ThreadGets(h, M)
  BY SetRegGets
<1>4. \A o \in Obj \ (UpVals \cup Threads) : SameRefs(o) \/ CreatedWith(o, M)
  BY DEF CreatedWith
<1>. HIDE DEF M
<1>. QED  BY <1>1, <1>2, <1>3, <1>4, RegisterRefs

(* Loads and moves.                                                        *)
LEMMA LoadRefs ==
  ASSUME SafeInv, Program, NEW i \in StackSlots, NEW v \in Readable \cup {Nil}, Load(i, v)
  PROVE  \A o \in Obj : RefStep(o)
<1>1. {v} \cap Obj \subseteq Live'
  BY HeldLive, ProgramKeepsLive, HeapAssumption DEF SafeInv
<1>2. \A h \in Threads : th'[h] = th[h] \/ ThreadGets(h, {v})
  BY SetRegGets DEF Load
<1>3. ASSUME NEW o \in Obj \ (UpVals \cup Threads) PROVE SameRefs(o)
  <2>1. tt[o] \notin {"upval", "thread"}
    BY DEF UpVals, Threads, OfType
  <2>. QED  BY <2>1, SameContents DEF Load, SameRefs
<1>. QED  BY <1>1, <1>2, <1>3, RegisterRefs DEF Load, colours

(* luaE_newthread.                                                         *)
LEMMA NewThreadRefs ==
  ASSUME SafeInv, Program, NEW g \in Threads, NEW i \in StackSlots, NewThread(g, i)
  PROVE  \A o \in Obj : RefStep(o)
<1>. DEFINE N == {g, Nil, th[running].gt}
<1>1. /\ th \in [Threads -> ThreadRec] /\ running \in Threads
      /\ marked \in [Obj -> Whites \cup {"gray", "black"}] /\ list \in [Obj -> Lists]
  BY StateTypes DEF SafeInv
<1>2. g \in Obj /\ tt[g] = "thread" /\ g # running /\ list[g] = "free"
  BY <1>1, RegistersLive DEF SafeInv, Live, Allocated, NewThread, Link, Threads, OfType
<1>3. list'[g] # "free" /\ marked'[g] = currentwhite
      /\ (\A o \in Obj : marked'[o] \in {marked[o], currentwhite})
      /\ \A u \in UpVals : marked'[u] = marked[u]
  BY <1>1, <1>2 DEF NewThread, Link, UpVals, OfType
<1>4. N \cap Obj \subseteq Live'
  BY <1>2, <1>3, CurrentLive, RegistersLive, ProgramKeepsLive, HeapAssumption DEF SafeInv
<1>5. \A h \in Threads \ {g, running} : th'[h] = th[h]
  BY <1>1 DEF NewThread
<1>6. th'[g] = NewThreadRec(th[running].gt)
  BY <1>1, <1>2 DEF NewThread
<1>7. th'[running] = [th[running] EXCEPT !.stack[i] = g]
  BY <1>1, <1>2 DEF NewThread
<1>8. ThreadGets(g, N)
  BY <1>3, <1>6 DEF NewThreadRec, ThreadGets, ThreadRefs
<1>9. ASSUME NEW h \in Threads, h = running PROVE ThreadGets(h, N)
  <2>1. list'[running] # "free"
    BY RegistersLive, ProgramKeepsLive DEF SafeInv, Live, Allocated
  <2>2. th[running] \in ThreadRec
    BY <1>1
  <2>3. /\ th'[running].gt = th[running].gt /\ th'[running].resuming = th[running].resuming
        /\ th'[running].gctm = th[running].gctm
        /\ \A j \in StackSlots : th'[running].stack[j] \in {th[running].stack[j], g}
    BY <1>7, <2>2 DEF ThreadRec
  <2>. QED  BY <1>9, <2>1, <2>3 DEF ThreadGets, ThreadRefs
<1>10. ASSUME NEW o \in Obj \ (UpVals \cup Threads) PROVE SameRefs(o)
  <2>1. tt[o] \notin {"upval", "thread"}
    BY DEF UpVals, Threads, OfType
  <2>. QED  BY <2>1, SameContents DEF NewThread, SameRefs
<1>. HIDE DEF N
<1>. QED
  BY <1>3, <1>4, <1>5, <1>8, <1>9, <1>10, RegisterRefs DEF NewThread

(* luaS_newlstr.                                                           *)
LEMMA NewStringRefs ==
  ASSUME SafeInv, Program, NEW s \in Strings, NEW i \in StackSlots, NewString(s, i)
  PROVE  \A o \in Obj : RefStep(o)
<1>1. s \in Obj \ UpVals /\ tt[s] = "string"
  BY DEF Strings, UpVals, OfType
<1>2. \A o \in Obj \ (UpVals \cup Threads) : SameRefs(o)
  <2>1. ASSUME NEW o \in Obj \ (UpVals \cup Threads) PROVE SameRefs(o)
    <3>1. tt[o] \notin {"upval", "thread"}
      BY DEF UpVals, Threads, OfType
    <3>. QED  BY <3>1, SameContents DEF NewString, SameRefs
  <2>. QED  BY <2>1
<1>3. CASE Link(s, "strt")
  BY <1>1, <1>2, <1>3, LinkRefs DEF NewString
<1>4. CASE /\ list[s] = "strt"
           /\ marked' = [marked EXCEPT ![s] = Revived(@)]
           /\ UNCHANGED <<list, gray, grayagain>>
  <2>1. marked \in [Obj -> Whites \cup {"gray", "black"}] /\ currentwhite # OtherWhite(currentwhite)
    BY StateTypes DEF SafeInv
  <2>2. \A o \in Obj \ {s} : marked'[o] = marked[o]
    BY <1>4, <2>1
  <2>3. marked'[s] \in {marked[s], currentwhite} /\ marked'[s] # OtherWhite(currentwhite)
    BY <1>1, <1>4, <2>1 DEF Revived
  <2>4. {s} \cap Obj \subseteq Live'
    BY <1>1, <1>4, <2>3, ProgramKeeps DEF Live, Allocated, isdead
  <2>5. \A h \in Threads : th'[h] = th[h] \/ ThreadGets(h, {s})
    BY SetRegGets DEF NewString
  <2>6. UNCHANGED uv /\ \A u \in UpVals : u \in Obj
    BY DEF NewString, UpVals, OfType
  <2>. QED  BY <1>1, <1>2, <2>2, <2>3, <2>4, <2>5, <2>6, RegisterRefs
<1>. QED  BY <1>3, <1>4 DEF NewString

(* A closure, of which only luaF_findupval may make an upvalue as well.    *)
LEMMA NewClosureContents ==
  ASSUME SafeInv, NEW c \in Closures, NEW r, cl' = [cl EXCEPT ![c] = r],
         list[c] = "free", list'[c] # "free", UNCHANGED <<tab, ud, pr>>,
         NEW N, {r.env, r.p, r.upvalue} \subseteq N
  PROVE  \A o \in Obj \ (UpVals \cup Threads) : SameRefs(o) \/ CreatedWith(o, N)
<1>1. DOMAIN cl = Closures /\ tt[c] \in {"function", "cfunction"}
  BY DEF SafeInv, TypeInv, TypeOK, HeapTypeOK, ContentsTypeOK, Closures, OfType
<1>2. Contents(c)' \subseteq N /\ Keys(c)' = {}
  BY <1>1 DEF Contents, NonTableRefs, ClosureRefs, Keys
<1>3. ASSUME NEW o \in Obj \ (UpVals \cup Threads), o # c PROVE SameRefs(o)
  <2>1. tt[o] \notin {"upval", "thread"} /\ (tt[o] \in {"function", "cfunction"} => o \in Closures)
    BY DEF UpVals, Threads, Closures, OfType
  <2>2. cl' = [cl EXCEPT ![c] = r]
    OBVIOUS
  <2>3. tt[o] \in {"function", "cfunction"} => cl'[o] = cl[o]
    BY <1>1, <1>3, <2>1, <2>2
  <2>. QED  BY <2>1, <2>3, SameContents DEF SameRefs
<1>. QED  BY <1>2, <1>3 DEF CreatedWith

(* luaF_findupval: whether the upvalue is found or opened, the program     *)
(* refers to it and to nothing else that is new.                           *)
LEMMA CaptureRefs ==
  ASSUME SafeInv, Program, NEW f \in Held \cap LClosures, NEW c \in LClosures,
         NEW p \in NestedProtos(f), NEW u \in UpVals, NEW j \in StackSlots,
         NEW i \in StackSlots, Capture(c, f, p, u, j, i)
  PROVE  \A o \in Obj : RefStep(o)
<1>. DEFINE N == {c, u, cl[f].env, p}
<1>1. /\ marked \in [Obj -> Whites \cup {"gray", "black"}] /\ list \in [Obj -> Lists]
      /\ uv \in [UpVals -> UpValRec] /\ currentwhite # OtherWhite(currentwhite)
      /\ currentwhite' = currentwhite
  BY StateTypes, ProgramKeeps DEF SafeInv
<1>2. /\ c \in Obj /\ u \in Obj /\ tt[c] = "function" /\ tt[u] = "upval" /\ c # u
      /\ c \in Closures /\ c \notin UpVals
  BY DEF LClosures, UpVals, Closures, OfType
<1>3. list[c] = "free" /\ list'[c] # "free" /\ marked'[c] = currentwhite
  BY <1>1, <1>2 DEF Capture
<1>4. \A o \in Obj \ {c, u} : marked'[o] = marked[o]
  BY <1>1, <1>2 DEF Capture
<1>5. /\ list'[u] = "openupval" /\ uv'[u].owner = running
      /\ marked'[u] \in {marked[u], currentwhite} /\ marked'[u] # OtherWhite(currentwhite)
      /\ uv'[u] = uv[u] \/ (Opened(u) /\ uv'[u].level \in StackSlots)
  <2>1. CASE OpenAt(j) # {}
    <3>1. /\ u \in OpenAt(j) /\ uv' = uv /\ list' = [list EXCEPT ![c] = "rootgc"]
          /\ marked' = [marked EXCEPT ![c] = currentwhite, ![u] = Revived(@)]
      BY <2>1 DEF Capture
    <3>. QED  BY <1>1, <1>2, <3>1 DEF OpenAt, OpenUpvals, Revived
  <2>2. CASE OpenAt(j) = {}
    <3>1. /\ list[u] = "free"
          /\ list' = [list EXCEPT ![c] = "rootgc", ![u] = "openupval"]
          /\ marked' = [marked EXCEPT ![c] = currentwhite, ![u] = currentwhite]
          /\ uv' = [uv EXCEPT ![u] = [owner |-> running, level |-> j, value |-> Nil]]
      BY <2>2 DEF Capture
    <3>. QED  BY <1>1, <1>2, <3>1 DEF Opened
  <2>. QED  BY <2>1, <2>2
<1>6. \A w \in UpVals \ {u} : uv'[w] = uv[w] /\ marked'[w] = marked[w]
  <2>1. uv' = uv \/ uv' = [uv EXCEPT ![u] = [owner |-> running, level |-> j, value |-> Nil]]
    BY DEF Capture
  <2>2. \A w \in UpVals : w \in Obj
    BY DEF UpVals, OfType
  <2>. QED  BY <1>1, <1>2, <1>4, <2>1, <2>2
<1>7. N \cap Obj \subseteq Live'
  <2>1. c \in Live' /\ u \in Live'
    BY <1>1, <1>2, <1>3, <1>5, CurrentLive DEF Live, Allocated, isdead
  <2>. QED  BY <2>1, ClosureLive, ProgramKeepsLive DEF SafeInv
<1>8. \A o \in Obj \ (UpVals \cup Threads) : SameRefs(o) \/ CreatedWith(o, N)
  <2>. DEFINE r == [env |-> cl[f].env, p |-> p, upvalue |-> u]
  <2>1. cl' = [cl EXCEPT ![c] = r] /\ UNCHANGED <<tab, ud, pr>>
    BY DEF Capture
  <2>2. {r.env, r.p, r.upvalue} \subseteq N
    OBVIOUS
  <2>. HIDE DEF r, N
  <2>. QED  BY <1>2, <1>3, <2>1, <2>2, NewClosureContents
<1>9. \A h \in Threads : th'[h] = th[h] \/ ThreadGets(h, N)
  BY SetRegGets DEF Capture
<1>10. \A o \in Obj : marked'[o] \in {marked[o], currentwhite}
  BY <1>3, <1>4, <1>5
<1>. HIDE DEF N
<1>. QED  BY <1>5, <1>6, <1>7, <1>8, <1>9, <1>10, RegisterRefs

(* Every allocation.                                                       *)
LEMMA AllocationsRefs ==
  ASSUME SafeInv, Program, Allocations
  PROVE  \A o \in Obj : RefStep(o)
<1>1. PICK i \in StackSlots :
        \/ \E t \in Tables : NewTable(t, i)
        \/ \E u \in Udata, e \in Held \cap Envs : NewUdata(u, e, i)
        \/ \E h \in Threads : NewThread(h, i)
        \/ \E s \in Strings : NewString(s, i)
        \/ \E c \in CClosures, e \in Held \cap Envs, v \in Held \cup {Nil} :
             NewCClosure(c, e, v, i)
        \/ \E f \in Held \cap LClosures : \E c \in LClosures, p \in NestedProtos(f) :
             \/ ShareUpVal(c, f, p, i)
             \/ \E u \in UpVals, j \in StackSlots : Capture(c, f, p, u, j, i)
  BY DEF Allocations
<1>2. /\ list \in [Obj -> Lists] /\ DOMAIN ud = Udata
      /\ CClosures \cup LClosures \subseteq Closures
      /\ \A o \in Obj : tt[o] \notin {"upval", "thread"} <=> o \notin UpVals \cup Threads
  BY DEF SafeInv, TypeInv, TypeOK, HeapTypeOK, ContentsTypeOK, CClosures, LClosures, Closures, UpVals,
     Threads, OfType
<1>3. ASSUME NEW t \in Tables, NewTable(t, i) PROVE \A o \in Obj : RefStep(o)
  <2>1. t \in Obj \ UpVals /\ Link(t, "rootgc") /\ SetReg(i, t)
    BY <1>3 DEF NewTable, Tables, UpVals, OfType
  <2>2. \A o \in Obj \ (UpVals \cup Threads) : SameRefs(o)
    BY <1>2, <1>3, SameContents DEF NewTable, SameRefs
  <2>. QED  BY <1>3, <2>1, <2>2, LinkRefs DEF NewTable
<1>4. ASSUME NEW u \in Udata, NEW e \in Held \cap Envs, NewUdata(u, e, i)
      PROVE  \A o \in Obj : RefStep(o)
  <2>1. u \in Obj \ UpVals /\ tt[u] = "userdata" /\ Link(u, "rootgc") /\ SetReg(i, u)
    BY <1>4 DEF NewUdata, Udata, UpVals, OfType
  <2>2. list[u] = "free" /\ list'[u] # "free"
    BY <1>2, <2>1 DEF Link
  <2>3. Contents(u)' \subseteq {Nil, e} /\ Keys(u)' = {}
    BY <1>2, <1>4, <2>1 DEF NewUdata, Contents, NonTableRefs, Keys
  <2>4. ASSUME NEW o \in Obj \ (UpVals \cup Threads), o # u PROVE SameRefs(o)
    <3>1. tt[o] = "userdata" => ud'[o] = ud[o]
      BY <1>2, <1>4, <2>4 DEF NewUdata, Udata, OfType
    <3>. QED  BY <1>2, <1>4, <2>4, <3>1, SameContents DEF NewUdata, SameRefs
  <2>5. {Nil, e} \cap Obj \subseteq Live
    BY HeldLive, HeapAssumption DEF SafeInv
  <2>. QED  BY <1>4, <2>1, <2>2, <2>3, <2>4, <2>5, LinkRefs DEF NewUdata, CreatedWith
<1>5. ASSUME NEW c \in CClosures, NEW e \in Held \cap Envs, NEW v \in Held \cup {Nil},
             NewCClosure(c, e, v, i)
      PROVE  \A o \in Obj : RefStep(o)
  <2>. DEFINE N == {Nil, e, v}
  <2>1. c \in Closures /\ c \in Obj \ UpVals /\ Link(c, "rootgc") /\ SetReg(i, c)
    BY <1>2, <1>5 DEF NewCClosure, CClosures, UpVals, OfType
  <2>2. list[c] = "free" /\ list'[c] # "free"
    BY <1>2, <2>1 DEF Link
  <2>3. \A o \in Obj \ (UpVals \cup Threads) : SameRefs(o) \/ CreatedWith(o, N)
    <3>. DEFINE r == [env |-> e, p |-> Nil, upvalue |-> v]
    <3>1. cl' = [cl EXCEPT ![c] = r] /\ UNCHANGED <<tab, ud, pr>>
      BY <1>5 DEF NewCClosure
    <3>2. {r.env, r.p, r.upvalue} \subseteq N
      OBVIOUS
    <3>. HIDE DEF r, N
    <3>. QED  BY <2>1, <2>2, <3>1, <3>2, NewClosureContents
  <2>4. N \cap Obj \subseteq Live
    BY HeldLive, HeapAssumption DEF SafeInv
  <2>. HIDE DEF N
  <2>. QED  BY <1>5, <2>1, <2>3, <2>4, LinkRefs DEF NewCClosure
<1>6. ASSUME NEW f \in Held \cap LClosures, NEW c \in LClosures, NEW p \in NestedProtos(f),
             ShareUpVal(c, f, p, i)
      PROVE  \A o \in Obj : RefStep(o)
  <2>. DEFINE N == {cl[f].env, p, cl[f].upvalue}
  <2>1. c \in Closures /\ c \in Obj \ UpVals /\ Link(c, "rootgc") /\ SetReg(i, c)
    BY <1>2, <1>6 DEF ShareUpVal, LClosures, UpVals, OfType
  <2>2. list[c] = "free" /\ list'[c] # "free"
    BY <1>2, <2>1 DEF Link
  <2>3. \A o \in Obj \ (UpVals \cup Threads) : SameRefs(o) \/ CreatedWith(o, N)
    <3>. DEFINE r == [env |-> cl[f].env, p |-> p, upvalue |-> cl[f].upvalue]
    <3>1. cl' = [cl EXCEPT ![c] = r] /\ UNCHANGED <<tab, ud, pr>>
      BY <1>6 DEF ShareUpVal
    <3>2. {r.env, r.p, r.upvalue} \subseteq N
      OBVIOUS
    <3>. HIDE DEF r, N
    <3>. QED  BY <2>1, <2>2, <3>1, <3>2, NewClosureContents
  <2>4. N \cap Obj \subseteq Live
    BY ClosureLive
  <2>. HIDE DEF N
  <2>. QED  BY <1>6, <2>1, <2>3, <2>4, LinkRefs DEF ShareUpVal
<1>. QED  BY <1>1, <1>3, <1>4, <1>5, <1>6, NewThreadRefs, NewStringRefs, CaptureRefs

(* A prototype, and the closure of a chunk.                                *)
LEMMA LoadingRefs ==
  ASSUME SafeInv, Program, NEW i \in StackSlots,
         \/ \E p \in Protos : NewProto(p, i)
         \/ \E c \in LClosures : LoadChunk(c, i)
  PROVE  \A o \in Obj : RefStep(o)
<1>1. list \in [Obj -> Lists]
      /\ \A o \in Obj : tt[o] \notin {"upval", "thread"} <=> o \notin UpVals \cup Threads
  BY DEF SafeInv, TypeInv, TypeOK, HeapTypeOK, UpVals, Threads, OfType
<1>2. ASSUME NEW p \in Protos, NewProto(p, i) PROVE \A o \in Obj : RefStep(o)
  <2>1. p \in Obj \ UpVals /\ Link(p, "rootgc") /\ SetReg(i, p)
    BY <1>2 DEF NewProto, Protos, UpVals, OfType
  <2>2. \A o \in Obj \ (UpVals \cup Threads) : SameRefs(o)
    BY <1>1, <1>2, SameContents DEF NewProto, SameRefs
  <2>. QED  BY <1>2, <2>1, <2>2, LinkRefs DEF NewProto
<1>3. ASSUME NEW c \in LClosures, LoadChunk(c, i) PROVE \A o \in Obj : RefStep(o)
  <2>. DEFINE N == {th[running].gt, Reg(i), Nil}
  <2>1. c \in Closures /\ c \in Obj \ UpVals /\ Link(c, "rootgc") /\ SetReg(i, c)
    BY <1>3 DEF LoadChunk, LClosures, Closures, UpVals, OfType
  <2>2. list[c] = "free" /\ list'[c] # "free"
    BY <1>1, <2>1 DEF Link
  <2>3. \A o \in Obj \ (UpVals \cup Threads) : SameRefs(o) \/ CreatedWith(o, N)
    <3>. DEFINE r == [env |-> th[running].gt, p |-> Reg(i), upvalue |-> Nil]
    <3>1. cl' = [cl EXCEPT ![c] = r] /\ UNCHANGED <<tab, ud, pr>>
      BY <1>3 DEF LoadChunk
    <3>2. {r.env, r.p, r.upvalue} \subseteq N
      OBVIOUS
    <3>. HIDE DEF r, N
    <3>. QED  BY <2>1, <2>2, <3>1, <3>2, NewClosureContents
  <2>4. N \cap Obj \subseteq Live
    BY RegistersLive, HeapAssumption DEF SafeInv
  <2>. HIDE DEF N
  <2>. QED  BY <1>3, <2>1, <2>3, <2>4, LinkRefs DEF LoadChunk
<1>. QED  BY <1>2, <1>3

(* A switch gives a register and the link to the resumed thread to threads *)
(* that are live.                                                          *)
LEMMA SwitchesRefs ==
  ASSUME SafeInv, Program, Switches
  PROVE  (\A o \in Obj : RefStep(o)) /\ running' \in Live'
<1>1. /\ th \in [Threads -> ThreadRec] /\ running \in Threads
      /\ Live \subseteq Live' /\ Held \subseteq Live /\ running \in Live
      /\ \A o \in Live : list'[o] # "free"
  BY StateTypes, HeldLive, RegistersLive, ProgramKeepsLive DEF SafeInv, Live, Allocated
<1>2. PICK i \in StackSlots, j \in StackSlots :
        \/ \E h \in Held \cap Threads : Resume(h, i, j) \/ ResumeDead(h, i, j)
        \/ \E h \in Threads : Yield(h, i, j)
  BY DEF Switches
<1>3. Reg(i) \in Obj => Reg(i) \in Live'
  <2>1. Reg(i) \in Obj => Reg(i) \in Live
    BY RegistersLive DEF SafeInv
  <2>. QED  BY <1>1, <2>1
<1>4. UNCHANGED <<tab, ud, cl, pr, uv, list, marked>>
  BY <1>2 DEF Resume, ResumeDead, Yield, colours
<1>5. \A o \in Obj \ (UpVals \cup Threads) : SameRefs(o)
  <2>1. ASSUME NEW o \in Obj \ (UpVals \cup Threads) PROVE SameRefs(o)
    <3>1. tt[o] \notin {"upval", "thread"}
      BY DEF UpVals, Threads, OfType
    <3>. QED  BY <1>4, <3>1, SameContents DEF SameRefs
  <2>. QED  BY <2>1
<1>6. ASSUME NEW g \in Threads, list'[g] # "free", NEW N,
             th'[g].gt = th[g].gt, th'[g].gctm = th[g].gctm,
             th'[g].resuming \in {th[g].resuming} \cup N,
             \A n \in StackSlots : th'[g].stack[n] \in {th[g].stack[n]} \cup N
      PROVE  ThreadGets(g, N)
  BY <1>6 DEF ThreadGets, ThreadRefs
<1>7. ASSUME NEW h \in Held \cap Threads, Resume(h, i, j)
      PROVE  (\A o \in Obj : RefStep(o)) /\ running' \in Live'
  <2>. DEFINE N == {h, Reg(i)}
  <2>1. N \cap Obj \subseteq Live'
    BY <1>1, <1>3
  <2>2. PICK v \in {Reg(i), th[h].stack[j]} :
          th' = [th EXCEPT ![running].resuming = h, ![h].resumer = running, ![h].stack[j] = v]
    BY <1>7 DEF Resume
  <2>3. h # running /\ th[h] \in ThreadRec /\ th[running] \in ThreadRec
    BY <1>1, <1>7 DEF Resume, Resumable
  <2>4. \A g \in Threads \ {h, running} : th'[g] = th[g]
    BY <1>1, <2>2, <2>3
  <2>5. ThreadGets(h, N)
    <3>1. /\ th'[h].gt = th[h].gt /\ th'[h].gctm = th[h].gctm /\ th'[h].resuming = th[h].resuming
          /\ \A n \in StackSlots : th'[h].stack[n] \in {th[h].stack[n], Reg(i)}
      BY <1>1, <2>2, <2>3 DEF ThreadRec
    <3>. QED  BY <1>1, <1>6, <3>1
  <2>6. ThreadGets(running, N)
    <3>1. /\ th'[running].gt = th[running].gt /\ th'[running].gctm = th[running].gctm
          /\ th'[running].resuming = h /\ th'[running].stack = th[running].stack
      BY <1>1, <2>2, <2>3 DEF ThreadRec
    <3>. QED  BY <1>1, <1>6, <3>1
  <2>7. running' = h /\ h \in Live'
    BY <1>1, <1>7 DEF Resume
  <2>. HIDE DEF N
  <2>. QED  BY <1>4, <1>5, <2>1, <2>4, <2>5, <2>6, <2>7, RegisterRefs
<1>8. ASSUME NEW h \in Threads, Yield(h, i, j)
      PROVE  (\A o \in Obj : RefStep(o)) /\ running' \in Live'
  <2>. DEFINE N == {Nil, Reg(i)}
  <2>1. N \cap Obj \subseteq Live'
    <3>1. Nil \notin Obj
      BY HeapAssumption
    <3>. QED  BY <1>3, <3>1
  <2>2. PICK v \in {Reg(i), th[h].stack[j]} :
          th' = [th EXCEPT ![running].resumer = Nil, ![h].resuming = Nil, ![h].stack[j] = v]
    BY <1>8 DEF Yield
  <2>3. h \in Live /\ h # running /\ th[h] \in ThreadRec /\ th[running] \in ThreadRec
    <3>1. th[running].resumer = h /\ h # Nil
      BY <1>8, HeapAssumption DEF Yield, Threads, OfType
    <3>2. h \in Live
      BY <1>1, <3>1, ResumedLive DEF SafeInv
    <3>3. th[h].resuming = running /\ th[running].resuming = Nil
      BY <1>1, <3>1 DEF SafeInv, ChainOK, Paired, Resumers
    <3>4. running # Nil
      BY <1>1, HeapAssumption DEF Threads, OfType
    <3>. QED  BY <1>1, <3>2, <3>3, <3>4
  <2>4. \A g \in Threads \ {h, running} : th'[g] = th[g]
    BY <1>1, <2>2, <2>3
  <2>5. ThreadGets(h, N)
    <3>1. /\ th'[h].gt = th[h].gt /\ th'[h].gctm = th[h].gctm /\ th'[h].resuming = Nil
          /\ \A n \in StackSlots : th'[h].stack[n] \in {th[h].stack[n], Reg(i)}
      BY <1>1, <2>2, <2>3 DEF ThreadRec
    <3>. QED  BY <1>1, <1>6, <2>3, <3>1
  <2>6. ThreadGets(running, N)
    <3>1. /\ th'[running].gt = th[running].gt /\ th'[running].gctm = th[running].gctm
          /\ th'[running].resuming = th[running].resuming
          /\ th'[running].stack = th[running].stack
      BY <1>1, <2>2, <2>3 DEF ThreadRec
    <3>. QED  BY <1>1, <1>6, <3>1
  <2>7. running' \in Live'
    BY <1>1, <1>8, <2>3 DEF Yield
  <2>. HIDE DEF N
  <2>. QED  BY <1>4, <1>5, <2>1, <2>4, <2>5, <2>6, <2>7, RegisterRefs
<1>9. ASSUME NEW h \in Held \cap Threads, ResumeDead(h, i, j)
      PROVE  (\A o \in Obj : RefStep(o)) /\ running' \in Live'
  <2>1. h # running /\ th[h] \in ThreadRec /\ th[running] \in ThreadRec
    BY <1>1, <1>9 DEF ResumeDead, Resumable
  <2>2. th' = [th EXCEPT ![h].stack = [n \in StackSlots |-> IF n >= i THEN Nil ELSE @[n]],
                         ![running].stack[j] = Nil]
    BY <1>9 DEF ResumeDead
  <2>3. /\ \A g \in Threads \ {h, running} : th'[g] = th[g]
        /\ th'[h] = [th[h] EXCEPT !.stack = [n \in StackSlots |-> IF n >= i THEN Nil ELSE @[n]]]
        /\ th'[running] = [th[running] EXCEPT !.stack[j] = Nil]
    BY <1>1, <2>1, <2>2
  <2>4. ASSUME NEW g \in {h, running} PROVE ThreadGets(g, {Nil})
    <3>1. /\ th'[g].gt = th[g].gt /\ th'[g].gctm = th[g].gctm
          /\ th'[g].resuming = th[g].resuming
          /\ \A n \in StackSlots : th'[g].stack[n] \in {th[g].stack[n], Nil}
      BY <2>1, <2>3 DEF ThreadRec
    <3>. QED  BY <1>1, <1>6, <3>1
  <2>5. {Nil} \cap Obj \subseteq Live'
    BY HeapAssumption
  <2>6. running' \in Live'
    BY <1>1, <1>9 DEF ResumeDead
  <2>. QED  BY <1>4, <1>5, <2>3, <2>4, <2>5, <2>6, RegisterRefs
<1>. QED  BY <1>2, <1>7, <1>8, <1>9

(* The fields __mode and __gc, and the metatable of the basic types, are   *)
(* no references from an object.                                           *)
LEMMA SetFieldsRefs ==
  ASSUME SafeInv, Program, SetFields \/ \E v : SetBasicMeta(v)
  PROVE  \A o \in Obj : RefStep(o)
<1>1. UNCHANGED <<ud, cl, pr, uv, th, list, marked>>
  BY DEF SetFields, SetMode, SetGC, SetBasicMeta, colours
<1>2. DOMAIN tab = Tables /\ \A t \in Tables : tab[t] \in TableRec(t)
  BY DEF SafeInv, TypeInv, TypeOK, HeapTypeOK, ContentsTypeOK
<1>3. \A t \in Tables : /\ tab'[t].metatable = tab[t].metatable
                        /\ tab'[t].array = tab[t].array /\ tab'[t].node = tab[t].node
  <2>1. ASSUME NEW x \in Tables, NEW v, \/ tab' = [tab EXCEPT ![x].mode = v]
                                       \/ tab' = [tab EXCEPT ![x].gc = v]
        PROVE  \A t \in Tables : /\ tab'[t].metatable = tab[t].metatable
                                 /\ tab'[t].array = tab[t].array /\ tab'[t].node = tab[t].node
    <3>. TAKE t \in Tables
    <3>1. tab[t] \in TableRec(t) /\ tab[x] \in TableRec(x)
      BY <1>2
    <3>2. \/ tab'[t] = tab[t]
          \/ tab'[t] = [tab[t] EXCEPT !.mode = v]
          \/ tab'[t] = [tab[t] EXCEPT !.gc = v]
      BY <1>2, <2>1
    <3>. QED  BY <3>1, <3>2 DEF TableRec
  <2>2. CASE SetFields
    <3>1. PICK x \in Tables : (\E m \in Modes : SetMode(x, m)) \/ (\E g \in GCFields : SetGC(x, g))
      <4>1. Held \cap MetaTables \subseteq Tables
        BY ProgramAssumption DEF MetaTables
      <4>. QED  BY <2>2, <4>1 DEF SetFields
    <3>. QED  BY <2>1, <3>1 DEF SetMode, SetGC
  <2>3. CASE \E v : SetBasicMeta(v)
    BY <2>3 DEF SetBasicMeta
  <2>. QED  BY <2>2, <2>3
<1>4. ASSUME NEW o \in Obj \ (UpVals \cup Threads) PROVE SameRefs(o)
  <2>1. tt[o] \notin {"upval", "thread"} /\ (tt[o] = "table" => o \in Tables)
    BY DEF UpVals, Threads, Tables, OfType
  <2>2. CASE tt[o] = "table"
    BY <1>3, <2>1, <2>2 DEF SameRefs, Contents, Keys, ArrayVals, NodeKeys, NodeVals, FullNodes
  <2>3. CASE tt[o] # "table"
    BY <1>1, <2>1, <2>3, SameContents DEF SameRefs
  <2>. QED  BY <2>2, <2>3
<1>5. {} \cap Obj \subseteq Live'
  OBVIOUS
<1>. QED  BY <1>1, <1>4, <1>5, RegisterRefs

-----------------------------------------------------------------------------
(* Stores: a new reference is to a live object, and the barrier keeps      *)
(* black from white.                                                       *)

(* What is allocated and not white stays so.                               *)
LEMMA StayMarked ==
  ASSUME SafeInv, Program, Propagating, NEW x \in Obj, ~iswhite(x)
  PROVE  marked'[x] \notin Whites
BY ProgramKeepsLive DEF SafeInv

(* A store with luaC_barrier or luaC_objbarrier.                           *)
LEMMA ForwardRefs ==
  ASSUME SafeInv, Program, NEW t \in Live, tt[t] # "table", NEW v, v \in Obj => v \in Live,
         BarrierForward(t, v, Propagating), UNCHANGED list,
         \A o \in Obj : Contents(o)' \subseteq Contents(o) \cup {v} /\ Keys(o)' = Keys(o),
         \A o \in Obj \ {t} : \/ Contents(o)' = Contents(o)
                              \/ list[o] # "free" /\ marked'[o] # "black"
  PROVE  \A o \in Obj : RefStep(o)
<1>. TAKE o \in Obj
<1>1. /\ TypeInv /\ BlackOK /\ ListOK /\ FreeOK /\ ColourOK /\ ReferencesLive /\ HeapTypeOK
      /\ marked \in [Obj -> Whites \cup {"gray", "black"}]
      /\ currentwhite # "black" /\ currentwhite \in Whites
      /\ Live \subseteq Live'
  BY StateTypes, ProgramKeepsLive DEF SafeInv, TypeInv, TypeOK
<1>2. t \in Obj /\ list[t] # "free" /\ (v \in Live \cap Obj \/ v \notin Obj)
  BY DEF Live, Allocated
<1>3. \/ UNCHANGED marked /\ (isblack(t) => v \notin WhiteObj)
      \/ Propagating /\ marked' = Coloured(MarkSet({v}))
      \/ ~Propagating /\ marked' = [marked EXCEPT ![t] = currentwhite]
  BY DEF BarrierForward, MarkObjects, colours
<1>4. marked'[o] # marked[o] => o = t \/ marked'[o] \notin Whites
  BY <1>1, <1>3 DEF Coloured, MarkColour, Whites
<1>5. Contents(o) \subseteq Obj /\ Contents(o)' \subseteq Obj
  BY DEF Contents
<1>6. o \in Live' => o \in Live \/ Contents(o)' = {}
  <2>1. tt[o] = "string" => Contents(o)' = {}
    BY DEF Contents, NonTableRefs
  <2>2. ASSUME o \in Live', o \notin Live PROVE tt[o] = "string"
    <3>1. list[o] # "free"
      BY <2>2 DEF Live, Allocated
    <3>. QED  BY <1>1, <1>4, <2>2, <3>1, BornLive
  <2>. QED  BY <2>1, <2>2
<1>7. ASSUME Propagating, marked'[o] = "black", ~isblack(o)
      PROVE  /\ MarkColour(o) = "black" /\ o \in MarkSet({v}) /\ o # t
             /\ marked' = Coloured(MarkSet({v}))
  <2>1. marked' = Coloured(MarkSet({v})) /\ isblack(t)
    BY <1>3, <1>7 DEF BarrierForward, MarkObjects, colours, isblack
  <2>. QED  BY <1>7, <2>1 DEF Coloured, isblack
<1>8. ASSUME Propagating, marked'[o] = "black", ~isblack(o), NEW x \in Contents(o), o \in Live
      PROVE  marked'[x] \notin Whites
  <2>1. x \in Live /\ x \in Obj /\ list[x] # "free"
    BY <1>1, <1>8 DEF ReferencesLive, Live, Allocated
  <2>2. WhiteIn(Contents(o)) \subseteq MarkSet({v})
    BY <1>1, <1>7, <1>8, MarkSetClosed
  <2>3. CASE iswhite(x)
    <3>1. x \in MarkSet({v})
      BY <1>8, <2>1, <2>2, <2>3 DEF WhiteIn
    <3>. QED  BY <1>7, <1>8, <2>1, <3>1 DEF Coloured, MarkColour, Whites
  <2>4. CASE ~iswhite(x)
    BY <1>8, <2>1, <2>4, StayMarked
  <2>. QED  BY <2>3, <2>4
<1>9. ASSUME NEW x \in Contents(o)', o \in Live PROVE NewRef(o, x) \/ OldRef(o, x)
  <2>1. CASE x \in Contents(o)
    <3>1. x \in Live'
      BY <1>1, <1>9, <2>1 DEF ReferencesLive
    <3>. QED  BY <1>8, <1>9, <2>1, <3>1 DEF NewRef, OldRef
  <2>2. CASE x = v /\ x \notin Contents(o)
    <3>1. v \in Obj /\ v \in Live /\ v \in Live' /\ list[v] # "free"
      BY <1>1, <1>5, <1>9, <2>2 DEF Live, Allocated
    <3>2. ASSUME Propagating, marked'[o] = "black" PROVE marked'[v] \notin Whites
      <4>1. o = t
        BY <1>9, <2>2, <3>2
      <4>2. isblack(t)
        BY <1>7, <3>2, <4>1
      <4>3. CASE iswhite(v)
        <5>1. v \in WhiteObj /\ v \in MarkSet({v})
          BY <3>1, <4>3 DEF WhiteObj, WhiteIn, MarkSet
        <5>. QED  BY <1>3, <3>1, <3>2, <4>2, <5>1 DEF Coloured, MarkColour, Whites
      <4>. QED  BY <3>1, <3>2, <4>3, StayMarked
    <3>. QED  BY <2>2, <3>1, <3>2 DEF NewRef
  <2>. QED  BY <1>9, <2>1, <2>2
<1>10. ASSUME Propagating, marked'[o] = "black", NEW x \in Keys(o)' PROVE x \in Keys(o) /\ isblack(o)
  <2>1. x \in Keys(o) /\ tt[o] = "table"
    BY <1>10 DEF Keys
  <2>. QED  BY <1>7, <1>10, <2>1 DEF MarkColour
<1>11. list[o] = "free" => Contents(o)' = {}
  BY <1>1, <1>2 DEF FreeOK, Live, Allocated
<1>. QED  BY <1>6, <1>9, <1>10, <1>11 DEF RefStep

(* A store into a table.                                                   *)
LEMMA BackRefs ==
  ASSUME SafeInv, Program, NEW t \in Tables, t \in Live, NEW S, S \cap Obj \subseteq Live,
         BarrierBack(t, S, Propagating), UNCHANGED list,
         Contents(t)' \subseteq Contents(t) \cup S \cup (Keys(t) \cap Live),
         Keys(t)' \subseteq Keys(t) \cup S,
         \A o \in Obj \ {t} : SameRefs(o)
  PROVE  \A o \in Obj : RefStep(o)
<1>. TAKE o \in Obj
<1>1. /\ TypeInv /\ FreeOK /\ ReferencesLive /\ MarkedOK /\ Live \subseteq Live'
      /\ marked \in [Obj -> Whites \cup {"gray", "black"}]
  BY StateTypes, ProgramKeepsLive DEF SafeInv
<1>2. t \in Obj /\ list[t] # "free" /\ list[t] # "tmudata"
  BY DEF SafeInv, LinkInv, TraversableObj, Tables, OfType, Traversable, Live, Allocated
<1>3. \A x \in Obj : marked'[x] = marked[x] \/ (x = t /\ marked'[x] = "gray" /\ isblack(x))
  BY <1>1 DEF BarrierBack, colours
<1>4. o \in Live' => o \in Live
  BY <1>1, <1>3, ProgramKeeps DEF Live, Allocated, isdead
<1>5. marked'[o] = "black" => isblack(o)
  BY <1>3 DEF isblack
<1>6. CASE o # t
  BY <1>1, <1>4, <1>5, <1>6 DEF SameRefs, FreeOK, RefStep, OldRef
<1>7. CASE o = t
  <2>1. Contents(t)' \subseteq Obj /\ Keys(t)' \subseteq Obj
    BY DEF Contents, Keys
  <2>2. ASSUME NEW x \in S \cap Obj, marked'[t] = "black", Propagating
        PROVE  marked'[x] \notin Whites
    <3>1. WhiteIn(S) = {}
      BY <1>1, <1>2, <2>2 DEF BarrierBack, colours, isblack
    <3>2. ~iswhite(x)
      BY <3>1 DEF WhiteIn, Live, Allocated
    <3>. QED  BY <2>2, <3>2, StayMarked
  <2>3. ASSUME NEW x \in Keys(t), marked'[t] = "black", Propagating
        PROVE  marked'[x] \notin Whites
    <3>1. x \in Obj /\ ~iswhite(x)
      BY <1>1, <1>2, <1>5, <1>7, <2>3 DEF MarkedOK, Keys
    <3>. QED  BY <2>3, <3>1, StayMarked
  <2>4. ASSUME NEW x \in Contents(t)' PROVE NewRef(t, x) \/ OldRef(t, x)
    <3>1. CASE x \in Contents(t)
      BY <1>5, <1>7, <3>1 DEF OldRef
    <3>2. CASE x \in S \cap Obj
      BY <1>1, <2>2, <3>2 DEF NewRef
    <3>3. CASE x \in Keys(t) \cap Live
      BY <1>1, <2>3, <3>3 DEF NewRef
    <3>. QED  BY <2>1, <2>4, <3>1, <3>2, <3>3
  <2>. QED  BY <1>2, <1>7, <2>1, <2>2, <2>3, <2>4 DEF RefStep
<1>. QED  BY <1>6, <1>7

(* luaV_settable and its relatives, lua_setmetatable on a table.           *)
LEMMA TableStoreRefs ==
  ASSUME SafeInv, Program, NEW t \in Held \cap Tables, NEW v \in Held \cup {Nil},
         \/ \E s \in ArraySlots[t] : SetArray(t, s, v)
         \/ \E s \in NodeSlots[t], k \in Held : SetNode(t, s, k, v)
         \/ SetTableMeta(t, v)
  PROVE  \A o \in Obj : RefStep(o)
<1>1. /\ DOMAIN tab = Tables /\ tab[t] \in TableRec(t) /\ t \in Live /\ tt[t] = "table"
      /\ Held \subseteq Live /\ t \in Obj /\ Live \subseteq Obj
  BY HeldLive
     DEF SafeInv, TypeInv, TypeOK, HeapTypeOK, ContentsTypeOK, Tables, OfType, Live, Allocated
<1>2. UNCHANGED <<ud, cl, pr, uv, th, list>> /\ \A x \in Tables \ {t} : tab'[x] = tab[x]
  BY <1>1 DEF SetArray, SetNode, SetTableMeta
<1>3. \A o \in Obj \ {t} : SameRefs(o)
  <2>1. ASSUME NEW o \in Obj \ {t} PROVE SameRefs(o)
    <3>1. tt[o] = "table" => tab'[o] = tab[o]
      BY <1>2 DEF Tables, OfType
    <3>2. tt[o] = "upval" => UpValue(o)' = UpValue(o)
      BY <1>2 DEF UpValue, IsOpen
    <3>. QED  BY <1>2, <3>1, <3>2, SameContents DEF SameRefs
  <2>. QED  BY <2>1
<1>4. {v} \cap Obj \subseteq Live
  BY <1>1, HeapAssumption
<1>5. ASSUME NEW s \in ArraySlots[t], SetArray(t, s, v) PROVE \A o \in Obj : RefStep(o)
  <2>1. tab'[t] = [tab[t] EXCEPT !.array[s] = v]
    BY <1>1, <1>5 DEF SetArray
  <2>2. /\ tab'[t].metatable = tab[t].metatable /\ tab'[t].node = tab[t].node
        /\ \A a \in ArraySlots[t] : tab'[t].array[a] \in {tab[t].array[a], v}
    BY <1>1, <2>1 DEF TableRec
  <2>3. Contents(t)' \subseteq Contents(t) \cup {v} /\ Keys(t)' = Keys(t)
    BY <1>1, <2>2 DEF Contents, Keys, ArrayVals, NodeKeys, NodeVals, FullNodes
  <2>. QED  BY <1>1, <1>2, <1>3, <1>4, <1>5, <2>3, BackRefs DEF SetArray
<1>6. ASSUME NEW s \in NodeSlots[t], NEW k \in Held, SetNode(t, s, k, v)
      PROVE  \A o \in Obj : RefStep(o)
  <2>1. tab'[t] = [tab[t] EXCEPT !.node[s] = [key |-> k, val |-> v]]
    BY <1>1, <1>6 DEF SetNode
  <2>2. /\ tab'[t].metatable = tab[t].metatable /\ tab'[t].array = tab[t].array
        /\ tab'[t].node[s].key = k /\ tab'[t].node[s].val = v
        /\ \A a \in NodeSlots[t] \ {s} : tab'[t].node[a] = tab[t].node[a]
    BY <1>1, <2>1 DEF TableRec
  <2>3. Contents(t)' \subseteq Contents(t) \cup {k, v} /\ Keys(t)' \subseteq Keys(t) \cup {k}
    BY <1>1, <2>2 DEF Contents, Keys, ArrayVals, NodeKeys, NodeVals, FullNodes
  <2>4. k \in Obj /\ k \in Live
    BY <1>1
  <2>5. CASE tab[t].node[s].key = k /\ BarrierBack(t, {v}, Propagating)
    <3>1. k \in Keys(t)
      BY <1>1, <2>4, <2>5 DEF Keys
    <3>. QED  BY <1>1, <1>2, <1>3, <1>4, <2>3, <2>4, <2>5, <3>1, BackRefs
  <2>6. CASE BarrierBack(t, {k, v}, Propagating)
    <3>1. {k, v} \cap Obj \subseteq Live
      BY <1>4, <2>4
    <3>. QED  BY <1>1, <1>2, <1>3, <2>3, <2>6, <3>1, BackRefs
  <2>. QED  BY <1>6, <2>5, <2>6 DEF SetNode
<1>7. CASE SetTableMeta(t, v)
  <2>1. tab'[t] = [tab[t] EXCEPT !.metatable = v]
    BY <1>1, <1>7 DEF SetTableMeta
  <2>2. /\ tab'[t].metatable = v /\ tab'[t].array = tab[t].array /\ tab'[t].node = tab[t].node
    BY <1>1, <2>1 DEF TableRec
  <2>3. Contents(t)' \subseteq Contents(t) \cup {v} /\ Keys(t)' = Keys(t)
    BY <1>1, <2>2 DEF Contents, Keys, ArrayVals, NodeKeys, NodeVals, FullNodes
  <2>. QED  BY <1>1, <1>2, <1>3, <1>4, <1>7, <2>3, BackRefs DEF SetTableMeta
<1>. QED  BY <1>5, <1>6, <1>7

(* lua_setmetatable and lua_setfenv on a userdata.                         *)
LEMMA UdataStoreRefs ==
  ASSUME SafeInv, Program, NEW u \in Held \cap Udata, NEW v \in Held \cup {Nil},
         SetUdataMeta(u, v) \/ SetUdataEnv(u, v)
  PROVE  \A o \in Obj : RefStep(o)
<1>1. /\ ud \in [Udata -> UdataRec] /\ u \in Live /\ tt[u] = "userdata" /\ u \in Obj
      /\ (v \in Obj => v \in Live)
  BY HeldLive, HeapAssumption
     DEF SafeInv, TypeInv, TypeOK, HeapTypeOK, ContentsTypeOK, Udata, OfType, Live, Allocated
<1>2. ud'[u] = [ud[u] EXCEPT !.metatable = v] \/ ud'[u] = [ud[u] EXCEPT !.env = v]
  BY <1>1 DEF SetUdataMeta, SetUdataEnv
<1>3. UNCHANGED <<tab, cl, pr, uv, th, list>> /\ \A x \in Udata \ {u} : ud'[x] = ud[x]
  BY <1>1 DEF SetUdataMeta, SetUdataEnv
<1>4. {ud'[u].metatable, ud'[u].env} \subseteq {ud[u].metatable, ud[u].env, v}
  <2>1. ud[u] \in UdataRec
    BY <1>1
  <2>. QED  BY <1>2, <2>1 DEF UdataRec
<1>5. Contents(u)' \subseteq Contents(u) \cup {v} /\ Keys(u)' = Keys(u)
  BY <1>1, <1>4 DEF Contents, NonTableRefs, Keys
<1>6. \A o \in Obj \ {u} : Contents(o)' = Contents(o) /\ Keys(o)' = Keys(o)
  <2>1. ASSUME NEW o \in Obj \ {u} PROVE Contents(o)' = Contents(o) /\ Keys(o)' = Keys(o)
    <3>1. tt[o] = "userdata" => ud'[o] = ud[o]
      BY <1>3 DEF Udata, OfType
    <3>2. tt[o] = "upval" => UpValue(o)' = UpValue(o)
      BY <1>3 DEF UpValue, IsOpen
    <3>. QED  BY <1>3, <3>1, <3>2, SameContents
  <2>. QED  BY <2>1
<1>. QED  BY <1>1, <1>3, <1>5, <1>6, ForwardRefs DEF SetUdataMeta, SetUdataEnv

(* lua_setfenv on a function, lua_replace and lua_setupvalue on the upvalue*)
(* of a C function.                                                        *)
LEMMA ClosureStoreRefs ==
  ASSUME SafeInv, Program, NEW f \in Held \cap Closures, NEW v \in Held \cup {Nil},
         SetClosureEnv(f, v) \/ SetCUpvalue(f, v)
  PROVE  \A o \in Obj : RefStep(o)
<1>1. /\ DOMAIN cl = Closures /\ cl[f] \in ClosureRec(f) /\ f \in Live /\ f \in Obj
      /\ tt[f] \in {"function", "cfunction"} /\ (v \in Obj => v \in Live)
  BY HeldLive, HeapAssumption
     DEF SafeInv, TypeInv, TypeOK, HeapTypeOK, ContentsTypeOK, Closures, OfType, Live, Allocated
<1>2. cl'[f] = [cl[f] EXCEPT !.env = v] \/ cl'[f] = [cl[f] EXCEPT !.upvalue = v]
  BY <1>1 DEF SetClosureEnv, SetCUpvalue
<1>3. UNCHANGED <<tab, ud, pr, uv, th, list>> /\ \A x \in Closures \ {f} : cl'[x] = cl[x]
  BY <1>1 DEF SetClosureEnv, SetCUpvalue
<1>4. {cl'[f].env, cl'[f].p, cl'[f].upvalue} \subseteq {cl[f].env, cl[f].p, cl[f].upvalue, v}
  BY <1>1, <1>2 DEF ClosureRec
<1>5. Contents(f)' \subseteq Contents(f) \cup {v} /\ Keys(f)' = Keys(f)
  BY <1>1, <1>4 DEF Contents, NonTableRefs, ClosureRefs, Keys
<1>6. \A o \in Obj \ {f} : Contents(o)' = Contents(o) /\ Keys(o)' = Keys(o)
  <2>1. ASSUME NEW o \in Obj \ {f} PROVE Contents(o)' = Contents(o) /\ Keys(o)' = Keys(o)
    <3>1. tt[o] \in {"function", "cfunction"} => cl'[o] = cl[o]
      BY <1>3 DEF Closures, OfType
    <3>2. tt[o] = "upval" => UpValue(o)' = UpValue(o)
      BY <1>3 DEF UpValue, IsOpen
    <3>. QED  BY <1>3, <3>1, <3>2, SameContents
  <2>. QED  BY <2>1
<1>. QED  BY <1>1, <1>3, <1>5, <1>6, ForwardRefs DEF SetClosureEnv, SetCUpvalue

(* lua_setfenv on a thread, lua_replace of its globals.                    *)
LEMMA ThreadStoreRefs ==
  ASSUME SafeInv, Program, NEW h \in (Held \cap Threads) \cup {running},
         NEW v \in Held \cup {Nil}, SetThreadEnv(h, v)
  PROVE  \A o \in Obj : RefStep(o)
<1>1. /\ th \in [Threads -> ThreadRec] /\ h \in Live /\ h \in Obj /\ h \in Threads
      /\ tt[h] = "thread" /\ (v \in Obj => v \in Live)
  BY HeldLive, RegistersLive, StateTypes, HeapAssumption
     DEF SafeInv, Threads, OfType, Live, Allocated
<1>2. /\ \A x \in Threads \ {h} : th'[x] = th[x]
      /\ th'[h] = [th[h] EXCEPT !.gt = v] /\ th[h] \in ThreadRec
  BY <1>1 DEF SetThreadEnv
<1>3. /\ th'[h].gt = v /\ th'[h].resuming = th[h].resuming /\ th'[h].gctm = th[h].gctm
      /\ th'[h].stack = th[h].stack
  BY <1>2 DEF ThreadRec
<1>4. Contents(h)' \subseteq Contents(h) \cup {v} /\ Keys(h)' = Keys(h)
  BY <1>1, <1>3 DEF Contents, NonTableRefs, ThreadRefs, Keys
<1>5. UNCHANGED <<tab, ud, cl, pr, uv, list>> /\ \A g \in Threads : th'[g].stack = th[g].stack
  BY <1>2, <1>3 DEF SetThreadEnv
<1>6. ASSUME NEW u \in UpVals PROVE UpValue(u)' = UpValue(u)
  <2>1. uv[u].owner \in Threads \cup {Nil}
    BY DEF SafeInv, TypeInv, TypeOK, HeapTypeOK, ContentsTypeOK, UpValRec
  <2>. QED  BY <1>5, <2>1 DEF UpValue, IsOpen
<1>7. \A o \in Obj \ {h} : Contents(o)' = Contents(o) /\ Keys(o)' = Keys(o)
  <2>1. ASSUME NEW o \in Obj \ {h} PROVE Contents(o)' = Contents(o) /\ Keys(o)' = Keys(o)
    <3>1. tt[o] = "thread" => th'[o] = th[o]
      BY <1>2 DEF Threads, OfType
    <3>2. tt[o] = "upval" => UpValue(o)' = UpValue(o)
      BY <1>6 DEF UpVals, OfType
    <3>. QED  BY <1>5, <3>1, <3>2, SameContents
  <2>. QED  BY <2>1
<1>. QED  BY <1>1, <1>4, <1>5, <1>7, ForwardRefs DEF SetThreadEnv

(* addk, pushclosure.                                                      *)
LEMMA ProtoStoreRefs ==
  ASSUME SafeInv, Program, NEW i \in StackSlots, NEW j \in StackSlots, NEW n \in ConstSlots,
         AddConst(i, n, j)
  PROVE  \A o \in Obj : RefStep(o)
<1>. SUFFICES ASSUME NEW p, p = Reg(i), NEW v, v = Reg(j)
              PROVE  \A o \in Obj : RefStep(o)
  OBVIOUS
<1>1. /\ pr \in [Protos -> [ConstSlots -> Value]] /\ p \in Protos /\ p \in Obj /\ tt[p] = "proto"
      /\ p \in Live /\ (v \in Obj => v \in Live)
  BY RegistersLive
     DEF SafeInv, TypeInv, TypeOK, HeapTypeOK, ContentsTypeOK, AddConst, Protos, OfType
<1>2. /\ pr' = [pr EXCEPT ![p][n] = v] /\ BarrierForward(p, v, Propagating)
      /\ UNCHANGED <<tab, ud, cl, uv, th, list>>
  BY DEF AddConst
<1>3. \A x \in Protos \ {p} : pr'[x] = pr[x]
  BY <1>1, <1>2
<1>4. \A m \in ConstSlots : pr'[p][m] \in {pr[p][m], v}
  BY <1>1, <1>2
<1>5. Contents(p)' \subseteq Contents(p) \cup {v} /\ Keys(p)' = Keys(p)
  BY <1>1, <1>4 DEF Contents, NonTableRefs, ProtoRefs, Keys
<1>6. \A o \in Obj \ {p} : Contents(o)' = Contents(o) /\ Keys(o)' = Keys(o)
  <2>1. ASSUME NEW o \in Obj \ {p} PROVE Contents(o)' = Contents(o) /\ Keys(o)' = Keys(o)
    <3>1. tt[o] = "proto" => pr'[o] = pr[o]
      BY <1>3 DEF Protos, OfType
    <3>2. tt[o] = "upval" => UpValue(o)' = UpValue(o)
      BY <1>2 DEF UpValue, IsOpen
    <3>. QED  BY <1>2, <3>1, <3>2, SameContents
  <2>. QED  BY <2>1
<1>. QED  BY <1>1, <1>2, <1>5, <1>6, ForwardRefs

(* OP_SETUPVAL and lua_setupvalue on a Lua function: every open upvalue of *)
(* the register, and the thread, get the value; none of them is black.     *)
LEMMA SetUpvalRefs ==
  ASSUME SafeInv, Program, NEW f \in Held \cap LClosures, NEW v \in Held \cup {Nil},
         SetUpval(f, v)
  PROVE  \A o \in Obj : RefStep(o)
<1>. SUFFICES ASSUME NEW u, u = cl[f].upvalue
              PROVE  \A o \in Obj : RefStep(o)
  OBVIOUS
<1>1. /\ uv \in [UpVals -> UpValRec] /\ th \in [Threads -> ThreadRec]
      /\ TypeInv /\ BlackOK /\ ListOK /\ BlackOK' /\ UNCHANGED <<tab, ud, cl, pr, list>>
      /\ (v \in Obj => v \in Live) /\ BarrierForward(u, v, Propagating)
  BY StateTypes, HeldLive, ProgramBlack, HeapAssumption DEF SafeInv, SetUpval
<1>2. /\ u \in UpVals /\ u \in Obj /\ tt[u] = "upval" /\ u \in Live
  <2>1. f \in Closures /\ tt[f] = "function"
    BY DEF LClosures, Closures, OfType
  <2>2. u \in UpVals
    BY <1>1, <2>1
       DEF SetUpval, TypeInv, TypeOK, HeapTypeOK, ContentsTypeOK, ClosureRec
  <2>. QED  BY <2>2, ClosureLive DEF UpVals, OfType
<1>3. \A w \in UpVals : /\ w \in Obj /\ tt[w] = "upval"
                        /\ Contents(w) = Obj \cap {UpValue(w)} /\ Contents(w)' = Obj \cap {UpValue(w)'}
                        /\ Keys(w) = {} /\ Keys(w)' = {}
  BY DEF UpVals, OfType, Contents, NonTableRefs, Keys
<1>4. CASE ~IsOpen(u)
  <2>1. th' = th /\ uv' = [uv EXCEPT ![u].value = v]
    BY <1>2, <1>4 DEF SetUpval
  <2>2. \A w \in UpVals \ {u} : UpValue(w)' = UpValue(w)
    BY <1>1, <2>1 DEF UpValue, IsOpen
  <2>3. Contents(u)' \subseteq Contents(u) \cup {v} /\ Keys(u)' = Keys(u)
    <3>1. UpValue(u)' = v
      <4>1. uv'[u].value = v /\ uv'[u].owner = uv[u].owner
        BY <1>1, <1>2, <2>1 DEF UpValRec
      <4>. QED  BY <1>4, <4>1 DEF UpValue, IsOpen
    <3>. QED  BY <1>2, <1>3, <3>1
  <2>4. \A o \in Obj \ {u} : Contents(o)' = Contents(o) /\ Keys(o)' = Keys(o)
    <3>1. ASSUME NEW o \in Obj \ {u} PROVE Contents(o)' = Contents(o) /\ Keys(o)' = Keys(o)
      <4>1. tt[o] = "upval" => UpValue(o)' = UpValue(o)
        BY <2>2 DEF UpVals, OfType
      <4>. QED  BY <1>1, <2>1, <4>1, SameContents
    <3>. QED  BY <3>1
  <2>. QED  BY <1>1, <1>2, <2>3, <2>4, ForwardRefs
<1>5. CASE IsOpen(u)
  <2>. SUFFICES ASSUME NEW h, h = uv[u].owner, NEW l, l = uv[u].level
                PROVE  \A o \in Obj : RefStep(o)
    OBVIOUS
  <2>1. /\ h \in Threads /\ h \in Obj /\ tt[h] = "thread" /\ list[h] # "free" /\ l \in StackSlots
        /\ \A w \in UpVals : IsOpen(w) => /\ uv[w].owner \in Threads /\ uv[w].level \in StackSlots
                                          /\ list[w] # "free"
    BY <1>1, <1>2, <1>5
       DEF ListOK, IsOpen, TypeInv, TypeOK, HeapTypeOK, ContentsTypeOK, UpValRec, Threads, OfType
  <2>2. uv' = uv /\ th' = [th EXCEPT ![h].stack[l] = v]
    BY <1>2, <1>5 DEF SetUpval
  <2>3. /\ \A g \in Threads \ {h} : th'[g] = th[g]
        /\ th'[h].gt = th[h].gt /\ th'[h].resuming = th[h].resuming /\ th'[h].gctm = th[h].gctm
        /\ \A n \in StackSlots : th'[h].stack[n] \in {th[h].stack[n], v}
    <3>1. th[h] \in ThreadRec /\ th'[h] = [th[h] EXCEPT !.stack[l] = v]
      BY <1>1, <2>1, <2>2
    <3>. QED  BY <1>1, <2>1, <2>2, <3>1 DEF ThreadRec
  <2>4. ASSUME NEW w \in UpVals
        PROVE  /\ UpValue(w)' \in {UpValue(w), v}
               /\ UpValue(w)' # UpValue(w) => list[w] # "free" /\ marked'[w] # "black"
    <3>1. CASE ~IsOpen(w)
      BY <2>2, <3>1 DEF UpValue, IsOpen
    <3>2. CASE IsOpen(w)
      <4>1. marked'[w] # "black"
        BY <1>1, <1>3, <2>2, <3>2 DEF BlackOK, isblack, IsOpen
      <4>2. /\ UpValue(w) = th[uv[w].owner].stack[uv[w].level]
            /\ UpValue(w)' = th'[uv[w].owner].stack[uv[w].level]
        BY <2>2, <3>2 DEF UpValue, IsOpen
      <4>3. UpValue(w)' \in {UpValue(w), v}
        <5>1. /\ uv[w].owner \in Threads /\ uv[w].level \in StackSlots
          BY <2>1, <3>2
        <5>2. CASE uv[w].owner = h
          BY <2>3, <4>2, <5>1, <5>2
        <5>3. CASE uv[w].owner # h
          <6>1. th'[uv[w].owner] = th[uv[w].owner]
            BY <2>3, <5>1, <5>3
          <6>. QED  BY <4>2, <6>1
        <5>. QED  BY <5>2, <5>3
      <4>. QED  BY <2>1, <3>2, <4>1, <4>3
    <3>. QED  BY <3>1, <3>2
  <2>5. ASSUME NEW o \in Obj
        PROVE  /\ Contents(o)' \subseteq Contents(o) \cup {v} /\ Keys(o)' = Keys(o)
               /\ \/ Contents(o)' = Contents(o)
                  \/ list[o] # "free" /\ marked'[o] # "black"
    <3>1. CASE tt[o] = "upval"
      <4>1. o \in UpVals
        BY <3>1 DEF UpVals, OfType
      <4>. QED  BY <1>3, <2>4, <4>1
    <3>2. CASE o = h
      <4>1. Contents(h)' \subseteq Contents(h) \cup {v} /\ Keys(h)' = Keys(h)
        <5>1. \A n \in StackSlots : th'[h].stack[n] \in ThreadRefs(h) \cup {v}
          BY <2>3 DEF ThreadRefs
        <5>2. {th'[h].gt, th'[h].resuming} \cup th'[h].gctm \subseteq ThreadRefs(h)
          BY <2>3 DEF ThreadRefs
        <5>3. ASSUME NEW x \in ThreadRefs(h)' PROVE x \in ThreadRefs(h) \cup {v}
          <6>1. x \in {th'[h].gt, th'[h].resuming} \cup th'[h].gctm
                \/ \E n \in StackSlots : x = th'[h].stack[n]
            BY <5>3 DEF ThreadRefs
          <6>. QED  BY <5>1, <5>2, <6>1
        <5>. QED  BY <2>1, <5>3 DEF Contents, NonTableRefs, Keys
      <4>2. marked'[h] # "black"
        BY <1>1, <2>1 DEF BlackOK, isblack
      <4>. QED  BY <2>1, <3>2, <4>1, <4>2
    <3>3. CASE o # h /\ tt[o] # "upval"
      <4>1. tt[o] = "thread" => th'[o] = th[o]
        BY <2>3, <3>3 DEF Threads, OfType
      <4>. QED  BY <1>1, <3>3, <4>1, SameContents
    <3>. QED  BY <3>1, <3>2, <3>3
  <2>6. tt[u] # "table" /\ UNCHANGED list
    BY <1>1, <1>2
  <2>. QED  BY <1>1, <1>2, <2>5, <2>6, ForwardRefs
<1>. QED  BY <1>4, <1>5

(* luaF_close: an upvalue keeps the value of its register; if it was gray, *)
(* the value is marked (luaC_linkupval).                                   *)
LEMMA CloseUpvalsRefs ==
  ASSUME SafeInv, Program, NEW level, CloseUpvals(level)
  PROVE  \A o \in Obj : RefStep(o)
<1>. DEFINE closed == {u \in OpenUpvals(running) : uv[u].level >= level}
            dead   == {u \in closed : isdead(u)}
            kept   == closed \ dead
            grays  == {u \in kept : isgray(u)}
            found  == MarkedOnClose(grays)
<1>1. /\ list' = [x \in Obj |-> IF x \in dead THEN "free"
                                ELSE IF x \in kept THEN "rootgc" ELSE list[x]]
      /\ uv' = [u \in UpVals |->
                  IF u \in dead THEN NoUpVal
                  ELSE IF u \in kept THEN [NoUpVal EXCEPT !.value = UpValue(u)]
                  ELSE uv[u]]
      /\ marked' = [x \in Obj |-> IF x \in dead THEN "white0"
                                  ELSE IF x \in grays
                                  THEN IF Propagating THEN "black" ELSE currentwhite
                                  ELSE Coloured(found)[x]]
      /\ UNCHANGED <<tab, ud, cl, pr, th>>
  BY DEF CloseUpvals
<1>2. /\ closed \subseteq UpVals /\ (\A u \in closed : list[u] = "openupval")
      /\ dead \subseteq closed /\ kept \subseteq closed /\ grays \subseteq kept
      /\ \A u \in closed : isdead(u) <=> u \in dead
  BY DEF OpenUpvals
<1>3. /\ TypeInv /\ HeapTypeOK /\ BlackOK /\ ListOK /\ FreeOK /\ ColourOK /\ ReferencesLive
      /\ Live \subseteq Live' /\ marked \in [Obj -> Whites \cup {"gray", "black"}]
      /\ currentwhite \in Whites /\ currentwhite' = currentwhite
  BY StateTypes, ProgramKeepsLive, ProgramKeeps DEF SafeInv, TypeInv, TypeOK
<1>4. /\ found \cap UpVals = {} /\ found \subseteq WhiteObj /\ (found # {} => Propagating)
      /\ \A u \in grays : Propagating => WhiteIn({UpValue(u)}) \subseteq found
      /\ \A o \in found : MarkColour(o) = "black" => WhiteIn(Contents(o)) \subseteq found
  <2>. DEFINE S == {UpValue(u) : u \in grays}
  <2>1. S \cap UpVals = {}
    <3>1. \A u \in grays : UpValue(u) \in Value
      BY <1>2, <1>3, UpValueType
    <3>. QED  BY <3>1, HeapAssumption DEF Value, UpVals, OfType
  <2>2. found = IF Propagating THEN MarkSet(S) ELSE {}
    BY DEF MarkedOnClose
  <2>3. MarkSet(S) \subseteq WhiteObj /\ WhiteIn(S) \subseteq MarkSet(S)
    BY DEF MarkSet, WhiteIn, WhiteObj
  <2>4. \A u \in grays : WhiteIn({UpValue(u)}) \subseteq WhiteIn(S)
    BY DEF WhiteIn
  <2>5. MarkSet(S) \cap UpVals = {}
    <3>. HIDE DEF S
    <3>. QED  BY <1>3, <2>1, MarkSetValues
  <2>6. \A o \in MarkSet(S) : MarkColour(o) = "black" => WhiteIn(Contents(o)) \subseteq MarkSet(S)
    <3>. HIDE DEF S
    <3>. QED  BY <1>3, MarkSetClosed
  <2>. QED  BY <2>2, <2>3, <2>4, <2>5, <2>6
<1>. HIDE DEF closed, dead, kept, grays, found
<1>5. ASSUME NEW x \in Obj, x \in found PROVE marked'[x] \notin Whites
  BY <1>1, <1>2, <1>4, <1>5 DEF Coloured, MarkColour, Whites
<1>6. ASSUME NEW x \in Live, Propagating, NEW S, x \in S, WhiteIn(S) \subseteq found
      PROVE  NewRef(x, x) /\ marked'[x] \notin Whites
  <2>1. x \in Obj /\ list[x] # "free" /\ x \in Live'
    BY <1>3 DEF Live, Allocated
  <2>2. marked'[x] \notin Whites
    <3>1. CASE iswhite(x)
      BY <1>5, <1>6, <2>1, <3>1 DEF WhiteIn
    <3>2. CASE ~iswhite(x)
      BY <1>6, <2>1, <3>2, StayMarked
    <3>. QED  BY <3>1, <3>2
  <2>. QED  BY <2>1, <2>2 DEF NewRef
<1>7. ASSUME NEW u \in closed PROVE RefStep(u)
  <2>1. /\ u \in UpVals /\ u \in Obj /\ tt[u] = "upval" /\ list[u] = "openupval" /\ Keys(u)' = {}
        /\ Contents(u)' = Obj \cap {UpValue(u)'} /\ Contents(u) = Obj \cap {UpValue(u)}
    BY <1>2 DEF UpVals, OfType, Contents, NonTableRefs, Keys
  <2>2. CASE u \in dead
    <3>1. UpValue(u)' = Nil
      BY <1>1, <2>1, <2>2 DEF UpValue, IsOpen, NoUpVal
    <3>. QED  BY <2>1, <3>1, HeapAssumption DEF RefStep
  <2>3. CASE u \notin dead
    <3>1. u \in Live
      BY <1>2, <2>1, <2>3 DEF Live, Allocated
    <3>2. u \in kept
      BY <2>3 DEF kept
    <3>3. UpValue(u)' = UpValue(u) /\ list'[u] = "rootgc"
      <4>1. uv'[u] = [NoUpVal EXCEPT !.value = UpValue(u)] /\ list'[u] = "rootgc"
        BY <1>1, <2>1, <2>3, <3>2
      <4>2. uv'[u].owner = Nil /\ uv'[u].value = UpValue(u)
        BY <4>1 DEF NoUpVal
      <4>. QED  BY <4>1, <4>2 DEF UpValue, IsOpen
    <3>4. CASE u \in grays /\ Propagating
      <4>1. \A x \in Contents(u) : x \in Live
        BY <1>3, <3>1 DEF ReferencesLive
      <4>2. \A x \in Contents(u) : x \in {UpValue(u)} /\ WhiteIn({UpValue(u)}) \subseteq found
        BY <1>4, <2>1, <3>4
      <4>3. \A x \in Contents(u)' : x \in Live' /\ marked'[x] \notin Whites
        BY <1>3, <1>6, <2>1, <3>3, <3>4, <4>1, <4>2
      <4>. QED  BY <2>1, <3>3, <4>3 DEF RefStep, NewRef
    <3>5. CASE ~(u \in grays /\ Propagating)
      <4>1. marked'[u] # "black"
        <5>1. ~isblack(u) /\ currentwhite # "black"
          BY <1>3, <2>1, OpenColours, StateTypes
        <5>. QED  BY <1>1, <1>4, <2>1, <2>3, <3>5, <5>1 DEF Coloured, isblack
      <4>. QED  BY <2>1, <3>1, <3>3, <4>1 DEF RefStep, OldRef
    <3>. QED  BY <3>4, <3>5
  <2>. QED  BY <2>2, <2>3
<1>8. ASSUME NEW o \in Obj, o \notin closed PROVE RefStep(o)
  <2>1. /\ list'[o] = list[o] /\ marked'[o] = Coloured(found)[o]
        /\ (o \in UpVals => uv'[o] = uv[o])
    BY <1>1, <1>2, <1>8
  <2>2. Contents(o)' = Contents(o) /\ Keys(o)' = Keys(o)
    <3>1. ASSUME tt[o] = "upval" PROVE UpValue(o)' = UpValue(o)
      <4>1. uv'[o] = uv[o] /\ th' = th
        BY <1>1, <2>1, <3>1 DEF UpVals, OfType
      <4>. QED  BY <4>1 DEF UpValue, IsOpen
    <3>. QED  BY <1>1, <3>1, SameContents
  <2>3. marked'[o] = marked[o] \/ (o \in found /\ marked'[o] = MarkColour(o) /\ Propagating)
    BY <1>4, <2>1 DEF Coloured
  <2>4. o \in Live' => o \in Live \/ Contents(o) = {}
    <3>1. tt[o] = "string" => Contents(o) = {}
      BY DEF Contents, NonTableRefs
    <3>2. MarkColour(o) \notin Whites
      BY DEF MarkColour, Whites
    <3>. QED
      BY <1>3, <2>1, <2>3, <3>1, <3>2, BornLive DEF Live, Allocated
  <2>5. CASE marked'[o] = "black" /\ ~isblack(o)
    <3>1. o \in found /\ MarkColour(o) = "black" /\ Propagating
      BY <2>3, <2>5 DEF isblack
    <3>2. o \in Live
      BY <1>3, <1>4, <3>1, AllLive DEF WhiteObj, WhiteIn, Allocated
    <3>3. tt[o] # "table" /\ list'[o] # "free"
      BY <2>1, <3>1, <3>2 DEF MarkColour, Live, Allocated
    <3>4. \A x \in Contents(o) : x \in Live
      BY <1>3, <3>2 DEF ReferencesLive
    <3>5. \A x \in Contents(o) : x \in Live' /\ marked'[x] \notin Whites
      BY <1>3, <1>4, <1>6, <3>1, <3>4
    <3>. QED  BY <2>2, <3>3, <3>5 DEF RefStep, NewRef, Keys
  <2>6. CASE ~(marked'[o] = "black" /\ ~isblack(o))
    BY <1>3, <2>1, <2>2, <2>4, <2>6 DEF FreeOK, RefStep, OldRef
  <2>. QED  BY <2>5, <2>6
<1>. QED  BY <1>7, <1>8

-----------------------------------------------------------------------------
(* The program as a whole.                                                 *)

(* No step of the program makes a reference that RefStep does not allow. *)
LEMMA ProgramRefs ==
  ASSUME SafeInv, Program
  PROVE  \A o \in Obj : RefStep(o)
<1>1. CASE Stores
  <2>1. PICK v \in Held \cup {Nil} :
        \/ \E t \in Held \cap Tables :
             \/ \E s \in ArraySlots[t] : SetArray(t, s, v)
             \/ \E s \in NodeSlots[t], k \in Held : SetNode(t, s, k, v)
             \/ v \in Metas[t] \cup {Nil} /\ SetTableMeta(t, v)
        \/ \E u \in Held \cap Udata :
             \/ v \in Metas[u] \cup {Nil} /\ SetUdataMeta(u, v)
             \/ v \in Envs /\ SetUdataEnv(u, v)
        \/ v \in Metas[Nil] \cup {Nil} /\ SetBasicMeta(v)
        \/ \E f \in Held \cap Closures : v \in Envs /\ SetClosureEnv(f, v)
        \/ \E h \in (Held \cap Threads) \cup {running} : v \in Envs /\ SetThreadEnv(h, v)
        \/ \E f \in Held \cap CClosures : SetCUpvalue(f, v)
        \/ \E f \in Held \cap LClosures : SetUpval(f, v)
    BY <1>1 DEF Stores
  <2>2. CClosures \subseteq Closures
    BY DEF CClosures, Closures, OfType
  <2>. QED
    BY <2>1, <2>2, TableStoreRefs, UdataStoreRefs, SetFieldsRefs, ClosureStoreRefs, ThreadStoreRefs,
       SetUpvalRefs
<1>2. CASE Loading
  BY <1>2, LoadingRefs, ProtoStoreRefs DEF Loading
<1>. QED
  BY <1>1, <1>2, LoadRefs, CloseUpvalsRefs, AllocationsRefs, SetFieldsRefs, SwitchesRefs DEF Program

(* The thread that runs and the metatable of the basic types are live.     *)
LEMMA ProgramRoots ==
  ASSUME SafeInv, Program
  PROVE  {running', mt'} \cap Obj \subseteq Live'
<1>1. Live \subseteq Live' /\ Held \subseteq Live /\ running \in Live /\ (mt \in Obj => mt \in Live)
  BY ProgramKeepsLive, HeldLive, RegistersLive DEF SafeInv, ReferencesLive, Roots
<1>2. running' = running \/ Switches
  BY ProgramResuming DEF SafeInv
<1>3. mt' = mt \/ mt' \in Held \cup {Nil}
  <2>1. CASE Stores
    <3>1. ASSUME NEW v, \/ \E t \in Tables : \/ \E s, k : SetArray(t, s, v) \/ SetNode(t, s, k, v)
                                          \/ SetTableMeta(t, v)
                        \/ \E x \in Udata : SetUdataMeta(x, v) \/ SetUdataEnv(x, v)
                        \/ \E f : SetClosureEnv(f, v) \/ SetCUpvalue(f, v)
                        \/ \E h : SetThreadEnv(h, v)
                        \/ \E f : SetUpval(f, v)
          PROVE  mt' = mt
      BY <3>1 DEF SetArray, SetNode, SetTableMeta, SetUdataMeta, SetUdataEnv, SetClosureEnv,
         SetThreadEnv, SetCUpvalue, SetUpval
    <3>2. ASSUME NEW v, SetBasicMeta(v) PROVE mt' = v
      BY <3>2 DEF SetBasicMeta
    <3>. QED  BY <2>1, <3>1, <3>2 DEF Stores
  <2>2. CASE Allocations
    BY <2>2 DEF Allocations, NewTable, NewUdata, NewThread, NewString, NewCClosure, ShareUpVal, Capture
  <2>3. CASE ~Stores /\ ~Allocations
    BY <2>3 DEF Program, Load, CloseUpvals, SetFields, SetMode, SetGC, Loading, NewProto, LoadChunk,
       AddConst, Switches, Resume, ResumeDead, Yield
  <2>. QED  BY <2>1, <2>2, <2>3
<1>. QED  BY <1>1, <1>2, <1>3, SwitchesRefs, HeapAssumption

(* The invariant survives every step of the program.                       *)
LEMMA ProgramSafe ==
  ASSUME SafeInv, Program
  PROVE  SafeInv'
<1>1. TypeInv' /\ LinkInv' /\ BlackOK' /\ UdataInv'
  BY ProgramType, ProgramLinks, ProgramBlack, ProgramUdata DEF SafeInv
<1>2. ListOK' /\ ChainOK' /\ ColourOK' /\ GrayOK'
  BY ProgramLists, ProgramChain, ProgramWhites, ProgramGrays DEF SafeInv
<1>3. FreeOK' /\ MarkedOK' /\ ReferencesLive'
  BY RefStepsSafe, ProgramRefs, ProgramRoots
<1>. QED  BY <1>1, <1>2, <1>3 DEF SafeInv
=============================================================================
