---------------------------- MODULE LuaCollector ----------------------------
(***************************************************************************)
(* The incremental collector of lgc.cpp: singlestep, one action per state  *)
(* and branch of its switch, and luaC_fullgc.                              *)
(*                                                                         *)
(* luaC_step runs several single steps in a row and the program runs       *)
(* between two calls of it; as the number of steps of a call depends on    *)
(* the pace parameters, here the program may run between any two of them.  *)
(***************************************************************************)
EXTENDS LuaHeap, FiniteSets

CONSTANTS
  NBuckets,   (* g->strt.size                                              *)
  Bucket,     (* lmod(hash, size) of each string                           *)
  GCSWEEPMAX  (* the objects a single sweep step visits, at most           *)

ASSUME CollectorAssumption ==
  /\ NBuckets \in Nat \ {0}
  /\ Bucket \in [Strings -> 0 .. NBuckets - 1]
  /\ GCSWEEPMAX \in Nat \ {0}
  /\ IsFiniteSet(Obj)

VARIABLES
  gcstate,    (* g->gcstate                                                *)
  sweepstrgc, (* the next bucket of strt to sweep                          *)
  unswept,    (* what the rootgc list holds from sweepgc on, but for what  *)
              (* was linked since the sweep began                          *)
  fullgc      (* luaC_fullgc is finishing the pending sweep                *)

collector == <<gcstate, sweepstrgc, unswept, fullgc>>

GCStates == {"pause", "propagate", "sweepstring", "sweep", "finalize"}

CollectorTypeOK ==
  /\ gcstate \in GCStates
  /\ sweepstrgc \in 0 .. NBuckets
  /\ unswept \subseteq Obj
  /\ fullgc \in BOOLEAN

CollectorInit ==
  /\ gcstate = "pause"
  /\ sweepstrgc = 0
  /\ unswept = {}
  /\ fullgc = FALSE

-----------------------------------------------------------------------------
(* GCSpause: markroot.                                                     *)

RootMarks == MarkSet({Main, th[Main].gt, Registry, mt})

MarkRoot ==
  /\ marked' = Coloured(RootMarks)
  /\ gray' = Listed(RootMarks)
  /\ grayagain' = {}
  /\ weak' = {}
  /\ gcstate' = "propagate"
  /\ UNCHANGED <<heap, list, finalized, currentwhite, running,
                 sweepstrgc, unswept>>

StartCycle == gcstate = "pause" /\ MarkRoot /\ UNCHANGED fullgc

-----------------------------------------------------------------------------
(* GCSpropagate with gray objects: propagatemark.                          *)

IsWeak(o) == tt[o] = "table" /\ Mode(o) # {}

WeakTablesBlack(o) == IF tt[o] = "thread" THEN "gray" ELSE "black" \* mutant
ThreadsBlack(o) == IF IsWeak(o) THEN "gray" ELSE "black"      \* mutant

(* Threads and weak tables stay gray: they are traversed again.            *)
TraversedColour(o) == IF tt[o] = "thread" \/ IsWeak(o) THEN "gray" ELSE "black"

RemoveEntry(n) == [key |-> IF n.key \in Obj THEN DeadKey ELSE n.key, val |-> Nil]

(* The empty nodes of a traversed table lose their keys; traversetable     *)
(* returns before it looks at the nodes of a table that is weak in both.   *)
CleanedNode(t, n) ==
  IF n.val = Nil /\ Mode(t) # {"k", "v"} THEN RemoveEntry(n) ELSE n
Cleaned(t) ==
  [tab[t] EXCEPT !.node = [s \in NodeSlots[t] |-> CleanedNode(t, @[s])]]

PropagateMark(o) ==
  /\ gcstate = "propagate"
  /\ o \in gray
  /\ LET found == MarkSet(Refs(o)) IN
       /\ marked' = [Coloured(found) EXCEPT ![o] = TraversedColour(o)]
       /\ gray' = (gray \ {o}) \cup Listed(found)
  /\ grayagain' = grayagain \cup ({o} \cap Threads)
  /\ weak' = IF IsWeak(o) THEN weak \cup {o} ELSE weak
  /\ tab' = [t \in Tables |-> IF t = o THEN Cleaned(t) ELSE tab[t]]
  /\ UNCHANGED <<ud, cl, pr, uv, th, mt, list, finalized, currentwhite, running,
                 collector>>

-----------------------------------------------------------------------------
(* GCSpropagate without gray objects: atomic. Nothing runs between its     *)
(* propagateall calls, so that together they mark the white objects that   *)
(* can be reached from where they start. What the lists hold at the end is *)
(* never read again.                                                       *)

WhiteClosure(S) ==
  {o \in WhiteObj :
     \A X \in SUBSET WhiteObj :
        (WhiteIn(S) \subseteq X /\ \A x \in X : WhiteIn(Refs(x)) \subseteq X) => o \in X}

(* What the lists hold is traversed (again).                               *)
Retraversed == gray \cup grayagain \cup weak
NoRemarkUpvals ==                                            \* mutant
  (UNION {Refs(o) : o \in Retraversed}) \cup {running, mt}
AtomicStart ==
  (UNION {Refs(o) : o \in Retraversed})
    \cup {UpValue(u) : u \in {x \in UpVals : list[x] = "openupval" /\ isgray(x)}}
    \cup {running, mt}

OnlyWithFinalizer(reached) ==                                \* mutant
  {u \in Udata : list[u] = "rootgc" /\ u \in WhiteObj \ reached /\ u \notin finalized
                 /\ HasGC(u)}

(* luaC_separateudata: the userdata that are still white and were not      *)
(* finalized get their bit.                                                *)
Separated(reached) == {u \in Udata : /\ list[u] = "rootgc"
                                     /\ u \in WhiteObj \ reached
                                     /\ u \notin finalized}
PendingForgotten(sep) == {u \in sep : HasGC(u)}              \* mutant

(* Those that have a finalizer join the ones that wait in tmudata.         *)
ToFinalize(sep) ==
  {u \in Udata : list[u] = "tmudata"} \cup {u \in sep : HasGC(u)}

(* iscleared, when only the objects of marks are marked. Strings count as  *)
(* values: they are marked, never cleared.                                 *)
Dead(o, marks) == o \in Obj /\ tt[o] # "string" /\ o \in WhiteObj \ marks
DeadValue(o, marks, fin) == Dead(o, marks) \/ o \in fin
KeysKept(n, marks, fin) == n.val # Nil /\ DeadValue(n.val, marks, fin) \* mutant
DeadEntry(n, marks, fin) ==
  n.val # Nil /\ (Dead(n.key, marks) \/ DeadValue(n.val, marks, fin))

(* A table after its last traversal and, if it is weak, cleartable.        *)
Cleared(t, marks, fin) ==
  [tab[t] EXCEPT
     !.array = [s \in ArraySlots[t] |->
                  IF "v" \in Mode(t) /\ DeadValue(@[s], marks, fin) THEN Nil ELSE @[s]],
     !.node = [s \in NodeSlots[t] |->
                 IF IsWeak(t) /\ DeadEntry(@[s], marks, fin) THEN RemoveEntry(@[s])
                 ELSE CleanedNode(t, @[s])]]
SeenStrings(t, marks) ==
  Strings \cap ( (IF "v" \in Mode(t) THEN ArrayVals(t) ELSE {})
                 \cup NodeKeys(t)
                 \cup {tab[t].node[s].val : s \in {x \in FullNodes(t) :
                                                     ~Dead(tab[t].node[x].key, marks)}} )

Atomic ==
  /\ gcstate = "propagate"
  /\ gray = {}
  /\ LET reached    == WhiteClosure(AtomicStart)
         sep        == Separated(reached)
         tofinalize == ToFinalize(sep)
         \* marktmu, and the propagation after it
         marks      == reached \cup WhiteClosure(tofinalize \cup UNION {Refs(u) : u \in tofinalize})
         traversed  == Retraversed \cup Listed(marks)
         weaktabs   == {t \in traversed : IsWeak(t)}
         seen       == WhiteIn(UNION {SeenStrings(t, marks) : t \in weaktabs})
     IN  /\ marked' = [o \in Obj |-> IF o \in tofinalize THEN "black"
                                     ELSE IF o \in traversed THEN TraversedColour(o)
                                     ELSE IF o \in marks THEN MarkColour(o)
                                     ELSE IF o \in seen THEN "gray"
                                     ELSE marked[o]]
         /\ list' = [o \in Obj |-> IF o \in tofinalize THEN "tmudata" ELSE list[o]]
         /\ finalized' = finalized \cup sep
         /\ tab' = [t \in Tables |-> IF t \in traversed
                                     THEN Cleared(t, marks, finalized \cup sep) ELSE tab[t]]
         /\ unswept' = {o \in Obj : list[o] = "rootgc"} \ tofinalize
  /\ gray' = {} /\ grayagain' = {} /\ weak' = {}
  /\ currentwhite' = OtherWhite(currentwhite)
  /\ sweepstrgc' = 0
  /\ gcstate' = "sweepstring"
  /\ UNCHANGED <<ud, cl, pr, uv, th, mt, running, fullgc>>

-----------------------------------------------------------------------------
(* GCSsweepstring and GCSsweep: sweeplist and freeobj. A freed block keeps *)
(* nothing.                                                                *)

SurvivorsKeepMarks(S) ==                                     \* mutant
  /\ marked' = [o \in Obj |-> IF o \in S /\ isdead(o) THEN "white0" ELSE marked[o]]
  /\ finalized' = finalized \ {o \in S : isdead(o)}

(* The objects of S are swept: the dead are freed, the others turn white.  *)
Swept(S) ==
  /\ marked' = [o \in Obj |-> IF o \notin S THEN marked[o]
                               ELSE IF isdead(o) THEN "white0" ELSE currentwhite]
  /\ finalized' = finalized \ {o \in S : isdead(o)}

SweepString ==
  /\ gcstate = "sweepstring"
  /\ LET bucket == {s \in Strings : list[s] = "strt" /\ Bucket[s] = sweepstrgc} IN
       /\ Swept(bucket)
       /\ list' = [o \in Obj |-> IF o \in bucket /\ isdead(o) THEN "free" ELSE list[o]]
  /\ sweepstrgc' = sweepstrgc + 1
  /\ gcstate' = IF sweepstrgc + 1 >= NBuckets THEN "sweep" ELSE gcstate
  /\ UNCHANGED <<heap, currentwhite, gray, grayagain, weak, running, unswept, fullgc>>

(* The open upvalues of each thread in S are swept before the thread; a    *)
(* dead thread then closes those that survive (luaE_freethread).           *)
OpenUpvals(h) == {u \in UpVals : list[u] = "openupval" /\ uv[u].owner = h}
EndsOneEarly(S) == Cardinality(unswept \ S) <= 1             \* mutant
SweepEnds(S) == unswept \subseteq S

Sweep(S) ==
  /\ gcstate = "sweep"
  /\ S # {} /\ S \subseteq unswept /\ Cardinality(S) <= GCSWEEPMAX
  /\ LET all     == S \cup UNION {OpenUpvals(h) : h \in S \cap Threads}
         dead    == {o \in all : isdead(o)}
         orphans == (UNION {OpenUpvals(h) : h \in dead \cap Threads}) \ dead
     IN  /\ Swept(all)
         /\ list' = [o \in Obj |-> IF o \in dead THEN "free"
                                   ELSE IF o \in orphans THEN "rootgc" ELSE list[o]]
         /\ tab' = [t \in Tables |-> IF t \in dead THEN EmptyTable(t) ELSE tab[t]]
         /\ ud' = [u \in Udata |-> IF u \in dead THEN NoUdata ELSE ud[u]]
         /\ cl' = [c \in Closures |-> IF c \in dead THEN NoClosure ELSE cl[c]]
         /\ pr' = [p \in Protos |-> IF p \in dead THEN NoConsts ELSE pr[p]]
         /\ th' = [h \in Threads |-> IF h \in dead THEN NewThreadRec(Nil) ELSE th[h]]
         /\ uv' = [u \in UpVals |->
                     IF u \in dead THEN NoUpVal
                     ELSE IF u \in orphans THEN [NoUpVal EXCEPT !.value = UpValue(u)]
                     ELSE uv[u]]
  /\ unswept' = unswept \ S
  /\ gcstate' = IF SweepEnds(S) THEN "finalize" ELSE gcstate
  /\ UNCHANGED <<mt, currentwhite, gray, grayagain, weak, running, sweepstrgc, fullgc>>

-----------------------------------------------------------------------------
(* GCSfinalize: GCTM, one userdata at a time.                              *)

(* The userdata returns to the root list, white, and its finalizer, if its *)
(* metatable still has one, is called on L with the userdata as argument.  *)
GCTM(u) ==
  /\ gcstate = "finalize" /\ ~fullgc
  /\ list[u] = "tmudata"
  /\ list' = [list EXCEPT ![u] = "rootgc"]
  /\ marked' = [marked EXCEPT ![u] = currentwhite]
  /\ th' = [th EXCEPT ![running].gctm = IF HasGC(u) THEN @ \cup {u} ELSE @]
  /\ UNCHANGED <<tab, ud, cl, pr, uv, mt, finalized, currentwhite,
                 gray, grayagain, weak, running, collector>>

(* The finalizer returns. It may have run the collector and the program.   *)
FinalizerReturn(u) ==
  /\ ~fullgc
  /\ u \in th[running].gctm
  /\ th' = [th EXCEPT ![running].gctm = @ \ {u}]
  /\ UNCHANGED <<tab, ud, cl, pr, uv, mt, list, colours, finalized, 
                 currentwhite, weak, running, collector>>

EndWithPending ==                                            \* mutant
  /\ gcstate = "finalize" /\ ~fullgc
  /\ gcstate' = "pause"
  /\ UNCHANGED <<heap, list, colours, finalized, currentwhite, weak,
                 running, sweepstrgc, unswept, fullgc>>

EndCycle ==
  /\ gcstate = "finalize" /\ ~fullgc
  /\ \A u \in Udata : list[u] # "tmudata"
  /\ gcstate' = "pause"
  /\ UNCHANGED <<heap, list, colours, finalized, currentwhite, weak,
                 running, sweepstrgc, unswept, fullgc>>

-----------------------------------------------------------------------------
(* luaC_fullgc: abandon the marks and sweep all, or finish the sweep that  *)
(* is pending, with nothing running in between; then mark from the roots,  *)
(* leaving in tmudata what is there. The collection that follows is one    *)
(* that single steps could have made.                                      *)

FullGC ==
  /\ ~fullgc
  /\ fullgc' = TRUE
  /\ IF gcstate \in {"pause", "propagate"}
     THEN /\ sweepstrgc' = 0
          /\ unswept' = {o \in Obj : list[o] = "rootgc"}
          /\ gray' = {} /\ grayagain' = {} /\ weak' = {}
          /\ gcstate' = "sweepstring"
     ELSE UNCHANGED <<sweepstrgc, unswept, gray, grayagain, weak, gcstate>>
  /\ UNCHANGED <<heap, list, marked, finalized, currentwhite, running>>

FullMark ==
  /\ fullgc /\ gcstate = "finalize"
  /\ MarkRoot
  /\ fullgc' = FALSE

CollectorStep ==
  \/ StartCycle
  \/ \E o \in gray : PropagateMark(o)
  \/ Atomic
  \/ SweepString
  \/ \E S \in SUBSET unswept : Sweep(S)
  \/ \E u \in Udata : GCTM(u)
  \/ EndCycle
  \/ FullMark
=============================================================================
