----------------------------- MODULE MCThreads ------------------------------
(***************************************************************************)
(* LuaGC with coroutines. From YieldInit: a main thread L and two of them. *)
(* L has resumed A, which has created B, kept it in its register and       *)
(* yielded; a closure c that captures this register is in the table of     *)
(* globals G. From ChainInit, with a third one: L has resumed A, A has     *)
(* resumed B, and B has resumed C, each as it was created and without      *)
(* keeping it elsewhere; A has passed itself on.                           *)
(***************************************************************************)
EXTENDS LuaGCUnguarded

CONSTANTS Coroutines, L, G, A, B, C, c, u1

MCObj == Coroutines \cup {L, G, c, u1}
MCtt == [o \in MCObj |-> IF o \in Coroutines \cup {L} THEN "thread"
                         ELSE IF o = G THEN "table"
                         ELSE IF o = u1 THEN "upval" ELSE "function"]
MCBucket == [s \in {} |-> 0]
MCArraySlots == [x \in {G} |-> {1}]
MCNodeSlots == [x \in {G} |-> {}]
MCMetas == [o \in {G, Nil} |-> {}]

(* What both have in common: everything is of the first white.             *)
WhiteInit ==
  /\ marked = [o \in Obj |-> "white0"]
  /\ finalized = {}
  /\ currentwhite = "white0"
  /\ gray = {} /\ grayagain = {} /\ weak = {}
  /\ ud = [o \in Udata |-> NoUdata]
  /\ pr = [p \in Protos |-> NoConsts]
  /\ mt = Nil
  /\ CollectorInit

YieldInit ==
  /\ list = [o \in Obj |-> IF o = u1 THEN "openupval" ELSE "rootgc"]
  /\ tab = [x \in Tables |-> [EmptyTable(G) EXCEPT !.array[1] = c]]
  /\ cl = [f \in Closures |-> [env |-> G, p |-> Nil, upvalue |-> u1]]
  /\ uv = [x \in UpVals |-> [owner |-> A, level |-> 1, value |-> Nil]]
  /\ th = [o \in Threads |->
             [NewThreadRec(G) EXCEPT !.stack[1] = IF o = L THEN A ELSE IF o = A THEN B ELSE Nil]]
  /\ running = L
  /\ WhiteInit

ChainInit ==
  /\ list = [o \in Obj |-> IF o \in {c, u1} THEN "free" ELSE "rootgc"]
  /\ tab = [x \in Tables |-> EmptyTable(G)]
  /\ cl = [f \in Closures |-> NoClosure]
  /\ uv = [x \in UpVals |-> NoUpVal]
  /\ th = [o \in Threads |->
             [NewThreadRec(G) EXCEPT
                !.resuming = IF o = L THEN A ELSE IF o = A THEN B ELSE IF o = B THEN C ELSE Nil,
                !.resumer = IF o = A THEN L ELSE IF o = B THEN A ELSE IF o = C THEN B ELSE Nil,
                !.stack[1] = IF o = C THEN A ELSE Nil]]
  /\ running = C
  /\ WhiteInit

(* No closure is created and none is closed by its function; full          *)
(* collections are left out, and blocks of coroutines that were freed are  *)
(* used again once the closure is gone.                                    *)
Switching ==
  /\ ~fullgc
  /\ \/ \E i \in StackSlots, v \in Readable \cup {Nil} : Load(i, v)
     \/ list[c] = "free" /\ \E h \in Threads, i \in StackSlots : NewThread(h, i)
     \/ Stores
     \/ Switches
  /\ UNCHANGED gcvars
YieldSpec == YieldInit /\ [][Switching \/ Collect]_vars
RefusedSpec == ChainInit /\ [][Switching \/ Collect \/ ResumeRefused]_vars
=============================================================================
