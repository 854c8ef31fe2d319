------------------------------ MODULE MCUpvals ------------------------------
(***************************************************************************)
(* LuaGC with Lua closures that capture registers, starting from the main  *)
(* thread running one of them. Prototypes are left out.                    *)
(***************************************************************************)
EXTENDS LuaGCUnguarded, TLC

CONSTANTS L, G, c1, c2, u1, u2

MCObj == {L, G, c1, c2, u1, u2}
MCtt == [o \in MCObj |-> IF o = L THEN "thread"
                       ELSE IF o = G THEN "table"
                       ELSE IF o \in {u1, u2} THEN "upval" ELSE "function"]
MCBucket == [s \in {} |-> 0]
MCArraySlots == [t \in {G} |-> {}]
MCNodeSlots == [t \in {G} |-> {}]
MCMetas == [o \in {G, Nil} |-> {}]
Symm == Permutations({u1, u2})

(* The initial state after a chunk was loaded.                             *)
ChunkInit ==
  /\ list = [o \in Obj |-> IF o \in {L, G, c1} THEN "rootgc" ELSE "free"]
  /\ marked = [o \in Obj |-> "white0"]
  /\ finalized = {}
  /\ currentwhite = "white0"
  /\ gray = {} /\ grayagain = {} /\ weak = {}
  /\ tab = [t \in Tables |-> EmptyTable(t)]
  /\ ud = [o \in Udata |-> NoUdata]
  /\ cl = [c \in Closures |-> [NoClosure EXCEPT !.env = IF c = c1 THEN G ELSE Nil]]
  /\ pr = [p \in Protos |-> NoConsts]
  /\ uv = [u \in UpVals |-> NoUpVal]
  /\ th = [o \in Threads |-> [NewThreadRec(G) EXCEPT !.stack[1] = c1]]
  /\ mt = Nil
  /\ running = L
  /\ CollectorInit
ChunkSpec == ChunkInit /\ [][Next]_vars
DebugSpec == ChunkInit /\ [][Next \/ DebugLibrary]_vars
=============================================================================
