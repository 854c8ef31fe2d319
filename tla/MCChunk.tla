------------------------------ MODULE MCChunk -------------------------------
(***************************************************************************)
(* LuaGC with blocks for two kinds of objects, used at different times.    *)
(* While chunks are loaded: a prototype, a string for a constant of it, a  *)
(* Lua closure, and a C closure that keeps a value in its upvalue. And a   *)
(* userdata with its metatable, with or without a finalizer, which may     *)
(* resurrect it into a register.                                           *)
(***************************************************************************)
EXTENDS LuaGCUnguarded

CONSTANTS L, G, p, f, c, s, m, u1

MCObj == {L, G, p, f, c, s, m, u1}
MCtt == [o \in MCObj |-> IF o = L THEN "thread"
                         ELSE IF o \in {G, m} THEN "table"
                         ELSE IF o = p THEN "proto"
                         ELSE IF o = s THEN "string"
                         ELSE IF o = u1 THEN "userdata"
                         ELSE IF o = c THEN "cfunction" ELSE "function"]
MCBucket == [x \in {s} |-> 1]
MCArraySlots == [t \in {G, m} |-> {}]
MCNodeSlots == [t \in {G, m} |-> {}]
MCMetas == [o \in {G, m, u1, Nil} |-> IF o \in {u1, Nil} THEN {m} ELSE {}]

(* One kind of blocks at a time.                                           *)
OneKind == Allocated \cap {m, u1} = {} \/ Allocated \cap {p, f, c, s} = {}
=============================================================================
