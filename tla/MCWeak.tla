------------------------------- MODULE MCWeak -------------------------------
(***************************************************************************)
(* LuaGC with one root table w, the registry and the table of globals,     *)
(* that the metatable m makes weak in any way, and strong again, an object *)
(* x and a string s to put in it.                                          *)
(***************************************************************************)
EXTENDS LuaGC

CONSTANTS L, w, m, x, s

MCObj == {L, w, m, x, s}
MCtt == [o \in MCObj |-> IF o = L THEN "thread"
                         ELSE IF o = s THEN "string" ELSE "table"]
MCBucket == [o \in {s} |-> 0]
MCArraySlots == [t \in {w, m, x} |-> {}]
MCNodeSlots == [t \in {w, m, x} |-> IF t = w THEN {1} ELSE {}]
MCMetas == [o \in {w, m, x, Nil} |-> IF o = w THEN {m} ELSE {}]
MCModes == {{}, {"k"}, {"v"}, {"k", "v"}}
=============================================================================
