------------------------------- MODULE MCLive -------------------------------
(***************************************************************************)
(* LuaGC under fairness: a root table G, which is also the metatable of    *)
(* the userdata u1 and may have a finalizer, and a table t.                *)
(***************************************************************************)
EXTENDS LuaGCLiveness

CONSTANTS L, G, u1, t

MCObj == {L, G, u1, t}
MCtt == [o \in MCObj |-> IF o = L THEN "thread"
                         ELSE IF o = u1 THEN "userdata" ELSE "table"]
MCBucket == [s \in {} |-> 0]
MCArraySlots == [x \in {G, t} |-> IF x = G THEN {1} ELSE {}]
MCNodeSlots == [x \in {G, t} |-> {}]
MCMetas == [o \in {G, t, u1, Nil} |-> IF o = u1 THEN {G} ELSE {}]
=============================================================================
