--------------------------- MODULE LuaGCLiveness ----------------------------
(***************************************************************************)
(* What the collector of LuaGC must get done, under the fairness that the  *)
(* pace of the collector justifies.                                        *)
(***************************************************************************)
EXTENDS LuaGC

(* The program allocates again and again, and luaC_checkGC then runs the   *)
(* collector: its steps are never put off for ever. Full collections are   *)
(* left out, as each of them ends a cycle by itself.                       *)
LiveSpec == Init /\ [][Program \/ Collect]_vars /\ WF_vars(CollectorStep)

(* What the program can reach, with the userdata that wait to be finalized.*)
Reachable ==
  LET RECURSIVE Grow(_)
      Grow(S) == LET T == S \cup UNION {Refs(o) : o \in S} IN IF T = S THEN S ELSE Grow(T)
  IN  Grow(Roots \cup {u \in Udata : list[u] = "tmudata"})

(* Whatever becomes unreachable is freed, unless it is found again first   *)
(* (a string interned anew, a value read from a weak table).               *)
GarbageIsFreed ==
  \A o \in Obj \ Fixed :
    (list[o] # "free" /\ o \notin Reachable) ~> (list[o] = "free" \/ o \in Reachable)

(* Every userdata that was separated gets its finalizer called.            *)
FinalizersRun ==
  \A u \in Udata : list[u] = "tmudata" ~> list[u] = "rootgc"
=============================================================================
