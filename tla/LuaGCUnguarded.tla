--------------------------- MODULE LuaGCUnguarded ---------------------------
(***************************************************************************)
(* Three more operations of the program, kept apart from LuaGC because     *)
(* they break its invariants: two store into objects the collector may     *)
(* have blackened, with a barrier on another object or without one, and    *)
(* one erases the reference that keeps an active coroutine alive.          *)
(***************************************************************************)
EXTENDS LuaGC

(* lua_setupvalue on a Lua function: the value goes to the upvalue, which  *)
(* other closures may share; the barrier is on the closure.                *)
SetUpvalue(f, v) ==
  /\ cl[f].upvalue # Nil
  /\ LET u == cl[f].upvalue IN
       IF IsOpen(u)
       THEN /\ th' = [th EXCEPT ![uv[u].owner].stack[uv[u].level] = v]
            /\ UNCHANGED uv
       ELSE /\ uv' = [uv EXCEPT ![u].value = v]
            /\ UNCHANGED th
  /\ BarrierForward(f, v, Propagating)
  /\ UNCHANGED <<tab, ud, cl, pr, mt, list, running>>

(* LoadConstants of luaU_undump: a string read from a binary chunk goes    *)
(* straight into the prototype, which sits in register i. The reader may   *)
(* be a Lua function (luaB_load), so that the collector runs in between.   *)
UndumpConst(i, n, s) ==
  /\ Reg(i) \in Protos /\ pr[Reg(i)][n] = Nil
  /\ \/ Link(s, "strt")
     \/ /\ list[s] = "strt"
        /\ marked' = [marked EXCEPT ![s] = Revived(@)]
        /\ UNCHANGED <<list, gray, grayagain>>
  /\ pr' = [pr EXCEPT ![Reg(i)][n] = s]
  /\ UNCHANGED <<tab, ud, cl, uv, th, mt, running>>

(* resume_error on a normal coroutine h. auxresume lets it through because *)
(* coroutine.resume still has the thread it resumed among its arguments;   *)
(* the top goes back to their base, the message takes the slot and is      *)
(* moved to register i. (Where h waits in auxwrap there are no arguments,  *)
(* and auxresume refuses it itself.)                                       *)
ResumeNormal(h, i) ==
  /\ h # running /\ th[h].resuming # Nil
  /\ th' = [th EXCEPT ![h].resuming = Nil, ![running].stack[i] = Nil]
  /\ UNCHANGED <<tab, ud, cl, pr, uv, mt, list, colours, running>>

DebugLibrary ==
  /\ ~fullgc
  /\ \E f \in Held \cap LClosures, v \in Held \cup {Nil} : SetUpvalue(f, v)
  /\ UNCHANGED gcvars

Undump ==
  /\ ~fullgc
  /\ \E i \in StackSlots, n \in ConstSlots, s \in Strings : UndumpConst(i, n, s)
  /\ UNCHANGED gcvars

ResumeRefused ==
  /\ ~fullgc
  /\ \E h \in (Held \cap Threads) \ {Main}, i \in StackSlots : ResumeNormal(h, i)
  /\ UNCHANGED gcvars

UndumpSpec == Init /\ [][Next \/ Undump]_vars
=============================================================================
