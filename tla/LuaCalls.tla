------------------------------ MODULE LuaCalls ------------------------------
(***************************************************************************)
(* Calls, protected calls, errors and coroutines: ldo.cpp with the         *)
(* functions of lbaselib.cpp that reach it.                                *)
(*                                                                         *)
(* Two stacks grow side by side.  Every thread has its CallInfo array ci,  *)
(* and all threads share the C stack: cstack holds the activations of C    *)
(* functions that matter here, each with the thread it works for and what  *)
(* it keeps in its locals to put back later.  An error unwinds the C stack *)
(* to the last protected activation, whatever the threads look like.       *)
(*                                                                         *)
(* Programs are arbitrary: the Lua function that runs may at any time call *)
(* any function, return, raise an error, or trigger a tag method, a hook   *)
(* or a finalizer.  Values are left out.                                   *)
(***************************************************************************)
EXTENDS Integers, Sequences, FiniteSets, FiniteSetsExt, SequencesExt

CONSTANTS MainThread, Coroutines,
          BASIC_CI_SIZE, LUAI_MAXCALLS,    \* CallInfos: at the start, at most
          LUAI_MAXCCALLS, CCallMargin,     \* nested C calls, and more for handlers (an eighth)
          MaxNested, MaxLua                \* bounds: nested calls and resumes before a C call,
                                           \* Lua frames in a luaV_execute

ASSUME ThreadsAssumption == MainThread \notin Coroutines
ASSUME LimitsAssumption ==
    /\ BASIC_CI_SIZE \in Nat \ {0, 1} /\ LUAI_MAXCALLS \in Nat /\ BASIC_CI_SIZE <= LUAI_MAXCALLS
    /\ LUAI_MAXCCALLS \in Nat \ {0, 1} /\ CCallMargin \in Nat

VARIABLES thread,   \* the threads, as far as calls go
          cstack,   \* the C stack
          todo,     \* what the activation on top does next
          over      \* history: the coroutines whose body has returned or failed

callsVars == <<thread, cstack, todo, over>>
AllThreads == Coroutines \union {MainThread}

(***************************************************************************)
(* Threads.  ci is the number of frames above base_ci, size_ci counts      *)
(* base_ci too; values is lua_gettop at the base level.                    *)
(***************************************************************************)
NewThread == [status |-> "ok", ci |-> 0, size_ci |-> BASIC_CI_SIZE, nCcalls |-> 0,
              allowhook |-> TRUE, errfunc |-> 0, values |-> 1]

\* What a Lua function may call: a Lua function, or one of the C functions.
Functions == ({"lua", "pcall", "xpcall", "yield"} \X {MainThread})
             \union ({"resume", "wrap"} \X Coroutines)
Lua == <<"lua", MainThread>>
TagMethods == {Lua, <<"yield", MainThread>>}

Execute(t, n)    == [k |-> "execute", t |-> t, n |-> n]       \* luaV_execute, nexeccalls
InCall(t)        == [k |-> "call", t |-> t]                   \* luaD_call
InC(t, f)        == [k |-> "cfunction", t |-> t, f |-> f]     \* a C function
Protected(t)     == [k |-> "pcall", t |-> t, ci |-> thread[t].ci, nCcalls |-> thread[t].nCcalls,
                     allowhook |-> thread[t].allowhook, errfunc |-> thread[t].errfunc]
Resuming(t)      == [k |-> "resume", t |-> t]                 \* lua_resume
InHook(t)        == [k |-> "hook", t |-> t]                   \* luaD_callhook
Finalizing(t, b) == [k |-> "gctm", t |-> t, allowhook |-> b]  \* GCTM
Handling(t)      == [k |-> "errormsg", t |-> t]               \* luaG_errormsg

Top == Last(cstack)
L == Top.t                                    \* the running thread
Room == Cardinality({i \in DOMAIN cstack : cstack[i].k \in {"call", "resume"}}) < MaxNested
Running(k) == todo = "run" /\ Top.k = k
Goes(what) == todo' = what

\* The activation on top of cs goes on: luaV_execute runs, the others return in turn.
BackTo(cs) ==
    /\ cstack' = cs
    /\ Goes(IF cs # <<>> /\ Last(cs).k = "execute" THEN "run" ELSE "return")

(***************************************************************************)
(* Calls.                                                                  *)
(***************************************************************************)
\* luaG_errormsg, in a thread in state r: is there a handler to call before the throw?
Raised(r) == IF r.errfunc = 0 THEN "errrun" ELSE "error"

\* inc_ci and growCI: the thread with one more frame, and the error if it has none.
Entered(r) == [r |-> [r EXCEPT !.ci = @ + 1], next |-> "run"]

Unlimited(r) ==              \* mutant: the limit is not looked at
    IF r.ci + 1 < r.size_ci THEN Entered(r) ELSE Entered([r EXCEPT !.size_ci = 2 * @])

IncCI(r) ==
    LET grown == [r EXCEPT !.size_ci = 2 * @]
    IN  CASE r.ci + 1 < r.size_ci -> Entered(r)
          [] r.ci + 1 = r.size_ci /\ r.size_ci > LUAI_MAXCALLS -> [r |-> r, next |-> "errerr"]
          [] r.ci + 1 = r.size_ci /\ r.size_ci <= LUAI_MAXCALLS ->
               IF grown.size_ci > LUAI_MAXCALLS THEN [r |-> grown, next |-> Raised(r)]
               ELSE Entered(grown)

\* luaD_call of f for a thread that is in state r, from the C stack cs.
NotCounted(t, r, cs, f) ==      \* mutant: the counter forgets the call
    LET i == IncCI(r)
    IN  /\ thread' = [thread EXCEPT ![t] = i.r]
        /\ cstack' = cs \o <<InCall(t)>>
                        \o (IF i.next # "run" THEN <<>>
                            ELSE <<IF f = Lua THEN Execute(t, 1) ELSE InC(t, f)>>)
        /\ Goes(i.next)

DCall(t, r, cs, f) ==
    LET counted == [r EXCEPT !.nCcalls = @ + 1]
        i == IF counted.nCcalls = LUAI_MAXCCALLS THEN [r |-> counted, next |-> Raised(r)]
             ELSE IF counted.nCcalls >= LUAI_MAXCCALLS + CCallMargin
                  THEN [r |-> counted, next |-> "errerr"]
                  ELSE IncCI(counted)
    IN  /\ thread' = [thread EXCEPT ![t] = i.r]
        /\ cstack' = cs \o <<InCall(t)>>
                        \o (IF i.next # "run" THEN <<>>
                            ELSE <<IF f = Lua THEN Execute(t, 1) ELSE InC(t, f)>>)
        /\ Goes(i.next)

\* OP_CALL: a Lua function runs in the same luaV_execute.
Call(f) ==
    /\ Running("execute")
    /\ f = Lua => Top.n < MaxLua
    /\ f[1] \in {"pcall", "xpcall"} => Room
    /\ LET i == IncCI(thread[L])
       IN  /\ thread' = [thread EXCEPT ![L] = i.r]
           /\ cstack' = CASE i.next # "run" -> cstack
                          [] i.next = "run" /\ f = Lua -> [cstack EXCEPT ![Len(cstack)].n = @ + 1]
                          [] OTHER -> Append(cstack, InC(L, f))
           /\ Goes(i.next)
    /\ UNCHANGED over

\* OP_TAILCALL of a Lua function: its new frame is moved over the old one.
TailCall ==
    /\ Running("execute")
    /\ LET i == IncCI(thread[L])
       IN  /\ thread' = [thread EXCEPT ![L] = IF i.next = "run" THEN [i.r EXCEPT !.ci = @ - 1]
                                                                ELSE i.r]
           /\ Goes(i.next)
    /\ UNCHANGED <<cstack, over>>

\* OP_RETURN leaves luaV_execute when the frame was entered by C.
Return ==
    /\ Running("execute")
    /\ thread' = [thread EXCEPT ![L].ci = @ - 1]
    /\ BackTo(IF Top.n = 1 THEN Front(cstack) ELSE [cstack EXCEPT ![Len(cstack)].n = @ - 1])
    /\ UNCHANGED over

\* Arithmetic, comparison and indexing may call a tag method.
TagMethod(f) == Running("execute") /\ Room /\ DCall(L, thread[L], cstack, f) /\ UNCHANGED over

\* luaD_callhook, with a hook that calls a Lua function as hookf of ldblib.cpp does.
Hook ==
    /\ Running("execute") /\ Room
    /\ thread[L].allowhook
    /\ DCall(L, [thread[L] EXCEPT !.allowhook = FALSE], Append(cstack, InHook(L)), Lua)
    /\ UNCHANGED over

\* GCTM, from any instruction that may run a step of the collector.
Finalizer ==
    /\ Running("execute") /\ Room
    /\ DCall(L, [thread[L] EXCEPT !.allowhook = FALSE],
             Append(cstack, Finalizing(L, thread[L].allowhook)), Lua)
    /\ UNCHANGED over

Error == Running("execute") /\ Goes(Raised(thread[L])) /\ UNCHANGED <<thread, cstack, over>>

(***************************************************************************)
(* The C functions.                                                        *)
(***************************************************************************)
\* luaB_pcall and luaB_xpcall.  The handler is in the frame of xpcall.
PCall(f) ==
    /\ Running("cfunction") /\ Top.f[1] \in {"pcall", "xpcall"}
    /\ LET handler == IF Top.f[1] = "xpcall" THEN thread[L].ci ELSE 0
       IN  DCall(L, [thread[L] EXCEPT !.errfunc = handler], Append(cstack, Protected(L)), f)
    /\ UNCHANGED over

\* lua_yield, and luaV_execute returns.  The frame of yield stays.
Yield ==
    /\ Running("cfunction") /\ Top.f[1] = "yield" /\ thread[L].nCcalls = 0
    /\ thread' = [thread EXCEPT ![L].status = "yield"]
    /\ BackTo(Front(Front(cstack)))
    /\ UNCHANGED over

YieldRefused ==
    /\ Running("cfunction") /\ Top.f[1] = "yield" /\ thread[L].nCcalls > 0
    /\ Goes(Raised(thread[L]))
    /\ UNCHANGED <<thread, cstack, over>>

\* auxresume and lua_resume: what a coroutine must be to be resumed.
Unchecked(r) == r.status \in {"ok", "yield"}     \* mutant: a running coroutine may be resumed

CanResume(r) ==
    /\ ~(r.status = "ok" /\ r.ci = 0 /\ r.values = 0)
    /\ r.status = "yield" \/ (r.status = "ok" /\ r.ci = 0)

\* The frames that the new luaV_execute runs before it returns to resume.
OneFrame(r) == 1                                 \* mutant

ResumedFrames(r) == r.ci

\* resume: the body starts, or the interrupted OP_CALL of yield is completed. A coroutine
\* that is over but kept results has the last of them called as a body, if it is a Lua
\* function (a C function there is left out, as luaB_cocreate refuses one).
Resume ==
    /\ Running("cfunction") /\ Top.f[1] \in {"resume", "wrap"}
    /\ LET co == Top.f[2]
           r == thread[co]
           i == IF r.status # "yield" THEN IncCI([r EXCEPT !.values = 0])
                ELSE [r |-> [r EXCEPT !.ci = @ - 1], next |-> "run"]
           running == [i.r EXCEPT !.status = "ok"]
       IN  /\ CanResume(r)
           /\ thread' = [thread EXCEPT ![co] = running]
           /\ cstack' = cstack \o <<Resuming(co), Execute(co, ResumedFrames(running))>>
           /\ Goes(i.next)
           /\ over' = over \ {co}

\* What a coroutine has on its stack that is over, because resume could not move it.
KeptResults(t) == t \in over /\ thread[t].status = "ok" /\ thread[t].values # 0

\* The last of them cannot be called: luaG_typeerror in the coroutine, caught by lua_resume.
ResumeUncallable ==
    /\ Running("cfunction") /\ Top.f[1] \in {"resume", "wrap"}
    /\ KeptResults(Top.f[2]) /\ CanResume(thread[Top.f[2]])
    /\ thread' = [thread EXCEPT ![Top.f[2]].status = "errrun"]
    /\ Goes(IF Top.f[1] = "wrap" THEN Raised(thread[L]) ELSE "return")
    /\ UNCHANGED <<cstack, over>>

\* auxresume: no room in the coroutine for the arguments, whatever its state. The error is
\* raised in the thread that resumes.
TooManyArguments ==
    /\ Running("cfunction") /\ Top.f[1] \in {"resume", "wrap"}
    /\ Goes(Raised(thread[L]))
    /\ UNCHANGED <<thread, cstack, over>>

\* The error is a result of resume; wrap raises it.
ResumeRefused ==
    /\ Running("cfunction") /\ Top.f[1] \in {"resume", "wrap"}
    /\ ~CanResume(thread[Top.f[2]])
    /\ IF Top.f[1] = "wrap" THEN Goes(Raised(thread[L])) /\ UNCHANGED <<thread, cstack>>
       ELSE /\ thread' = [thread EXCEPT ![L].ci = @ - 1]
            /\ BackTo(Front(cstack))
    /\ UNCHANGED over

(***************************************************************************)
(* Returning to the activation that called.                                *)
(***************************************************************************)
Leaves(k) == todo = "return" /\ cstack # <<>> /\ Top.k = k /\ BackTo(Front(cstack))

LeaveCall ==
    /\ Leaves("call")
    /\ thread' = [thread EXCEPT ![L].nCcalls = @ - 1]
    /\ UNCHANGED over

\* luaD_poscall after a C function.
LeaveC ==
    /\ Leaves("cfunction")
    /\ thread' = [thread EXCEPT ![L].ci = @ - 1]
    /\ UNCHANGED over

HandlerKept(r, a) == r                           \* mutant

HandlerBack(r, a) == [r EXCEPT !.errfunc = a.errfunc]

\* luaD_pcall without an error.
LeavePCall ==
    /\ Leaves("pcall")
    /\ thread' = [thread EXCEPT ![L] = HandlerBack(@, Top)]
    /\ UNCHANGED over

LeaveHook ==
    /\ Leaves("hook")
    /\ thread' = [thread EXCEPT ![L].allowhook = TRUE]
    /\ UNCHANGED over

LeaveFinalizer ==
    /\ Leaves("gctm")
    /\ thread' = [thread EXCEPT ![L].allowhook = Top.allowhook]
    /\ UNCHANGED over

\* lua_resume: the coroutine has yielded, or its body has returned.
LeaveResume ==
    /\ Leaves("resume")
    /\ over' = IF thread[L].status = "ok" THEN over \union {L} ELSE over
    /\ UNCHANGED thread

\* auxresume: no room in the resuming thread for what the coroutine returned or yielded,
\* which stays where it is. The error is raised in the resuming thread.
TooManyResults ==
    /\ todo = "return" /\ cstack # <<>> /\ Top.k = "resume"
    /\ cstack' = Front(cstack)
    /\ Goes(Raised(thread[Last(cstack').t]))
    /\ IF thread[L].status = "ok"
       THEN over' = over \union {L} /\ thread' = [thread EXCEPT ![L].values = 1]
       ELSE UNCHANGED <<thread, over>>

\* The handler has returned: the error goes on.
LeaveHandler ==
    /\ todo = "return" /\ cstack # <<>> /\ Top.k = "errormsg"
    /\ cstack' = Front(cstack) /\ Goes("errrun")
    /\ UNCHANGED <<thread, over>>

(***************************************************************************)
(* Errors.                                                                 *)
(***************************************************************************)
\* luaG_errormsg calls the handler.
ErrorMsg ==
    /\ todo = "error"
    /\ DCall(L, thread[L], Append(cstack, Handling(L)), Lua)
    /\ UNCHANGED over

\* restore_stack_limit
Restored(r) ==
    IF r.size_ci > LUAI_MAXCALLS /\ r.ci + 1 < LUAI_MAXCALLS
    THEN [r EXCEPT !.size_ci = LUAI_MAXCALLS] ELSE r

\* What luaD_pcall puts back after an error.
HooksForgotten(r, a) ==     \* mutant
    Restored([r EXCEPT !.ci = a.ci, !.nCcalls = a.nCcalls, !.errfunc = a.errfunc])

Recovered(r, a) ==
    Restored([r EXCEPT !.ci = a.ci, !.nCcalls = a.nCcalls,
                       !.allowhook = a.allowhook, !.errfunc = a.errfunc])

Catcher == Max({i \in DOMAIN cstack : cstack[i].k \in {"pcall", "resume"}})

\* luaD_throw, caught by luaD_pcall
CaughtByPCall ==
    /\ todo \in {"errrun", "errerr"}
    /\ LET a == cstack[Catcher]
       IN  /\ a.k = "pcall"
           /\ thread' = [thread EXCEPT ![a.t] = Recovered(@, a)]
    /\ BackTo(SubSeq(cstack, 1, Catcher - 1))
    /\ UNCHANGED over

\* luaD_throw, caught by lua_resume: the coroutine is dead.
CaughtByResume ==
    /\ todo \in {"errrun", "errerr"}
    /\ LET a == cstack[Catcher]
           resumer == cstack[Catcher - 1]
       IN  /\ a.k = "resume"
           /\ thread' = [thread EXCEPT ![a.t].status = todo]
           /\ over' = over \union {a.t}
           /\ Goes(IF resumer.f[1] = "wrap" THEN Raised(thread[resumer.t]) ELSE "return")
    /\ cstack' = SubSeq(cstack, 1, Catcher - 1)

(***************************************************************************)
(* The main program runs in a protected call, as luaL_dofile makes it.      *)
(***************************************************************************)
CallsInit ==
    LET start == [NewThread EXCEPT !.ci = 1, !.nCcalls = 1]
    IN  /\ thread = [t \in AllThreads |-> IF t = MainThread THEN start ELSE NewThread]
        /\ cstack = <<[k |-> "pcall", t |-> MainThread, ci |-> 0, nCcalls |-> 0,
                       allowhook |-> TRUE, errfunc |-> 0],
                      InCall(MainThread), Execute(MainThread, 1)>>
        /\ todo = "run"
        /\ over = {}

CallsDone == cstack = <<>> /\ UNCHANGED callsVars

CallsNext ==
    \/ \E f \in Functions : Call(f) \/ PCall(f)
    \/ \E f \in TagMethods : TagMethod(f)
    \/ TailCall \/ Return \/ Hook \/ Finalizer \/ Error
    \/ Yield \/ YieldRefused \/ Resume \/ ResumeRefused \/ ResumeUncallable \/ TooManyArguments
    \/ LeaveCall \/ LeaveC \/ LeavePCall \/ LeaveHook \/ LeaveFinalizer
    \/ LeaveResume \/ TooManyResults \/ LeaveHandler
    \/ ErrorMsg \/ CaughtByPCall \/ CaughtByResume
    \/ CallsDone

CallsSpec == CallsInit /\ [][CallsNext]_callsVars

(***************************************************************************)
(* Properties.                                                             *)
(***************************************************************************)
Of(t, k) == {i \in DOMAIN cstack : cstack[i].t = t /\ cstack[i].k = k}
OnCStack(t) == \E i \in DOMAIN cstack : cstack[i].t = t

\* nCcalls is exact in every thread that can still run, after any errors and
\* yields: a yield is refused when, and only when, a C activation would be lost.
CCallsExact ==
    \A t \in AllThreads \ over : thread[t].nCcalls = Cardinality(Of(t, "call"))

\* The frames that an activation runs.
FramesOf(a) == IF a.k = "execute" THEN 1 .. a.n ELSE IF a.k = "cfunction" THEN {1} ELSE {}

\* The frames of a thread are shared out among the activations that run them:
\* each luaV_execute returns to C at the frame that C entered, also after a
\* coroutine has been resumed by another luaV_execute than the one that yielded.
FramesShared ==
    todo = "run" =>
        \A t \in AllThreads \ over :
            OnCStack(t) =>
                thread[t].ci = Cardinality(UNION {{i} \X FramesOf(cstack[i]) :
                                                     i \in {j \in DOMAIN cstack : cstack[j].t = t}})

\* luaB_costatus, for a coroutine other than the running one
CoStatus(r) ==
    CASE r.status = "yield" -> "suspended"
      [] r.status = "ok" /\ r.ci # 0 -> "normal"
      [] r.status = "ok" /\ r.ci = 0 -> IF r.values = 0 THEN "dead" ELSE "suspended"
      [] OTHER -> "dead"

\* A coroutine's status, worked out from its fields, is what it really is: it is
\* normal if it has an activation, dead if its body is over, and else suspended. With
\* one exception: a coroutine is called suspended after its body has returned, if
\* resume had no room for the results, and until what it kept has been called.
StatusTrue ==
    todo = "run" =>
        \A t \in Coroutines \ {L} :
            CoStatus(thread[t]) = IF OnCStack(t) THEN "normal"
                                  ELSE IF t \in over /\ ~KeptResults(t) THEN "dead"
                                  ELSE "suspended"

\* The handler in force in a thread is that of its innermost protected call, also
\* after calls that returned or failed inside it.
HandlerInForce ==
    todo = "run" =>
        \A t \in AllThreads \ over :
            LET own == Of(t, "pcall")
            IN  thread[t].errfunc # 0 <=>
                    own # {} /\ Max(own) > 1 /\ cstack[Max(own) - 1].f[1] = "xpcall"

\* Hooks are off in a thread exactly while it runs a hook or a finalizer, however
\* these ended.
HooksOffInside ==
    todo = "run" =>
        \A t \in AllThreads \ over :
            thread[t].allowhook = (Of(t, "hook") \union Of(t, "gctm") = {})

\* Overflows.  The frames of a thread fit in its array, which is never more than
\* twice the limit, whatever was grown, halved and undone; and C calls nest
\* beyond their limit only inside a handler of the error.
OverflowContained ==
    \A t \in AllThreads \ over :
        /\ thread[t].ci < thread[t].size_ci
        /\ thread[t].size_ci <= 2 * LUAI_MAXCALLS
        /\ todo = "run" /\ thread[t].nCcalls >= LUAI_MAXCCALLS => Of(t, "errormsg") # {}
=============================================================================
