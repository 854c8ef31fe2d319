--------------------------- MODULE LuaCallsProofs ---------------------------
(***************************************************************************)
(* The properties of LuaCalls, proved for any number of coroutines and any *)
(* limits.                                                                 *)
(*                                                                         *)
(* The argument: what a thread keeps of its calls (nCcalls, ci, allowhook, *)
(* errfunc) is a function of its activations on the C stack, so it agrees  *)
(* with them; and what a protected call saved agrees with the activations  *)
(* below it. An error puts back what was saved and cuts the stack to what  *)
(* was below, so that the thread agrees with its activations again. The    *)
(* activations that an error abandons are all of one thread, because a     *)
(* resume, where another thread begins, catches errors itself.             *)
(***************************************************************************)
EXTENDS LuaCalls, FiniteSetTheorems, TLAPS

(***************************************************************************)
(* What a stack cs, up to its place n, says of a thread t.                 *)
(***************************************************************************)
CallsIn(cs, t, n) == {i \in 1 .. n : cs[i].t = t /\ cs[i].k = "call"}
FramesIn(cs, t, n) == UNION {{i} \X FramesOf(cs[i]) : i \in {j \in 1 .. n : cs[j].t = t}}
HooksOff(cs, t, n) == \E i \in 1 .. n : cs[i].t = t /\ cs[i].k \in {"hook", "gctm"}
InHandler(cs, t, n) == \E i \in 1 .. n : cs[i].t = t /\ cs[i].k = "errormsg"
Handled(cs, t, n) ==
  \E i \in 2 .. n : /\ cs[i].t = t /\ cs[i].k = "pcall" /\ cs[i - 1].f[1] = "xpcall"
                    /\ \A j \in i + 1 .. n : ~(cs[j].t = t /\ cs[j].k = "pcall")

NCalls(cs, t, n) == Cardinality(CallsIn(cs, t, n))
NFrames(cs, t, n) == Cardinality(FramesIn(cs, t, n))

(* A record, of a thread or of a protected call, agrees with it.           *)
Agrees(cs, t, n, r) ==
  /\ r.nCcalls = NCalls(cs, t, n)
  /\ r.allowhook <=> ~HooksOff(cs, t, n)
  /\ r.errfunc # 0 <=> Handled(cs, t, n)
FramesAgree(cs, t, n, r) == r.ci = NFrames(cs, t, n)

(***************************************************************************)
(* The C stack.                                                            *)
(***************************************************************************)
Catches(a) == a.k \in {"pcall", "resume"}

(* The activation at j may be there, above the one at j - 1.               *)
Fits(cs, j) ==
  LET a == cs[j]
      below == cs[j - 1]
  IN  /\ a.k # "resume" => a.t = below.t
      /\ a.k = "resume" => /\ below.k = "cfunction" /\ \A i \in 1 .. j - 1 : cs[i].t # a.t
      /\ a.k = "cfunction" => below.k \in {"execute", "call"}
      /\ a.k = "execute" => below.k \in {"call", "resume"}
      /\ a.k = "pcall" => /\ Agrees(cs, a.t, j - 1, a) /\ FramesAgree(cs, a.t, j - 1, a)
                          /\ a.nCcalls >= LUAI_MAXCCALLS => InHandler(cs, a.t, j - 1)
      /\ a.k = "hook" => ~HooksOff(cs, a.t, j - 1)
      /\ a.k = "gctm" => (a.allowhook <=> ~HooksOff(cs, a.t, j - 1))

(* The main program is at the bottom.                                      *)
AtBottom(a) ==
  a.k = "pcall" /\ a.t = MainThread /\ a.ci = 0 /\ a.nCcalls = 0 /\ a.allowhook /\ a.errfunc = 0

(* What follows for the activations below j: there is one that catches     *)
(* errors, and no thread changes above it; and a thread that is not the    *)
(* one at j has called resume.                                             *)
Below(cs, j) ==
  /\ \E c \in 1 .. j : Catches(cs[c]) /\ \A m \in c + 1 .. j : ~Catches(cs[m])
  /\ \A i \in 1 .. j : (\A m \in i + 1 .. j : cs[m].k # "resume") => cs[i].t = cs[j].t
  /\ \A i \in 1 .. j : cs[i].t # cs[j].t =>
        \E m \in i .. j : cs[m].t = cs[i].t /\ cs[m].k = "cfunction"

Placed(cs, j) == (IF j = 1 THEN AtBottom(cs[j]) ELSE Fits(cs, j)) /\ Below(cs, j)

StackOK(cs) == \A j \in 1 .. Len(cs) : Placed(cs, j)

(***************************************************************************)
(* Types.                                                                  *)
(***************************************************************************)
ThreadStates == [status : {"ok", "yield", "errrun", "errerr"}, ci : Nat, size_ci : Nat,
                 nCcalls : Nat, allowhook : BOOLEAN, errfunc : Nat, values : {0, 1}]

Activations ==
  [k : {"execute"}, t : AllThreads, n : Nat \ {0}] \union [k : {"cfunction"}, t : AllThreads, f : Functions]
    \union [k : {"pcall"}, t : AllThreads, ci : Nat, nCcalls : Nat, allowhook : BOOLEAN, errfunc : Nat]
    \union [k : {"gctm"}, t : AllThreads, allowhook : BOOLEAN]
    \union [k : {"call", "hook", "errormsg"}, t : AllThreads] \union [k : {"resume"}, t : Coroutines]

Errors == {"error", "errrun", "errerr"}

CallsTypeOK ==
  /\ thread \in [AllThreads -> ThreadStates] /\ cstack \in Seq(Activations)
  /\ todo \in {"run", "return"} \union Errors /\ over \subseteq Coroutines

(***************************************************************************)
(* Threads.                                                                *)
(***************************************************************************)
On(cs, t) == \E i \in 1 .. Len(cs) : cs[i].t = t
TopIs(cs, t) == Len(cs) > 0 /\ cs[Len(cs)].t = t

SizeOK(r) == r.ci < r.size_ci /\ 2 <= r.size_ci /\ r.size_ci <= 2 * LUAI_MAXCALLS

(* A thread in state r, when the stack is cs and what is next to do.       *)
Lives(cs, next, t, r) ==
  /\ Agrees(cs, t, Len(cs), r) /\ SizeOK(r)
  /\ r.status # "yield" => FramesAgree(cs, t, Len(cs), r)
  /\ r.nCcalls >= LUAI_MAXCCALLS =>
        InHandler(cs, t, Len(cs)) \/ (next \in Errors /\ TopIs(cs, t))
  /\ t = MainThread => r.status = "ok"
  /\ t # MainThread /\ On(cs, t) =>
        /\ r.values = 0
        /\ \/ r.status = "ok"
           \/ r.status = "yield" /\ r.ci > 1 /\ next = "return" /\ TopIs(cs, t)
                                 /\ cs[Len(cs)].k = "resume"
  /\ t # MainThread /\ ~On(cs, t) =>
        (r.status = "ok" /\ r.values = 1) \/ (r.status = "yield" /\ r.values = 0 /\ r.ci > 1)

(* A coroutine whose body is over. If it returned, it can be started again *)
(* with what it may have kept.                                             *)
Idle(r) == r.nCcalls = 0 /\ r.allowhook /\ r.errfunc = 0 /\ SizeOK(r)
IsOver(cs, t, r) ==
  /\ ~On(cs, t)
  /\ r.status \in {"errrun", "errerr"} \/ (r.status = "ok" /\ r.ci = 0 /\ Idle(r))

ThreadsOK ==
  \A t \in AllThreads : IF t \in over THEN IsOver(cstack, t, thread[t])
                        ELSE Lives(cstack, todo, t, thread[t])

TodoOK ==
  /\ cstack = <<>> => todo = "return"
  /\ todo = "run" => cstack[Len(cstack)].k \in {"execute", "cfunction"}

CallsInv == CallsTypeOK /\ StackOK(cstack) /\ ThreadsOK /\ TodoOK

-----------------------------------------------------------------------------
(* Stacks.                                                                 *)

(* The parts of an activation that are looked at.                          *)
LEMMA ActivationParts ==
  ASSUME NEW a \in Activations
  PROVE  /\ a.t \in AllThreads
         /\ a.k \in {"execute", "cfunction", "pcall", "gctm", "call", "hook", "errormsg", "resume"}
         /\ a.k = "execute" => a.n \in Nat \ {0}
         /\ a.k = "cfunction" => a.f \in Functions
         /\ a.k = "pcall" => /\ a.ci \in Nat /\ a.nCcalls \in Nat /\ a.errfunc \in Nat
                             /\ a.allowhook \in BOOLEAN
         /\ a.k = "gctm" => a.allowhook \in BOOLEAN
         /\ a.k = "resume" => a.t \in Coroutines
BY DEF Activations, AllThreads

(* What a stack says up to n depends on its first n activations only.      *)
LEMMA SamePrefix ==
  ASSUME NEW cs, NEW ds, NEW t, NEW n \in Nat, \A i \in 1 .. n : cs[i] = ds[i]
  PROVE  /\ CallsIn(cs, t, n) = CallsIn(ds, t, n) /\ FramesIn(cs, t, n) = FramesIn(ds, t, n)
         /\ HooksOff(cs, t, n) <=> HooksOff(ds, t, n)
         /\ InHandler(cs, t, n) <=> InHandler(ds, t, n)
         /\ Handled(cs, t, n) <=> Handled(ds, t, n)
<1>1. CallsIn(cs, t, n) = CallsIn(ds, t, n)
  BY DEF CallsIn
<1>2. FramesIn(cs, t, n) = FramesIn(ds, t, n)
  BY DEF FramesIn
<1>3. /\ HooksOff(cs, t, n) <=> HooksOff(ds, t, n)
      /\ InHandler(cs, t, n) <=> InHandler(ds, t, n)
  BY DEF HooksOff, InHandler
<1>4. Handled(cs, t, n) <=> Handled(ds, t, n)
  BY DEF Handled
<1>. QED  BY <1>1, <1>2, <1>3, <1>4

(* What one more activation adds.                                          *)
LEMMA OneMore ==
  ASSUME NEW cs, NEW t, NEW n \in Nat
  PROVE  /\ CallsIn(cs, t, n + 1) = CallsIn(cs, t, n) \union
              (IF cs[n + 1].t = t /\ cs[n + 1].k = "call" THEN {n + 1} ELSE {})
         /\ FramesIn(cs, t, n + 1) = FramesIn(cs, t, n) \union
              (IF cs[n + 1].t = t THEN {n + 1} \X FramesOf(cs[n + 1]) ELSE {})
         /\ HooksOff(cs, t, n + 1) <=>
              HooksOff(cs, t, n) \/ (cs[n + 1].t = t /\ cs[n + 1].k \in {"hook", "gctm"})
         /\ InHandler(cs, t, n + 1) <=>
              InHandler(cs, t, n) \/ (cs[n + 1].t = t /\ cs[n + 1].k = "errormsg")
         /\ Handled(cs, t, n + 1) <=>
              IF cs[n + 1].t = t /\ cs[n + 1].k = "pcall" THEN n > 0 /\ cs[n].f[1] = "xpcall"
              ELSE Handled(cs, t, n)
<1>1. 1 .. n + 1 = (1 .. n) \union {n + 1}
  OBVIOUS
<1>2. CallsIn(cs, t, n + 1) = CallsIn(cs, t, n) \union
        (IF cs[n + 1].t = t /\ cs[n + 1].k = "call" THEN {n + 1} ELSE {})
  BY <1>1 DEF CallsIn
<1>3. FramesIn(cs, t, n + 1) = FramesIn(cs, t, n) \union
        (IF cs[n + 1].t = t THEN {n + 1} \X FramesOf(cs[n + 1]) ELSE {})
  BY <1>1 DEF FramesIn
<1>4. /\ HooksOff(cs, t, n + 1) <=>
           HooksOff(cs, t, n) \/ (cs[n + 1].t = t /\ cs[n + 1].k \in {"hook", "gctm"})
      /\ InHandler(cs, t, n + 1) <=>
           InHandler(cs, t, n) \/ (cs[n + 1].t = t /\ cs[n + 1].k = "errormsg")
  BY <1>1 DEF HooksOff, InHandler
<1>5. Handled(cs, t, n + 1) <=>
        IF cs[n + 1].t = t /\ cs[n + 1].k = "pcall" THEN n > 0 /\ cs[n].f[1] = "xpcall"
        ELSE Handled(cs, t, n)
  <2>1. CASE cs[n + 1].t = t /\ cs[n + 1].k = "pcall"
    BY <2>1 DEF Handled
  <2>2. CASE ~(cs[n + 1].t = t /\ cs[n + 1].k = "pcall")
    <3>1. ASSUME Handled(cs, t, n + 1) PROVE Handled(cs, t, n)
      BY <2>2, <3>1 DEF Handled
    <3>2. ASSUME Handled(cs, t, n) PROVE Handled(cs, t, n + 1)
      BY <2>2, <3>2 DEF Handled
    <3>. QED  BY <2>2, <3>1, <3>2
  <2>. QED  BY <2>1, <2>2
<1>. QED  BY <1>2, <1>3, <1>4, <1>5

(* The frames an activation runs for t.                                    *)
Weight(a, t) ==
  IF a.t # t THEN 0 ELSE IF a.k = "execute" THEN a.n ELSE IF a.k = "cfunction" THEN 1 ELSE 0

(* The sets counted are finite.                                            *)
LEMMA Finite ==
  ASSUME NEW cs, NEW t, NEW n \in Nat, \A i \in 1 .. n : cs[i] \in Activations
  PROVE  /\ IsFiniteSet(CallsIn(cs, t, n)) /\ NCalls(cs, t, n) \in Nat
         /\ IsFiniteSet(FramesIn(cs, t, n)) /\ NFrames(cs, t, n) \in Nat
<1>1. IsFiniteSet(1 .. n)
  BY FS_Interval
<1>2. IsFiniteSet(CallsIn(cs, t, n))
  BY <1>1, FS_Subset DEF CallsIn
<1>. DEFINE I == {i \in 1 .. n : cs[i].t = t}
            F == [i \in I |-> {i} \X FramesOf(cs[i])]
            T == {F[i] : i \in I}
<1>3. IsFiniteSet(I)
  BY <1>1, FS_Subset
<1>4. IsFiniteSet(T)
  <2>1. F \in Surjection(I, T)
    BY DEF Surjection
  <2>. HIDE DEF F, I, T
  <2>. QED  BY <1>3, <2>1, FS_Surjection
<1>5. ASSUME NEW i \in I PROVE IsFiniteSet(F[i])
  <2>1. IsFiniteSet({i}) /\ IsFiniteSet({1}) /\ IsFiniteSet({})
    BY FS_Singleton, FS_EmptySet
  <2>2. IsFiniteSet(FramesOf(cs[i]))
    <3>1. CASE cs[i].k = "execute"
      <4>1. cs[i] \in Activations
        OBVIOUS
      <4>2. cs[i].n \in Int /\ 1 \in Int
        BY <3>1, <4>1, ActivationParts
      <4>3. IsFiniteSet(1 .. cs[i].n)
        BY <4>2, FS_Interval
      <4>. QED  BY <3>1, <4>3 DEF FramesOf
    <3>2. CASE cs[i].k # "execute"
      BY <2>1, <3>2 DEF FramesOf
    <3>. QED  BY <3>1, <3>2
  <2>. QED  BY <2>1, <2>2, FS_Product
<1>6. FramesIn(cs, t, n) = UNION T
  BY DEF FramesIn
<1>7. \A x \in T : IsFiniteSet(x)
  BY <1>5
<1>8. IsFiniteSet(UNION T)
  <2>. HIDE DEF T
  <2>. QED  BY <1>4, <1>7, FS_UNION
<1>. QED  BY <1>2, <1>6, <1>8, FS_CardinalityType DEF NCalls, NFrames

(* One more activation: the counts.                                        *)
LEMMA Counts ==
  ASSUME NEW cs, NEW t, NEW n \in Nat, \A i \in 1 .. n + 1 : cs[i] \in Activations
  PROVE  /\ NCalls(cs, t, n) \in Nat /\ NFrames(cs, t, n) \in Nat
         /\ NCalls(cs, t, n + 1) = NCalls(cs, t, n) +
              (IF cs[n + 1].t = t /\ cs[n + 1].k = "call" THEN 1 ELSE 0)
         /\ NFrames(cs, t, n + 1) = NFrames(cs, t, n) + Weight(cs[n + 1], t)
<1>1. /\ IsFiniteSet(CallsIn(cs, t, n)) /\ NCalls(cs, t, n) \in Nat
      /\ IsFiniteSet(FramesIn(cs, t, n)) /\ NFrames(cs, t, n) \in Nat
  BY Finite
<1>2. /\ n + 1 \notin CallsIn(cs, t, n)
      /\ CallsIn(cs, t, n + 1) = CallsIn(cs, t, n) \union
           (IF cs[n + 1].t = t /\ cs[n + 1].k = "call" THEN {n + 1} ELSE {})
      /\ FramesIn(cs, t, n + 1) = FramesIn(cs, t, n) \union
           (IF cs[n + 1].t = t THEN {n + 1} \X FramesOf(cs[n + 1]) ELSE {})
  <2>1. n + 1 \notin CallsIn(cs, t, n)
    BY DEF CallsIn
  <2>. QED  BY <2>1, OneMore
<1>3. NCalls(cs, t, n + 1) = NCalls(cs, t, n) +
        (IF cs[n + 1].t = t /\ cs[n + 1].k = "call" THEN 1 ELSE 0)
  <2>1. CASE cs[n + 1].t = t /\ cs[n + 1].k = "call"
    BY <1>1, <1>2, <2>1, FS_AddElement DEF NCalls
  <2>2. CASE ~(cs[n + 1].t = t /\ cs[n + 1].k = "call")
    <3>1. CallsIn(cs, t, n + 1) = CallsIn(cs, t, n)
      BY <1>2, <2>2
    <3>. QED  BY <1>1, <2>2, <3>1 DEF NCalls
  <2>. QED  BY <2>1, <2>2
<1>4. NFrames(cs, t, n + 1) = NFrames(cs, t, n) + Weight(cs[n + 1], t)
  <2>. DEFINE a == cs[n + 1]
              F == FramesOf(a)
              N == {n + 1} \X F
  <2>1. CASE a.t # t
    <3>1. FramesIn(cs, t, n + 1) = FramesIn(cs, t, n)
      BY <1>2, <2>1
    <3>. QED  BY <1>1, <2>1, <3>1 DEF NFrames, Weight
  <2>2. CASE a.t = t
    <3>1. a \in Activations
      OBVIOUS
    <3>2. IsFiniteSet(F) /\ Cardinality(F) = Weight(a, t) /\ Weight(a, t) \in Nat
      <4>1. CASE a.k = "execute"
        <5>1. a.n \in Nat \ {0}
          BY <3>1, <4>1, ActivationParts
        <5>. HIDE DEF a
        <5>2. IsFiniteSet(1 .. a.n) /\ Cardinality(1 .. a.n) = a.n
          BY SMTT(30), <5>1, FS_Interval
        <5>. QED  BY <2>2, <4>1, <5>1, <5>2 DEF FramesOf, Weight
      <4>2. CASE a.k = "cfunction"
        BY <2>2, <4>2, FS_Singleton DEF FramesOf, Weight
      <4>3. CASE a.k \notin {"execute", "cfunction"}
        BY <2>2, <4>3, FS_EmptySet DEF FramesOf, Weight
      <4>. QED  BY <4>1, <4>2, <4>3
    <3>. HIDE DEF F, a
    <3>3. IsFiniteSet({n + 1}) /\ Cardinality({n + 1}) = 1
      BY FS_Singleton
    <3>4. IsFiniteSet(N) /\ Cardinality(N) = Cardinality({n + 1}) * Cardinality(F)
      BY <3>2, <3>3, FS_Product
    <3>5. Cardinality(N) = Weight(a, t)
      BY <3>2, <3>3, <3>4
    <3>6. FramesIn(cs, t, n) \cap N = {}
      BY DEF FramesIn
    <3>7. FramesIn(cs, t, n + 1) = FramesIn(cs, t, n) \union N
      BY <1>2, <2>2 DEF a, F
    <3>. HIDE DEF N
    <3>8. Cardinality(FramesIn(cs, t, n) \union N)
            = Cardinality(FramesIn(cs, t, n)) + Cardinality(N) - Cardinality({})
      BY <1>1, <3>4, <3>6, FS_Union
    <3>9. NFrames(cs, t, n + 1) = NFrames(cs, t, n) + Weight(a, t)
      <4>1. NFrames(cs, t, n + 1) = Cardinality(FramesIn(cs, t, n) \union N)
        BY <3>7 DEF NFrames
      <4>2. NFrames(cs, t, n) = Cardinality(FramesIn(cs, t, n)) /\ Cardinality({}) = 0
        BY FS_EmptySet DEF NFrames
      <4>. QED  BY <1>1, <3>2, <3>5, <3>8, <4>1, <4>2
    <3>. QED  BY <3>9 DEF a
  <2>. QED  BY <2>1, <2>2
<1>. QED  BY <1>1, <1>3, <1>4

(* Whether an activation may be where it is depends on those up to it.     *)
LEMMA SamePlaced ==
  ASSUME NEW cs, NEW ds, NEW j \in Nat \ {0}, \A i \in 1 .. j : cs[i] = ds[i], Placed(cs, j)
  PROVE  Placed(ds, j)
<1>1. Below(ds, j)
  <2>1. Below(cs, j)
    BY DEF Placed
  <2>2. \A i \in 1 .. j : \A m \in i .. j : m \in 1 .. j
    OBVIOUS
  <2>3. \E c \in 1 .. j : Catches(ds[c]) /\ \A m \in c + 1 .. j : ~Catches(ds[m])
    BY <2>1 DEF Below
  <2>4. \A i \in 1 .. j : (\A m \in i + 1 .. j : ds[m].k # "resume") => ds[i].t = ds[j].t
    BY <2>1 DEF Below
  <2>5. ASSUME NEW i \in 1 .. j, ds[i].t # ds[j].t
        PROVE  \E m \in i .. j : ds[m].t = ds[i].t /\ ds[m].k = "cfunction"
    BY <2>1, <2>2, <2>5 DEF Below
  <2>. QED  BY <2>3, <2>4, <2>5 DEF Below
<1>2. CASE j = 1
  BY <1>1, <1>2 DEF Placed
<1>3. CASE j # 1
  <2>1. Fits(cs, j) /\ j - 1 \in Nat /\ cs[j] = ds[j] /\ cs[j - 1] = ds[j - 1]
    BY <1>3 DEF Placed
  <2>2. \A i \in 1 .. j - 1 : cs[i] = ds[i]
    OBVIOUS
  <2>. DEFINE t == cs[j].t
  <2>3. /\ CallsIn(cs, t, j - 1) = CallsIn(ds, t, j - 1) /\ FramesIn(cs, t, j - 1) = FramesIn(ds, t, j - 1)
        /\ HooksOff(cs, t, j - 1) <=> HooksOff(ds, t, j - 1)
        /\ InHandler(cs, t, j - 1) <=> InHandler(ds, t, j - 1)
        /\ Handled(cs, t, j - 1) <=> Handled(ds, t, j - 1)
    <3>. HIDE DEF t
    <3>. QED  BY <2>1, <2>2, SamePrefix
  <2>4. Fits(ds, j)
    BY <2>1, <2>2, <2>3 DEF Fits, Agrees, FramesAgree, NCalls, NFrames
  <2>. QED  BY <1>1, <1>3, <2>4 DEF Placed
<1>. QED  BY <1>2, <1>3

(* ds is cs cut to n activations.                                          *)
IsCut(ds, cs, n) ==
  /\ n \in 0 .. Len(cs) /\ Len(ds) = n /\ \A i \in 1 .. n : ds[i] = cs[i]

(* Cut off at any place, the stack keeps its order.                        *)
LEMMA Cut ==
  ASSUME NEW cs \in Seq(Activations), NEW ds, NEW n, IsCut(ds, cs, n), StackOK(cs)
  PROVE  StackOK(ds)
<1>1. ASSUME NEW j \in 1 .. n PROVE Placed(ds, j)
  <2>1. j \in Nat \ {0} /\ (\A i \in 1 .. j : cs[i] = ds[i]) /\ Placed(cs, j)
    BY DEF IsCut, StackOK
  <2>. QED  BY <2>1, SamePlaced
<1>. QED  BY <1>1 DEF IsCut, StackOK

(* ds is cs and one activation more.                                       *)
IsPush(ds, cs) == ds \in Seq(Activations) /\ Len(ds) = Len(cs) + 1 /\ \A i \in 1 .. Len(cs) : ds[i] = cs[i]

(* An activation that fits on the top keeps the order.                     *)
LEMMA Push ==
  ASSUME NEW cs \in Seq(Activations), NEW ds, IsPush(ds, cs), StackOK(cs), Len(cs) > 0,
         Fits(ds, Len(ds))
  PROVE  StackOK(ds)
<1>. DEFINE n == Len(cs)
<1>1. n \in Nat \ {0} /\ n + 1 # 1 /\ Len(ds) = n + 1 /\ \A i \in 1 .. n : ds[i] = cs[i]
  BY DEF IsPush
<1>2. Fits(ds, n + 1) /\ \A i \in 1 .. n : Placed(cs, i)
  BY <1>1 DEF StackOK
<1>. HIDE DEF n
<1>3. ASSUME NEW j \in 1 .. n PROVE Placed(ds, j)
  <2>1. j \in Nat \ {0} /\ (\A i \in 1 .. j : cs[i] = ds[i]) /\ Placed(cs, j)
    BY <1>1, <1>2
  <2>. QED  BY <2>1, SamePlaced
<1>4. Below(ds, n)
  BY <1>1, <1>3 DEF Placed
<1>5. Below(ds, n + 1)
  <2>1. \E c \in 1 .. n + 1 : Catches(ds[c]) /\ \A m \in c + 1 .. n + 1 : ~Catches(ds[m])
    <3>1. CASE Catches(ds[n + 1])
      BY <1>1, <3>1
    <3>2. CASE ~Catches(ds[n + 1])
      <4>1. PICK c \in 1 .. n : Catches(ds[c]) /\ \A m \in c + 1 .. n : ~Catches(ds[m])
        BY <1>4 DEF Below
      <4>. QED  BY <1>1, <3>2, <4>1
    <3>. QED  BY <3>1, <3>2
  <2>2. ASSUME NEW i \in 1 .. n + 1, \A m \in i + 1 .. n + 1 : ds[m].k # "resume"
        PROVE  ds[i].t = ds[n + 1].t
    <3>1. CASE i = n + 1
      BY <3>1
    <3>2. CASE i # n + 1
      <4>1. i \in 1 .. n /\ n + 1 \in i + 1 .. n + 1
        BY <1>1, <3>2
      <4>2. \A m \in i + 1 .. n : ds[m].k # "resume"
        BY <1>1, <2>2
      <4>3. ds[i].t = ds[n].t
        BY <1>4, <4>1, <4>2 DEF Below
      <4>4. ds[n + 1].t = ds[n].t
        BY <1>1, <1>2, <2>2, <4>1 DEF Fits
      <4>. QED  BY <4>3, <4>4
    <3>. QED  BY <3>1, <3>2
  <2>3. ASSUME NEW i \in 1 .. n + 1, ds[i].t # ds[n + 1].t
        PROVE  \E m \in i .. n + 1 : ds[m].t = ds[i].t /\ ds[m].k = "cfunction"
    <3>1. i \in 1 .. n
      BY <1>1, <2>3
    <3>2. CASE ds[i].t # ds[n].t
      <4>1. PICK m \in i .. n : ds[m].t = ds[i].t /\ ds[m].k = "cfunction"
        BY <1>4, <3>1, <3>2 DEF Below
      <4>. QED  BY <1>1, <4>1
    <3>3. CASE ds[i].t = ds[n].t
      <4>1. ds[n].k = "cfunction" /\ n \in i .. n + 1
        BY <1>1, <1>2, <2>3, <3>1, <3>3 DEF Fits
      <4>. QED  BY <3>3, <4>1
    <3>. QED  BY <3>2, <3>3
  <2>. QED  BY <2>1, <2>2, <2>3 DEF Below
<1>6. Placed(ds, n + 1)
  BY <1>1, <1>2, <1>5 DEF Placed
<1>. QED  BY <1>1, <1>3, <1>6 DEF StackOK

(* Above the last activation that catches errors runs one thread.          *)
LEMMA OneThreadAbove ==
  ASSUME NEW cs \in Seq(Activations), StackOK(cs), NEW c \in 1 .. Len(cs),
         \A m \in c + 1 .. Len(cs) : ~Catches(cs[m])
  PROVE  \A m \in c .. Len(cs) : cs[m].t = cs[c].t
<1>1. ASSUME NEW m \in c .. Len(cs) PROVE cs[m].t = cs[c].t
  <2>1. Below(cs, m) /\ c \in 1 .. m
    BY DEF StackOK, Placed
  <2>2. \A i \in c + 1 .. m : cs[i].k # "resume"
    BY DEF Catches
  <2>. QED  BY <2>1, <2>2 DEF Below
<1>. QED  BY <1>1

(* Stacks that differ only in the activations of t, above n.               *)
Differ(cs, ds, t, n) ==
  /\ n \in 0 .. Len(cs) /\ n \in 0 .. Len(ds)
  /\ \A i \in 1 .. n : cs[i] = ds[i]
  /\ \A i \in n + 1 .. Len(cs) : cs[i].t = t
  /\ \A i \in n + 1 .. Len(ds) : ds[i].t = t

(* They say the same of another thread.                                    *)
LEMMA OthersSame ==
  ASSUME NEW cs \in Seq(Activations), NEW ds \in Seq(Activations), NEW t, NEW n,
         Differ(cs, ds, t, n), NEW u, u # t
  PROVE  /\ CallsIn(cs, u, Len(cs)) = CallsIn(ds, u, Len(ds))
         /\ FramesIn(cs, u, Len(cs)) = FramesIn(ds, u, Len(ds))
         /\ HooksOff(cs, u, Len(cs)) <=> HooksOff(ds, u, Len(ds))
         /\ InHandler(cs, u, Len(cs)) <=> InHandler(ds, u, Len(ds))
         /\ Handled(cs, u, Len(cs)) <=> Handled(ds, u, Len(ds))
         /\ On(cs, u) <=> On(ds, u)
<1>. DEFINE a == Len(cs)
            b == Len(ds)
<1>1. /\ a \in Nat /\ b \in Nat /\ n \in 0 .. a /\ n \in 0 .. b
      /\ \A i \in 1 .. n : cs[i] = ds[i]
      /\ \A i \in 1 .. a : cs[i].t = u => i \in 1 .. n
      /\ \A i \in 1 .. b : ds[i].t = u => i \in 1 .. n
  BY DEF Differ
<1>. HIDE DEF a, b
<1>2. CallsIn(cs, u, a) = CallsIn(ds, u, b)
  BY <1>1 DEF CallsIn
<1>3. FramesIn(cs, u, a) = FramesIn(ds, u, b)
  <2>1. {j \in 1 .. a : cs[j].t = u} = {j \in 1 .. b : ds[j].t = u}
    BY <1>1
  <2>2. \A j \in {i \in 1 .. a : cs[i].t = u} : cs[j] = ds[j]
    BY <1>1
  <2>. QED  BY <2>1, <2>2 DEF FramesIn
<1>4. /\ HooksOff(cs, u, a) <=> HooksOff(ds, u, b)
      /\ InHandler(cs, u, a) <=> InHandler(ds, u, b)
  BY <1>1 DEF HooksOff, InHandler
<1>5. On(cs, u) <=> On(ds, u)
  BY <1>1 DEF On, a, b
<1>6. ASSUME Handled(cs, u, a) PROVE Handled(ds, u, b)
  <2>1. PICK i \in 2 .. a : /\ cs[i].t = u /\ cs[i].k = "pcall" /\ cs[i - 1].f[1] = "xpcall"
                           /\ \A j \in i + 1 .. a : ~(cs[j].t = u /\ cs[j].k = "pcall")
    BY <1>6 DEF Handled
  <2>2. i \in 1 .. n /\ i - 1 \in 1 .. n /\ i \in 2 .. b
    BY <1>1, <2>1
  <2>3. ASSUME NEW j \in i + 1 .. b PROVE ~(ds[j].t = u /\ ds[j].k = "pcall")
    BY <1>1, <2>1, <2>2, <2>3
  <2>4. ds[i] = cs[i] /\ ds[i - 1] = cs[i - 1]
    BY <1>1, <2>2
  <2>. QED  BY <2>1, <2>2, <2>3, <2>4 DEF Handled
<1>7. ASSUME Handled(ds, u, b) PROVE Handled(cs, u, a)
  BY SMTT(30), <1>1, <1>7 DEF Handled
<1>. QED  BY <1>2, <1>3, <1>4, <1>5, <1>6, <1>7 DEF a, b

-----------------------------------------------------------------------------
(* Threads.                                                                *)

(* The activation on top belongs to a thread that can run.                 *)
LEMMA TopFacts ==
  ASSUME CallsInv, cstack # <<>>
  PROVE  /\ Len(cstack) \in Nat \ {0} /\ Top = cstack[Len(cstack)] /\ L = Top.t
         /\ Top \in Activations /\ L \in AllThreads /\ L \notin over /\ TopIs(cstack, L)
         /\ On(cstack, L)
         /\ thread[L] \in ThreadStates /\ Lives(cstack, todo, L, thread[L])
         /\ (Top.k # "resume" \/ todo # "return") =>
              thread[L].status = "ok" /\ FramesAgree(cstack, L, Len(cstack), thread[L])
<1>1. /\ Len(cstack) \in Nat \ {0} /\ Top = cstack[Len(cstack)] /\ L = Top.t
      /\ Top \in Activations
  BY DEF CallsInv, CallsTypeOK, Top, L, Last
<1>2. L \in AllThreads /\ TopIs(cstack, L) /\ On(cstack, L)
  BY <1>1, ActivationParts DEF TopIs, On
<1>3. L \notin over
  BY <1>2 DEF CallsInv, ThreadsOK, IsOver
<1>4. thread[L] \in ThreadStates /\ Lives(cstack, todo, L, thread[L])
  BY <1>2, <1>3 DEF CallsInv, CallsTypeOK, ThreadsOK
<1>5. ASSUME Top.k # "resume" \/ todo # "return" PROVE thread[L].status = "ok"
  BY <1>1, <1>2, <1>4, <1>5 DEF Lives
<1>6. (Top.k # "resume" \/ todo # "return") => FramesAgree(cstack, L, Len(cstack), thread[L])
  BY <1>4, <1>5 DEF Lives
<1>. QED  BY <1>1, <1>2, <1>3, <1>4, <1>5, <1>6

(* A step changes one thread, which is on top or begins to run, and its    *)
(* activations: it keeps the invariant if it does so for that thread.      *)
LEMMA ActorOnly ==
  ASSUME CallsInv, NEW t \in AllThreads, NEW n,
         cstack' \in Seq(Activations), StackOK(cstack'), Differ(cstack, cstack', t, n),
         thread' \in [AllThreads -> ThreadStates],
         \A u \in AllThreads \ {t} : thread'[u] = thread[u],
         todo' \in {"run", "return"} \union Errors, TodoOK',
         TopIs(cstack, t) \/ todo = "run",
         over' \subseteq Coroutines, \A u \in AllThreads \ {t} : u \in over' <=> u \in over,
         IF t \in over' THEN IsOver(cstack', t, thread'[t]) ELSE Lives(cstack', todo', t, thread'[t])
  PROVE  CallsInv'
<1>1. CallsTypeOK'
  BY DEF CallsTypeOK
<1>2. cstack \in Seq(Activations)
  BY DEF CallsInv, CallsTypeOK
<1>3. ASSUME NEW u \in AllThreads \ {t}
      PROVE  IF u \in over' THEN IsOver(cstack', u, thread'[u]) ELSE Lives(cstack', todo', u, thread'[u])
  <2>. DEFINE a == Len(cstack)
              b == Len(cstack')
  <2>1. /\ CallsIn(cstack, u, a) = CallsIn(cstack', u, b)
        /\ FramesIn(cstack, u, a) = FramesIn(cstack', u, b)
        /\ HooksOff(cstack, u, a) <=> HooksOff(cstack', u, b)
        /\ InHandler(cstack, u, a) <=> InHandler(cstack', u, b)
        /\ Handled(cstack, u, a) <=> Handled(cstack', u, b)
        /\ On(cstack, u) <=> On(cstack', u)
    BY <1>2, <1>3, OthersSame
  <2>. DEFINE r == thread[u]
  <2>2. r = thread'[u] /\ (u \in over' <=> u \in over)
    BY <1>3
  <2>3. ~(todo # "run" /\ TopIs(cstack, u))
    BY <1>3 DEF TopIs
  <2>4. IF u \in over THEN IsOver(cstack, u, r) ELSE Lives(cstack, todo, u, r)
    BY <1>3 DEF CallsInv, ThreadsOK
  <2>5. CASE u \in over
    BY <2>1, <2>2, <2>4, <2>5 DEF IsOver
  <2>6. CASE u \notin over
    <3>1. Lives(cstack, todo, u, r)
      BY <2>4, <2>6
    <3>2. Agrees(cstack', u, b, r) /\ (r.status # "yield" => FramesAgree(cstack', u, b, r)) /\ SizeOK(r)
      BY <2>1, <3>1 DEF Lives, Agrees, FramesAgree, NCalls, NFrames
    <3>3. r.nCcalls >= LUAI_MAXCCALLS => InHandler(cstack', u, b)
      BY <2>1, <2>3, <3>1 DEF Lives, Errors
    <3>4. /\ u = MainThread => r.status = "ok"
          /\ u # MainThread /\ On(cstack', u) => r.values = 0 /\ r.status = "ok"
          /\ u # MainThread /\ ~On(cstack', u) =>
               (r.status = "ok" /\ r.values = 1) \/ (r.status = "yield" /\ r.values = 0 /\ r.ci > 1)
      BY <2>1, <2>3, <3>1 DEF Lives
    <3>5. Lives(cstack', todo', u, r)
      <4>. HIDE DEF r
      <4>. QED  BY <3>2, <3>3, <3>4 DEF Lives
    <3>. QED  BY <2>2, <2>6, <3>5
  <2>. QED  BY <2>5, <2>6
<1>4. ThreadsOK'
  BY <1>3 DEF ThreadsOK
<1>. QED  BY <1>1, <1>4 DEF CallsInv

(* A record that differs in its frames only.                               *)
FramesOnly(r, s) ==
  /\ s.status = r.status /\ s.values = r.values /\ s.nCcalls = r.nCcalls
  /\ s.allowhook = r.allowhook /\ s.errfunc = r.errfunc

(* growCI and inc_ci: a frame more that fits, or an error.                 *)
LEMMA IncCIDone ==
  ASSUME NEW r \in ThreadStates, SizeOK(r), NEW i, i = IncCI(r)
  PROVE  /\ i.r \in ThreadStates /\ SizeOK(i.r) /\ FramesOnly(r, i.r)
         /\ \/ i.next = "run" /\ i.r.ci = r.ci + 1
            \/ i.next \in Errors /\ i.r.ci = r.ci
<1>. USE LimitsAssumption
<1>1. r.ci \in Nat /\ r.size_ci \in Nat
  BY DEF ThreadStates
<1>. DEFINE grown == [r EXCEPT !.size_ci = 2 * r.size_ci]
<1>2. grown \in ThreadStates /\ grown.size_ci = 2 * r.size_ci /\ grown.ci = r.ci /\ FramesOnly(r, grown)
  BY <1>1 DEF ThreadStates, FramesOnly
<1>3. ASSUME NEW s \in ThreadStates
      PROVE  /\ Entered(s).r \in ThreadStates /\ Entered(s).r.ci = s.ci + 1
             /\ Entered(s).r.size_ci = s.size_ci /\ FramesOnly(s, Entered(s).r)
             /\ Entered(s).next = "run"
  BY DEF ThreadStates, FramesOnly, Entered
<1>4. Raised(r) \in Errors
  BY DEF Raised, Errors
<1>5. CASE r.ci + 1 < r.size_ci
  <2>1. i = Entered(r)
    BY <1>1, <1>5 DEF IncCI
  <2>. QED  BY <1>1, <1>3, <1>5, <2>1 DEF SizeOK
<1>6. CASE r.ci + 1 = r.size_ci /\ r.size_ci > LUAI_MAXCALLS
  <2>1. i = [r |-> r, next |-> "errerr"]
    BY <1>1, <1>6 DEF IncCI
  <2>. QED  BY <2>1 DEF Errors, FramesOnly
<1>7. CASE r.ci + 1 = r.size_ci /\ r.size_ci <= LUAI_MAXCALLS
  <2>1. i = IF grown.size_ci > LUAI_MAXCALLS THEN [r |-> grown, next |-> Raised(r)] ELSE Entered(grown)
    BY <1>1, <1>7 DEF IncCI
  <2>2. SizeOK(grown)
    BY <1>1, <1>2, <1>7 DEF SizeOK
  <2>. HIDE DEF grown
  <2>3. CASE grown.size_ci > LUAI_MAXCALLS
    BY <1>2, <1>4, <2>1, <2>2, <2>3
  <2>4. CASE ~(grown.size_ci > LUAI_MAXCALLS)
    <3>1. i = Entered(grown)
      BY <2>1, <2>4
    <3>2. SizeOK(i.r)
      BY <1>1, <1>2, <1>3, <1>7, <3>1 DEF SizeOK
    <3>. QED  BY <1>2, <1>3, <3>1, <3>2 DEF FramesOnly
  <2>. QED  BY <2>3, <2>4
<1>. QED  BY <1>1, <1>5, <1>6, <1>7 DEF SizeOK

(* What ds, with an activation more than cs, says of a thread.             *)
SaysMore(cs, ds, t) ==
  LET n == Len(cs)
      m == Len(ds)
      a == ds[m]
  IN  /\ NCalls(cs, t, n) \in Nat /\ NFrames(cs, t, n) \in Nat
      /\ NCalls(ds, t, m) = NCalls(cs, t, n) + (IF a.t = t /\ a.k = "call" THEN 1 ELSE 0)
      /\ NFrames(ds, t, m) = NFrames(cs, t, n) + Weight(a, t)
      /\ HooksOff(ds, t, m) <=> HooksOff(cs, t, n) \/ (a.t = t /\ a.k \in {"hook", "gctm"})
      /\ InHandler(ds, t, m) <=> InHandler(cs, t, n) \/ (a.t = t /\ a.k = "errormsg")
      /\ Handled(ds, t, m) <=> IF a.t = t /\ a.k = "pcall" THEN n > 0 /\ cs[n].f[1] = "xpcall"
                               ELSE Handled(cs, t, n)
      /\ On(ds, t) <=> On(cs, t) \/ a.t = t

(* It holds of every push; read backwards, of what is left after a pop.    *)
LEMMA PushSays ==
  ASSUME NEW cs \in Seq(Activations), NEW ds, IsPush(ds, cs), NEW t
  PROVE  SaysMore(cs, ds, t)
<1>. DEFINE n == Len(cs)
            a == ds[n + 1]
<1>1. /\ n \in Nat /\ Len(ds) = n + 1 /\ (\A i \in 1 .. n : ds[i] = cs[i])
      /\ \A i \in 1 .. n + 1 : ds[i] \in Activations
  BY DEF IsPush
<1>2. On(ds, t) <=> On(cs, t) \/ a.t = t
  BY <1>1 DEF On
<1>. HIDE DEF n
<1>3. /\ CallsIn(ds, t, n) = CallsIn(cs, t, n) /\ FramesIn(ds, t, n) = FramesIn(cs, t, n)
      /\ HooksOff(ds, t, n) <=> HooksOff(cs, t, n)
      /\ InHandler(ds, t, n) <=> InHandler(cs, t, n)
      /\ Handled(ds, t, n) <=> Handled(cs, t, n)
  BY <1>1, SamePrefix
<1>4. /\ NCalls(ds, t, n) \in Nat /\ NFrames(ds, t, n) \in Nat
      /\ NCalls(ds, t, n + 1) = NCalls(ds, t, n) +
           (IF ds[n + 1].t = t /\ ds[n + 1].k = "call" THEN 1 ELSE 0)
      /\ NFrames(ds, t, n + 1) = NFrames(ds, t, n) + Weight(ds[n + 1], t)
  BY <1>1, Counts
<1>5. /\ HooksOff(ds, t, n + 1) <=>
           HooksOff(ds, t, n) \/ (ds[n + 1].t = t /\ ds[n + 1].k \in {"hook", "gctm"})
      /\ InHandler(ds, t, n + 1) <=>
           InHandler(ds, t, n) \/ (ds[n + 1].t = t /\ ds[n + 1].k = "errormsg")
      /\ Handled(ds, t, n + 1) <=>
           IF ds[n + 1].t = t /\ ds[n + 1].k = "pcall" THEN n > 0 /\ ds[n].f[1] = "xpcall"
           ELSE Handled(ds, t, n)
  BY <1>1, OneMore
<1>6. NCalls(ds, t, n) = NCalls(cs, t, n) /\ NFrames(ds, t, n) = NFrames(cs, t, n)
  BY <1>3 DEF NCalls, NFrames
<1>7. n > 0 => ds[n] = cs[n]
  BY <1>1
<1>8. Len(ds) = n + 1
  BY <1>1
<1>. QED  BY <1>2, <1>3, <1>4, <1>5, <1>6, <1>7, <1>8 DEF n, SaysMore

(* Appending is pushing.                                                   *)
LEMMA Appended ==
  ASSUME NEW cs \in Seq(Activations), NEW a \in Activations
  PROVE  /\ IsPush(Append(cs, a), cs) /\ Append(cs, a)[Len(cs) + 1] = a
         /\ Append(cs, a)[Len(Append(cs, a))] = a
         /\ cs \o <<a>> = Append(cs, a) /\ cs \o <<a>> \o <<>> = Append(cs, a)
         /\ \A b \in Activations : /\ cs \o <<a>> \o <<b>> = Append(Append(cs, a), b)
                                   /\ cs \o <<a, b>> = Append(Append(cs, a), b)
<1>1. /\ IsPush(Append(cs, a), cs) /\ Append(cs, a)[Len(cs) + 1] = a
      /\ Append(cs, a)[Len(Append(cs, a))] = a
  BY DEF IsPush
<1>2. cs \o <<a>> = Append(cs, a) /\ cs \o <<a>> \o <<>> = Append(cs, a)
  OBVIOUS
<1>3. ASSUME NEW b \in Activations
      PROVE  /\ cs \o <<a>> \o <<b>> = Append(Append(cs, a), b)
             /\ cs \o <<a, b>> = Append(Append(cs, a), b)
  OBVIOUS
<1>. QED  BY <1>1, <1>2, <1>3

(* The thread t, in state r, may enter a call from the stack cs.           *)
MayCall(cs, t, r) ==
  /\ Len(cs) > 0 /\ cs[Len(cs)].t = t /\ StackOK(cs)
  /\ Agrees(cs, t, Len(cs), r) /\ FramesAgree(cs, t, Len(cs), r) /\ SizeOK(r)
  /\ r.nCcalls >= LUAI_MAXCCALLS => InHandler(cs, t, Len(cs))

(* Activations of t were added to cs, and t is now in the state s.         *)
Extended(cs, ds, t, s, next) ==
  /\ ds \in Seq(Activations) /\ Len(ds) >= Len(cs) /\ \A i \in 1 .. Len(cs) : ds[i] = cs[i]
  /\ (\A i \in Len(cs) + 1 .. Len(ds) : ds[i].t = t) /\ Len(ds) > 0 /\ ds[Len(ds)].t = t
  /\ StackOK(ds) /\ s \in ThreadStates
  /\ Agrees(ds, t, Len(ds), s) /\ FramesAgree(ds, t, Len(ds), s) /\ SizeOK(s)
  /\ s.nCcalls >= LUAI_MAXCCALLS => InHandler(ds, t, Len(ds)) \/ next \in Errors
  /\ next \in {"run"} \union Errors
  /\ next = "run" => ds[Len(ds)].k \in {"execute", "cfunction"}

(* luaD_call: the call is counted, and then there is a frame and something *)
(* to run it, or an error.                                                 *)
LEMMA DCallDone ==
  ASSUME thread \in [AllThreads -> ThreadStates], NEW t \in AllThreads, NEW r \in ThreadStates,
         NEW cs \in Seq(Activations), MayCall(cs, t, r), NEW f \in Functions, DCall(t, r, cs, f)
  PROVE  \E s \in ThreadStates :
            /\ thread' = [thread EXCEPT ![t] = s] /\ s.status = r.status /\ s.values = r.values
            /\ Extended(cs, cstack', t, s, todo')
<1>. DEFINE counted == [r EXCEPT !.nCcalls = r.nCcalls + 1]
            i == IF counted.nCcalls = LUAI_MAXCCALLS THEN [r |-> counted, next |-> Raised(r)]
                 ELSE IF counted.nCcalls >= LUAI_MAXCCALLS + CCallMargin
                      THEN [r |-> counted, next |-> "errerr"]
                      ELSE IncCI(counted)
            a == InCall(t)
            e == IF f = Lua THEN Execute(t, 1) ELSE InC(t, f)
            d == Append(cs, a)
            n == Len(cs)
<1>1. /\ thread' = [thread EXCEPT ![t] = i.r] /\ todo' = i.next
      /\ cstack' = cs \o <<a>> \o (IF i.next # "run" THEN <<>> ELSE <<e>>)
  BY DEF DCall, Goes
<1>2. /\ r.nCcalls \in Nat /\ r.ci \in Nat /\ counted \in ThreadStates
      /\ counted.nCcalls = r.nCcalls + 1 /\ counted.ci = r.ci /\ counted.size_ci = r.size_ci
      /\ counted.status = r.status /\ counted.values = r.values
      /\ counted.allowhook = r.allowhook /\ counted.errfunc = r.errfunc
  <2>1. r.nCcalls \in Nat /\ r.ci \in Nat
    BY DEF ThreadStates
  <2>2. counted \in ThreadStates
    <3>1. r.nCcalls + 1 \in Nat
      BY <2>1
    <3>. QED  BY <3>1 DEF ThreadStates
  <2>3. counted.nCcalls = r.nCcalls + 1
    BY DEF ThreadStates
  <2>4. /\ counted.ci = r.ci /\ counted.size_ci = r.size_ci
        /\ counted.status = r.status /\ counted.values = r.values
        /\ counted.allowhook = r.allowhook /\ counted.errfunc = r.errfunc
    BY DEF ThreadStates
  <2>. QED  BY <2>1, <2>2, <2>3, <2>4
<1>3. SizeOK(counted)
  BY <1>2 DEF MayCall, SizeOK
<1>. HIDE DEF counted
<1>4. /\ i.r \in ThreadStates /\ SizeOK(i.r) /\ FramesOnly(counted, i.r)
      /\ \/ i.next = "run" /\ i.r.ci = counted.ci + 1 /\ counted.nCcalls # LUAI_MAXCCALLS
         \/ i.next \in Errors /\ i.r.ci = counted.ci
  <2>1. CASE counted.nCcalls = LUAI_MAXCCALLS
    BY <1>2, <1>3, <2>1 DEF FramesOnly, Errors, Raised
  <2>2. CASE counted.nCcalls # LUAI_MAXCCALLS /\ counted.nCcalls >= LUAI_MAXCCALLS + CCallMargin
    BY <1>2, <1>3, <2>2 DEF FramesOnly, Errors
  <2>3. CASE counted.nCcalls # LUAI_MAXCCALLS /\ ~(counted.nCcalls >= LUAI_MAXCCALLS + CCallMargin)
    <3>1. i = IncCI(counted)
      BY <2>3
    <3>. HIDE DEF i
    <3>. QED  BY <1>2, <1>3, <2>3, <3>1, IncCIDone
  <2>. QED  BY <2>1, <2>2, <2>3
<1>5. /\ a \in Activations /\ a.t = t /\ a.k = "call"
      /\ e \in Activations /\ e.t = t /\ e.k \in {"execute", "cfunction"}
      /\ Weight(a, t) = 0 /\ Weight(e, t) = 1
  BY DEF Activations, InCall, Execute, InC, Weight
<1>. HIDE DEF i, a, e, d, n
<1>6. n \in Nat \ {0} /\ n = Len(cs) /\ cs[n].t = t /\ StackOK(cs)
  BY DEF MayCall, n
<1>7. IsPush(d, cs) /\ d[n + 1] = a /\ d = Append(cs, a) /\ d \in Seq(Activations) /\ Len(d) = n + 1
      /\ \A j \in 1 .. n : d[j] = cs[j]
  BY <1>5, <1>6, Appended DEF d, IsPush
<1>8. StackOK(d)
  <2>1. Fits(d, n + 1)
    BY <1>5, <1>6, <1>7 DEF Fits
  <2>2. Fits(d, Len(d)) /\ Len(cs) > 0
    BY <1>6, <1>7, <2>1
  <2>. QED  BY <1>6, <1>7, <2>2, Push
<1>9. /\ NCalls(d, t, n + 1) = i.r.nCcalls /\ (i.r.allowhook <=> ~HooksOff(d, t, n + 1))
      /\ (i.r.errfunc # 0 <=> Handled(d, t, n + 1)) /\ NFrames(d, t, n + 1) = r.ci
      /\ InHandler(cs, t, n) => InHandler(d, t, n + 1)
  <2>1. /\ NCalls(d, t, n + 1) = NCalls(cs, t, n) + 1
        /\ NFrames(cs, t, n) \in Nat /\ NFrames(d, t, n + 1) = NFrames(cs, t, n) + 0
        /\ HooksOff(d, t, n + 1) <=> HooksOff(cs, t, n)
        /\ InHandler(d, t, n + 1) <=> InHandler(cs, t, n)
        /\ Handled(d, t, n + 1) <=> Handled(cs, t, n)
    <3>1. /\ Len(d) = n + 1 /\ Len(cs) = n /\ d[Len(d)] = a
      BY <1>6, <1>7
    <3>2. IsPush(d, cs)
      BY <1>7
    <3>3. SaysMore(cs, d, t)
      BY <3>2, PushSays
    <3>. QED  BY <1>5, <3>1, <3>3 DEF SaysMore
  <2>. QED  BY <1>2, <1>4, <1>6, <2>1 DEF MayCall, Agrees, FramesAgree, FramesOnly
<1>10. i.r.nCcalls >= LUAI_MAXCCALLS /\ i.next = "run" => InHandler(cs, t, n)
  BY <1>2, <1>4, <1>6, LimitsAssumption DEF MayCall, FramesOnly, Errors
<1>11. CASE i.next # "run"
  <2>1. cstack' = d /\ i.next \in Errors /\ i.r.ci = r.ci
    BY <1>1, <1>2, <1>4, <1>5, <1>11, Appended DEF d
  <2>2. Agrees(d, t, n + 1, i.r) /\ FramesAgree(d, t, n + 1, i.r)
    BY <1>9, <2>1 DEF Agrees, FramesAgree
  <2>3. Extended(cs, d, t, i.r, i.next)
    BY <1>4, <1>5, <1>6, <1>7, <1>8, <2>1, <2>2 DEF Extended, Errors
  <2>. QED  BY <1>1, <1>2, <1>4, <2>1, <2>3 DEF FramesOnly
<1>12. CASE i.next = "run"
  <2>. DEFINE b == Append(d, e)
  <2>1. cstack' = b /\ i.r.ci = r.ci + 1
    BY <1>1, <1>2, <1>4, <1>5, <1>12, Appended DEF d, Errors
  <2>2. IsPush(b, d) /\ b[n + 2] = e /\ b \in Seq(Activations) /\ Len(b) = n + 2 /\ n + 2 = n + 1 + 1
        /\ (\A j \in 1 .. n + 1 : b[j] = d[j]) /\ n + 1 = Len(d)
    BY <1>5, <1>6, <1>7, Appended DEF IsPush
  <2>. HIDE DEF b
  <2>3. StackOK(b)
    <3>1. Fits(b, n + 2)
      <4>1. n + 2 - 1 = n + 1 /\ b[n + 1] = a
        BY <1>6, <1>7, <2>2
      <4>. QED  BY <1>5, <2>2, <4>1 DEF Fits
    <3>2. Fits(b, Len(b)) /\ Len(d) > 0
      BY <1>6, <2>2, <3>1
    <3>. QED  BY <1>7, <1>8, <2>2, <3>2, Push
  <2>4. /\ NCalls(b, t, n + 2) = NCalls(d, t, n + 1) + 0 /\ NCalls(d, t, n + 1) \in Nat
        /\ NFrames(b, t, n + 2) = NFrames(d, t, n + 1) + 1
        /\ HooksOff(b, t, n + 2) <=> HooksOff(d, t, n + 1)
        /\ InHandler(b, t, n + 2) <=> InHandler(d, t, n + 1)
        /\ Handled(b, t, n + 2) <=> Handled(d, t, n + 1)
    <3>1. SaysMore(d, b, t)
      BY <1>7, <2>2, PushSays
    <3>2. b[Len(b)] = e
      BY <2>2
    <3>. QED  BY <1>5, <2>2, <3>1, <3>2 DEF SaysMore
  <2>5. Agrees(b, t, n + 2, i.r) /\ FramesAgree(b, t, n + 2, i.r)
    BY <1>9, <2>1, <2>4 DEF Agrees, FramesAgree
  <2>6. Extended(cs, b, t, i.r, i.next)
    <3>1. /\ \A j \in 1 .. n : b[j] = cs[j]
          /\ \A j \in n + 1 .. n + 2 : b[j].t = t
      BY SMTT(30), <1>5, <1>6, <1>7, <2>2
    <3>2. i.r.nCcalls >= LUAI_MAXCCALLS => InHandler(b, t, n + 2)
      BY <1>9, <1>10, <1>12, <2>4
    <3>. QED  BY <1>4, <1>5, <1>6, <1>12, <2>2, <2>3, <2>5, <3>1, <3>2 DEF Extended
  <2>. QED  BY <1>1, <1>2, <1>4, <2>1, <2>6 DEF FramesOnly
<1>. QED  BY <1>11, <1>12

-----------------------------------------------------------------------------
(* Calls.                                                                  *)

(* A call of the thread on top, from cs, which is the stack with what that *)
(* thread has put on it.                                                   *)
LEMMA CallKeeps ==
  ASSUME CallsInv, cstack # <<>>, todo # "return",
         NEW cs \in Seq(Activations), Len(cs) >= Len(cstack),
         \A i \in 1 .. Len(cstack) : cs[i] = cstack[i],
         \A i \in Len(cstack) + 1 .. Len(cs) : cs[i].t = L,
         NEW r \in ThreadStates, r.status = thread[L].status, r.values = thread[L].values,
         MayCall(cs, L, r), NEW f \in Functions, DCall(L, r, cs, f), over' = over
  PROVE  CallsInv'
<1>1. /\ Len(cstack) \in Nat \ {0} /\ L \in AllThreads /\ L \notin over /\ TopIs(cstack, L)
      /\ On(cstack, L) /\ thread[L] \in ThreadStates /\ Lives(cstack, todo, L, thread[L])
      /\ thread[L].status = "ok"
  BY TopFacts
<1>2. thread \in [AllThreads -> ThreadStates] /\ over \subseteq Coroutines
  BY DEF CallsInv, CallsTypeOK
<1>3. PICK s \in ThreadStates :
        /\ thread' = [thread EXCEPT ![L] = s] /\ s.status = r.status /\ s.values = r.values
        /\ Extended(cs, cstack', L, s, todo')
  <2>. DEFINE t == L
  <2>1. t \in AllThreads
    BY <1>1
  <2>2. MayCall(cs, t, r) /\ DCall(t, r, cs, f)
    OBVIOUS
  <2>3. \E s \in ThreadStates :
          /\ thread' = [thread EXCEPT ![t] = s] /\ s.status = r.status /\ s.values = r.values
          /\ Extended(cs, cstack', t, s, todo')
    <3>. HIDE DEF t
    <3>. QED  BY <1>2, <2>1, <2>2, DCallDone
  <2>. QED  BY <2>3
<1>4. /\ thread' \in [AllThreads -> ThreadStates] /\ thread'[L] = s
      /\ \A u \in AllThreads \ {L} : thread'[u] = thread[u]
  BY <1>1, <1>2, <1>3
<1>5. /\ cstack' \in Seq(Activations) /\ StackOK(cstack') /\ Len(cstack') > 0
      /\ cstack'[Len(cstack')].t = L /\ todo' \in {"run"} \union Errors
      /\ todo' = "run" => cstack'[Len(cstack')].k \in {"execute", "cfunction"}
  BY <1>3 DEF Extended
<1>6. Differ(cstack, cstack', L, Len(cstack))
  <2>1. /\ Len(cs) \in Nat /\ Len(cstack') \in Nat /\ Len(cs) =< Len(cstack')
        /\ \A i \in 1 .. Len(cs) : cstack'[i] = cs[i]
        /\ \A i \in Len(cs) + 1 .. Len(cstack') : cstack'[i].t = L
    BY SMTT(30), <1>3 DEF Extended
  <2>2. \A i \in 1 .. Len(cstack) : cstack[i] = cstack'[i]
    BY <1>1, <2>1
  <2>3. ASSUME NEW i \in Len(cstack) + 1 .. Len(cstack') PROVE cstack'[i].t = L
    <3>1. CASE i \in 1 .. Len(cs)
      BY <1>1, <2>1, <2>3, <3>1
    <3>2. CASE i \notin 1 .. Len(cs)
      BY <1>1, <2>1, <2>3, <3>2
    <3>. QED  BY <3>1, <3>2
  <2>. QED  BY <1>1, <2>1, <2>2, <2>3 DEF Differ
<1>7. TodoOK'
  BY <1>5 DEF TodoOK
<1>8. TopIs(cstack', L) /\ On(cstack', L)
  BY <1>5 DEF TopIs, On
<1>9. Lives(cstack', todo', L, s)
  <2>1. L # MainThread => s.values = 0
    BY <1>1, <1>3 DEF Lives
  <2>. QED  BY <1>1, <1>3, <1>8, <2>1 DEF Lives, Extended
<1>10. ASSUME NEW t, t = L PROVE CallsInv'
  <2>1. /\ t \in AllThreads /\ Differ(cstack, cstack', t, Len(cstack)) /\ TopIs(cstack, t)
        /\ \A u \in AllThreads \ {t} : thread'[u] = thread[u]
        /\ t \notin over' /\ Lives(cstack', todo', t, thread'[t])
    BY <1>1, <1>4, <1>6, <1>9, <1>10
  <2>. QED  BY <1>2, <1>4, <1>5, <1>7, <2>1, ActorOnly
<1>. QED  BY <1>10

(* What a protected call, a hook or a finalizer puts on the stack first.   *)
LEMMA CallOverKeeps ==
  ASSUME CallsInv, cstack # <<>>, todo # "return",
         NEW a \in Activations, a.t = L, NEW cs, cs = Append(cstack, a), Fits(cs, Len(cs)),
         NEW r \in ThreadStates, r.status = thread[L].status, r.values = thread[L].values,
         Agrees(cs, L, Len(cs), r), FramesAgree(cs, L, Len(cs), r), SizeOK(r),
         r.nCcalls >= LUAI_MAXCCALLS => InHandler(cs, L, Len(cs)),
         NEW f \in Functions, DCall(L, r, cs, f), over' = over
  PROVE  CallsInv'
<1>1. cstack \in Seq(Activations) /\ StackOK(cstack) /\ Len(cstack) > 0
  BY DEF CallsInv, CallsTypeOK
<1>2. IsPush(cs, cstack) /\ cs[Len(cs)] = a
  BY <1>1, Appended
<1>3. StackOK(cs)
  BY <1>1, <1>2, Push
<1>4. /\ cs \in Seq(Activations) /\ Len(cs) = Len(cstack) + 1 /\ Len(cstack) \in Nat
      /\ \A i \in 1 .. Len(cstack) : cs[i] = cstack[i]
  BY <1>1, <1>2 DEF IsPush
<1>5. \A i \in Len(cstack) + 1 .. Len(cs) : cs[i].t = L
  BY <1>2, <1>4
<1>6. MayCall(cs, L, r)
  BY <1>2, <1>3, <1>4 DEF MayCall
<1>7. Len(cs) >= Len(cstack)
  BY <1>4
<1>8. cs \in Seq(Activations) /\ \A i \in 1 .. Len(cstack) : cs[i] = cstack[i]
  BY <1>4
<1>. QED  BY <1>5, <1>6, <1>7, <1>8, CallKeeps

(* What SubSeq leaves.                                                     *)
LEMMA SubSeqCuts ==
  ASSUME NEW cs \in Seq(Activations), NEW n \in 0 .. Len(cs)
  PROVE  SubSeq(cs, 1, n) \in Seq(Activations) /\ IsCut(SubSeq(cs, 1, n), cs, n)
BY DEF IsCut

(* The top of the stack, as it was pushed.                                 *)
LEMMA TopPushed ==
  ASSUME CallsInv, cstack # <<>>
  PROVE  /\ Front(cstack) \in Seq(Activations) /\ IsPush(cstack, Front(cstack))
         /\ IsCut(Front(cstack), cstack, Len(cstack) - 1)
         /\ Len(Front(cstack)) = Len(cstack) - 1 /\ StackOK(Front(cstack))
         /\ \A t : SaysMore(Front(cstack), cstack, t)
<1>1. cstack \in Seq(Activations) /\ Len(cstack) \in Nat \ {0} /\ StackOK(cstack)
  BY DEF CallsInv, CallsTypeOK
<1>2. /\ Front(cstack) \in Seq(Activations) /\ Len(Front(cstack)) = Len(cstack) - 1
      /\ \A i \in 1 .. Len(cstack) - 1 : Front(cstack)[i] = cstack[i]
  <2>. DEFINE m == Len(cstack) - 1
  <2>1. Front(cstack) = SubSeq(cstack, 1, m) /\ m \in 0 .. Len(cstack)
    BY <1>1 DEF Front
  <2>. HIDE DEF m
  <2>2. SubSeq(cstack, 1, m) \in Seq(Activations) /\ IsCut(SubSeq(cstack, 1, m), cstack, m)
    BY <1>1, <2>1, SubSeqCuts
  <2>. QED  BY <2>1, <2>2 DEF IsCut, m
<1>. DEFINE f == Front(cstack)
<1>3. f \in Seq(Activations) /\ IsPush(cstack, f) /\ IsCut(f, cstack, Len(cstack) - 1)
  BY <1>1, <1>2 DEF IsPush, IsCut
<1>. HIDE DEF f
<1>4. StackOK(f) /\ \A t : SaysMore(f, cstack, t)
  BY <1>1, <1>3, Cut, PushSays
<1>. QED  BY <1>2, <1>3, <1>4 DEF f

(* An instruction calls a tag method, from the interpreter (luaT_callTM).  *)
LEMMA TagMethodKeeps ==
  ASSUME CallsInv, NEW f \in TagMethods, TagMethod(f)
  PROVE  CallsInv'
<1>1. todo = "run" /\ cstack # <<>> /\ DCall(L, thread[L], cstack, f) /\ over' = over
  BY DEF TagMethod, Running, CallsInv, TodoOK
<1>2. /\ Len(cstack) \in Nat \ {0} /\ cstack[Len(cstack)].t = L /\ thread[L] \in ThreadStates
      /\ Lives(cstack, todo, L, thread[L]) /\ FramesAgree(cstack, L, Len(cstack), thread[L])
  BY <1>1, TopFacts
<1>3. cstack \in Seq(Activations) /\ StackOK(cstack)
  BY DEF CallsInv, CallsTypeOK
<1>4. f \in Functions
  BY DEF TagMethods, Functions, Lua
<1>5. MayCall(cstack, L, thread[L])
  BY <1>1, <1>2, <1>3 DEF MayCall, Lives, Errors
<1>6. \A i \in Len(cstack) + 1 .. Len(cstack) : cstack[i].t = L
  BY <1>2
<1>. QED  BY <1>1, <1>2, <1>3, <1>4, <1>5, <1>6, CallKeeps

(* The thread on top when Lua code runs, or an error has a handler.        *)
LEMMA Caller ==
  ASSUME CallsInv, todo \in {"run", "error"}
  PROVE  /\ cstack # <<>> /\ cstack \in Seq(Activations) /\ Len(cstack) \in Nat \ {0}
         /\ Top = cstack[Len(cstack)] /\ L = Top.t /\ L \in AllThreads
         /\ thread[L] \in ThreadStates /\ Agrees(cstack, L, Len(cstack), thread[L])
         /\ FramesAgree(cstack, L, Len(cstack), thread[L]) /\ SizeOK(thread[L])
         /\ todo = "run" /\ thread[L].nCcalls >= LUAI_MAXCCALLS => InHandler(cstack, L, Len(cstack))
<1>1. cstack # <<>>
  BY DEF CallsInv, TodoOK
<1>2. cstack \in Seq(Activations)
  BY DEF CallsInv, CallsTypeOK
<1>. QED  BY <1>1, <1>2, TopFacts DEF Lives, Errors

(* What a stack with one more activation of the thread on top says of it.  *)
LEMMA OneOver ==
  ASSUME CallsInv, todo \in {"run", "error"}, NEW a \in Activations, a.t = L,
         NEW cs, cs = Append(cstack, a)
  PROVE  /\ cs[Len(cs)] = a /\ cs[Len(cs) - 1] = Top /\ Len(cs) = Len(cstack) + 1
         /\ SaysMore(cstack, cs, L)
         /\ CallsIn(cs, L, Len(cs) - 1) = CallsIn(cstack, L, Len(cstack))
         /\ FramesIn(cs, L, Len(cs) - 1) = FramesIn(cstack, L, Len(cstack))
         /\ HooksOff(cs, L, Len(cs) - 1) <=> HooksOff(cstack, L, Len(cstack))
         /\ InHandler(cs, L, Len(cs) - 1) <=> InHandler(cstack, L, Len(cstack))
         /\ Handled(cs, L, Len(cs) - 1) <=> Handled(cstack, L, Len(cstack))
<1>1. cstack \in Seq(Activations) /\ Len(cstack) \in Nat \ {0} /\ Top = cstack[Len(cstack)]
  BY Caller
<1>2. IsPush(cs, cstack) /\ cs[Len(cs)] = a
  BY <1>1, Appended
<1>3. Len(cs) = Len(cstack) + 1 /\ \A i \in 1 .. Len(cstack) : cs[i] = cstack[i]
  BY <1>2 DEF IsPush
<1>. DEFINE n == Len(cstack)
<1>4. n \in Nat \ {0} /\ Len(cs) - 1 = n /\ (\A i \in 1 .. n : cs[i] = cstack[i]) /\ cs[n] = cstack[n]
  BY <1>1, <1>3
<1>. HIDE DEF n
<1>5. SaysMore(cstack, cs, L)
  BY <1>1, <1>2, PushSays
<1>6. /\ CallsIn(cs, L, n) = CallsIn(cstack, L, n)
      /\ FramesIn(cs, L, n) = FramesIn(cstack, L, n)
      /\ HooksOff(cs, L, n) <=> HooksOff(cstack, L, n)
      /\ InHandler(cs, L, n) <=> InHandler(cstack, L, n)
      /\ Handled(cs, L, n) <=> Handled(cstack, L, n)
  <2>. DEFINE t == L
  <2>1. n \in Nat /\ \A i \in 1 .. n : cs[i] = cstack[i]
    BY <1>4
  <2>. HIDE DEF t
  <2>2. /\ CallsIn(cs, t, n) = CallsIn(cstack, t, n)
        /\ FramesIn(cs, t, n) = FramesIn(cstack, t, n)
        /\ HooksOff(cs, t, n) <=> HooksOff(cstack, t, n)
        /\ InHandler(cs, t, n) <=> InHandler(cstack, t, n)
        /\ Handled(cs, t, n) <=> Handled(cstack, t, n)
    BY ZenonT(40), <2>1, SamePrefix
  <2>. QED  BY <2>2 DEF t
<1>. QED  BY <1>1, <1>2, <1>3, <1>4, <1>5, <1>6 DEF n

(* A hook is called: hooks are off until it returns (luaD_callhook).       *)
LEMMA HookKeeps ==
  ASSUME CallsInv, Hook
  PROVE  CallsInv'
<1>. DEFINE a == InHook(L)
            cs == Append(cstack, a)
            r == [thread[L] EXCEPT !.allowhook = FALSE]
<1>1. todo = "run" /\ thread[L].allowhook /\ DCall(L, r, cs, Lua) /\ over' = over
  BY DEF Hook, Running
<1>2. /\ cstack # <<>> /\ L \in AllThreads /\ Top.t = L
      /\ thread[L] \in ThreadStates /\ Agrees(cstack, L, Len(cstack), thread[L])
      /\ FramesAgree(cstack, L, Len(cstack), thread[L]) /\ SizeOK(thread[L])
      /\ thread[L].nCcalls >= LUAI_MAXCCALLS => InHandler(cstack, L, Len(cstack))
  BY <1>1, Caller
<1>3. a \in Activations /\ a.t = L /\ a.k = "hook"
  BY <1>2 DEF InHook, Activations
<1>4. r \in ThreadStates /\ ~r.allowhook /\ r.status = thread[L].status /\ r.values = thread[L].values
      /\ r.nCcalls = thread[L].nCcalls /\ r.errfunc = thread[L].errfunc /\ r.ci = thread[L].ci
      /\ r.size_ci = thread[L].size_ci
  BY <1>2 DEF ThreadStates
<1>. HIDE DEF a, r, cs
<1>5. /\ cs[Len(cs)] = a /\ cs[Len(cs) - 1] = Top
      /\ SaysMore(cstack, cs, L)
      /\ HooksOff(cs, L, Len(cs) - 1) <=> HooksOff(cstack, L, Len(cstack))
  BY <1>1, <1>3, OneOver DEF cs
<1>6. Fits(cs, Len(cs))
  BY <1>1, <1>2, <1>3, <1>5 DEF Fits, Agrees
<1>7. /\ Agrees(cs, L, Len(cs), r) /\ FramesAgree(cs, L, Len(cs), r) /\ SizeOK(r)
      /\ r.nCcalls >= LUAI_MAXCCALLS => InHandler(cs, L, Len(cs))
  BY <1>2, <1>3, <1>4, <1>5 DEF SaysMore, Agrees, FramesAgree, SizeOK, Weight
<1>8. Lua \in Functions
  BY DEF Functions, Lua
<1>. QED  BY <1>1, <1>2, <1>3, <1>4, <1>6, <1>7, <1>8, CallOverKeeps DEF cs

(* A finalizer is called: hooks are off until it returns (GCTM).           *)
LEMMA FinalizerKeeps ==
  ASSUME CallsInv, Finalizer
  PROVE  CallsInv'
<1>. DEFINE a == Finalizing(L, thread[L].allowhook)
            cs == Append(cstack, a)
            r == [thread[L] EXCEPT !.allowhook = FALSE]
<1>1. todo = "run" /\ DCall(L, r, cs, Lua) /\ over' = over
  BY DEF Finalizer, Running
<1>2. /\ cstack # <<>> /\ L \in AllThreads /\ Top.t = L
      /\ thread[L] \in ThreadStates /\ Agrees(cstack, L, Len(cstack), thread[L])
      /\ FramesAgree(cstack, L, Len(cstack), thread[L]) /\ SizeOK(thread[L])
      /\ thread[L].nCcalls >= LUAI_MAXCCALLS => InHandler(cstack, L, Len(cstack))
  BY <1>1, Caller
<1>3. a \in Activations /\ a.t = L /\ a.k = "gctm" /\ a.allowhook = thread[L].allowhook
  <2>1. thread[L].allowhook \in BOOLEAN
    BY <1>2 DEF ThreadStates
  <2>. QED  BY <1>2, <2>1 DEF Finalizing, Activations
<1>4. r \in ThreadStates /\ ~r.allowhook /\ r.status = thread[L].status /\ r.values = thread[L].values
      /\ r.nCcalls = thread[L].nCcalls /\ r.errfunc = thread[L].errfunc /\ r.ci = thread[L].ci
      /\ r.size_ci = thread[L].size_ci
  BY <1>2 DEF ThreadStates
<1>. HIDE DEF a, r, cs
<1>5. /\ cs[Len(cs)] = a /\ cs[Len(cs) - 1] = Top
      /\ SaysMore(cstack, cs, L)
      /\ HooksOff(cs, L, Len(cs) - 1) <=> HooksOff(cstack, L, Len(cstack))
  BY <1>1, <1>3, OneOver DEF cs
<1>6. Fits(cs, Len(cs))
  BY <1>1, <1>2, <1>3, <1>5 DEF Fits, Agrees
<1>7. /\ Agrees(cs, L, Len(cs), r) /\ FramesAgree(cs, L, Len(cs), r) /\ SizeOK(r)
      /\ r.nCcalls >= LUAI_MAXCCALLS => InHandler(cs, L, Len(cs))
  BY <1>2, <1>3, <1>4, <1>5 DEF SaysMore, Agrees, FramesAgree, SizeOK, Weight
<1>8. Lua \in Functions
  BY DEF Functions, Lua
<1>. QED  BY <1>1, <1>2, <1>3, <1>4, <1>6, <1>7, <1>8, CallOverKeeps DEF cs

(* The handler of errors is called on top of what failed (luaG_errormsg).  *)
LEMMA ErrorMsgKeeps ==
  ASSUME CallsInv, ErrorMsg
  PROVE  CallsInv'
<1>. DEFINE a == Handling(L)
            cs == Append(cstack, a)
            r == thread[L]
<1>1. todo = "error" /\ DCall(L, r, cs, Lua) /\ over' = over
  BY DEF ErrorMsg
<1>2. /\ cstack # <<>> /\ L \in AllThreads /\ Top.t = L
      /\ r \in ThreadStates /\ Agrees(cstack, L, Len(cstack), r)
      /\ FramesAgree(cstack, L, Len(cstack), r) /\ SizeOK(r)
  BY <1>1, Caller
<1>3. a \in Activations /\ a.t = L /\ a.k = "errormsg"
  BY <1>2 DEF Handling, Activations
<1>. HIDE DEF a, cs
<1>4. cs[Len(cs)] = a /\ cs[Len(cs) - 1] = Top /\ SaysMore(cstack, cs, L)
  BY <1>1, <1>3, OneOver DEF cs
<1>5. Fits(cs, Len(cs))
  BY <1>2, <1>3, <1>4 DEF Fits
<1>6. /\ Agrees(cs, L, Len(cs), r) /\ FramesAgree(cs, L, Len(cs), r)
      /\ InHandler(cs, L, Len(cs))
  BY <1>2, <1>3, <1>4 DEF SaysMore, Agrees, FramesAgree, Weight
<1>7. Lua \in Functions
  BY DEF Functions, Lua
<1>. QED  BY <1>1, <1>2, <1>3, <1>5, <1>6, <1>7, CallOverKeeps DEF cs

(* A protected call saves the state of its thread, and its handler is in   *)
(* the frame of xpcall: not 0, because that frame is there.                *)
LEMMA PCallKeeps ==
  ASSUME CallsInv, NEW f \in Functions, PCall(f)
  PROVE  CallsInv'
<1>. DEFINE a == Protected(L)
            cs == Append(cstack, a)
            handler == IF Top.f[1] = "xpcall" THEN thread[L].ci ELSE 0
            r == [thread[L] EXCEPT !.errfunc = handler]
<1>1. todo = "run" /\ Top.k = "cfunction" /\ DCall(L, r, cs, f) /\ over' = over
  BY DEF PCall, Running
<1>2. /\ cstack # <<>> /\ L \in AllThreads /\ Top.t = L /\ Top = cstack[Len(cstack)]
      /\ thread[L] \in ThreadStates /\ Agrees(cstack, L, Len(cstack), thread[L])
      /\ FramesAgree(cstack, L, Len(cstack), thread[L]) /\ SizeOK(thread[L])
      /\ thread[L].nCcalls >= LUAI_MAXCCALLS => InHandler(cstack, L, Len(cstack))
      /\ Len(cstack) \in Nat \ {0}
  BY <1>1, Caller
<1>3. thread[L].ci \in Nat \ {0}
  <2>1. SaysMore(Front(cstack), cstack, L)
    BY <1>2, TopPushed
  <2>. QED  BY <1>1, <1>2, <2>1 DEF SaysMore, FramesAgree, Weight
<1>4. /\ a \in Activations /\ a.t = L /\ a.k = "pcall" /\ a.ci = thread[L].ci
      /\ a.nCcalls = thread[L].nCcalls /\ a.allowhook = thread[L].allowhook
      /\ a.errfunc = thread[L].errfunc
  <2>1. /\ thread[L].ci \in Nat /\ thread[L].nCcalls \in Nat /\ thread[L].allowhook \in BOOLEAN
        /\ thread[L].errfunc \in Nat
    BY <1>2 DEF ThreadStates
  <2>. QED  BY <1>2, <2>1 DEF Protected, Activations
<1>5. handler \in Nat /\ (handler # 0 <=> Top.f[1] = "xpcall")
  BY <1>3
<1>. HIDE DEF handler
<1>6. r \in ThreadStates /\ r.status = thread[L].status /\ r.values = thread[L].values
      /\ r.nCcalls = thread[L].nCcalls /\ r.errfunc = handler /\ r.ci = thread[L].ci
      /\ r.size_ci = thread[L].size_ci /\ r.allowhook = thread[L].allowhook
  BY <1>2, <1>5 DEF ThreadStates
<1>. HIDE DEF a, r, cs
<1>7. /\ cs[Len(cs)] = a /\ cs[Len(cs) - 1] = Top
      /\ SaysMore(cstack, cs, L)
      /\ CallsIn(cs, L, Len(cs) - 1) = CallsIn(cstack, L, Len(cstack))
      /\ FramesIn(cs, L, Len(cs) - 1) = FramesIn(cstack, L, Len(cstack))
      /\ HooksOff(cs, L, Len(cs) - 1) <=> HooksOff(cstack, L, Len(cstack))
      /\ InHandler(cs, L, Len(cs) - 1) <=> InHandler(cstack, L, Len(cstack))
      /\ Handled(cs, L, Len(cs) - 1) <=> Handled(cstack, L, Len(cstack))
  BY <1>1, <1>4, OneOver DEF cs
<1>8. Fits(cs, Len(cs))
  <2>1. /\ Agrees(cs, L, Len(cs) - 1, a) /\ FramesAgree(cs, L, Len(cs) - 1, a)
        /\ a.nCcalls >= LUAI_MAXCCALLS => InHandler(cs, L, Len(cs) - 1)
    BY <1>2, <1>4, <1>7 DEF Agrees, FramesAgree, NCalls, NFrames
  <2>. QED  BY <1>2, <1>4, <1>7, <2>1 DEF Fits
<1>9. /\ Agrees(cs, L, Len(cs), r) /\ FramesAgree(cs, L, Len(cs), r) /\ SizeOK(r)
      /\ r.nCcalls >= LUAI_MAXCCALLS => InHandler(cs, L, Len(cs))
  BY <1>2, <1>4, <1>5, <1>6, <1>7 DEF SaysMore, Agrees, FramesAgree, SizeOK, Weight
<1>. QED  BY <1>1, <1>2, <1>4, <1>6, <1>8, <1>9, CallOverKeeps DEF cs

-----------------------------------------------------------------------------
(* Steps of the thread on top.                                             *)

(* A step of the activation on top, which changes its own thread only. *)
LEMMA TopActs ==
  ASSUME CallsInv, cstack # <<>>, NEW r \in ThreadStates, thread' = [thread EXCEPT ![L] = r],
         over' = over, cstack' \in Seq(Activations), StackOK(cstack'),
         NEW n, Differ(cstack, cstack', L, n), todo' \in {"run", "return"} \union Errors,
         TodoOK', Lives(cstack', todo', L, r)
  PROVE  CallsInv'
<1>1. L \in AllThreads /\ L \notin over /\ TopIs(cstack, L)
  BY TopFacts
<1>2. thread \in [AllThreads -> ThreadStates] /\ over \subseteq Coroutines
  BY DEF CallsInv, CallsTypeOK
<1>3. /\ thread' \in [AllThreads -> ThreadStates] /\ thread'[L] = r
      /\ \A u \in AllThreads \ {L} : thread'[u] = thread[u]
  BY <1>1, <1>2
<1>4. ASSUME NEW t, t = L PROVE CallsInv'
  <2>1. /\ t \in AllThreads /\ Differ(cstack, cstack', t, n) /\ TopIs(cstack, t)
        /\ \A u \in AllThreads \ {t} : thread'[u] = thread[u]
        /\ t \notin over' /\ Lives(cstack', todo', t, thread'[t])
    BY <1>1, <1>3, <1>4
  <2>. QED  BY <1>2, <1>3, <2>1, ActorOnly
<1>. QED  BY <1>4

(* The stack stays as it is.                                               *)
LEMMA StackStays ==
  ASSUME CallsInv, todo = "run", cstack' = cstack, over' = over,
         NEW r \in ThreadStates, thread' = [thread EXCEPT ![L] = r],
         FramesOnly(thread[L], r), SizeOK(r), r.ci = thread[L].ci,
         todo' \in {"run"} \union Errors
  PROVE  CallsInv'
<1>1. cstack # <<>> /\ cstack \in Seq(Activations) /\ StackOK(cstack)
  BY DEF CallsInv, TodoOK, CallsTypeOK
<1>2. /\ Len(cstack) \in Nat \ {0} /\ TopIs(cstack, L) /\ On(cstack, L)
      /\ Lives(cstack, todo, L, thread[L]) /\ thread[L].status = "ok"
      /\ FramesAgree(cstack, L, Len(cstack), thread[L])
  BY <1>1, TopFacts
<1>3. Lives(cstack', todo', L, r)
  BY <1>2 DEF Lives, Agrees, FramesAgree, FramesOnly, Errors
<1>4. TodoOK'
  BY <1>1 DEF TodoOK, CallsInv
<1>5. Differ(cstack, cstack', L, Len(cstack))
  BY <1>2 DEF Differ
<1>. QED  BY <1>1, <1>3, <1>4, <1>5, TopActs

(* An error that no handler has seen.                                      *)
LEMMA RaiseKeeps ==
  ASSUME CallsInv, todo = "run", todo' \in Errors, UNCHANGED <<thread, cstack, over>>
  PROVE  CallsInv'
<1>1. cstack # <<>>
  BY DEF CallsInv, TodoOK
<1>2. thread[L] \in ThreadStates /\ SizeOK(thread[L]) /\ L \in AllThreads
  BY <1>1, TopFacts DEF Lives
<1>3. thread' = [thread EXCEPT ![L] = thread[L]]
  BY <1>2 DEF CallsInv, CallsTypeOK
<1>. QED  BY <1>2, <1>3, StackStays DEF FramesOnly

(* The activation on top returns, and its thread goes on below it.         *)
LEMMA PopKeeps ==
  ASSUME CallsInv, cstack # <<>>, todo \in {"run", "return"}, Top.k \notin {"resume", "errormsg"},
         BackTo(Front(cstack)), over' = over,
         NEW r \in ThreadStates, thread' = [thread EXCEPT ![L] = r],
         r.status = thread[L].status, r.values = thread[L].values, r.nCcalls <= thread[L].nCcalls,
         Agrees(Front(cstack), L, Len(Front(cstack)), r),
         FramesAgree(Front(cstack), L, Len(Front(cstack)), r), SizeOK(r)
  PROVE  CallsInv'
<1>. DEFINE f == Front(cstack)
            n == Len(cstack) - 1
<1>1. /\ f \in Seq(Activations) /\ IsCut(f, cstack, n) /\ Len(f) = n /\ StackOK(f)
      /\ SaysMore(f, cstack, L)
  BY TopPushed
<1>2. /\ Len(cstack) \in Nat \ {0} /\ Top = cstack[Len(cstack)] /\ Top.t = L
      /\ thread[L] \in ThreadStates /\ Lives(cstack, todo, L, thread[L]) /\ thread[L].status = "ok"
      /\ On(cstack, L)
  BY TopFacts
<1>3. cstack' = f /\ todo' = (IF f # <<>> /\ f[Len(f)].k = "execute" THEN "run" ELSE "return")
  BY DEF BackTo, Goes, Last
<1>4. n \in Nat /\ Len(cstack) = n + 1 /\ \A i \in 1 .. n : f[i] = cstack[i]
  BY <1>1, <1>2 DEF IsCut
<1>5. L = MainThread \/ On(f, L)
  <2>1. Placed(cstack, n + 1)
    BY <1>4 DEF CallsInv, StackOK
  <2>2. CASE n = 0
    BY <1>2, <1>4, <2>1, <2>2 DEF Placed, AtBottom
  <2>3. CASE n # 0
    <3>1. cstack[n].t = L /\ n \in 1 .. n
      BY <1>2, <1>4, <2>1, <2>3 DEF Placed, Fits
    <3>. QED  BY <1>1, <1>4, <3>1 DEF On
  <2>. QED  BY <2>2, <2>3
<1>6. InHandler(cstack, L, Len(cstack)) <=> InHandler(f, L, Len(f))
  BY <1>1, <1>2 DEF SaysMore
<1>7. r.nCcalls >= LUAI_MAXCCALLS => InHandler(f, L, Len(f))
  <2>1. r.nCcalls \in Nat /\ thread[L].nCcalls \in Nat /\ LUAI_MAXCCALLS \in Nat
    BY <1>2, LimitsAssumption DEF ThreadStates
  <2>2. thread[L].nCcalls >= LUAI_MAXCCALLS => InHandler(cstack, L, Len(cstack))
    BY <1>2 DEF Lives, Errors
  <2>. QED  BY <1>6, <2>1, <2>2
<1>8. L # MainThread => r.values = 0
  BY <1>2 DEF Lives
<1>9. Lives(f, todo', L, r)
  BY <1>2, <1>5, <1>7, <1>8 DEF Lives
<1>10. Differ(cstack, f, L, n)
  BY <1>1, <1>2, <1>4 DEF Differ
<1>11. TodoOK'
  BY <1>3 DEF TodoOK
<1>12. todo' \in {"run", "return"} \union Errors
  BY <1>3
<1>. HIDE DEF f, n
<1>. QED  BY <1>1, <1>3, <1>9, <1>10, <1>11, <1>12, TopActs

(* What the thread on top is, when an activation of it is left.            *)
LEMMA Leaver ==
  ASSUME CallsInv, cstack # <<>>, Top.k # "resume", todo \in {"run", "return"}
  PROVE  /\ L \in AllThreads /\ Top.t = L /\ Top \in Activations /\ thread[L] \in ThreadStates
         /\ Agrees(cstack, L, Len(cstack), thread[L])
         /\ FramesAgree(cstack, L, Len(cstack), thread[L]) /\ SizeOK(thread[L])
         /\ SaysMore(Front(cstack), cstack, L) /\ Top = cstack[Len(cstack)]
         /\ thread \in [AllThreads -> ThreadStates]
         /\ Len(cstack) > 1 => Fits(cstack, Len(cstack))
         /\ Len(cstack) = 1 => AtBottom(Top)
         /\ Len(cstack) \in Nat \ {0} /\ Len(Front(cstack)) = Len(cstack) - 1
         /\ \A i \in 1 .. Len(cstack) - 1 : Front(cstack)[i] = cstack[i]
<1>1. /\ Len(cstack) \in Nat \ {0} /\ Top = cstack[Len(cstack)]
      /\ L \in AllThreads /\ Top.t = L /\ Top \in Activations /\ thread[L] \in ThreadStates
      /\ Agrees(cstack, L, Len(cstack), thread[L])
      /\ FramesAgree(cstack, L, Len(cstack), thread[L]) /\ SizeOK(thread[L])
  BY TopFacts DEF Lives
<1>2. Placed(cstack, Len(cstack))
  BY <1>1 DEF CallsInv, StackOK
<1>3. Len(cstack) > 1 => Fits(cstack, Len(cstack))
  BY <1>1, <1>2 DEF Placed
<1>4. Len(cstack) = 1 => AtBottom(Top)
  BY <1>1, <1>2 DEF Placed
<1>5. /\ SaysMore(Front(cstack), cstack, L) /\ Len(Front(cstack)) = Len(cstack) - 1
      /\ \A i \in 1 .. Len(cstack) - 1 : Front(cstack)[i] = cstack[i]
  BY TopPushed DEF IsCut
<1>6. thread \in [AllThreads -> ThreadStates]
  BY DEF CallsInv, CallsTypeOK
<1>. QED  BY <1>1, <1>3, <1>4, <1>5, <1>6

(* A frame is left: by a C function, or by luaV_execute at its last one.   *)
LEMMA FrameLeft ==
  ASSUME CallsInv, cstack # <<>>, todo \in {"run", "return"},
         Top.k = "cfunction" \/ (Top.k = "execute" /\ Top.n = 1),
         BackTo(Front(cstack)), over' = over, thread' = [thread EXCEPT ![L].ci = @ - 1]
  PROVE  CallsInv'
<1>. DEFINE r == [thread[L] EXCEPT !.ci = thread[L].ci - 1]
<1>1. /\ L \in AllThreads /\ Top.t = L /\ thread[L] \in ThreadStates
      /\ Agrees(cstack, L, Len(cstack), thread[L])
      /\ FramesAgree(cstack, L, Len(cstack), thread[L]) /\ SizeOK(thread[L])
      /\ SaysMore(Front(cstack), cstack, L) /\ Top = cstack[Len(cstack)]
  BY Leaver
<1>2. thread[L].ci = NFrames(Front(cstack), L, Len(Front(cstack))) + 1
      /\ NFrames(Front(cstack), L, Len(Front(cstack))) \in Nat
  BY <1>1 DEF SaysMore, Weight, FramesAgree
<1>3. /\ r \in ThreadStates /\ r.ci = thread[L].ci - 1 /\ r.status = thread[L].status
      /\ r.values = thread[L].values /\ r.nCcalls = thread[L].nCcalls /\ r.size_ci = thread[L].size_ci
      /\ r.allowhook = thread[L].allowhook /\ r.errfunc = thread[L].errfunc
      /\ thread' = [thread EXCEPT ![L] = r]
  <2>1. thread[L].ci - 1 \in Nat
    BY <1>2
  <2>2. r \in ThreadStates
    BY <1>1, <2>1 DEF ThreadStates
  <2>. QED  BY <1>1, <2>2 DEF ThreadStates
<1>. HIDE DEF r
<1>4. /\ Agrees(Front(cstack), L, Len(Front(cstack)), r)
      /\ FramesAgree(Front(cstack), L, Len(Front(cstack)), r)
  BY <1>1, <1>2, <1>3 DEF SaysMore, Agrees, FramesAgree
<1>5. SizeOK(r)
  BY <1>1, <1>2, <1>3 DEF SizeOK, ThreadStates
<1>6. r.nCcalls <= thread[L].nCcalls
  BY <1>1, <1>3 DEF ThreadStates
<1>. QED  BY <1>3, <1>4, <1>5, <1>6, PopKeeps

(* luaD_call returns: the call is no longer counted.                       *)
LEMMA LeaveCallKeeps ==
  ASSUME CallsInv, LeaveCall
  PROVE  CallsInv'
<1>. DEFINE r == [thread[L] EXCEPT !.nCcalls = thread[L].nCcalls - 1]
<1>1. /\ todo = "return" /\ cstack # <<>> /\ Top.k = "call" /\ BackTo(Front(cstack))
      /\ over' = over /\ thread' = [thread EXCEPT ![L] = r]
  BY DEF LeaveCall, Leaves
<1>2. /\ L \in AllThreads /\ Top.t = L /\ thread[L] \in ThreadStates
      /\ Agrees(cstack, L, Len(cstack), thread[L])
      /\ FramesAgree(cstack, L, Len(cstack), thread[L]) /\ SizeOK(thread[L])
      /\ SaysMore(Front(cstack), cstack, L) /\ Top = cstack[Len(cstack)]
  BY <1>1, Leaver
<1>3. thread[L].nCcalls = NCalls(Front(cstack), L, Len(Front(cstack))) + 1
      /\ NCalls(Front(cstack), L, Len(Front(cstack))) \in Nat
  BY <1>1, <1>2 DEF SaysMore, Agrees
<1>4. /\ r \in ThreadStates /\ r.nCcalls = thread[L].nCcalls - 1 /\ r.status = thread[L].status
      /\ r.values = thread[L].values /\ r.ci = thread[L].ci /\ r.size_ci = thread[L].size_ci
      /\ r.allowhook = thread[L].allowhook /\ r.errfunc = thread[L].errfunc
  <2>1. thread[L].nCcalls - 1 \in Nat
    BY <1>3
  <2>2. r \in ThreadStates
    BY <1>2, <2>1 DEF ThreadStates
  <2>. QED  BY <1>2, <2>2 DEF ThreadStates
<1>. HIDE DEF r
<1>5. /\ Agrees(Front(cstack), L, Len(Front(cstack)), r)
      /\ FramesAgree(Front(cstack), L, Len(Front(cstack)), r) /\ SizeOK(r)
  BY <1>1, <1>2, <1>3, <1>4 DEF SaysMore, Agrees, FramesAgree, SizeOK, Weight
<1>6. r.nCcalls <= thread[L].nCcalls
  BY <1>3, <1>4
<1>. QED  BY <1>1, <1>4, <1>5, <1>6, PopKeeps

(* luaD_pcall puts the handler of the thread back, which was in force      *)
(* below it.                                                               *)
LEMMA LeavePCallKeeps ==
  ASSUME CallsInv, LeavePCall
  PROVE  CallsInv'
<1>. DEFINE r == [thread[L] EXCEPT !.errfunc = Top.errfunc]
            f == Front(cstack)
<1>1. /\ todo = "return" /\ cstack # <<>> /\ Top.k = "pcall" /\ BackTo(Front(cstack))
      /\ over' = over /\ thread' = [thread EXCEPT ![L] = r]
  BY DEF LeavePCall, Leaves, HandlerBack
<1>2. /\ L \in AllThreads /\ Top.t = L /\ Top \in Activations /\ thread[L] \in ThreadStates
      /\ Agrees(cstack, L, Len(cstack), thread[L])
      /\ FramesAgree(cstack, L, Len(cstack), thread[L]) /\ SizeOK(thread[L])
      /\ SaysMore(f, cstack, L) /\ Top = cstack[Len(cstack)]
      /\ Len(cstack) > 1 => Fits(cstack, Len(cstack))
      /\ Len(cstack) = 1 => AtBottom(Top)
      /\ Len(cstack) \in Nat \ {0} /\ Len(f) = Len(cstack) - 1
      /\ \A i \in 1 .. Len(cstack) - 1 : f[i] = cstack[i]
  BY <1>1, Leaver
<1>3. Top.errfunc \in Nat
  BY <1>1, <1>2, ActivationParts
<1>4. /\ r \in ThreadStates /\ r.nCcalls = thread[L].nCcalls /\ r.status = thread[L].status
      /\ r.values = thread[L].values /\ r.ci = thread[L].ci /\ r.size_ci = thread[L].size_ci
      /\ r.allowhook = thread[L].allowhook /\ r.errfunc = Top.errfunc
  BY <1>2, <1>3 DEF ThreadStates
<1>. HIDE DEF r, f
<1>5. r.errfunc # 0 <=> Handled(f, L, Len(f))
  <2>1. CASE Len(cstack) = 1
    BY <1>2, <1>4, <2>1 DEF AtBottom, Handled
  <2>2. CASE Len(cstack) > 1
    <3>. DEFINE t == L
                n == Len(f)
    <3>1. n \in Nat /\ \A i \in 1 .. n : cstack[i] = f[i]
      BY <1>2
    <3>2. r.errfunc # 0 <=> Handled(cstack, t, n)
      BY <1>1, <1>2, <1>4, <2>2 DEF Fits, Agrees
    <3>. HIDE DEF t, n
    <3>3. Handled(cstack, t, n) <=> Handled(f, t, n)
      BY <3>1, SamePrefix
    <3>. QED  BY <3>2, <3>3 DEF t, n
  <2>. QED  BY <1>2, <2>1, <2>2
<1>6. /\ Agrees(f, L, Len(f), r) /\ FramesAgree(f, L, Len(f), r) /\ SizeOK(r)
  BY <1>1, <1>2, <1>4, <1>5 DEF SaysMore, Agrees, FramesAgree, SizeOK, Weight
<1>7. r.nCcalls <= thread[L].nCcalls
  BY <1>2, <1>4 DEF ThreadStates
<1>. QED  BY <1>1, <1>4, <1>6, <1>7, PopKeeps DEF f

(* luaD_callhook and GCTM put allowhook back: hooks were on before a hook, *)
(* and were as GCTM found them before a finalizer.                         *)
LEMMA HooksBackKeeps ==
  ASSUME CallsInv, LeaveHook \/ LeaveFinalizer
  PROVE  CallsInv'
<1>. DEFINE b == IF Top.k = "hook" THEN TRUE ELSE Top.allowhook
            r == [thread[L] EXCEPT !.allowhook = b]
            f == Front(cstack)
<1>1. /\ todo = "return" /\ cstack # <<>> /\ Top.k \in {"hook", "gctm"} /\ BackTo(Front(cstack))
      /\ over' = over /\ thread' = [thread EXCEPT ![L] = r]
  BY DEF LeaveHook, LeaveFinalizer, Leaves
<1>2. /\ L \in AllThreads /\ Top.t = L /\ Top \in Activations /\ thread[L] \in ThreadStates
      /\ Agrees(cstack, L, Len(cstack), thread[L])
      /\ FramesAgree(cstack, L, Len(cstack), thread[L]) /\ SizeOK(thread[L])
      /\ SaysMore(f, cstack, L) /\ Top = cstack[Len(cstack)]
      /\ Len(cstack) > 1 => Fits(cstack, Len(cstack))
      /\ Len(cstack) = 1 => AtBottom(Top)
      /\ Len(cstack) \in Nat \ {0} /\ Len(f) = Len(cstack) - 1
      /\ \A i \in 1 .. Len(cstack) - 1 : f[i] = cstack[i]
  BY <1>1, Leaver
<1>3. b \in BOOLEAN
  BY <1>1, <1>2, ActivationParts
<1>4. /\ r \in ThreadStates /\ r.nCcalls = thread[L].nCcalls /\ r.status = thread[L].status
      /\ r.values = thread[L].values /\ r.ci = thread[L].ci /\ r.size_ci = thread[L].size_ci
      /\ r.allowhook = b /\ r.errfunc = thread[L].errfunc
  BY <1>2, <1>3 DEF ThreadStates
<1>5. Len(cstack) > 1
  BY <1>1, <1>2 DEF AtBottom
<1>6. b <=> ~HooksOff(cstack, L, Len(f))
  BY <1>1, <1>2, <1>5 DEF Fits
<1>. HIDE DEF r, f, b
<1>7. HooksOff(cstack, L, Len(f)) <=> HooksOff(f, L, Len(f))
  <2>. DEFINE t == L
              n == Len(f)
  <2>1. n \in Nat /\ \A i \in 1 .. n : cstack[i] = f[i]
    BY <1>2
  <2>. HIDE DEF t, n
  <2>2. HooksOff(cstack, t, n) <=> HooksOff(f, t, n)
    BY <2>1, SamePrefix
  <2>. QED  BY <2>2 DEF t, n
<1>8. /\ Agrees(f, L, Len(f), r) /\ FramesAgree(f, L, Len(f), r) /\ SizeOK(r)
  <2>1. r.allowhook <=> ~HooksOff(f, L, Len(f))
    BY <1>4, <1>6, <1>7
  <2>. QED  BY <1>1, <1>2, <1>4, <2>1 DEF SaysMore, Agrees, FramesAgree, SizeOK, Weight
<1>9. r.nCcalls <= thread[L].nCcalls
  BY <1>2, <1>4 DEF ThreadStates
<1>. QED  BY <1>1, <1>4, <1>8, <1>9, PopKeeps DEF f

(* The handler has returned and the error goes on, in the same thread.     *)
LEMMA LeaveHandlerKeeps ==
  ASSUME CallsInv, LeaveHandler
  PROVE  CallsInv'
<1>. DEFINE f == Front(cstack)
            n == Len(cstack) - 1
<1>1. /\ todo = "return" /\ cstack # <<>> /\ Top.k = "errormsg" /\ cstack' = f
      /\ todo' = "errrun" /\ thread' = thread /\ over' = over
  BY DEF LeaveHandler, Goes
<1>2. /\ L \in AllThreads /\ Top.t = L /\ thread[L] \in ThreadStates
      /\ Agrees(cstack, L, Len(cstack), thread[L])
      /\ FramesAgree(cstack, L, Len(cstack), thread[L]) /\ SizeOK(thread[L])
      /\ SaysMore(f, cstack, L) /\ Top = cstack[Len(cstack)]
      /\ thread \in [AllThreads -> ThreadStates]
      /\ Len(cstack) > 1 => Fits(cstack, Len(cstack))
      /\ Len(cstack) = 1 => AtBottom(Top)
      /\ Len(cstack) \in Nat \ {0} /\ Len(f) = Len(cstack) - 1
      /\ \A i \in 1 .. Len(cstack) - 1 : f[i] = cstack[i]
  BY <1>1, Leaver
<1>3. f \in Seq(Activations) /\ StackOK(f)
  BY <1>1, TopPushed
<1>4. Lives(cstack, todo, L, thread[L]) /\ thread[L].status = "ok" /\ On(cstack, L)
  BY <1>1, TopFacts
<1>5. n \in Nat \ {0} /\ Len(f) = n /\ f[n] = cstack[n] /\ cstack[n].t = L
  BY <1>1, <1>2 DEF AtBottom, Fits
<1>6. TopIs(f, L) /\ On(f, L)
  BY <1>5 DEF TopIs, On
<1>7. Differ(cstack, f, L, n)
  BY <1>2, <1>5 DEF Differ
<1>. HIDE DEF f, n
<1>8. Agrees(f, L, Len(f), thread[L]) /\ FramesAgree(f, L, Len(f), thread[L])
  BY <1>1, <1>2 DEF SaysMore, Agrees, FramesAgree, Weight
<1>9. Lives(f, "errrun", L, thread[L])
  BY <1>4, <1>6, <1>8 DEF Lives, Errors
<1>10. TodoOK'
  BY <1>1, <1>5 DEF TodoOK
<1>11. thread' = [thread EXCEPT ![L] = thread[L]]
  BY <1>1, <1>2
<1>. QED  BY <1>1, <1>2, <1>3, <1>7, <1>9, <1>10, <1>11, TopActs DEF Errors

(* A thread without an activation has nothing to count.                    *)
LEMMA NotOn ==
  ASSUME NEW cs \in Seq(Activations), NEW t, ~On(cs, t)
  PROVE  /\ NCalls(cs, t, Len(cs)) = 0 /\ NFrames(cs, t, Len(cs)) = 0
         /\ ~HooksOff(cs, t, Len(cs)) /\ ~InHandler(cs, t, Len(cs)) /\ ~Handled(cs, t, Len(cs))
<1>. DEFINE n == Len(cs)
<1>1. n \in Nat /\ \A i \in 1 .. n : cs[i].t # t
  BY DEF On
<1>. HIDE DEF n
<1>2. CallsIn(cs, t, n) = {}
  BY <1>1 DEF CallsIn
<1>3. FramesIn(cs, t, n) = {}
  BY <1>1 DEF FramesIn
<1>4. ~HooksOff(cs, t, n) /\ ~InHandler(cs, t, n) /\ ~Handled(cs, t, n)
  BY <1>1 DEF HooksOff, InHandler, Handled
<1>. QED  BY <1>2, <1>3, <1>4, FS_EmptySet DEF NCalls, NFrames, n

(* lua_resume returns: the coroutine has yielded and keeps its frames, or  *)
(* its body has returned and it has none, but for results that the thread  *)
(* below had no room for.                                                  *)
LEMMA LeaveResumeKeeps ==
  ASSUME CallsInv, LeaveResume \/ TooManyResults
  PROVE  CallsInv'
<1>. DEFINE f == Front(cstack)
            n == Len(cstack) - 1
            r == thread[L]
            s == thread'[L]
<1>1. /\ todo = "return" /\ cstack # <<>> /\ Top.k = "resume" /\ cstack' = f
      /\ over' = IF r.status = "ok" THEN over \union {L} ELSE over
      /\ todo' \in {"run", "return"} \union Errors
      /\ todo' = "run" => f # <<>> /\ f[Len(f)].k = "execute"
  BY DEF LeaveResume, TooManyResults, Leaves, BackTo, Goes, Last, Raised, Errors
<1>2. /\ Len(cstack) \in Nat \ {0} /\ Top = cstack[Len(cstack)] /\ L = Top.t
      /\ Top \in Activations /\ L \in AllThreads /\ L \notin over /\ TopIs(cstack, L) /\ On(cstack, L)
      /\ r \in ThreadStates /\ Lives(cstack, todo, L, r)
  BY <1>1, TopFacts
<1>3. L \in Coroutines /\ L # MainThread
  BY <1>1, <1>2, ActivationParts, ThreadsAssumption
<1>4. /\ f \in Seq(Activations) /\ StackOK(f) /\ SaysMore(f, cstack, L) /\ Len(f) = n
      /\ \A i \in 1 .. n : f[i] = cstack[i]
  BY <1>1, TopPushed DEF IsCut
<1>5. ~On(f, L) /\ n # 0
  <2>1. Placed(cstack, Len(cstack))
    BY <1>2 DEF CallsInv, StackOK
  <2>2. (\A i \in 1 .. n : cstack[i].t # L) /\ n # 0
    BY <1>1, <1>2, <2>1 DEF Placed, AtBottom, Fits
  <2>. QED  BY <1>2, <1>4, <2>2 DEF On
<1>6. n \in Nat /\ Differ(cstack, f, L, n)
  BY <1>2, <1>4 DEF Differ
<1>7. /\ thread' \in [AllThreads -> ThreadStates]
      /\ \A u \in AllThreads \ {L} : thread'[u] = thread[u]
      /\ r.status # "ok" => s = r
      /\ /\ s.status = r.status /\ s.ci = r.ci /\ s.nCcalls = r.nCcalls /\ s.size_ci = r.size_ci
         /\ s.allowhook = r.allowhook /\ s.errfunc = r.errfunc
  <2>1. thread \in [AllThreads -> ThreadStates]
    BY DEF CallsInv, CallsTypeOK
  <2>2. thread' = thread \/ (r.status = "ok" /\ thread' = [thread EXCEPT ![L].values = 1])
    BY <1>1 DEF LeaveResume, TooManyResults
  <2>3. CASE thread' = thread
    BY <2>1, <2>3
  <2>4. CASE r.status = "ok" /\ thread' = [thread EXCEPT ![L].values = 1]
    BY <1>2, <2>1, <2>4 DEF ThreadStates
  <2>. QED  BY <2>2, <2>3, <2>4
<1>. HIDE DEF f, n, r, s
<1>8. Agrees(f, L, Len(f), r) /\ (r.status # "yield" => r.ci = NFrames(f, L, Len(f)))
  BY <1>1, <1>2, <1>4 DEF SaysMore, Agrees, FramesAgree, Weight, Lives
<1>9. r.status \in {"ok", "yield"} /\ r.values = 0 /\ SizeOK(r) /\ (r.status = "yield" => r.ci > 1)
  BY <1>2, <1>3 DEF Lives
<1>10. r.status = "ok" => r.ci = 0 /\ Idle(r)
  BY <1>2, <1>4, <1>5, <1>8, <1>9, NotOn DEF Idle, Agrees
<1>11. r.nCcalls >= LUAI_MAXCCALLS => InHandler(f, L, Len(f))
  BY <1>1, <1>2, <1>4 DEF Lives, Errors, SaysMore
<1>12. IF L \in over' THEN IsOver(f, L, s) ELSE Lives(f, todo', L, s)
  <2>1. CASE r.status = "ok"
    BY <1>1, <1>5, <1>7, <1>10, <2>1 DEF IsOver, Idle, SizeOK
  <2>2. CASE r.status # "ok"
    BY <1>1, <1>2, <1>3, <1>5, <1>7, <1>8, <1>9, <1>11, <2>2 DEF Lives
  <2>. QED  BY <2>1, <2>2
<1>13. TodoOK'
  <2>1. f # <<>>
    BY <1>4, <1>5
  <2>. QED  BY <1>1, <2>1 DEF TodoOK
<1>14. over' \subseteq Coroutines
  BY <1>1, <1>3 DEF CallsInv, CallsTypeOK
<1>15. ASSUME NEW t, t = L PROVE CallsInv'
  <2>1. /\ t \in AllThreads /\ Differ(cstack, cstack', t, n) /\ TopIs(cstack, t)
        /\ \A u \in AllThreads \ {t} : thread'[u] = thread[u]
        /\ \A u \in AllThreads \ {t} : u \in over' <=> u \in over
        /\ IF t \in over' THEN IsOver(cstack', t, thread'[t]) ELSE Lives(cstack', todo', t, thread'[t])
    BY <1>1, <1>2, <1>6, <1>7, <1>12, <1>15 DEF s
  <2>2. cstack' \in Seq(Activations) /\ StackOK(cstack')
    BY <1>1, <1>4
  <2>. QED  BY <1>1, <1>7, <1>13, <1>14, <2>1, <2>2, ActorOnly
<1>. QED  BY <1>15

(* lua_yield: no C activation is lost, so the coroutine is two activations *)
(* above its resume.                                                       *)
LEMMA YieldKeeps ==
  ASSUME CallsInv, Yield
  PROVE  CallsInv'
<1>. DEFINE f == Front(cstack)
            g == Front(f)
            n == Len(cstack)
            r == [thread[L] EXCEPT !.status = "yield"]
<1>1. /\ todo = "run" /\ Top.k = "cfunction" /\ thread[L].nCcalls = 0
      /\ thread' = [thread EXCEPT ![L] = r] /\ over' = over /\ BackTo(g)
  BY DEF Yield, Running
<1>2. cstack # <<>>
  BY <1>1 DEF CallsInv, TodoOK
<1>3. /\ n \in Nat \ {0} /\ Top = cstack[n] /\ L = Top.t /\ L \in AllThreads
      /\ thread[L] \in ThreadStates /\ Lives(cstack, todo, L, thread[L])
      /\ FramesAgree(cstack, L, n, thread[L]) /\ Agrees(cstack, L, n, thread[L])
      /\ SizeOK(thread[L]) /\ On(cstack, L)
  BY <1>1, <1>2, TopFacts DEF Lives
<1>4. /\ f \in Seq(Activations) /\ Len(f) = n - 1 /\ StackOK(f) /\ SaysMore(f, cstack, L)
      /\ \A i \in 1 .. n - 1 : f[i] = cstack[i]
  BY <1>2, TopPushed DEF IsCut
<1>5. cstack \in Seq(Activations) /\ \A i \in 1 .. n : Placed(cstack, i) /\ cstack[i] \in Activations
  BY DEF CallsInv, CallsTypeOK, StackOK
<1>. HIDE DEF f, g, n
<1>6. n > 1 /\ f[n - 1] = cstack[n - 1] /\ cstack[n - 1].t = L /\ cstack[n - 1].k \in {"execute", "call"}
  BY <1>1, <1>3, <1>4, <1>5 DEF Placed, AtBottom, Fits
<1>7. /\ NCalls(f, L, n - 1) = 0 /\ NFrames(f, L, n - 1) \in Nat /\ thread[L].ci = NFrames(f, L, n - 1) + 1
      /\ HooksOff(f, L, n - 1) <=> HooksOff(cstack, L, n)
      /\ Handled(f, L, n - 1) <=> Handled(cstack, L, n)
  BY <1>1, <1>3, <1>4 DEF SaysMore, Weight, Agrees, FramesAgree, n
<1>. DEFINE h == SubSeq(f, 1, n - 2)
<1>8. /\ h = g /\ n - 2 \in 0 .. Len(f)
  BY <1>4, <1>6, <1>3 DEF g, Front
<1>9. /\ g \in Seq(Activations) /\ IsCut(g, f, n - 2) /\ Len(g) = n - 2
      /\ \A i \in 1 .. n - 2 : g[i] = f[i]
  <2>. DEFINE m == n - 2
  <2>1. m \in 0 .. Len(f) /\ g = SubSeq(f, 1, m)
    BY <1>8
  <2>. HIDE DEF m
  <2>2. g \in Seq(Activations) /\ IsCut(g, f, m)
    BY <1>4, <2>1, SubSeqCuts
  <2>. QED  BY <2>2 DEF IsCut, m
<1>10. StackOK(g)
  BY <1>4, <1>9, Cut
<1>11. SaysMore(g, f, L)
  <2>1. IsPush(f, g)
    BY <1>3, <1>4, <1>6, <1>9 DEF IsPush
  <2>. QED  BY <1>9, <2>1, PushSays
<1>12. cstack[n - 1].k = "execute" /\ cstack[n - 1].n \in Nat \ {0}
  <2>1. cstack[n - 1].k # "call"
    BY <1>3, <1>4, <1>6, <1>7, <1>11 DEF SaysMore
  <2>. QED  BY <1>3, <1>5, <1>6, <2>1, ActivationParts
<1>13. n > 2 /\ cstack[n - 2].t = L /\ cstack[n - 2].k \in {"call", "resume"}
  BY SMTT(30), <1>3, <1>5, <1>6, <1>12 DEF Placed, AtBottom, Fits
<1>14. /\ NCalls(g, L, n - 2) = 0 /\ thread[L].ci > 1
       /\ HooksOff(g, L, n - 2) <=> HooksOff(cstack, L, n)
       /\ Handled(g, L, n - 2) <=> Handled(cstack, L, n)
  <2>1. /\ Len(f) = n - 1 /\ Len(g) = n - 2 /\ f[Len(f)] = cstack[n - 1] /\ cstack[n - 1].k = "execute"
        /\ cstack[n - 1].t = L /\ cstack[n - 1].n \in Nat \ {0}
    BY <1>4, <1>6, <1>9, <1>12
  <2>. QED  BY <1>7, <1>11, <2>1 DEF SaysMore, Weight
<1>15. g[n - 2] = cstack[n - 2] /\ n - 2 \in 1 .. n - 2
  BY <1>3, <1>4, <1>9, <1>13
<1>16. cstack[n - 2].k = "resume"
  <2>1. CASE cstack[n - 2].k = "call"
    <3>1. n - 2 \in CallsIn(g, L, n - 2)
      BY <1>13, <1>15, <2>1 DEF CallsIn
    <3>2. IsFiniteSet(CallsIn(g, L, n - 2))
      <4>. DEFINE m == n - 2
      <4>1. m \in Nat /\ \A i \in 1 .. m : g[i] \in Activations
        BY <1>9, <1>15
      <4>. HIDE DEF m
      <4>2. IsFiniteSet(CallsIn(g, L, m))
        BY <4>1, Finite
      <4>. QED  BY <4>2 DEF m
    <3>3. CallsIn(g, L, n - 2) = {}
      BY <1>14, <3>2, FS_EmptySet DEF NCalls
    <3>. QED  BY <3>1, <3>3
  <2>. QED  BY <1>13, <2>1
<1>17. L \in Coroutines /\ L # MainThread
  BY <1>3, <1>5, <1>13, <1>16, ActivationParts, ThreadsAssumption
<1>18. /\ r \in ThreadStates /\ r.nCcalls = 0 /\ r.status = "yield"
       /\ r.values = thread[L].values /\ r.ci = thread[L].ci /\ r.size_ci = thread[L].size_ci
       /\ r.allowhook = thread[L].allowhook /\ r.errfunc = thread[L].errfunc
  BY <1>1, <1>3 DEF ThreadStates
<1>. HIDE DEF r
<1>19. g # <<>> /\ g[Len(g)].t = L /\ g[Len(g)].k = "resume" /\ Len(g) > 0
  BY <1>9, <1>13, <1>15, <1>16
<1>20. cstack' = g /\ todo' = "return"
  BY <1>1, <1>19 DEF BackTo, Goes, Last
<1>21. Agrees(g, L, Len(g), r)
  BY <1>3, <1>9, <1>14, <1>18 DEF Agrees
<1>22. Lives(g, "return", L, r)
  <2>1. TopIs(g, L) /\ On(g, L)
    BY <1>9, <1>15, <1>19 DEF TopIs, On
  <2>2. ~(r.nCcalls >= LUAI_MAXCCALLS)
    BY <1>18, LimitsAssumption
  <2>3. r.values = 0
    BY <1>3, <1>17, <1>18 DEF Lives
  <2>4. SizeOK(r) /\ r.ci > 1
    BY <1>3, <1>14, <1>18 DEF SizeOK
  <2>. QED  BY <1>17, <1>18, <1>19, <1>21, <2>1, <2>2, <2>3, <2>4 DEF Lives
<1>23. Differ(cstack, g, L, n - 2)
  <2>1. \A i \in n - 1 .. n : cstack[i].t = L
    <3>1. \A i \in n - 1 .. n : i = n - 1 \/ i = n
      BY <1>3
    <3>. QED  BY <1>3, <1>6, <3>1
  <2>2. \A i \in 1 .. n - 2 : cstack[i] = g[i]
    BY <1>3, <1>4, <1>9
  <2>3. n - 2 \in 0 .. n /\ n - 2 + 1 = n - 1 /\ Len(g) = n - 2 /\ Len(cstack) = n
    BY <1>3, <1>9, <1>13 DEF n
  <2>. QED  BY <2>1, <2>2, <2>3 DEF Differ
<1>24. TodoOK'
  BY <1>20 DEF TodoOK
<1>. QED  BY <1>1, <1>2, <1>9, <1>10, <1>18, <1>20, <1>22, <1>23, <1>24, TopActs

(* The thread on top runs a coroutine: what it may resume has no           *)
(* activation, and nothing to count.                                       *)
LEMMA Resumable ==
  ASSUME CallsInv, NEW co \in Coroutines, todo = "run", CanResume(thread[co])
  PROVE  /\ ~On(cstack, co) /\ co # MainThread /\ co \in AllThreads
         /\ thread[co] \in ThreadStates /\ Idle(thread[co])
         /\ \/ thread[co].status = "ok" /\ thread[co].ci = 0
            \/ thread[co].status = "yield" /\ thread[co].values = 0 /\ thread[co].ci > 1
<1>1. co \in AllThreads /\ co # MainThread /\ thread[co] \in ThreadStates /\ cstack \in Seq(Activations)
  BY ThreadsAssumption DEF AllThreads, CallsInv, CallsTypeOK
<1>2. CASE co \in over
  <2>1. IsOver(cstack, co, thread[co])
    BY <1>1, <1>2 DEF CallsInv, ThreadsOK
  <2>. QED  BY <1>1, <2>1 DEF IsOver, CanResume
<1>3. CASE co \notin over
  <2>1. Lives(cstack, todo, co, thread[co])
    BY <1>1, <1>3 DEF CallsInv, ThreadsOK
  <2>2. ~On(cstack, co)
    <3>1. CASE thread[co].status = "yield"
      BY <1>1, <2>1, <3>1 DEF Lives
    <3>2. CASE thread[co].status # "yield"
      BY <1>1, <2>1, <3>2 DEF Lives, CanResume
    <3>. QED  BY <3>1, <3>2
  <2>3. \/ thread[co].status = "ok"
        \/ thread[co].status = "yield" /\ thread[co].values = 0 /\ thread[co].ci > 1
    BY <1>1, <2>1, <2>2 DEF Lives
  <2>4. thread[co].status = "ok" => thread[co].ci = 0
    BY DEF CanResume
  <2>5. /\ NCalls(cstack, co, Len(cstack)) = 0
        /\ ~HooksOff(cstack, co, Len(cstack)) /\ ~Handled(cstack, co, Len(cstack))
    BY <1>1, <2>2, NotOn
  <2>6. Idle(thread[co])
    BY <1>1, <2>1, <2>5 DEF Lives, Agrees, Idle
  <2>. QED  BY <1>1, <2>2, <2>3, <2>4, <2>6
<1>. QED  BY <1>2, <1>3

(* lua_resume: the frames of the coroutine, those it kept but that of      *)
(* yield, are run by a new luaV_execute.                                   *)
LEMMA ResumeKeeps ==
  ASSUME CallsInv, Resume
  PROVE  CallsInv'
<1>. DEFINE co == Top.f[2]
            q == thread[co]
            i == IF q.status # "yield" THEN IncCI([q EXCEPT !.values = 0])
                 ELSE [r |-> [q EXCEPT !.ci = q.ci - 1], next |-> "run"]
            s == [i.r EXCEPT !.status = "ok"]
            a == Resuming(co)
            e == Execute(co, s.ci)
            d == Append(cstack, a)
            b == Append(d, e)
            n == Len(cstack)
<1>1. /\ todo = "run" /\ Top.k = "cfunction" /\ Top.f[1] \in {"resume", "wrap"}
      /\ CanResume(q) /\ thread' = [thread EXCEPT ![co] = s]
      /\ cstack' = cstack \o <<a, e>> /\ todo' = i.next /\ over' = over \ {co}
  BY DEF Resume, Running, ResumedFrames, Goes
<1>2. cstack # <<>>
  BY <1>1 DEF CallsInv, TodoOK
<1>3. n \in Nat \ {0} /\ Top = cstack[n] /\ Top \in Activations
  BY <1>2, TopFacts
<1>4. /\ cstack \in Seq(Activations) /\ StackOK(cstack) /\ thread \in [AllThreads -> ThreadStates]
      /\ over \subseteq Coroutines
  BY DEF CallsInv, CallsTypeOK
<1>5. co \in Coroutines /\ co \in AllThreads
  <2>1. Top.f \in Functions
    BY <1>1, <1>3, ActivationParts
  <2>. QED  BY <1>1, <2>1 DEF Functions, AllThreads
<1>. HIDE DEF co
<1>6. /\ ~On(cstack, co) /\ co # MainThread
      /\ q \in ThreadStates /\ q.nCcalls = 0 /\ q.allowhook /\ q.errfunc = 0 /\ SizeOK(q)
      /\ \/ q.status = "ok" /\ q.ci = 0
         \/ q.status = "yield" /\ q.values = 0 /\ q.ci > 1
  BY <1>1, <1>5, Resumable DEF Idle
<1>. HIDE DEF q
<1>7. /\ i.r \in ThreadStates /\ i.next = "run" /\ i.r.ci \in Nat \ {0} /\ SizeOK(i.r)
      /\ i.r.nCcalls = 0 /\ i.r.allowhook /\ i.r.errfunc = 0 /\ i.r.values = 0
  <2>1. SizeOK(q) /\ q.ci \in Nat /\ q.size_ci \in Nat
    BY <1>6 DEF ThreadStates
  <2>2. CASE q.status = "ok"
    <3>. DEFINE p == [q EXCEPT !.values = 0]
    <3>1. p \in ThreadStates /\ p.ci = 0 /\ p.size_ci = q.size_ci /\ p.nCcalls = 0 /\ p.allowhook
          /\ p.errfunc = 0 /\ p.values = 0
      BY <1>6, <2>2 DEF ThreadStates
    <3>2. i = IncCI(p)
      BY <2>2
    <3>. HIDE DEF p
    <3>3. p.ci + 1 < p.size_ci
      BY <2>1, <3>1 DEF SizeOK
    <3>4. IncCI(p) = [r |-> [p EXCEPT !.ci = p.ci + 1], next |-> "run"]
      BY <2>1, <3>1, <3>3 DEF IncCI, Entered
    <3>. DEFINE x == [p EXCEPT !.ci = p.ci + 1]
    <3>5. x \in ThreadStates /\ x.ci = 1 /\ x.size_ci = q.size_ci /\ x.nCcalls = 0 /\ x.allowhook
          /\ x.errfunc = 0 /\ x.values = 0
      BY <3>1 DEF ThreadStates
    <3>6. i.r = x /\ i.next = "run"
      BY <3>2, <3>4
    <3>. HIDE DEF x, i
    <3>. QED  BY <2>1, <3>1, <3>3, <3>5, <3>6 DEF SizeOK
  <2>3. CASE q.status = "yield"
    <3>. DEFINE x == [q EXCEPT !.ci = q.ci - 1]
    <3>1. i = [r |-> x, next |-> "run"]
      BY <2>3
    <3>2. q.ci - 1 \in Nat \ {0}
      BY <1>6, <2>1, <2>3
    <3>3. x \in ThreadStates /\ x.ci = q.ci - 1 /\ x.size_ci = q.size_ci /\ x.nCcalls = 0 /\ x.allowhook
          /\ x.errfunc = 0 /\ x.values = q.values
      BY <1>6, <3>2 DEF ThreadStates
    <3>4. q.values = 0
      BY <1>6, <2>3
    <3>. HIDE DEF x, i
    <3>. QED  BY <2>1, <3>1, <3>2, <3>3, <3>4 DEF SizeOK
  <2>. QED  BY <1>6, <2>2, <2>3
<1>. HIDE DEF i
<1>8. /\ s \in ThreadStates /\ s.status = "ok" /\ s.ci = i.r.ci /\ s.size_ci = i.r.size_ci
      /\ s.nCcalls = 0 /\ s.allowhook /\ s.errfunc = 0 /\ s.values = 0
  BY <1>7 DEF ThreadStates
<1>9. /\ a \in Activations /\ a.k = "resume" /\ a.t = co
      /\ e \in Activations /\ e.k = "execute" /\ e.t = co /\ e.n = s.ci
      /\ Weight(a, co) = 0 /\ Weight(e, co) = s.ci
  BY <1>5, <1>7, <1>8 DEF Activations, Resuming, Execute, Weight
<1>. HIDE DEF s, a, e, n
<1>10. cstack' = b
  <2>1. cstack \o <<a, e>> = Append(Append(cstack, a), e)
    BY <1>4, <1>9, Appended
  <2>. QED  BY <1>1, <2>1
<1>11. /\ IsPush(d, cstack) /\ d[Len(d)] = a /\ d \in Seq(Activations) /\ Len(d) = n + 1
       /\ \A j \in 1 .. n : d[j] = cstack[j]
  BY <1>3, <1>4, <1>9, Appended DEF IsPush, n
<1>. HIDE DEF d
<1>12. /\ IsPush(b, d) /\ b[Len(b)] = e /\ b \in Seq(Activations) /\ Len(b) = n + 2
       /\ \A j \in 1 .. n + 1 : b[j] = d[j]
  BY <1>3, <1>9, <1>11, Appended DEF IsPush
<1>. HIDE DEF b
<1>13. StackOK(d)
  <2>1. \A j \in 1 .. n : d[j].t # co
    BY <1>6, <1>11 DEF On, n
  <2>2. d[n] = Top /\ Len(d) - 1 = n
    BY <1>3, <1>11
  <2>3. Fits(d, Len(d))
    BY <1>1, <1>9, <1>11, <2>1, <2>2 DEF Fits
  <2>4. Len(cstack) > 0
    BY <1>3 DEF n
  <2>. QED  BY <1>4, <1>11, <2>3, <2>4, Push
<1>14. StackOK(b)
  <2>1. b[Len(b) - 1] = a
    BY <1>3, <1>11, <1>12
  <2>2. Fits(b, Len(b)) /\ Len(d) > 0
    BY <1>3, <1>9, <1>11, <1>12, <2>1 DEF Fits
  <2>. QED  BY <1>11, <1>12, <1>13, <2>2, Push
<1>15. /\ NCalls(cstack, co, Len(cstack)) = 0 /\ NFrames(cstack, co, Len(cstack)) = 0
       /\ ~HooksOff(cstack, co, Len(cstack)) /\ ~Handled(cstack, co, Len(cstack))
  BY <1>4, <1>6, NotOn
<1>16. SaysMore(cstack, d, co)
  BY <1>4, <1>11, PushSays
<1>17. SaysMore(d, b, co)
  BY <1>11, <1>12, PushSays
<1>18. /\ NCalls(d, co, Len(d)) = 0 /\ NFrames(d, co, Len(d)) = 0
       /\ ~HooksOff(d, co, Len(d)) /\ ~Handled(d, co, Len(d))
  BY <1>9, <1>11, <1>15, <1>16 DEF SaysMore
<1>19. /\ NCalls(b, co, Len(b)) = 0 /\ NFrames(b, co, Len(b)) = s.ci
       /\ ~HooksOff(b, co, Len(b)) /\ ~Handled(b, co, Len(b))
  <2>1. s.ci \in Nat
    BY <1>7, <1>8
  <2>. QED  BY <1>9, <1>12, <1>17, <1>18, <2>1 DEF SaysMore
<1>20. Lives(b, todo', co, s)
  <2>1. Agrees(b, co, Len(b), s) /\ FramesAgree(b, co, Len(b), s)
    BY <1>8, <1>19 DEF Agrees, FramesAgree
  <2>2. SizeOK(s)
    BY <1>7, <1>8 DEF SizeOK
  <2>3. On(b, co)
    BY <1>3, <1>9, <1>12 DEF On
  <2>4. ~(s.nCcalls >= LUAI_MAXCCALLS)
    BY <1>8, LimitsAssumption
  <2>. QED  BY <1>6, <1>8, <2>1, <2>2, <2>3, <2>4 DEF Lives
<1>21. Differ(cstack, b, co, n)
  <2>1. \A j \in 1 .. n : cstack[j] = b[j]
    BY <1>3, <1>11, <1>12
  <2>2. \A j \in n + 1 .. n + 2 : b[j].t = co
    <3>1. b[n + 1] = a /\ b[n + 2] = e
      BY <1>3, <1>11, <1>12
    <3>2. \A j \in n + 1 .. n + 2 : j = n + 1 \/ j = n + 2
      BY <1>3
    <3>. QED  BY <1>9, <3>1, <3>2
  <2>3. Len(cstack) = n /\ n \in 0 .. n /\ n \in 0 .. n + 2
    BY <1>3 DEF n
  <2>. QED  BY <1>12, <2>1, <2>2, <2>3 DEF Differ
<1>22. TodoOK'
  <2>1. b # <<>>
    BY <1>3, <1>12
  <2>. QED  BY <1>9, <1>10, <1>12, <2>1 DEF TodoOK
<1>23. /\ thread' \in [AllThreads -> ThreadStates] /\ thread'[co] = s
       /\ \A u \in AllThreads \ {co} : thread'[u] = thread[u]
  BY <1>1, <1>4, <1>5, <1>8
<1>24. ASSUME NEW t, t = co PROVE CallsInv'
  <2>1. /\ t \in AllThreads /\ Differ(cstack, cstack', t, n)
        /\ \A u \in AllThreads \ {t} : thread'[u] = thread[u]
        /\ t \notin over' /\ Lives(cstack', todo', t, thread'[t])
        /\ \A u \in AllThreads \ {t} : u \in over' <=> u \in over
    BY <1>1, <1>5, <1>6, <1>10, <1>20, <1>21, <1>23, <1>24
  <2>2. cstack' \in Seq(Activations) /\ StackOK(cstack') /\ todo' = "run"
    BY <1>1, <1>7, <1>10, <1>12, <1>14
  <2>3. over' \subseteq Coroutines
    BY <1>1, <1>4
  <2>. QED  BY <1>1, <1>4, <1>22, <1>23, <2>1, <2>2, <2>3, ActorOnly
<1>. QED  BY <1>24

(* What the coroutine kept cannot be called: it is over as before.         *)
LEMMA ResumeUncallableKeeps ==
  ASSUME CallsInv, ResumeUncallable
  PROVE  CallsInv'
<1>1. PICK t : t = Top.f[2] /\ t \in over /\ thread' = [thread EXCEPT ![t].status = "errrun"]
  BY DEF ResumeUncallable, KeptResults
<1>2. /\ todo = "run" /\ UNCHANGED <<cstack, over>> /\ todo' \in {"return"} \union Errors
  BY DEF ResumeUncallable, Running, Goes, Raised, Errors
<1>3. /\ t \in AllThreads /\ over \subseteq Coroutines /\ thread \in [AllThreads -> ThreadStates]
      /\ cstack \in Seq(Activations) /\ StackOK(cstack) /\ cstack # <<>>
      /\ IsOver(cstack, t, thread[t])
  <2>1. over \subseteq Coroutines /\ t \in AllThreads /\ cstack # <<>>
    BY <1>1, <1>2 DEF CallsInv, CallsTypeOK, TodoOK, AllThreads
  <2>. QED  BY <1>1, <2>1 DEF CallsInv, CallsTypeOK, ThreadsOK
<1>4. /\ thread' \in [AllThreads -> ThreadStates]
      /\ \A u \in AllThreads \ {t} : thread'[u] = thread[u]
  <2>. DEFINE r == [thread[t] EXCEPT !.status = "errrun"]
  <2>1. r \in ThreadStates
    BY <1>3 DEF ThreadStates
  <2>2. thread' = [thread EXCEPT ![t] = r]
    BY <1>1
  <2>. HIDE DEF r
  <2>. QED  BY <1>3, <2>1, <2>2
<1>5. IsOver(cstack, t, thread'[t])
  <2>1. thread'[t].status = "errrun"
    BY <1>1, <1>3 DEF ThreadStates
  <2>. QED  BY <1>3, <2>1 DEF IsOver
<1>6. Differ(cstack, cstack', t, Len(cstack))
  BY <1>2, <1>3 DEF Differ
<1>7. TodoOK'
  BY <1>2, <1>3 DEF TodoOK, Errors
<1>. QED  BY <1>1, <1>2, <1>3, <1>4, <1>5, <1>6, <1>7, ActorOnly

(* The stack ds is the present one but for its luaV_execute on top, which  *)
(* runs m frames.                                                          *)
IsNewTop(ds, m) ==
  /\ ds \in Seq(Activations) /\ StackOK(ds) /\ Len(ds) = Len(cstack)
  /\ ds[Len(ds)].k = "execute" /\ ds[Len(ds)].t = L /\ ds[Len(ds)].n = m
  /\ SaysMore(Front(cstack), ds, L) /\ Differ(cstack, ds, L, Len(cstack) - 1)

(* It is a stack that may be.                                              *)
LEMMA NewTop ==
  ASSUME CallsInv, cstack # <<>>, todo = "run", Top.k = "execute", NEW m \in Nat \ {0}
  PROVE  IsNewTop([cstack EXCEPT ![Len(cstack)].n = m], m)
<1>0. SUFFICES ASSUME NEW ds, ds = [cstack EXCEPT ![Len(cstack)].n = m] PROVE IsNewTop(ds, m)
  OBVIOUS
<1>. DEFINE n == Len(cstack)
            f == Front(cstack)
            e == [Top EXCEPT !.n = m]
<1>1. /\ n \in Nat \ {0} /\ Top = cstack[n] /\ Top.t = L /\ Top \in Activations
      /\ n > 1 => Fits(cstack, n)
      /\ n = 1 => AtBottom(Top)
  BY Leaver
<1>2. /\ f \in Seq(Activations) /\ StackOK(f) /\ Len(f) = n - 1
      /\ \A i \in 1 .. n - 1 : f[i] = cstack[i]
  BY TopPushed DEF IsCut
<1>3. cstack \in Seq(Activations)
  BY DEF CallsInv, CallsTypeOK
<1>4. e \in Activations /\ e.k = "execute" /\ e.t = L /\ e.n = m
  <2>1. Top \in [k : {"execute"}, t : AllThreads, n : Nat \ {0}]
    BY <1>1 DEF Activations
  <2>2. e \in [k : {"execute"}, t : AllThreads, n : Nat \ {0}] /\ e.k = "execute" /\ e.t = L /\ e.n = m
    BY <1>1, <2>1
  <2>. QED  BY <2>2 DEF Activations
<1>5. ds = [cstack EXCEPT ![n] = e]
  BY <1>0, <1>1
<1>. HIDE DEF e
<1>6. ds \in Seq(Activations) /\ Len(ds) = n /\ ds[n] = e /\ \A i \in 1 .. n - 1 : ds[i] = cstack[i]
  BY <1>1, <1>3, <1>4, <1>5
<1>. HIDE DEF f, n
<1>7. IsPush(ds, f)
  BY <1>1, <1>2, <1>6 DEF IsPush
<1>8. n > 1 /\ cstack[n - 1] = ds[n - 1] /\ Fits(cstack, n)
  BY <1>1, <1>6 DEF AtBottom
<1>9. StackOK(ds)
  <2>1. Fits(ds, Len(ds)) /\ Len(f) > 0
    BY <1>1, <1>2, <1>4, <1>6, <1>8 DEF Fits
  <2>. QED  BY <1>2, <1>7, <2>1, Push
<1>10. SaysMore(f, ds, L)
  BY <1>2, <1>7, PushSays
<1>11. Differ(cstack, ds, L, n - 1)
  <2>1. \A i \in n .. n : i = n
    BY <1>1
  <2>2. n - 1 \in 0 .. n /\ n - 1 + 1 = n
    BY <1>1
  <2>. QED  BY <1>1, <1>4, <1>6, <2>1, <2>2 DEF Differ, n
<1>. QED  BY <1>4, <1>6, <1>9, <1>10, <1>11 DEF f, n, IsNewTop

(* What holds of the thread that runs, when it runs.                       *)
LEMMA RunningOn ==
  ASSUME CallsInv, todo = "run"
  PROVE  /\ cstack # <<>> /\ Len(cstack) \in Nat \ {0} /\ Top = cstack[Len(cstack)] /\ Top.t = L
         /\ Top \in Activations /\ L \in AllThreads /\ thread[L] \in ThreadStates
         /\ On(cstack, L) /\ TopIs(cstack, L)
         /\ Lives(cstack, todo, L, thread[L]) /\ thread[L].status = "ok" /\ SizeOK(thread[L])
         /\ Agrees(cstack, L, Len(cstack), thread[L])
         /\ FramesAgree(cstack, L, Len(cstack), thread[L])
         /\ SaysMore(Front(cstack), cstack, L)
         /\ thread \in [AllThreads -> ThreadStates] /\ cstack \in Seq(Activations)
         /\ thread[L].nCcalls >= LUAI_MAXCCALLS => InHandler(cstack, L, Len(cstack))
         /\ L # MainThread => thread[L].values = 0
<1>1. cstack # <<>>
  BY DEF CallsInv, TodoOK
<1>2. /\ Len(cstack) \in Nat \ {0} /\ Top = cstack[Len(cstack)] /\ Top.t = L
      /\ Top \in Activations /\ L \in AllThreads /\ thread[L] \in ThreadStates
      /\ On(cstack, L) /\ TopIs(cstack, L)
      /\ Lives(cstack, todo, L, thread[L]) /\ thread[L].status = "ok"
      /\ FramesAgree(cstack, L, Len(cstack), thread[L])
  BY <1>1, TopFacts
<1>3. SaysMore(Front(cstack), cstack, L)
  BY <1>1, TopPushed
<1>4. thread \in [AllThreads -> ThreadStates] /\ cstack \in Seq(Activations)
  BY DEF CallsInv, CallsTypeOK
<1>. QED  BY <1>1, <1>2, <1>3, <1>4 DEF Lives, Errors

(* The luaV_execute on top runs a frame more, or one less but not the last.*)
LEMMA NewTopKeeps ==
  ASSUME CallsInv, todo = "run", Top.k = "execute", NEW m \in Nat \ {0},
         cstack' = [cstack EXCEPT ![Len(cstack)].n = m], todo' = "run", over' = over,
         NEW r \in ThreadStates, thread' = [thread EXCEPT ![L] = r],
         FramesOnly(thread[L], r), SizeOK(r), r.ci + Top.n = thread[L].ci + m
  PROVE  CallsInv'
<1>. DEFINE f == Front(cstack)
<1>1. ASSUME NEW ds, ds = cstack' PROVE CallsInv'
  <2>1. /\ cstack # <<>> /\ Top = cstack[Len(cstack)] /\ Top.t = L
        /\ L \in AllThreads /\ thread[L] \in ThreadStates /\ Top \in Activations
        /\ thread[L].status = "ok" /\ Agrees(cstack, L, Len(cstack), thread[L])
        /\ FramesAgree(cstack, L, Len(cstack), thread[L]) /\ SaysMore(f, cstack, L)
        /\ thread[L].nCcalls >= LUAI_MAXCCALLS => InHandler(cstack, L, Len(cstack))
        /\ L # MainThread => thread[L].values = 0
        /\ Len(cstack) \in Nat \ {0}
    BY RunningOn
  <2>2. /\ ds \in Seq(Activations) /\ StackOK(ds) /\ Len(ds) = Len(cstack)
        /\ ds[Len(ds)].k = "execute" /\ ds[Len(ds)].t = L /\ ds[Len(ds)].n = m
        /\ SaysMore(f, ds, L) /\ Differ(cstack, ds, L, Len(cstack) - 1)
    <3>1. IsNewTop([cstack EXCEPT ![Len(cstack)].n = m], m)
      BY <2>1, NewTop
    <3>2. IsNewTop(ds, m)
      BY <1>1, <3>1
    <3>. QED  BY <3>2 DEF IsNewTop
  <2>. HIDE DEF f
  <2>3. Top.n \in Nat /\ thread[L].ci \in Nat /\ r.ci \in Nat
    BY <2>1, ActivationParts DEF ThreadStates
  <2>4. /\ NCalls(ds, L, Len(ds)) = NCalls(cstack, L, Len(cstack))
        /\ HooksOff(ds, L, Len(ds)) <=> HooksOff(cstack, L, Len(cstack))
        /\ InHandler(ds, L, Len(ds)) <=> InHandler(cstack, L, Len(cstack))
        /\ Handled(ds, L, Len(ds)) <=> Handled(cstack, L, Len(cstack))
    BY <2>1, <2>2 DEF SaysMore
  <2>5. /\ NFrames(ds, L, Len(ds)) = NFrames(f, L, Len(f)) + m
        /\ NFrames(cstack, L, Len(cstack)) = NFrames(f, L, Len(f)) + Top.n
        /\ NFrames(f, L, Len(f)) \in Nat
    BY <2>1, <2>2 DEF SaysMore, Weight
  <2>6. r.ci = NFrames(ds, L, Len(ds))
    <3>1. thread[L].ci = NFrames(cstack, L, Len(cstack)) /\ r.ci + Top.n = thread[L].ci + m
      BY <2>1 DEF FramesAgree
    <3>2. ASSUME NEW a \in Nat, NEW b \in Nat, NEW c \in Nat, NEW d \in Nat,
                 a + b = c + m, c = d + b
          PROVE  a = d + m
      BY SMTT(30), <3>2
    <3>. QED  BY <2>3, <2>5, <3>1, <3>2
  <2>7. Agrees(ds, L, Len(ds), r) /\ FramesAgree(ds, L, Len(ds), r)
    BY <2>1, <2>4, <2>6 DEF Agrees, FramesAgree, FramesOnly
  <2>8. On(ds, L)
    BY <2>1, <2>2 DEF On
  <2>9. Lives(ds, "run", L, r)
    BY <2>1, <2>4, <2>7, <2>8 DEF Lives, FramesOnly
  <2>10. TodoOK'
    BY <1>1, <2>1, <2>2 DEF TodoOK
  <2>. QED  BY <1>1, <2>1, <2>2, <2>9, <2>10, TopActs
<1>. QED  BY <1>1

(* A Lua function returns, to its caller in the same luaV_execute or from  *)
(* it.                                                                     *)
LEMMA ReturnKeeps ==
  ASSUME CallsInv, Return
  PROVE  CallsInv'
<1>1. /\ todo = "run" /\ Top.k = "execute" /\ thread' = [thread EXCEPT ![L].ci = @ - 1]
      /\ BackTo(IF Top.n = 1 THEN Front(cstack) ELSE [cstack EXCEPT ![Len(cstack)].n = @ - 1])
      /\ over' = over
  BY DEF Return, Running
<1>2. /\ cstack # <<>> /\ Top = cstack[Len(cstack)] /\ Top.t = L /\ Top \in Activations
      /\ L \in AllThreads /\ thread[L] \in ThreadStates /\ SizeOK(thread[L])
      /\ FramesAgree(cstack, L, Len(cstack), thread[L]) /\ SaysMore(Front(cstack), cstack, L)
      /\ Len(cstack) \in Nat \ {0} /\ cstack \in Seq(Activations)
  BY <1>1, RunningOn
<1>3. Top.n \in Nat \ {0}
  BY <1>1, <1>2, ActivationParts
<1>4. CASE Top.n = 1
  BY <1>1, <1>2, <1>4, FrameLeft
<1>5. CASE Top.n # 1
  <2>. DEFINE m == Top.n - 1
              r == [thread[L] EXCEPT !.ci = thread[L].ci - 1]
              ds == [cstack EXCEPT ![Len(cstack)].n = m]
  <2>1. m \in Nat \ {0}
    BY <1>3, <1>5
  <2>2. ds[Len(ds)].k = "execute" /\ ds # <<>>
    <3>1. Len(ds) = Len(cstack)
      BY <1>2
    <3>. QED  BY <1>1, <1>2, <3>1
  <2>3. cstack' = ds /\ todo' = "run"
    <3>1. ds = [cstack EXCEPT ![Len(cstack)].n = @ - 1]
      BY <1>2
    <3>. QED  BY <1>1, <1>5, <2>2, <3>1 DEF BackTo, Goes, Last
  <2>4. thread[L].ci \in Nat /\ thread[L].ci >= Top.n
    BY SMTT(30), <1>1, <1>2, <1>3 DEF SaysMore, Weight, FramesAgree, ThreadStates
  <2>5. r \in ThreadStates /\ r.ci = thread[L].ci - 1 /\ r.size_ci = thread[L].size_ci
        /\ FramesOnly(thread[L], r)
    <3>1. thread[L].ci - 1 \in Nat
      BY <1>3, <2>4
    <3>. QED  BY <1>2, <3>1 DEF ThreadStates, FramesOnly
  <2>6. thread' = [thread EXCEPT ![L] = r]
    BY <1>1
  <2>. HIDE DEF r
  <2>7. SizeOK(r)
    <3>1. /\ thread[L].ci < thread[L].size_ci /\ 2 <= thread[L].size_ci
          /\ thread[L].size_ci <= 2 * LUAI_MAXCALLS /\ thread[L].size_ci \in Nat
      BY <1>2 DEF SizeOK, ThreadStates
    <3>2. r.ci < r.size_ci
      BY <2>4, <2>5, <3>1
    <3>. QED  BY <2>5, <3>1, <3>2 DEF SizeOK
  <2>8. r.ci + Top.n = thread[L].ci + m
    BY <1>3, <2>4, <2>5
  <2>. HIDE DEF m
  <2>. QED  BY <1>1, <2>1, <2>3, <2>5, <2>6, <2>7, <2>8, NewTopKeeps
<1>. QED  BY <1>4, <1>5

(* luaD_precall: a frame more, for luaV_execute or for a C function.       *)
LEMMA CallActionKeeps ==
  ASSUME CallsInv, NEW f \in Functions, Call(f)
  PROVE  CallsInv'
<1>. DEFINE i == IncCI(thread[L])
<1>1. /\ todo = "run" /\ Top.k = "execute" /\ thread' = [thread EXCEPT ![L] = i.r]
      /\ cstack' = CASE i.next # "run" -> cstack
                     [] i.next = "run" /\ f = Lua -> [cstack EXCEPT ![Len(cstack)].n = @ + 1]
                     [] OTHER -> Append(cstack, InC(L, f))
      /\ todo' = i.next /\ over' = over
  BY DEF Call, Running, Goes
<1>2. /\ cstack # <<>> /\ Top = cstack[Len(cstack)] /\ Top.t = L /\ Top \in Activations
      /\ L \in AllThreads /\ thread[L] \in ThreadStates /\ SizeOK(thread[L])
      /\ Len(cstack) \in Nat \ {0} /\ cstack \in Seq(Activations)
  BY <1>1, RunningOn
<1>. HIDE DEF i
<1>3. /\ i.r \in ThreadStates /\ SizeOK(i.r) /\ FramesOnly(thread[L], i.r)
      /\ \/ i.next = "run" /\ i.r.ci = thread[L].ci + 1
         \/ i.next \in Errors /\ i.r.ci = thread[L].ci
  BY <1>2, IncCIDone DEF i
<1>4. CASE i.next # "run"
  <2>1. cstack' = cstack
    BY <1>1, <1>4
  <2>2. i.next \in Errors /\ i.r.ci = thread[L].ci
    BY <1>3, <1>4
  <2>. QED  BY <1>1, <1>3, <2>1, <2>2, StackStays
<1>5. CASE i.next = "run" /\ f = Lua
  <2>. DEFINE m == Top.n + 1
  <2>1. Top.n \in Nat \ {0} /\ m \in Nat \ {0} /\ thread[L].ci \in Nat
    BY <1>1, <1>2, ActivationParts DEF ThreadStates
  <2>2. cstack' = [cstack EXCEPT ![Len(cstack)].n = m]
    BY <1>1, <1>2, <1>5
  <2>3. i.r.ci + Top.n = thread[L].ci + m
    BY <1>3, <1>5, <2>1 DEF Errors
  <2>. HIDE DEF m
  <2>. QED  BY <1>1, <1>3, <1>5, <2>1, <2>2, <2>3, NewTopKeeps
<1>6. CASE i.next = "run" /\ f # Lua
  <2>. DEFINE a == InC(L, f)
              cs == Append(cstack, a)
              r == i.r
  <2>1. cstack' = cs
    BY <1>1, <1>6
  <2>2. a \in Activations /\ a.t = L /\ a.k = "cfunction" /\ Weight(a, L) = 1
    BY <1>2 DEF Activations, InC, Weight
  <2>. HIDE DEF a
  <2>3. IsPush(cs, cstack)
    BY <1>2, <2>2, Appended
  <2>4. cs[Len(cs)] = a /\ cs[Len(cs) - 1] = Top /\ SaysMore(cstack, cs, L) /\ Len(cs) = Len(cstack) + 1
    BY <1>1, <2>2, OneOver
  <2>. HIDE DEF cs
  <2>5. cs \in Seq(Activations) /\ \A j \in 1 .. Len(cstack) : cs[j] = cstack[j]
    BY <2>3 DEF IsPush
  <2>6. StackOK(cs)
    <3>1. Fits(cs, Len(cs)) /\ Len(cstack) > 0 /\ StackOK(cstack)
      BY <1>1, <1>2, <2>2, <2>4 DEF Fits, CallsInv
    <3>. QED  BY <1>2, <2>3, <3>1, Push
  <2>7. /\ thread[L].status = "ok" /\ Agrees(cstack, L, Len(cstack), thread[L])
        /\ FramesAgree(cstack, L, Len(cstack), thread[L])
        /\ thread[L].nCcalls >= LUAI_MAXCCALLS => InHandler(cstack, L, Len(cstack))
        /\ L # MainThread => thread[L].values = 0
    BY <1>1, RunningOn
  <2>8. i.r.ci = thread[L].ci + 1
    BY <1>3, <1>6 DEF Errors
  <2>9. Agrees(cs, L, Len(cs), r) /\ FramesAgree(cs, L, Len(cs), r)
    BY <2>2, <2>4, <2>7, <2>8, <1>3 DEF Agrees, FramesAgree, SaysMore, FramesOnly
  <2>10. InHandler(cstack, L, Len(cstack)) => InHandler(cs, L, Len(cs))
    BY <2>4 DEF SaysMore
  <2>11. On(cs, L)
    BY <1>2, <2>2, <2>4 DEF SaysMore
  <2>12. Lives(cs, "run", L, r)
    BY <1>3, <2>7, <2>9, <2>10, <2>11 DEF Lives, FramesOnly
  <2>13. Differ(cstack, cs, L, Len(cstack))
    <3>1. \A j \in Len(cstack) + 1 .. Len(cs) : j = Len(cs)
      BY <1>2, <2>4
    <3>. QED  BY <1>2, <2>2, <2>4, <2>5, <3>1 DEF Differ
  <2>14. TodoOK'
    <3>1. cs # <<>>
      BY <1>2, <2>4
    <3>. QED  BY <1>1, <2>1, <2>2, <2>4, <3>1 DEF TodoOK
  <2>. QED  BY <1>1, <1>2, <1>3, <1>6, <2>1, <2>5, <2>6, <2>12, <2>13, <2>14, TopActs
<1>. QED  BY <1>4, <1>5, <1>6

(* The frame of a tail call is moved over that of its caller.              *)
LEMMA TailCallKeeps ==
  ASSUME CallsInv, TailCall
  PROVE  CallsInv'
<1>. DEFINE i == IncCI(thread[L])
            r == IF i.next = "run" THEN [i.r EXCEPT !.ci = i.r.ci - 1] ELSE i.r
<1>1. /\ todo = "run" /\ thread' = [thread EXCEPT ![L] = r] /\ todo' = i.next
      /\ cstack' = cstack /\ over' = over
  BY DEF TailCall, Running, Goes
<1>2. thread[L] \in ThreadStates /\ SizeOK(thread[L])
  BY <1>1, RunningOn
<1>. HIDE DEF i
<1>3. /\ i.r \in ThreadStates /\ SizeOK(i.r) /\ FramesOnly(thread[L], i.r)
      /\ \/ i.next = "run" /\ i.r.ci = thread[L].ci + 1
         \/ i.next \in Errors /\ i.r.ci = thread[L].ci
  BY <1>2, IncCIDone DEF i
<1>4. thread[L].ci \in Nat
  BY <1>2 DEF ThreadStates
<1>5. CASE i.next = "run"
  <2>1. i.r.ci = thread[L].ci + 1 /\ i.r.ci - 1 = thread[L].ci
    BY <1>3, <1>4, <1>5 DEF Errors
  <2>2. r \in ThreadStates /\ r.ci = thread[L].ci /\ r.size_ci = i.r.size_ci /\ FramesOnly(thread[L], r)
    BY <1>3, <1>4, <1>5, <2>1 DEF ThreadStates, FramesOnly
  <2>3. SizeOK(r)
    BY <1>3, <1>4, <2>1, <2>2 DEF SizeOK, ThreadStates
  <2>. HIDE DEF r
  <2>. QED  BY <1>1, <1>5, <2>2, <2>3, StackStays
<1>6. CASE i.next # "run"
  <2>1. r = i.r /\ i.next \in Errors
    BY <1>3, <1>6
  <2>. HIDE DEF r
  <2>. QED  BY <1>1, <1>3, <1>6, <2>1, StackStays
<1>. QED  BY <1>5, <1>6

(* A refused yield, and an error of the program: both are raised.          *)
LEMMA ErrorsKeep ==
  ASSUME CallsInv, Error \/ YieldRefused \/ TooManyArguments
  PROVE  CallsInv'
<1>1. todo = "run" /\ todo' = Raised(thread[L]) /\ UNCHANGED <<thread, cstack, over>>
  BY DEF Error, YieldRefused, TooManyArguments, Running, Goes
<1>2. todo' \in Errors
  BY <1>1 DEF Raised, Errors
<1>. QED  BY <1>1, <1>2, RaiseKeeps

(* A refused resume is an error in wrap, and a result of resume.           *)
LEMMA ResumeRefusedKeeps ==
  ASSUME CallsInv, ResumeRefused
  PROVE  CallsInv'
<1>1. /\ todo = "run" /\ Top.k = "cfunction" /\ over' = over
      /\ IF Top.f[1] = "wrap" THEN Goes(Raised(thread[L])) /\ UNCHANGED <<thread, cstack>>
         ELSE thread' = [thread EXCEPT ![L].ci = @ - 1] /\ BackTo(Front(cstack))
  BY DEF ResumeRefused, Running
<1>2. CASE Top.f[1] = "wrap"
  <2>1. todo' \in Errors
    BY <1>1, <1>2 DEF Goes, Raised, Errors
  <2>. QED  BY <1>1, <1>2, <2>1, RaiseKeeps
<1>3. CASE Top.f[1] # "wrap"
  <2>1. cstack # <<>>
    BY <1>1 DEF CallsInv, TodoOK
  <2>. QED  BY <1>1, <1>3, <2>1, FrameLeft
<1>. QED  BY <1>2, <1>3

(* luaD_poscall after a C function.                                        *)
LEMMA LeaveCKeeps ==
  ASSUME CallsInv, LeaveC
  PROVE  CallsInv'
<1>1. /\ todo = "return" /\ cstack # <<>> /\ Top.k = "cfunction" /\ BackTo(Front(cstack))
      /\ over' = over /\ thread' = [thread EXCEPT ![L].ci = @ - 1]
  BY DEF LeaveC, Leaves
<1>. QED  BY <1>1, FrameLeft

-----------------------------------------------------------------------------
(* Errors.                                                                 *)

(* What luaD_throw unwinds to: the last activation that catches errors,    *)
(* in the thread that raised it.                                           *)
LEMMA CatcherFacts ==
  ASSUME CallsInv, cstack # <<>>
  PROVE  /\ Catcher \in 1 .. Len(cstack) /\ Catches(cstack[Catcher])
         /\ \A m \in Catcher + 1 .. Len(cstack) : ~Catches(cstack[m])
         /\ \A m \in Catcher .. Len(cstack) : cstack[m].t = L
<1>1. /\ cstack \in Seq(Activations) /\ Len(cstack) \in Nat \ {0} /\ StackOK(cstack)
      /\ Top = cstack[Len(cstack)]
  BY TopFacts DEF CallsInv, CallsTypeOK
<1>2. PICK c \in 1 .. Len(cstack) :
         Catches(cstack[c]) /\ \A m \in c + 1 .. Len(cstack) : ~Catches(cstack[m])
  BY <1>1 DEF StackOK, Placed, Below
<1>. DEFINE S == {i \in DOMAIN cstack : cstack[i].k \in {"pcall", "resume"}}
<1>3. S = {i \in 1 .. Len(cstack) : Catches(cstack[i])}
  BY <1>1 DEF Catches
<1>4. Catcher = CHOOSE x \in S : \A y \in S : x >= y
  BY DEF Catcher, Max
<1>. HIDE DEF S
<1>5. c \in S /\ \A y \in S : c >= y
  BY <1>1, <1>2, <1>3
<1>6. Catcher \in S /\ \A y \in S : Catcher >= y
  BY <1>4, <1>5
<1>7. Catcher = c
  BY <1>1, <1>3, <1>5, <1>6
<1>8. \A m \in c .. Len(cstack) : cstack[m].t = cstack[c].t
  BY <1>1, <1>2, OneThreadAbove
<1>9. \A m \in c .. Len(cstack) : cstack[m].t = L
  BY <1>1, <1>2, <1>8 DEF L
<1>. QED  BY <1>2, <1>7, <1>9

(* restore_stack_limit: the array is halved only if the frames fit.        *)
LEMMA RestoredFits ==
  ASSUME NEW r \in ThreadStates, SizeOK(r)
  PROVE  /\ Restored(r) \in ThreadStates /\ SizeOK(Restored(r)) /\ FramesOnly(r, Restored(r))
         /\ Restored(r).ci = r.ci
<1>. DEFINE s == [r EXCEPT !.size_ci = LUAI_MAXCALLS]
<1>1. r.ci \in Nat /\ r.size_ci \in Nat
  BY DEF ThreadStates
<1>2. s \in ThreadStates /\ s.size_ci = LUAI_MAXCALLS /\ s.ci = r.ci /\ FramesOnly(r, s)
  BY LimitsAssumption DEF ThreadStates, FramesOnly
<1>3. CASE r.size_ci > LUAI_MAXCALLS /\ r.ci + 1 < LUAI_MAXCALLS
  <2>1. Restored(r) = s
    BY <1>3 DEF Restored
  <2>. HIDE DEF s
  <2>2. SizeOK(s)
    BY <1>1, <1>2, <1>3, LimitsAssumption DEF SizeOK
  <2>. QED  BY <1>2, <2>1, <2>2
<1>4. CASE ~(r.size_ci > LUAI_MAXCALLS /\ r.ci + 1 < LUAI_MAXCALLS)
  BY <1>4 DEF Restored, FramesOnly
<1>. QED  BY <1>3, <1>4

(* Fewer activations run fewer frames.                                     *)
LEMMA FramesGrow ==
  ASSUME NEW cs \in Seq(Activations), NEW t, NEW n \in 0 .. Len(cs)
  PROVE  NFrames(cs, t, n) <= NFrames(cs, t, Len(cs))
<1>1. IsFiniteSet(FramesIn(cs, t, Len(cs)))
  BY Finite
<1>2. FramesIn(cs, t, n) \subseteq FramesIn(cs, t, Len(cs))
  BY DEF FramesIn
<1>. QED  BY <1>1, <1>2, FS_Subset DEF NFrames

(* What the stack said below a protected call is what it saved.            *)
LEMMA SavedAgrees ==
  ASSUME NEW cs \in Seq(Activations), StackOK(cs), NEW c \in 1 .. Len(cs), cs[c].k = "pcall",
         NEW ds, IsCut(ds, cs, c - 1)
  PROVE  /\ Agrees(ds, cs[c].t, Len(ds), cs[c]) /\ FramesAgree(ds, cs[c].t, Len(ds), cs[c])
         /\ cs[c].ci <= NFrames(cs, cs[c].t, Len(cs))
         /\ cs[c].nCcalls >= LUAI_MAXCCALLS => InHandler(ds, cs[c].t, Len(ds))
         /\ cs[c].t = MainThread \/ On(ds, cs[c].t)
<1>. DEFINE n == c - 1
            t == cs[c].t
<1>1. n \in 0 .. Len(cs) /\ Len(ds) = n /\ (\A i \in 1 .. n : ds[i] = cs[i]) /\ n \in Nat
  BY DEF IsCut
<1>2. Placed(cs, c)
  BY DEF StackOK
<1>3. NFrames(cs, t, n) <= NFrames(cs, t, Len(cs))
  <2>. HIDE DEF n, t
  <2>. QED  BY <1>1, FramesGrow
<1>4. CASE c = 1
  <2>1. AtBottom(cs[c]) /\ n = 0 /\ Len(ds) = 0
    BY <1>1, <1>2, <1>4 DEF Placed
  <2>2. /\ cs[c].k = "pcall" /\ t = MainThread /\ cs[c].ci = 0 /\ cs[c].nCcalls = 0
        /\ cs[c].allowhook /\ cs[c].errfunc = 0
    BY <2>1 DEF AtBottom
  <2>. HIDE DEF t
  <2>3. CallsIn(ds, t, 0) = {} /\ FramesIn(ds, t, 0) = {} /\ FramesIn(cs, t, 0) = {}
    BY DEF CallsIn, FramesIn
  <2>4. ~HooksOff(ds, t, 0) /\ ~Handled(ds, t, 0)
    BY DEF HooksOff, Handled
  <2>5. NCalls(ds, t, 0) = 0 /\ NFrames(ds, t, 0) = 0 /\ NFrames(cs, t, 0) = 0
    BY <2>3, FS_EmptySet DEF NCalls, NFrames
  <2>6. Agrees(ds, t, Len(ds), cs[c]) /\ FramesAgree(ds, t, Len(ds), cs[c])
    BY <2>1, <2>2, <2>4, <2>5 DEF Agrees, FramesAgree
  <2>7. cs[c].ci <= NFrames(cs, t, Len(cs)) /\ ~(cs[c].nCcalls >= LUAI_MAXCCALLS)
    BY <1>3, <2>1, <2>2, <2>5, LimitsAssumption
  <2>. QED  BY <2>2, <2>6, <2>7 DEF t
<1>5. CASE c # 1
  <2>1. /\ cs[n].t = t /\ Agrees(cs, t, n, cs[c]) /\ FramesAgree(cs, t, n, cs[c])
        /\ cs[c].nCcalls >= LUAI_MAXCCALLS => InHandler(cs, t, n)
    BY <1>2, <1>5 DEF Placed, Fits
  <2>2. /\ CallsIn(cs, t, n) = CallsIn(ds, t, n) /\ FramesIn(cs, t, n) = FramesIn(ds, t, n)
        /\ HooksOff(cs, t, n) <=> HooksOff(ds, t, n)
        /\ InHandler(cs, t, n) <=> InHandler(ds, t, n)
        /\ Handled(cs, t, n) <=> Handled(ds, t, n)
    <3>1. \A i \in 1 .. n : cs[i] = ds[i]
      BY <1>1
    <3>. HIDE DEF n, t
    <3>. QED  BY <1>1, <3>1, SamePrefix
  <2>3. On(ds, t)
    BY <1>1, <1>5, <2>1 DEF On
  <2>. HIDE DEF n
  <2>. QED  BY <1>1, <1>3, <2>1, <2>2, <2>3 DEF Agrees, FramesAgree, NCalls, NFrames
<1>. QED  BY <1>4, <1>5

(* luaD_pcall catches the error: the thread is again what it was, and what *)
(* it was agrees with what is left of the stack.                           *)
LEMMA CaughtByPCallKeeps ==
  ASSUME CallsInv, CaughtByPCall
  PROVE  CallsInv'
<1>. DEFINE c == Catcher
            a == cstack[c]
            p == [thread[L] EXCEPT !.ci = a.ci, !.nCcalls = a.nCcalls,
                                   !.allowhook = a.allowhook, !.errfunc = a.errfunc]
            r == Restored(p)
            m == c - 1
            g == SubSeq(cstack, 1, m)
<1>1. /\ todo \in {"errrun", "errerr"} /\ a.k = "pcall" /\ BackTo(g) /\ over' = over
      /\ thread' = [thread EXCEPT ![a.t] = Recovered(thread[a.t], a)]
  BY DEF CaughtByPCall
<1>2. cstack # <<>> /\ cstack \in Seq(Activations) /\ StackOK(cstack)
  BY <1>1 DEF CallsInv, TodoOK, CallsTypeOK
<1>3. c \in 1 .. Len(cstack) /\ \A j \in c .. Len(cstack) : cstack[j].t = L
  BY <1>2, CatcherFacts
<1>4. a.t = L /\ a \in Activations
  BY <1>2, <1>3
<1>5. thread' = [thread EXCEPT ![L] = r]
  BY <1>1, <1>4 DEF Recovered
<1>6. /\ Len(cstack) \in Nat /\ L \in AllThreads /\ thread[L] \in ThreadStates /\ On(cstack, L)
      /\ Lives(cstack, todo, L, thread[L]) /\ thread[L].status = "ok"
      /\ FramesAgree(cstack, L, Len(cstack), thread[L])
  BY <1>1, <1>2, TopFacts
<1>. HIDE DEF c
<1>7. /\ a.ci \in Nat /\ a.nCcalls \in Nat /\ a.errfunc \in Nat /\ a.allowhook \in BOOLEAN
  BY <1>1, <1>4, ActivationParts
<1>8. m \in 0 .. Len(cstack)
  BY <1>3, <1>6
<1>9. g \in Seq(Activations) /\ IsCut(g, cstack, m)
  <2>. HIDE DEF m
  <2>. QED  BY <1>2, <1>8, SubSeqCuts
<1>10. StackOK(g)
  BY <1>2, <1>9, Cut
<1>11. /\ Agrees(g, L, Len(g), a) /\ FramesAgree(g, L, Len(g), a)
       /\ a.ci <= NFrames(cstack, L, Len(cstack))
       /\ a.nCcalls >= LUAI_MAXCCALLS => InHandler(g, L, Len(g))
       /\ L = MainThread \/ On(g, L)
  <2>. HIDE DEF g
  <2>. QED  BY <1>1, <1>2, <1>3, <1>4, <1>9, SavedAgrees
<1>12. /\ p \in ThreadStates /\ p.status = "ok" /\ p.values = thread[L].values
       /\ p.size_ci = thread[L].size_ci /\ p.ci = a.ci /\ p.nCcalls = a.nCcalls
       /\ p.allowhook = a.allowhook /\ p.errfunc = a.errfunc
  <2>. HIDE DEF a
  <2>. QED  BY <1>6, <1>7 DEF ThreadStates
<1>. HIDE DEF p
<1>13. SizeOK(p)
  <2>1. /\ thread[L].ci \in Nat /\ thread[L].size_ci \in Nat /\ thread[L].ci < thread[L].size_ci
        /\ 2 <= thread[L].size_ci /\ thread[L].size_ci <= 2 * LUAI_MAXCALLS
    BY <1>6 DEF Lives, SizeOK, ThreadStates
  <2>2. p.ci <= thread[L].ci /\ p.ci \in Nat
    BY <1>6, <1>7, <1>11, <1>12 DEF FramesAgree
  <2>3. p.ci < thread[L].size_ci
    BY <2>1, <2>2
  <2>. QED  BY <1>12, <2>1, <2>3 DEF SizeOK
<1>14. /\ r \in ThreadStates /\ SizeOK(r) /\ FramesOnly(p, r) /\ r.ci = p.ci
  BY <1>12, <1>13, RestoredFits
<1>. HIDE DEF r
<1>15. /\ Agrees(g, L, Len(g), r) /\ FramesAgree(g, L, Len(g), r)
       /\ r.nCcalls >= LUAI_MAXCCALLS => InHandler(g, L, Len(g))
       /\ r.status = "ok" /\ r.values = thread[L].values
  <2>. HIDE DEF g, a
  <2>. QED  BY <1>11, <1>12, <1>14 DEF Agrees, FramesAgree, FramesOnly
<1>16. L # MainThread => r.values = 0 /\ On(g, L)
  BY <1>6, <1>11, <1>15 DEF Lives
<1>17. Lives(g, todo', L, r)
  <2>. HIDE DEF g
  <2>. QED  BY <1>14, <1>15, <1>16 DEF Lives
<1>18. Differ(cstack, g, L, m)
  <2>1. Len(g) = m /\ \A i \in 1 .. m : cstack[i] = g[i]
    BY <1>9 DEF IsCut
  <2>2. \A i \in m + 1 .. Len(cstack) : cstack[i].t = L
    BY <1>3, <1>6
  <2>. HIDE DEF g
  <2>. QED  BY <1>8, <2>1, <2>2 DEF Differ
<1>19. cstack' = g /\ todo' = (IF g # <<>> /\ g[Len(g)].k = "execute" THEN "run" ELSE "return")
  BY <1>1 DEF BackTo, Goes, Last
<1>. HIDE DEF g, m, a
<1>20. TodoOK'
  BY <1>19 DEF TodoOK
<1>21. todo' \in {"run", "return"} \union Errors
  BY <1>19
<1>. QED  BY <1>1, <1>2, <1>5, <1>9, <1>10, <1>14, <1>17, <1>18, <1>19, <1>20, <1>21, TopActs

(* lua_resume catches the error: the coroutine is over, and the thread     *)
(* that resumed it goes on, in the C function resume or wrap.              *)
LEMMA CaughtByResumeKeeps ==
  ASSUME CallsInv, CaughtByResume
  PROVE  CallsInv'
<1>. DEFINE c == Catcher
            a == cstack[c]
            m == c - 1
            g == SubSeq(cstack, 1, m)
            r == [thread[L] EXCEPT !.status = todo]
<1>1. /\ todo \in {"errrun", "errerr"} /\ a.k = "resume" /\ cstack' = g
      /\ thread' = [thread EXCEPT ![a.t].status = todo] /\ over' = over \union {a.t}
      /\ todo' = IF cstack[c - 1].f[1] = "wrap" THEN Raised(thread[cstack[c - 1].t]) ELSE "return"
  BY DEF CaughtByResume, Goes
<1>2. cstack # <<>> /\ cstack \in Seq(Activations) /\ StackOK(cstack)
  BY <1>1 DEF CallsInv, TodoOK, CallsTypeOK
<1>3. c \in 1 .. Len(cstack) /\ \A j \in c .. Len(cstack) : cstack[j].t = L
  BY <1>2, CatcherFacts
<1>4. a.t = L /\ a \in Activations /\ L \in Coroutines
  <2>1. a.t = L /\ a \in Activations
    BY <1>2, <1>3
  <2>. HIDE DEF a
  <2>. QED  BY <1>1, <2>1, ActivationParts
<1>5. /\ Len(cstack) \in Nat /\ L \in AllThreads /\ thread[L] \in ThreadStates
      /\ TopIs(cstack, L)
  BY <1>2, TopFacts
<1>6. r \in ThreadStates /\ r.status = todo /\ thread' = [thread EXCEPT ![L] = r]
  <2>1. todo \in {"ok", "yield", "errrun", "errerr"}
    BY <1>1
  <2>. QED  BY <1>1, <1>4, <1>5, <2>1 DEF ThreadStates
<1>. HIDE DEF c, r
<1>7. Placed(cstack, c)
  BY <1>2, <1>3 DEF StackOK
<1>8. /\ c > 1 /\ \A i \in 1 .. m : cstack[i].t # L
  BY <1>1, <1>3, <1>4, <1>7 DEF Placed, AtBottom, Fits
<1>9. m \in 0 .. Len(cstack) /\ m > 0
  BY <1>3, <1>5, <1>8
<1>10. g \in Seq(Activations) /\ IsCut(g, cstack, m)
  <2>. HIDE DEF m
  <2>. QED  BY <1>2, <1>9, SubSeqCuts
<1>11. StackOK(g)
  BY <1>2, <1>10, Cut
<1>12. Len(g) = m /\ \A i \in 1 .. m : cstack[i] = g[i]
  BY <1>10 DEF IsCut
<1>. HIDE DEF g
<1>13. ~On(g, L)
  BY <1>8, <1>12 DEF On
<1>14. IsOver(g, L, r)
  BY <1>1, <1>6, <1>13 DEF IsOver
<1>15. Differ(cstack, g, L, m)
  <2>1. \A i \in m + 1 .. Len(cstack) : cstack[i].t = L
    BY <1>3, <1>5
  <2>. QED  BY <1>9, <1>12, <2>1 DEF Differ
<1>16. todo' \in {"return"} \union Errors
  BY <1>1 DEF Raised, Errors
<1>17. TodoOK'
  <2>1. cstack' # <<>>
    BY <1>1, <1>9, <1>12
  <2>. QED  BY <1>16, <2>1 DEF TodoOK, Errors
<1>18. /\ thread' \in [AllThreads -> ThreadStates] /\ over' \subseteq Coroutines
       /\ thread'[L] = r /\ \A u \in AllThreads \ {L} : thread'[u] = thread[u]
  BY <1>1, <1>4, <1>5, <1>6 DEF CallsInv, CallsTypeOK
<1>. HIDE DEF a, m
<1>19. ASSUME NEW t, t = L PROVE CallsInv'
  <2>1. /\ t \in AllThreads /\ Differ(cstack, cstack', t, m) /\ TopIs(cstack, t)
        /\ \A u \in AllThreads \ {t} : thread'[u] = thread[u]
        /\ \A u \in AllThreads \ {t} : u \in over' <=> u \in over
        /\ t \in over' /\ IsOver(cstack', t, thread'[t])
    BY <1>1, <1>4, <1>5, <1>14, <1>15, <1>18, <1>19
  <2>2. cstack' \in Seq(Activations) /\ StackOK(cstack')
    BY <1>1, <1>10, <1>11
  <2>. QED  BY <1>16, <1>17, <1>18, <2>1, <2>2, ActorOnly
<1>. QED  BY <1>19

-----------------------------------------------------------------------------
(* The invariant.                                                          *)

(* The stack the main program starts on.                                   *)
LEMMA FirstStack ==
  ASSUME CallsInit
  PROVE  /\ cstack \in Seq(Activations) /\ StackOK(cstack) /\ Len(cstack) = 3
         /\ cstack[3].k = "execute" /\ \A i \in 1 .. 3 : cstack[i].t = MainThread
         /\ NCalls(cstack, MainThread, 3) = 1 /\ NFrames(cstack, MainThread, 3) = 1
         /\ ~HooksOff(cstack, MainThread, 3) /\ ~Handled(cstack, MainThread, 3)
<1>. DEFINE M == MainThread
            p == [k |-> "pcall", t |-> M, ci |-> 0, nCcalls |-> 0, allowhook |-> TRUE, errfunc |-> 0]
            a == InCall(M)
            e == Execute(M, 1)
            d0 == <<>>
            d1 == Append(d0, p)
            d2 == Append(d1, a)
            d3 == Append(d2, e)
<1>2. /\ p \in Activations /\ p.k = "pcall" /\ AtBottom(p) /\ p.t = M /\ Weight(p, M) = 0
      /\ a \in Activations /\ a.k = "call" /\ a.t = M /\ Weight(a, M) = 0
      /\ e \in Activations /\ e.k = "execute" /\ e.t = M /\ e.n = 1 /\ Weight(e, M) = 1
  BY DEF Activations, InCall, Execute, AllThreads, AtBottom, Weight
<1>1. cstack = <<p, a, e>>
  BY DEF CallsInit
<1>. HIDE DEF p, a, e
<1>3. d0 \in Seq(Activations) /\ Len(d0) = 0
  OBVIOUS
<1>. HIDE DEF d0
<1>4. /\ IsPush(d1, d0) /\ d1[Len(d1)] = p /\ d1 \in Seq(Activations) /\ Len(d1) = 1
  BY <1>2, <1>3, Appended DEF IsPush
<1>. HIDE DEF d1
<1>5. /\ IsPush(d2, d1) /\ d2[Len(d2)] = a /\ d2 \in Seq(Activations) /\ Len(d2) = 2 /\ d2[1] = d1[1]
  <2>1. IsPush(d2, d1) /\ d2[Len(d2)] = a
    BY <1>2, <1>4, Appended
  <2>2. d2 \in Seq(Activations) /\ Len(d2) = 2 /\ \A i \in 1 .. 1 : d2[i] = d1[i]
    BY <1>4, <2>1 DEF IsPush
  <2>. QED  BY <2>1, <2>2
<1>. HIDE DEF d2
<1>6. /\ IsPush(d3, d2) /\ d3[Len(d3)] = e /\ d3 \in Seq(Activations) /\ Len(d3) = 3
      /\ d3[1] = d2[1] /\ d3[2] = d2[2]
  <2>1. IsPush(d3, d2) /\ d3[Len(d3)] = e
    BY <1>2, <1>5, Appended
  <2>2. d3 \in Seq(Activations) /\ Len(d3) = 3 /\ \A i \in 1 .. 2 : d3[i] = d2[i]
    BY SMTT(30), <1>5, <2>1 DEF IsPush
  <2>. QED  BY <2>1, <2>2
<1>. HIDE DEF d3
<1>7. d1[1] = p /\ d2[1] = p /\ d2[2] = a /\ d3[1] = p /\ d3[2] = a /\ d3[3] = e
  BY <1>4, <1>5, <1>6
<1>7a. cstack = d3
  <2>1. <<p, a, e>> \in Seq(Activations) /\ Len(<<p, a, e>>) = 3
    BY <1>2
  <2>2. \A i \in 1 .. 3 : d3[i] = <<p, a, e>>[i]
    BY <1>7
  <2>3. ASSUME NEW s \in Seq(Activations), NEW u \in Seq(Activations), Len(s) = 3, Len(u) = 3,
               \A i \in 1 .. 3 : s[i] = u[i]
        PROVE  s = u
    BY <2>3
  <2>. QED  BY <1>1, <1>6, <2>1, <2>2, <2>3
<1>8. StackOK(d1)
  <2>1. Below(d1, 1)
    <3>1. 1 .. 1 = {1} /\ 1 + 1 .. 1 = {}
      OBVIOUS
    <3>2. Catches(d1[1])
      BY <1>2, <1>7 DEF Catches
    <3>. QED  BY <3>1, <3>2 DEF Below
  <2>2. Placed(d1, 1)
    BY <1>2, <1>7, <2>1 DEF Placed
  <2>. QED  BY <1>4, <2>2 DEF StackOK
<1>9. StackOK(d2)
  <2>1. Fits(d2, 2) /\ Len(d1) > 0
    BY <1>2, <1>4, <1>7 DEF Fits
  <2>. QED  BY <1>4, <1>5, <1>8, <2>1, Push
<1>10. StackOK(d3)
  <2>1. Fits(d3, 3) /\ Len(d2) > 0
    BY <1>2, <1>5, <1>7 DEF Fits
  <2>. QED  BY <1>5, <1>6, <1>9, <2>1, Push
<1>11. /\ NCalls(d0, M, Len(d0)) = 0 /\ NFrames(d0, M, Len(d0)) = 0
       /\ ~HooksOff(d0, M, Len(d0)) /\ ~Handled(d0, M, Len(d0))
  <2>1. ~On(d0, M)
    BY <1>3 DEF On
  <2>. QED  BY <1>3, <2>1, NotOn
<1>12a. SaysMore(d0, d1, M)
  BY <1>3, <1>4, PushSays
<1>12b. SaysMore(d1, d2, M)
  BY <1>4, <1>5, PushSays
<1>12c. SaysMore(d2, d3, M)
  BY <1>5, <1>6, PushSays
<1>13. /\ NCalls(d1, M, Len(d1)) = 0 /\ NFrames(d1, M, Len(d1)) = 0
       /\ ~HooksOff(d1, M, Len(d1)) /\ ~Handled(d1, M, Len(d1))
  <2>1. d1[Len(d1)] = p /\ p.k = "pcall" /\ Len(d0) = 0 /\ Weight(p, M) = 0
    BY <1>2, <1>3, <1>4
  <2>2. NCalls(d1, M, Len(d1)) = 0
    BY <1>11, <1>12a, <2>1 DEF SaysMore
  <2>3. NFrames(d1, M, Len(d1)) = 0
    BY <1>11, <1>12a, <2>1 DEF SaysMore
  <2>4. ~HooksOff(d1, M, Len(d1)) /\ ~Handled(d1, M, Len(d1))
    BY <1>2, <1>11, <1>12a, <2>1 DEF SaysMore
  <2>. QED  BY <2>2, <2>3, <2>4
<1>14. /\ NCalls(d2, M, Len(d2)) = 1 /\ NFrames(d2, M, Len(d2)) = 0
       /\ ~HooksOff(d2, M, Len(d2)) /\ ~Handled(d2, M, Len(d2))
  BY <1>2, <1>5, <1>12b, <1>13 DEF SaysMore
<1>15. /\ NCalls(d3, M, Len(d3)) = 1 /\ NFrames(d3, M, Len(d3)) = 1
       /\ ~HooksOff(d3, M, Len(d3)) /\ ~Handled(d3, M, Len(d3))
  BY <1>2, <1>6, <1>12c, <1>14 DEF SaysMore
<1>16. \A i \in 1 .. 3 : d3[i].t = M
  BY <1>2, <1>7
<1>. QED  BY <1>2, <1>6, <1>7, <1>7a, <1>10, <1>15, <1>16

(* The invariant holds when the program starts.                            *)
LEMMA CallsInvInit == CallsInit => CallsInv
<1>. SUFFICES ASSUME CallsInit PROVE CallsInv
  OBVIOUS
<1>. DEFINE start == [NewThread EXCEPT !.ci = 1, !.nCcalls = 1]
<1>1. /\ cstack \in Seq(Activations) /\ StackOK(cstack) /\ Len(cstack) = 3
      /\ cstack[3].k = "execute" /\ \A i \in 1 .. 3 : cstack[i].t = MainThread
      /\ NCalls(cstack, MainThread, 3) = 1 /\ NFrames(cstack, MainThread, 3) = 1
      /\ ~HooksOff(cstack, MainThread, 3) /\ ~Handled(cstack, MainThread, 3)
  BY FirstStack
<1>2. /\ todo = "run" /\ over = {}
      /\ thread = [t \in AllThreads |-> IF t = MainThread THEN start ELSE NewThread]
  BY DEF CallsInit
<1>3. /\ NewThread \in ThreadStates /\ NewThread.status = "ok" /\ NewThread.ci = 0
      /\ NewThread.size_ci = BASIC_CI_SIZE /\ NewThread.nCcalls = 0 /\ NewThread.allowhook
      /\ NewThread.errfunc = 0 /\ NewThread.values = 1
  BY LimitsAssumption DEF NewThread, ThreadStates
<1>4. /\ start \in ThreadStates /\ start.status = "ok" /\ start.ci = 1
      /\ start.size_ci = BASIC_CI_SIZE /\ start.nCcalls = 1 /\ start.allowhook
      /\ start.errfunc = 0
  BY <1>3 DEF ThreadStates
<1>. HIDE DEF start
<1>5. SizeOK(NewThread) /\ SizeOK(start)
  BY <1>3, <1>4, LimitsAssumption DEF SizeOK
<1>6. CallsTypeOK
  BY <1>1, <1>2, <1>3, <1>4 DEF CallsTypeOK
<1>7. Lives(cstack, todo, MainThread, start)
  <2>1. Agrees(cstack, MainThread, Len(cstack), start) /\ FramesAgree(cstack, MainThread, Len(cstack), start)
    BY <1>1, <1>4 DEF Agrees, FramesAgree
  <2>2. ~(start.nCcalls >= LUAI_MAXCCALLS)
    BY <1>4, LimitsAssumption
  <2>. QED  BY <1>4, <1>5, <2>1, <2>2 DEF Lives
<1>8. ASSUME NEW t \in Coroutines PROVE Lives(cstack, todo, t, NewThread)
  <2>1. t # MainThread
    BY ThreadsAssumption
  <2>2. ~On(cstack, t)
    BY <1>1, <2>1 DEF On
  <2>3. Agrees(cstack, t, Len(cstack), NewThread) /\ FramesAgree(cstack, t, Len(cstack), NewThread)
    BY <1>1, <1>3, <2>2, NotOn DEF Agrees, FramesAgree
  <2>4. ~(NewThread.nCcalls >= LUAI_MAXCCALLS)
    BY <1>3, LimitsAssumption
  <2>. QED  BY <1>3, <1>5, <2>1, <2>2, <2>3, <2>4 DEF Lives
<1>9. ThreadsOK
  BY <1>2, <1>7, <1>8 DEF ThreadsOK, AllThreads
<1>10. TodoOK
  BY SMTT(30), <1>1, <1>2 DEF TodoOK
<1>. QED  BY <1>1, <1>6, <1>9, <1>10 DEF CallsInv

(* Every step of a program keeps it.                                       *)
LEMMA CallsInvNext == CallsInv /\ [CallsNext]_callsVars => CallsInv'
<1>. SUFFICES ASSUME CallsInv, [CallsNext]_callsVars PROVE CallsInv'
  OBVIOUS
<1>1. ASSUME NEW f \in Functions, Call(f) PROVE CallsInv'
  BY <1>1, CallActionKeeps
<1>2. ASSUME NEW f \in Functions, PCall(f) PROVE CallsInv'
  BY <1>2, PCallKeeps
<1>3. ASSUME NEW f \in TagMethods, TagMethod(f) PROVE CallsInv'
  BY <1>3, TagMethodKeeps
<1>4. CASE TailCall
  BY <1>4, TailCallKeeps
<1>5. CASE Return
  BY <1>5, ReturnKeeps
<1>6. CASE Hook
  BY <1>6, HookKeeps
<1>7. CASE Finalizer
  BY <1>7, FinalizerKeeps
<1>8. CASE Error \/ YieldRefused \/ TooManyArguments
  BY <1>8, ErrorsKeep
<1>9. CASE Yield
  BY <1>9, YieldKeeps
<1>10. CASE Resume
  BY <1>10, ResumeKeeps
<1>11. CASE ResumeRefused
  BY <1>11, ResumeRefusedKeeps
<1>12. CASE LeaveCall
  BY <1>12, LeaveCallKeeps
<1>13. CASE LeaveC
  BY <1>13, LeaveCKeeps
<1>14. CASE LeavePCall
  BY <1>14, LeavePCallKeeps
<1>15. CASE LeaveHook \/ LeaveFinalizer
  BY <1>15, HooksBackKeeps
<1>16. CASE LeaveResume \/ TooManyResults
  BY <1>16, LeaveResumeKeeps
<1>17. CASE LeaveHandler
  BY <1>17, LeaveHandlerKeeps
<1>18. CASE ErrorMsg
  BY <1>18, ErrorMsgKeeps
<1>19. CASE CaughtByPCall
  BY <1>19, CaughtByPCallKeeps
<1>20. CASE CaughtByResume
  BY <1>20, CaughtByResumeKeeps
<1>21. CASE UNCHANGED callsVars
  BY <1>21 DEF callsVars, CallsInv, CallsTypeOK, ThreadsOK, TodoOK
<1>22. CASE ResumeUncallable
  BY <1>22, ResumeUncallableKeeps
<1>. QED
  BY <1>1, <1>2, <1>3, <1>4, <1>5, <1>6, <1>7, <1>8, <1>9, <1>10, <1>11, <1>12, <1>13, <1>14,
     <1>15, <1>16, <1>17, <1>18, <1>19, <1>20, <1>21, <1>22 DEF CallsNext, CallsDone

(* The counters of every thread, and what every protected call saved,      *)
(* agree with the C stack whatever the program does: CallsInv is an        *)
(* invariant of ldo.cpp's calls, errors and coroutines.                    *)
THEOREM CountersAreTheStack == CallsSpec => []CallsInv
<1>1. CallsInit => CallsInv
  BY CallsInvInit
<1>2. CallsInv /\ [CallsNext]_callsVars => CallsInv'
  BY CallsInvNext
<1>. QED  BY <1>1, <1>2, PTL DEF CallsSpec

-----------------------------------------------------------------------------
(* The properties.                                                         *)

(* A set of places on a stack has a last one.                              *)
LEMMA LastPlace ==
  ASSUME NEW n \in Nat, NEW S, S \subseteq 1 .. n, S # {}
  PROVE  Max(S) \in S /\ \A i \in S : i <= Max(S)
<1>. DEFINE T == {n - i : i \in S}
            R == {p \in Nat \X Nat : p[1] < p[2]}
<1>1. IsWellFoundedOn(R, Nat)
  <2>1. R = OpToRel(<, Nat)
    BY DEF OpToRel
  <2>. QED  BY <2>1, NatLessThanWellFounded
<1>2. T \subseteq Nat /\ T # {}
  <2>1. PICK i : i \in S
    OBVIOUS
  <2>2. n - i \in T
    BY <2>1
  <2>3. \A j \in S : n - j \in Nat
    OBVIOUS
  <2>. QED  BY <2>2, <2>3
<1>3. PICK m \in T : \A k \in T : <<k, m>> \notin R
  <2>. HIDE DEF T, R
  <2>. QED  BY <1>1, <1>2, WFMin
<1>4. PICK i \in S : m = n - i
  OBVIOUS
<1>5. ASSUME NEW j \in S PROVE i >= j
  <2>1. n - j \in T /\ n - j \in Nat /\ m \in Nat
    BY <1>2
  <2>2. ~(n - j < m)
    BY <1>3, <2>1
  <2>. QED  BY <1>4, <2>2
<1>6. Max(S) \in S /\ \A j \in S : Max(S) >= j
  BY <1>5 DEF Max
<1>. QED  BY <1>6

(* nCcalls is exact: CCallsExact, for every thread that can still run,     *)
(* after any errors and yields.                                            *)
THEOREM CCallsAreExact == CallsSpec => []CCallsExact
<1>1. ASSUME CallsInv PROVE CCallsExact
  <2>1. ASSUME NEW t \in AllThreads \ over PROVE thread[t].nCcalls = Cardinality(Of(t, "call"))
    <3>1. thread[t].nCcalls = NCalls(cstack, t, Len(cstack))
      BY <1>1 DEF CallsInv, ThreadsOK, Lives, Agrees
    <3>2. CallsIn(cstack, t, Len(cstack)) = Of(t, "call")
      BY <1>1 DEF CallsInv, CallsTypeOK, CallsIn, Of
    <3>. QED  BY <3>1, <3>2 DEF NCalls
  <2>. QED  BY <2>1 DEF CCallsExact
<1>. QED  BY <1>1, CountersAreTheStack, PTL

(* The frames of a thread are shared out among the activations that run    *)
(* them (FramesShared), also after yields and errors.                      *)
THEOREM FramesAreShared == CallsSpec => []FramesShared
<1>1. ASSUME CallsInv PROVE FramesShared
  <2>1. ASSUME todo = "run", NEW t \in AllThreads \ over, OnCStack(t)
        PROVE  thread[t].ci = Cardinality(UNION {{i} \X FramesOf(cstack[i]) :
                                                    i \in {j \in DOMAIN cstack : cstack[j].t = t}})
    <3>1. Lives(cstack, todo, t, thread[t]) /\ DOMAIN cstack = 1 .. Len(cstack)
      BY <1>1 DEF CallsInv, ThreadsOK, CallsTypeOK
    <3>2. On(cstack, t)
      BY <2>1, <3>1 DEF OnCStack, On
    <3>3. thread[t].ci = NFrames(cstack, t, Len(cstack))
      BY <2>1, <3>1, <3>2 DEF Lives, FramesAgree
    <3>4. FramesIn(cstack, t, Len(cstack)) =
            UNION {{i} \X FramesOf(cstack[i]) : i \in {j \in DOMAIN cstack : cstack[j].t = t}}
      BY <3>1 DEF FramesIn
    <3>. QED  BY <3>3, <3>4 DEF NFrames
  <2>. QED  BY <2>1 DEF FramesShared
<1>. QED  BY <1>1, CountersAreTheStack, PTL

(* What coroutine.status answers is true (StatusTrue): a coroutine that is *)
(* on the C stack but does not run has called resume, and has a frame; and *)
(* one that is over has neither a frame nor, unless resume found no room   *)
(* for them (auxresume), results, so that it is dead.                      *)
THEOREM StatusIsTrue == CallsSpec => []StatusTrue
<1>1. ASSUME CallsInv PROVE StatusTrue
  <2>1. ASSUME todo = "run", NEW t \in Coroutines \ {L}
        PROVE  CoStatus(thread[t]) = IF OnCStack(t) THEN "normal"
                                     ELSE IF t \in over /\ ~KeptResults(t) THEN "dead"
                                     ELSE "suspended"
    <3>. DEFINE r == thread[t]
                n == Len(cstack)
    <3>1. /\ t # MainThread /\ t \in AllThreads /\ cstack \in Seq(Activations) /\ n \in Nat
          /\ OnCStack(t) <=> On(cstack, t)
      BY <1>1, ThreadsAssumption DEF CallsInv, CallsTypeOK, OnCStack, On, AllThreads
    <3>2. CASE t \in over
      <4>1. IsOver(cstack, t, r)
        BY <1>1, <3>1, <3>2 DEF CallsInv, ThreadsOK
      <4>. QED  BY <3>1, <3>2, <4>1 DEF IsOver, CoStatus, KeptResults
    <3>3. CASE t \notin over /\ On(cstack, t)
      <4>1. Lives(cstack, todo, t, r)
        BY <1>1, <3>1, <3>3 DEF CallsInv, ThreadsOK
      <4>2. r.status = "ok" /\ r.ci = NFrames(cstack, t, n)
        BY <2>1, <3>1, <3>3, <4>1 DEF Lives, FramesAgree
      <4>3. n \in Nat \ {0} /\ L = cstack[n].t /\ Below(cstack, n)
        BY <1>1, <2>1, RunningOn DEF CallsInv, StackOK, Placed
      <4>4. PICK i \in 1 .. n : cstack[i].t = t
        BY <3>3 DEF On
      <4>5. PICK m \in i .. n : cstack[m].t = t /\ cstack[m].k = "cfunction"
        BY <2>1, <4>3, <4>4 DEF Below
      <4>6. <<m, 1>> \in FramesIn(cstack, t, n)
        BY <4>3, <4>5 DEF FramesIn, FramesOf
      <4>7. r.ci # 0
        <5>1. IsFiniteSet(FramesIn(cstack, t, n))
          BY <3>1, Finite
        <5>. QED  BY <4>2, <4>6, <5>1, FS_EmptySet DEF NFrames
      <4>. QED  BY <3>1, <3>3, <4>2, <4>7 DEF CoStatus
    <3>4. CASE t \notin over /\ ~On(cstack, t)
      <4>1. Lives(cstack, todo, t, r)
        BY <1>1, <3>1, <3>4 DEF CallsInv, ThreadsOK
      <4>2. \/ r.status = "ok" /\ r.values = 1 /\ r.ci = NFrames(cstack, t, n)
            \/ r.status = "yield"
        BY <3>1, <3>4, <4>1 DEF Lives, FramesAgree
      <4>3. NFrames(cstack, t, n) = 0
        BY <3>1, <3>4, NotOn
      <4>. QED  BY <3>1, <3>4, <4>2, <4>3 DEF CoStatus
    <3>. QED  BY <3>2, <3>3, <3>4
  <2>. QED  BY <2>1 DEF StatusTrue
<1>. QED  BY <1>1, CountersAreTheStack, PTL

(* The handler in force is that of the innermost protected call of the     *)
(* thread (HandlerInForce), also after calls that failed inside it.        *)
THEOREM HandlerIsInForce == CallsSpec => []HandlerInForce
<1>1. ASSUME CallsInv PROVE HandlerInForce
  <2>1. ASSUME todo = "run", NEW t \in AllThreads \ over
        PROVE  LET own == Of(t, "pcall")
               IN  thread[t].errfunc # 0 <=>
                       own # {} /\ Max(own) > 1 /\ cstack[Max(own) - 1].f[1] = "xpcall"
    <3>. DEFINE own == Of(t, "pcall")
                n == Len(cstack)
    <3>1. n \in Nat /\ own = {i \in 1 .. n : cstack[i].t = t /\ cstack[i].k = "pcall"}
      BY <1>1 DEF CallsInv, CallsTypeOK, Of
    <3>2. thread[t].errfunc # 0 <=> Handled(cstack, t, n)
      BY <1>1 DEF CallsInv, ThreadsOK, Lives, Agrees
    <3>. HIDE DEF own, n
    <3>3. own # {} => Max(own) \in own /\ \A i \in own : i <= Max(own)
      BY <3>1, LastPlace
    <3>4. ASSUME Handled(cstack, t, n)
          PROVE  own # {} /\ Max(own) > 1 /\ cstack[Max(own) - 1].f[1] = "xpcall"
      <4>1. PICK i \in 2 .. n : /\ cstack[i].t = t /\ cstack[i].k = "pcall"
                               /\ cstack[i - 1].f[1] = "xpcall"
                               /\ \A j \in i + 1 .. n : ~(cstack[j].t = t /\ cstack[j].k = "pcall")
        BY <3>4 DEF Handled
      <4>2. i \in own /\ \A j \in own : j <= i
        BY <3>1, <4>1
      <4>3. Max(own) = i
        BY <3>1, <3>3, <4>2
      <4>. QED  BY <4>1, <4>2, <4>3
    <3>5. ASSUME own # {}, Max(own) > 1, cstack[Max(own) - 1].f[1] = "xpcall"
          PROVE  Handled(cstack, t, n)
      <4>. DEFINE i == Max(own)
      <4>1. i \in 2 .. n /\ cstack[i].t = t /\ cstack[i].k = "pcall"
        BY <3>1, <3>3, <3>5
      <4>2. \A j \in i + 1 .. n : ~(cstack[j].t = t /\ cstack[j].k = "pcall")
        BY <3>1, <3>3, <3>5, <4>1
      <4>. HIDE DEF i
      <4>3. cstack[i - 1].f[1] = "xpcall"
        BY <3>5 DEF i
      <4>. QED  BY <4>1, <4>2, <4>3 DEF Handled
    <3>. QED  BY <3>2, <3>4, <3>5 DEF own
  <2>. QED  BY <2>1 DEF HandlerInForce
<1>. QED  BY <1>1, CountersAreTheStack, PTL

(* Hooks are off in a thread exactly while it runs a hook or a finalizer   *)
(* (HooksOffInside), however these ended.                                  *)
THEOREM HooksAreOffInside == CallsSpec => []HooksOffInside
<1>1. ASSUME CallsInv PROVE HooksOffInside
  <2>1. ASSUME NEW t \in AllThreads \ over
        PROVE  thread[t].allowhook = (Of(t, "hook") \union Of(t, "gctm") = {})
    <3>1. thread[t].allowhook <=> ~HooksOff(cstack, t, Len(cstack))
      BY <1>1 DEF CallsInv, ThreadsOK, Lives, Agrees
    <3>2. thread[t].allowhook \in BOOLEAN
      BY <1>1 DEF CallsInv, CallsTypeOK, ThreadStates
    <3>3. HooksOff(cstack, t, Len(cstack)) <=> Of(t, "hook") \union Of(t, "gctm") # {}
      BY <1>1 DEF CallsInv, CallsTypeOK, HooksOff, Of
    <3>. QED  BY <3>1, <3>2, <3>3
  <2>. QED  BY <2>1 DEF HooksOffInside
<1>. QED  BY <1>1, CountersAreTheStack, PTL

(* Overflows are contained (OverflowContained): frames fit in their array, *)
(* the array in twice the limit, and C calls beyond theirs run only inside *)
(* a handler.                                                              *)
THEOREM OverflowIsContained == CallsSpec => []OverflowContained
<1>1. ASSUME CallsInv PROVE OverflowContained
  <2>1. ASSUME NEW t \in AllThreads \ over
        PROVE  /\ thread[t].ci < thread[t].size_ci
               /\ thread[t].size_ci <= 2 * LUAI_MAXCALLS
               /\ todo = "run" /\ thread[t].nCcalls >= LUAI_MAXCCALLS => Of(t, "errormsg") # {}
    <3>1. Lives(cstack, todo, t, thread[t])
      BY <1>1 DEF CallsInv, ThreadsOK
    <3>2. InHandler(cstack, t, Len(cstack)) => Of(t, "errormsg") # {}
      BY <1>1 DEF CallsInv, CallsTypeOK, InHandler, Of
    <3>. QED  BY <3>1, <3>2 DEF Lives, SizeOK, Errors
  <2>. QED  BY <2>1 DEF OverflowContained
<1>. QED  BY <1>1, CountersAreTheStack, PTL
=============================================================================
