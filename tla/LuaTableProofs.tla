--------------------------- MODULE LuaTableProofs ---------------------------
(***************************************************************************)
(* What is proved of ltable.cpp (LuaTable), for any keys, values and hash  *)
(* functions and for tables of any size.                                   *)
(***************************************************************************)
EXTENDS LuaTable, FiniteSetTheorems, SequenceTheorems, WellFoundedInduction, TLAPS

-----------------------------------------------------------------------------
(* Chains.  A set of positions is closed when `next' does not leave it; q  *)
(* can be reached from p when every closed set with p has q.               *)
Closed(nd, S) == \A p \in S : nd[p].next \in S \cup {NoNode}
Reach(nd, p, q) == \A S \in SUBSET DOMAIN nd : Closed(nd, S) /\ p \in S => q \in S
Acyclic(nd) == \A S \in SUBSET DOMAIN nd : S # {} => \E p \in S : nd[p].next \notin S

Vector(nd) == /\ NoNode \notin DOMAIN nd
              /\ \A p \in DOMAIN nd : nd[p].next \in DOMAIN nd \cup {NoNode}

(* The first step of a way.                                                *)
LEMMA ReachStep ==
  ASSUME NEW nd, Vector(nd), NEW p \in DOMAIN nd, NEW q \in DOMAIN nd, p # q, Reach(nd, p, q)
  PROVE  nd[p].next \in DOMAIN nd /\ Reach(nd, nd[p].next, q)
<1>1. nd[p].next \in DOMAIN nd
  <2>1. CASE nd[p].next = NoNode
    <3>1. Closed(nd, {p}) /\ {p} \in SUBSET DOMAIN nd
      BY <2>1 DEF Closed
    <3>. QED  BY <3>1 DEF Reach
  <2>. QED  BY <2>1 DEF Vector
<1>2. ASSUME NEW S \in SUBSET DOMAIN nd, Closed(nd, S), nd[p].next \in S
      PROVE  q \in S
  <2>1. Closed(nd, S \cup {p}) /\ S \cup {p} \in SUBSET DOMAIN nd
    BY <1>2 DEF Closed
  <2>. QED  BY <2>1 DEF Reach
<1>. QED  BY <1>1, <1>2 DEF Reach

(* Ways can be put together.                                               *)
LEMMA ReachTrans ==
  ASSUME NEW nd, NEW p, NEW q, NEW s, Reach(nd, p, q), Reach(nd, q, s)
  PROVE  Reach(nd, p, s)
BY DEF Reach

(* `next' is a way, and so is staying.                                     *)
LEMMA ReachNext ==
  ASSUME NEW nd, NEW p
  PROVE  Reach(nd, p, p) /\ (nd[p].next # NoNode => Reach(nd, p, nd[p].next))
BY DEF Reach, Closed

(* There are no two ways between two positions, there and back.            *)
LEMMA ReachOneWay ==
  ASSUME NEW nd, Vector(nd), Acyclic(nd), NEW p \in DOMAIN nd, NEW q \in DOMAIN nd,
         Reach(nd, p, q), Reach(nd, q, p)
  PROVE  p = q
<1>. SUFFICES ASSUME p # q PROVE FALSE
  OBVIOUS
<1>. DEFINE C == {x \in DOMAIN nd : Reach(nd, x, p) /\ Reach(nd, x, q)}
<1>1. p \in C
  BY ReachNext
<1>2. ASSUME NEW x \in C PROVE nd[x].next \in C
  <2>1. CASE x # p
    <3>1. nd[x].next \in DOMAIN nd /\ Reach(nd, nd[x].next, p)
      BY <2>1, ReachStep
    <3>. QED  BY <3>1, ReachTrans
  <2>2. CASE x # q
    <3>1. nd[x].next \in DOMAIN nd /\ Reach(nd, nd[x].next, q)
      BY <2>2, ReachStep
    <3>. QED  BY <3>1, ReachTrans
  <2>. QED  BY <2>1, <2>2
<1>. QED  BY <1>1, <1>2 DEF Acyclic

(* Ways depend on nothing but `next'.                                      *)
SameWays(nd, r) ==
  /\ Vector(nd) => Vector(r)
  /\ Acyclic(nd) => Acyclic(r)
  /\ \A p, q : Reach(r, p, q) <=> Reach(nd, p, q)

(* Nodes with the same links have the same ways along them. *)
LEMMA SameLinks ==
  ASSUME NEW nd, NEW r, DOMAIN r = DOMAIN nd, \A p \in DOMAIN nd : r[p].next = nd[p].next
  PROVE  SameWays(nd, r)
<1>1. \A S \in SUBSET DOMAIN nd : Closed(r, S) <=> Closed(nd, S)
  BY DEF Closed
<1>. QED  BY <1>1 DEF SameWays, Vector, Acyclic, Reach

(* A node without a key is not in a chain.                                 *)
Alone(nd, n) == /\ n \in DOMAIN nd /\ nd[n].next = NoNode
                /\ \A p \in DOMAIN nd : nd[p].next # n

(* The links of a vector after n is put behind m.                          *)
PutBehind(nd, r, m, n) ==
  /\ m \in DOMAIN nd /\ n \in DOMAIN nd /\ m # n /\ DOMAIN r = DOMAIN nd
  /\ r[m].next = n /\ r[n].next = nd[m].next
  /\ \A p \in DOMAIN nd \ {m, n} : r[p].next = nd[p].next

(* luaH_set puts a node behind the main position of its key (ltable.cpp:
   397): no way changes but those that now also come to the new node. *)
LEMMA BehindLinks ==
  ASSUME NEW nd, Vector(nd), Acyclic(nd), NEW r, NEW m, NEW n, Alone(nd, n), PutBehind(nd, r, m, n)
  PROVE  /\ Vector(r) /\ Acyclic(r)
         /\ \A p, q \in DOMAIN nd \ {n} : Reach(r, p, q) <=> Reach(nd, p, q)
         /\ \A p \in DOMAIN nd \ {n} : Reach(r, p, n) <=> Reach(nd, p, m)
<1>. DEFINE D == DOMAIN nd
<1>1. Vector(r)
  BY DEF Vector, PutBehind, Alone
<1>2. ASSUME NEW S \in SUBSET D, S # {} PROVE \E p \in S : r[p].next \notin S
  <2>1. CASE S = {n}
    BY <2>1 DEF Alone, PutBehind
  <2>2. CASE S # {n}
    <3>1. S \ {n} \in SUBSET D /\ S \ {n} # {}
      BY <1>2, <2>2
    <3>2. PICK p \in S \ {n} : nd[p].next \notin S \ {n}
      BY <3>1 DEF Acyclic
    <3>3. nd[p].next \notin S
      BY <3>2 DEF Alone
    <3>. QED  BY <3>2, <3>3 DEF PutBehind
  <2>. QED  BY <2>1, <2>2
<1>3. ASSUME NEW S \in SUBSET D, Closed(r, S) PROVE Closed(nd, S \ {n})
  <2>1. ASSUME NEW p \in S \ {n} PROVE nd[p].next \in (S \ {n}) \cup {NoNode}
    <3>1. CASE p = m
      <4>1. n \in S
        BY <1>1, <1>3, <3>1 DEF Closed, PutBehind, Vector
      <4>. QED  BY <1>3, <3>1, <4>1 DEF Closed, PutBehind, Alone
    <3>2. CASE p # m
      BY <1>3, <3>2 DEF Closed, PutBehind, Alone
    <3>. QED  BY <3>1, <3>2
  <2>. QED  BY <2>1 DEF Closed
<1>. DEFINE With(S) == (S \ {n}) \cup (IF m \in S THEN {n} ELSE {})
<1>4. ASSUME NEW S \in SUBSET D, Closed(nd, S) PROVE Closed(r, With(S)) /\ With(S) \in SUBSET D
  <2>1. With(S) \in SUBSET D
    BY DEF PutBehind
  <2>2. ASSUME NEW p \in With(S) PROVE r[p].next \in With(S) \cup {NoNode}
    <3>1. CASE p = n
      BY <1>4, <3>1 DEF Closed, PutBehind, Alone
    <3>2. CASE p = m
      BY <3>2 DEF PutBehind
    <3>3. CASE p \notin {n, m}
      BY <1>4, <3>3 DEF Closed, PutBehind, Alone
    <3>. QED  BY <3>1, <3>2, <3>3
  <2>. QED  BY <2>1, <2>2 DEF Closed
<1>5. DOMAIN r = D /\ m \in D \ {n} /\ n \in D
  BY DEF PutBehind
<1>6. ASSUME NEW p \in D \ {n}, NEW q \in D \ {n} PROVE Reach(r, p, q) <=> Reach(nd, p, q)
  <2>1. ASSUME Reach(nd, p, q), NEW S \in SUBSET D, Closed(r, S), p \in S PROVE q \in S
    <3>1. Closed(nd, S \ {n}) /\ S \ {n} \in SUBSET DOMAIN nd /\ p \in S \ {n}
      BY <1>3, <2>1
    <3>. QED  BY <2>1, <3>1 DEF Reach
  <2>2. ASSUME Reach(r, p, q), NEW S \in SUBSET D, Closed(nd, S), p \in S PROVE q \in S
    <3>1. Closed(r, With(S)) /\ With(S) \in SUBSET DOMAIN r /\ p \in With(S)
      BY <1>4, <1>5, <2>2
    <3>. QED  BY <2>2, <3>1 DEF Reach
  <2>. QED  BY <1>5, <2>1, <2>2 DEF Reach
<1>7. ASSUME NEW p \in D \ {n} PROVE Reach(r, p, n) <=> Reach(nd, p, m)
  <2>1. ASSUME Reach(nd, p, m) PROVE Reach(r, p, n)
    <3>1. Reach(r, p, m) /\ Reach(r, m, n)
      BY <1>1, <1>5, <1>6, <2>1, ReachNext DEF PutBehind, Vector
    <3>. QED  BY <3>1, ReachTrans
  <2>2. ASSUME Reach(r, p, n), NEW S \in SUBSET D, Closed(nd, S), p \in S PROVE m \in S
    <3>1. Closed(r, With(S)) /\ With(S) \in SUBSET DOMAIN r /\ p \in With(S)
      BY <1>4, <1>5, <2>2
    <3>2. n \in With(S)
      BY <2>2, <3>1 DEF Reach
    <3>. QED  BY <3>2
  <2>. QED  BY <2>1, <2>2 DEF Reach
<1>. QED  BY <1>1, <1>2, <1>5, <1>6, <1>7 DEF Acyclic

(* The links after the node at m has moved to n, and m begins a new chain. *)
PutAway(nd, r, prev, m, n) ==
  /\ {prev, m, n} \subseteq DOMAIN nd /\ m # n /\ prev # m /\ DOMAIN r = DOMAIN nd
  /\ nd[prev].next = m /\ \A p \in DOMAIN nd : nd[p].next = m => p = prev
  /\ r[prev].next = n /\ r[n].next = nd[m].next /\ r[m].next = NoNode
  /\ \A p \in DOMAIN nd \ {prev, m, n} : r[p].next = nd[p].next

(* luaH_set moves a colliding node away (ltable.cpp:386): every way to the
   node that moved now comes to its new place. *)
LEMMA AwayLinks ==
  ASSUME NEW nd, Vector(nd), Acyclic(nd), NEW r, NEW prev, NEW m, NEW n, Alone(nd, n),
         PutAway(nd, r, prev, m, n)
  PROVE  /\ Vector(r) /\ Acyclic(r)
         /\ \A p, q \in DOMAIN nd \ {m, n} : Reach(r, p, q) <=> Reach(nd, p, q)
         /\ \A p \in DOMAIN nd \ {m, n} : Reach(r, p, n) <=> Reach(nd, p, m)
<1>. DEFINE D == DOMAIN nd
<1>1. Vector(r)
  BY DEF Vector, PutAway
<1>2. nd[m].next # m /\ prev # n
  <2>1. {m} \in SUBSET DOMAIN nd /\ m \in {m}
    BY DEF PutAway
  <2>2. nd[m].next \notin {m}
    BY <2>1 DEF Acyclic
  <2>. QED  BY <2>2 DEF PutAway, Alone, Vector
(* What S is when n is called m again.                                     *)
<1>. DEFINE Back(S) == (S \ {m, n}) \cup (IF n \in S THEN {m} ELSE {})
            There(S) == (S \ {m, n}) \cup (IF m \in S THEN {n} ELSE {})
<1>3. ASSUME NEW S \in SUBSET D, S # {} PROVE \E p \in S : r[p].next \notin S
  <2>1. CASE m \in S
    BY <2>1 DEF PutAway, Vector
  <2>2. CASE m \notin S
    <3>1. Back(S) \in SUBSET D /\ Back(S) # {}
      BY <1>3, <2>2 DEF PutAway
    <3>2. PICK p \in Back(S) : nd[p].next \notin Back(S)
      BY <3>1 DEF Acyclic
    <3>3. CASE p = m
      BY <1>2, <2>2, <3>2, <3>3 DEF PutAway, Alone
    <3>4. CASE p = prev
      BY <1>2, <2>2, <3>2, <3>4 DEF PutAway, Alone
    <3>5. CASE p # m /\ p # prev
      <4>1. r[p].next = nd[p].next /\ p \in S /\ p # n
        BY <3>2, <3>5 DEF PutAway
      <4>. QED  BY <2>2, <3>2, <4>1 DEF Alone
    <3>. QED  BY <3>3, <3>4, <3>5
  <2>. QED  BY <2>1, <2>2
<1>4. ASSUME NEW S \in SUBSET D, Closed(r, S) PROVE Closed(nd, Back(S)) /\ Back(S) \in SUBSET D
  <2>1. ASSUME NEW p \in Back(S) PROVE nd[p].next \in Back(S) \cup {NoNode}
    <3>1. CASE p = m
      BY <1>2, <1>4, <2>1, <3>1 DEF Closed, PutAway, Alone
    <3>2. CASE p = prev
      BY <1>1, <1>2, <1>4, <2>1, <3>2 DEF Closed, PutAway, Alone, Vector
    <3>3. CASE p # m /\ p # prev
      <4>1. r[p].next = nd[p].next /\ p \in S /\ p # n /\ nd[p].next # m /\ nd[p].next # n
        BY <2>1, <3>3 DEF PutAway, Alone
      <4>. QED  BY <1>4, <4>1 DEF Closed
    <3>. QED  BY <3>1, <3>2, <3>3
  <2>. QED  BY <2>1 DEF Closed, PutAway
<1>5. ASSUME NEW S \in SUBSET D, Closed(nd, S) PROVE Closed(r, There(S)) /\ There(S) \in SUBSET D
  <2>1. ASSUME NEW p \in There(S) PROVE r[p].next \in There(S) \cup {NoNode}
    <3>1. CASE p = n
      BY <1>2, <1>5, <2>1, <3>1 DEF Closed, PutAway, Alone
    <3>2. CASE p = prev
      BY <1>1, <1>2, <1>5, <2>1, <3>2 DEF Closed, PutAway, Alone, Vector
    <3>3. CASE p # n /\ p # prev
      <4>1. r[p].next = nd[p].next /\ p \in S /\ p # m /\ nd[p].next # m /\ nd[p].next # n
        BY <2>1, <3>3 DEF PutAway, Alone
      <4>. QED  BY <1>5, <4>1 DEF Closed
    <3>. QED  BY <3>1, <3>2, <3>3
  <2>. QED  BY <2>1 DEF Closed, PutAway
<1>6. DOMAIN r = D /\ m \in D /\ n \in D /\ m # n
  BY DEF PutAway
<1>7. ASSUME NEW p \in D \ {m, n}, NEW q \in D \ {m, n} PROVE Reach(r, p, q) <=> Reach(nd, p, q)
  <2>1. ASSUME Reach(nd, p, q), NEW S \in SUBSET D, Closed(r, S), p \in S PROVE q \in S
    <3>1. Closed(nd, Back(S)) /\ Back(S) \in SUBSET DOMAIN nd /\ p \in Back(S)
      BY <1>4, <2>1
    <3>. QED  BY <2>1, <3>1 DEF Reach
  <2>2. ASSUME Reach(r, p, q), NEW S \in SUBSET D, Closed(nd, S), p \in S PROVE q \in S
    <3>1. Closed(r, There(S)) /\ There(S) \in SUBSET DOMAIN r /\ p \in There(S)
      BY <1>5, <1>6, <2>2
    <3>. QED  BY <2>2, <3>1 DEF Reach
  <2>. QED  BY <1>6, <2>1, <2>2 DEF Reach
<1>8. ASSUME NEW p \in D \ {m, n} PROVE Reach(r, p, n) <=> Reach(nd, p, m)
  <2>1. ASSUME Reach(nd, p, m), NEW S \in SUBSET D, Closed(r, S), p \in S PROVE n \in S
    <3>1. Closed(nd, Back(S)) /\ Back(S) \in SUBSET DOMAIN nd /\ p \in Back(S)
      BY <1>4, <2>1
    <3>2. m \in Back(S)
      BY <2>1, <3>1 DEF Reach
    <3>. QED  BY <3>2
  <2>2. ASSUME Reach(r, p, n), NEW S \in SUBSET D, Closed(nd, S), p \in S PROVE m \in S
    <3>1. Closed(r, There(S)) /\ There(S) \in SUBSET DOMAIN r /\ p \in There(S)
      BY <1>5, <1>6, <2>2
    <3>2. n \in There(S)
      BY <2>2, <3>1 DEF Reach
    <3>. QED  BY <3>2
  <2>. QED  BY <1>6, <2>1, <2>2 DEF Reach
<1>. QED  BY <1>1, <1>3, <1>6, <1>7, <1>8 DEF Acyclic

-----------------------------------------------------------------------------
(* Loops.                                                                  *)

(* Induction up to n: what holds of 0, and of i + 1 when of i.             *)
LEMMA UpTo ==
  ASSUME NEW n \in Nat, NEW S, 0 \in S, \A i \in 0 .. n - 1 : i \in S => i + 1 \in S
  PROVE  0 .. n \subseteq S
<1>. DEFINE T == {i \in 0 .. n : i \notin S}
            R == {p \in Nat \X Nat : p[1] < p[2]}
<1>1. IsWellFoundedOn(R, Nat)
  <2>1. R = OpToRel(<, Nat)
    BY DEF OpToRel
  <2>. QED  BY <2>1, NatLessThanWellFounded
<1>2. SUFFICES ASSUME T # {} PROVE FALSE
  OBVIOUS
<1>3. PICK m \in T : \A k \in T : <<k, m>> \notin R
  <2>1. T \subseteq Nat
    OBVIOUS
  <2>. HIDE DEF T, R
  <2>. QED  BY <1>1, <1>2, <2>1, WFMin
<1>4. m # 0 /\ m - 1 \in 0 .. n - 1 /\ m - 1 + 1 = m
  OBVIOUS
<1>5. m - 1 \notin S
  BY <1>4
<1>6. m - 1 \in T /\ <<m - 1, m>> \in R
  BY <1>4, <1>5
<1>. QED  BY <1>3, <1>6

(* A function that is defined from one place to the next exists.           *)
Defined(X, x, n, step) ==
  \E g \in [0 .. n -> X] : g[0] = x /\ \A i \in 1 .. n : g[i] = step[i][g[i - 1]]

(* Such a function exists for every number of steps: from the chains of a
   table (Chain) to the loops that reinsert its entries (Loop). *)
LEMMA Recursion ==
  ASSUME NEW X, NEW x \in X, NEW n \in Nat, NEW step \in [1 .. n -> [X -> X]]
  PROVE  Defined(X, x, n, step)
<1>. DEFINE Upto(g, m) == g[0] = x /\ \A i \in 1 .. m : g[i] = step[i][g[i - 1]]
            S == {m \in 0 .. n : \E g \in [0 .. m -> X] : Upto(g, m)}
<1>1. 0 \in S
  <2>1. [j \in 0 .. 0 |-> x] \in [0 .. 0 -> X] /\ Upto([j \in 0 .. 0 |-> x], 0)
    OBVIOUS
  <2>2. 0 \in 0 .. n
    OBVIOUS
  <2>. HIDE DEF Upto
  <2>. QED  BY <2>1, <2>2
<1>2. ASSUME NEW m \in 0 .. n - 1, m \in S PROVE m + 1 \in S
  <2>1. PICK g \in [0 .. m -> X] : Upto(g, m)
    BY <1>2
  <2>. DEFINE k == m + 1
              h == [j \in 0 .. k |-> IF j = k THEN step[k][g[m]] ELSE g[j]]
  <2>2. k \in 1 .. n /\ g[m] \in X /\ k - 1 = m /\ step[k][g[m]] \in X
    OBVIOUS
  <2>3. h \in [0 .. k -> X]
    BY <2>2
  <2>4. h[0] = x /\ h[k] = step[k][h[k - 1]]
    BY <2>1, <2>2
  <2>5. \A i \in 1 .. m : h[i] = g[i] /\ h[i - 1] = g[i - 1]
    BY <2>2
  <2>6. \A i \in 1 .. k : i = k \/ i \in 1 .. m
    BY <2>2
  <2>7. Upto(h, k)
    BY <2>1, <2>4, <2>5, <2>6
  <2>8. k \in 0 .. n
    BY <2>2
  <2>. HIDE DEF Upto, h
  <2>9. \E f \in [0 .. k -> X] : Upto(f, k)
    BY <2>3, <2>7
  <2>. QED  BY <2>8, <2>9
<1>. HIDE DEF S
<1>3. n \in S
  <2>1. 0 .. n \subseteq S
    BY <1>1, <1>2, UpTo
  <2>. QED  BY <2>1
<1>. QED  BY <1>3 DEF S, Defined

(* The positions of a chain.                                               *)
LEMMA ChainIs ==
  ASSUME NEW tab, Vector(tab.node), DOMAIN tab.node = Positions(tab), sizenode(tab) \in Nat,
         NEW i \in Positions(tab) \cup {NoNode}
  PROVE  /\ Chain(tab, i) \in [0 .. sizenode(tab) -> Positions(tab) \cup {NoNode}]
         /\ Chain(tab, i)[0] = i
         /\ \A n \in 1 .. sizenode(tab) :
              Chain(tab, i)[n] = IF Chain(tab, i)[n - 1] = NoNode THEN NoNode
                                 ELSE tab.node[Chain(tab, i)[n - 1]].next
<1>. DEFINE N == sizenode(tab)
            X == Positions(tab) \cup {NoNode}
            succ == [p \in X |-> IF p = NoNode THEN NoNode ELSE tab.node[p].next]
            Is(at) == at = [n \in 0 .. N |-> IF n = 0 THEN i ELSE succ[at[n - 1]]]
            step == [n \in 1 .. N |-> succ]
<1>1. succ \in [X -> X]
  BY DEF Vector
<1>2. step \in [1 .. N -> [X -> X]]
  BY <1>1
<1>3. Chain(tab, i) = CHOOSE at : Is(at)
  BY DEF Chain
<1>. HIDE DEF X, succ
<1>4. PICK g \in [0 .. N -> X] : g[0] = i /\ \A n \in 1 .. N : g[n] = step[n][g[n - 1]]
  <2>1. N \in Nat /\ i \in X
    BY DEF X
  <2>. HIDE DEF step, N
  <2>2. Defined(X, i, N, step)
    BY <1>2, <2>1, Recursion
  <2>. QED  BY <2>2 DEF Defined
<1>5. Is(g)
  <2>1. \A n \in 0 .. N : g[n] = IF n = 0 THEN i ELSE succ[g[n - 1]]
    BY <1>4
  <2>. QED  BY <1>4, <2>1
<1>6. Is(Chain(tab, i))
  <2>. HIDE DEF Is
  <2>. QED  BY <1>3, <1>5
<1>. DEFINE c == Chain(tab, i)
<1>7. DOMAIN c = 0 .. N /\ c[0] = i /\ \A n \in 1 .. N : c[n] = succ[c[n - 1]]
  <2>. HIDE DEF c
  <2>1. c = [n \in 0 .. N |-> IF n = 0 THEN i ELSE succ[c[n - 1]]]
    BY <1>6 DEF c
  <2>. HIDE DEF N
  <2>2. N \in Nat
    BY DEF N
  <2>. QED  BY <2>1, <2>2
<1>8. \A n \in 0 .. N : c[n] \in X
  <2>. DEFINE S == {n \in 0 .. N : c[n] \in X}
  <2>1. 0 \in S
    BY <1>7 DEF X
  <2>2. ASSUME NEW n \in 0 .. N - 1, n \in S PROVE n + 1 \in S
    <3>1. n + 1 \in 1 .. N /\ n + 1 - 1 = n
      OBVIOUS
    <3>. QED  BY <1>1, <1>7, <2>2, <3>1
  <2>. HIDE DEF S
  <2>3. 0 .. N \subseteq S
    BY <2>1, <2>2, UpTo
  <2>. QED  BY <2>3 DEF S
<1>9. c \in [0 .. N -> X]
  <2>1. c = [n \in 0 .. N |-> c[n]]
    BY <1>6
  <2>. QED  BY <1>8, <2>1
<1>10. \A n \in 1 .. N : c[n] = IF c[n - 1] = NoNode THEN NoNode ELSE tab.node[c[n - 1]].next
  <2>1. \A n \in 1 .. N : c[n - 1] \in X
    BY <1>8
  <2>. QED  BY <1>7, <2>1 DEF succ
<1>. QED  BY <1>7, <1>9, <1>10 DEF X

(* Sizes and positions fit, and the links stay in the table.               *)
Linked(tab) == /\ DOMAIN tab.node = Positions(tab) /\ sizenode(tab) \in Nat \ {0}
               /\ Vector(tab.node) /\ Acyclic(tab.node)

(* What is later in a chain can be reached from what is before.            *)
LEMMA AlongChain ==
  ASSUME NEW tab, Linked(tab), NEW i \in Positions(tab),
         NEW x \in 0 .. sizenode(tab), NEW y \in 0 .. sizenode(tab), x <= y,
         Chain(tab, i)[y] # NoNode
  PROVE  /\ Chain(tab, i)[x] \in Positions(tab) /\ Chain(tab, i)[y] \in Positions(tab)
         /\ Reach(tab.node, Chain(tab, i)[x], Chain(tab, i)[y])
<1>. DEFINE N == sizenode(tab)
            c == Chain(tab, i)
            S == {d \in 0 .. y : c[y - d] \in Positions(tab) /\ Reach(tab.node, c[y - d], c[y])}
<1>1. /\ N \in Nat /\ c \in [0 .. N -> Positions(tab) \cup {NoNode}]
      /\ \A n \in 1 .. N : c[n] = IF c[n - 1] = NoNode THEN NoNode ELSE tab.node[c[n - 1]].next
  BY ChainIs DEF Linked
<1>. HIDE DEF N, c
<1>2. 0 \in S
  BY <1>1, ReachNext DEF c, N
<1>3. ASSUME NEW d \in 0 .. y - 1, d \in S PROVE d + 1 \in S
  <2>. DEFINE n == y - d
              m == y - (d + 1)
  <2>1. n \in 1 .. N /\ m = n - 1 /\ m \in 0 .. N /\ d + 1 \in 0 .. y
    BY <1>1 DEF N
  <2>2. c[n] \in Positions(tab) /\ Reach(tab.node, c[n], c[y])
    BY <1>3
  <2>. HIDE DEF n, m
  <2>3. c[m] \in Positions(tab) \cup {NoNode} /\ NoNode \notin Positions(tab)
    BY <1>1, <2>1 DEF Linked, Vector
  <2>4. c[m] \in Positions(tab) /\ c[n] = tab.node[c[m]].next
    BY <1>1, <2>1, <2>2, <2>3
  <2>5. Reach(tab.node, c[m], c[n])
    BY <2>2, <2>3, <2>4, ReachNext
  <2>6. Reach(tab.node, c[m], c[y])
    BY <2>2, <2>5, ReachTrans
  <2>. QED  BY <2>1, <2>4, <2>6 DEF m
<1>. HIDE DEF S
<1>4. 0 .. y \subseteq S
  <2>1. y \in Nat
    BY <1>1 DEF N
  <2>. QED  BY <1>2, <1>3, <2>1, UpTo
<1>5. y - x \in S /\ 0 \in S /\ y - (y - x) = x /\ y - 0 = y
  BY <1>4
<1>. QED  BY <1>5 DEF S, c

(* Chains end.                                                             *)
LEMMA ChainStops ==
  ASSUME NEW tab, Linked(tab), NEW i \in Positions(tab)
  PROVE  Chain(tab, i)[sizenode(tab)] = NoNode
<1>. DEFINE N == sizenode(tab)
            c == Chain(tab, i)
<1>1. /\ N \in Nat \ {0} /\ c \in [0 .. N -> Positions(tab) \cup {NoNode}]
      /\ \A n \in 1 .. N : c[n] = IF c[n - 1] = NoNode THEN NoNode ELSE tab.node[c[n - 1]].next
      /\ Positions(tab) = 0 .. N - 1
  BY ChainIs DEF Linked, Positions
<1>. SUFFICES ASSUME c[N] # NoNode PROVE FALSE
  OBVIOUS
<1>2. \A x, y \in 0 .. N : x <= y /\ c[y] # NoNode =>
         c[x] \in Positions(tab) /\ Reach(tab.node, c[x], c[y])
  BY AlongChain
<1>. HIDE DEF N, c
<1>3. \A n \in 0 .. N : c[n] \in Positions(tab)
  <2>1. c[N] # NoNode
    BY DEF c, N
  <2>. HIDE DEF Positions
  <2>2. N \in 0 .. N /\ \A n \in 0 .. N : n <= N
    BY <1>1
  <2>. QED  BY <1>2, <2>1, <2>2
<1>4. PICK x \in 0 .. N, y \in 0 .. N : x < y /\ c[x] = c[y]
  <2>1. c \in [0 .. N -> 0 .. N - 1]
    BY <1>1, <1>3
  <2>2. /\ IsFiniteSet(0 .. N) /\ Cardinality(0 .. N) = N + 1
        /\ IsFiniteSet(0 .. N - 1) /\ Cardinality(0 .. N - 1) = N
    BY <1>1, FS_Interval
  <2>3. Cardinality(0 .. N - 1) < Cardinality(0 .. N)
    BY <1>1, <2>2
  <2>4. PICK x \in 0 .. N, y \in 0 .. N : x # y /\ c[x] = c[y]
    BY <2>1, <2>2, <2>3, FS_PigeonHole
  <2>. QED  BY <1>1, <2>4
<1>. DEFINE n == x + 1
<1>5. n \in 1 .. N /\ n <= y /\ n - 1 = x
  BY <1>1, <1>4
<1>. HIDE DEF n
<1>6. c[n] = tab.node[c[x]].next /\ c[n] \in Positions(tab) /\ c[x] \in Positions(tab)
      /\ n \in 0 .. N /\ NoNode \notin Positions(tab)
  <2>1. n \in 0 .. N /\ NoNode \notin Positions(tab)
    BY <1>1, <1>5 DEF Linked, Vector
  <2>2. c[n] \in Positions(tab) /\ c[x] \in Positions(tab)
    BY <1>3, <2>1
  <2>. QED  BY <1>1, <1>5, <2>1, <2>2
<1>7. Reach(tab.node, c[x], c[n]) /\ Reach(tab.node, c[n], c[x])
  BY <1>2, <1>3, <1>4, <1>5, <1>6
<1>8. c[n] = c[x]
  BY <1>6, <1>7, ReachOneWay DEF Linked
<1>9. {c[x]} \in SUBSET DOMAIN tab.node /\ c[x] \in {c[x]}
  BY <1>6 DEF Linked
<1>. QED  BY <1>6, <1>8, <1>9 DEF Linked, Acyclic

(* A chain has all that can be reached from its first position.            *)
LEMMA ChainHas ==
  ASSUME NEW tab, Linked(tab), NEW i \in Positions(tab), NEW q, Reach(tab.node, i, q)
  PROVE  \E x \in 0 .. sizenode(tab) : Chain(tab, i)[x] = q
<1>. DEFINE N == sizenode(tab)
            c == Chain(tab, i)
            S == {p \in Positions(tab) : \E x \in 0 .. N : c[x] = p}
<1>1. /\ N \in Nat \ {0} /\ c \in [0 .. N -> Positions(tab) \cup {NoNode}] /\ c[0] = i
      /\ \A n \in 1 .. N : c[n] = IF c[n - 1] = NoNode THEN NoNode ELSE tab.node[c[n - 1]].next
  BY ChainIs DEF Linked
<1>2. c[N] = NoNode
  BY ChainStops
<1>. HIDE DEF N, c
<1>3. ASSUME NEW p \in S PROVE tab.node[p].next \in S \cup {NoNode}
  <2>1. PICK x \in 0 .. N : c[x] = p
    OBVIOUS
  <2>2. p # NoNode /\ p \in Positions(tab) /\ tab.node[p].next \in Positions(tab) \cup {NoNode}
    BY DEF Linked, Vector
  <2>. DEFINE n == x + 1
  <2>3. n \in 1 .. N /\ n - 1 = x /\ n \in 0 .. N
    BY <1>1, <1>2, <2>1, <2>2
  <2>. HIDE DEF n
  <2>4. c[n] = tab.node[p].next
    BY <1>1, <2>1, <2>2, <2>3
  <2>. QED  BY <2>2, <2>3, <2>4
<1>4. i \in S /\ S \in SUBSET DOMAIN tab.node
  BY <1>1 DEF Linked
<1>5. q \in S
  BY <1>3, <1>4 DEF Reach, Closed
<1>. QED  BY <1>5 DEF N, c

(* The search of a chain: it finds the first position that is in P.        *)
IsFirst(tab, m, P, q) ==
  \/ q = NoNode /\ \A p \in P : ~Reach(tab.node, m, p)
  \/ q \in P /\ Reach(tab.node, m, q) /\ \A p \in P : Reach(tab.node, m, p) => Reach(tab.node, q, p)

(* FirstInChain gives the first node of P on the chain of k, if there is one. *)
LEMMA FirstIs ==
  ASSUME NEW tab, Linked(tab), NEW k, mainposition(tab, k) \in Positions(tab),
         NEW P \in SUBSET Positions(tab)
  PROVE  IsFirst(tab, mainposition(tab, k), P, FirstInChain(tab, k, P))
<1>. DEFINE m == mainposition(tab, k)
            N == sizenode(tab)
            c == Chain(tab, m)
            hits == {n \in 0 .. N : c[n] \in P}
            q == FirstInChain(tab, k, P)
<1>1. /\ N \in Nat \ {0} /\ c \in [0 .. N -> Positions(tab) \cup {NoNode}] /\ c[0] = m
      /\ NoNode \notin P
  BY ChainIs DEF Linked, Vector
<1>2. q = IF hits = {} THEN NoNode ELSE c[Min(hits)]
  BY <1>1 DEF FirstInChain
<1>3. \A p \in P : Reach(tab.node, m, p) => \E n \in hits : c[n] = p
  BY ChainHas
<1>4. \A x, y \in 0 .. N : x <= y /\ c[y] # NoNode => Reach(tab.node, c[x], c[y])
  BY AlongChain
<1>. HIDE DEF q, c, N
<1>5. CASE hits = {}
  BY <1>2, <1>3, <1>5 DEF IsFirst, q
<1>6. CASE hits # {}
  <2>. DEFINE first == Min(hits)
  <2>1. first \in hits /\ \A n \in hits : first <= n
    <3>. DEFINE R == {p \in Nat \X Nat : p[1] < p[2]}
    <3>1. R = OpToRel(<, Nat)
      BY DEF OpToRel
    <3>2. IsWellFoundedOn(R, Nat)
      BY <3>1, NatLessThanWellFounded
    <3>3. hits \subseteq Nat
      BY <1>1
    <3>4. PICK x \in hits : \A y \in hits : <<y, x>> \notin R
      <4>. HIDE DEF R, hits
      <4>. QED  BY <1>6, <3>2, <3>3, WFMin
    <3>5. \A y \in hits : x <= y
      <4>1. x \in Nat /\ \A y \in hits : y \in Nat
        BY <3>3
      <4>. HIDE DEF hits
      <4>2. \A y \in hits : ~(y < x)
        BY <3>4, <4>1
      <4>. QED  BY <4>1, <4>2
    <3>. HIDE DEF hits
    <3>. QED  BY <3>5 DEF Min
  <2>. HIDE DEF first
  <2>2. q = c[first] /\ first \in 0 .. N /\ q \in P /\ q # NoNode
    BY <1>1, <1>2, <1>6, <2>1 DEF first
  <2>3. Reach(tab.node, m, q)
    BY <1>1, <1>4, <2>2
  <2>4. ASSUME NEW p \in P, Reach(tab.node, m, p) PROVE Reach(tab.node, q, p)
    <3>1. PICK n \in hits : c[n] = p
      BY <1>3, <2>4
    <3>2. n \in 0 .. N /\ first <= n /\ p # NoNode
      BY <1>1, <2>1, <3>1
    <3>. QED  BY <1>4, <2>2, <3>1, <3>2
  <2>. QED  BY <2>2, <2>3, <2>4 DEF IsFirst, q
<1>. QED  BY <1>5, <1>6

-----------------------------------------------------------------------------
(* Vectors of nodes.  main[k] is the main position of k.                   *)
Records(D) ==
  [key : Key \cup {Nil}, dead : BOOLEAN, val : Values \cup {Nil}, next : D \cup {NoNode}]

(* A node without a key is empty and in no chain; a dead key is that of an *)
(* object and has no value.                                                *)
NodesTrue(nd) ==
  /\ nd \in [DOMAIN nd -> Records(DOMAIN nd)]
  /\ \A p \in DOMAIN nd : nd[p].key = Nil => Alone(nd, p) /\ nd[p].val = Nil /\ ~nd[p].dead
  /\ \A p \in DOMAIN nd : nd[p].dead => nd[p].val = Nil /\ nd[p].key \in Collectable

OnePrevious(nd) ==
  \A p, q \in DOMAIN nd : nd[p].next = nd[q].next /\ nd[p].next # NoNode => p = q

(* If a key is not in its main position, the key there is in its own.      *)
AtHome(nd, main) ==
  \A p \in DOMAIN nd : nd[p].key # Nil =>
     LET m == main[nd[p].key] IN nd[m].key # Nil /\ main[nd[m].key] = m

Reached(nd, main) ==
  \A p \in DOMAIN nd : nd[p].key # Nil => Reach(nd, main[nd[p].key], p)

OneLive(nd) ==
  \A p, q \in DOMAIN nd :
     nd[p].key = nd[q].key /\ nd[p].key # Nil /\ ~nd[p].dead /\ ~nd[q].dead => p = q

(* A live key comes before the dead ones of the same object.               *)
FirstLive(nd) ==
  \A p, q \in DOMAIN nd :
     nd[q].key = nd[p].key /\ nd[p].key # Nil /\ ~nd[p].dead => Reach(nd, p, q)

Sound(nd, main) ==
  /\ Vector(nd) /\ Acyclic(nd) /\ main \in [Key -> DOMAIN nd]
  /\ NodesTrue(nd) /\ OnePrevious(nd) /\ AtHome(nd, main) /\ Reached(nd, main)
  /\ OneLive(nd) /\ FirstLive(nd)

(* A new vector is sound.                                                  *)
LEMMA NewSound ==
  ASSUME NEW D, NoNode \notin D, NEW main \in [Key -> D]
  PROVE  Sound([p \in D |-> FreeNode], main)
<1>. DEFINE nd == [p \in D |-> FreeNode]
<1>1. DOMAIN nd = D /\ \A p \in D : nd[p] = FreeNode
  OBVIOUS
<1>2. /\ FreeNode.key = Nil /\ FreeNode.dead = FALSE /\ FreeNode.val = Nil /\ FreeNode.next = NoNode
      /\ FreeNode \in Records(D)
  BY DEF FreeNode, Records
<1>3. NodesTrue(nd)
  <2>1. nd \in [D -> Records(D)]
    BY <1>2
  <2>. HIDE DEF nd
  <2>. QED  BY <1>1, <1>2, <2>1 DEF NodesTrue, Alone
<1>. HIDE DEF nd
<1>4. Vector(nd) /\ Acyclic(nd) /\ OnePrevious(nd)
  BY <1>1, <1>2 DEF Vector, Acyclic, OnePrevious
<1>5. AtHome(nd, main) /\ Reached(nd, main) /\ OneLive(nd) /\ FirstLive(nd)
  BY <1>1, <1>2 DEF AtHome, Reached, OneLive, FirstLive
<1>. QED  BY <1>1, <1>3, <1>4, <1>5 DEF Sound, nd

(* Changes that keep the keys and the links of all nodes.                  *)
LEMMA SameKeys ==
  ASSUME NEW nd, NEW main, Sound(nd, main), NEW r, DOMAIN r = DOMAIN nd, NodesTrue(r),
         \A p \in DOMAIN nd : r[p].next = nd[p].next /\ r[p].key = nd[p].key
                              /\ (nd[p].dead => r[p].dead)
  PROVE  Sound(r, main)
<1>1. Vector(r) /\ Acyclic(r) /\ \A p, q : Reach(r, p, q) <=> Reach(nd, p, q)
  BY SameLinks DEF Sound, SameWays
<1>2. OnePrevious(r) /\ OneLive(r)
  BY DEF Sound, OnePrevious, OneLive
<1>3. Reached(r, main)
  BY <1>1 DEF Sound, Reached
<1>4. AtHome(r, main)
  <2>1. ASSUME NEW p \in DOMAIN nd, nd[p].key # Nil
        PROVE  /\ r[main[nd[p].key]].key = nd[main[nd[p].key]].key
               /\ nd[main[nd[p].key]].key # Nil /\ main[nd[main[nd[p].key]].key] = main[nd[p].key]
    <3>1. nd[p].key \in Key
      BY <2>1 DEF Sound, NodesTrue, Records
    <3>. QED  BY <2>1, <3>1 DEF Sound, AtHome
  <2>. QED  BY <2>1 DEF AtHome
<1>5. FirstLive(r)
  BY <1>1 DEF Sound, FirstLive
<1>. QED  BY <1>1, <1>2, <1>3, <1>4, <1>5 DEF Sound

(* Nobody has the key.                                                     *)
NoLive(nd, k) == \A p \in DOMAIN nd : nd[p].key = k => nd[p].dead

Fresh(k, next) == [key |-> k, dead |-> FALSE, val |-> Nil, next |-> next]

(* The new key goes to its main position, which has no value.              *)
LEMMA TakeMain ==
  ASSUME TableAssumption, NEW nd, NEW main, Sound(nd, main),
         NEW k \in Key, NoLive(nd, k), nd[main[k]].val = Nil,
         NEW r, r = [nd EXCEPT ![main[k]] = Fresh(k, nd[main[k]].next)]
  PROVE  Sound(r, main)
<1>. DEFINE m == main[k]
            D == DOMAIN nd
<1>1. m \in D /\ DOMAIN r = D /\ r[m] = Fresh(k, nd[m].next) /\ \A p \in D \ {m} : r[p] = nd[p]
  BY DEF Sound
<1>2. r[m].key = k /\ ~r[m].dead /\ r[m].val = Nil /\ r[m].next = nd[m].next /\ k # Nil
  BY <1>1 DEF Fresh, TableAssumption
<1>3. \A p \in D : r[p].next = nd[p].next
  BY <1>1, <1>2
<1>4. NodesTrue(r)
  <2>1. r[m] \in Records(D) /\ \A p \in D : nd[p] \in Records(D)
    BY <1>1 DEF Fresh, Records, Sound, NodesTrue
  <2>2. r \in [D -> Records(D)]
    BY <1>1, <2>1
  <2>. QED  BY <1>1, <1>2, <1>3, <2>2 DEF Sound, NodesTrue, Alone
<1>5. Vector(r) /\ Acyclic(r) /\ \A p, q : Reach(r, p, q) <=> Reach(nd, p, q)
  <2>1. DOMAIN r = DOMAIN nd /\ \A p \in DOMAIN nd : r[p].next = nd[p].next
    BY <1>1, <1>3
  <2>2. Vector(nd) /\ Acyclic(nd)
    BY DEF Sound
  <2>3. SameWays(nd, r)
    BY <2>1, SameLinks
  <2>. QED  BY <2>2, <2>3 DEF SameWays
<1>6. OnePrevious(r)
  BY <1>1, <1>3 DEF Sound, OnePrevious
<1>7. OneLive(r)
  BY <1>1, <1>2 DEF Sound, OneLive, NoLive
<1>8. Reached(r, main)
  <2>1. Reach(r, m, m)
    BY ReachNext
  <2>2. ASSUME NEW p \in D \ {m}, r[p].key # Nil PROVE Reach(r, main[r[p].key], p)
    BY <1>1, <1>5, <2>2 DEF Sound, Reached
  <2>. QED  BY <1>1, <1>2, <2>1, <2>2 DEF Reached
<1>9. AtHome(r, main)
  <2>1. ASSUME NEW p \in D, r[p].key # Nil
        PROVE  r[main[r[p].key]].key # Nil /\ main[r[main[r[p].key]].key] = main[r[p].key]
    <3>1. CASE p = m \/ main[r[p].key] = m
      BY <1>1, <1>2, <3>1
    <3>2. CASE p # m /\ main[r[p].key] # m
      <4>1. r[p] = nd[p] /\ nd[p].key \in Key
        BY <1>1, <2>1, <3>2 DEF Sound, NodesTrue, Records
      <4>2. main[nd[p].key] \in D \ {m}
        BY <3>2, <4>1 DEF Sound
      <4>. QED  BY <1>1, <2>1, <4>1, <4>2, SMTT(40) DEF Sound, AtHome
    <3>. QED  BY <3>1, <3>2
  <2>. QED  BY <1>1, <2>1 DEF AtHome
<1>10. FirstLive(r)
  <2>1. ASSUME NEW p \in D, NEW q \in D, r[q].key = r[p].key, r[p].key # Nil, ~r[p].dead
        PROVE  Reach(r, p, q)
    <3>1. CASE p = m
      BY <1>2, <1>8, <2>1, <3>1 DEF Reached
    <3>2. CASE p # m
      <4>1. q # m
        BY <1>1, <1>2, <2>1, <3>2 DEF NoLive
      <4>. QED  BY <1>1, <1>5, <2>1, <3>2, <4>1 DEF Sound, FirstLive
    <3>. QED  BY <3>1, <3>2
  <2>. QED  BY <1>1, <2>1 DEF FirstLive
<1>. QED  BY <1>1, <1>4, <1>5, <1>6, <1>7, <1>8, <1>9, <1>10 DEF Sound

(* The new key goes to a position without a key, behind its main position, *)
(* where the key is in its own.                                            *)
LEMMA TakeBehind ==
  ASSUME TableAssumption, NEW nd, NEW main, Sound(nd, main), NEW k \in Key, NoLive(nd, k),
         nd[main[k]].key # Nil, nd[main[k]].val # Nil, main[nd[main[k]].key] = main[k],
         NEW n \in DOMAIN nd, nd[n].key = Nil,
         NEW r, DOMAIN r = DOMAIN nd, r[n] = Fresh(k, nd[main[k]].next),
         r[main[k]] = [nd[main[k]] EXCEPT !.next = n],
         \A p \in DOMAIN nd \ {main[k], n} : r[p] = nd[p],
         r \in [DOMAIN r -> Records(DOMAIN r)]
  PROVE  Sound(r, main)
<1>. DEFINE m == main[k]
            D == DOMAIN nd
<1>1. m \in D /\ m # n /\ Alone(nd, n) /\ k # Nil
  BY DEF Sound, NodesTrue, TableAssumption
<1>2. r[n].key = k /\ ~r[n].dead /\ r[n].val = Nil /\ r[n].next = nd[m].next
  BY DEF Fresh
<1>3. r[m].key = nd[m].key /\ r[m].dead = nd[m].dead /\ r[m].val = nd[m].val /\ r[m].next = n
  BY <1>1 DEF Sound, NodesTrue, Records
<1>4. \A p \in D \ {n} : r[p].key = nd[p].key /\ r[p].dead = nd[p].dead /\ r[p].val = nd[p].val
  BY <1>3
<1>5. \A p \in D \ {m, n} : r[p].next = nd[p].next
  OBVIOUS
<1>. HIDE DEF m
<1>6. PutBehind(nd, r, m, n)
  BY <1>1, <1>2, <1>3, <1>5 DEF PutBehind
<1>7. /\ Vector(r) /\ Acyclic(r)
      /\ \A p, q \in D \ {n} : Reach(r, p, q) <=> Reach(nd, p, q)
      /\ \A p \in D \ {n} : Reach(r, p, n) <=> Reach(nd, p, m)
  BY <1>1, <1>6, BehindLinks DEF Sound
<1>8. NodesTrue(r)
  <2>1. ASSUME NEW p \in D, r[p].key = Nil PROVE Alone(r, p) /\ r[p].val = Nil /\ ~r[p].dead
    <3>1. p # n /\ p # m /\ Alone(nd, p) /\ nd[p].val = Nil /\ ~nd[p].dead
      BY <1>1, <1>2, <1>4, <2>1 DEF Sound, NodesTrue, m
    <3>. QED  BY <1>1, <1>2, <1>3, <1>4, <1>5, <3>1 DEF Alone
  <2>2. ASSUME NEW p \in D, r[p].dead PROVE r[p].val = Nil /\ r[p].key \in Collectable
    BY <1>2, <1>4, <2>2 DEF Sound, NodesTrue
  <2>. QED  BY <2>1, <2>2 DEF NodesTrue
<1>9. OnePrevious(r)
  BY <1>1, <1>2, <1>3, <1>5 DEF Sound, OnePrevious, Alone
<1>10. OneLive(r)
  BY <1>2, <1>4 DEF Sound, OneLive, NoLive
<1>11. \A p \in D \ {n} : r[p].key # Nil => main[r[p].key] \in D \ {n}
  BY <1>4 DEF Sound, NodesTrue, Records, AtHome
<1>12. Reached(r, main)
  <2>1. ASSUME NEW p \in D \ {n}, r[p].key # Nil PROVE Reach(r, main[r[p].key], p)
    <3>1. Reach(nd, main[r[p].key], p)
      BY <1>4, <2>1 DEF Sound, Reached
    <3>. QED  BY <1>7, <1>11, <2>1, <3>1
  <2>2. Reach(r, main[k], n)
    <3>1. Reach(nd, m, m)
      BY ReachNext
    <3>. QED  BY <1>1, <1>7, <3>1 DEF m
  <2>. QED  BY <1>2, <2>1, <2>2 DEF Reached
<1>13. AtHome(r, main)
  <2>1. ASSUME NEW p \in D \ {n}, r[p].key # Nil
        PROVE  r[main[r[p].key]].key # Nil /\ main[r[main[r[p].key]].key] = main[r[p].key]
    <3>1. main[r[p].key] \in D \ {n}
      BY <1>11, <2>1
    <3>2. r[main[r[p].key]].key = nd[main[r[p].key]].key /\ r[p].key = nd[p].key
      BY <1>4, <3>1
    <3>. QED  BY <2>1, <3>2 DEF Sound, AtHome
  <2>2. r[main[k]].key # Nil /\ main[r[main[k]].key] = main[k]
    BY <1>3 DEF m
  <2>. QED  BY <1>2, <2>1, <2>2 DEF AtHome
<1>14. FirstLive(r)
  <2>1. ASSUME NEW p \in D \ {n}, NEW q \in D, r[q].key = r[p].key, r[p].key # Nil, ~r[p].dead
        PROVE  Reach(r, p, q)
    <3>1. q # n
      BY <1>2, <1>4, <2>1 DEF NoLive
    <3>. QED  BY <1>4, <1>7, <2>1, <3>1 DEF Sound, FirstLive
  <2>2. ASSUME NEW q \in D \ {n}, r[q].key = k PROVE Reach(r, n, q)
    <3>. DEFINE x == nd[m].next
    <3>1. Reach(nd, m, q)
      BY <1>1, <1>4, <2>2 DEF Sound, Reached, m
    <3>2. q # m
      BY <1>1, <1>4, <2>2 DEF Sound, NodesTrue, NoLive, m
    <3>3. x \in D /\ Reach(nd, x, q)
      BY <1>1, <3>1, <3>2, ReachStep DEF Sound
    <3>4. x # n /\ x # NoNode
      BY <1>1, <3>3 DEF Alone, Sound, Vector
    <3>5. Reach(r, x, q)
      BY <1>7, <2>2, <3>3, <3>4
    <3>6. Reach(r, n, x)
      BY <1>2, <3>4, ReachNext
    <3>. QED  BY <3>5, <3>6, ReachTrans
  <2>3. Reach(r, n, n)
    BY ReachNext
  <2>. QED  BY <1>2, <2>1, <2>2, <2>3 DEF FirstLive
<1>. QED  BY <1>7, <1>8, <1>9, <1>10, <1>12, <1>13, <1>14 DEF Sound

(* The last step of a way.                                                 *)
LEMMA ReachLast ==
  ASSUME NEW nd, Vector(nd), NEW p \in DOMAIN nd, NEW q, p # q, Reach(nd, p, q)
  PROVE  \E s \in DOMAIN nd : Reach(nd, p, s) /\ nd[s].next = q
<1>. SUFFICES ASSUME \A s \in DOMAIN nd : Reach(nd, p, s) => nd[s].next # q
              PROVE  FALSE
  OBVIOUS
<1>. DEFINE S == {x \in DOMAIN nd : Reach(nd, p, x) /\ x # q}
<1>1. ASSUME NEW x \in S PROVE nd[x].next \in S \cup {NoNode}
  <2>1. nd[x].next # NoNode => Reach(nd, p, nd[x].next) /\ nd[x].next \in DOMAIN nd
    BY ReachNext, ReachTrans DEF Vector
  <2>. QED  BY <2>1
<1>2. p \in S /\ S \in SUBSET DOMAIN nd
  BY ReachNext
<1>3. q \in S
  BY <1>1, <1>2 DEF Reach, Closed
<1>. QED  BY <1>3

(* The node before one that is not in its main position.                   *)
LEMMA Before ==
  ASSUME NEW nd, NEW main, Sound(nd, main), NEW m \in DOMAIN nd, nd[m].key # Nil,
         main[nd[m].key] # m
  PROVE  \E prev \in DOMAIN nd :
            /\ nd[prev].next = m /\ Reach(nd, main[nd[m].key], prev)
            /\ \A p \in DOMAIN nd : nd[p].next = m => p = prev
<1>1. nd[m].key \in Key /\ main[nd[m].key] \in DOMAIN nd /\ m # NoNode
  BY DEF Sound, NodesTrue, Records, Vector
<1>2. PICK s \in DOMAIN nd : Reach(nd, main[nd[m].key], s) /\ nd[s].next = m
  BY <1>1, ReachLast DEF Sound, Reached
<1>. QED  BY <1>1, <1>2 DEF Sound, OnePrevious

(* The new key takes its main position from a key that is not in its own,  *)
(* which moves to a position without a key.                                *)
LEMMA TakeOver ==
  ASSUME TableAssumption, NEW nd, NEW main, Sound(nd, main), NEW k \in Key, NoLive(nd, k),
         nd[main[k]].key # Nil, main[nd[main[k]].key] # main[k],
         NEW n \in DOMAIN nd, nd[n].key = Nil, NEW prev \in DOMAIN nd, nd[prev].next = main[k],
         NEW r, DOMAIN r = DOMAIN nd, r[main[k]] = Fresh(k, NoNode), r[n] = nd[main[k]],
         r[prev] = [nd[prev] EXCEPT !.next = n],
         \A p \in DOMAIN nd \ {main[k], n, prev} : r[p] = nd[p],
         r \in [DOMAIN r -> Records(DOMAIN r)]
  PROVE  Sound(r, main)
<1>. DEFINE m == main[k]
            D == DOMAIN nd
<1>1. m \in D /\ m # n /\ Alone(nd, n) /\ k # Nil /\ m # NoNode
  BY DEF Sound, NodesTrue, TableAssumption, Vector
<1>2. prev # m /\ prev # n /\ nd[m].next # m /\ \A p \in D : nd[p].next = m => p = prev
  <2>1. {m} \in SUBSET DOMAIN nd /\ m \in {m}
    BY <1>1
  <2>2. nd[m].next \notin {m}
    BY <2>1 DEF Sound, Acyclic
  <2>. QED  BY <1>1, <2>2 DEF Sound, OnePrevious, Alone
<1>3. r[m].key = k /\ ~r[m].dead /\ r[m].val = Nil /\ r[m].next = NoNode
  BY DEF Fresh
<1>4. /\ r[n].key = nd[m].key /\ r[n].dead = nd[m].dead /\ r[n].val = nd[m].val
      /\ r[n].next = nd[m].next
  OBVIOUS
<1>5. /\ r[prev].key = nd[prev].key /\ r[prev].dead = nd[prev].dead /\ r[prev].val = nd[prev].val
      /\ r[prev].next = n
  BY DEF Sound, NodesTrue, Records
<1>6. \A p \in D \ {m, n} : r[p].key = nd[p].key /\ r[p].dead = nd[p].dead /\ r[p].val = nd[p].val
  BY <1>5
<1>7. \A p \in D \ {prev, m, n} : r[p].next = nd[p].next
  OBVIOUS
<1>8. nd[m].key # Nil /\ main[nd[m].key] # m /\ nd[m].key \in Key /\ main[nd[m].key] \in D
  BY <1>1 DEF Sound, NodesTrue, Records
<1>. HIDE DEF m
<1>9. PutAway(nd, r, prev, m, n)
  BY <1>1, <1>2, <1>3, <1>4, <1>5, <1>7 DEF PutAway, m
<1>10. /\ Vector(r) /\ Acyclic(r)
       /\ \A p, q \in D \ {m, n} : Reach(r, p, q) <=> Reach(nd, p, q)
       /\ \A p \in D \ {m, n} : Reach(r, p, n) <=> Reach(nd, p, m)
  BY <1>1, <1>9, AwayLinks DEF Sound
(* No key has the main position of the new one.                            *)
<1>11. \A p \in D : nd[p].key # Nil => main[nd[p].key] \in D \ {m, n}
  BY <1>8 DEF Sound, NodesTrue, Records, AtHome
<1>12. NodesTrue(r)
  <2>1. ASSUME NEW p \in D, r[p].key = Nil PROVE Alone(r, p) /\ r[p].val = Nil /\ ~r[p].dead
    <3>1. p # n /\ p # m /\ nd[p].key = Nil
      BY <1>1, <1>3, <1>4, <1>6, <1>8, <2>1
    <3>2. Alone(nd, p) /\ nd[p].val = Nil /\ ~nd[p].dead /\ p # prev /\ p # NoNode
      BY <1>1, <3>1 DEF Sound, NodesTrue, Alone, m, Vector
    <3>3. \A q \in D : r[q].next \in {nd[q].next, nd[m].next, n, NoNode}
      BY <1>3, <1>4, <1>5, <1>7
    <3>4. r[p].next = NoNode /\ \A q \in D : r[q].next # p
      BY <1>1, <1>7, <3>1, <3>2, <3>3 DEF Alone
    <3>5. r[p].val = Nil /\ ~r[p].dead
      BY <1>6, <3>1, <3>2
    <3>. QED  BY <3>4, <3>5 DEF Alone
  <2>2. ASSUME NEW p \in D, r[p].dead PROVE r[p].val = Nil /\ r[p].key \in Collectable
    BY <1>1, <1>3, <1>4, <1>6, <2>2 DEF Sound, NodesTrue
  <2>. QED  BY <2>1, <2>2 DEF NodesTrue
<1>13. OnePrevious(r)
  <2>1. ASSUME NEW p \in D, NEW q \in D, r[p].next = r[q].next, r[p].next # NoNode PROVE p = q
    <3>. DEFINE back(x) == IF x = n THEN m ELSE x
    <3>1. \A x \in D : r[x].next # NoNode => x # m
      BY <1>3
    <3>2. \A x \in D \ {m} : r[x].next = IF x = prev THEN n ELSE nd[back(x)].next
      BY <1>1, <1>2, <1>4, <1>5, <1>7
    <3>3. \A x \in D : nd[x].next # n
      BY <1>1 DEF Alone
    <3>4. nd[back(p)].next = nd[back(q)].next /\ nd[back(p)].next # NoNode
      BY <1>1, <1>2, <2>1, <3>1, <3>2, <3>3 DEF m
    <3>5. back(p) = back(q)
      BY <1>1, <3>4 DEF Sound, OnePrevious
    <3>. QED  BY <2>1, <3>1, <3>5
  <2>. QED  BY <2>1 DEF OnePrevious
<1>14. OneLive(r)
  <2>1. ASSUME NEW p \in D, NEW q \in D, r[p].key = r[q].key, r[p].key # Nil, ~r[p].dead, ~r[q].dead
        PROVE  p = q
    <3>. DEFINE back(x) == IF x = n THEN m ELSE x
    <3>1. \A x \in D \ {m} : r[x].key = nd[back(x)].key /\ r[x].dead = nd[back(x)].dead
                             /\ back(x) \in D
      BY <1>1, <1>4, <1>6
    <3>2. CASE p = m \/ q = m
      BY <1>3, <2>1, <3>1, <3>2 DEF NoLive
    <3>3. CASE p # m /\ q # m
      <4>1. back(p) = back(q)
        BY <2>1, <3>1, <3>3 DEF Sound, OneLive
      <4>. QED  BY <3>3, <4>1
    <3>. QED  BY <3>2, <3>3
  <2>. QED  BY <2>1 DEF OneLive
<1>15. Reached(r, main)
  <2>1. ASSUME NEW p \in D \ {m, n}, r[p].key # Nil PROVE Reach(r, main[r[p].key], p)
    <3>1. Reach(nd, main[nd[p].key], p) /\ r[p].key = nd[p].key
      BY <1>6, <2>1 DEF Sound, Reached
    <3>. QED  BY <1>10, <1>11, <2>1, <3>1
  <2>2. Reach(r, main[r[n].key], n)
    <3>1. Reach(nd, main[nd[m].key], m)
      BY <1>1, <1>8 DEF Sound, Reached
    <3>. QED  BY <1>1, <1>4, <1>8, <1>10, <1>11, <3>1
  <2>3. Reach(r, main[r[m].key], m)
    BY <1>3, ReachNext DEF m
  <2>. QED  BY <2>1, <2>2, <2>3 DEF Reached
<1>16. AtHome(r, main)
  <2>1. ASSUME NEW x \in D, nd[x].key # Nil
        PROVE  LET y == main[nd[x].key] IN r[y].key # Nil /\ main[r[y].key] = y
    <3>1. main[nd[x].key] \in D \ {m, n}
      BY <1>11, <2>1
    <3>2. r[main[nd[x].key]].key = nd[main[nd[x].key]].key
      BY <1>6, <3>1
    <3>. QED  BY <2>1, <3>2 DEF Sound, AtHome
  <2>2. ASSUME NEW p \in D, r[p].key # Nil
        PROVE  LET y == main[r[p].key] IN r[y].key # Nil /\ main[r[y].key] = y
    <3>1. CASE p = m
      BY <1>1, <1>3, <3>1 DEF m
    <3>2. CASE p = n
      BY <1>1, <1>4, <1>8, <2>1, <3>2
    <3>3. CASE p \notin {m, n}
      BY <1>6, <2>1, <2>2, <3>3
    <3>. QED  BY <3>1, <3>2, <3>3
  <2>. QED  BY <2>2 DEF AtHome
<1>17. FirstLive(r)
  <2>. DEFINE back(x) == IF x = n THEN m ELSE x
  <2>1. \A x \in D \ {m} : /\ r[x].key = nd[back(x)].key /\ r[x].dead = nd[back(x)].dead
                          /\ back(x) \in D
    BY <1>1, <1>4, <1>6
  <2>2. \A x \in D \ {m} : r[x].key # k
    BY <1>1, <1>11, <2>1 DEF m
  <2>3. ASSUME NEW p \in D \ {m}, NEW q \in D \ {m}, Reach(nd, back(p), back(q))
        PROVE  Reach(r, p, q)
    <3>1. CASE p = n /\ q = n
      BY <3>1, ReachNext
    <3>2. CASE p = n /\ q # n
      <4>. DEFINE x == nd[m].next
      <4>1. x \in D /\ Reach(nd, x, q)
        BY <1>1, <2>3, <3>2, ReachStep DEF Sound
      <4>2. x # n /\ x # NoNode /\ x # m
        BY <1>1, <1>2, <4>1 DEF Alone, Sound, Vector
      <4>3. Reach(r, x, q)
        BY <1>10, <2>3, <3>2, <4>1, <4>2
      <4>4. Reach(r, n, x)
        BY <1>4, <4>2, ReachNext
      <4>. QED  BY <3>2, <4>3, <4>4, ReachTrans
    <3>3. CASE p # n
      BY <1>10, <2>3, <3>3
    <3>. QED  BY <3>1, <3>2, <3>3
  <2>4. ASSUME NEW p \in D, NEW q \in D, r[q].key = r[p].key, r[p].key # Nil, ~r[p].dead
        PROVE  Reach(r, p, q)
    <3>1. CASE p = m
      BY <1>3, <2>2, <2>4, <3>1, ReachNext
    <3>2. CASE p # m
      <4>1. q # m
        BY <1>3, <2>2, <2>4, <3>2
      <4>2. Reach(nd, back(p), back(q))
        BY <2>1, <2>4, <3>2, <4>1 DEF Sound, FirstLive
      <4>. QED  BY <2>3, <3>2, <4>1, <4>2
    <3>. QED  BY <3>1, <3>2
  <2>. QED  BY <2>4 DEF FirstLive
<1>. QED  BY <1>10, <1>12, <1>13, <1>14, <1>15, <1>16, <1>17 DEF Sound

-----------------------------------------------------------------------------
(* Sizes.                                                                  *)

(* 2 ^ n counts the subsets of a set of n elements.                        *)
LEMMA Powers ==
  /\ 2^0 = 1
  /\ \A n \in Nat : 2^n \in Nat /\ n < 2^n
  /\ \A n \in Nat : \A m \in 0 .. n : 2^m <= 2^n
<1>1. ASSUME NEW n \in Nat
      PROVE  IsFiniteSet(SUBSET (1 .. n)) /\ Cardinality(SUBSET (1 .. n)) = 2^n /\ 2^n \in Nat
  <2>1. IsFiniteSet(1 .. n) /\ Cardinality(1 .. n) = n
    BY FS_Interval
  <2>. QED  BY <2>1, FS_SUBSET, FS_CardinalityType
<1>2. ASSUME NEW n \in Nat PROVE n < 2^n
  <2>. DEFINE f == [i \in 0 .. n |-> IF i = 0 THEN {} ELSE {i}]
  <2>1. f \in [0 .. n -> SUBSET (1 .. n)] /\ \A i, j \in 0 .. n : f[i] = f[j] => i = j
    OBVIOUS
  <2>2. f \in Injection(0 .. n, SUBSET (1 .. n))
    <3>. HIDE DEF f
    <3>. QED  BY <2>1 DEF Injection, IsInjective
  <2>. HIDE DEF f
  <2>3. Cardinality(0 .. n) <= Cardinality(SUBSET (1 .. n))
    BY <1>1, <2>2, FS_Injection
  <2>4. Cardinality(0 .. n) = n + 1
    BY FS_Interval
  <2>. DEFINE p == 2^n
  <2>5. Cardinality(SUBSET (1 .. n)) = p /\ p \in Nat
    BY <1>1
  <2>. HIDE DEF p
  <2>6. n < p
    BY <2>3, <2>4, <2>5
  <2>. QED  BY <2>6 DEF p
<1>3. ASSUME NEW n \in Nat, NEW m \in 0 .. n PROVE 2^m <= 2^n
  <2>1. SUBSET (1 .. m) \in SUBSET (SUBSET (1 .. n)) /\ m \in Nat
    OBVIOUS
  <2>2. Cardinality(SUBSET (1 .. m)) <= Cardinality(SUBSET (1 .. n))
    BY <1>1, <2>1, FS_Subset
  <2>3. Cardinality(SUBSET (1 .. m)) = 2^m /\ Cardinality(SUBSET (1 .. n)) = 2^n
    BY <1>1, <2>1
  <2>. QED  BY <2>2, <2>3, Zenon
<1>4. 2^0 = 1
  <2>1. SUBSET (1 .. 0) = {{}}
    OBVIOUS
  <2>. QED  BY <1>1, <2>1, FS_Singleton
<1>. QED  BY <1>1, <1>2, <1>3, <1>4

(* Every set of naturals has a smallest element, and a largest when it has *)
(* a bound.                                                                *)
LEMMA Smallest ==
  ASSUME NEW S \in SUBSET Nat, S # {}
  PROVE  Min(S) \in S /\ \A n \in S : Min(S) <= n
<1>. DEFINE R == {p \in Nat \X Nat : p[1] < p[2]}
<1>1. IsWellFoundedOn(R, Nat)
  <2>1. R = OpToRel(<, Nat)
    BY DEF OpToRel
  <2>. QED  BY <2>1, NatLessThanWellFounded
<1>2. PICK x \in S : \A y \in S : <<y, x>> \notin R
  <2>. HIDE DEF R
  <2>. QED  BY <1>1, WFMin
<1>3. \A y \in S : x <= y
  <2>1. x \in Nat /\ \A y \in S : y \in Nat
    OBVIOUS
  <2>2. \A y \in S : ~(y < x)
    BY <1>2, <2>1
  <2>. QED  BY <2>1, <2>2
<1>. QED  BY <1>3 DEF Min

(* A set of numbers with a bound has a largest number. *)
LEMMA Largest ==
  ASSUME NEW S \in SUBSET Nat, S # {}, NEW b \in Nat, \A n \in S : n <= b
  PROVE  Max(S) \in S /\ \A n \in S : n <= Max(S)
<1>. DEFINE T == {b - n : n \in S}
<1>1. T \in SUBSET Nat /\ T # {}
  <2>1. \A n \in S : b - n \in Nat
    OBVIOUS
  <2>. QED  BY <2>1
<1>2. Min(T) \in T /\ \A n \in T : Min(T) <= n
  <2>. HIDE DEF T
  <2>. QED  BY <1>1, Smallest
<1>3. PICK x \in S : Min(T) = b - x
  BY <1>2
<1>4. \A y \in S : y <= x
  <2>1. \A y \in S : b - x <= b - y
    BY <1>2, <1>3
  <2>. QED  BY <2>1
<1>5. \A y \in S : x >= y
  BY <1>4
<1>. QED  BY <1>5 DEF Max

(* ceillog2                                                                *)
LEMMA CeilLog ==
  ASSUME NEW n \in Nat
  PROVE  ceillog2(n) \in Nat /\ 2^ceillog2(n) >= n
<1>. DEFINE S == {l \in 0 .. n : 2^l >= n}
<1>1. S \in SUBSET Nat /\ S # {}
  BY Powers
<1>2. Min(S) \in S /\ \A l \in S : Min(S) <= l
  <2>. HIDE DEF S
  <2>. QED  BY <1>1, Smallest
<1>3. \A m \in 0 .. Min(S) - 1 : 2^m < n
  <2>1. \A m \in 0 .. Min(S) - 1 : m \in 0 .. n /\ m \notin S /\ 2^m \in Nat
    BY <1>2, Powers
  <2>. QED  BY <2>1
<1>4. \E l \in 0 .. n : 2^l >= n /\ \A m \in 0 .. l - 1 : 2^m < n
  BY <1>2, <1>3
<1>. DEFINE P(l) == 2^l >= n /\ \A m \in 0 .. l - 1 : 2^m < n
            c == CHOOSE l \in 0 .. n : P(l)
<1>5. c \in 0 .. n /\ P(c)
  <2>1. \E l \in 0 .. n : P(l)
    BY <1>4
  <2>. HIDE DEF P
  <2>. QED  BY <2>1
<1>6. c = ceillog2(n)
  BY DEF ceillog2
<1>. HIDE DEF c
<1>. QED  BY <1>5, <1>6

(* Main positions, for the hash function h.                                *)
Main(h, tab) ==
  [k \in Key |-> IF k \in Masked THEN h[k] % sizenode(tab)
                 ELSE h[k] % (IF tab.lsizenode = 0 THEN 1 ELSE sizenode(tab) - 1)]

(* mainposition of the model is the main position under the hash of now. *)
LEMMA MainIs ==
  ASSUME NEW tab, NEW k \in Key
  PROVE  mainposition(tab, k) = Main(hash, tab)[k]
BY DEF mainposition, Main

(* A main position is a position of the node vector (ltable.cpp:76). *)
LEMMA MainType ==
  ASSUME TableAssumption, NEW h \in Hashes, NEW tab, tab.lsizenode \in Nat
  PROVE  /\ sizenode(tab) \in Nat \ {0} /\ Main(h, tab) \in [Key -> Positions(tab)]
         /\ NoNode \notin Positions(tab)
<1>1. sizenode(tab) \in Nat \ {0} /\ (tab.lsizenode # 0 => sizenode(tab) >= 2)
  BY Powers DEF sizenode
<1>2. NoNode \notin Positions(tab)
  BY <1>1 DEF Positions, NoNode
<1>3. ASSUME NEW k \in Key PROVE Main(h, tab)[k] \in Positions(tab)
  <2>1. h[k] \in Nat
    BY DEF TableAssumption
  <2>2. \A x \in Nat, y \in Nat \ {0} : x % y \in 0 .. y - 1
    OBVIOUS
  <2>3. CASE tab.lsizenode = 0
    BY <1>1, <2>1, <2>2, <2>3, Powers DEF Main, Positions, sizenode
  <2>4. CASE tab.lsizenode # 0
    <3>1. /\ h[k] % sizenode(tab) \in 0 .. sizenode(tab) - 1
          /\ h[k] % (sizenode(tab) - 1) \in 0 .. sizenode(tab) - 1 - 1
      <4>1. sizenode(tab) - 1 \in Nat \ {0}
        BY <1>1, <2>4
      <4>. QED  BY <1>1, <2>1, <2>2, <4>1
    <3>. QED  BY <1>1, <2>4, <3>1 DEF Main, Positions
  <2>. QED  BY <2>3, <2>4
<1>. QED  BY <1>1, <1>2, <1>3 DEF Main

-----------------------------------------------------------------------------
(* Tables.                                                                 *)
Slots == Values \cup {Nil}
Vectors == UNION {[0 .. n - 1 -> Records(0 .. n - 1)] : n \in Nat}
Tables == [array : Seq(Slots), node : Vectors, lsizenode : Nat, lastfree : Nat,
           dummy : BOOLEAN, overflow : BOOLEAN]

(* Table.lastfree: any free position is before this position.              *)
FreeBefore(tab) ==
  /\ tab.dummy => tab.lastfree = 0
  /\ \A p \in DOMAIN tab.node : tab.node[p].key = Nil => tab.dummy \/ p < tab.lastfree

(* A value in the array part is that of a key.                             *)
ArrayKeys(tab) == \A i \in DOMAIN tab.array : tab.array[i] # Nil => \E k \in Key : Index[k] = i

Good(h, tab) ==
  /\ tab \in Tables
  /\ DOMAIN tab.node = Positions(tab) /\ tab.lastfree \in 0 .. sizenode(tab)
  /\ Sound(tab.node, Main(h, tab)) /\ FreeBefore(tab) /\ ArrayKeys(tab)

(* A table with other nodes.                                               *)
With(tab, nd, last) ==
  [array |-> tab.array, node |-> nd, lsizenode |-> tab.lsizenode, lastfree |-> last,
   dummy |-> tab.dummy, overflow |-> tab.overflow]

(* The nodes of a table are sound, so the table is good.                   *)
LEMMA WithGood ==
  ASSUME TableAssumption, NEW h \in Hashes, NEW tab, Good(h, tab), NEW nd, Sound(nd, Main(h, tab)),
         DOMAIN nd = Positions(tab), NEW last \in 0 .. sizenode(tab),
         \A p \in Positions(tab) : nd[p].key = Nil => tab.dummy \/ p < last, tab.dummy => last = 0
  PROVE  Good(h, With(tab, nd, last))
<1>. DEFINE w == With(tab, nd, last)
<1>1. /\ w.array = tab.array /\ w.node = nd /\ w.lsizenode = tab.lsizenode
      /\ w.lastfree = last /\ w.dummy = tab.dummy /\ w.overflow = tab.overflow
  BY DEF With
<1>2. tab.lsizenode \in Nat /\ sizenode(tab) \in Nat
  BY MainType DEF Good, Tables
<1>3. nd \in Vectors
  <2>1. nd \in [Positions(tab) -> Records(Positions(tab))]
    BY DEF Sound, NodesTrue
  <2>. QED  BY <1>2, <2>1 DEF Positions, Vectors
<1>4. w \in Tables
  <2>1. tab.array \in Seq(Slots) /\ tab.dummy \in BOOLEAN /\ tab.overflow \in BOOLEAN /\ last \in Nat
    BY <1>2 DEF Good, Tables
  <2>. QED  BY <1>2, <1>3, <2>1 DEF Tables, With
<1>5. sizenode(w) = sizenode(tab) /\ Positions(w) = Positions(tab) /\ Main(h, w) = Main(h, tab)
  BY <1>1 DEF sizenode, Positions, Main
<1>6. FreeBefore(w) /\ ArrayKeys(w)
  BY <1>1 DEF FreeBefore, ArrayKeys, Good
<1>. HIDE DEF w
<1>7. Good(h, w)
  BY <1>1, <1>4, <1>5, <1>6 DEF Good
<1>. QED  BY <1>7 DEF w

(* What the other lemmas use of a good table.                              *)
LEMMA GoodIs ==
  ASSUME TableAssumption, NEW h \in Hashes, NEW tab, Good(h, tab)
  PROVE  /\ Linked(tab) /\ sizenode(tab) \in Nat \ {0} /\ NoNode \notin Positions(tab)
         /\ Main(h, tab) \in [Key -> Positions(tab)]
         /\ tab.node \in [Positions(tab) -> Records(Positions(tab))]
BY MainType DEF Good, Tables, Sound, NodesTrue, Linked

(* NodeOf finds the live node of a key.                                    *)
IsNodeOf(tab, k, q) ==
  \/ q = NoNode /\ NoLive(tab.node, k)
  \/ q \in Positions(tab) /\ tab.node[q].key = k /\ ~tab.node[q].dead

(* luaH_get finds the one live node of a key, and only that. *)
LEMMA Finds ==
  ASSUME TableAssumption, hash \in Hashes, NEW tab, Good(hash, tab), NEW k \in Key
  PROVE  IsNodeOf(tab, k, NodeOf(tab, k)) /\ k # Nil
<1>. DEFINE P == {i \in Positions(tab) : tab.node[i].key = k /\ ~tab.node[i].dead}
            m == mainposition(tab, k)
<1>1. Linked(tab) /\ DOMAIN tab.node = Positions(tab)
  BY GoodIs DEF Linked
<1>2. m = Main(hash, tab)[k] /\ m \in Positions(tab) /\ k # Nil
  BY GoodIs, MainIs DEF TableAssumption
<1>3. NodeOf(tab, k) = FirstInChain(tab, k, P)
  BY DEF NodeOf
<1>4. P \in SUBSET Positions(tab)
  OBVIOUS
<1>. HIDE DEF P
<1>5. IsFirst(tab, m, P, NodeOf(tab, k))
  BY <1>1, <1>2, <1>3, <1>4, FirstIs
<1>6. \A p \in P : Reach(tab.node, m, p)
  BY <1>1, <1>2 DEF P, Good, Sound, Reached
<1>. QED  BY <1>1, <1>2, <1>5, <1>6 DEF IsFirst, IsNodeOf, P, NoLive

(* getfreepos returns the last position without a key, if there is one.    *)
LEMMA FreePosition ==
  ASSUME TableAssumption, NEW h \in Hashes, NEW tab, Good(h, tab), getfreepos(tab) # NoNode
  PROVE  /\ getfreepos(tab) \in Positions(tab) /\ tab.node[getfreepos(tab)].key = Nil /\ ~tab.dummy
         /\ \A p \in Positions(tab) : tab.node[p].key = Nil => p <= getfreepos(tab)
<1>. DEFINE free == {i \in Positions(tab) : i < tab.lastfree /\ tab.node[i].key = Nil}
<1>1. sizenode(tab) \in Nat /\ DOMAIN tab.node = Positions(tab) /\ FreeBefore(tab)
  BY GoodIs DEF Good
<1>2. free # {} /\ getfreepos(tab) = Max(free)
  BY DEF getfreepos
<1>3. free \in SUBSET Nat /\ \A i \in free : i <= sizenode(tab)
  BY <1>1 DEF Positions
<1>4. Max(free) \in free /\ \A i \in free : i <= Max(free)
  <2>. HIDE DEF free
  <2>. QED  BY <1>1, <1>2, <1>3, Largest
<1>5. ~tab.dummy
  <2>1. \A i \in Positions(tab) : ~(i < 0)
    BY <1>1 DEF Positions
  <2>. QED  BY <1>1, <1>2, <2>1 DEF FreeBefore
<1>. QED  BY <1>1, <1>2, <1>4, <1>5 DEF FreeBefore

(* The three ways to insert a key, as other nodes of the same table.       *)
LEMMA IsRecord ==
  ASSUME NEW tab \in Tables
  PROVE  tab = With(tab, tab.node, tab.lastfree)
BY DEF Tables, With

(* Occupy writes one node, as a step between node vectors. *)
LEMMA OccupyIs ==
  ASSUME NEW tab, NEW nd, NEW last, NEW i, NEW k, NEW next
  PROVE  Occupy(With(tab, nd, last), i, k, next) =
           With(tab, [nd EXCEPT ![i] = Fresh(k, next)], last)
<1>. DEFINE w == With(tab, nd, last)
            f == Fresh(k, next)
<1>1. Occupy(w, i, k, next) = [w EXCEPT !.node[i] = f]
  BY DEF Occupy, Fresh
<1>2. [w EXCEPT !.node[i] = f] = With(tab, [nd EXCEPT ![i] = f], last)
  <2>. HIDE DEF f
  <2>. QED  BY DEF With
<1>. QED  BY <1>1, <1>2

(* getfreepos leaves lastfree and nothing else changed. *)
LEMMA LastIs ==
  ASSUME NEW tab \in Tables, NEW n
  PROVE  [tab EXCEPT !.lastfree = n] = With(tab, tab.node, n)
<1>. DEFINE w == With(tab, tab.node, tab.lastfree)
<1>1. tab = w
  BY IsRecord
<1>2. [w EXCEPT !.lastfree = n] = With(tab, tab.node, n)
  BY DEF With
<1>. HIDE DEF w
<1>. QED  BY <1>1, <1>2

AfterIs(tab, m, n, k) ==
  ChainAfter([tab EXCEPT !.lastfree = n], m, n, k) =
    With(tab, [[tab.node EXCEPT ![m].next = n] EXCEPT ![n] = Fresh(k, tab.node[m].next)], n)

(* ChainAfter, as a step between node vectors. *)
LEMMA ChainAfterIs ==
  ASSUME NEW tab \in Tables, NEW m, NEW n, NEW k
  PROVE  AfterIs(tab, m, n, k)
<1>. DEFINE rest == With(tab, tab.node, n)
            nd1 == [tab.node EXCEPT ![m].next = n]
<1>1. [tab EXCEPT !.lastfree = n] = rest
  BY LastIs
<1>2. [rest EXCEPT !.node[m].next = n] = With(tab, nd1, n)
  BY DEF With
<1>3. rest.node = tab.node
  BY DEF With
<1>4. Occupy(With(tab, nd1, n), n, k, rest.node[m].next) =
        With(tab, [nd1 EXCEPT ![n] = Fresh(k, rest.node[m].next)], n)
  <2>. HIDE DEF nd1, rest
  <2>. QED  BY OccupyIs
<1>5. ChainAfter(rest, m, n, k) = Occupy([rest EXCEPT !.node[m].next = n], n, k, rest.node[m].next)
  BY DEF ChainAfter
<1>. HIDE DEF rest, nd1
<1>. QED  BY <1>1, <1>2, <1>3, <1>4, <1>5 DEF nd1, AfterIs

MovedIs(tab, m, n, k, prev) ==
  MoveColliding([tab EXCEPT !.lastfree = n], m, n, k) =
    With(tab, [[[tab.node EXCEPT ![prev].next = n] EXCEPT ![n] = tab.node[m]]
               EXCEPT ![m] = Fresh(k, NoNode)], n)

(* MoveColliding, as a step between node vectors. *)
LEMMA MoveCollidingIs ==
  ASSUME NEW tab \in Tables, NEW m, NEW n, NEW k, NEW prev,
         prev = FirstInChain(With(tab, tab.node, n), tab.node[m].key,
                             {i \in Positions(tab) : tab.node[i].next = m})
  PROVE  MovedIs(tab, m, n, k, prev)
<1>. DEFINE rest == With(tab, tab.node, n)
            nd1 == [tab.node EXCEPT ![prev].next = n]
            nd2 == [nd1 EXCEPT ![n] = tab.node[m]]
<1>1. [tab EXCEPT !.lastfree = n] = rest
  BY LastIs
<1>2. rest.node = tab.node /\ Positions(rest) = Positions(tab)
  BY DEF With, Positions, sizenode
<1>3. MoveColliding(rest, m, n, k) =
        Occupy([[rest EXCEPT !.node[prev].next = n] EXCEPT !.node[n] = tab.node[m]], m, k, NoNode)
  <2>1. prev = FirstInChain(rest, rest.node[m].key, {i \in Positions(rest) : rest.node[i].next = m})
    BY <1>2
  <2>. HIDE DEF rest
  <2>. QED  BY <1>2, <2>1 DEF MoveColliding
<1>4. [rest EXCEPT !.node[prev].next = n] = With(tab, nd1, n)
  BY DEF With
<1>5. [With(tab, nd1, n) EXCEPT !.node[n] = tab.node[m]] = With(tab, nd2, n)
  <2>. HIDE DEF nd1
  <2>. QED  BY DEF With
<1>6. Occupy(With(tab, nd2, n), m, k, NoNode) = With(tab, [nd2 EXCEPT ![m] = Fresh(k, NoNode)], n)
  <2>. HIDE DEF nd2
  <2>. QED  BY OccupyIs
<1>. HIDE DEF rest, nd1, nd2
<1>. QED  BY <1>1, <1>3, <1>4, <1>5, <1>6 DEF nd1, nd2, MovedIs

(* What the nodes r have of the nodes nd, after k took a position: every   *)
(* value of another key and no new one, and all but one of the positions   *)
(* without a key.                                                          *)
Has(nd, j, v) == \E p \in DOMAIN nd : nd[p].key = j /\ ~nd[p].dead /\ nd[p].val = v

Full(nd) == \A p \in DOMAIN nd : nd[p].key # Nil => nd[p].val # Nil

Taken(nd, r, k) ==
  /\ DOMAIN r = DOMAIN nd /\ Has(r, k, Nil)
  /\ \A j \in Key \ {k}, v \in Values : Has(nd, j, v) => Has(r, j, v)
  /\ \A j \in Key \ {k} : \A v : Has(r, j, v) => Has(nd, j, v)
  /\ \E b \in DOMAIN nd : \A p \in DOMAIN nd : nd[p].key = Nil => p = b \/ r[p].key = Nil
  /\ Full(nd) => \A p \in DOMAIN r : r[p].key # Nil /\ r[p].val = Nil
                                     => r[p].key = k /\ ~r[p].dead

SameBut(nd, r, S) ==
  /\ DOMAIN r = DOMAIN nd
  /\ \A p \in DOMAIN nd \ S :
        r[p].key = nd[p].key /\ r[p].dead = nd[p].dead /\ r[p].val = nd[p].val

(* Nodes that keep what they have, while k takes an empty one.             *)
LEMMA TakenMain ==
  ASSUME TableAssumption, NEW nd, NEW r, NEW k \in Key,
         NEW m \in DOMAIN nd, nd[m].val = Nil, NEW x, r[m] = Fresh(k, x),
         SameBut(nd, r, {m})
  PROVE  Taken(nd, r, k)
<1>. USE DEF SameBut
<1>1. r[m].key = k /\ ~r[m].dead /\ r[m].val = Nil
  BY DEF Fresh
<1>2. Has(r, k, Nil)
  BY <1>1 DEF Has
<1>3. ASSUME NEW j \in Key \ {k}, NEW v \in Values, Has(nd, j, v) PROVE Has(r, j, v)
  BY <1>3 DEF Has, TableAssumption
<1>4. ASSUME NEW j \in Key \ {k}, NEW v, Has(r, j, v) PROVE Has(nd, j, v)
  BY <1>1, <1>4 DEF Has
<1>5. \A p \in DOMAIN nd : nd[p].key = Nil => p = m \/ r[p].key = Nil
  OBVIOUS
<1>6. Full(nd) => \A p \in DOMAIN r : r[p].key # Nil /\ r[p].val = Nil
                                      => r[p].key = k /\ ~r[p].dead
  BY <1>1 DEF Full
<1>. QED  BY <1>2, <1>3, <1>4, <1>5, <1>6 DEF Taken

(* The same, while what is at m moves to a position without a key.         *)
LEMMA TakenOver ==
  ASSUME TableAssumption, NEW nd, NEW r, NEW k \in Key,
         NEW m \in DOMAIN nd, NEW n \in DOMAIN nd, m # n, nd[n].key = Nil,
         r[m] = Fresh(k, NoNode), r[n] = nd[m], SameBut(nd, r, {m, n})
  PROVE  Taken(nd, r, k)
<1>. USE DEF SameBut
<1>1. r[m].key = k /\ ~r[m].dead /\ r[m].val = Nil /\ k # Nil
  BY DEF Fresh, TableAssumption
<1>2. Has(r, k, Nil)
  BY <1>1 DEF Has
<1>3. ASSUME NEW j \in Key \ {k}, NEW v \in Values, Has(nd, j, v) PROVE Has(r, j, v)
  <2>1. PICK p \in DOMAIN nd : nd[p].key = j /\ ~nd[p].dead /\ nd[p].val = v
    BY <1>3 DEF Has
  <2>2. p # n
    BY <2>1 DEF TableAssumption
  <2>3. CASE p = m
    BY <2>1, <2>3 DEF Has
  <2>4. CASE p # m
    BY <2>1, <2>2, <2>4 DEF Has
  <2>. QED  BY <2>3, <2>4
<1>4. ASSUME NEW j \in Key \ {k}, NEW v, Has(r, j, v) PROVE Has(nd, j, v)
  <2>1. PICK p \in DOMAIN nd : r[p].key = j /\ ~r[p].dead /\ r[p].val = v
    BY <1>4 DEF Has
  <2>2. p # m
    BY <1>1, <2>1
  <2>3. CASE p = n
    BY <2>1, <2>3 DEF Has
  <2>4. CASE p # n
    BY <2>1, <2>2, <2>4 DEF Has
  <2>. QED  BY <2>3, <2>4
<1>5. \A p \in DOMAIN nd : nd[p].key = Nil => p = n \/ p = m \/ r[p].key = Nil
  OBVIOUS
<1>6. \E b \in DOMAIN nd : \A p \in DOMAIN nd : nd[p].key = Nil => p = b \/ r[p].key = Nil
  <2>1. CASE nd[m].key = Nil
    <3>1. \A p \in DOMAIN nd : nd[p].key = Nil => p = m \/ r[p].key = Nil
      BY <1>5, <2>1
    <3>. QED  BY <3>1
  <2>2. CASE nd[m].key # Nil
    <3>1. \A p \in DOMAIN nd : nd[p].key = Nil => p = n \/ r[p].key = Nil
      BY <1>5, <2>2
    <3>. QED  BY <3>1
  <2>. QED  BY <2>1, <2>2
<1>7. Full(nd) => \A p \in DOMAIN r : r[p].key # Nil /\ r[p].val = Nil
                                      => r[p].key = k /\ ~r[p].dead
  BY <1>1 DEF Full
<1>. QED  BY <1>2, <1>3, <1>4, <1>6, <1>7 DEF Taken

Inserted(tab, r, k) ==
  /\ ~tab.dummy /\ ~r.dummy /\ r.array = tab.array /\ r.lsizenode = tab.lsizenode
  /\ r.overflow = tab.overflow /\ Taken(tab.node, r.node, k)

(* A table with room for a key takes it.                                   *)
LEMMA InsertGood ==
  ASSUME TableAssumption, hash \in Hashes, NEW tab, Good(hash, tab), NEW k \in Key,
         ~HasSlot(tab, k), HasRoom(tab, k)
  PROVE  Good(hash, Insert(tab, k)) /\ Inserted(tab, Insert(tab, k), k)
<1>. DEFINE main == Main(hash, tab)
            nd == tab.node
            m == mainposition(tab, k)
            n == getfreepos(tab)
            rest == [tab EXCEPT !.lastfree = n]
            D == Positions(tab)
<1>1. /\ Linked(tab) /\ sizenode(tab) \in Nat \ {0} /\ NoNode \notin D /\ main \in [Key -> D]
      /\ nd \in [D -> Records(D)] /\ DOMAIN nd = D /\ Sound(nd, main) /\ tab \in Tables
  BY GoodIs DEF Good
<1>2. m = main[k] /\ m \in D
  BY <1>1, MainIs
<1>3. NoLive(nd, k)
  BY <1>1, Finds DEF HasSlot, IsNodeOf
(* It is enough to show that the new nodes are sound.                      *)
<1>4. ASSUME NEW r, NEW last \in 0 .. sizenode(tab), Insert(tab, k) = With(tab, r, last),
             Sound(r, main), DOMAIN r = D, \A p \in D : r[p].key = Nil => tab.dummy \/ p < last,
             ~tab.dummy, Taken(nd, r, k)
      PROVE  Good(hash, Insert(tab, k)) /\ Inserted(tab, Insert(tab, k), k)
  <2>. DEFINE w == With(tab, r, last)
  <2>1. Good(hash, w)
    BY <1>4, WithGood
  <2>2. /\ w.array = tab.array /\ w.node = r /\ w.lsizenode = tab.lsizenode
        /\ w.dummy = tab.dummy /\ w.overflow = tab.overflow
    BY DEF With
  <2>. QED  BY <1>4, <2>1, <2>2 DEF Inserted
<1>5. CASE MainFree(tab, k)
  <2>. DEFINE r == [nd EXCEPT ![m] = Fresh(k, nd[m].next)]
  <2>1. Insert(tab, k) = With(tab, r, tab.lastfree)
    <3>1. Insert(tab, k) = Occupy(tab, m, k, nd[m].next)
      BY <1>5 DEF Insert
    <3>2. tab = With(tab, nd, tab.lastfree)
      BY <1>1, IsRecord
    <3>. HIDE DEF nd
    <3>. QED  BY <3>1, <3>2, OccupyIs
  <2>2. Sound(r, main)
    BY <1>1, <1>2, <1>3, <1>5, TakeMain DEF MainFree
  <2>3. DOMAIN r = D /\ r[m] = Fresh(k, nd[m].next) /\ \A p \in D \ {m} : r[p] = nd[p]
    BY <1>1, <1>2
  <2>4. r[m].key # Nil
    BY <2>3 DEF Fresh, TableAssumption
  <2>. HIDE DEF r
  <2>5. \A p \in D : r[p].key = Nil => tab.dummy \/ p < tab.lastfree
    BY <1>1, <2>3, <2>4 DEF Good, FreeBefore
  <2>6. Taken(nd, r, k)
    <3>1. SameBut(nd, r, {m}) /\ m \in DOMAIN nd /\ nd[m].val = Nil
      BY <1>1, <1>2, <1>5, <2>3 DEF MainFree, SameBut
    <3>. HIDE DEF m, nd
    <3>. QED  BY <2>3, <3>1, TakenMain
  <2>. QED  BY <1>2, <1>4, <1>5, <2>1, <2>2, <2>3, <2>5, <2>6 DEF Good, FreeBefore, MainFree
<1>6. CASE ~MainFree(tab, k)
  <2>1. n # NoNode
    BY <1>6 DEF HasRoom
  <2>2. n \in D /\ nd[n].key = Nil /\ ~tab.dummy /\ \A p \in D : nd[p].key = Nil => p <= n
    BY <2>1, FreePosition
  <2>3. nd[m].val # Nil
    BY <1>6, <2>2 DEF MainFree
  <2>4. nd[m].key \in Key /\ m # n
    BY <1>1, <1>2, <2>2, <2>3 DEF Sound, NodesTrue, Records
  <2>5. mainposition(tab, nd[m].key) = main[nd[m].key]
    BY <2>4, MainIs
  <2>6. n \in 0 .. sizenode(tab) /\ D = 0 .. sizenode(tab) - 1
    BY <1>1, <2>2 DEF Positions
  <2>7. CASE main[nd[m].key] = m
    <3>. DEFINE nd1 == [nd EXCEPT ![m].next = n]
                r == [nd1 EXCEPT ![n] = Fresh(k, nd[m].next)]
    <3>1. Insert(tab, k) = With(tab, r, n)
      <4>1. Insert(tab, k) = ChainAfter(rest, m, n, k)
        BY <1>6, <2>5, <2>7 DEF Insert
      <4>2. @ = With(tab, r, n)
        <5>1. AfterIs(tab, m, n, k)
          <6>. HIDE DEF m, n
          <6>. QED  BY <1>1, ChainAfterIs
        <5>. QED  BY <5>1 DEF AfterIs
      <4>. QED  BY <4>1, <4>2
    <3>2. /\ DOMAIN r = D /\ r[n] = Fresh(k, nd[m].next) /\ r[m] = [nd[m] EXCEPT !.next = n]
          /\ \A p \in D \ {m, n} : r[p] = nd[p]
      BY <1>1, <1>2, <2>2, <2>4
    <3>3. r \in [D -> Records(D)]
      BY <1>1, <1>2, <2>2 DEF Records, Fresh
    <3>4. r[n].key # Nil /\ r[m].key # Nil
      BY <1>1, <1>2, <2>4, <3>2 DEF Fresh, TableAssumption, Records
    <3>. HIDE DEF r
    <3>5. Sound(r, main)
      BY <1>1, <1>2, <1>3, <2>2, <2>3, <2>4, <2>7, <3>2, <3>3, TakeBehind DEF TableAssumption
    <3>6. \A p \in D : r[p].key = Nil => p < n
      <4>1. \A p \in D : r[p].key = Nil => nd[p].key = Nil /\ p # n
        BY <3>2, <3>4
      <4>. QED  BY <2>2, <2>6, <4>1
    <3>7. Taken(nd, r, k)
      <4>1. nd[n].val = Nil
        BY <1>1, <2>2 DEF Sound, NodesTrue
      <4>2. SameBut(nd, r, {n}) /\ n \in DOMAIN nd
        BY <1>1, <1>2, <2>2, <3>2 DEF Records, SameBut
      <4>. HIDE DEF m, n, nd
      <4>. QED  BY <3>2, <4>1, <4>2, TakenMain
    <3>. QED  BY <1>4, <2>2, <2>6, <3>1, <3>2, <3>5, <3>6, <3>7
  <2>8. CASE main[nd[m].key] # m
    <3>. DEFINE P == {i \in D : nd[i].next = m}
                prev == FirstInChain(With(tab, nd, n), nd[m].key, P)
                nd1 == [nd EXCEPT ![prev].next = n]
                nd2 == [nd1 EXCEPT ![n] = nd[m]]
                r == [nd2 EXCEPT ![m] = Fresh(k, NoNode)]
    <3>1. Insert(tab, k) = With(tab, r, n)
      <4>1. Insert(tab, k) = MoveColliding(rest, m, n, k)
        BY <1>6, <2>5, <2>8 DEF Insert
      <4>2. @ = With(tab, r, n)
        <5>1. prev = FirstInChain(With(tab, tab.node, n), tab.node[m].key,
                                  {i \in Positions(tab) : tab.node[i].next = m})
          OBVIOUS
        <5>2. MovedIs(tab, m, n, k, prev)
          <6>. HIDE DEF m, n, prev
          <6>. QED  BY <1>1, <5>1, MoveCollidingIs
        <5>. QED  BY <5>2 DEF MovedIs
      <4>. QED  BY <4>1, <4>2
    <3>2. prev \in D /\ nd[prev].next = m /\ prev # m
      <4>. DEFINE w == With(tab, nd, n)
      <4>1. w.node = nd /\ w.lsizenode = tab.lsizenode
        BY DEF With
      <4>2. Linked(w) /\ Positions(w) = D /\ mainposition(w, nd[m].key) = main[nd[m].key]
        BY <1>1, <2>5, <4>1 DEF Linked, Positions, sizenode, mainposition
      <4>3. P \in SUBSET Positions(w) /\ main[nd[m].key] \in Positions(w)
        BY <1>1, <2>4, <4>2
      <4>. HIDE DEF w, P
      <4>4. IsFirst(w, main[nd[m].key], P, FirstInChain(w, nd[m].key, P))
        BY <4>2, <4>3, FirstIs
      <4>5. PICK s \in D : nd[s].next = m /\ Reach(nd, main[nd[m].key], s)
        BY <1>1, <1>2, <2>4, <2>8, Before DEF TableAssumption
      <4>6. s \in P
        BY <4>5 DEF P
      <4>7. prev \in P
        BY <4>1, <4>4, <4>5, <4>6 DEF IsFirst, w
      <4>8. nd[m].next # m
        <5>1. {m} \in SUBSET DOMAIN nd /\ m \in {m}
          BY <1>1, <1>2
        <5>2. nd[m].next \notin {m}
          BY <1>1, <5>1 DEF Linked, Acyclic
        <5>. QED  BY <5>2
      <4>. QED  BY <4>7, <4>8 DEF P
    <3>. HIDE DEF prev
    <3>3. prev # n
      BY <1>1, <1>2, <2>2, <3>2 DEF Sound, NodesTrue, Alone
    <3>4. /\ DOMAIN r = D /\ r[m] = Fresh(k, NoNode) /\ r[n] = nd[m]
          /\ r[prev] = [nd[prev] EXCEPT !.next = n] /\ \A p \in D \ {m, n, prev} : r[p] = nd[p]
      BY <1>1, <1>2, <2>2, <2>4, <3>2, <3>3
    <3>5. r \in [D -> Records(D)]
      BY <1>1, <1>2, <2>2, <3>2, SMTT(40) DEF Records, Fresh
    <3>6. r[m].key # Nil /\ r[n].key # Nil /\ r[prev].key = nd[prev].key
      BY <1>1, <2>4, <3>2, <3>4 DEF Fresh, TableAssumption, Records
    <3>. HIDE DEF r
    <3>7. Sound(r, main)
      <4>. HIDE DEF m, n
      <4>1. /\ nd[main[k]].key # Nil /\ main[nd[main[k]].key] # main[k] /\ nd[prev].next = main[k]
            /\ r[main[k]] = Fresh(k, NoNode) /\ r[n] = nd[main[k]]
            /\ \A p \in DOMAIN nd \ {main[k], n, prev} : r[p] = nd[p]
        BY <1>1, <1>2, <2>4, <2>8, <3>2, <3>4 DEF TableAssumption
      <4>2. DOMAIN r = DOMAIN nd /\ r \in [DOMAIN r -> Records(DOMAIN r)] /\ n \in DOMAIN nd /\ prev \in DOMAIN nd
        BY <1>1, <2>2, <3>2, <3>4, <3>5
      <4>. QED  BY <1>1, <1>3, <2>2, <3>4, <4>1, <4>2, TakeOver, SMTT(40)
    <3>8. \A p \in D : r[p].key = Nil => p < n
      <4>1. \A p \in D : r[p].key = Nil => nd[p].key = Nil /\ p # n
        BY <3>4, <3>6
      <4>. QED  BY <2>2, <2>6, <4>1
    <3>9. Taken(nd, r, k)
      <4>1. SameBut(nd, r, {m, n}) /\ m \in DOMAIN nd /\ n \in DOMAIN nd
        BY <1>1, <1>2, <2>2, <3>2, <3>4 DEF Records, SameBut
      <4>. HIDE DEF m, n, nd
      <4>. QED  BY <2>2, <2>4, <3>4, <4>1, TakenOver
    <3>. QED  BY <1>4, <2>2, <2>6, <3>1, <3>4, <3>7, <3>8, <3>9, ZenonT(40)
  <2>. QED  BY <2>7, <2>8
<1>. QED  BY <1>5, <1>6

-----------------------------------------------------------------------------
(* Assignments.                                                            *)

(* What a change leaves alone: the size of the array part and the keys.    *)
Keeps(tab, r) ==
  /\ Len(r.array) = Len(tab.array) /\ DOMAIN r.node = DOMAIN tab.node
  /\ \A p \in DOMAIN tab.node : r.node[p].key = tab.node[p].key

(* A store in a slot of a good table leaves it good and its keys in place. *)
LEMMA StoreGood ==
  ASSUME TableAssumption, hash \in Hashes, NEW tab, Good(hash, tab), NEW k \in Key, NEW v \in Slots
  PROVE  Good(hash, Store(tab, k, v)) /\ Keeps(tab, Store(tab, k, v))
<1>. DEFINE nd == tab.node
            D == Positions(tab)
            i == Index[k]
            q == NodeOf(tab, k)
<1>1. /\ NoNode \notin D /\ nd \in [D -> Records(D)] /\ DOMAIN nd = D /\ tab \in Tables
      /\ Sound(nd, Main(hash, tab)) /\ sizenode(tab) \in Nat
  BY GoodIs DEF Good
<1>2. CASE InArray(tab, k)
  <2>. DEFINE a == [tab.array EXCEPT ![i] = v]
              r == [tab EXCEPT !.array = a]
  <2>1. Store(tab, k, v) = r
    <3>1. Store(tab, k, v) = [tab EXCEPT !.array[i] = v]
      BY <1>2 DEF Store
    <3>. QED  BY <3>1
  <2>2. tab.array \in Seq(Slots) /\ i \in DOMAIN tab.array
    BY <1>1, <1>2 DEF Tables, InArray
  <2>3. a \in Seq(Slots) /\ Len(a) = Len(tab.array) /\ DOMAIN a = DOMAIN tab.array
        /\ \A j \in DOMAIN a : j # i => a[j] = tab.array[j]
    BY <2>2
  <2>. HIDE DEF a
  <2>4. /\ r.array = a /\ r.node = nd /\ r.lsizenode = tab.lsizenode /\ r.lastfree = tab.lastfree
        /\ r.dummy = tab.dummy /\ r \in Tables
    BY <1>1, <2>3 DEF Tables
  <2>. HIDE DEF r
  <2>5. sizenode(r) = sizenode(tab) /\ Positions(r) = D /\ Main(hash, r) = Main(hash, tab)
    BY <2>4 DEF sizenode, Positions, Main
  <2>6. ArrayKeys(r)
    BY <2>3, <2>4 DEF ArrayKeys, Good
  <2>7. FreeBefore(r)
    BY <2>4 DEF FreeBefore, Good
  <2>8. Good(hash, r)
    BY <1>1, <2>4, <2>5, <2>6, <2>7 DEF Good
  <2>. QED  BY <2>1, <2>3, <2>4, <2>8 DEF Keeps
<1>3. CASE ~InArray(tab, k)
  <2>. DEFINE r == [nd EXCEPT ![q].val = v]
  <2>1. Store(tab, k, v) = With(tab, r, tab.lastfree)
    <3>. DEFINE w == With(tab, nd, tab.lastfree)
    <3>1. Store(tab, k, v) = [tab EXCEPT !.node[q].val = v]
      BY <1>3 DEF Store
    <3>2. tab = w
      BY <1>1, IsRecord
    <3>3. [w EXCEPT !.node[q].val = v] = With(tab, r, tab.lastfree)
      <4>. HIDE DEF q
      <4>. QED  BY DEF With
    <3>. HIDE DEF w, r, q
    <3>. QED  BY <3>1, <3>2, <3>3
  <2>2. IsNodeOf(tab, k, q) /\ k # Nil
    BY Finds
  <2>3. /\ DOMAIN r = D /\ \A p \in D \ {q} : r[p] = nd[p]
        /\ q \in D => r[q] = [nd[q] EXCEPT !.val = v]
    BY <1>1
  <2>4. r \in [D -> Records(D)]
    <3>1. q \in D => [nd[q] EXCEPT !.val = v] \in Records(D)
      BY <1>1 DEF Records, Slots
    <3>2. \A p \in D : r[p] \in Records(D)
      BY <1>1, <2>3, <3>1
    <3>3. r = [p \in D |-> r[p]]
      BY <1>1
    <3>. QED  BY <3>2, <3>3
  <2>. HIDE DEF r
  <2>5. \A p \in D : r[p].next = nd[p].next /\ r[p].key = nd[p].key /\ r[p].dead = nd[p].dead
    <3>1. q \in D => r[q].next = nd[q].next /\ r[q].key = nd[q].key /\ r[q].dead = nd[q].dead
      BY <1>1, <2>3 DEF Records
    <3>. QED  BY <2>3, <3>1
  <2>6. \A p \in D : nd[p].key = Nil \/ nd[p].dead => r[p].val = nd[p].val
    BY <1>1, <2>2, <2>3 DEF IsNodeOf
  <2>7. NodesTrue(r)
    BY <1>1, <2>3, <2>4, <2>5, <2>6, SMTT(40) DEF Sound, NodesTrue, Alone
  <2>8. Sound(r, Main(hash, tab))
    BY <1>1, <2>3, <2>5, <2>7, SameKeys
  <2>9. Good(hash, With(tab, r, tab.lastfree))
    BY <1>1, <2>3, <2>5, <2>8, WithGood DEF Good, FreeBefore
  <2>. QED  BY <1>1, <2>1, <2>3, <2>5, <2>9 DEF Keeps, With
<1>. QED  BY <1>2, <1>3

(* The ghost of a table without room changes nothing.                      *)
LEMMA OverflowGood ==
  ASSUME NEW h, NEW tab, Good(h, tab), NEW r, r = [tab EXCEPT !.overflow = TRUE]
  PROVE  Good(h, r) /\ Keeps(tab, r)
<1>1. /\ r.array = tab.array /\ r.node = tab.node /\ r.lsizenode = tab.lsizenode
      /\ r.lastfree = tab.lastfree /\ r.dummy = tab.dummy /\ r \in Tables
  BY DEF Good, Tables
<1>2. sizenode(r) = sizenode(tab) /\ Positions(r) = Positions(tab) /\ Main(h, r) = Main(h, tab)
  BY <1>1 DEF sizenode, Positions, Main
<1>. QED  BY <1>1, <1>2 DEF Good, FreeBefore, ArrayKeys, Keeps

(* setobjt2t(luaH_set(k), v) in resize.                                    *)
LEMMA ReinsertGood ==
  ASSUME TableAssumption, hash \in Hashes, NEW tab, Good(hash, tab), NEW k \in Key, NEW v \in Slots
  PROVE  Good(hash, Reinsert(tab, k, v)) /\ Len(Reinsert(tab, k, v).array) = Len(tab.array)
<1>1. CASE HasSlot(tab, k)
  BY <1>1, StoreGood DEF Reinsert, Keeps
<1>2. CASE ~HasSlot(tab, k) /\ HasRoom(tab, k)
  BY <1>2, InsertGood, StoreGood DEF Reinsert, Keeps, Inserted
<1>3. CASE ~HasSlot(tab, k) /\ ~HasRoom(tab, k)
  BY <1>3, OverflowGood DEF Reinsert, Keeps
<1>. QED  BY <1>1, <1>2, <1>3

(* r has room for that many keys and holds none.                           *)
Emptied(tab, r, size) ==
  /\ \A p \in DOMAIN r.node : r.node[p] = FreeNode
  /\ (r.dummy <=> size = 0) /\ r.overflow = tab.overflow /\ sizenode(r) >= size

(* An empty vector of any size.                                            *)
LEMMA SizedGood ==
  ASSUME TableAssumption, NEW h \in Hashes, NEW tab \in Tables, ArrayKeys(tab), NEW size \in Nat
  PROVE  /\ Good(h, setnodevector(tab, size)) /\ setnodevector(tab, size).array = tab.array
         /\ Emptied(tab, setnodevector(tab, size), size)
<1>. DEFINE l == IF size = 0 THEN 0 ELSE ceillog2(size)
            N == 2^l
            D == 0 .. N - 1
            nd == [i \in D |-> FreeNode]
            last == IF size = 0 THEN 0 ELSE N
            r == setnodevector(tab, size)
<1>1. l \in Nat /\ N \in Nat \ {0}
  <2>1. l \in Nat
    BY CeilLog
  <2>. HIDE DEF l
  <2>. QED  BY <2>1, Powers
<1>2. /\ r.array = tab.array /\ r.node = nd /\ r.lsizenode = l /\ r.lastfree = last
      /\ r.dummy = (size = 0) /\ r.overflow = tab.overflow
      /\ r = [array |-> tab.array, node |-> nd, lsizenode |-> l, lastfree |-> last,
              dummy |-> (size = 0), overflow |-> tab.overflow]
  <2>. DEFINE w == With(tab, tab.node, tab.lastfree)
              empty == (size = 0)
  <2>1. tab = w
    BY IsRecord
  <2>2. r = [tab EXCEPT !.lsizenode = l, !.dummy = empty, !.node = nd, !.lastfree = last]
    BY DEF setnodevector
  <2>. HIDE DEF l, nd, last, r, empty
  <2>3. [w EXCEPT !.lsizenode = l, !.dummy = empty, !.node = nd, !.lastfree = last] =
          [array |-> tab.array, node |-> nd, lsizenode |-> l, lastfree |-> last,
           dummy |-> empty, overflow |-> tab.overflow]
    <3>. DEFINE R(s, n, f, d) == [array |-> tab.array, node |-> n, lsizenode |-> s, lastfree |-> f,
                                  dummy |-> d, overflow |-> tab.overflow]
    <3>1. w = R(tab.lsizenode, tab.node, tab.lastfree, tab.dummy)
      BY DEF With
    <3>. HIDE DEF w
    <3>. DEFINE w1 == [w EXCEPT !.lsizenode = l]
                w2 == [w1 EXCEPT !.dummy = empty]
                w3 == [w2 EXCEPT !.node = nd]
    <3>2. w1 = R(l, tab.node, tab.lastfree, tab.dummy)
      BY <3>1
    <3>. HIDE DEF w1
    <3>3. w2 = R(l, tab.node, tab.lastfree, empty)
      BY <3>2
    <3>. HIDE DEF w2
    <3>4. w3 = R(l, nd, tab.lastfree, empty)
      BY <3>3
    <3>. HIDE DEF w3
    <3>5. [w3 EXCEPT !.lastfree = last] = R(l, nd, last, empty)
      BY <3>4
    <3>. USE DEF w1, w2, w3
    <3>. QED  BY <3>5
  <2>. HIDE DEF w
  <2>4. r = [array |-> tab.array, node |-> nd, lsizenode |-> l, lastfree |-> last,
             dummy |-> empty, overflow |-> tab.overflow]
    BY <2>1, <2>2, <2>3
  <2>. QED  BY <2>4 DEF empty
<1>. HIDE DEF r, l
<1>3. FreeNode.key = Nil /\ FreeNode \in Records(D)
  BY DEF FreeNode, Records
<1>4. nd \in Vectors
  BY <1>1, <1>3 DEF Vectors
<1>5. r \in Tables
  <2>1. tab.array \in Seq(Slots) /\ tab.overflow \in BOOLEAN /\ last \in Nat
    BY <1>1 DEF Tables
  <2>. HIDE DEF nd, last
  <2>. QED  BY <1>1, <1>2, <1>4, <2>1 DEF Tables
<1>6. sizenode(r) = N /\ Positions(r) = D /\ last \in 0 .. N
  BY <1>1, <1>2 DEF sizenode, Positions
<1>. HIDE DEF N
<1>7. Sound(nd, Main(h, r))
  <2>1. Main(h, r) \in [Key -> D] /\ NoNode \notin D
    BY <1>1, <1>2, <1>6, MainType
  <2>. HIDE DEF D
  <2>. QED  BY <2>1, NewSound
<1>8. FreeBefore(r)
  <2>1. CASE size = 0
    BY <1>2, <2>1 DEF FreeBefore
  <2>2. CASE size # 0
    <3>1. ~r.dummy /\ r.lastfree = N /\ DOMAIN r.node = D
      BY <1>2, <2>2
    <3>2. \A p \in D : p < N
      BY <1>1
    <3>. QED  BY <3>1, <3>2 DEF FreeBefore
  <2>. QED  BY <2>1, <2>2
<1>9. ArrayKeys(r)
  BY <1>2 DEF ArrayKeys
<1>10. N >= size
  BY CeilLog, Powers DEF N, l
<1>11. Emptied(tab, r, size)
  BY <1>2, <1>6, <1>10 DEF Emptied
<1>. QED  BY <1>2, <1>5, <1>6, <1>7, <1>8, <1>9, <1>11 DEF Good, r

-----------------------------------------------------------------------------
(* resize.  Its loops, with the names of the code.                         *)
FromSlice(tab, nasize, s, i) ==
  IF i <= nasize \/ tab.array[i] = Nil THEN s ELSE Reinsert(s, KeyAt(i), tab.array[i])

FromNode(tab, s, i) ==
  LET n == tab.node[sizenode(tab) - i] IN IF n.val = Nil THEN s ELSE Reinsert(s, n.key, n.val)

Sized(tab, nasize, nhsize) ==
  setnodevector(IF nasize > Len(tab.array) THEN setarrayvector(tab, nasize)
                ELSE [tab EXCEPT !.array = SubSeq(@, 1, nasize)],
                nhsize)

SlicesMoved(tab, nasize, s) ==
  CHOOSE at : at = [i \in 0 .. Len(tab.array) |->
                      IF i = 0 THEN s ELSE FromSlice(tab, nasize, at[i - 1], i)]

NodesMoved(tab, s) ==
  CHOOSE at : at = [i \in 0 .. sizenode(tab) |-> IF i = 0 THEN s ELSE FromNode(tab, at[i - 1], i)]

(* resize makes the empty parts, then moves the vanishing slice, then the
   nodes (ltable.cpp:244). *)
LEMMA ResizeIs ==
  ASSUME NEW tab, NEW nasize, NEW nhsize
  PROVE  resize(tab, nasize, nhsize) =
           NodesMoved(tab, SlicesMoved(tab, nasize, Sized(tab, nasize, nhsize))[Len(tab.array)])
             [sizenode(tab)]
BY DEF resize, Loop, NodesMoved, SlicesMoved, FromSlice, FromNode, Sized

(* The good tables whose array part has n slots.                           *)
GoodTables(h, n) == {tab \in Tables : Good(h, tab) /\ Len(tab.array) = n}

(* What resize begins with: the slots that stay, and no node in use.       *)
SizedFrom(tab, r, nasize, nhsize) ==
  /\ Emptied(tab, r, nhsize)
  /\ \A i \in 1 .. nasize :
        r.array[i] = IF i <= Len(tab.array) THEN tab.array[i] ELSE Nil

(* The empty parts resize begins with are a good table. *)
LEMMA SizedIs ==
  ASSUME TableAssumption, NEW h \in Hashes, NEW tab, Good(h, tab),
         NEW nasize \in Nat, NEW nhsize \in Nat
  PROVE  /\ Sized(tab, nasize, nhsize) \in GoodTables(h, nasize)
         /\ SizedFrom(tab, Sized(tab, nasize, nhsize), nasize, nhsize)
<1>. DEFINE a == IF nasize > Len(tab.array) THEN tab.array \o NilSlots(nasize - Len(tab.array))
                 ELSE SubSeq(tab.array, 1, nasize)
            base == [tab EXCEPT !.array = a]
            old == tab.array
<1>1. old \in Seq(Slots) /\ Len(old) \in Nat /\ tab \in Tables /\ ArrayKeys(tab)
  BY DEF Good, Tables
<1>2. Sized(tab, nasize, nhsize) = setnodevector(base, nhsize)
  BY DEF Sized, setarrayvector
<1>3. /\ a \in Seq(Slots) /\ Len(a) = nasize
      /\ \A i \in 1 .. nasize : a[i] = IF i <= Len(old) THEN old[i] ELSE Nil
  <2>1. CASE nasize > Len(old)
    <3>. DEFINE d == nasize - Len(old)
    <3>1. d \in Nat /\ NilSlots(d) \in Seq(Slots) /\ Len(NilSlots(d)) = d
      BY <1>1, <2>1 DEF NilSlots, Slots
    <3>2. a = old \o NilSlots(d)
      BY <2>1
    <3>. HIDE DEF a
    <3>3. /\ a \in Seq(Slots) /\ Len(a) = Len(old) + d
          /\ \A i \in 1 .. Len(old) + d : a[i] = IF i <= Len(old) THEN old[i]
                                               ELSE NilSlots(d)[i - Len(old)]
      <4>. DEFINE b == NilSlots(d)
      <4>1. old \in Seq(Slots) /\ b \in Seq(Slots) /\ Len(b) = d /\ a = old \o b
        BY <1>1, <3>1, <3>2
      <4>. HIDE DEF d, b, a
      <4>. HIDE DEF old
      <4>2. old \o b \in Seq(Slots) /\ Len(old \o b) = Len(old) + Len(b)
        <5>1. old \in Seq(Slots) /\ b \in Seq(Slots)
          BY <4>1
        <5>2. old \o b \in Seq(Slots) /\ Len(old \o b) = Len(old) + Len(b)
          BY <5>1
        <5>. QED  BY <5>2
      <4>3. ASSUME NEW i \in 1 .. Len(old) PROVE (old \o b)[i] = old[i]
        BY <4>1
      <4>4. ASSUME NEW i \in 1 .. Len(old) + Len(b), i > Len(old)
            PROVE  (old \o b)[i] = b[i - Len(old)]
        BY <4>1, <4>4
      <4>5. \A i \in 1 .. Len(old) + d : a[i] = IF i <= Len(old) THEN old[i] ELSE b[i - Len(old)]
        <5>1. Len(old) \in Nat /\ Len(b) = d /\ d \in Nat
          BY <3>1, <4>1
        <5>. QED  BY <4>1, <4>3, <4>4, <5>1
      <4>. QED  BY <4>1, <4>2, <4>5 DEF b
    <3>4. ASSUME NEW i \in 1 .. nasize PROVE a[i] = IF i <= Len(old) THEN old[i] ELSE Nil
      <4>1. CASE i <= Len(old)
        BY <1>1, <3>3, <4>1
      <4>2. CASE i > Len(old)
        <5>1. a[i] = NilSlots(d)[i - Len(old)] /\ i - Len(old) \in 1 .. d
          BY <1>1, <3>3, <4>2
        <5>. QED  BY <1>1, <4>2, <5>1 DEF NilSlots
      <4>. QED  BY <1>1, <4>1, <4>2
    <3>. QED  BY <1>1, <3>3, <3>4
  <2>2. CASE ~(nasize > Len(old))
    <3>1. a = SubSeq(old, 1, nasize) /\ nasize <= Len(old)
      <4>1. nasize <= Len(old)
        BY <1>1, <2>2
      <4>2. a = SubSeq(old, 1, nasize)
        BY <2>2, Zenon
      <4>. QED  BY <4>1, <4>2
    <3>. HIDE DEF a
    <3>2. DOMAIN old = 1 .. Len(old) /\ \A i \in 1 .. nasize : old[i] \in Slots
      BY <1>1, <3>1
    <3>3. /\ a \in Seq(Slots) /\ Len(a) = IF 1 <= nasize THEN nasize - 1 + 1 ELSE 0
          /\ \A i \in 1 .. nasize - 1 + 1 : a[i] = old[1 + i - 1]
      BY <3>1, <3>2, SubSeqProperties
    <3>4. Len(a) = nasize /\ DOMAIN a = 1 .. nasize
      BY <3>3
    <3>5. \A i \in 1 .. nasize : a[i] = old[i]
      BY <3>3
    <3>. QED  BY <1>1, <3>1, <3>2, <3>3, <3>4, <3>5
  <2>. QED  BY <2>1, <2>2
<1>. HIDE DEF a
<1>4. base \in Tables /\ base.array = a
  BY <1>1, <1>3 DEF Tables
<1>. HIDE DEF base
<1>5. ArrayKeys(base)
  BY <1>1, <1>3, <1>4 DEF ArrayKeys
<1>6. /\ Good(h, setnodevector(base, nhsize)) /\ setnodevector(base, nhsize).array = a
      /\ Emptied(base, setnodevector(base, nhsize), nhsize)
  BY <1>4, <1>5, SizedGood
<1>7. base.overflow = tab.overflow
  BY <1>1 DEF base, Tables
<1>8. SizedFrom(tab, setnodevector(base, nhsize), nasize, nhsize)
  BY <1>3, <1>6, <1>7 DEF SizedFrom, Emptied
<1>. QED  BY <1>2, <1>3, <1>6, <1>8 DEF GoodTables, Good

(* A slot that does not fit any more goes to the nodes.                    *)
LEMMA FromSliceGood ==
  ASSUME TableAssumption, hash \in Hashes, NEW tab, Good(hash, tab), NEW nasize \in Nat,
         NEW s \in GoodTables(hash, nasize), NEW i \in 1 .. Len(tab.array)
  PROVE  FromSlice(tab, nasize, s, i) \in GoodTables(hash, nasize)
<1>1. CASE i <= nasize \/ tab.array[i] = Nil
  BY <1>1 DEF FromSlice
<1>2. CASE ~(i <= nasize \/ tab.array[i] = Nil)
  <2>1. tab.array \in Seq(Slots) /\ i \in DOMAIN tab.array /\ ArrayKeys(tab)
    BY DEF Good, Tables
  <2>2. KeyAt(i) \in Key /\ tab.array[i] \in Slots
    BY <1>2, <2>1 DEF ArrayKeys, KeyAt
  <2>3. Good(hash, s) /\ Len(s.array) = nasize
    BY DEF GoodTables
  <2>4. FromSlice(tab, nasize, s, i) = Reinsert(s, KeyAt(i), tab.array[i])
    BY <1>2 DEF FromSlice
  <2>. DEFINE k == KeyAt(i)
              v == tab.array[i]
  <2>. HIDE DEF k, v
  <2>5. Good(hash, Reinsert(s, k, v)) /\ Len(Reinsert(s, k, v).array) = nasize
    BY <2>2, <2>3, ReinsertGood DEF k, v
  <2>. QED  BY <2>4, <2>5 DEF GoodTables, Good, k, v
<1>. QED  BY <1>1, <1>2

(* So does what a node has.                                                *)
LEMMA FromNodeGood ==
  ASSUME TableAssumption, hash \in Hashes, NEW tab, Good(hash, tab), NEW nasize \in Nat,
         NEW s \in GoodTables(hash, nasize), NEW i \in 1 .. sizenode(tab)
  PROVE  FromNode(tab, s, i) \in GoodTables(hash, nasize)
<1>. DEFINE p == sizenode(tab) - i
            n == tab.node[p]
<1>1. p \in Positions(tab) /\ n \in Records(Positions(tab)) /\ DOMAIN tab.node = Positions(tab)
  BY GoodIs DEF Positions, Good
<1>. HIDE DEF p
<1>2. CASE n.val = Nil
  BY <1>2 DEF FromNode, p
<1>3. CASE n.val # Nil
  <2>1. n.key \in Key /\ n.val \in Slots
    BY <1>1, <1>3 DEF Records, Good, Sound, NodesTrue, Slots
  <2>2. Good(hash, s) /\ Len(s.array) = nasize
    BY DEF GoodTables
  <2>3. FromNode(tab, s, i) = Reinsert(s, n.key, n.val)
    BY <1>3 DEF FromNode, p
  <2>. QED  BY <2>1, <2>2, <2>3, ReinsertGood, SMTT(40) DEF GoodTables, Good
<1>. QED  BY <1>2, <1>3

(* A loop that goes from elements of X to elements of X ends in X.         *)
Follows(X, s, n, step, c) ==
  c[0] = s /\ \A i \in 1 .. n : c[i - 1] \in X => c[i] = step[i][c[i - 1]]

(* A loop whose every turn stays in X ends in X. *)
LEMMA LoopStays ==
  ASSUME NEW X, NEW s \in X, NEW n \in Nat, NEW step \in [1 .. n -> [X -> X]],
         NEW c, Follows(X, s, n, step, c)
  PROVE  \A i \in 0 .. n : c[i] \in X
<1>. DEFINE S == {i \in 0 .. n : c[i] \in X}
<1>1. 0 \in S
  BY DEF Follows
<1>2. ASSUME NEW i \in 0 .. n - 1, i \in S PROVE i + 1 \in S
  <2>. DEFINE j == i + 1
  <2>1. j \in 1 .. n /\ j - 1 = i /\ j \in 0 .. n
    OBVIOUS
  <2>. HIDE DEF j
  <2>2. c[j] = step[j][c[i]] /\ c[i] \in X
    BY <1>2, <2>1 DEF Follows
  <2>3. c[j] \in X
    BY <2>1, <2>2
  <2>. QED  BY <2>1, <2>3 DEF j
<1>. HIDE DEF S
<1>3. 0 .. n \subseteq S
  BY <1>1, <1>2, UpTo
<1>. QED  BY <1>3 DEF S

SlicesRun(tab, nasize, s, c) ==
  c[0] = s /\ \A i \in 1 .. Len(tab.array) : c[i] = FromSlice(tab, nasize, c[i - 1], i)

NodesRun(tab, s, c) ==
  c[0] = s /\ \A i \in 1 .. sizenode(tab) : c[i] = FromNode(tab, c[i - 1], i)

(* Reinserting the vanishing slice keeps the table good (ltable.cpp:255). *)
LEMMA SlicesGood ==
  ASSUME TableAssumption, hash \in Hashes, NEW tab, Good(hash, tab), NEW nasize \in Nat,
         NEW s \in GoodTables(hash, nasize)
  PROVE  /\ \A i \in 0 .. Len(tab.array) :
               SlicesMoved(tab, nasize, s)[i] \in GoodTables(hash, nasize)
         /\ SlicesRun(tab, nasize, s, SlicesMoved(tab, nasize, s))
<1>. DEFINE X == GoodTables(hash, nasize)
            n == Len(tab.array)
            Is(at) == at = [i \in 0 .. n |-> IF i = 0 THEN s ELSE FromSlice(tab, nasize, at[i - 1], i)]
            step == [i \in 1 .. n |-> [u \in X |-> FromSlice(tab, nasize, u, i)]]
            c == SlicesMoved(tab, nasize, s)
<1>1. n \in Nat
  BY DEF Good, Tables
<1>2. /\ step \in [1 .. n -> [X -> X]]
      /\ \A u \in X, i \in 1 .. n : step[i][u] = FromSlice(tab, nasize, u, i)
  BY FromSliceGood
<1>3. c = CHOOSE at : Is(at)
  BY DEF SlicesMoved
<1>. HIDE DEF X, n, step, c
<1>4. PICK g \in [0 .. n -> X] : g[0] = s /\ \A i \in 1 .. n : g[i] = step[i][g[i - 1]]
  <2>1. Defined(X, s, n, step)
    BY <1>1, <1>2, Recursion DEF X
  <2>. QED  BY <2>1 DEF Defined
<1>5. Is(g)
  <2>1. \A i \in 1 .. n : i - 1 \in 0 .. n
    BY <1>1
  <2>2. \A i \in 1 .. n : g[i] = FromSlice(tab, nasize, g[i - 1], i)
    BY <1>2, <1>4, <2>1
  <2>. QED  BY <1>1, <1>4, <2>2
<1>6. Is(c)
  <2>. HIDE DEF Is
  <2>. QED  BY <1>3, <1>5
<1>7. c[0] = s /\ \A i \in 1 .. n : c[i] = FromSlice(tab, nasize, c[i - 1], i)
  BY <1>1, <1>6
<1>8. \A i \in 1 .. n : c[i - 1] \in X => c[i] = step[i][c[i - 1]]
  BY <1>2, <1>7
<1>9. \A i \in 0 .. n : c[i] \in X
  <2>1. s \in X
    BY DEF X
  <2>2. step \in [1 .. n -> [X -> X]]
    BY <1>2
  <2>3. Follows(X, s, n, step, c)
    BY <1>7, <1>8 DEF Follows
  <2>. QED  BY <1>1, <2>1, <2>2, <2>3, LoopStays
<1>. QED  BY <1>7, <1>9 DEF X, n, c, SlicesRun

(* Reinserting the old nodes keeps the table good (ltable.cpp:266). *)
LEMMA NodesGood ==
  ASSUME TableAssumption, hash \in Hashes, NEW tab, Good(hash, tab), NEW nasize \in Nat,
         NEW s \in GoodTables(hash, nasize)
  PROVE  /\ \A i \in 0 .. sizenode(tab) : NodesMoved(tab, s)[i] \in GoodTables(hash, nasize)
         /\ NodesRun(tab, s, NodesMoved(tab, s))
<1>. DEFINE X == GoodTables(hash, nasize)
            n == sizenode(tab)
            Is(at) == at = [i \in 0 .. n |-> IF i = 0 THEN s ELSE FromNode(tab, at[i - 1], i)]
            step == [i \in 1 .. n |-> [u \in X |-> FromNode(tab, u, i)]]
            c == NodesMoved(tab, s)
<1>1. n \in Nat
  BY GoodIs
<1>2. /\ step \in [1 .. n -> [X -> X]]
      /\ \A u \in X, i \in 1 .. n : step[i][u] = FromNode(tab, u, i)
  BY FromNodeGood
<1>3. c = CHOOSE at : Is(at)
  BY DEF NodesMoved
<1>. HIDE DEF X, n, step, c
<1>4. PICK g \in [0 .. n -> X] : g[0] = s /\ \A i \in 1 .. n : g[i] = step[i][g[i - 1]]
  <2>1. Defined(X, s, n, step)
    BY <1>1, <1>2, Recursion DEF X
  <2>. QED  BY <2>1 DEF Defined
<1>5. Is(g)
  <2>1. \A i \in 1 .. n : i - 1 \in 0 .. n
    BY <1>1
  <2>2. \A i \in 1 .. n : g[i] = FromNode(tab, g[i - 1], i)
    BY <1>2, <1>4, <2>1
  <2>. QED  BY <1>1, <1>4, <2>2
<1>6. Is(c)
  <2>. HIDE DEF Is
  <2>. QED  BY <1>3, <1>5
<1>7. c[0] = s /\ \A i \in 1 .. n : c[i] = FromNode(tab, c[i - 1], i)
  BY <1>1, <1>6
<1>8. \A i \in 1 .. n : c[i - 1] \in X => c[i] = step[i][c[i - 1]]
  BY <1>2, <1>7
<1>9. \A i \in 0 .. n : c[i] \in X
  <2>1. s \in X
    BY DEF X
  <2>2. step \in [1 .. n -> [X -> X]]
    BY <1>2
  <2>3. Follows(X, s, n, step, c)
    BY <1>7, <1>8 DEF Follows
  <2>. QED  BY <1>1, <2>1, <2>2, <2>3, LoopStays
<1>. QED  BY <1>7, <1>9 DEF X, n, c, NodesRun

(* resize *)
LEMMA ResizeGood ==
  ASSUME TableAssumption, hash \in Hashes, NEW tab, Good(hash, tab),
         NEW nasize \in Nat, NEW nhsize \in Nat
  PROVE  Good(hash, resize(tab, nasize, nhsize)) /\ Len(resize(tab, nasize, nhsize).array) = nasize
<1>1. Sized(tab, nasize, nhsize) \in GoodTables(hash, nasize)
  BY SizedIs
<1>. DEFINE s == Sized(tab, nasize, nhsize)
            n == Len(tab.array)
<1>. HIDE DEF s
<1>2. n \in 0 .. n /\ sizenode(tab) \in 0 .. sizenode(tab)
  BY GoodIs DEF Good, Tables
<1>3. SlicesMoved(tab, nasize, s)[n] \in GoodTables(hash, nasize)
  BY <1>1, <1>2, SlicesGood DEF s
<1>4. NodesMoved(tab, SlicesMoved(tab, nasize, s)[n])[sizenode(tab)] \in GoodTables(hash, nasize)
  BY <1>2, <1>3, NodesGood
<1>5. resize(tab, nasize, nhsize) \in GoodTables(hash, nasize)
  BY <1>4, ResizeIs DEF s
<1>. QED  BY <1>5 DEF GoodTables

(* rehash: the sizes it computes are numbers.                              *)
LEMMA ImageFinite ==
  ASSUME NEW S, IsFiniteSet(S), NEW f
  PROVE  IsFiniteSet({f[x] : x \in S})
<1>. DEFINE T == {f[x] : x \in S}
            g == [x \in S |-> f[x]]
<1>1. g \in Surjection(S, T)
  BY DEF Surjection
<1>. QED  BY <1>1, FS_Surjection

(* A table has finitely many entries in use. *)
LEMMA InUseFinite ==
  ASSUME TableAssumption, NEW h \in Hashes, NEW tab, Good(h, tab)
  PROVE  IsFiniteSet(InUse(tab))
<1>. DEFINE A == {j \in DOMAIN tab.array : tab.array[j] # Nil}
            B == {j \in Positions(tab) : tab.node[j].val # Nil}
            f == [i \in A |-> KeyAt(i)]
            g == [i \in B |-> tab.node[i].key]
<1>1. IsFiniteSet(A) /\ IsFiniteSet(B)
  <2>. DEFINE n == Len(tab.array)
              m == sizenode(tab) - 1
  <2>1. tab.array \in Seq(Slots) /\ n \in Nat /\ m \in Int
    <3>1. tab.array \in Seq(Slots)
      BY DEF Good, Tables
    <3>2. sizenode(tab) \in Nat
      BY GoodIs
    <3>. QED  BY <3>1, <3>2
  <2>2. IsFiniteSet(1 .. n) /\ IsFiniteSet(0 .. m)
    <3>. HIDE DEF n, m
    <3>. QED  BY <2>1, FS_Interval
  <2>3. A \in SUBSET (1 .. Len(tab.array)) /\ B \in SUBSET (0 .. sizenode(tab) - 1)
    BY <2>1 DEF Positions
  <2>. HIDE DEF A, B
  <2>. QED  BY <2>2, <2>3, FS_Subset
<1>2. InUse(tab) = {f[i] : i \in A} \cup {g[i] : i \in B}
  <2>1. {f[i] : i \in A} = {KeyAt(i) : i \in A}
    OBVIOUS
  <2>2. {g[i] : i \in B} = {n.key : n \in {tab.node[i] : i \in B}}
    <3>1. {g[i] : i \in B} = {tab.node[i].key : i \in B}
      OBVIOUS
    <3>. HIDE DEF B
    <3>2. {n.key : n \in {tab.node[i] : i \in B}} = {tab.node[i].key : i \in B}
      OBVIOUS
    <3>. QED  BY <3>1, <3>2
  <2>. HIDE DEF f, g
  <2>. QED  BY <2>1, <2>2 DEF InUse
<1>. HIDE DEF f, g, A, B
<1>3. IsFiniteSet({f[i] : i \in A}) /\ IsFiniteSet({g[i] : i \in B})
  BY <1>1, ImageFinite
<1>4. IsFiniteSet({f[i] : i \in A} \cup {g[i] : i \in B})
  BY <1>3, FS_Union, Zenon
<1>. QED  BY <1>2, <1>4

(* computesizes gives a size (ltable.cpp:159). *)
LEMMA SizesNatural ==
  ASSUME NEW ints, IsFiniteSet(ints)
  PROVE  computesizes(ints) \in Nat
<1>. DEFINE c == Cardinality(ints)
            Upto(n) == Cardinality({k \in ints : Index[k] <= n})
            good == {n \in {2^i : i \in 0 .. c} : Upto(n) > n \div 2}
<1>1. c \in Nat
  BY FS_CardinalityType
<1>2. good \in SUBSET Nat /\ \A n \in good : n <= 2^c
  <2>1. \A i \in 0 .. c : 2^i \in Nat /\ 2^i <= 2^c
    BY <1>1, Powers
  <2>. QED  BY <2>1
<1>3. computesizes(ints) = IF good = {} THEN 0 ELSE Max(good)
  BY DEF computesizes
<1>4. 2^c \in Nat
  BY <1>1, Powers
<1>. DEFINE b == 2^c
<1>5. b \in Nat /\ \A n \in good : n <= b
  BY <1>2, <1>4
<1>. HIDE DEF good, b
<1>6. good # {} => Max(good) \in good
  BY <1>2, <1>5, Largest
<1>7. good \in SUBSET Nat
  BY <1>2
<1>8. CASE good = {}
  <2>1. computesizes(ints) = 0
    BY <1>3, <1>8
  <2>. QED  BY <2>1
<1>9. CASE good # {}
  <2>1. computesizes(ints) = Max(good)
    BY <1>3, <1>9
  <2>. QED  BY <1>6, <1>7, <1>9, <2>1
<1>. QED  BY <1>8, <1>9

(* rehash keeps a table good, whatever key it makes room for
   (ltable.cpp:281). *)
LEMMA RehashGood ==
  ASSUME TableAssumption, hash \in Hashes, NEW tab, Good(hash, tab), NEW ek
  PROVE  Good(hash, rehash(tab, ek))
<1>. DEFINE all == InUse(tab) \cup {ek}
            ints == {k \in all : Index[k] > 0}
            nasize == computesizes(ints)
            fit == {k \in ints : Index[k] <= nasize}
            na == Cardinality(fit)
<1>1. IsFiniteSet(all)
  BY InUseFinite, FS_AddElement
<1>2. ints \in SUBSET all /\ fit \in SUBSET all
  OBVIOUS
<1>. HIDE DEF all
<1>3. IsFiniteSet(ints) /\ IsFiniteSet(fit) /\ na <= Cardinality(all) /\ na \in Nat /\ Cardinality(all) \in Nat
  <2>. HIDE DEF ints, fit
  <2>. QED  BY <1>1, <1>2, FS_Subset, FS_CardinalityType
<1>4. nasize \in Nat
  <2>. HIDE DEF ints
  <2>. QED  BY <1>3, SizesNatural
<1>5. rehash(tab, ek) = resize(tab, nasize, Cardinality(all) - na)
  BY DEF rehash, all
<1>. HIDE DEF nasize, na
<1>6. Cardinality(all) - na \in Nat
  BY <1>3
<1>. QED  BY <1>4, <1>5, <1>6, ResizeGood

-----------------------------------------------------------------------------
(* The operations.                                                         *)

(* luaH_set                                                                *)
LEMMA SetSlotGood ==
  ASSUME TableAssumption, hash \in Hashes, NEW tab, Good(hash, tab), NEW k \in Key
  PROVE  Good(hash, SetSlot(tab, k)) /\ (HasSlot(tab, k) => SetSlot(tab, k) = tab)
<1>1. CASE HasSlot(tab, k)
  BY <1>1 DEF SetSlot
<1>2. CASE ~HasSlot(tab, k) /\ HasRoom(tab, k)
  BY <1>2, InsertGood DEF SetSlot
<1>3. CASE ~HasSlot(tab, k) /\ ~HasRoom(tab, k)
  <2>. DEFINE r == rehash(tab, k)
  <2>1. Good(hash, r)
    BY RehashGood
  <2>2. SetSlot(tab, k) = IF HasSlot(r, k) THEN r
                          ELSE IF HasRoom(r, k) THEN Insert(r, k)
                          ELSE [r EXCEPT !.overflow = TRUE]
    BY <1>3 DEF SetSlot
  <2>. HIDE DEF r
  <2>. QED  BY <1>3, <2>1, <2>2, InsertGood, OverflowGood
<1>. QED  BY <1>1, <1>2, <1>3

(* OP_SETLIST: its loop, from the last value down.                         *)
SetNum(n, v, s, i) == LET k == KeyAt(n + 1 - i) IN Store(SetSlot(s, k), k, v)

ListStored(n, v, s) ==
  CHOOSE at : at = [i \in 0 .. n |-> IF i = 0 THEN s ELSE SetNum(n, v, at[i - 1], i)]

ListRun(n, v, s, c) == c[0] = s /\ \A i \in 1 .. n : c[i] = SetNum(n, v, c[i - 1], i)

AnyTable(h) == {tab \in Tables : Good(h, tab)}

(* The stores of OP_SETLIST keep a table good. *)
LEMMA ListGood ==
  ASSUME TableAssumption, hash \in Hashes, NEW n \in Lists, NEW v \in Slots, NEW s, Good(hash, s)
  PROVE  /\ \A i \in 0 .. n : Good(hash, ListStored(n, v, s)[i])
         /\ ListRun(n, v, s, ListStored(n, v, s))
<1>. DEFINE X == AnyTable(hash)
            Is(at) == at = [i \in 0 .. n |-> IF i = 0 THEN s ELSE SetNum(n, v, at[i - 1], i)]
            step == [i \in 1 .. n |-> [u \in X |-> SetNum(n, v, u, i)]]
            c == ListStored(n, v, s)
<1>1. n \in Nat /\ \A i \in 1 .. n : KeyAt(i) \in Key
  BY DEF TableAssumption, KeyAt
<1>2. ASSUME NEW u \in X, NEW i \in 1 .. n PROVE SetNum(n, v, u, i) \in X
  <2>. DEFINE k == KeyAt(n + 1 - i)
              r == SetSlot(u, k)
  <2>1. n + 1 - i \in 1 .. n
    BY <1>1
  <2>2. k \in Key
    BY <1>1, <2>1
  <2>. HIDE DEF k
  <2>3. Good(hash, r)
    BY <2>2, SetSlotGood DEF AnyTable
  <2>4. Good(hash, Store(r, k, v))
    <3>. HIDE DEF r
    <3>. QED  BY <2>2, <2>3, StoreGood
  <2>5. SetNum(n, v, u, i) = Store(r, k, v)
    BY DEF SetNum, k
  <2>. QED  BY <2>4, <2>5 DEF AnyTable, Good
<1>3. /\ step \in [1 .. n -> [X -> X]]
      /\ \A u \in X, i \in 1 .. n : step[i][u] = SetNum(n, v, u, i)
  BY <1>2
<1>4. c = CHOOSE at : Is(at)
  BY DEF ListStored
<1>5. s \in X
  BY DEF AnyTable, Good
<1>. HIDE DEF X, step, c
<1>6. PICK g \in [0 .. n -> X] : g[0] = s /\ \A i \in 1 .. n : g[i] = step[i][g[i - 1]]
  <2>1. Defined(X, s, n, step)
    BY <1>1, <1>3, <1>5, Recursion
  <2>. QED  BY <2>1 DEF Defined
<1>7. Is(g)
  <2>1. \A i \in 1 .. n : i - 1 \in 0 .. n
    BY <1>1
  <2>2. \A i \in 1 .. n : g[i] = SetNum(n, v, g[i - 1], i)
    BY <1>3, <1>6, <2>1
  <2>. QED  BY <1>1, <1>6, <2>2
<1>8. Is(c)
  <2>. HIDE DEF Is
  <2>. QED  BY <1>4, <1>7
<1>9. c[0] = s /\ \A i \in 1 .. n : c[i] = SetNum(n, v, c[i - 1], i)
  BY <1>1, <1>8
<1>10. \A i \in 1 .. n : c[i - 1] \in X => c[i] = step[i][c[i - 1]]
  BY <1>3, <1>9
<1>11. \A i \in 0 .. n : c[i] \in X
  <2>1. step \in [1 .. n -> [X -> X]] /\ n \in Nat
    BY <1>1, <1>3
  <2>2. Follows(X, s, n, step, c)
    BY <1>9, <1>10 DEF Follows
  <2>. QED  BY <1>5, <2>1, <2>2, LoopStays
<1>. QED  BY <1>1, <1>9, <1>11 DEF X, c, AnyTable, ListRun

(* traversetable marks the keys of empty nodes.                            *)
Marked(tab) ==
  [tab EXCEPT !.node = [i \in DOMAIN @ |-> IF @[i].val = Nil /\ @[i].key \in Collectable
                                          THEN [@[i] EXCEPT !.dead = TRUE] ELSE @[i]]]

Unused(nd, p) == nd[p].val = Nil /\ nd[p].key \in Collectable

(* Nothing but that is changed.                                            *)
OnlyMarked(tab, r) ==
  /\ r.array = tab.array /\ r.lsizenode = tab.lsizenode /\ r.dummy = tab.dummy
  /\ r.overflow = tab.overflow /\ DOMAIN r.node = DOMAIN tab.node
  /\ \A p \in DOMAIN tab.node :
        /\ r.node[p].key = tab.node[p].key /\ r.node[p].next = tab.node[p].next
        /\ r.node[p].val = tab.node[p].val
        /\ (r.node[p].dead <=> tab.node[p].dead \/ Unused(tab.node, p))

(* The collector marks dead the keys of empty nodes and keeps a table good. *)
LEMMA MarkedGood ==
  ASSUME TableAssumption, NEW h \in Hashes, NEW tab, Good(h, tab)
  PROVE  /\ Good(h, Marked(tab)) /\ Keeps(tab, Marked(tab))
         /\ OnlyMarked(tab, Marked(tab))
<1>. DEFINE nd == tab.node
            D == Positions(tab)
            Empty(p) == nd[p].val = Nil /\ nd[p].key \in Collectable
            r == [p \in D |-> IF Empty(p) THEN [nd[p] EXCEPT !.dead = TRUE] ELSE nd[p]]
<1>1. /\ NoNode \notin D /\ nd \in [D -> Records(D)] /\ DOMAIN nd = D /\ tab \in Tables
      /\ Sound(nd, Main(h, tab)) /\ sizenode(tab) \in Nat
  BY GoodIs DEF Good
<1>2. Marked(tab) = With(tab, r, tab.lastfree)
  <2>. DEFINE w == With(tab, nd, tab.lastfree)
  <2>1. Marked(tab) = [tab EXCEPT !.node = r]
    BY <1>1 DEF Marked
  <2>2. tab = w
    BY <1>1, IsRecord
  <2>. HIDE DEF r
  <2>3. [w EXCEPT !.node = r] = With(tab, r, tab.lastfree)
    BY DEF With
  <2>. HIDE DEF w
  <2>. QED  BY <2>1, <2>2, <2>3
<1>3. \A p \in D : /\ r[p] \in Records(D) /\ r[p].next = nd[p].next /\ r[p].key = nd[p].key
                   /\ r[p].val = nd[p].val /\ (r[p].dead <=> nd[p].dead \/ Empty(p))
  <2>. SUFFICES ASSUME NEW p \in D
                PROVE  /\ r[p] \in Records(D) /\ r[p].next = nd[p].next /\ r[p].key = nd[p].key
                       /\ r[p].val = nd[p].val /\ (r[p].dead <=> nd[p].dead \/ Empty(p))
    OBVIOUS
  <2>1. nd[p] \in Records(D) /\ nd[p].dead \in BOOLEAN
    BY <1>1 DEF Records
  <2>2. CASE Empty(p)
    BY <2>1, <2>2 DEF Records
  <2>3. CASE ~Empty(p)
    BY <2>1, <2>3
  <2>. QED  BY <2>2, <2>3
<1>4. DOMAIN r = D /\ r \in [D -> Records(D)]
  BY <1>3
<1>. HIDE DEF r
<1>5. NodesTrue(r)
  <2>1. Nil \notin Collectable
    BY DEF TableAssumption
  <2>2. ASSUME NEW p \in D, r[p].key = Nil PROVE Alone(r, p) /\ r[p].val = Nil /\ ~r[p].dead
    <3>1. Alone(nd, p) /\ nd[p].val = Nil /\ ~nd[p].dead /\ nd[p].key = Nil
      BY <1>1, <1>3, <2>2 DEF Sound, NodesTrue
    <3>2. r[p].val = Nil /\ ~r[p].dead
      BY <1>3, <2>1, <3>1
    <3>. QED  BY <1>1, <1>3, <1>4, <3>1, <3>2 DEF Alone
  <2>3. ASSUME NEW p \in D, r[p].dead PROVE r[p].val = Nil /\ r[p].key \in Collectable
    BY <1>1, <1>3, <2>3 DEF Sound, NodesTrue
  <2>. QED  BY <1>4, <2>2, <2>3 DEF NodesTrue
<1>6. Sound(r, Main(h, tab))
  BY <1>1, <1>3, <1>4, <1>5, SameKeys
<1>7. Good(h, With(tab, r, tab.lastfree))
  BY <1>1, <1>3, <1>4, <1>6, WithGood DEF Good, FreeBefore
<1>8. OnlyMarked(tab, With(tab, r, tab.lastfree))
  BY <1>1, <1>3, <1>4 DEF OnlyMarked, With, Unused
<1>. QED  BY <1>1, <1>2, <1>3, <1>4, <1>7, <1>8 DEF Keeps, With

(* The values of a table are of its type.                                  *)
LEMMA GetIs ==
  ASSUME TableAssumption, hash \in Hashes, NEW tab, Good(hash, tab), NEW k \in Key
  PROVE  Get(tab, k) \in Slots /\ (Get(tab, k) # Nil => HasSlot(tab, k))
<1>1. CASE InArray(tab, k)
  <2>1. tab.array \in Seq(Slots) /\ Index[k] \in DOMAIN tab.array
    BY <1>1 DEF Good, Tables, InArray
  <2>. QED  BY <1>1, <2>1 DEF Get, HasSlot
<1>2. CASE ~InArray(tab, k) /\ NodeOf(tab, k) = NoNode
  BY <1>2 DEF Get, Slots
<1>3. CASE ~InArray(tab, k) /\ NodeOf(tab, k) # NoNode
  <2>1. NodeOf(tab, k) \in Positions(tab) /\ tab.node \in [Positions(tab) -> Records(Positions(tab))]
    BY <1>3, Finds, GoodIs DEF IsNodeOf
  <2>2. tab.node[NodeOf(tab, k)].val \in Slots
    BY <2>1 DEF Records, Slots
  <2>. QED  BY <1>3, <2>2 DEF Get, HasSlot
<1>. QED  BY <1>1, <1>2, <1>3

(* A key that luaH_next can be given: findindex finds it.                  *)
Known(tab, k) == k # Nil => InArray(tab, k) \/ \E p \in DOMAIN tab.node : tab.node[p].key = k

(* A key a good table has had since the walk began is found by findindex. *)
LEMMA KnownFound ==
  ASSUME TableAssumption, hash \in Hashes, NEW tab, Good(hash, tab),
         NEW k \in Key \cup {Nil}, Known(tab, k)
  PROVE  KeyFound(tab, k)
<1>. SUFFICES ASSUME k # Nil, ~InArray(tab, k) PROVE findnode(tab, k) # NoNode
  BY DEF KeyFound
<1>. DEFINE P == {i \in Positions(tab) :
                    /\ tab.node[i].key = k
                    /\ tab.node[i].dead => k \in Collectable}
            m == mainposition(tab, k)
<1>1. Linked(tab) /\ DOMAIN tab.node = Positions(tab) /\ NoNode \notin Positions(tab)
  BY GoodIs DEF Linked
<1>2. m = Main(hash, tab)[k] /\ m \in Positions(tab)
  BY GoodIs, MainIs
<1>3. PICK p \in P : TRUE
  BY <1>1 DEF Known, Good, Sound, NodesTrue
<1>4. Reach(tab.node, m, p)
  BY <1>1, <1>2, <1>3 DEF Good, Sound, Reached
<1>5. findnode(tab, k) = FirstInChain(tab, k, P)
  BY DEF findnode
<1>6. P \in SUBSET Positions(tab)
  OBVIOUS
<1>. HIDE DEF P
<1>7. IsFirst(tab, m, P, findnode(tab, k))
  BY <1>1, <1>2, <1>5, <1>6, FirstIs
<1>. QED  BY <1>1, <1>3, <1>4, <1>6, <1>7 DEF IsFirst

-----------------------------------------------------------------------------
(* The inductive invariant, with the state as parameters.                  *)
State(h, tab, f, w, c, s) ==
  /\ h \in Hashes /\ Good(h, tab) /\ f \in [Key -> Slots]
  /\ w \in BOOLEAN /\ c \in Key \cup {Nil} /\ s \subseteq Key
  /\ w => Known(tab, c)

TableInv == State(hash, t, fields, walking, cur, seen)

(* A table without a field.                                                *)
Vacant(tab) == /\ \A i \in DOMAIN tab.array : tab.array[i] = Nil
               /\ \A p \in DOMAIN tab.node : tab.node[p] = FreeNode
               /\ ~tab.overflow

(* luaH_new                                                                *)
LEMMA InitGood ==
  ASSUME TableAssumption, NEW h \in Hashes, NEW narray \in Nat, NEW nhash \in Nat
  PROVE  Good(h, luaH_new(narray, nhash)) /\ Vacant(luaH_new(narray, nhash))
<1>. DEFINE base == setarrayvector(NoTable, narray)
            a == <<>> \o NilSlots(narray)
<1>1. NoTable \in Tables
  <2>1. [i \in {0} |-> FreeNode] \in Vectors
    <3>1. {0} = 0 .. 1 - 1
      OBVIOUS
    <3>2. FreeNode \in Records({0})
      BY DEF FreeNode, Records
    <3>3. [i \in {0} |-> FreeNode] \in [0 .. 1 - 1 -> Records(0 .. 1 - 1)]
      BY <3>1, <3>2
    <3>. DEFINE All == {[0 .. n - 1 -> Records(0 .. n - 1)] : n \in Nat}
                one == [0 .. 1 - 1 -> Records(0 .. 1 - 1)]
    <3>4. one \in All
      OBVIOUS
    <3>. HIDE DEF All, one
    <3>5. [i \in {0} |-> FreeNode] \in UNION All
      BY <3>3, <3>4 DEF one
    <3>. QED  BY <3>5 DEF Vectors, All
  <2>2. <<>> \in Seq(Slots)
    OBVIOUS
  <2>. QED  BY <2>1, <2>2 DEF NoTable, Tables
<1>2. a \in Seq(Slots) /\ DOMAIN a = 1 .. narray /\ \A i \in 1 .. narray : a[i] = Nil
  <2>1. NilSlots(narray) \in Seq(Slots) /\ Len(NilSlots(narray)) = narray
    BY DEF NilSlots, Slots
  <2>2. a = NilSlots(narray)
    BY <2>1
  <2>. QED  BY <2>1, <2>2 DEF NilSlots
<1>3. base = [NoTable EXCEPT !.array = a]
  <2>1. NoTable.array = <<>> /\ Len(<<>>) = 0 /\ narray - 0 = narray
    BY DEF NoTable
  <2>2. base = [NoTable EXCEPT !.array = NoTable.array \o NilSlots(narray - Len(NoTable.array))]
    BY DEF setarrayvector
  <2>. QED  BY <2>1, <2>2
<1>. HIDE DEF a, base
<1>4. base \in Tables /\ base.array = a
  BY <1>1, <1>2, <1>3 DEF Tables
<1>5. ArrayKeys(base)
  BY <1>2, <1>4 DEF ArrayKeys
<1>6. ~base.overflow
  BY <1>3 DEF NoTable
<1>7. luaH_new(narray, nhash) = setnodevector(base, nhash)
  BY DEF luaH_new, base
<1>8. /\ Good(h, setnodevector(base, nhash)) /\ setnodevector(base, nhash).array = a
      /\ Emptied(base, setnodevector(base, nhash), nhash)
  BY <1>4, <1>5, SizedGood
<1>9. Vacant(setnodevector(base, nhash))
  BY <1>2, <1>6, <1>8 DEF Vacant, Emptied
<1>. QED  BY <1>7, <1>8, <1>9

(* A table that keeps its keys still knows those it knew.                  *)
LEMMA StillKnown ==
  ASSUME NEW tab, NEW r, Keeps(tab, r), NEW k, Known(tab, k)
  PROVE  Known(r, k)
BY DEF Keeps, Known, InArray

(* t[k] = v                                                                *)
LEMMA PutKeeps ==
  ASSUME TableAssumption, TableInv, NEW k \in Key, NEW v \in Slots, Put(k, v)
  PROVE  State(hash, t', fields', walking', cur, seen)
<1>. DEFINE r == SetSlot(t, k)
            s == Store(r, k, v)
<1>1. hash \in Hashes /\ Good(hash, t) /\ walking \in BOOLEAN
  BY DEF TableInv, State
<1>2. Good(hash, r) /\ (HasSlot(t, k) => r = t)
  BY <1>1, SetSlotGood
<1>. HIDE DEF r
<1>3. Good(hash, s) /\ Keeps(r, s)
  BY <1>1, <1>2, StoreGood
<1>. HIDE DEF s
<1>4. [j \in Key |-> Get(s, j)] \in [Key -> Slots]
  BY <1>1, <1>3, GetIs
<1>5. /\ t' = s /\ fields' = [j \in Key |-> Get(s, j)]
      /\ walking' = (walking /\ Get(t, k) # Nil)
  BY DEF Put, Become, r, s
<1>6. walking' \in BOOLEAN /\ (walking' => walking /\ HasSlot(t, k))
  BY <1>1, <1>5, GetIs
<1>7. walking' => Known(s, cur)
  BY <1>2, <1>3, <1>6, StillKnown DEF TableInv, State
<1>. QED  BY <1>1, <1>3, <1>4, <1>5, <1>6, <1>7 DEF TableInv, State

(* OP_SETLIST                                                              *)
LEMMA SetListKeeps ==
  ASSUME TableAssumption, TableInv, NEW n \in Lists, NEW v \in Slots, SetList(n, v)
  PROVE  State(hash, t', fields', walking, cur, seen)
<1>. DEFINE nodes == IF t.dummy THEN 0 ELSE sizenode(t)
            enough == IF n > Len(t.array) THEN resize(t, n, nodes) ELSE t
            s == ListStored(n, v, enough)[n]
<1>1. hash \in Hashes /\ Good(hash, t) /\ n \in Nat
  BY DEF TableInv, State, TableAssumption
<1>2. nodes \in Nat
  BY <1>1, GoodIs
<1>. HIDE DEF nodes
<1>3. Good(hash, enough)
  BY <1>1, <1>2, ResizeGood
<1>. HIDE DEF enough
<1>4. Good(hash, s)
  <2>1. n \in 0 .. n
    BY <1>1
  <2>. QED  BY <1>1, <1>3, <2>1, ListGood
<1>5. t' = s /\ fields' = [j \in Key |-> Get(s, j)] /\ ~walking
  BY DEF SetList, Become, Loop, ListStored, SetNum, enough, nodes
<1>. HIDE DEF s
<1>6. [j \in Key |-> Get(s, j)] \in [Key -> Slots]
  BY <1>1, <1>4, GetIs
<1>. QED  BY <1>1, <1>4, <1>5, <1>6 DEF TableInv, State

(* traversetable                                                           *)
LEMMA CollectKeeps ==
  ASSUME TableAssumption, TableInv, Collect
  PROVE  State(hash, t', fields', walking, cur, seen)
<1>1. hash \in Hashes /\ Good(hash, t)
  BY DEF TableInv, State
<1>. DEFINE s == Marked(t)
<1>2. Good(hash, s) /\ Keeps(t, s)
  BY <1>1, MarkedGood
<1>3. t' = s /\ fields' = [j \in Key |-> Get(s, j)]
  BY DEF Collect, Become, Marked
<1>. HIDE DEF s
<1>4. [j \in Key |-> Get(s, j)] \in [Key -> Slots]
  BY <1>1, <1>2, GetIs
<1>5. walking => Known(s, cur)
  BY <1>2, StillKnown DEF TableInv, State
<1>. QED  BY <1>1, <1>2, <1>3, <1>4, <1>5 DEF TableInv, State

(* findindex gives -1 or an index of the table.                            *)
LEMMA IndexIs ==
  ASSUME TableAssumption, hash \in Hashes, NEW tab, Good(hash, tab), NEW k \in Key \cup {Nil}
  PROVE  findindex(tab, k) \in Int /\ findindex(tab, k) >= -1
<1>. DEFINE a == Len(tab.array)
<1>1. tab.array \in Seq(Slots) /\ Linked(tab) /\ sizenode(tab) \in Nat
  BY GoodIs DEF Good, Tables
<1>2. a \in Nat /\ Positions(tab) = 0 .. sizenode(tab) - 1
  BY <1>1 DEF Positions
<1>3. CASE k = Nil
  BY <1>3 DEF findindex
<1>4. CASE k # Nil /\ InArray(tab, k)
  BY <1>2, <1>4 DEF findindex, InArray
<1>5. CASE k # Nil /\ ~InArray(tab, k)
  <2>. DEFINE P == {j \in Positions(tab) : /\ tab.node[j].key = k
                                           /\ tab.node[j].dead => k \in Collectable}
  <2>1. findindex(tab, k) = FirstInChain(tab, k, P) + a
    BY <1>5 DEF findindex, findnode
  <2>2. mainposition(tab, k) \in Positions(tab)
    BY <1>5, GoodIs, MainIs
  <2>3. P \in SUBSET Positions(tab)
    OBVIOUS
  <2>. HIDE DEF P
  <2>4. FirstInChain(tab, k, P) \in Positions(tab) \cup {NoNode}
    BY <1>1, <2>2, <2>3, FirstIs DEF IsFirst
  <2>. QED  BY <1>1, <1>2, <2>1, <2>4 DEF NoNode
<1>. QED  BY <1>3, <1>4, <1>5

(* luaH_next returns a key of the table.                                   *)
LEMMA VisitKeeps ==
  ASSUME TableAssumption, TableInv, Visit
  PROVE  State(hash, t, fields, walking, cur', seen')
<1>. DEFINE i == Min(Following(t, cur))
            k == KeyAtIndex(t, i)
            a == Len(t.array)
            n == sizenode(t)
<1>1. hash \in Hashes /\ Good(hash, t) /\ seen \subseteq Key /\ cur \in Key \cup {Nil} /\ walking
  BY DEF TableInv, State, Visit
<1>2. /\ t.array \in Seq(Slots) /\ a \in Nat /\ n \in Nat /\ Linked(t) /\ ArrayKeys(t)
      /\ DOMAIN t.node = Positions(t) /\ Positions(t) = 0 .. n - 1
      /\ t.node \in [Positions(t) -> Records(Positions(t))]
  <2>1. t.array \in Seq(Slots) /\ ArrayKeys(t) /\ DOMAIN t.node = Positions(t)
    BY <1>1 DEF Good, Tables
  <2>2. n \in Nat /\ Linked(t) /\ t.node \in [Positions(t) -> Records(Positions(t))]
    BY <1>1, GoodIs
  <2>3. a \in Nat
    BY <2>1
  <2>. QED  BY <2>1, <2>2, <2>3 DEF Positions
<1>3. findindex(t, cur) \in Int /\ findindex(t, cur) >= -1
  BY <1>1, IndexIs
<1>4. i \in Following(t, cur)
  <2>1. Following(t, cur) \in SUBSET Nat
    BY <1>2, <1>3 DEF Following
  <2>. QED  BY <2>1, Smallest DEF Visit
<1>. HIDE DEF i
<1>5. i \in Nat /\ i < a + n
  BY <1>2, <1>3, <1>4 DEF Following
<1>6. k \in Key /\ Known(t, k)
  <2>1. CASE i < a
    <3>1. t.array[i + 1] # Nil /\ i + 1 \in DOMAIN t.array /\ k = KeyAt(i + 1)
      BY <1>2, <1>4, <1>5, <2>1 DEF Following, KeyAtIndex
    <3>2. KeyAt(i + 1) \in Key /\ Index[KeyAt(i + 1)] = i + 1
      BY <1>2, <3>1 DEF ArrayKeys, KeyAt
    <3>3. InArray(t, k)
      BY <1>2, <1>5, <2>1, <3>1, <3>2 DEF InArray
    <3>. QED  BY <3>1, <3>2, <3>3 DEF Known
  <2>2. CASE ~(i < a)
    <3>. DEFINE p == i - a
    <3>1. p \in Positions(t) /\ t.node[p].val # Nil /\ k = t.node[p].key
      BY <1>2, <1>4, <1>5, <2>2 DEF Following, KeyAtIndex
    <3>. HIDE DEF p
    <3>2. k \in Key
      BY <1>1, <1>2, <3>1 DEF Good, Sound, NodesTrue, Records
    <3>. QED  BY <1>2, <3>1, <3>2 DEF Known
  <2>. QED  BY <2>1, <2>2
<1>7. cur' = k /\ seen' = seen \cup {k}
  BY DEF Visit, i
<1>. HIDE DEF k
<1>. QED  BY <1>1, <1>6, <1>7 DEF TableInv, State

(* Every step keeps the invariant.                                         *)
THEOREM TableInvariant == Spec => []TableInv
<1>1. Init => TableInv
  <2>. SUFFICES ASSUME Init PROVE TableInv
    OBVIOUS
  <2>1. PICK narray \in ArraySizes, nhash \in NodeSizes : t = luaH_new(narray, nhash)
    BY DEF Init
  <2>2. hash \in Hashes /\ narray \in Nat /\ nhash \in Nat
    BY TableAssumption DEF Init, TableAssumption
  <2>3. Good(hash, t)
    BY <2>1, <2>2, InitGood, TableAssumption
  <2>4. fields \in [Key -> Slots] /\ walking = FALSE /\ cur = Nil /\ seen = {}
    BY DEF Init, Slots
  <2>. QED  BY <2>2, <2>3, <2>4 DEF TableInv, State
<1>2. TableInv /\ [Next]_vars => TableInv'
  <2>. SUFFICES ASSUME TableInv, [Next]_vars
                PROVE  State(hash', t', fields', walking', cur', seen')
    BY DEF TableInv
  <2>1. ASSUME NEW k \in Key, NEW v \in Slots, Put(k, v)
        PROVE  State(hash', t', fields', walking', cur', seen')
    BY <2>1, PutKeeps, TableAssumption DEF Put
  <2>2. ASSUME NEW n \in Lists, NEW v \in Slots, SetList(n, v)
        PROVE  State(hash', t', fields', walking', cur', seen')
    BY <2>2, SetListKeeps, TableAssumption DEF SetList, walk
  <2>3. CASE Collect
    BY <2>3, CollectKeeps, TableAssumption DEF Collect, walk
  <2>4. CASE Begin
    BY <2>4 DEF Begin, table, TableInv, State, Known
  <2>5. CASE Visit
    BY <2>5, VisitKeeps, TableAssumption DEF Visit, table
  <2>6. CASE Finish
    BY <2>6 DEF Finish, table, TableInv, State
  <2>7. CASE UNCHANGED vars
    BY <2>7 DEF vars, TableInv
  <2>. QED  BY <2>1, <2>2, <2>3, <2>4, <2>5, <2>6, <2>7 DEF Next, Slots
<1>. QED  BY <1>1, <1>2, PTL DEF Spec

(* The calls of luaH_next are counted.                                     *)
CountOK == visits \in Nat

LEMMA VisitsCounted == Spec => []CountOK
<1>1. Init => CountOK
  BY DEF Init, CountOK
<1>2. CountOK /\ [Next]_vars => CountOK'
  <2>. SUFFICES ASSUME visits \in Nat, [Next]_vars PROVE visits' \in Nat
    BY DEF CountOK
  <2>1. visits' \in {visits, 0, visits + 1}
    BY Zenon DEF Next, Put, SetList, Collect, Begin, Visit, Finish, walk, vars
  <2>. QED  BY <2>1
<1>. QED  BY <1>1, <1>2, PTL DEF Spec

(* The table has its type, for any number of nodes.                        *)
THEOREM TableTypes == Spec => []TypeOK
<1>1. TableInv /\ CountOK => TypeOK
  <2>. SUFFICES ASSUME TableInv, CountOK PROVE TypeOK
    OBVIOUS
  <2>1. Good(hash, t) /\ hash \in Hashes
    BY DEF TableInv, State
  <2>2. t.node \in [Positions(t) -> Records(Positions(t))]
    BY <2>1, GoodIs, TableAssumption
  <2>3. t.array \in Seq(Slots) /\ t.lsizenode \in Nat /\ t.dummy \in BOOLEAN /\ t.overflow \in BOOLEAN
    BY <2>1 DEF Good, Tables
  <2>4. DOMAIN t.node = Positions(t) /\ t.lastfree \in 0 .. sizenode(t)
    BY <2>1 DEF Good
  <2>. QED  BY <2>2, <2>3, <2>4 DEF TypeOK, TableInv, State, Slots, Records, CountOK
<1>. QED  BY <1>1, TableInvariant, VisitsCounted, PTL

(* If an element is not in its main position, the one there is in its own. *)
THEOREM MainPositionsKept == Spec => []MainPositions
<1>1. TableInv => MainPositions
  <2>. SUFFICES ASSUME TableInv, NEW i \in Positions(t), t.node[i].val # Nil,
                       t.node[mainposition(t, t.node[i].key)].val # Nil
                PROVE  mainposition(t, t.node[mainposition(t, t.node[i].key)].key)
                         = mainposition(t, t.node[i].key)
    BY DEF MainPositions
  <2>. DEFINE main == Main(hash, t)
  <2>1. Good(hash, t) /\ hash \in Hashes /\ Sound(t.node, main) /\ DOMAIN t.node = Positions(t)
    BY DEF TableInv, State, Good
  <2>2. t.node[i].key \in Key /\ t.node[i].key # Nil
    BY <2>1, TableAssumption DEF Sound, NodesTrue, Records, TableAssumption
  <2>3. mainposition(t, t.node[i].key) = main[t.node[i].key]
    BY <2>2, MainIs
  <2>. DEFINE m == main[t.node[i].key]
  <2>4. m \in DOMAIN t.node /\ t.node[m].key # Nil /\ main[t.node[m].key] = m
    BY <2>1, <2>2 DEF Sound, AtHome
  <2>5. t.node[m].key \in Key
    BY <2>1, <2>4 DEF Sound, NodesTrue, Records
  <2>. QED  BY <2>3, <2>4, <2>5, MainIs
<1>. QED  BY <1>1, TableInvariant, PTL

(* Every search of a chain ends.                                           *)
THEOREM SearchesEnd == Spec => []ChainsEnd
<1>1. TableInv => ChainsEnd
  BY GoodIs, ChainStops, TableAssumption DEF TableInv, State, ChainsEnd
<1>. QED  BY <1>1, TableInvariant, PTL

(* No free position is passed over.                                        *)
THEOREM LastFreeKept == Spec => []FreeBeforeLast
<1>1. TableInv => FreeBeforeLast
  BY DEF TableInv, State, Good, FreeBefore, FreeBeforeLast
<1>. QED  BY <1>1, TableInvariant, PTL

(* luaH_next knows the key it gave.                                        *)
THEOREM NextNeverFails == Spec => []KeyStillFound
<1>1. TableInv => KeyStillFound
  BY KnownFound, TableAssumption DEF TableInv, State, KeyStillFound
<1>. QED  BY <1>1, TableInvariant, PTL

=============================================================================
