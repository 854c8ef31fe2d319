------------------------------ MODULE LuaTable ------------------------------
(***************************************************************************)
(* A table of ltable.cpp: an array part, and nodes in a chained scatter    *)
(* table with Brent's variation.  One thread changes it, the collector     *)
(* marks keys of empty nodes dead between any two steps.  A key stands for *)
(* a value of any type but nil and NaN: for an object it is its address.   *)
(***************************************************************************)
EXTENDS Integers, Sequences, FiniteSets, FiniteSetsExt

CONSTANTS Key, Values, Nil,
          Index,      \* Index[k]: k as an int, 0 when it is not one
          Masked,     \* the keys hashed by lmod: strings and booleans
          Collectable,  \* strings and the keys that are other objects
          Hashes,     \* the hash functions to choose from
          ArraySizes, NodeSizes,  \* arguments of luaH_new
          Lists,      \* how many values OP_SETLIST stores at once
          MAX_INT

NoNode == -1                     \* nullptr

ASSUME TableAssumption ==
    /\ Nil \notin Key \cup Values
    /\ Index \in [Key -> Nat]
    /\ \A k, l \in Key : Index[k] = Index[l] /\ Index[k] > 0 => k = l
    /\ \A k \in Masked \cup Collectable : Index[k] = 0
    /\ Masked \subseteq Key /\ Collectable \subseteq Key
    /\ Hashes \subseteq [Key -> Nat]
    /\ ArraySizes \subseteq Nat /\ NodeSizes \subseteq Nat
    /\ Lists \subseteq Nat /\ MAX_INT \in Nat
    /\ \A n \in Lists : \A i \in 1..n : \E k \in Key : Index[k] = i

VARIABLES t,        \* the table
          fields,   \* ghost: what luaH_get returns for each key
          hash,     \* hash[k]: what is reduced modulo the number of nodes
          walking,  \* the program holds a key for its next call of luaH_next
          cur,      \* that key
          seen,     \* ghost: the keys luaH_next has returned in this traversal
          visits    \* ghost: how many times it has returned one

vars == <<t, fields, hash, walking, cur, seen, visits>>
table == <<t, fields>>
walk == <<walking, cur, seen, visits>>

(***************************************************************************)
(* Sizes and main positions.                                               *)
(***************************************************************************)
FreeNode == [key |-> Nil, dead |-> FALSE, val |-> Nil, next |-> NoNode]

ceillog2(n) == CHOOSE l \in 0..n : 2^l >= n /\ \A m \in 0..l - 1 : 2^m < n

sizenode(tab) == 2^tab.lsizenode

Positions(tab) == 0..sizenode(tab) - 1

setnodevector(tab, size) ==
    LET l == IF size = 0 THEN 0 ELSE ceillog2(size)
    IN  [tab EXCEPT !.lsizenode = l,
                    !.dummy = (size = 0),
                    !.node = [i \in 0..2^l - 1 |-> FreeNode],
                    !.lastfree = IF size = 0 THEN 0 ELSE 2^l]

\* Mutant: new slots keep whatever the memory held
GarbageSlots(n) == [i \in 1..n |-> NoNode]

NilSlots(n) == [i \in 1..n |-> Nil]

setarrayvector(tab, n) ==
    [tab EXCEPT !.array = @ \o NilSlots(n - Len(tab.array))]

\* lmod, or a remainder that is not a power of two
mainposition(tab, k) ==
    IF k \in Masked THEN hash[k] % sizenode(tab)
    ELSE hash[k] % (IF tab.lsizenode = 0 THEN 1 ELSE sizenode(tab) - 1)

\* The positions along `next' from i, then NoNode; as many as there are nodes and one
Chain(tab, i) ==
    LET succ == [p \in Positions(tab) \cup {NoNode} |->
                    IF p = NoNode THEN NoNode ELSE tab.node[p].next]
        at[n \in 0..sizenode(tab)] == IF n = 0 THEN i ELSE succ[at[n - 1]]
    IN  at

\* The first position of P in the chain of k, or NoNode
FirstInChain(tab, k, P) ==
    LET c == Chain(tab, mainposition(tab, k))
        hits == {n \in DOMAIN c : c[n] \in P}
    IN  IF hits = {} THEN NoNode ELSE c[Min(hits)]

(***************************************************************************)
(* luaH_get                                                                *)
(***************************************************************************)
InArray(tab, k) == Index[k] \in 1..Len(tab.array)

NodeOf(tab, k) ==
    FirstInChain(tab, k, {i \in Positions(tab) : tab.node[i].key = k /\ ~tab.node[i].dead})

HasSlot(tab, k) == InArray(tab, k) \/ NodeOf(tab, k) # NoNode

Get(tab, k) == IF InArray(tab, k) THEN tab.array[Index[k]]
               ELSE IF NodeOf(tab, k) = NoNode THEN Nil
               ELSE tab.node[NodeOf(tab, k)].val

\* An assignment through the slot that luaH_get found
Store(tab, k, v) ==
    IF InArray(tab, k) THEN [tab EXCEPT !.array[Index[k]] = v]
    ELSE [tab EXCEPT !.node[NodeOf(tab, k)].val = v]

(***************************************************************************)
(* newkey                                                                  *)
(***************************************************************************)
MainFree(tab, k) == /\ ~tab.dummy
                    /\ tab.node[mainposition(tab, k)].val = Nil

\* Mutant: free places are taken from the front
FirstFree(tab) ==
    LET free == {i \in Positions(tab) : i < tab.lastfree /\ tab.node[i].key = Nil}
    IN  IF free = {} THEN NoNode ELSE Min(free)

\* The position getfreepos returns, which becomes lastfree
getfreepos(tab) ==
    LET free == {i \in Positions(tab) : i < tab.lastfree /\ tab.node[i].key = Nil}
    IN  IF free = {} THEN NoNode ELSE Max(free)

HasRoom(tab, k) == MainFree(tab, k) \/ getfreepos(tab) # NoNode

Occupy(tab, i, k, next) ==
    [tab EXCEPT !.node[i] = [key |-> k, dead |-> FALSE, val |-> Nil, next |-> next]]

\* The colliding node moves to the free position n, the new key takes its place
MoveColliding(tab, mp, n, k) ==
    LET prev == FirstInChain(tab, tab.node[mp].key,
                             {i \in Positions(tab) : tab.node[i].next = mp})
        moved == [tab EXCEPT !.node[prev].next = n, !.node[n] = tab.node[mp]]
    IN  Occupy(moved, mp, k, NoNode)

\* Mutant: the two assignments in the other order
ChainSwapped(tab, mp, n, k) == Occupy([tab EXCEPT !.node[mp].next = n], n, k, n)

\* Mutant: the new node is chained last
ChainLast(tab, mp, n, k) ==
    LET c == Chain(tab, mp)
        last == c[Max({j \in DOMAIN c : c[j] # NoNode})]
    IN  Occupy([tab EXCEPT !.node[last].next = n], n, k, NoNode)

\* The new key goes to the free position n, next in the chain after mp
ChainAfter(tab, mp, n, k) ==
    Occupy([tab EXCEPT !.node[mp].next = n], n, k, tab.node[mp].next)

\* Mutant: a colliding node is never moved
NeverMove(tab, k) ==
    LET mp == mainposition(tab, k)
        n == getfreepos(tab)
    IN  IF MainFree(tab, k) THEN Occupy(tab, mp, k, tab.node[mp].next)
        ELSE ChainAfter([tab EXCEPT !.lastfree = n], mp, n, k)

Insert(tab, k) ==
    LET mp == mainposition(tab, k)
        n == getfreepos(tab)
        rest == [tab EXCEPT !.lastfree = n]
    IN  IF MainFree(tab, k) THEN Occupy(tab, mp, k, tab.node[mp].next)
        ELSE IF mainposition(tab, tab.node[mp].key) # mp
             THEN MoveColliding(rest, mp, n, k)
             ELSE ChainAfter(rest, mp, n, k)

(***************************************************************************)
(* rehash and resize                                                       *)
(***************************************************************************)
\* s = F(s, i) for i = 1, 2 .. n
Loop(F(_, _), s, n) ==
    LET after[i \in 0..n] == IF i = 0 THEN s ELSE F(after[i - 1], i)
    IN  after[n]

\* setobjt2t(luaH_set(k), v) into a table that is being filled
Reinsert(tab, k, v) ==
    IF HasSlot(tab, k) THEN Store(tab, k, v)
    ELSE IF HasRoom(tab, k) THEN Store(Insert(tab, k), k, v)
    ELSE [tab EXCEPT !.overflow = TRUE]     \* the code would rehash again

KeyAt(i) == CHOOSE k \in Key : Index[k] = i

resize(tab, nasize, nhsize) ==
    LET old == Len(tab.array)
        kept == [tab EXCEPT !.array = SubSeq(@, 1, nasize)]
        sized == setnodevector(IF nasize > old THEN setarrayvector(tab, nasize) ELSE kept,
                               nhsize)
        FromSlice(s, i) == IF i <= nasize \/ tab.array[i] = Nil THEN s
                           ELSE Reinsert(s, KeyAt(i), tab.array[i])
        FromNode(s, i) == LET n == tab.node[sizenode(tab) - i]
                          IN  IF n.val = Nil THEN s ELSE Reinsert(s, n.key, n.val)
    IN  Loop(FromNode, Loop(FromSlice, sized, old), sizenode(tab))

\* numusearray and numusehash: the keys with a value
InUse(tab) == {KeyAt(i) : i \in {j \in DOMAIN tab.array : tab.array[j] # Nil}}
              \cup {n.key : n \in {tab.node[i] : i \in {j \in Positions(tab) :
                                                      tab.node[j].val # Nil}}}

\* The largest power of two with more than half of its slots in use, or zero
computesizes(ints) ==
    LET Upto(n) == Cardinality({k \in ints : Index[k] <= n})
        good == {n \in {2^i : i \in 0..Cardinality(ints)} : Upto(n) > n \div 2}
    IN  IF good = {} THEN 0 ELSE Max(good)

\* Mutant: the extra key is not counted in the hash part
ExtraForgotten(tab, ek) ==
    LET ints == {k \in InUse(tab) \cup {ek} : Index[k] > 0}
        nasize == computesizes(ints)
    IN  resize(tab, nasize, Cardinality(InUse(tab) \ {k \in ints : Index[k] <= nasize}))

rehash(tab, ek) ==
    LET all == InUse(tab) \cup {ek}
        ints == {k \in all : Index[k] > 0}
        nasize == computesizes(ints)
        na == Cardinality({k \in ints : Index[k] <= nasize})
    IN  resize(tab, nasize, Cardinality(all) - na)

\* luaH_set: the table in which k has a slot
SetSlot(tab, k) ==
    IF HasSlot(tab, k) THEN tab
    ELSE IF HasRoom(tab, k) THEN Insert(tab, k)
    ELSE LET r == rehash(tab, k) IN
         IF HasSlot(r, k) THEN r
         ELSE IF HasRoom(r, k) THEN Insert(r, k)
         ELSE [r EXCEPT !.overflow = TRUE]

(***************************************************************************)
(* luaH_next                                                               *)
(***************************************************************************)
\* Mutant: dead keys are not recognized
LiveNode(tab, k) == NodeOf(tab, k)

\* Array slots are numbered from 0, then nodes
findnode(tab, k) ==
    FirstInChain(tab, k, {i \in Positions(tab) :
                            /\ tab.node[i].key = k
                            /\ tab.node[i].dead => k \in Collectable})

KeyFound(tab, k) == k # Nil /\ ~InArray(tab, k) => findnode(tab, k) # NoNode

findindex(tab, k) == IF k = Nil THEN -1
                     ELSE IF InArray(tab, k) THEN Index[k] - 1
                     ELSE findnode(tab, k) + Len(tab.array)

KeyAtIndex(tab, i) == IF i < Len(tab.array) THEN KeyAt(i + 1)
                      ELSE tab.node[i - Len(tab.array)].key

\* Mutant: luaH_next looks at the slot of the key it is given once more
FollowingOrSame(tab, k) ==
    {i \in Max({findindex(tab, k), 0}) .. Len(tab.array) + sizenode(tab) - 1 :
        IF i < Len(tab.array) THEN tab.array[i + 1] # Nil
        ELSE tab.node[i - Len(tab.array)].val # Nil}

\* The indices with a value after that of k
Following(tab, k) ==
    {i \in findindex(tab, k) + 1 .. Len(tab.array) + sizenode(tab) - 1 :
        IF i < Len(tab.array) THEN tab.array[i + 1] # Nil
        ELSE tab.node[i - Len(tab.array)].val # Nil}

(***************************************************************************)
(* luaH_getn                                                               *)
(***************************************************************************)
PresentInt(tab, i) == \E k \in Key : Index[k] = i /\ Get(tab, k) # Nil

\* What a binary search between i and j ends with; every step halves the interval
BinarySearch(tab, i, j) ==
    LET Halve(p, d) == LET m == (p[1] + p[2]) \div 2
                       IN  IF p[2] - p[1] <= 1 THEN p
                           ELSE IF PresentInt(tab, m) THEN <<m, p[2]>> ELSE <<p[1], m>>
    IN  Loop(Halve, <<i, j>>, j - i)[1]

LinearSearch(tab) == Min({n \in 0..Cardinality(InUse(tab)) : ~PresentInt(tab, n + 1)})

unbound_search(tab, j) ==
    LET Probe(n) == (j + 1) * 2^n       \* `j' after it was doubled n times
        Over(n) == n > 0 /\ Probe(n) > MAX_INT
        stop == Min({n \in 0..MAX_INT + 1 : Over(n) \/ ~PresentInt(tab, Probe(n))})
    IN  IF Over(stop) THEN LinearSearch(tab)
        ELSE BinarySearch(tab, IF stop = 0 THEN j ELSE Probe(stop - 1), Probe(stop))

\* Mutant: the last slot of the array part is not looked at
HashOnly(tab) == IF tab.dummy THEN Len(tab.array) ELSE unbound_search(tab, Len(tab.array))

luaH_getn(tab) ==
    LET j == Len(tab.array)
    IN  IF j > 0 /\ tab.array[j] = Nil THEN BinarySearch(tab, 0, j)
        ELSE IF tab.dummy THEN j
        ELSE unbound_search(tab, j)

(***************************************************************************)
(* The specification.                                                      *)
(***************************************************************************)
NoTable == [array |-> <<>>, node |-> [i \in {0} |-> FreeNode], lsizenode |-> 0,
            lastfree |-> 0, dummy |-> TRUE, overflow |-> FALSE]

luaH_new(narray, nhash) == setnodevector(setarrayvector(NoTable, narray), nhash)

Init == /\ \E narray \in ArraySizes, nhash \in NodeSizes : t = luaH_new(narray, nhash)
        /\ hash \in Hashes
        /\ fields = [k \in Key |-> Nil]
        /\ walking = FALSE
        /\ cur = Nil
        /\ seen = {}
        /\ visits = 0

Become(tab) == t' = tab /\ fields' = [k \in Key |-> Get(tab, k)]

\* t[k] = v; the program gives up its traversal when the field is not there
Put(k, v) == /\ Become(Store(SetSlot(t, k), k, v))
             /\ walking' = (walking /\ Get(t, k) # Nil)
             /\ UNCHANGED <<hash, cur, seen, visits>>

\* OP_SETLIST, on a table under construction: n values, from the last one down
SetList(n, v) ==
    LET nodes == IF t.dummy THEN 0 ELSE sizenode(t)
        enough == IF n > Len(t.array) THEN resize(t, n, nodes) ELSE t
        SetNum(s, i) == LET k == KeyAt(n + 1 - i) IN Store(SetSlot(s, k), k, v)
    IN  /\ ~walking
        /\ Become(Loop(SetNum, enough, n))
        /\ UNCHANGED <<hash, walk>>

\* traversetable on a table whose values it marks
Collect == /\ Become([t EXCEPT !.node =
                   [i \in DOMAIN @ |->
                       IF @[i].val = Nil /\ @[i].key \in Collectable
                       THEN [@[i] EXCEPT !.dead = TRUE] ELSE @[i]]])
           /\ UNCHANGED <<hash, walk>>

Begin == /\ ~walking
         /\ walking' = TRUE
         /\ cur' = Nil
         /\ seen' = {}
         /\ visits' = 0
         /\ UNCHANGED <<table, hash>>

\* luaH_next returns a field
Visit == /\ walking /\ KeyFound(t, cur)
         /\ Following(t, cur) # {}
         /\ LET i == Min(Following(t, cur))
            IN  /\ cur' = KeyAtIndex(t, i)
                /\ seen' = seen \cup {KeyAtIndex(t, i)}
         /\ visits' = visits + 1
         /\ UNCHANGED <<table, hash, walking>>

\* luaH_next returns 0
Finish == /\ walking /\ KeyFound(t, cur)
          /\ Following(t, cur) = {}
          /\ walking' = FALSE
          /\ UNCHANGED <<table, hash, cur, seen, visits>>

Next == \/ \E k \in Key, v \in Values \cup {Nil} : Put(k, v)
        \/ \E n \in Lists, v \in Values \cup {Nil} : SetList(n, v)
        \/ Collect
        \/ Begin
        \/ Visit
        \/ Finish

Spec == Init /\ [][Next]_vars

(***************************************************************************)
(* Properties.                                                             *)
(***************************************************************************)
TypeOK ==
    /\ t.array \in Seq(Values \cup {Nil})
    /\ DOMAIN t.node = Positions(t)
    /\ \A i \in DOMAIN t.node :
          t.node[i] \in [key : Key \cup {Nil}, dead : BOOLEAN, val : Values \cup {Nil},
                        next : Positions(t) \cup {NoNode}]
    /\ t.lsizenode \in Nat /\ t.dummy \in BOOLEAN /\ t.overflow \in BOOLEAN
    /\ t.lastfree \in 0..sizenode(t)
    /\ fields \in [Key -> Values \cup {Nil}]
    /\ hash \in Hashes /\ walking \in BOOLEAN
    /\ cur \in Key \cup {Nil} /\ seen \subseteq Key /\ visits \in Nat

\* ltable.cpp:8-11, "A main invariant of these tables": if an element is not in
\* its main position, the element there is in its own main position.
MainPositions ==
    \A i \in Positions(t) : t.node[i].val # Nil =>
        LET m == t.node[mainposition(t, t.node[i].key)]
        IN  m.val # Nil => mainposition(t, m.key) = mainposition(t, t.node[i].key)

\* The loops of luaH_get, newkey and findindex through `next' end (ltable.cpp:382-387).
ChainsEnd ==
    \A i \in Positions(t) : Chain(t, i)[sizenode(t)] = NoNode

\* Table.lastfree, "any free position is before this position" (lobject.h:313): a
\* node without a key is never passed over, so that a table rehashes only when full.
FreeBeforeLast ==
    \A i \in Positions(t) : t.node[i].key = Nil => t.dummy \/ i < t.lastfree

\* rehash counts right: while resize inserts again what was in the table, and the
\* key that found no place, no insertion looks for a place in vain and rehashes a
\* table that is half filled (ltable.cpp:264, 273, 347).
RoomAfterRehash == ~t.overflow

\* luaH_getn returns what its comment promises (ltable.cpp:498-501), a boundary:
\* t[n] is not nil, or n is 0, and t[n + 1] is nil; whatever was added and removed.
BoundaryFound ==
    LET n == luaH_getn(t)
    IN  (n > 0 => PresentInt(t, n)) /\ ~PresentInt(t, n + 1)

\* luaH_next finds the key it is given, though its field was cleared and its node
\* marked dead since; it never fails with "invalid key to 'next'" (ltable.cpp:118, 128).
KeyStillFound == walking => KeyFound(t, cur)

\* The table is a map and its traversal meets every field once: nothing is lost,
\* doubled or exchanged by collisions, moves and rehashes, and no field is skipped
\* or repeated when a dead key and a live one are the same object.  A call that
\* returns a key again adds to `visits' and not to `seen': no step of LuaMap does.
Map == INSTANCE LuaMap WITH map <- fields
IsMap == Map!Spec
=============================================================================
