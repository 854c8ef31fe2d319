------------------------- MODULE LuaTableMapProofs --------------------------
(***************************************************************************)
(* A table of ltable.cpp is a map: no insertion, rehash or traversal loses *)
(* a field, and rehash counts right.  For any keys, values, hash functions *)
(* and tables of any size.                                                 *)
(***************************************************************************)
EXTENDS LuaTableProofs

-----------------------------------------------------------------------------
(* Fields.                                                                 *)
Fields(tab) == [j \in Key |-> Get(tab, j)]

(* A key out of the array part has the value of its live node.             *)
LEMMA GetNode ==
  ASSUME TableAssumption, hash \in Hashes, NEW tab, Good(hash, tab), NEW j \in Key,
         ~InArray(tab, j)
  PROVE  /\ \A v \in Values : Get(tab, j) = v <=> Has(tab.node, j, v)
         /\ NodeOf(tab, j) = NoNode <=> NoLive(tab.node, j)
<1>. DEFINE nd == tab.node
            q == NodeOf(tab, j)
<1>1. /\ DOMAIN nd = Positions(tab) /\ OneLive(nd) /\ Nil \notin Values /\ j # Nil
      /\ NoNode \notin Positions(tab)
  BY GoodIs DEF Good, Sound, TableAssumption
<1>2. IsNodeOf(tab, j, q)
  BY Finds
<1>3. Get(tab, j) = IF q = NoNode THEN Nil ELSE nd[q].val
  BY DEF Get
<1>. HIDE DEF q
<1>4. CASE q = NoNode
  <2>1. NoLive(nd, j)
    BY <1>1, <1>2, <1>4 DEF IsNodeOf
  <2>. QED  BY <1>1, <1>3, <1>4, <2>1 DEF NoLive, Has, q
<1>5. CASE q # NoNode
  <2>1. q \in DOMAIN nd /\ nd[q].key = j /\ ~nd[q].dead
    BY <1>1, <1>2, <1>5 DEF IsNodeOf
  <2>2. \A p \in DOMAIN nd : nd[p].key = j /\ ~nd[p].dead => p = q
    BY <1>1, <2>1 DEF OneLive
  <2>. QED  BY <1>3, <1>5, <2>1, <2>2 DEF NoLive, Has, q
<1>. QED  BY <1>4, <1>5

(* Two tables whose nodes have the same values of a key.                   *)
SameValues(tab, r, j) == \A v \in Values : Has(tab.node, j, v) <=> Has(r.node, j, v)

(* Tables with the same values in the node part have the same field. *)
LEMMA SameGet ==
  ASSUME TableAssumption, hash \in Hashes, NEW tab, Good(hash, tab), NEW r, Good(hash, r),
         NEW j \in Key, ~InArray(tab, j), ~InArray(r, j), SameValues(tab, r, j)
  PROVE  Get(r, j) = Get(tab, j)
<1>1. Get(tab, j) \in Values \cup {Nil} /\ Get(r, j) \in Values \cup {Nil}
  BY GetIs DEF Slots
<1>2. \A v \in Values : Get(tab, j) = v <=> Get(r, j) = v
  BY GetNode DEF SameValues
<1>. QED  BY <1>1, <1>2 DEF TableAssumption

(* newkey changes no field.                                                *)
LEMMA InsertKeeps ==
  ASSUME TableAssumption, hash \in Hashes, NEW tab, Good(hash, tab), NEW k \in Key,
         ~HasSlot(tab, k), NEW r, Good(hash, r), Inserted(tab, r, k)
  PROVE  Fields(r) = Fields(tab) /\ HasSlot(r, k)
<1>1. Taken(tab.node, r.node, k) /\ r.array = tab.array /\ ~InArray(tab, k)
  BY DEF Inserted, HasSlot
<1>2. \A j \in Key : InArray(r, j) <=> InArray(tab, j)
  BY <1>1 DEF InArray
<1>3. Has(r.node, k, Nil)
  BY <1>1 DEF Taken
<1>4. HasSlot(r, k)
  <2>1. ~NoLive(r.node, k)
    BY <1>3 DEF Has, NoLive
  <2>. QED  BY <1>1, <1>2, <2>1, GetNode DEF HasSlot
<1>5. Get(r, k) = Nil /\ Get(tab, k) = Nil
  <2>1. PICK p \in DOMAIN r.node : r.node[p].key = k /\ ~r.node[p].dead /\ r.node[p].val = Nil
    BY <1>3 DEF Has
  <2>2. \A v \in Values : ~Has(r.node, k, v)
    BY <2>1 DEF Has, Good, Sound, OneLive, TableAssumption
  <2>3. Get(r, k) \in Values \cup {Nil} /\ \A v \in Values : Get(r, k) # v
    BY <1>1, <1>2, <2>2, GetNode, GetIs DEF Slots
  <2>4. Get(tab, k) = Nil
    BY DEF Get, HasSlot
  <2>. QED  BY <2>3, <2>4
<1>6. ASSUME NEW j \in Key \ {k} PROVE Get(r, j) = Get(tab, j)
  <2>1. CASE InArray(tab, j)
    BY <1>1, <1>2, <2>1 DEF Get
  <2>2. CASE ~InArray(tab, j)
    <3>1. SameValues(tab, r, j)
      BY <1>1 DEF SameValues, Taken
    <3>. QED  BY <1>2, <2>2, <3>1, SameGet
  <2>. QED  BY <2>1, <2>2
<1>. QED  BY <1>4, <1>5, <1>6 DEF Fields

(* What a store in the slot of k changes.                                  *)
Stored(tab, r, k, v) ==
  /\ r.dummy = tab.dummy /\ r.overflow = tab.overflow /\ r.lsizenode = tab.lsizenode
  /\ Len(r.array) = Len(tab.array)
  /\ \A i \in 1 .. Len(tab.array) : r.array[i] = IF i = Index[k] THEN v ELSE tab.array[i]
  /\ DOMAIN r.node = DOMAIN tab.node
  /\ \A p \in DOMAIN tab.node :
        /\ r.node[p].key = tab.node[p].key /\ r.node[p].dead = tab.node[p].dead
        /\ r.node[p].next = tab.node[p].next
        /\ r.node[p].val = IF ~InArray(tab, k) /\ p = NodeOf(tab, k) THEN v ELSE tab.node[p].val

(* An assignment writes one slot.                                          *)
LEMMA StoreIs ==
  ASSUME TableAssumption, hash \in Hashes, NEW tab, Good(hash, tab), NEW k \in Key, NEW v
  PROVE  Stored(tab, Store(tab, k, v), k, v)
<1>. DEFINE nd == tab.node
            i == Index[k]
            q == NodeOf(tab, k)
            w == With(tab, nd, tab.lastfree)
            r == Store(tab, k, v)
<1>1. /\ tab \in Tables /\ tab.array \in Seq(Slots) /\ Len(tab.array) \in Nat
      /\ DOMAIN tab.array = 1 .. Len(tab.array)
      /\ DOMAIN nd = Positions(tab) /\ nd \in [DOMAIN nd -> Records(DOMAIN nd)]
  <2>1. tab \in Tables /\ DOMAIN nd = Positions(tab)
    BY DEF Good
  <2>2. tab.array \in Seq(Slots)
    BY <2>1 DEF Tables
  <2>3. nd \in [DOMAIN nd -> Records(DOMAIN nd)]
    BY DEF Good, Sound, NodesTrue
  <2>. QED  BY <2>1, <2>2, <2>3
<1>2. tab = w
  BY <1>1, IsRecord
<1>3. CASE InArray(tab, k)
  <2>. DEFINE a == [tab.array EXCEPT ![i] = v]
  <2>1. r = [tab EXCEPT !.array = a]
    BY <1>3 DEF Store
  <2>2. Len(a) = Len(tab.array) /\ \A j \in 1 .. Len(tab.array) :
                                       a[j] = IF j = i THEN v ELSE tab.array[j]
    BY <1>1
  <2>. HIDE DEF a, r
  <2>3. /\ r.array = a /\ r.node = nd /\ r.lsizenode = tab.lsizenode
        /\ r.dummy = tab.dummy /\ r.overflow = tab.overflow
    BY <1>1, <2>1 DEF Tables
  <2>. QED  BY <1>3, <2>2, <2>3 DEF Stored, r
<1>4. CASE ~InArray(tab, k)
  <2>. DEFINE nr == [nd EXCEPT ![q].val = v]
  <2>1. r = With(tab, nr, tab.lastfree)
    <3>1. r = [tab EXCEPT !.node[q].val = v]
      BY <1>4 DEF Store
    <3>2. [w EXCEPT !.node[q].val = v] = With(tab, nr, tab.lastfree)
      <4>. HIDE DEF q
      <4>. QED  BY DEF With
    <3>. HIDE DEF w, r, q
    <3>. QED  BY <1>2, <3>1, <3>2
  <2>2. \A p \in DOMAIN nd : /\ nr[p].key = nd[p].key /\ nr[p].dead = nd[p].dead
                             /\ nr[p].next = nd[p].next
                             /\ nr[p].val = IF p = q THEN v ELSE nd[p].val
    <3>1. \A p \in DOMAIN nd \ {q} : nr[p] = nd[p]
      BY <1>1
    <3>2. q \in DOMAIN nd => nr[q] = [nd[q] EXCEPT !.val = v] /\ nd[q] \in Records(DOMAIN nd)
      BY <1>1
    <3>3. q \in DOMAIN nd => /\ nr[q].key = nd[q].key /\ nr[q].dead = nd[q].dead
                             /\ nr[q].next = nd[q].next /\ nr[q].val = v
      BY <3>2 DEF Records
    <3>. HIDE DEF nr, q, nd
    <3>. QED  BY <3>1, <3>3
  <2>3. DOMAIN nr = DOMAIN nd
    OBVIOUS
  <2>4. \A j \in 1 .. Len(tab.array) : j # i
    BY <1>1, <1>4 DEF InArray
  <2>. HIDE DEF nr, r, q
  <2>5. /\ r.array = tab.array /\ r.node = nr /\ r.lsizenode = tab.lsizenode
        /\ r.dummy = tab.dummy /\ r.overflow = tab.overflow
    BY <2>1 DEF With
  <2>. QED  BY <1>1, <1>4, <2>2, <2>3, <2>4, <2>5 DEF Stored, r, q
<1>. QED  BY <1>3, <1>4

(* The keys of a table, and which have a slot.                             *)
SameSlots(tab, r) ==
  /\ \A j \in Key : InArray(r, j) <=> InArray(tab, j)
  /\ \A j \in Key : HasSlot(r, j) <=> HasSlot(tab, j)

(* It changes the field of its key and no other.                           *)
LEMMA StoreKeeps ==
  ASSUME TableAssumption, hash \in Hashes, NEW tab, Good(hash, tab), NEW k \in Key,
         HasSlot(tab, k), NEW v \in Slots, NEW r, Good(hash, r), Stored(tab, r, k, v)
  PROVE  Fields(r) = [Fields(tab) EXCEPT ![k] = v] /\ SameSlots(tab, r)
<1>. DEFINE nd == tab.node
            q == NodeOf(tab, k)
<1>1. \A j \in Key : InArray(r, j) <=> InArray(tab, j)
  BY DEF Stored, InArray
<1>2. /\ DOMAIN nd = Positions(tab) /\ NoNode \notin DOMAIN nd /\ Nil \notin Values /\ OneLive(nd)
      /\ tab.array \in Seq(Slots) /\ DOMAIN r.node = DOMAIN nd /\ k # Nil
  BY GoodIs DEF Good, Tables, Sound, TableAssumption, Stored
<1>3. \A j \in Key : NoLive(r.node, j) <=> NoLive(nd, j)
  BY <1>2 DEF Stored, NoLive
<1>4. SameSlots(tab, r)
  BY <1>1, <1>3, GetNode DEF SameSlots, HasSlot
<1>5. Get(r, k) = v
  <2>1. CASE InArray(tab, k)
    <3>1. Index[k] \in 1 .. Len(tab.array)
      BY <2>1 DEF InArray
    <3>2. r.array[Index[k]] = v
      BY <3>1 DEF Stored
    <3>. QED  BY <1>1, <2>1, <3>2 DEF Get
  <2>2. CASE ~InArray(tab, k)
    <3>1. q \in DOMAIN nd /\ nd[q].key = k /\ ~nd[q].dead
      BY <1>2, <2>2, Finds DEF HasSlot, IsNodeOf
    <3>2. r.node[q].key = k /\ ~r.node[q].dead /\ r.node[q].val = v
      BY <2>2, <3>1 DEF Stored
    <3>3. \A p \in DOMAIN r.node : r.node[p].key = k /\ ~r.node[p].dead => p = q
      BY <1>2, <3>1 DEF Stored, OneLive
    <3>. HIDE DEF q
    <3>4. \A x \in Values : Has(r.node, k, x) <=> x = v
      BY <1>2, <3>1, <3>2, <3>3 DEF Has
    <3>5. Get(r, k) \in Values \cup {Nil} /\ \A x \in Values : Get(r, k) = x <=> x = v
      BY <1>1, <2>2, <3>4, GetNode, GetIs DEF Slots
    <3>. QED  BY <1>2, <3>5 DEF Slots
  <2>. QED  BY <2>1, <2>2
<1>6. ASSUME NEW j \in Key, j # k PROVE Get(r, j) = Get(tab, j)
  <2>1. CASE InArray(tab, j)
    <3>1. Index[j] \in 1 .. Len(tab.array) /\ Index[j] \in Nat /\ Index[k] \in Nat
      BY <2>1 DEF InArray, TableAssumption
    <3>2. Index[j] # Index[k]
      BY <1>6, <3>1 DEF TableAssumption
    <3>3. r.array[Index[j]] = tab.array[Index[j]]
      BY <3>1, <3>2 DEF Stored
    <3>. QED  BY <1>1, <2>1, <3>3 DEF Get
  <2>2. CASE ~InArray(tab, j)
    <3>1. ASSUME NEW p \in DOMAIN nd, nd[p].key = j, ~nd[p].dead PROVE r.node[p].val = nd[p].val
      <4>1. CASE p = q
        <5>1. nd[q].key = k
          BY <1>2, <4>1, Finds DEF IsNodeOf
        <5>. QED  BY <1>6, <3>1, <4>1, <5>1
      <4>2. CASE p # q
        BY <4>2 DEF Stored
      <4>. QED  BY <4>1, <4>2
    <3>2. SameValues(tab, r, j)
      <4>1. \A p \in DOMAIN nd : /\ r.node[p].key = nd[p].key /\ r.node[p].dead = nd[p].dead
                                 /\ nd[p].key = j /\ ~nd[p].dead => r.node[p].val = nd[p].val
        BY <3>1 DEF Stored
      <4>. QED  BY <1>2, <4>1 DEF SameValues, Has
    <3>. QED  BY <1>1, <2>2, <3>2, SameGet
  <2>. QED  BY <2>1, <2>2
<1>7. \A j \in Key : Get(r, j) = IF j = k THEN v ELSE Get(tab, j)
  BY <1>5, <1>6
<1>. QED  BY <1>4, <1>7 DEF Fields

-----------------------------------------------------------------------------
(* Room.  No live node has a key of the array part, and the dummy node is  *)
(* never in use.                                                           *)
Neat(tab) ==
  /\ ~tab.overflow
  /\ tab.dummy => \A p \in DOMAIN tab.node : tab.node[p].key = Nil
  /\ \A p \in DOMAIN tab.node :
        tab.node[p].key # Nil /\ ~tab.node[p].dead => ~InArray(tab, tab.node[p].key)

Blanks(tab) == {p \in DOMAIN tab.node : tab.node[p].key = Nil}

(* The keys of R that have no node yet.                                    *)
Left(tab, R) == {k \in R : NodeOf(tab, k) = NoNode}

(* While resize fills a table: the keys of R will go to nodes, and there   *)
(* are nodes for all that are left.                                        *)
Ready(tab, R) ==
  /\ Good(hash, tab) /\ Neat(tab) /\ Full(tab.node) /\ (tab.dummy => R = {})
  /\ Cardinality(Left(tab, R)) <= Cardinality(Blanks(tab))

Outside(tab, R) == R \in SUBSET Key /\ IsFiniteSet(R) /\ \A j \in R : ~InArray(tab, j)

(* The nodes of a table are finitely many.                                 *)
LEMMA BlanksFinite ==
  ASSUME TableAssumption, hash \in Hashes, NEW tab, Good(hash, tab)
  PROVE  IsFiniteSet(Blanks(tab))
<1>1. DOMAIN tab.node = 0 .. sizenode(tab) - 1 /\ sizenode(tab) \in Nat
  BY GoodIs DEF Good, Positions
<1>2. IsFiniteSet(0 .. sizenode(tab) - 1)
  <2>. DEFINE n == sizenode(tab) - 1
  <2>1. n \in Int
    BY <1>1
  <2>. HIDE DEF n
  <2>2. IsFiniteSet(0 .. n)
    BY <2>1, FS_Interval
  <2>. QED  BY <2>2 DEF n
<1>3. Blanks(tab) \in SUBSET (0 .. sizenode(tab) - 1)
  BY <1>1 DEF Blanks
<1>. QED  BY <1>2, <1>3, FS_Subset

(* getfreepos finds a node without a key when there is one.                *)
LEMMA RoomForOne ==
  ASSUME TableAssumption, hash \in Hashes, NEW tab, Good(hash, tab), ~tab.dummy,
         Blanks(tab) # {}, NEW k \in Key
  PROVE  HasRoom(tab, k)
<1>. DEFINE free == {i \in Positions(tab) : i < tab.lastfree /\ tab.node[i].key = Nil}
<1>1. /\ DOMAIN tab.node = Positions(tab) /\ FreeBefore(tab) /\ NoNode \notin Positions(tab)
      /\ sizenode(tab) \in Nat
  BY GoodIs DEF Good
<1>2. free # {}
  BY <1>1 DEF FreeBefore, Blanks
<1>3. free \in SUBSET Nat /\ \A i \in free : i <= sizenode(tab)
  BY <1>1 DEF Positions
<1>4. getfreepos(tab) = Max(free)
  BY <1>2 DEF getfreepos
<1>5. Max(free) \in free
  <2>. HIDE DEF free
  <2>. QED  BY <1>1, <1>2, <1>3, Largest
<1>. QED  BY <1>1, <1>4, <1>5 DEF HasRoom

(* A key that gets a node is not one of the array part.                    *)
LEMMA InsertNeat ==
  ASSUME TableAssumption, hash \in Hashes, NEW tab, Good(hash, tab), Neat(tab), NEW k \in Key,
         ~InArray(tab, k), NEW r, Good(hash, r), Inserted(tab, r, k)
  PROVE  Neat(r)
<1>. DEFINE nd == tab.node
            nr == r.node
<1>1. Taken(nd, nr, k) /\ r.array = tab.array /\ r.overflow = tab.overflow /\ ~r.dummy
  BY DEF Inserted
<1>2. \A j \in Key : InArray(r, j) <=> InArray(tab, j)
  BY <1>1 DEF InArray
<1>3. ASSUME NEW p \in DOMAIN nr, nr[p].key # Nil, ~nr[p].dead PROVE ~InArray(r, nr[p].key)
  <2>. DEFINE j == nr[p].key
              v == nr[p].val
  <2>1. j \in Key
    BY <1>3 DEF Good, Sound, NodesTrue, Records
  <2>2. CASE j = k
    BY <1>2, <2>2
  <2>3. CASE j # k
    <3>1. Has(nr, j, v)
      BY <1>3 DEF Has
    <3>. HIDE DEF j, v
    <3>2. Has(nd, j, v)
      BY <1>1, <2>1, <2>3, <3>1 DEF Taken
    <3>3. j # Nil
      BY <2>1 DEF TableAssumption
    <3>4. ~InArray(tab, j)
      BY <3>2, <3>3 DEF Has, Neat
    <3>5. ~InArray(r, j)
      BY <1>2, <2>1, <3>4
    <3>. QED  BY <3>5 DEF j
  <2>. QED  BY <2>2, <2>3
<1>. QED  BY <1>1, <1>3 DEF Neat

(* A key that gets a node leaves nodes for the others.                     *)
LEMMA InsertReady ==
  ASSUME TableAssumption, hash \in Hashes, NEW tab, NEW R, Ready(tab, R), Outside(tab, R),
         NEW k \in R, ~HasSlot(tab, k), NEW r, Good(hash, r), Inserted(tab, r, k)
  PROVE  /\ Cardinality(Left(r, R)) <= Cardinality(Blanks(r)) /\ Neat(r)
         /\ \A p \in DOMAIN r.node : r.node[p].key # Nil /\ r.node[p].val = Nil
                                     => r.node[p].key = k /\ ~r.node[p].dead
<1>. DEFINE nd == tab.node
            nr == r.node
<1>1. /\ Taken(nd, nr, k) /\ r.array = tab.array /\ k \in Key /\ Good(hash, tab) /\ Full(nd)
      /\ IsFiniteSet(R) /\ \A j \in R : j \in Key /\ ~InArray(tab, j)
  BY DEF Inserted, Ready, Outside
<1>2. \A j \in Key : InArray(r, j) <=> InArray(tab, j)
  BY <1>1 DEF InArray
<1>3. \A j \in R : /\ NodeOf(tab, j) = NoNode <=> NoLive(nd, j)
                   /\ NodeOf(r, j) = NoNode <=> NoLive(nr, j)
  BY <1>1, <1>2, GetNode
<1>4. Left(r, R) \in SUBSET (Left(tab, R) \ {k})
  <2>1. SUFFICES ASSUME NEW j \in R, NoLive(nr, j) PROVE NoLive(nd, j) /\ j # k
    BY <1>3 DEF Left
  <2>2. ASSUME j # k, NEW p \in DOMAIN nd, nd[p].key = j, ~nd[p].dead PROVE FALSE
    <3>1. nd[p].key # Nil /\ nd[p].val # Nil
      BY <1>1, <2>2 DEF Full, TableAssumption
    <3>2. nd[p].val \in Values
      BY <1>1, <3>1 DEF Good, Sound, NodesTrue, Records
    <3>3. Has(nr, j, nd[p].val)
      BY <1>1, <2>2, <3>2 DEF Has, Taken
    <3>. QED  BY <2>1, <3>3 DEF Has, NoLive
  <2>3. j # k
    BY <1>1, <2>1 DEF Taken, Has, NoLive
  <2>. QED  BY <2>2, <2>3 DEF NoLive
<1>5. PICK b \in DOMAIN nd : \A p \in DOMAIN nd : nd[p].key = Nil => p = b \/ nr[p].key = Nil
  BY <1>1 DEF Taken
<1>6. Blanks(tab) \ {b} \in SUBSET Blanks(r)
  BY <1>1, <1>5 DEF Blanks, Taken
<1>7. k \in Left(tab, R)
  BY DEF Left, HasSlot
<1>8. IsFiniteSet(Left(tab, R)) /\ IsFiniteSet(Blanks(tab)) /\ IsFiniteSet(Blanks(r))
  <2>1. Left(tab, R) \in SUBSET R
    BY DEF Left
  <2>. QED  BY <1>1, <2>1, BlanksFinite, FS_Subset
<1>9. Cardinality(Left(r, R)) <= Cardinality(Blanks(r))
  <2>. DEFINE L == Left(tab, R)
              B == Blanks(tab)
  <2>1. Cardinality(L) <= Cardinality(B)
    BY DEF Ready
  <2>. HIDE DEF L, B
  <2>2. IsFiniteSet(L \ {k}) /\ Cardinality(L \ {k}) = Cardinality(L) - 1
    BY <1>7, <1>8, FS_RemoveElement DEF L
  <2>3. Cardinality(B \ {b}) >= Cardinality(B) - 1 /\ IsFiniteSet(B \ {b})
    <3>1. Cardinality(B) \in Nat
      BY <1>8, FS_CardinalityType DEF B
    <3>2. /\ IsFiniteSet(B \ {b})
          /\ Cardinality(B \ {b}) = IF b \in B THEN Cardinality(B) - 1 ELSE Cardinality(B)
      BY <1>8, FS_RemoveElement DEF B
    <3>. QED  BY <3>1, <3>2
  <2>4. Cardinality(Left(r, R)) <= Cardinality(L \ {k}) /\ IsFiniteSet(Left(r, R))
    BY <1>4, <2>2, FS_Subset DEF L
  <2>5. Cardinality(B \ {b}) <= Cardinality(Blanks(r))
    BY <1>6, <1>8, FS_Subset DEF B
  <2>6. /\ Cardinality(L) \in Nat /\ Cardinality(B) \in Nat /\ Cardinality(Left(r, R)) \in Nat
        /\ Cardinality(Blanks(r)) \in Nat /\ Cardinality(B \ {b}) \in Nat
    BY <1>8, <2>3, <2>4, FS_CardinalityType DEF L, B
  <2>. QED  BY <2>1, <2>2, <2>3, <2>4, <2>5, <2>6
<1>10. Neat(r)
  BY <1>1, InsertNeat DEF Ready
<1>. QED  BY <1>1, <1>9, <1>10 DEF Taken

(* A store keeps what insertion left: it fills the node of its key.        *)
LEMMA StoreReady ==
  ASSUME TableAssumption, hash \in Hashes, NEW tab, Good(hash, tab), NEW k \in Key,
         HasSlot(tab, k), NEW v \in Slots, NEW r, Good(hash, r), Stored(tab, r, k, v), Neat(tab)
  PROVE  /\ Neat(r) /\ Blanks(r) = Blanks(tab)
         /\ \A R \in SUBSET Key : Outside(tab, R) => Left(r, R) = Left(tab, R) /\ Outside(r, R)
         /\ v # Nil /\ (\A p \in DOMAIN tab.node :
                           tab.node[p].key # Nil /\ tab.node[p].val = Nil
                           => tab.node[p].key = k /\ ~tab.node[p].dead)
            => Full(r.node)
<1>. DEFINE nd == tab.node
            q == NodeOf(tab, k)
<1>1. \A j \in Key : InArray(r, j) <=> InArray(tab, j)
  BY DEF Stored, InArray
<1>2. /\ DOMAIN r.node = DOMAIN nd
      /\ \A p \in DOMAIN nd : r.node[p].key = nd[p].key /\ r.node[p].dead = nd[p].dead
  BY DEF Stored
<1>3. Neat(r)
  <2>1. \A p \in DOMAIN nd : nd[p].key # Nil => nd[p].key \in Key
    BY DEF Good, Sound, NodesTrue, Records
  <2>. QED  BY <1>1, <1>2, <2>1 DEF Neat, Stored
<1>4. Blanks(r) = Blanks(tab)
  BY <1>2 DEF Blanks
<1>5. ASSUME NEW R \in SUBSET Key, Outside(tab, R) PROVE Left(r, R) = Left(tab, R) /\ Outside(r, R)
  <2>1. \A j \in R : j \in Key /\ ~InArray(tab, j) /\ ~InArray(r, j)
    BY <1>1, <1>5 DEF Outside
  <2>2. \A j : NoLive(r.node, j) <=> NoLive(nd, j)
    BY <1>2 DEF NoLive
  <2>3. \A j \in R : NodeOf(r, j) = NoNode <=> NodeOf(tab, j) = NoNode
    BY <2>1, <2>2, GetNode
  <2>. QED  BY <1>5, <2>1, <2>3 DEF Left, Outside
<1>6. ASSUME v # Nil, \A p \in DOMAIN nd : nd[p].key # Nil /\ nd[p].val = Nil
                                           => nd[p].key = k /\ ~nd[p].dead,
             NEW p \in DOMAIN r.node, r.node[p].key # Nil
      PROVE  r.node[p].val # Nil
  <2>1. SUFFICES ASSUME nd[p].val = Nil PROVE ~InArray(tab, k) /\ p = q
    BY <1>2, <1>6 DEF Stored
  <2>2. p \in DOMAIN nd /\ nd[p].key = k /\ ~nd[p].dead /\ k # Nil
    BY <1>2, <1>6, <2>1
  <2>3. ~InArray(tab, k)
    BY <2>2 DEF Neat
  <2>4. q \in DOMAIN nd /\ nd[q].key = k /\ ~nd[q].dead
    BY <2>3, Finds, GoodIs DEF HasSlot, IsNodeOf, Good
  <2>. QED  BY <2>2, <2>3, <2>4 DEF Good, Sound, OneLive
<1>. QED  BY <1>3, <1>4, <1>5, <1>6 DEF Full

(* What resize does with an entry: the table takes it, and is ready for    *)
(* the others.                                                             *)
Takes(tab, r, R, k, v) ==
  /\ Ready(r, R) /\ Outside(r, R) /\ Fields(r) = [Fields(tab) EXCEPT ![k] = v]
  /\ \A j \in Key : InArray(r, j) <=> InArray(tab, j)

(* Each reinsertion takes one key and at most one node (ltable.cpp:261). *)
LEMMA ReinsertReady ==
  ASSUME TableAssumption, hash \in Hashes, NEW tab, NEW R, Ready(tab, R), Outside(tab, R),
         NEW k \in Key, k \in R \/ InArray(tab, k), NEW v \in Values
  PROVE  Takes(tab, Reinsert(tab, k, v), R, k, v)
<1>1. /\ Good(hash, tab) /\ Neat(tab) /\ Full(tab.node) /\ v \in Slots /\ v # Nil
      /\ R \in SUBSET Key
  BY DEF Ready, Slots, TableAssumption, Outside
<1>2. CASE HasSlot(tab, k)
  <2>. DEFINE r == Store(tab, k, v)
  <2>1. Good(hash, r) /\ Stored(tab, r, k, v) /\ Reinsert(tab, k, v) = r
    BY <1>1, <1>2, StoreGood, StoreIs DEF Reinsert
  <2>. HIDE DEF r
  <2>2. Fields(r) = [Fields(tab) EXCEPT ![k] = v] /\ SameSlots(tab, r)
    BY <1>1, <1>2, <2>1, StoreKeeps
  <2>3. /\ Neat(r) /\ Blanks(r) = Blanks(tab) /\ Left(r, R) = Left(tab, R) /\ Outside(r, R)
        /\ Full(r.node)
    BY <1>1, <1>2, <2>1, StoreReady DEF Full
  <2>4. Ready(r, R)
    BY <2>1, <2>3 DEF Ready, Stored
  <2>. QED  BY <2>1, <2>2, <2>3, <2>4 DEF Takes, SameSlots
<1>3. CASE ~HasSlot(tab, k)
  <2>. DEFINE u == Insert(tab, k)
              r == Store(u, k, v)
  <2>1. k \in R /\ k \in Left(tab, R)
    BY <1>3 DEF HasSlot, Left
  <2>2. Blanks(tab) # {} /\ ~tab.dummy
    <3>1. IsFiniteSet(Left(tab, R)) /\ IsFiniteSet(Blanks(tab))
      <4>1. Left(tab, R) \in SUBSET R /\ IsFiniteSet(R)
        BY DEF Left, Outside
      <4>. QED  BY <1>1, <4>1, BlanksFinite, FS_Subset
    <3>2. Cardinality(Left(tab, R)) \in Nat /\ Cardinality(Left(tab, R)) # 0
      BY <2>1, <3>1, FS_CardinalityType, FS_EmptySet
    <3>3. Cardinality(Blanks(tab)) # 0
      BY <3>2 DEF Ready
    <3>. QED  BY <2>1, <3>3, FS_EmptySet DEF Ready
  <2>3. HasRoom(tab, k)
    BY <1>1, <2>2, RoomForOne
  <2>4. Good(hash, u) /\ Inserted(tab, u, k)
    BY <1>1, <1>3, <2>3, InsertGood
  <2>5. Reinsert(tab, k, v) = r
    BY <1>3, <2>3 DEF Reinsert
  <2>. HIDE DEF u
  <2>6. Fields(u) = Fields(tab) /\ HasSlot(u, k)
    BY <1>1, <1>3, <2>4, InsertKeeps
  <2>7. /\ Cardinality(Left(u, R)) <= Cardinality(Blanks(u)) /\ Neat(u)
        /\ \A p \in DOMAIN u.node : u.node[p].key # Nil /\ u.node[p].val = Nil
                                    => u.node[p].key = k /\ ~u.node[p].dead
    BY <1>3, <2>1, <2>4, InsertReady
  <2>8. \A j \in Key : InArray(u, j) <=> InArray(tab, j)
    BY <2>4 DEF Inserted, InArray
  <2>9. Outside(u, R)
    BY <2>8 DEF Outside
  <2>10. Good(hash, r) /\ Stored(u, r, k, v)
    BY <1>1, <2>4, StoreGood, StoreIs
  <2>. HIDE DEF r
  <2>11. Fields(r) = [Fields(u) EXCEPT ![k] = v] /\ SameSlots(u, r)
    BY <1>1, <2>4, <2>6, <2>10, StoreKeeps
  <2>12. /\ Neat(r) /\ Blanks(r) = Blanks(u) /\ Left(r, R) = Left(u, R) /\ Outside(r, R)
         /\ Full(r.node)
    BY <1>1, <2>4, <2>6, <2>7, <2>9, <2>10, StoreReady
  <2>13. Ready(r, R)
    BY <2>4, <2>7, <2>10, <2>12 DEF Ready, Stored, Inserted
  <2>. QED  BY <2>5, <2>6, <2>8, <2>11, <2>12, <2>13 DEF Takes, SameSlots
<1>. QED  BY <1>2, <1>3

-----------------------------------------------------------------------------
(* resize.  A table s that is being filled with the fields of tab; those   *)
(* of D it has.                                                            *)
Filling(tab, s, R, nasize, D) ==
  /\ Ready(s, R) /\ Outside(s, R)
  /\ \A j \in Key : InArray(s, j) <=> Index[j] \in 1 .. nasize
  /\ \A j \in Key : Get(s, j) = Get(tab, j) \/ (Get(s, j) = Nil /\ j \notin D)

(* R are the keys that will be in nodes.                                   *)
Covers(tab, R, nasize) ==
  \A j \in Key : Get(tab, j) # Nil /\ Index[j] \notin 1 .. nasize => j \in R

(* One entry.                                                              *)
LEMMA FillStep ==
  ASSUME TableAssumption, hash \in Hashes, NEW tab, NEW s, NEW R, NEW nasize \in Nat, NEW D,
         Filling(tab, s, R, nasize, D), Covers(tab, R, nasize), NEW k \in Key,
         Get(tab, k) \in Values
  PROVE  Filling(tab, Reinsert(s, k, Get(tab, k)), R, nasize, D \cup {k})
<1>. DEFINE v == Get(tab, k)
            r == Reinsert(s, k, v)
<1>1. k \in R \/ InArray(s, k)
  BY DEF Covers, Filling, TableAssumption
<1>2. Takes(s, r, R, k, v)
  <2>. HIDE DEF v
  <2>. QED  BY <1>1, ReinsertReady DEF Filling, v
<1>. HIDE DEF r
<1>3. \A j \in Key : Get(r, j) = IF j = k THEN v ELSE Get(s, j)
  BY <1>2 DEF Takes, Fields
<1>4. ASSUME NEW j \in Key
      PROVE  Get(r, j) = Get(tab, j) \/ (Get(r, j) = Nil /\ j \notin D \cup {k})
  <2>1. Get(s, j) = Get(tab, j) \/ (Get(s, j) = Nil /\ j \notin D)
    BY DEF Filling
  <2>2. Get(r, j) = IF j = k THEN v ELSE Get(s, j)
    BY <1>3
  <2>. QED  BY <2>1, <2>2
<1>5. Ready(r, R) /\ Outside(r, R) /\ \A j \in Key : InArray(r, j) <=> InArray(s, j)
  BY <1>2 DEF Takes
<1>. QED  BY <1>4, <1>5 DEF Filling, r

(* Fewer or other keys that are done.                                      *)
LEMMA FillWeaken ==
  ASSUME NEW tab, NEW s, NEW R, NEW nasize, NEW D, Filling(tab, s, R, nasize, D), NEW E,
         \A j \in Key : j \in E => (j \in D \/ Get(tab, j) = Nil)
  PROVE  Filling(tab, s, R, nasize, E)
<1>1. ASSUME NEW j \in Key
      PROVE  Get(s, j) = Get(tab, j) \/ (Get(s, j) = Nil /\ j \notin E)
  <2>1. Get(s, j) = Get(tab, j) \/ (Get(s, j) = Nil /\ j \notin D)
    BY DEF Filling
  <2>. QED  BY <2>1
<1>. QED  BY <1>1 DEF Filling

(* The keys that are done after i slots of the old array part, and after i *)
(* nodes.                                                                  *)
SliceDone(tab, nasize, i) ==
  {j \in Key : InArray(tab, j) /\ (Index[j] <= nasize \/ Index[j] <= i)}

NodeDone(tab, i) ==
  {j \in Key : InArray(tab, j) \/ NodeOf(tab, j) \notin 0 .. sizenode(tab) - i - 1}

(* The new parts have the slots that stay.                                 *)
LEMMA FillStart ==
  ASSUME TableAssumption, hash \in Hashes, NEW tab, Good(hash, tab), Neat(tab),
         NEW nasize \in Nat, NEW nhsize \in Nat,
         NEW R \in SUBSET Key, IsFiniteSet(R), Cardinality(R) <= nhsize,
         \A j \in R : Index[j] \notin 1 .. nasize,
         NEW s, s \in GoodTables(hash, nasize), SizedFrom(tab, s, nasize, nhsize)
  PROVE  Filling(tab, s, R, nasize, SliceDone(tab, nasize, 0))
<1>1. /\ Good(hash, s) /\ Len(s.array) = nasize /\ DOMAIN s.node = 0 .. sizenode(s) - 1
      /\ sizenode(s) \in Nat
  BY GoodIs DEF GoodTables, Good, Positions
<1>2. /\ \A p \in DOMAIN s.node : s.node[p].key = Nil /\ ~s.node[p].dead /\ s.node[p].val = Nil
      /\ s.dummy <=> nhsize = 0
      /\ s.overflow = tab.overflow /\ sizenode(s) >= nhsize
  BY DEF SizedFrom, Emptied, FreeNode
<1>3. \A j \in Key : InArray(s, j) <=> Index[j] \in 1 .. nasize
  BY <1>1 DEF InArray
<1>4. Outside(s, R)
  BY <1>3 DEF Outside
<1>5. Neat(s) /\ Full(s.node)
  BY <1>2 DEF Neat, Full
<1>6. s.dummy => R = {}
  BY <1>2, FS_EmptySet, FS_CardinalityType
<1>7. Cardinality(Left(s, R)) <= Cardinality(Blanks(s))
  <2>. DEFINE n == sizenode(s) - 1
  <2>1. Blanks(s) = 0 .. n
    BY <1>1, <1>2 DEF Blanks
  <2>2. n \in Int /\ n + 1 >= nhsize
    BY <1>1, <1>2
  <2>. HIDE DEF n
  <2>3. Cardinality(Blanks(s)) >= nhsize /\ Cardinality(Blanks(s)) \in Int
    <3>1. Cardinality(0 .. n) = IF 0 > n THEN 0 ELSE n - 0 + 1
      BY <2>2, FS_Interval
    <3>. QED  BY <2>1, <2>2, <3>1
  <2>4. Cardinality(Left(s, R)) <= Cardinality(R) /\ IsFiniteSet(Left(s, R))
    <3>1. Left(s, R) \in SUBSET R
      BY DEF Left
    <3>. QED  BY <3>1, FS_Subset
  <2>5. Cardinality(Left(s, R)) \in Nat /\ Cardinality(R) \in Nat
    BY <2>4, FS_CardinalityType
  <2>. QED  BY <2>3, <2>4, <2>5
<1>8. ASSUME NEW j \in Key
      PROVE  Get(s, j) = Get(tab, j) \/ (Get(s, j) = Nil /\ j \notin SliceDone(tab, nasize, 0))
  <2>1. Index[j] \in Nat /\ Len(tab.array) \in Nat
    BY DEF TableAssumption, Good, Tables
  <2>2. CASE InArray(s, j)
    <3>1. Get(s, j) = IF Index[j] <= Len(tab.array) THEN tab.array[Index[j]] ELSE Nil
      BY <1>3, <2>2 DEF Get, SizedFrom
    <3>2. CASE Index[j] <= Len(tab.array)
      <4>1. InArray(tab, j)
        BY <1>3, <2>1, <2>2, <3>2 DEF InArray
      <4>2. Get(tab, j) = tab.array[Index[j]]
        BY <4>1 DEF Get
      <4>. QED  BY <3>1, <3>2, <4>2
    <3>3. CASE ~(Index[j] <= Len(tab.array))
      <4>1. ~InArray(tab, j)
        BY <2>1, <3>3 DEF InArray
      <4>. QED  BY <3>1, <3>3, <4>1 DEF SliceDone
    <3>. QED  BY <3>2, <3>3
  <2>3. CASE ~InArray(s, j)
    <3>1. NoLive(s.node, j)
      BY <1>2 DEF NoLive, TableAssumption
    <3>2. Get(s, j) = Nil
      BY <1>1, <2>3, <3>1, GetNode DEF Get
    <3>3. j \notin SliceDone(tab, nasize, 0)
      BY <1>3, <2>1, <2>3 DEF SliceDone, InArray
    <3>. QED  BY <3>2, <3>3
  <2>. QED  BY <2>2, <2>3
<1>9. Ready(s, R)
  BY <1>1, <1>5, <1>6, <1>7 DEF Ready
<1>. QED  BY <1>3, <1>4, <1>8, <1>9 DEF Filling

(* A turn of the loop over the vanishing slice.                            *)
LEMMA FillSlice ==
  ASSUME TableAssumption, hash \in Hashes, NEW tab, Good(hash, tab), NEW nasize \in Nat,
         NEW R, Covers(tab, R, nasize), NEW i \in 1 .. Len(tab.array), NEW s,
         Filling(tab, s, R, nasize, SliceDone(tab, nasize, i - 1))
  PROVE  Filling(tab, FromSlice(tab, nasize, s, i), R, nasize, SliceDone(tab, nasize, i))
<1>. DEFINE D == SliceDone(tab, nasize, i - 1)
            E == SliceDone(tab, nasize, i)
            r == FromSlice(tab, nasize, s, i)
<1>1. /\ tab.array \in Seq(Slots) /\ i \in DOMAIN tab.array /\ i \in Nat /\ ArrayKeys(tab)
      /\ Index \in [Key -> Nat] /\ Len(tab.array) \in Nat
      /\ \A k, j \in Key : Index[k] = Index[j] /\ Index[k] > 0 => k = j
  BY DEF Good, Tables, TableAssumption
<1>2. \A j \in E : j \in Key /\ (j \in D \/ (InArray(tab, j) /\ Index[j] = i /\ i > nasize))
  <2>. SUFFICES ASSUME NEW j \in E
                PROVE  j \in Key /\ (j \in D \/ (InArray(tab, j) /\ Index[j] = i /\ i > nasize))
    OBVIOUS
  <2>1. j \in Key /\ InArray(tab, j) /\ Index[j] \in Nat /\ (Index[j] <= nasize \/ Index[j] <= i)
    BY <1>1 DEF SliceDone
  <2>. QED  BY <1>1, <2>1 DEF SliceDone
<1>3. \A j \in Key : InArray(tab, j) => Get(tab, j) = tab.array[Index[j]]
  BY DEF Get
<1>. HIDE DEF D, E
<1>4. Filling(tab, s, R, nasize, D)
  BY DEF D
<1>5. CASE i <= nasize \/ tab.array[i] = Nil
  <2>1. r = s
    BY <1>5 DEF FromSlice
  <2>2. \A j \in Key : j \in E => (j \in D \/ Get(tab, j) = Nil)
    BY <1>1, <1>2, <1>3, <1>5
  <2>3. Filling(tab, s, R, nasize, E)
    BY <1>4, <2>2, FillWeaken
  <2>. QED  BY <2>1, <2>3 DEF E
<1>6. CASE ~(i <= nasize \/ tab.array[i] = Nil)
  <2>. DEFINE k == KeyAt(i)
  <2>1. k \in Key /\ Index[k] = i
    BY <1>1, <1>6 DEF ArrayKeys, KeyAt
  <2>. HIDE DEF k
  <2>2. tab.array[i] \in Values
    BY <1>1, <1>6 DEF Slots
  <2>3. Get(tab, k) = tab.array[i]
    BY <1>1, <1>3, <2>1 DEF InArray
  <2>4. r = Reinsert(s, k, Get(tab, k))
    BY <1>6, <2>3 DEF FromSlice, k
  <2>5. Filling(tab, r, R, nasize, D \cup {k})
    BY <1>4, <2>1, <2>2, <2>3, <2>4, FillStep
  <2>6. \A j \in Key : j \in E => (j \in D \cup {k} \/ Get(tab, j) = Nil)
    BY <1>1, <1>2, <2>1
  <2>. HIDE DEF r
  <2>7. Filling(tab, r, R, nasize, E)
    BY <2>5, <2>6, FillWeaken
  <2>. QED  BY <2>7 DEF r, E
<1>. QED  BY <1>5, <1>6

(* A turn of the loop over the old nodes.                                  *)
LEMMA FillNode ==
  ASSUME TableAssumption, hash \in Hashes, NEW tab, Good(hash, tab), Neat(tab), NEW nasize \in Nat,
         NEW R, Covers(tab, R, nasize), NEW i \in 1 .. sizenode(tab), NEW s,
         Filling(tab, s, R, nasize, NodeDone(tab, i - 1))
  PROVE  Filling(tab, FromNode(tab, s, i), R, nasize, NodeDone(tab, i))
<1>. DEFINE D == NodeDone(tab, i - 1)
            E == NodeDone(tab, i)
            r == FromNode(tab, s, i)
            nd == tab.node
            p == sizenode(tab) - i
<1>1. /\ sizenode(tab) \in Nat /\ p \in DOMAIN nd /\ DOMAIN nd = Positions(tab)
      /\ Positions(tab) = 0 .. sizenode(tab) - 1 /\ NoNode \notin Positions(tab)
      /\ Sound(nd, Main(hash, tab))
  BY GoodIs DEF Good, Positions
<1>2. \A j \in E : j \in Key /\ (j \in D \/ (~InArray(tab, j) /\ NodeOf(tab, j) = p))
  <2>. SUFFICES ASSUME NEW j \in E
                PROVE  j \in Key /\ (j \in D \/ (~InArray(tab, j) /\ NodeOf(tab, j) = p))
    OBVIOUS
  <2>1. j \in Key /\ (InArray(tab, j) \/ NodeOf(tab, j) \notin 0 .. sizenode(tab) - i - 1)
    BY DEF NodeDone
  <2>2. \A q : q \in 0 .. sizenode(tab) - (i - 1) - 1 => q = p \/ q \in 0 .. sizenode(tab) - i - 1
    BY <1>1
  <2>. QED  BY <2>1, <2>2 DEF NodeDone
<1>. HIDE DEF D, E, p
<1>3. \A j \in Key : ~InArray(tab, j) /\ NodeOf(tab, j) = p =>
                        Get(tab, j) = nd[p].val /\ nd[p].key = j
  <2>. SUFFICES ASSUME NEW j \in Key, ~InArray(tab, j), NodeOf(tab, j) = p
                PROVE  Get(tab, j) = nd[p].val /\ nd[p].key = j
    OBVIOUS
  <2>1. IsNodeOf(tab, j, p)
    BY Finds
  <2>2. p # NoNode
    BY <1>1
  <2>. QED  BY <2>1, <2>2 DEF IsNodeOf, Get
<1>4. Filling(tab, s, R, nasize, D)
  BY DEF D
<1>5. CASE nd[p].val = Nil
  <2>1. r = s
    BY <1>5 DEF FromNode, p
  <2>2. \A j \in Key : j \in E => (j \in D \/ Get(tab, j) = Nil)
    BY <1>2, <1>3, <1>5
  <2>3. Filling(tab, s, R, nasize, E)
    BY <1>4, <2>2, FillWeaken
  <2>. QED  BY <2>1, <2>3 DEF E
<1>6. CASE nd[p].val # Nil
  <2>. DEFINE k == nd[p].key
  <2>1. k \in Key /\ k # Nil /\ ~nd[p].dead /\ nd[p].val \in Values
    BY <1>1, <1>6 DEF Sound, NodesTrue, Records, TableAssumption
  <2>2. ~InArray(tab, k)
    BY <1>1, <2>1 DEF Neat
  <2>3. NodeOf(tab, k) = p
    <3>1. IsNodeOf(tab, k, NodeOf(tab, k))
      BY <2>1, <2>2, Finds
    <3>2. NodeOf(tab, k) # NoNode
      BY <1>1, <2>1, <2>2, GetNode DEF NoLive
    <3>. QED  BY <1>1, <2>1, <3>1, <3>2 DEF IsNodeOf, Sound, OneLive
  <2>. HIDE DEF k
  <2>4. Get(tab, k) = nd[p].val
    BY <1>3, <2>1, <2>2, <2>3
  <2>5. r = Reinsert(s, k, Get(tab, k))
    BY <1>6, <2>4 DEF FromNode, k, p
  <2>6. Filling(tab, r, R, nasize, D \cup {k})
    BY <1>4, <2>1, <2>4, <2>5, FillStep
  <2>7. \A j \in Key : j \in E => (j \in D \cup {k} \/ Get(tab, j) = Nil)
    BY <1>2, <1>3 DEF k
  <2>. HIDE DEF r
  <2>8. Filling(tab, r, R, nasize, E)
    BY <2>6, <2>7, FillWeaken
  <2>. QED  BY <2>8 DEF r, E
<1>. QED  BY <1>5, <1>6

(* resize loses nothing, and leaves nodes for the keys of R that have none *)
(* yet (ltable.cpp:244).                                                   *)
LEMMA ResizeKeeps ==
  ASSUME TableAssumption, hash \in Hashes, NEW tab, Good(hash, tab), Neat(tab),
         NEW nasize \in Nat, NEW nhsize \in Nat,
         NEW R \in SUBSET Key, IsFiniteSet(R), Cardinality(R) <= nhsize,
         \A j \in R : Index[j] \notin 1 .. nasize, Covers(tab, R, nasize),
         NEW r, r = resize(tab, nasize, nhsize)
  PROVE  /\ Ready(r, R) /\ Outside(r, R) /\ Fields(r) = Fields(tab)
         /\ \A j \in Key : InArray(r, j) <=> Index[j] \in 1 .. nasize
<1>. DEFINE s == Sized(tab, nasize, nhsize)
            m == Len(tab.array)
            n == sizenode(tab)
            c == SlicesMoved(tab, nasize, s)
            u == c[m]
            d == NodesMoved(tab, u)
<1>1. m \in Nat /\ n \in Nat
  <2>1. tab.array \in Seq(Slots) /\ sizenode(tab) \in Nat
    BY GoodIs DEF Good, Tables
  <2>. QED  BY <2>1
<1>2. s \in GoodTables(hash, nasize) /\ SizedFrom(tab, s, nasize, nhsize)
  BY SizedIs
<1>. HIDE DEF s, m, n
<1>3. Filling(tab, s, R, nasize, SliceDone(tab, nasize, 0))
  BY <1>2, FillStart
<1>4. SlicesRun(tab, nasize, s, c) /\ \A i \in 0 .. m : c[i] \in GoodTables(hash, nasize)
  BY <1>2, SlicesGood DEF m
<1>. HIDE DEF c
<1>5. Filling(tab, u, R, nasize, SliceDone(tab, nasize, m))
  <2>. DEFINE S == {i \in 0 .. m : Filling(tab, c[i], R, nasize, SliceDone(tab, nasize, i))}
  <2>1. 0 \in S
    BY <1>1, <1>3, <1>4 DEF SlicesRun
  <2>2. ASSUME NEW i \in 0 .. m - 1, i \in S PROVE i + 1 \in S
    <3>. DEFINE j == i + 1
    <3>1. j \in 1 .. m /\ j - 1 = i /\ j \in 0 .. m
      BY <1>1
    <3>. HIDE DEF j
    <3>2. c[j] = FromSlice(tab, nasize, c[i], j)
      BY <1>4, <3>1 DEF SlicesRun, m
    <3>3. Filling(tab, c[i], R, nasize, SliceDone(tab, nasize, j - 1))
      BY <2>2, <3>1
    <3>4. Filling(tab, c[j], R, nasize, SliceDone(tab, nasize, j))
      BY <3>1, <3>2, <3>3, FillSlice DEF m
    <3>. QED  BY <3>1, <3>4 DEF j
  <2>. HIDE DEF S
  <2>3. 0 .. m \subseteq S
    BY <1>1, <2>1, <2>2, UpTo
  <2>4. m \in S
    BY <1>1, <2>3
  <2>. QED  BY <2>4 DEF S
<1>6. u \in GoodTables(hash, nasize)
  BY <1>1, <1>4
<1>. HIDE DEF u
<1>7. Filling(tab, u, R, nasize, NodeDone(tab, 0))
  <2>1. ASSUME NEW j \in Key, j \in NodeDone(tab, 0)
        PROVE  j \in SliceDone(tab, nasize, m) \/ Get(tab, j) = Nil
    <3>1. CASE InArray(tab, j)
      BY <3>1 DEF SliceDone, InArray, m
    <3>2. CASE ~InArray(tab, j)
      <4>1. NodeOf(tab, j) \notin 0 .. sizenode(tab) - 0 - 1
        BY <2>1, <3>2 DEF NodeDone
      <4>2. NodeOf(tab, j) \in Positions(tab) \cup {NoNode} /\ sizenode(tab) \in Nat
        BY Finds, GoodIs DEF IsNodeOf
      <4>3. NodeOf(tab, j) = NoNode
        BY <4>1, <4>2 DEF Positions
      <4>. QED  BY <3>2, <4>3 DEF Get
    <3>. QED  BY <3>1, <3>2
  <2>2. \A j \in Key : j \in NodeDone(tab, 0) => (j \in SliceDone(tab, nasize, m) \/ Get(tab, j) = Nil)
    BY <2>1
  <2>. QED  BY <1>5, <2>2, FillWeaken
<1>8. NodesRun(tab, u, d)
  BY <1>6, NodesGood
<1>. HIDE DEF d
<1>9. Filling(tab, d[n], R, nasize, NodeDone(tab, n))
  <2>. DEFINE S == {i \in 0 .. n : Filling(tab, d[i], R, nasize, NodeDone(tab, i))}
  <2>1. 0 \in S
    BY <1>1, <1>7, <1>8 DEF NodesRun
  <2>2. ASSUME NEW i \in 0 .. n - 1, i \in S PROVE i + 1 \in S
    <3>. DEFINE j == i + 1
    <3>1. j \in 1 .. n /\ j - 1 = i /\ j \in 0 .. n
      BY <1>1
    <3>. HIDE DEF j
    <3>2. d[j] = FromNode(tab, d[i], j)
      BY <1>8, <3>1 DEF NodesRun, n
    <3>3. Filling(tab, d[i], R, nasize, NodeDone(tab, j - 1))
      BY <2>2, <3>1
    <3>4. Filling(tab, d[j], R, nasize, NodeDone(tab, j))
      BY <3>1, <3>2, <3>3, FillNode DEF n
    <3>. QED  BY <3>1, <3>4 DEF j
  <2>. HIDE DEF S
  <2>3. 0 .. n \subseteq S
    BY <1>1, <2>1, <2>2, UpTo
  <2>4. n \in S
    BY <1>1, <2>3
  <2>. QED  BY <2>4 DEF S
<1>10. r = d[n]
  BY ResizeIs DEF s, m, n, c, u, d
<1>11. \A j \in Key : j \in NodeDone(tab, n)
  <2>1. sizenode(tab) - n - 1 = -1
    BY <1>1 DEF n
  <2>2. \A x : x \notin 0 .. -1
    OBVIOUS
  <2>. QED  BY <2>1, <2>2 DEF NodeDone
<1>12. \A j \in Key : Get(r, j) = Get(tab, j)
  BY <1>9, <1>10, <1>11 DEF Filling
<1>. QED  BY <1>9, <1>10, <1>12 DEF Filling, Fields

-----------------------------------------------------------------------------
(* rehash.  It counts every key with a value and the one that needs room.  *)
LEMMA Counted ==
  ASSUME TableAssumption, hash \in Hashes, NEW tab, Good(hash, tab)
  PROVE  /\ InUse(tab) \in SUBSET Key
         /\ \A j \in Key : Get(tab, j) # Nil => j \in InUse(tab)
<1>. DEFINE A == {KeyAt(i) : i \in {x \in DOMAIN tab.array : tab.array[x] # Nil}}
            B == {n.key : n \in {tab.node[i] : i \in {x \in Positions(tab) : tab.node[x].val # Nil}}}
<1>1. /\ tab.array \in Seq(Slots) /\ ArrayKeys(tab) /\ DOMAIN tab.node = Positions(tab)
      /\ Sound(tab.node, Main(hash, tab))
  BY DEF Good, Tables
<1>2. A \in SUBSET Key
  BY <1>1 DEF ArrayKeys, KeyAt
<1>3. \A p \in Positions(tab) : tab.node[p].val # Nil => tab.node[p].key \in Key
  BY <1>1 DEF Sound, NodesTrue, Records
<1>4. B \in SUBSET Key
  BY <1>3
<1>5. ASSUME NEW j \in Key, Get(tab, j) # Nil PROVE j \in A \cup B
  <2>1. CASE InArray(tab, j)
    <3>. DEFINE i == Index[j]
    <3>1. i \in DOMAIN tab.array /\ tab.array[i] # Nil /\ i > 0
      BY <1>1, <1>5, <2>1 DEF InArray, Get
    <3>2. KeyAt(i) = j
      BY <3>1 DEF KeyAt, TableAssumption
    <3>. QED  BY <3>1, <3>2
  <2>2. CASE ~InArray(tab, j)
    <3>. DEFINE q == NodeOf(tab, j)
    <3>1. q # NoNode /\ tab.node[q].val # Nil
      BY <1>5, <2>2 DEF Get
    <3>2. q \in Positions(tab) /\ tab.node[q].key = j
      BY <3>1, Finds DEF IsNodeOf
    <3>. HIDE DEF q
    <3>3. j \in B
      BY <3>1, <3>2
    <3>. QED  BY <3>3
  <2>. QED  BY <2>1, <2>2
<1>. QED  BY <1>2, <1>4, <1>5 DEF InUse

(* After resize there is room for any key of R.                            *)
LEMMA ReadyHasRoom ==
  ASSUME TableAssumption, hash \in Hashes, NEW r, NEW R, Ready(r, R), Outside(r, R), NEW k \in R,
         ~HasSlot(r, k)
  PROVE  HasRoom(r, k)
<1>1. k \in Left(r, R) /\ Good(hash, r) /\ k \in Key
  BY DEF HasSlot, Left, Ready, Outside
<1>2. IsFiniteSet(Left(r, R)) /\ IsFiniteSet(Blanks(r))
  <2>1. Left(r, R) \in SUBSET R /\ IsFiniteSet(R)
    BY DEF Left, Outside
  <2>. QED  BY <1>1, <2>1, BlanksFinite, FS_Subset
<1>3. Cardinality(Left(r, R)) \in Nat /\ Cardinality(Left(r, R)) # 0
  BY <1>1, <1>2, FS_CardinalityType, FS_EmptySet
<1>4. Cardinality(Blanks(r)) # 0
  BY <1>3 DEF Ready
<1>5. Blanks(r) # {} /\ ~r.dummy
  BY <1>1, <1>4, FS_EmptySet DEF Ready
<1>. QED  BY <1>1, <1>5, RoomForOne

(* rehash keeps every field and makes room for its key (ltable.cpp:281).   *)
LEMMA RehashKeeps ==
  ASSUME TableAssumption, hash \in Hashes, NEW tab, Good(hash, tab), Neat(tab),
         NEW ek \in Key, NEW r, r = rehash(tab, ek)
  PROVE  /\ Good(hash, r) /\ Neat(r) /\ Fields(r) = Fields(tab)
         /\ HasSlot(r, ek) \/ HasRoom(r, ek)
<1>. DEFINE all == InUse(tab) \cup {ek}
            ints == {k \in all : Index[k] > 0}
            nasize == computesizes(ints)
            fit == {k \in ints : Index[k] <= nasize}
            R == all \ fit
<1>1. IsFiniteSet(all) /\ all \in SUBSET Key /\ ek \in all
  BY InUseFinite, Counted, FS_AddElement
<1>2. \A j \in Key : Get(tab, j) # Nil => j \in all
  BY Counted
<1>3. rehash(tab, ek) = resize(tab, nasize, Cardinality(all) - Cardinality(fit))
  BY DEF rehash
<1>. HIDE DEF all
<1>4. ints \in SUBSET all /\ fit \in SUBSET all
  OBVIOUS
<1>5. nasize \in Nat
  <2>. HIDE DEF ints
  <2>. QED  BY <1>1, <1>4, FS_Subset, SizesNatural
<1>6. \A j \in all : j \in fit <=> Index[j] \in 1 .. nasize
  <2>1. \A j \in all : Index[j] \in Nat
    BY <1>1 DEF TableAssumption
  <2>. HIDE DEF nasize
  <2>. QED  BY <1>5, <2>1
<1>. HIDE DEF nasize
<1>7. /\ IsFiniteSet(R) /\ Cardinality(R) = Cardinality(all) - Cardinality(fit)
      /\ Cardinality(R) \in Nat
  <2>1. all \cap fit = fit
    BY <1>4
  <2>. HIDE DEF fit
  <2>2. IsFiniteSet(R) /\ Cardinality(R) = Cardinality(all) - Cardinality(all \cap fit)
    BY <1>1, FS_Difference
  <2>. QED  BY <2>1, <2>2, FS_CardinalityType
<1>8. \A j \in R : Index[j] \notin 1 .. nasize
  BY <1>6
<1>9. Covers(tab, R, nasize)
  BY <1>2, <1>6 DEF Covers
<1>10. ek \in R \/ Index[ek] \in 1 .. nasize
  BY <1>1, <1>6
<1>11. R \in SUBSET Key
  BY <1>1
<1>. HIDE DEF R, fit
<1>12. /\ Ready(r, R) /\ Outside(r, R) /\ Fields(r) = Fields(tab)
       /\ \A j \in Key : InArray(r, j) <=> Index[j] \in 1 .. nasize
  <2>. DEFINE nhsize == Cardinality(R)
  <2>1. nhsize \in Nat /\ nhsize <= nhsize /\ r = resize(tab, nasize, nhsize)
    BY <1>3, <1>7
  <2>2. Cardinality(R) <= nhsize
    BY <2>1
  <2>. HIDE DEF nhsize
  <2>. QED  BY <1>5, <1>7, <1>8, <1>9, <1>11, <2>1, <2>2, ResizeKeeps
<1>13. HasSlot(r, ek) \/ HasRoom(r, ek)
  BY <1>10, <1>12, ReadyHasRoom DEF HasSlot
<1>. QED  BY <1>12, <1>13 DEF Ready

(* luaH_set finds or makes a slot, and changes no field (ltable.cpp:417).  *)
LEMMA SetSlotKeeps ==
  ASSUME TableAssumption, hash \in Hashes, NEW tab, Good(hash, tab), Neat(tab),
         NEW k \in Key, NEW r, r = SetSlot(tab, k)
  PROVE  Good(hash, r) /\ Neat(r) /\ Fields(r) = Fields(tab) /\ HasSlot(r, k)
<1>1. ASSUME NEW u, Good(hash, u), Neat(u), ~HasSlot(u, k), HasRoom(u, k)
      PROVE  /\ Good(hash, Insert(u, k)) /\ Neat(Insert(u, k)) /\ Fields(Insert(u, k)) = Fields(u)
             /\ HasSlot(Insert(u, k), k)
  <2>1. Good(hash, Insert(u, k)) /\ Inserted(u, Insert(u, k), k)
    BY <1>1, InsertGood
  <2>2. ~InArray(u, k)
    BY <1>1 DEF HasSlot
  <2>3. Neat(Insert(u, k))
    BY <1>1, <2>1, <2>2, InsertNeat
  <2>. QED  BY <1>1, <2>1, <2>3, InsertKeeps
<1>2. CASE HasSlot(tab, k)
  BY <1>2 DEF SetSlot
<1>3. CASE ~HasSlot(tab, k) /\ HasRoom(tab, k)
  BY <1>1, <1>3 DEF SetSlot
<1>4. CASE ~HasSlot(tab, k) /\ ~HasRoom(tab, k)
  <2>. DEFINE u == rehash(tab, k)
  <2>1. /\ Good(hash, u) /\ Neat(u) /\ Fields(u) = Fields(tab)
        /\ HasSlot(u, k) \/ HasRoom(u, k)
    BY RehashKeeps
  <2>2. r = IF HasSlot(u, k) THEN u
            ELSE IF HasRoom(u, k) THEN Insert(u, k)
            ELSE [u EXCEPT !.overflow = TRUE]
    BY <1>4 DEF SetSlot
  <2>. HIDE DEF u
  <2>3. CASE HasSlot(u, k)
    BY <2>1, <2>2, <2>3
  <2>4. CASE ~HasSlot(u, k)
    <3>1. HasRoom(u, k)
      BY <2>1, <2>4
    <3>2. r = Insert(u, k)
      BY <2>2, <2>4, <3>1
    <3>3. /\ Good(hash, Insert(u, k)) /\ Neat(Insert(u, k)) /\ Fields(Insert(u, k)) = Fields(u)
          /\ HasSlot(Insert(u, k), k)
      BY <1>1, <2>1, <2>4, <3>1
    <3>. QED  BY <2>1, <3>2, <3>3
  <2>. QED  BY <2>3, <2>4
<1>. QED  BY <1>2, <1>3, <1>4

-----------------------------------------------------------------------------
(* The operations and the fields.                                          *)

(* luaH_new makes a table without a field.                                 *)
LEMMA NewIsEmpty ==
  ASSUME TableAssumption, hash \in Hashes, NEW tab, Good(hash, tab), Vacant(tab)
  PROVE  Neat(tab) /\ Fields(tab) = [j \in Key |-> Nil]
<1>1. \A p \in DOMAIN tab.node : tab.node[p].key = Nil
  BY DEF Vacant, FreeNode
<1>2. Neat(tab)
  BY <1>1 DEF Neat, Vacant
<1>3. ASSUME NEW j \in Key PROVE Get(tab, j) = Nil
  <2>1. CASE InArray(tab, j)
    <3>1. Index[j] \in DOMAIN tab.array
      BY <2>1 DEF InArray, Good, Tables
    <3>. QED  BY <2>1, <3>1 DEF Vacant, Get
  <2>2. CASE ~InArray(tab, j)
    <3>1. NoLive(tab.node, j)
      BY <1>1 DEF NoLive, TableAssumption
    <3>. QED  BY <2>2, <3>1, GetNode DEF Get
  <2>. QED  BY <2>1, <2>2
<1>. QED  BY <1>2, <1>3 DEF Fields

(* t[k] = v sets one field (luaH_set and the store through its slot).      *)
LEMMA PutField ==
  ASSUME TableAssumption, hash \in Hashes, NEW tab, Good(hash, tab), Neat(tab),
         NEW k \in Key, NEW v \in Slots, NEW r, r = Store(SetSlot(tab, k), k, v)
  PROVE  Good(hash, r) /\ Neat(r) /\ Fields(r) = [Fields(tab) EXCEPT ![k] = v]
<1>. DEFINE u == SetSlot(tab, k)
<1>1. Good(hash, u) /\ Neat(u) /\ Fields(u) = Fields(tab) /\ HasSlot(u, k)
  BY SetSlotKeeps
<1>. HIDE DEF u
<1>2. r = Store(u, k, v)
  BY DEF u
<1>3. Good(hash, r) /\ Stored(u, r, k, v)
  BY <1>1, <1>2, StoreGood, StoreIs
<1>4. Fields(r) = [Fields(u) EXCEPT ![k] = v]
  BY <1>1, <1>3, StoreKeeps
<1>5. Neat(r)
  BY <1>1, <1>3, StoreReady
<1>. QED  BY <1>1, <1>3, <1>4, <1>5

(* resize for OP_SETLIST keeps what is there (ltable.cpp:274).             *)
LEMMA GrowKeeps ==
  ASSUME TableAssumption, hash \in Hashes, NEW tab, Good(hash, tab), Neat(tab),
         NEW n \in Nat, n > Len(tab.array),
         NEW r, r = resize(tab, n, IF tab.dummy THEN 0 ELSE sizenode(tab))
  PROVE  Good(hash, r) /\ Neat(r) /\ Fields(r) = Fields(tab)
<1>. DEFINE nd == tab.node
            nodes == IF tab.dummy THEN 0 ELSE sizenode(tab)
            D == 0 .. sizenode(tab) - 1
            A == {p \in D : nd[p].key # Nil /\ Index[nd[p].key] \notin 1 .. n}
            f == [p \in A |-> nd[p].key]
            R == {f[p] : p \in A}
<1>1. /\ sizenode(tab) \in Nat \ {0} /\ DOMAIN nd = D /\ Sound(nd, Main(hash, tab))
      /\ Len(tab.array) \in Nat
  <2>1. sizenode(tab) \in Nat \ {0} /\ tab.array \in Seq(Slots)
    BY GoodIs DEF Good, Tables
  <2>. QED  BY <2>1 DEF Good, Positions
<1>2. nodes \in Nat
  BY <1>1
<1>3. IsFiniteSet(D) /\ Cardinality(D) = sizenode(tab)
  <2>. DEFINE m == sizenode(tab) - 1
  <2>1. m \in Int /\ m + 1 = sizenode(tab) /\ m >= 0
    BY <1>1
  <2>. HIDE DEF m
  <2>2. IsFiniteSet(0 .. m)
    BY <2>1, FS_Interval
  <2>3. Cardinality(0 .. m) = IF 0 > m THEN 0 ELSE m - 0 + 1
    BY <2>1, FS_Interval
  <2>4. Cardinality(0 .. m) = m + 1
    BY <2>1, <2>3
  <2>. QED  BY <2>1, <2>2, <2>4 DEF m
<1>4. R \in SUBSET Key /\ \A j \in R : Index[j] \notin 1 .. n
  <2>. SUFFICES ASSUME NEW p \in A PROVE f[p] \in Key /\ Index[f[p]] \notin 1 .. n
    BY ZenonT(40)
  <2>1. f[p] = nd[p].key /\ p \in DOMAIN nd
    BY <1>1
  <2>2. nd[p].key \in Key
    BY <2>1, <1>1 DEF Sound, NodesTrue, Records
  <2>. QED  BY <2>1, <2>2
<1>5. \A p \in D : nd[p].key # Nil /\ Index[nd[p].key] \notin 1 .. n => nd[p].key \in R
  <2>. SUFFICES ASSUME NEW p \in A PROVE nd[p].key \in R
    OBVIOUS
  <2>1. f[p] = nd[p].key
    OBVIOUS
  <2>. QED  BY <2>1
<1>6. f \in Surjection(A, R)
  BY DEF Surjection
<1>7. A \in SUBSET D
  OBVIOUS
<1>8. tab.dummy => A = {}
  BY <1>1 DEF Neat
<1>. HIDE DEF f, A, D
<1>9. IsFiniteSet(A) /\ Cardinality(A) <= sizenode(tab)
  BY <1>3, <1>7, FS_Subset
<1>10. IsFiniteSet(R) /\ Cardinality(R) <= Cardinality(A)
  <2>. HIDE DEF R
  <2>. QED  BY <1>6, <1>9, FS_Surjection
<1>11. Cardinality(R) <= nodes
  <2>1. Cardinality(A) \in Nat /\ Cardinality(R) \in Nat
    BY <1>9, <1>10, FS_CardinalityType
  <2>2. tab.dummy => Cardinality(A) = 0
    BY <1>8, FS_EmptySet
  <2>. QED  BY <1>1, <1>9, <1>10, <2>1, <2>2
<1>. HIDE DEF R
<1>12. Covers(tab, R, n)
  <2>. SUFFICES ASSUME NEW j \in Key, Get(tab, j) # Nil, Index[j] \notin 1 .. n PROVE j \in R
    BY DEF Covers
  <2>1. ~InArray(tab, j)
    BY <1>1 DEF InArray
  <2>. DEFINE q == NodeOf(tab, j)
  <2>2. q # NoNode
    BY <2>1 DEF Get
  <2>3. q \in D /\ nd[q].key = j /\ j # Nil
    BY <1>1, <2>2, Finds DEF IsNodeOf, Good
  <2>. HIDE DEF q
  <2>. QED  BY <1>5, <2>3
<1>13. r = resize(tab, n, nodes)
  OBVIOUS
<1>. HIDE DEF nodes
<1>. QED  BY <1>2, <1>4, <1>10, <1>11, <1>12, <1>13, ResizeKeeps, SMTT(40) DEF Ready

(* Fields of r are those of tab, or v.                                     *)
Mixed(tab, r, v) ==
  Good(hash, r) /\ Neat(r) /\ \A j \in Key : Get(r, j) \in {Get(tab, j), v}

(* OP_SETLIST gives several fields the value v and keeps the others.       *)
LEMMA ListFields ==
  ASSUME TableAssumption, hash \in Hashes, NEW tab, Good(hash, tab), Neat(tab),
         NEW n \in Lists, NEW v \in Slots
  PROVE  Mixed(tab, ListStored(n, v, tab)[n], v)
<1>. DEFINE c == ListStored(n, v, tab)
            S == {i \in 0 .. n : Mixed(tab, c[i], v)}
<1>1. n \in Nat /\ \A i \in 1 .. n : KeyAt(i) \in Key
  BY DEF TableAssumption, KeyAt
<1>2. ListRun(n, v, tab, c)
  BY ListGood
<1>. HIDE DEF c
<1>3. 0 \in S
  BY <1>1, <1>2 DEF ListRun, Mixed
<1>4. ASSUME NEW i \in 0 .. n - 1, i \in S PROVE i + 1 \in S
  <2>. DEFINE x == i + 1
              k == KeyAt(n + 1 - x)
              s == c[i]
              r == c[x]
  <2>1. x \in 1 .. n /\ x - 1 = i /\ x \in 0 .. n /\ n + 1 - x \in 1 .. n
    BY <1>1
  <2>2. k \in Key
    BY <1>1, <2>1
  <2>3. r = Store(SetSlot(s, k), k, v)
    BY <1>2, <2>1 DEF ListRun, SetNum
  <2>4. Mixed(tab, s, v)
    BY <1>4
  <2>. HIDE DEF x, k, s, r
  <2>5. Good(hash, r) /\ Neat(r) /\ Fields(r) = [Fields(s) EXCEPT ![k] = v]
    BY <2>2, <2>3, <2>4, PutField DEF Mixed
  <2>6. \A j \in Key : Get(r, j) = IF j = k THEN v ELSE Get(s, j)
    BY <2>2, <2>5 DEF Fields
  <2>7. Mixed(tab, r, v)
    BY <2>4, <2>5, <2>6 DEF Mixed
  <2>. QED  BY <2>1, <2>7 DEF x, r
<1>. HIDE DEF S
<1>5. 0 .. n \subseteq S
  BY <1>1, <1>3, <1>4, UpTo
<1>6. n \in S
  BY <1>1, <1>5
<1>. QED  BY <1>6 DEF S, c

-----------------------------------------------------------------------------
(* The traversal.  Slots of the array part are numbered from 0, then the   *)
(* nodes; a key with a value is at its place.                              *)
Place(tab, k) == IF InArray(tab, k) THEN Index[k] - 1 ELSE NodeOf(tab, k) + Len(tab.array)

Occupied(tab, i) == IF i < Len(tab.array) THEN tab.array[i + 1] # Nil
                    ELSE tab.node[i - Len(tab.array)].val # Nil

Places(tab) == 0 .. Len(tab.array) + sizenode(tab) - 1

(* findindex finds the first node with the key, whatever is dead.          *)
LEMMA FindNodeIs ==
  ASSUME TableAssumption, hash \in Hashes, NEW tab, Good(hash, tab), NEW k \in Key
  PROVE  /\ IsFirst(tab, mainposition(tab, k), {p \in Positions(tab) : tab.node[p].key = k},
                    findnode(tab, k))
         /\ mainposition(tab, k) = Main(hash, tab)[k] /\ mainposition(tab, k) \in Positions(tab)
<1>. DEFINE P == {p \in Positions(tab) : tab.node[p].key = k}
            m == mainposition(tab, k)
<1>1. Linked(tab) /\ m = Main(hash, tab)[k] /\ m \in Positions(tab)
  BY GoodIs, MainIs
<1>2. P = {p \in Positions(tab) : tab.node[p].key = k /\ (tab.node[p].dead => k \in Collectable)}
  BY DEF Good, Sound, NodesTrue
<1>3. findnode(tab, k) = FirstInChain(tab, k, P)
  BY <1>2 DEF findnode
<1>4. P \in SUBSET Positions(tab)
  OBVIOUS
<1>. HIDE DEF P
<1>5. IsFirst(tab, m, P, findnode(tab, k))
  BY <1>1, <1>3, <1>4, FirstIs
<1>. QED  BY <1>1, <1>5 DEF P

(* A live node comes first, so that is where findindex finds its key.      *)
LEMMA FindsLive ==
  ASSUME TableAssumption, hash \in Hashes, NEW tab, Good(hash, tab), NEW p \in Positions(tab),
         NEW k \in Key, tab.node[p].key = k, ~tab.node[p].dead
  PROVE  findnode(tab, k) = p
<1>. DEFINE nd == tab.node
            m == mainposition(tab, k)
            P == {x \in Positions(tab) : nd[x].key = k}
            q == findnode(tab, k)
<1>1. IsFirst(tab, m, P, q) /\ m = Main(hash, tab)[k]
  BY FindNodeIs
<1>2. DOMAIN nd = Positions(tab) /\ Sound(nd, Main(hash, tab)) /\ k # Nil
  BY DEF Good, TableAssumption
<1>3. Reach(nd, m, p)
  BY <1>1, <1>2 DEF Sound, Reached
<1>4. q \in P /\ Reach(nd, q, p)
  BY <1>1, <1>3 DEF IsFirst
<1>5. Reach(nd, p, q)
  BY <1>2, <1>4 DEF Sound, FirstLive
<1>. QED  BY <1>2, <1>4, <1>5, ReachOneWay DEF Sound

(* Where a key with a value is.                                            *)
AtPlace(tab, k, i) ==
  /\ i \in Places(tab) /\ Occupied(tab, i) /\ KeyAtIndex(tab, i) = k
  /\ Place(tab, k) = i /\ findindex(tab, k) = i

(* A key with a value is at its place, and there alone.                    *)
LEMMA PlaceOf ==
  ASSUME TableAssumption, hash \in Hashes, NEW tab, Good(hash, tab), NEW k \in Key,
         Get(tab, k) # Nil
  PROVE  AtPlace(tab, k, Place(tab, k))
<1>. DEFINE a == Len(tab.array)
            n == sizenode(tab)
            i == Place(tab, k)
<1>1. /\ tab.array \in Seq(Slots) /\ a \in Nat /\ n \in Nat /\ k # Nil
      /\ Positions(tab) = 0 .. n - 1 /\ NoNode \notin Positions(tab) /\ Index[k] \in Nat
  <2>1. tab.array \in Seq(Slots) /\ n \in Nat /\ NoNode \notin Positions(tab)
    BY GoodIs DEF Good, Tables
  <2>. QED  BY <2>1 DEF Positions, TableAssumption
<1>2. CASE InArray(tab, k)
  <2>1. i = Index[k] - 1 /\ Index[k] \in 1 .. a /\ tab.array[Index[k]] # Nil
    BY <1>2 DEF Place, InArray, Get
  <2>2. KeyAt(Index[k]) = k
    BY <2>1 DEF KeyAt, TableAssumption
  <2>3. i + 1 = Index[k] /\ i < a /\ i \in Places(tab)
    BY <1>1, <2>1 DEF Places
  <2>4. findindex(tab, k) = i
    BY <1>1, <1>2, <2>1 DEF findindex
  <2>. QED  BY <2>1, <2>2, <2>3, <2>4 DEF AtPlace, Occupied, KeyAtIndex
<1>3. CASE ~InArray(tab, k)
  <2>. DEFINE q == NodeOf(tab, k)
  <2>1. i = q + a /\ q # NoNode /\ tab.node[q].val # Nil
    BY <1>3 DEF Place, Get
  <2>2. q \in Positions(tab) /\ tab.node[q].key = k /\ ~tab.node[q].dead
    BY <2>1, Finds DEF IsNodeOf
  <2>3. findnode(tab, k) = q
    BY <2>2, FindsLive
  <2>. HIDE DEF q
  <2>4. i - a = q /\ ~(i < a) /\ i \in Places(tab)
    BY <1>1, <2>1, <2>2 DEF Places
  <2>5. findindex(tab, k) = i
    BY <1>1, <1>3, <2>1, <2>3 DEF findindex
  <2>. QED  BY <2>1, <2>2, <2>4, <2>5 DEF AtPlace, Occupied, KeyAtIndex
<1>. QED  BY <1>2, <1>3

(* A place with a value is that of its key.                                *)
LEMMA KeyOf ==
  ASSUME TableAssumption, hash \in Hashes, NEW tab, Good(hash, tab), Neat(tab),
         NEW i \in Places(tab), Occupied(tab, i), NEW k, k = KeyAtIndex(tab, i)
  PROVE  k \in Key /\ Get(tab, k) # Nil /\ Place(tab, k) = i
<1>. DEFINE a == Len(tab.array)
            n == sizenode(tab)
<1>1. /\ tab.array \in Seq(Slots) /\ a \in Nat /\ n \in Nat /\ ArrayKeys(tab) /\ i \in Nat
      /\ Positions(tab) = 0 .. n - 1 /\ DOMAIN tab.node = Positions(tab)
      /\ Sound(tab.node, Main(hash, tab)) /\ NoNode \notin Positions(tab)
  <2>1. tab.array \in Seq(Slots) /\ n \in Nat /\ NoNode \notin Positions(tab)
    BY GoodIs DEF Good, Tables
  <2>. QED  BY <2>1 DEF Positions, Good, Places
<1>2. CASE i < a
  <2>1. i + 1 \in DOMAIN tab.array /\ tab.array[i + 1] # Nil /\ k = KeyAt(i + 1)
    BY <1>1, <1>2 DEF Occupied, KeyAtIndex
  <2>2. k \in Key /\ Index[k] = i + 1
    BY <2>1, <1>1 DEF ArrayKeys, KeyAt
  <2>3. InArray(tab, k)
    BY <1>1, <1>2, <2>2 DEF InArray
  <2>. QED  BY <1>1, <2>1, <2>2, <2>3 DEF Get, Place
<1>3. CASE ~(i < a)
  <2>. DEFINE p == i - a
  <2>1. p \in Positions(tab) /\ tab.node[p].val # Nil /\ k = tab.node[p].key /\ i = p + a
    BY <1>1, <1>3 DEF Occupied, KeyAtIndex, Places
  <2>. HIDE DEF p
  <2>2. k \in Key /\ k # Nil /\ ~tab.node[p].dead
    BY <1>1, <2>1 DEF Sound, NodesTrue, Records, TableAssumption
  <2>3. ~InArray(tab, k)
    BY <1>1, <2>1, <2>2 DEF Neat
  <2>4. NodeOf(tab, k) = p
    <3>1. IsNodeOf(tab, k, NodeOf(tab, k)) /\ NodeOf(tab, k) # NoNode
      BY <1>1, <2>1, <2>2, <2>3, Finds, GetNode DEF NoLive
    <3>. QED  BY <1>1, <2>1, <2>2, <3>1 DEF IsNodeOf, Sound, OneLive
  <2>. QED  BY <1>1, <2>1, <2>2, <2>3, <2>4 DEF Get, Place
<1>. QED  BY <1>2, <1>3

(* A change that moves no key and brings no dead one to life.              *)
Fixed(tab, r) ==
  /\ Len(r.array) = Len(tab.array) /\ r.lsizenode = tab.lsizenode
  /\ DOMAIN r.node = DOMAIN tab.node
  /\ \A p \in DOMAIN tab.node :
        /\ r.node[p].key = tab.node[p].key /\ r.node[p].next = tab.node[p].next
        /\ tab.node[p].dead => r.node[p].dead

(* findindex and the places of the keys are as before.                     *)
LEMMA SamePlaces ==
  ASSUME TableAssumption, hash \in Hashes, NEW tab, Good(hash, tab), NEW r, Good(hash, r),
         Fixed(tab, r)
  PROVE  /\ \A c \in Key \cup {Nil} : findindex(r, c) = findindex(tab, c)
         /\ \A k \in Key : Get(r, k) # Nil => Place(r, k) = Place(tab, k)
<1>. DEFINE nd == tab.node
<1>1. \A k \in Key : InArray(r, k) <=> InArray(tab, k)
  BY DEF Fixed, InArray
<1>2. /\ Positions(r) = Positions(tab) /\ DOMAIN nd = Positions(tab)
      /\ \A k : mainposition(r, k) = mainposition(tab, k)
      /\ Sound(nd, Main(hash, tab)) /\ NoNode \notin Positions(tab)
  <2>1. sizenode(r) = sizenode(tab)
    BY DEF Fixed, sizenode
  <2>. QED  BY <2>1, GoodIs DEF Fixed, Positions, mainposition, Good
<1>3. ASSUME NEW k \in Key PROVE findnode(r, k) = findnode(tab, k)
  <2>. DEFINE P == {p \in Positions(tab) : nd[p].key = k}
              m == mainposition(tab, k)
              q == findnode(tab, k)
              u == findnode(r, k)
  <2>1. IsFirst(tab, m, P, q)
    BY FindNodeIs
  <2>2. IsFirst(r, m, P, u)
    <3>1. P = {p \in Positions(r) : r.node[p].key = k}
      BY <1>2 DEF Fixed
    <3>2. mainposition(r, k) = m
      BY <1>2
    <3>3. IsFirst(r, mainposition(r, k), {p \in Positions(r) : r.node[p].key = k}, u)
      BY FindNodeIs
    <3>. HIDE DEF P, m, u
    <3>. QED  BY <3>1, <3>2, <3>3
  <2>3. \A x, y : Reach(r.node, x, y) <=> Reach(nd, x, y)
    BY SameLinks DEF Fixed, SameWays
  <2>4. P \in SUBSET Positions(tab)
    OBVIOUS
  <2>. HIDE DEF P, m, q, u
  <2>5. CASE q = NoNode
    BY <1>2, <2>1, <2>2, <2>3, <2>4, <2>5 DEF IsFirst, q, u
  <2>6. CASE q # NoNode
    <3>1. q \in P /\ Reach(nd, m, q) /\ \A p \in P : Reach(nd, m, p) => Reach(nd, q, p)
      BY <2>1, <2>6 DEF IsFirst
    <3>2. u \in P /\ Reach(nd, m, u) /\ \A p \in P : Reach(nd, m, p) => Reach(nd, u, p)
      BY <2>2, <2>3, <3>1 DEF IsFirst
    <3>3. q = u
      BY <1>2, <2>4, <3>1, <3>2, ReachOneWay DEF Sound
    <3>. QED  BY <3>3 DEF q, u
  <2>. QED  BY <2>5, <2>6
<1>4. \A c \in Key \cup {Nil} : findindex(r, c) = findindex(tab, c)
  BY <1>1, <1>3 DEF findindex, Fixed
<1>5. ASSUME NEW k \in Key, Get(r, k) # Nil PROVE Place(r, k) = Place(tab, k)
  <2>1. CASE InArray(r, k)
    BY <1>1, <2>1 DEF Place
  <2>2. CASE ~InArray(r, k)
    <3>. DEFINE q == NodeOf(r, k)
    <3>1. q # NoNode
      BY <1>5, <2>2 DEF Get
    <3>2. q \in Positions(r) /\ r.node[q].key = k /\ ~r.node[q].dead
      BY <3>1, Finds DEF IsNodeOf
    <3>. HIDE DEF q
    <3>3. q \in DOMAIN nd /\ nd[q].key = k /\ ~nd[q].dead
      BY <1>2, <3>2 DEF Fixed
    <3>4. NodeOf(tab, k) = q
      <4>1. IsNodeOf(tab, k, NodeOf(tab, k)) /\ k # Nil
        BY Finds
      <4>2. ~NoLive(nd, k)
        BY <3>3 DEF NoLive
      <4>. QED  BY <1>2, <3>3, <4>1, <4>2 DEF IsNodeOf, Sound, OneLive
    <3>. QED  BY <1>1, <2>2, <3>4 DEF Place, Fixed, q
  <2>. QED  BY <2>1, <2>2
<1>. QED  BY <1>4, <1>5

-----------------------------------------------------------------------------
(* The refinement.  Of the keys with a value, luaH_next has returned those *)
(* whose place is not after that of the last.                              *)
Walked(tab, c, s) ==
  \A k \in Key : Get(tab, k) # Nil => (k \in s <=> Place(tab, k) <= findindex(tab, c))

MapInv ==
  TableInv /\ Neat(t) /\ fields = Fields(t) /\ (walking => Walked(t, cur, seen))

(* A change that moves no key and adds none leaves the traversal where it  *)
(* was.                                                                    *)
LEMMA WalkKept ==
  ASSUME TableAssumption, hash \in Hashes, NEW tab, Good(hash, tab), NEW r, Good(hash, r),
         Fixed(tab, r), \A k \in Key : Get(r, k) # Nil => Get(tab, k) # Nil,
         NEW c \in Key \cup {Nil}, NEW s, Walked(tab, c, s)
  PROVE  Walked(r, c, s)
<1>. SUFFICES ASSUME NEW k \in Key, Get(r, k) # Nil
              PROVE  k \in s <=> Place(r, k) <= findindex(r, c)
  BY DEF Walked
<1>1. findindex(r, c) = findindex(tab, c) /\ Place(r, k) = Place(tab, k)
  BY SamePlaces
<1>2. k \in s <=> Place(tab, k) <= findindex(tab, c)
  BY DEF Walked
<1>. QED  BY <1>1, <1>2

(* An assignment.                                                          *)
LEMMA PutMaps ==
  ASSUME TableAssumption, MapInv, NEW k \in Key, NEW v \in Slots, Put(k, v)
  PROVE  /\ Neat(t') /\ fields' = Fields(t') /\ (walking' => Walked(t', cur, seen))
         /\ Map!Put(k, v)
<1>. DEFINE r == Store(SetSlot(t, k), k, v)
<1>1. /\ hash \in Hashes /\ Good(hash, t) /\ Neat(t) /\ fields = Fields(t)
      /\ cur \in Key \cup {Nil} /\ (walking => Walked(t, cur, seen)) /\ walking \in BOOLEAN
  BY DEF MapInv, TableInv, State
<1>2. /\ t' = r /\ fields' = Fields(r) /\ walking' = (walking /\ Get(t, k) # Nil)
      /\ UNCHANGED <<seen, visits>>
  BY DEF Put, Become, Fields
<1>3. Good(hash, r) /\ Neat(r) /\ Fields(r) = [Fields(t) EXCEPT ![k] = v]
  BY <1>1, PutField
<1>4. Get(t, k) = fields[k]
  BY <1>1 DEF Fields
<1>5. Map!Put(k, v)
  <2>. HIDE DEF r
  <2>. QED  BY <1>1, <1>2, <1>3, <1>4 DEF Map!Put, Map!Present
<1>6. ASSUME walking, Get(t, k) # Nil PROVE Walked(r, cur, seen)
  <2>1. HasSlot(t, k)
    BY <1>1, <1>6, GetIs
  <2>2. r = Store(t, k, v)
    BY <1>1, <2>1, SetSlotGood
  <2>. HIDE DEF r
  <2>3. Stored(t, r, k, v)
    BY <1>1, <2>2, StoreIs
  <2>4. Fixed(t, r)
    BY <2>3 DEF Stored, Fixed
  <2>5. \A j \in Key : Get(r, j) = IF j = k THEN v ELSE Get(t, j)
    BY <1>3 DEF Fields
  <2>6. \A j \in Key : Get(r, j) # Nil => Get(t, j) # Nil
    BY <1>6, <2>5
  <2>. QED  BY <1>1, <1>3, <1>6, <2>4, <2>6, WalkKept
<1>. HIDE DEF r
<1>7. walking' => Walked(t', cur, seen)
  BY <1>2, <1>6
<1>. QED  BY <1>2, <1>3, <1>5, <1>7

(* OP_SETLIST.                                                             *)
LEMMA SetListMaps ==
  ASSUME TableAssumption, MapInv, NEW n \in Lists, NEW v \in Slots, SetList(n, v)
  PROVE  Neat(t') /\ fields' = Fields(t') /\ ~walking /\ Map!PutAll(v)
<1>. DEFINE nodes == IF t.dummy THEN 0 ELSE sizenode(t)
            enough == IF n > Len(t.array) THEN resize(t, n, nodes) ELSE t
            r == ListStored(n, v, enough)[n]
<1>1. hash \in Hashes /\ Good(hash, t) /\ Neat(t) /\ fields = Fields(t) /\ n \in Nat
  BY DEF MapInv, TableInv, State, TableAssumption
<1>2. Good(hash, enough) /\ Neat(enough) /\ Fields(enough) = Fields(t)
  <2>1. CASE n > Len(t.array)
    <3>1. enough = resize(t, n, IF t.dummy THEN 0 ELSE sizenode(t))
      BY <2>1
    <3>. HIDE DEF enough
    <3>. QED  BY <1>1, <2>1, <3>1, GrowKeeps
  <2>2. CASE ~(n > Len(t.array))
    BY <1>1, <2>2
  <2>. QED  BY <2>1, <2>2
<1>3. t' = r /\ fields' = Fields(r) /\ ~walking /\ UNCHANGED walk
  BY DEF SetList, Become, Loop, ListStored, SetNum, Fields
<1>. HIDE DEF enough
<1>4. Mixed(enough, r, v)
  BY <1>1, <1>2, ListFields
<1>. HIDE DEF r
<1>5. \A j \in Key : fields'[j] = Get(r, j) /\ fields[j] = Get(enough, j)
  BY <1>1, <1>2, <1>3 DEF Fields
<1>6. fields' \in [Key -> Values \cup {Nil}]
  BY <1>1, <1>3, <1>4, GetIs DEF Mixed, Fields, Slots
<1>7. Map!PutAll(v)
  BY <1>3, <1>4, <1>5, <1>6 DEF Map!PutAll, Mixed, walk
<1>. QED  BY <1>3, <1>4, <1>7 DEF Mixed

(* The collector marks dead keys: no field changes.                        *)
LEMMA CollectMaps ==
  ASSUME TableAssumption, MapInv, Collect
  PROVE  /\ Neat(t') /\ fields' = Fields(t') /\ (walking => Walked(t', cur, seen))
         /\ fields' = fields /\ UNCHANGED walk
<1>. DEFINE r == Marked(t)
            nd == t.node
<1>1. /\ hash \in Hashes /\ Good(hash, t) /\ Neat(t) /\ fields = Fields(t)
      /\ cur \in Key \cup {Nil} /\ (walking => Walked(t, cur, seen))
  BY DEF MapInv, TableInv, State
<1>2. t' = r /\ fields' = Fields(r) /\ UNCHANGED walk
  BY DEF Collect, Become, Marked, Fields
<1>3. Good(hash, r) /\ OnlyMarked(t, r)
  BY <1>1, MarkedGood
<1>. HIDE DEF r
<1>4. /\ r.array = t.array /\ r.dummy = t.dummy /\ r.overflow = t.overflow
      /\ DOMAIN r.node = DOMAIN nd
      /\ \A p \in DOMAIN nd : /\ r.node[p].key = nd[p].key /\ r.node[p].val = nd[p].val
                              /\ ~r.node[p].dead => ~nd[p].dead
                              /\ nd[p].val # Nil /\ ~nd[p].dead => ~r.node[p].dead
  BY <1>3 DEF OnlyMarked, Unused
<1>5. Fixed(t, r)
  BY <1>3 DEF Fixed, OnlyMarked
<1>6. \A j \in Key : InArray(r, j) <=> InArray(t, j)
  BY <1>4 DEF InArray
<1>7. Neat(r)
  <2>1. \A p \in DOMAIN nd : nd[p].key # Nil => nd[p].key \in Key
    BY <1>1 DEF Good, Sound, NodesTrue, Records
  <2>. QED  BY <1>1, <1>4, <1>6, <2>1 DEF Neat
<1>8. ASSUME NEW j \in Key PROVE Get(r, j) = Get(t, j)
  <2>1. CASE InArray(t, j)
    BY <1>4, <1>6, <2>1 DEF Get
  <2>2. CASE ~InArray(t, j)
    <3>1. SameValues(t, r, j)
      BY <1>4 DEF SameValues, Has, TableAssumption
    <3>. QED  BY <1>1, <1>3, <1>6, <2>2, <3>1, SameGet
  <2>. QED  BY <2>1, <2>2
<1>9. Fields(r) = Fields(t)
  BY <1>8 DEF Fields
<1>10. walking => Walked(r, cur, seen)
  BY <1>1, <1>3, <1>5, <1>8, WalkKept
<1>. QED  BY <1>1, <1>2, <1>7, <1>9, <1>10

(* luaH_next with Nil comes before every field.                            *)
LEMMA BeginWalk ==
  ASSUME TableAssumption, hash \in Hashes, NEW tab, Good(hash, tab)
  PROVE  Walked(tab, Nil, {})
<1>. SUFFICES ASSUME NEW k \in Key, Get(tab, k) # Nil PROVE ~(Place(tab, k) <= findindex(tab, Nil))
  BY DEF Walked
<1>1. Place(tab, k) \in Nat
  BY PlaceOf DEF AtPlace, Places
<1>2. findindex(tab, Nil) = -1
  BY DEF findindex
<1>. QED  BY <1>1, <1>2

(* A place with a value that is not before index i comes after it.         *)
LEMMA FollowingIs ==
  ASSUME TableAssumption, hash \in Hashes, NEW tab, Good(hash, tab), NEW c \in Key \cup {Nil}
  PROVE  Following(tab, c) = {i \in Places(tab) : i > findindex(tab, c) /\ Occupied(tab, i)}
<1>1. findindex(tab, c) \in Int /\ findindex(tab, c) >= -1
  BY IndexIs
<1>2. Len(tab.array) \in Nat /\ sizenode(tab) \in Nat
  <2>1. tab.array \in Seq(Slots) /\ sizenode(tab) \in Nat
    BY GoodIs DEF Good, Tables
  <2>. QED  BY <2>1
<1>. DEFINE f == findindex(tab, c)
            m == Len(tab.array) + sizenode(tab) - 1
<1>3. Following(tab, c) = {i \in f + 1 .. m : Occupied(tab, i)}
  BY DEF Following, Occupied
<1>4. Places(tab) = 0 .. m
  BY DEF Places
<1>. HIDE DEF f
<1>. QED  BY <1>1, <1>2, <1>3, <1>4 DEF f

(* luaH_next returns the field that comes next, which it has not returned  *)
(* yet.                                                                    *)
LEMMA VisitMaps ==
  ASSUME TableAssumption, MapInv, Visit
  PROVE  /\ Walked(t, cur', seen')
         /\ \E k \in Key : Map!Visit(k)
<1>. DEFINE F == Following(t, cur)
            i == Min(F)
            k == KeyAtIndex(t, i)
            f == findindex(t, cur)
<1>1. /\ hash \in Hashes /\ Good(hash, t) /\ Neat(t) /\ fields = Fields(t)
      /\ cur \in Key \cup {Nil} /\ walking /\ Walked(t, cur, seen) /\ F # {}
  BY DEF MapInv, TableInv, State, Visit
<1>2. f \in Int /\ f >= -1
  BY <1>1, IndexIs
<1>3. F = {x \in Places(t) : x > f /\ Occupied(t, x)}
  BY <1>1, FollowingIs
<1>4. Places(t) \in SUBSET Nat
  BY DEF Places
<1>5. /\ cur' = k /\ seen' = seen \cup {k} /\ visits' = visits + 1
      /\ UNCHANGED <<t, fields, walking>>
  BY DEF Visit, table
<1>. HIDE DEF F
<1>6. i \in F /\ \A x \in F : i <= x
  <2>1. F \in SUBSET Nat
    BY <1>3, <1>4
  <2>. QED  BY <1>1, <2>1, Smallest
<1>. HIDE DEF i, f
<1>7. i \in Places(t) /\ Occupied(t, i) /\ i > f /\ i \in Nat
  BY <1>3, <1>4, <1>6
<1>. HIDE DEF k
<1>8. k \in Key /\ Get(t, k) # Nil /\ Place(t, k) = i
  BY <1>1, <1>7, KeyOf DEF k
<1>9. findindex(t, k) = i
  BY <1>1, <1>8, PlaceOf DEF AtPlace
<1>10. ASSUME NEW j \in Key, Get(t, j) # Nil
       PROVE  /\ Place(t, j) \in Nat /\ (Place(t, j) = i => j = k)
              /\ (Place(t, j) > f => i <= Place(t, j))
              /\ (j \in seen <=> Place(t, j) <= f)
  <2>1. AtPlace(t, j, Place(t, j))
    BY <1>1, <1>10, PlaceOf
  <2>2. Place(t, j) \in Places(t) /\ Occupied(t, Place(t, j)) /\ KeyAtIndex(t, Place(t, j)) = j
    BY <2>1 DEF AtPlace
  <2>3. Place(t, j) > f => Place(t, j) \in F
    BY <1>3, <2>2
  <2>4. j \in seen <=> Place(t, j) <= f
    BY <1>1, <1>10 DEF Walked, f
  <2>. QED  BY <1>4, <1>6, <2>2, <2>3, <2>4 DEF k
<1>11. Walked(t, k, seen \cup {k})
  <2>. SUFFICES ASSUME NEW j \in Key, Get(t, j) # Nil
                PROVE  j \in seen \cup {k} <=> Place(t, j) <= i
    BY <1>9 DEF Walked
  <2>. QED  BY <1>2, <1>7, <1>8, <1>10
<1>12. k \notin seen
  BY <1>2, <1>7, <1>8, <1>10
<1>13. fields[k] # Nil
  BY <1>1, <1>8 DEF Fields
<1>14. Map!Visit(k)
  BY <1>1, <1>5, <1>12, <1>13 DEF Map!Visit, Map!Present
<1>. QED  BY <1>5, <1>8, <1>11, <1>14

(* luaH_next returns 0 only when it has returned every field.              *)
LEMMA FinishMaps ==
  ASSUME TableAssumption, MapInv, Finish
  PROVE  Map!Finish
<1>1. /\ hash \in Hashes /\ Good(hash, t) /\ fields = Fields(t) /\ cur \in Key \cup {Nil}
      /\ walking /\ Walked(t, cur, seen) /\ Following(t, cur) = {}
  BY DEF MapInv, TableInv, State, Finish
<1>2. ASSUME NEW j \in Key, fields[j] # Nil PROVE j \in seen
  <2>1. Get(t, j) # Nil
    BY <1>1, <1>2 DEF Fields
  <2>2. Place(t, j) \in Places(t) /\ Occupied(t, Place(t, j)) /\ Place(t, j) \in Nat
    BY <1>1, <2>1, PlaceOf DEF AtPlace, Places
  <2>3. ~(Place(t, j) > findindex(t, cur))
    BY <1>1, <2>2, FollowingIs
  <2>4. Place(t, j) <= findindex(t, cur)
    BY <1>1, <2>2, <2>3, IndexIs
  <2>. QED  BY <1>1, <2>1, <2>4 DEF Walked
<1>3. walking' = FALSE /\ fields' = fields /\ seen' = seen /\ visits' = visits
  BY DEF Finish, table
<1>. QED  BY <1>1, <1>2, <1>3 DEF Map!Finish, Map!Present

-----------------------------------------------------------------------------
(* The first state is that of a map.                                       *)
LEMMA MapStart ==
  ASSUME TableAssumption, Init, TableInv
  PROVE  MapInv /\ Map!Init
<1>1. hash \in Hashes /\ Good(hash, t)
  BY DEF TableInv, State
<1>2. PICK narray \in ArraySizes, nhash \in NodeSizes : t = luaH_new(narray, nhash)
  BY DEF Init
<1>3. narray \in Nat /\ nhash \in Nat
  BY DEF TableAssumption
<1>4. Vacant(t)
  BY <1>1, <1>2, <1>3, InitGood
<1>5. Neat(t) /\ Fields(t) = [j \in Key |-> Nil]
  BY <1>1, <1>4, NewIsEmpty
<1>. QED  BY <1>5 DEF Init, MapInv, Map!Init

(* No step changes the hash function, so what luaH_get and luaH_next find  *)
(* depends on the table alone.                                             *)
LEMMA SameHash ==
  ASSUME [Next]_vars
  PROVE  /\ Fields(t)' = Fields(t')
         /\ Walked(t, cur, seen)' <=> Walked(t', cur', seen')
<1>1. hash' = hash
  BY Zenon DEF Next, Put, SetList, Collect, Begin, Visit, Finish, vars
<1>2. ASSUME NEW j \in Key PROVE NodeOf(t, j)' = NodeOf(t', j)
  BY <1>1 DEF NodeOf, FirstInChain, mainposition
<1>3. ASSUME NEW j \in Key PROVE Get(t, j)' = Get(t', j) /\ Place(t, j)' = Place(t', j)
  BY <1>2 DEF Get, Place
<1>4. findindex(t, cur)' = findindex(t', cur')
  <2>1. findnode(t, cur)' = findnode(t', cur')
    BY <1>1 DEF findnode, FirstInChain, mainposition
  <2>. QED  BY <2>1 DEF findindex
<1>5. Fields(t)' = Fields(t')
  BY <1>3 DEF Fields
<1>6. Walked(t, cur, seen)' <=> Walked(t', cur', seen')
  BY <1>3, <1>4 DEF Walked
<1>. QED  BY <1>5, <1>6

(* Every step keeps the invariant and is one of the map, or none.          *)
LEMMA MapStep ==
  ASSUME TableAssumption, MapInv, [Next]_vars, TableInv'
  PROVE  MapInv' /\ [Map!Next]_(Map!vars)
<1>. DEFINE Keeping == Neat(t') /\ fields' = Fields(t') /\ (walking' => Walked(t', cur', seen'))
            Mapping == [Map!Next]_(Map!vars)
<1>1. SUFFICES Keeping /\ Mapping
  BY SameHash DEF MapInv
<1>2. Neat(t) /\ fields = Fields(t) /\ (walking => Walked(t, cur, seen)) /\ hash \in Hashes /\ Good(hash, t)
  BY DEF MapInv, TableInv, State
<1>3. ASSUME NEW k \in Key, NEW v \in Slots, Put(k, v) PROVE Keeping /\ Mapping
  <2>1. /\ Neat(t') /\ fields' = Fields(t') /\ (walking' => Walked(t', cur, seen)) /\ Map!Put(k, v)
    BY <1>3, PutMaps
  <2>2. UNCHANGED <<cur, seen>>
    BY <1>3 DEF Put
  <2>3. Map!Next
    BY <2>1 DEF Map!Next, Slots
  <2>. QED  BY <2>1, <2>2, <2>3
<1>4. ASSUME NEW n \in Lists, NEW v \in Slots, SetList(n, v) PROVE Keeping /\ Mapping
  <2>1. Neat(t') /\ fields' = Fields(t') /\ ~walking /\ Map!PutAll(v)
    BY <1>4, SetListMaps
  <2>2. UNCHANGED walk
    BY <1>4, Zenon DEF SetList
  <2>3. Map!Next
    BY <2>1 DEF Map!Next, Slots
  <2>. QED  BY <2>1, <2>2, <2>3 DEF walk
<1>5. CASE Collect
  <2>1. /\ Neat(t') /\ fields' = Fields(t') /\ (walking => Walked(t', cur, seen))
        /\ fields' = fields /\ UNCHANGED walk
    BY <1>5, CollectMaps
  <2>. QED  BY <2>1 DEF Map!vars, walk
<1>6. CASE Begin
  <2>1. /\ walking' = TRUE /\ cur' = Nil /\ seen' = {} /\ visits' = 0
        /\ t' = t /\ fields' = fields /\ ~walking
    BY <1>6 DEF Begin, table
  <2>2. Walked(t, Nil, {})
    BY <1>2, BeginWalk
  <2>3. Map!Next
    BY <2>1 DEF Map!Next, Map!Begin
  <2>. QED  BY <1>2, <2>1, <2>2, <2>3
<1>7. CASE Visit
  <2>1. Walked(t, cur', seen') /\ \E k \in Key : Map!Visit(k)
    BY <1>7, VisitMaps
  <2>2. t' = t /\ fields' = fields
    BY <1>7 DEF Visit, table
  <2>3. Map!Next
    BY <2>1 DEF Map!Next
  <2>. QED  BY <1>2, <2>1, <2>2, <2>3
<1>8. CASE Finish
  <2>1. Map!Finish
    BY <1>8, FinishMaps
  <2>2. t' = t /\ fields' = fields /\ ~walking'
    BY <1>8 DEF Finish, table
  <2>3. Map!Next
    BY <2>1 DEF Map!Next
  <2>. QED  BY <1>2, <2>1, <2>2, <2>3
<1>9. CASE UNCHANGED vars
  BY <1>2, <1>9 DEF vars, Map!vars
<1>. QED  BY <1>3, <1>4, <1>5, <1>6, <1>7, <1>8, <1>9 DEF Next, Slots

(* The fields are what luaH_get returns, and the traversal is on its way.  *)
THEOREM MapInvariant == Spec => []MapInv
<1>1. Init /\ TableInv => MapInv
  BY MapStart, TableAssumption
<1>2. MapInv /\ [Next]_vars /\ TableInv' => MapInv'
  BY MapStep, TableAssumption
<1>. QED  BY <1>1, <1>2, TableInvariant, PTL DEF Spec

(* No rehash makes a table that is too small: insertion finds a place.     *)
THEOREM RehashCountsRight == Spec => []RoomAfterRehash
<1>1. MapInv => RoomAfterRehash
  BY DEF MapInv, Neat, RoomAfterRehash
<1>. QED  BY <1>1, MapInvariant, PTL

(* A table is a map, and its traversal meets every field once.             *)
THEOREM TableIsMap == Spec => IsMap
<1>1. Init /\ TableInv => Map!Init
  BY MapStart, TableAssumption
<1>2. MapInv /\ [Next]_vars /\ TableInv' => [Map!Next]_(Map!vars)
  BY MapStep, TableAssumption
<1>. QED  BY <1>1, <1>2, TableInvariant, MapInvariant, PTL DEF Spec, IsMap, Map!Spec

-----------------------------------------------------------------------------
(* luaH_getn.                                                              *)
Boundary(tab, n) == n \in Nat /\ (n > 0 => PresentInt(tab, n)) /\ ~PresentInt(tab, n + 1)

Halve(tab, p) == LET m == (p[1] + p[2]) \div 2
                 IN  IF p[2] - p[1] <= 1 THEN p
                     ELSE IF PresentInt(tab, m) THEN <<m, p[2]>> ELSE <<p[1], m>>

Halved(tab, i, j) ==
  CHOOSE at : at = [d \in 0 .. j - i |-> IF d = 0 THEN <<i, j>> ELSE Halve(tab, at[d - 1])]

(* An interval with a boundary in it: i is present or zero, j is not.      *)
Between(tab, p) == p[1] < p[2] /\ (p[1] > 0 => PresentInt(tab, p[1])) /\ ~PresentInt(tab, p[2])

Intervals(tab) == {p \in Nat \X Nat : Between(tab, p)}

(* One step of the search keeps a boundary in the interval and shortens it. *)
LEMMA HalveKeeps ==
  ASSUME NEW tab, NEW p \in Intervals(tab)
  PROVE  /\ Halve(tab, p) \in Intervals(tab)
         /\ LET q == Halve(tab, p)
            IN  q[2] - q[1] <= 1 \/ q[2] - q[1] < p[2] - p[1]
<1>. DEFINE m == (p[1] + p[2]) \div 2
<1>1. p = <<p[1], p[2]>> /\ p[1] \in Nat /\ p[2] \in Nat /\ Between(tab, p)
  BY DEF Intervals
<1>2. CASE p[2] - p[1] <= 1
  BY <1>2 DEF Halve
<1>3. CASE ~(p[2] - p[1] <= 1)
  <2>1. m \in Nat /\ p[1] < m /\ m < p[2] /\ m > 0
    BY <1>1, <1>3
  <2>2. CASE PresentInt(tab, m)
    <3>1. Halve(tab, p) = <<m, p[2]>>
      BY <1>3, <2>2 DEF Halve
    <3>. HIDE DEF m
    <3>2. Between(tab, <<m, p[2]>>)
      BY <1>1, <2>1, <2>2 DEF Between
    <3>. QED  BY <1>1, <2>1, <3>1, <3>2 DEF Intervals
  <2>3. CASE ~PresentInt(tab, m)
    <3>1. Halve(tab, p) = <<p[1], m>>
      BY <1>3, <2>3 DEF Halve
    <3>. HIDE DEF m
    <3>2. Between(tab, <<p[1], m>>)
      BY <1>1, <2>1, <2>3 DEF Between
    <3>. QED  BY <1>1, <2>1, <3>1, <3>2 DEF Intervals
  <2>. QED  BY <2>2, <2>3
<1>. QED  BY <1>2, <1>3

(* The binary search ends with a boundary (ltable.cpp:488, 506). *)
LEMMA BinaryFinds ==
  ASSUME NEW tab, NEW i \in Nat, NEW j \in Nat, Between(tab, <<i, j>>)
  PROVE  Boundary(tab, BinarySearch(tab, i, j))
<1>. DEFINE X == Intervals(tab)
            n == j - i
            x == <<i, j>>
            Is(at) == at = [d \in 0 .. n |-> IF d = 0 THEN x ELSE Halve(tab, at[d - 1])]
            step == [d \in 1 .. n |-> [p \in X |-> Halve(tab, p)]]
            c == Halved(tab, i, j)
<1>1. n \in Nat /\ x \in X /\ n > 0
  BY DEF Between, Intervals
<1>2. /\ step \in [1 .. n -> [X -> X]]
      /\ \A p \in X, d \in 1 .. n : step[d][p] = Halve(tab, p)
  BY HalveKeeps
<1>3. c = CHOOSE at : Is(at)
  BY DEF Halved
<1>4. BinarySearch(tab, i, j) = c[n][1]
  BY DEF BinarySearch, Loop, Halved, Halve
<1>5. x[1] = i /\ x[2] = j
  OBVIOUS
<1>6. X \in SUBSET (Nat \X Nat) /\ \A p \in X : Between(tab, p)
  BY DEF Intervals
<1>7. \A p \in X : Halve(tab, p)[2] - Halve(tab, p)[1] <= 1
                   \/ Halve(tab, p)[2] - Halve(tab, p)[1] < p[2] - p[1]
  BY HalveKeeps
<1>8. n = j - i
  OBVIOUS
<1>. HIDE DEF X, n, x, step, c
<1>9. PICK g \in [0 .. n -> X] : g[0] = x /\ \A d \in 1 .. n : g[d] = step[d][g[d - 1]]
  <2>1. Defined(X, x, n, step)
    BY <1>1, <1>2, Recursion
  <2>. QED  BY <2>1 DEF Defined
<1>10. Is(g)
  <2>1. \A d \in 1 .. n : d - 1 \in 0 .. n
    BY <1>1
  <2>2. \A d \in 1 .. n : g[d] = Halve(tab, g[d - 1])
    BY <1>2, <1>9, <2>1
  <2>. QED  BY <1>1, <1>9, <2>2
<1>11. Is(c)
  <2>. HIDE DEF Is
  <2>. QED  BY <1>3, <1>10
<1>12. c[0] = x /\ \A d \in 1 .. n : c[d] = Halve(tab, c[d - 1])
  BY <1>1, <1>11
<1>13. \A d \in 0 .. n : c[d] \in X
  <2>1. \A d \in 1 .. n : c[d - 1] \in X => c[d] = step[d][c[d - 1]]
    BY <1>2, <1>12
  <2>2. step \in [1 .. n -> [X -> X]]
    BY <1>2
  <2>3. Follows(X, x, n, step, c)
    BY <1>12, <2>1 DEF Follows
  <2>. QED  BY <1>1, <2>2, <2>3, LoopStays
<1>. DEFINE S == {d \in 0 .. n : c[d][2] - c[d][1] <= 1 \/ c[d][2] - c[d][1] <= n - d}
<1>14. n \in S
  <2>1. 0 \in S
    BY <1>1, <1>5, <1>8, <1>12
  <2>2. ASSUME NEW d \in 0 .. n - 1, d \in S PROVE d + 1 \in S
    <3>. DEFINE e == d + 1
                p == c[d]
                q == c[e]
    <3>1. e \in 1 .. n /\ e - 1 = d /\ e \in 0 .. n /\ d \in 0 .. n /\ n - e = n - d - 1
      BY <1>1
    <3>2. q = Halve(tab, p) /\ p \in X /\ q \in X
      BY <1>12, <1>13, <3>1
    <3>3. /\ p[1] \in Nat /\ p[2] \in Nat /\ q[1] \in Nat /\ q[2] \in Nat
          /\ p[1] < p[2]
      BY <1>6, <3>2 DEF Between
    <3>4. q[2] - q[1] <= 1 \/ q[2] - q[1] < p[2] - p[1]
      BY <1>7, <3>2
    <3>5. p[2] - p[1] <= 1 \/ p[2] - p[1] <= n - d
      BY <2>2
    <3>. HIDE DEF p, q
    <3>6. q[2] - q[1] <= 1 \/ q[2] - q[1] <= n - e
      BY <1>1, <3>1, <3>3, <3>4, <3>5
    <3>. QED  BY <3>1, <3>6 DEF q
  <2>. HIDE DEF S
  <2>3. 0 .. n \subseteq S
    BY <1>1, <2>1, <2>2, UpTo
  <2>. QED  BY <1>1, <2>3
<1>15. c[n] \in X /\ c[n][2] - c[n][1] <= 1
  <2>1. n \in 0 .. n
    BY <1>1
  <2>2. c[n] \in X
    BY <1>13, <2>1
  <2>3. c[n][1] \in Nat /\ c[n][2] \in Nat /\ c[n][1] < c[n][2]
    BY <1>6, <2>2 DEF Between
  <2>. QED  BY <1>1, <1>14, <2>2, <2>3
<1>. DEFINE b == c[n]
<1>16. b[1] \in Nat /\ b[2] = b[1] + 1 /\ Between(tab, b)
  BY <1>6, <1>15 DEF Between
<1>. QED  BY <1>4, <1>16 DEF Between, Boundary

(* The linear search ends: there are more numbers than entries in use
   (ltable.cpp:482). *)
LEMMA LinearFinds ==
  ASSUME TableAssumption, hash \in Hashes, NEW tab, Good(hash, tab)
  PROVE  Boundary(tab, LinearSearch(tab))
<1>. DEFINE U == InUse(tab)
            c == Cardinality(U)
            S == {n \in 0 .. c : ~PresentInt(tab, n + 1)}
<1>1. IsFiniteSet(U) /\ c \in Nat
  BY InUseFinite, FS_CardinalityType
<1>2. ASSUME NEW i \in 1 .. c + 1, PresentInt(tab, i) PROVE KeyAt(i) \in U /\ Index[KeyAt(i)] = i
  <2>1. PICK k \in Key : Index[k] = i /\ Get(tab, k) # Nil
    BY <1>2 DEF PresentInt
  <2>2. KeyAt(i) = k
    BY <2>1 DEF KeyAt, TableAssumption
  <2>. QED  BY <2>1, <2>2, Counted
<1>3. S # {}
  <2>. SUFFICES ASSUME S = {} PROVE FALSE
    OBVIOUS
  <2>. DEFINE I == 1 .. c + 1
              f == [i \in I |-> KeyAt(i)]
  <2>1. \A i \in I : PresentInt(tab, i)
    <3>1. ASSUME NEW i \in I PROVE PresentInt(tab, i)
      <4>1. i - 1 \in 0 .. c /\ i - 1 + 1 = i
        BY <1>1
      <4>. QED  BY <4>1
    <3>. QED  BY <3>1
  <2>2. \A i \in I : KeyAt(i) \in U /\ Index[KeyAt(i)] = i
    BY <1>2, <2>1
  <2>3. IsFiniteSet(I) /\ Cardinality(I) = c + 1
    <3>1. c + 1 \in Int /\ 1 \in Int /\ ~(1 > c + 1) /\ c + 1 - 1 + 1 = c + 1
      BY <1>1
    <3>. HIDE DEF c
    <3>. QED  BY <3>1, FS_Interval
  <2>. HIDE DEF I
  <2>4. f \in Injection(I, U)
    <3>1. f \in [I -> U] /\ \A a, b \in I : f[a] = f[b] => a = b
      BY <2>2
    <3>. HIDE DEF f
    <3>. QED  BY <3>1 DEF Injection, IsInjective
  <2>. HIDE DEF f, U
  <2>5. Cardinality(I) <= Cardinality(U)
    BY <1>1, <2>4, FS_Injection
  <2>. QED  BY <1>1, <2>3, <2>5
<1>4. S \in SUBSET Nat
  BY <1>1
<1>5. Min(S) \in S /\ \A n \in S : Min(S) <= n
  <2>. HIDE DEF S
  <2>. QED  BY <1>3, <1>4, Smallest
<1>6. LinearSearch(tab) = Min(S)
  BY DEF LinearSearch
<1>. DEFINE m == Min(S)
<1>7. m \in 0 .. c /\ ~PresentInt(tab, m + 1)
  BY <1>5
<1>8. m > 0 => PresentInt(tab, m)
  <2>. HAVE m > 0
  <2>. DEFINE l == m - 1
  <2>1. l \in 0 .. c /\ l + 1 = m /\ ~(m <= l)
    BY <1>1, <1>7
  <2>2. l \notin S
    BY <1>5, <2>1
  <2>. QED  BY <2>1, <2>2
<1>. HIDE DEF m
<1>. QED  BY <1>1, <1>6, <1>7, <1>8 DEF m, Boundary

(* A set with one more element has more subsets. *)
LEMMA PowersGrow ==
  ASSUME NEW m \in Nat, NEW n \in Nat, m < n
  PROVE  2^m < 2^n
<1>. DEFINE A == SUBSET (1 .. m)
            B == SUBSET (1 .. n)
<1>1. IsFiniteSet(1 .. m) /\ Cardinality(1 .. m) = m /\ IsFiniteSet(1 .. n) /\ Cardinality(1 .. n) = n
  BY FS_Interval
<1>2. IsFiniteSet(A) /\ Cardinality(A) = 2^m /\ IsFiniteSet(B) /\ Cardinality(B) = 2^n
  BY <1>1, FS_SUBSET
<1>3. A \in SUBSET B /\ A # B
  <2>1. n \in 1 .. n /\ n \notin 1 .. m
    OBVIOUS
  <2>2. {n} \in B /\ {n} \notin A
    BY <2>1
  <2>3. 1 .. m \subseteq 1 .. n
    OBVIOUS
  <2>. QED  BY <2>2, <2>3
<1>. HIDE DEF A, B
<1>4. Cardinality(A) <= Cardinality(B) /\ Cardinality(A) # Cardinality(B)
  BY <1>2, <1>3, FS_Subset
<1>. QED  BY <1>2, <1>4, Powers

(* The search beyond the array part, from j that is present or zero
   (ltable.cpp:472): the doubling ends with an interval or above MAX_INT. *)
LEMMA UnboundFinds ==
  ASSUME TableAssumption, hash \in Hashes, NEW tab, Good(hash, tab), NEW j \in Nat,
         j > 0 => PresentInt(tab, j)
  PROVE  Boundary(tab, unbound_search(tab, j))
<1>. DEFINE Probe(n) == (j + 1) * 2^n
            Over(n) == n > 0 /\ Probe(n) > MAX_INT
            S == {n \in 0 .. MAX_INT + 1 : Over(n) \/ ~PresentInt(tab, Probe(n))}
            stop == Min(S)
            from == IF stop = 0 THEN j ELSE Probe(stop - 1)
<1>1. unbound_search(tab, j) = IF Over(stop) THEN LinearSearch(tab)
                               ELSE BinarySearch(tab, from, Probe(stop))
  BY DEF unbound_search
<1>2. MAX_INT \in Nat
  BY DEF TableAssumption
<1>3. \A n \in Nat : Probe(n) \in Nat /\ Probe(n) > n
  <2>1. ASSUME NEW p \in Nat, NEW n \in Nat, n < p PROVE (j + 1) * p \in Nat /\ (j + 1) * p > n
    <3>1. j * p \in Nat /\ (j + 1) * p = j * p + p
      OBVIOUS
    <3>. QED  BY <2>1, <3>1
  <2>. QED  BY <2>1, Powers
<1>4. S \in SUBSET Nat /\ MAX_INT + 1 \in S
  <2>. DEFINE n == MAX_INT + 1
  <2>1. n \in Nat /\ n > 0 /\ n \in 0 .. MAX_INT + 1 /\ n > MAX_INT
    BY <1>2
  <2>. HIDE DEF n
  <2>2. Probe(n) \in Nat /\ Probe(n) > n
    BY <1>3, <2>1
  <2>3. Over(n)
    BY <1>2, <2>1, <2>2
  <2>4. \A m \in 0 .. MAX_INT + 1 : m \in Nat
    BY <1>2
  <2>. HIDE DEF Probe, Over
  <2>. QED  BY <2>1, <2>3, <2>4 DEF n
<1>5. stop \in S /\ \A n \in S : stop <= n
  <2>. HIDE DEF S
  <2>. QED  BY <1>4, Smallest
<1>6. stop \in Nat /\ stop \in 0 .. MAX_INT + 1 /\ (Over(stop) \/ ~PresentInt(tab, Probe(stop)))
  BY <1>4, <1>5
<1>. HIDE DEF stop
<1>7. CASE Over(stop)
  BY <1>1, <1>7, LinearFinds
<1>8. CASE ~Over(stop)
  <2>1. ~PresentInt(tab, Probe(stop)) /\ Probe(stop) \in Nat
    BY <1>3, <1>6, <1>8
  <2>2. CASE stop = 0
    <3>1. Probe(stop) = j + 1 /\ from = j
      BY <2>2, Powers
    <3>. HIDE DEF Probe, from
    <3>2. Between(tab, <<j, j + 1>>)
      BY <2>1, <3>1 DEF Between
    <3>3. Boundary(tab, BinarySearch(tab, j, j + 1))
      BY <3>2, BinaryFinds
    <3>. QED  BY <1>1, <1>8, <3>1, <3>3
  <2>3. CASE stop # 0
    <3>. DEFINE l == stop - 1
    <3>1. l \in Nat /\ l \in 0 .. MAX_INT + 1 /\ ~(stop <= l) /\ l + 1 = stop
      BY <1>2, <1>6, <2>3
    <3>. HIDE DEF l
    <3>2. PresentInt(tab, Probe(l)) /\ Probe(l) \in Nat /\ Probe(l) > l
      BY <1>3, <1>5, <3>1
    <3>3. Probe(l) < Probe(stop)
      <4>. DEFINE p == 2^l
                  q == 2^stop
      <4>1. p \in Nat /\ q \in Nat /\ p < q
        <5>1. l < stop
          BY <1>6, <3>1
        <5>. QED  BY <1>6, <3>1, <5>1, Powers, PowersGrow
      <4>. HIDE DEF p, q
      <4>2. PICK d \in Nat : q = p + d /\ d > 0
        <5>1. q - p \in Nat /\ q = p + (q - p) /\ q - p > 0
          BY <4>1
        <5>. QED  BY <5>1
      <4>3. j * d \in Nat /\ (j + 1) * (p + d) = (j + 1) * p + j * d + d /\ (j + 1) * p \in Nat
        BY <4>1, <4>2
      <4>4. (j + 1) * p < (j + 1) * q
        BY <4>2, <4>3
      <4>. QED  BY <4>4 DEF p, q
    <3>4. from = Probe(l)
      BY <2>3 DEF l
    <3>. HIDE DEF Probe, from
    <3>5. Between(tab, <<Probe(l), Probe(stop)>>)
      BY <2>1, <3>2, <3>3 DEF Between
    <3>6. Boundary(tab, BinarySearch(tab, Probe(l), Probe(stop)))
      BY <2>1, <3>2, <3>5, BinaryFinds
    <3>. QED  BY <1>1, <1>8, <3>4, <3>6
  <2>. QED  BY <2>2, <2>3
<1>. QED  BY <1>7, <1>8

(* luaH_getn, on any table that can occur (ltable.cpp:502). *)
LEMMA GetnFinds ==
  ASSUME TableAssumption, hash \in Hashes, NEW tab, Good(hash, tab), Neat(tab)
  PROVE  Boundary(tab, luaH_getn(tab))
<1>. DEFINE j == Len(tab.array)
<1>1. tab.array \in Seq(Slots) /\ ArrayKeys(tab) /\ DOMAIN tab.node = Positions(tab)
  BY DEF Good, Tables
<1>2. j \in Nat /\ DOMAIN tab.array = 1 .. j
  BY <1>1
<1>3. ASSUME NEW i \in 1 .. j PROVE PresentInt(tab, i) <=> tab.array[i] # Nil
  <2>1. \A k \in Key : Index[k] = i => Get(tab, k) = tab.array[i]
    BY <1>2 DEF Get, InArray
  <2>2. tab.array[i] # Nil => \E k \in Key : Index[k] = i
    BY <1>1, <1>2 DEF ArrayKeys
  <2>. QED  BY <2>1, <2>2 DEF PresentInt
<1>4. luaH_getn(tab) = IF j > 0 /\ tab.array[j] = Nil THEN BinarySearch(tab, 0, j)
                       ELSE IF tab.dummy THEN j ELSE unbound_search(tab, j)
  BY DEF luaH_getn
<1>. HIDE DEF j
<1>5. CASE j > 0 /\ tab.array[j] = Nil
  <2>1. ~PresentInt(tab, j)
    BY <1>2, <1>3, <1>5
  <2>2. Between(tab, <<0, j>>)
    BY <1>5, <2>1 DEF Between
  <2>. QED  BY <1>2, <1>4, <1>5, <2>2, BinaryFinds
<1>6. CASE ~(j > 0 /\ tab.array[j] = Nil)
  <2>1. j > 0 => PresentInt(tab, j)
    BY <1>2, <1>3, <1>6
  <2>2. CASE tab.dummy
    <3>1. ASSUME NEW k \in Key, Index[k] = j + 1 PROVE Get(tab, k) = Nil
      <4>1. ~InArray(tab, k)
        BY <1>2, <3>1 DEF InArray, j
      <4>2. NodeOf(tab, k) = NoNode
        BY <1>1, <2>2, Finds DEF IsNodeOf, Neat
      <4>. QED  BY <4>1, <4>2 DEF Get
    <3>2. ~PresentInt(tab, j + 1)
      BY <3>1 DEF PresentInt
    <3>. QED  BY <1>2, <1>4, <1>6, <2>1, <2>2, <3>2 DEF Boundary
  <2>3. CASE ~tab.dummy
    BY <1>2, <1>4, <1>6, <2>1, <2>3, UnboundFinds
  <2>. QED  BY <2>2, <2>3
<1>. QED  BY <1>5, <1>6

(* luaH_getn returns a boundary, whatever the program added and removed. *)
THEOREM GetnFindsBoundary == Spec => []BoundaryFound
<1>1. MapInv => BoundaryFound
  <2>1. MapInv => Boundary(t, luaH_getn(t))
    BY GetnFinds, TableAssumption DEF MapInv, TableInv, State
  <2>. QED  BY <2>1 DEF BoundaryFound, Boundary
<1>. QED  BY <1>1, MapInvariant, PTL

=============================================================================
