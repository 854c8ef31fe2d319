-------------------------- MODULE LuaRuntimeProofs --------------------------
(***************************************************************************)
(* What is proved of five mechanisms that MCRuntime checks: luaL_ref and   *)
(* luaL_unref (LuaRef), require (LuaRequire), the table of strings         *)
(* (LuaStrings), table.sort (LuaSort), and string.gsub with string.gmatch  *)
(* (LuaGsub), for any number of objects, references, modules, strings and  *)
(* elements, and any matcher.                                              *)
(***************************************************************************)
EXTENDS LuaRef, LuaRequire, LuaStrings, LuaSort, LuaGsub, FiniteSetTheorems, SequenceTheorems,
        WellFoundedInduction, NaturalsInduction, TLAPS

RefSpec == RefInit /\ [][RefNext]_refVars
RequireSpec == RequireInit /\ [][RequireNext]_requireVars

-----------------------------------------------------------------------------
(* References.                                                             *)

(* The element r is in the list of free references, or is its head: some   *)
(* element, or the one that holds the list, links to it.                   *)
Links(i, r) == reft[i] = Number(r)
Linking == {i \in 0 .. MaxRef : \E r \in 1 .. MaxRef : Links(i, r)}

(* A set of elements that has the head of the list and follows its links.  *)
FollowsLinks(X) == 0 \in X /\ \A i \in X, r \in 1 .. MaxRef : Links(i, r) => r \in X

RefTypeOK ==
  /\ reft \in [0 .. MaxRef + 1 ->
                 {NilRef} \cup {Number(r) : r \in 1 .. MaxRef} \cup {Object(o) : o \in RefObjects}]
  /\ \A o \in RefObjects : reft[0] # Object(o)
  /\ refs \subseteq (1 .. MaxRef) \X RefObjects /\ IsFiniteSet(refs)

(* The free references are a list: no two elements link to the same one,   *)
(* nothing that is in use is linked to, and everything that links is       *)
(* reached from the head. The last part is why an empty list means that    *)
(* the nil luaL_ref finds at a boundary is not the end of one.             *)
FreeList ==
  /\ \A i, j \in 0 .. MaxRef, r \in 1 .. MaxRef : Links(i, r) /\ Links(j, r) => i = j
  /\ \A i \in 0 .. MaxRef, r \in 1 .. MaxRef : Links(i, r) => \A p \in refs : p[1] # r
  /\ \A X \in SUBSET (0 .. MaxRef) : FollowsLinks(X) => Linking \subseteq X

(* The elements in use are those luaL_ref returned.                        *)
InUse == \A i \in 1 .. MaxRef, o \in RefObjects : <<i, o>> \in refs <=> reft[i] = Object(o)

RefInv == RefTypeOK /\ FreeList /\ InUse

(* The three kinds of values in the table are different.                   *)
LEMMA RefKinds ==
  /\ \A r, s : Number(r) # NilRef /\ (Number(r) = Number(s) => r = s)
  /\ \A o : Object(o) # NilRef /\ \A r : Object(o) # Number(r)
  /\ \A o, q : Object(o) = Object(q) => o = q
  /\ NilRef[2] = 0 /\ \A r : Number(r)[2] = r
BY DEF Number, Object, NilRef, FREELIST_REF

(* luaL_ref takes an element that nothing links to afterwards.             *)
LEMMA RefKeeps ==
  ASSUME RefInv, NEW o \in RefObjects, Ref(o)
  PROVE  RefInv'
<1>. USE MaxRefAssumption
<1>1. RefTypeOK /\ FreeList /\ InUse /\ \A p \in refs : p[2] # o
  BY DEF RefInv, Ref
<1>. DEFINE free == reft[FREELIST_REF][2]
<1>2. PICK ref \in IF free # 0 THEN {free} ELSE {n + 1 : n \in Boundaries} :
        /\ ref <= MaxRef
        /\ reft' = [reft EXCEPT ![FREELIST_REF] = IF free # 0 THEN reft[ref] ELSE @,
                                ![ref] = Object(o)]
        /\ refs' = refs \union {<<ref, o>>}
  BY DEF Ref, TakeRef
<1>3. /\ ref \in 1 .. MaxRef /\ \A p \in refs : p[1] # ref
      /\ reft' = [reft EXCEPT ![0] = IF free # 0 THEN reft[ref] ELSE @, ![ref] = Object(o)]
      /\ free # 0 => Links(0, ref) /\ \A i \in 1 .. MaxRef : ~Links(i, ref)
      /\ free = 0 => Linking = {} /\ reft[ref] = NilRef
  <2>1. reft[0] = NilRef \/ \E r \in 1 .. MaxRef : Links(0, r)
    BY <1>1 DEF RefTypeOK, Links
  <2>2. CASE free # 0
    <3>1. ref \in 1 .. MaxRef /\ Links(0, ref)
      BY <1>2, <2>1, <2>2, RefKinds DEF Links, FREELIST_REF
    <3>. QED  BY <1>1, <1>2, <2>2, <3>1 DEF FreeList, FREELIST_REF
  <2>3. CASE free = 0
    <3>1. PICK n \in Boundaries : ref = n + 1
      BY <1>2, <2>3
    <3>2. ref \in 1 .. MaxRef /\ reft[ref] = NilRef
      BY <1>2, <3>1 DEF Boundaries
    <3>3. \A r \in 1 .. MaxRef : ~Links(0, r)
      BY <2>3, RefKinds DEF Links, FREELIST_REF
    <3>4. Linking = {}
      <4>1. FollowsLinks({0})
        BY <3>3 DEF FollowsLinks
      <4>2. Linking \subseteq {0}
        BY <1>1, <4>1 DEF FreeList
      <4>. QED  BY <3>3, <4>2 DEF Linking
    <3>5. ASSUME NEW p \in refs PROVE p[1] # ref
      <4>1. p = <<p[1], p[2]>> /\ p[1] \in 1 .. MaxRef /\ p[2] \in RefObjects
        BY <1>1 DEF RefTypeOK
      <4>. QED  BY <1>1, <3>2, <4>1, RefKinds DEF InUse
    <3>. QED  BY <1>2, <2>3, <3>2, <3>4, <3>5 DEF FREELIST_REF
  <2>. QED  BY <2>2, <2>3
<1>. HIDE DEF free
<1>4. /\ reft'[ref] = Object(o)
      /\ reft'[0] = IF free # 0 THEN reft[ref] ELSE reft[0]
      /\ \A i \in 1 .. MaxRef + 1 : i # ref => reft'[i] = reft[i]
  BY <1>1, <1>3 DEF RefTypeOK
<1>5. \A p \in refs : reft[p[1]] = Object(p[2]) /\ p[1] \in 1 .. MaxRef
  BY <1>1 DEF InUse, RefTypeOK
<1>6. RefTypeOK'
  <2>1. reft[ref] \in {NilRef} \cup {Number(r) : r \in 1 .. MaxRef}
    <3>1. \A q \in RefObjects : reft[ref] # Object(q)
      BY <1>1, <1>3 DEF InUse
    <3>. QED  BY <1>1, <1>3, <3>1 DEF RefTypeOK
  <2>2. IsFiniteSet(refs') /\ refs' \subseteq (1 .. MaxRef) \X RefObjects
    <3>1. IsFiniteSet(refs)
      BY <1>1 DEF RefTypeOK
    <3>2. IsFiniteSet(refs \cup {<<ref, o>>})
      BY <3>1, FS_AddElement
    <3>. QED  BY <1>1, <1>2, <1>3, <3>2 DEF RefTypeOK
  <2>3. \A q \in RefObjects : reft'[0] # Object(q)
    BY <1>1, <1>4, <2>1, RefKinds DEF RefTypeOK
  <2>4. reft' \in [0 .. MaxRef + 1 ->
                    {NilRef} \cup {Number(r) : r \in 1 .. MaxRef} \cup {Object(q) : q \in RefObjects}]
    BY <1>1, <1>3, <2>1 DEF RefTypeOK
  <2>. QED  BY <2>2, <2>3, <2>4 DEF RefTypeOK
<1>7. ASSUME NEW i \in 0 .. MaxRef, NEW r \in 1 .. MaxRef
      PROVE  Links(i, r)' <=> r # ref /\ IF i = 0 THEN free # 0 /\ Links(ref, r) ELSE i # ref /\ Links(i, r)
  BY <1>1, <1>3, <1>4, <1>5, RefKinds DEF Links, FreeList, RefTypeOK, Linking
<1>8. FreeList'
  <2>1. \A i, j \in 0 .. MaxRef, r \in 1 .. MaxRef : Links(i, r)' /\ Links(j, r)' => i = j
    BY <1>1, <1>3, <1>7 DEF FreeList
  <2>2. ASSUME NEW i \in 0 .. MaxRef, NEW r \in 1 .. MaxRef, Links(i, r)', NEW p \in refs'
        PROVE  p[1] # r
    BY <1>1, <1>2, <1>3, <1>7, <2>2 DEF FreeList
  <2>3. ASSUME NEW X \in SUBSET (0 .. MaxRef), FollowsLinks(X)' PROVE Linking' \subseteq X
    <3>1. CASE free = 0
      BY <1>3, <1>7, <3>1 DEF Linking
    <3>2. CASE free # 0
      <4>1. ASSUME NEW i \in X \cup {ref}, NEW r \in 1 .. MaxRef, Links(i, r), r # ref
            PROVE  r \in X
        <5>1. i \in 0 .. MaxRef /\ 0 \in X /\ \A j \in X : Links(j, r)' => r \in X
          BY <1>3, <2>3, <4>1 DEF FollowsLinks
        <5>2. i # 0
          BY <1>1, <1>3, <3>2, <4>1, RefKinds DEF Links
        <5>3. CASE i = ref
          BY <1>7, <3>2, <4>1, <5>1, <5>3
        <5>4. CASE i # ref
          BY <1>7, <4>1, <5>1, <5>2, <5>4
        <5>. QED  BY <5>3, <5>4
      <4>2. FollowsLinks(X \cup {ref})
        BY <2>3, <4>1 DEF FollowsLinks
      <4>3. Linking \subseteq X \cup {ref}
        BY <1>1, <1>3, <4>2 DEF FreeList
      <4>. QED  BY <1>7, <2>3, <4>3 DEF Linking, FollowsLinks
    <3>. QED  BY <3>1, <3>2
  <2>. QED  BY <2>1, <2>2, <2>3 DEF FreeList
<1>9. InUse'
  <2>1. ASSUME NEW i \in 1 .. MaxRef, NEW q \in RefObjects
        PROVE  <<i, q>> \in refs' <=> reft'[i] = Object(q)
    <3>1. <<i, q>> \in refs' <=> <<i, q>> \in refs \/ (i = ref /\ q = o)
      BY <1>2
    <3>2. CASE i = ref
      BY <1>3, <1>4, <3>1, <3>2, RefKinds
    <3>3. CASE i # ref
      BY <1>1, <1>4, <3>1, <3>3 DEF InUse
    <3>. QED  BY <3>2, <3>3
  <2>. QED  BY <2>1 DEF InUse
<1>. QED  BY <1>6, <1>8, <1>9 DEF RefInv

(* luaL_unref makes the element the new head of the list.                  *)
LEMMA UnrefKeeps ==
  ASSUME RefInv, NEW p \in refs, Unref(p)
  PROVE  RefInv'
<1>. USE MaxRefAssumption
<1>1. RefTypeOK /\ FreeList /\ InUse
  BY DEF RefInv
<1>. DEFINE ref == p[1]
<1>2. /\ p = <<ref, p[2]>> /\ ref \in 1 .. MaxRef /\ p[2] \in RefObjects
      /\ reft[ref] = Object(p[2])
      /\ reft' = [reft EXCEPT ![ref] = reft[0], ![0] = Number(ref)]
      /\ refs' = refs \ {p}
  BY <1>1 DEF RefTypeOK, InUse, Unref, FREELIST_REF
<1>. HIDE DEF ref
<1>3. /\ reft'[ref] = reft[0] /\ reft'[0] = Number(ref)
      /\ \A i \in 1 .. MaxRef + 1 : i # ref => reft'[i] = reft[i]
  BY <1>1, <1>2 DEF RefTypeOK
<1>4. RefTypeOK'
  <2>1. reft[0] \in {NilRef} \cup {Number(r) : r \in 1 .. MaxRef}
    BY <1>1 DEF RefTypeOK
  <2>2. IsFiniteSet(refs') /\ refs' \subseteq (1 .. MaxRef) \X RefObjects
    <3>1. IsFiniteSet(refs)
      BY <1>1 DEF RefTypeOK
    <3>2. IsFiniteSet(refs \ {p})
      BY <3>1, FS_RemoveElement
    <3>. QED  BY <1>1, <1>2, <3>2 DEF RefTypeOK
  <2>3. \A q \in RefObjects : reft'[0] # Object(q)
    BY <1>3, RefKinds
  <2>4. reft' \in [0 .. MaxRef + 1 ->
                    {NilRef} \cup {Number(r) : r \in 1 .. MaxRef} \cup {Object(q) : q \in RefObjects}]
    BY <1>1, <1>2, <2>1 DEF RefTypeOK
  <2>. QED  BY <2>2, <2>3, <2>4 DEF RefTypeOK
<1>5. ASSUME NEW i \in 0 .. MaxRef, NEW r \in 1 .. MaxRef
      PROVE  Links(i, r)' <=> IF i = 0 THEN r = ref ELSE IF i = ref THEN Links(0, r) ELSE Links(i, r)
  BY <1>1, <1>2, <1>3, RefKinds DEF Links, RefTypeOK
<1>6. \A i \in 0 .. MaxRef : ~Links(i, ref)
  BY <1>1, <1>2 DEF FreeList
<1>7. FreeList'
  <2>1. \A i, j \in 0 .. MaxRef, r \in 1 .. MaxRef : Links(i, r)' /\ Links(j, r)' => i = j
    BY <1>1, <1>2, <1>5, <1>6 DEF FreeList
  <2>2. ASSUME NEW i \in 0 .. MaxRef, NEW r \in 1 .. MaxRef, Links(i, r)', NEW q \in refs'
        PROVE  q[1] # r
    <3>1. q \in refs /\ q # p /\ q = <<q[1], q[2]>> /\ q[1] \in 1 .. MaxRef /\ q[2] \in RefObjects
      BY <1>1, <1>2 DEF RefTypeOK
    <3>2. q[1] # ref
      BY <1>1, <1>2, <3>1, RefKinds DEF InUse
    <3>. QED  BY <1>1, <1>2, <1>5, <2>2, <3>1, <3>2 DEF FreeList
  <2>3. ASSUME NEW X \in SUBSET (0 .. MaxRef), FollowsLinks(X)' PROVE Linking' \subseteq X
    <3>1. ref \in X /\ 0 \in X
      BY <1>2, <1>5, <2>3 DEF FollowsLinks
    <3>2. ASSUME NEW i \in X, NEW r \in 1 .. MaxRef, Links(i, r) PROVE r \in X
      <4>1. i \in 0 .. MaxRef /\ \A j \in X : Links(j, r)' => r \in X
        BY <2>3 DEF FollowsLinks
      <4>2. i # ref
        BY <1>2, <3>2, RefKinds DEF Links
      <4>3. CASE i = 0
        BY <1>2, <1>5, <3>1, <3>2, <4>1, <4>3
      <4>4. CASE i # 0
        BY <1>5, <3>2, <4>1, <4>2, <4>4
      <4>. QED  BY <4>3, <4>4
    <3>3. FollowsLinks(X)
      BY <3>1, <3>2 DEF FollowsLinks
    <3>4. Linking \subseteq X
      BY <1>1, <3>3 DEF FreeList
    <3>. QED  BY <1>5, <3>1, <3>4 DEF Linking
  <2>. QED  BY <2>1, <2>2, <2>3 DEF FreeList
<1>8. InUse'
  <2>1. ASSUME NEW i \in 1 .. MaxRef, NEW q \in RefObjects
        PROVE  <<i, q>> \in refs' <=> reft'[i] = Object(q)
    <3>1. CASE i = ref
      <4>1. reft'[i] # Object(q)
        BY <1>1, <1>3, <3>1, RefKinds DEF RefTypeOK
      <4>2. <<i, q>> \in refs => <<i, q>> = p
        BY <1>1, <1>2, <3>1, RefKinds DEF InUse
      <4>. QED  BY <1>2, <4>1, <4>2
    <3>2. CASE i # ref
      <4>1. <<i, q>> # p
        BY <1>2, <3>2
      <4>2. <<i, q>> \in refs' <=> <<i, q>> \in refs
        BY <1>2, <4>1
      <4>3. reft'[i] = reft[i]
        BY <1>3, <3>2
      <4>. QED  BY <1>1, <4>2, <4>3 DEF InUse
    <3>. QED  BY <3>1, <3>2
  <2>. QED  BY <2>1 DEF InUse
<1>. QED  BY <1>4, <1>7, <1>8 DEF RefInv

(* If each reference in use finds its object, no two are the same element. *)
LEMMA RefsDiffer ==
  ASSUME RefInv
  PROVE  RefsDistinct
<1>1. \A p \in refs : p = <<p[1], p[2]>> /\ p[1] \in 1 .. MaxRef /\ p[2] \in RefObjects
  BY DEF RefInv, RefTypeOK
<1>2. \A p \in refs : reft[p[1]] = Object(p[2])
  BY <1>1 DEF RefInv, InUse
<1>3. \A p, q \in refs : p[1] = q[1] => p = q
  BY <1>1, <1>2, RefKinds
<1>. DEFINE f == [p \in refs |-> p[1]]
            T == {p[1] : p \in refs}
<1>4. f \in Bijection(refs, T)
  BY <1>3 DEF Bijection, Injection, Surjection, IsInjective
<1>5. Cardinality(T) = Cardinality(refs)
  BY <1>4, FS_Bijection DEF ExistsBijection, RefInv, RefTypeOK
<1>. QED  BY <1>2, <1>5 DEF RefsDistinct

(* References are handed out once, however many are taken and given back,  *)
(* and in whatever order (luaL_ref, luaL_unref).                           *)
THEOREM ReferencesDistinct == RefSpec => []RefsDistinct
<1>1. RefInit => RefInv
  <2>. SUFFICES ASSUME RefInit PROVE RefInv
    OBVIOUS
  <2>1. reft = [i \in 0 .. MaxRef + 1 |-> NilRef] /\ refs = {} /\ MaxRef \in Nat
    BY MaxRefAssumption DEF RefInit
  <2>2. RefTypeOK
    BY <2>1, RefKinds, FS_EmptySet DEF RefTypeOK
  <2>3. \A i \in 0 .. MaxRef, r \in 1 .. MaxRef : ~Links(i, r)
    BY <2>1, RefKinds DEF Links
  <2>4. FreeList
    BY <2>1, <2>3 DEF FreeList, Linking
  <2>5. InUse
    BY <2>1, RefKinds DEF InUse
  <2>. QED  BY <2>2, <2>4, <2>5 DEF RefInv
<1>2. RefInv /\ [RefNext]_refVars => RefInv'
  <2>1. ASSUME RefInv, UNCHANGED refVars PROVE RefInv'
    BY <2>1 DEF refVars, RefInv, RefTypeOK, FreeList, Linking, FollowsLinks, Links, InUse
  <2>. QED  BY <2>1, RefKeeps, UnrefKeeps DEF RefNext
<1>. QED  BY <1>1, <1>2, RefsDiffer, PTL DEF RefSpec

-----------------------------------------------------------------------------
(* Modules.                                                                *)

Fields == {"nil", "false", "true", "value", "sentinel"}

RequireTypeOK ==
  /\ loaded \in [Modules -> Fields] /\ running \in Seq(Modules)
  /\ \A m \in cleared : InProgress(m)

(* A module in progress that the program has not cleared runs once, and    *)
(* require would find something in its field.                              *)
OnceInProgress ==
  \A i \in DOMAIN running : running[i] \notin cleared =>
     /\ loaded[running[i]] \notin {"nil", "false"}
     /\ \A j \in DOMAIN running : running[j] = running[i] => i = j

ResultTrue ==
  result # NoResult => /\ result[1] \in Modules /\ result[2] # "sentinel"
                       /\ result[2] = loaded[result[1]]

MarksExplained == \A m \in Modules : loaded[m] = "sentinel" => m \in failed \/ InProgress(m)

RequireInv == RequireTypeOK /\ OnceInProgress /\ ResultTrue /\ MarksExplained

(* The chunks that remain when some end are those that were below them.    *)
LEMMA Remaining ==
  ASSUME running \in Seq(Modules), NEW level \in 0 .. Len(running)
  PROVE  /\ SubSeq(running, 1, level) \in Seq(Modules)
         /\ Len(SubSeq(running, 1, level)) = level
         /\ DOMAIN running = 1 .. Len(running) /\ DOMAIN SubSeq(running, 1, level) = 1 .. level
         /\ \A i \in 1 .. level : SubSeq(running, 1, level)[i] = running[i]
  OBVIOUS

(* An error abandons the chunks above the level that catches it: their     *)
(* marks stay, and those modules have failed.                              *)
LEMMA LoadFailsKeeps ==
  ASSUME RequireInv, NEW level \in 0 .. Len(running), LoadFails(level)
  PROVE  RequireInv'
<1>1. RequireTypeOK /\ OnceInProgress /\ MarksExplained
  BY DEF RequireInv
<1>2. /\ running' \in Seq(Modules) /\ DOMAIN running = 1 .. Len(running)
      /\ DOMAIN running' = 1 .. level /\ \A i \in 1 .. level : running'[i] = running[i] /\ i \in DOMAIN running
  BY <1>1, Remaining DEF LoadFails, RequireTypeOK
<1>3. /\ failed' = failed \union {running[i] : i \in level + 1 .. Len(running)}
      /\ cleared' = cleared \cap {running[i] : i \in 1 .. level}
      /\ result' = NoResult /\ loaded' = loaded
  BY DEF LoadFails
<1>4. RequireTypeOK'
  BY <1>1, <1>2, <1>3 DEF RequireTypeOK, InProgress
<1>5. OnceInProgress'
  BY <1>1, <1>2, <1>3 DEF OnceInProgress
<1>6. ResultTrue'
  BY <1>3 DEF ResultTrue
<1>7. ASSUME NEW m \in Modules, loaded'[m] = "sentinel", m \notin failed' PROVE InProgress(m)'
  <2>1. m \notin failed /\ \A i \in level + 1 .. Len(running) : running[i] # m
    BY <1>3, <1>7
  <2>2. PICK i \in DOMAIN running : running[i] = m
    BY <1>1, <1>3, <1>7, <2>1 DEF MarksExplained, InProgress
  <2>3. i \in 1 .. level
    BY <1>2, <2>1, <2>2
  <2>. QED  BY <1>2, <2>2, <2>3 DEF InProgress
<1>. QED  BY <1>4, <1>5, <1>6, <1>7 DEF RequireInv, MarksExplained

(* The chunk of a module starts: it was not in progress, or was cleared.   *)
LEMMA RequireRunsKeeps ==
  ASSUME RequireInv, NEW m \in Modules, RequireRuns(m)
  PROVE  RequireInv'
<1>1. RequireTypeOK /\ OnceInProgress /\ MarksExplained
  BY DEF RequireInv
<1>. DEFINE n == Len(running)
<1>2. /\ running' \in Seq(Modules) /\ n \in Nat /\ DOMAIN running = 1 .. n
      /\ DOMAIN running' = 1 .. n + 1 /\ running'[n + 1] = m
      /\ \A i \in 1 .. n : running'[i] = running[i]
  BY <1>1 DEF RequireRuns, RequireTypeOK
<1>. HIDE DEF n
<1>3. /\ loaded[m] \in {"nil", "false"} /\ loaded' = [loaded EXCEPT ![m] = "sentinel"]
      /\ result' = NoResult /\ failed' = failed \ {m} /\ cleared' = cleared
  BY DEF RequireRuns, MarkLoading
<1>4. loaded' \in [Modules -> Fields] /\ loaded'[m] = "sentinel"
      /\ \A k \in Modules : k # m => loaded'[k] = loaded[k]
  BY <1>1, <1>3 DEF RequireTypeOK, Fields
<1>5. RequireTypeOK'
  BY <1>1, <1>2, <1>3, <1>4 DEF RequireTypeOK, InProgress
<1>6. \A i \in 1 .. n : running[i] \in Modules
  BY <1>1, <1>2 DEF RequireTypeOK
<1>7. m \notin cleared => \A i \in 1 .. n : running[i] # m
  BY <1>1, <1>2, <1>3 DEF OnceInProgress
<1>8. ASSUME NEW i \in 1 .. n + 1, running'[i] \notin cleared'
      PROVE  /\ loaded'[running'[i]] \notin {"nil", "false"}
             /\ \A j \in 1 .. n + 1 : running'[j] = running'[i] => i = j
  <2>1. CASE i = n + 1
    BY <1>2, <1>3, <1>4, <1>7, <1>8, <2>1
  <2>2. CASE i # n + 1
    <3>1. i \in 1 .. n /\ running'[i] = running[i] /\ running[i] # m
      BY <1>2, <1>3, <1>7, <1>8, <2>2
    <3>2. \A j \in 1 .. n : running[j] = running[i] => i = j
      BY <1>1, <1>2, <1>3, <1>8, <3>1 DEF OnceInProgress
    <3>3. loaded[running[i]] \notin {"nil", "false"}
      BY <1>1, <1>2, <1>3, <1>8, <3>1 DEF OnceInProgress
    <3>. QED  BY <1>2, <1>4, <1>6, <3>1, <3>2, <3>3
  <2>. QED  BY <2>1, <2>2
<1>9. OnceInProgress'
  BY <1>2, <1>8 DEF OnceInProgress
<1>10. ASSUME NEW k \in Modules, loaded'[k] = "sentinel" PROVE k \in failed' \/ InProgress(k)'
  <2>1. CASE k = m
    BY <1>2, <2>1 DEF InProgress
  <2>2. CASE k # m
    <3>1. k \in failed \/ \E i \in 1 .. n : running[i] = k
      BY <1>1, <1>2, <1>4, <1>10, <2>2 DEF MarksExplained, InProgress
    <3>. QED  BY <1>2, <1>3, <2>2, <3>1 DEF InProgress
  <2>. QED  BY <2>1, <2>2
<1>. QED  BY <1>3, <1>5, <1>9, <1>10 DEF RequireInv, ResultTrue, MarksExplained

(* The chunk of the last module required ends: its field holds its result. *)
LEMMA ChunkReturnsKeeps ==
  ASSUME RequireInv, NEW v \in {"nil", "false", "value"}, ChunkReturns(v)
  PROVE  RequireInv'
<1>1. RequireTypeOK /\ OnceInProgress /\ MarksExplained
  BY DEF RequireInv
<1>. DEFINE n == Len(running)
            m == running[n]
            field == IF v # "nil" THEN v ELSE loaded[m]
            value == IF field = "sentinel" THEN "true" ELSE field
<1>2. n \in Nat /\ n # 0 /\ n - 1 \in 0 .. n /\ DOMAIN running = 1 .. n /\ m \in Modules
  BY <1>1 DEF ChunkReturns, RequireTypeOK
<1>3. /\ loaded' = [loaded EXCEPT ![m] = value] /\ result' = <<m, value>>
      /\ running' = SubSeq(running, 1, n - 1)
      /\ cleared' = cleared \cap {running[i] : i \in 1 .. n - 1} /\ failed' = failed
  BY DEF ChunkReturns
<1>4. value \in Fields \ {"sentinel"}
  BY <1>1, <1>2 DEF RequireTypeOK, Fields
<1>5. /\ running' \in Seq(Modules) /\ DOMAIN running' = 1 .. n - 1
      /\ \A i \in 1 .. n - 1 : running'[i] = running[i]
  BY <1>1, <1>2, <1>3, Remaining DEF RequireTypeOK
<1>. HIDE DEF value
<1>6. /\ loaded' \in [Modules -> Fields] /\ loaded'[m] = value
      /\ \A k \in Modules : k # m => loaded'[k] = loaded[k]
  BY <1>1, <1>2, <1>3, <1>4 DEF RequireTypeOK
<1>7. \A i \in 1 .. n : running[i] \in Modules
  BY <1>1, <1>2 DEF RequireTypeOK
<1>. HIDE DEF n
<1>8. RequireTypeOK'
  BY SMTT(30), <1>3, <1>5, <1>6 DEF RequireTypeOK, InProgress
<1>9. ASSUME NEW i \in 1 .. n - 1, running'[i] \notin cleared'
      PROVE  /\ loaded'[running'[i]] \notin {"nil", "false"}
             /\ \A j \in 1 .. n - 1 : running'[j] = running'[i] => i = j
  <2>1. i \in 1 .. n /\ running'[i] = running[i] /\ running[i] \notin cleared
    BY <1>2, <1>3, <1>5, <1>9
  <2>2. /\ loaded[running[i]] \notin {"nil", "false"}
        /\ \A j \in 1 .. n : running[j] = running[i] => i = j
    BY <1>1, <1>2, <2>1 DEF OnceInProgress
  <2>3. running[i] # m
    BY <1>2, <2>2, <1>9
  <2>. QED  BY <1>2, <1>5, <1>6, <1>7, <2>1, <2>2, <2>3
<1>10. OnceInProgress'
  BY <1>5, <1>9 DEF OnceInProgress
<1>11. ResultTrue'
  BY <1>2, <1>3, <1>4, <1>6 DEF ResultTrue
<1>12. ASSUME NEW k \in Modules, loaded'[k] = "sentinel" PROVE k \in failed' \/ InProgress(k)'
  <2>1. k # m /\ loaded[k] = "sentinel"
    BY <1>4, <1>6, <1>12
  <2>2. k \in failed \/ \E i \in 1 .. n : running[i] = k
    BY <1>1, <1>2, <2>1 DEF MarksExplained, InProgress
  <2>3. ASSUME NEW i \in 1 .. n, running[i] = k PROVE InProgress(k)'
    <3>1. i \in 1 .. n - 1
      BY <1>2, <2>1, <2>3
    <3>. QED  BY <1>5, <2>3, <3>1 DEF InProgress
  <2>. QED  BY <1>3, <2>2, <2>3
<1>. QED  BY <1>8, <1>10, <1>11, <1>12 DEF RequireInv, MarksExplained

(* The program may write what it likes, except the mark.                   *)
LEMMA SetLoadedKeeps ==
  ASSUME RequireInv, NEW m \in Modules, NEW v \in {"nil", "false", "value"}, SetLoaded(m, v)
  PROVE  RequireInv'
<1>1. RequireTypeOK /\ OnceInProgress /\ MarksExplained
  BY DEF RequireInv
<1>2. /\ loaded' = [loaded EXCEPT ![m] = v] /\ result' = NoResult /\ running' = running /\ failed' = failed
      /\ cleared' = IF v \in {"nil", "false"} /\ InProgress(m) THEN cleared \union {m} ELSE cleared
  BY DEF SetLoaded
<1>3. /\ loaded' \in [Modules -> Fields] /\ loaded'[m] = v
      /\ \A k \in Modules : k # m => loaded'[k] = loaded[k]
  BY <1>1, <1>2 DEF RequireTypeOK, Fields
<1>4. \A k : InProgress(k)' <=> InProgress(k)
  BY <1>2 DEF InProgress
<1>5. RequireTypeOK'
  BY <1>1, <1>2, <1>3, <1>4 DEF RequireTypeOK
<1>6. ASSUME NEW i \in DOMAIN running, running[i] \notin cleared'
      PROVE  loaded'[running[i]] \notin {"nil", "false"}
  <2>1. running[i] \in Modules /\ InProgress(running[i])
    BY <1>1 DEF RequireTypeOK, InProgress
  <2>2. running[i] \notin cleared /\ loaded[running[i]] \notin {"nil", "false"}
    BY <1>1, <1>2, <1>6 DEF OnceInProgress
  <2>. QED  BY <1>2, <1>3, <1>6, <2>1, <2>2
<1>7. OnceInProgress'
  BY <1>1, <1>2, <1>6 DEF OnceInProgress
<1>8. MarksExplained'
  BY <1>1, <1>2, <1>3, <1>4 DEF MarksExplained
<1>. QED  BY <1>2, <1>5, <1>7, <1>8 DEF RequireInv, ResultTrue

(* What the program sees of modules follows: uniqueness is a cardinality.  *)
LEMMA LoadedOnceHolds ==
  ASSUME RequireInv
  PROVE  LoadedOnce
<1>1. ASSUME NEW m \in Modules \ cleared
      PROVE  Cardinality({i \in DOMAIN running : running[i] = m}) <= 1
  <2>. DEFINE S == {i \in DOMAIN running : running[i] = m}
  <2>1. CASE S = {}
    BY <2>1, FS_EmptySet
  <2>2. CASE S # {}
    <3>1. PICK i \in DOMAIN running : running[i] = m
      BY <2>2
    <3>2. S = {i}
      BY <1>1, <3>1 DEF RequireInv, OnceInProgress
    <3>. QED  BY <3>2, FS_Singleton
  <2>. QED  BY <2>1, <2>2
<1>. QED  BY <1>1 DEF LoadedOnce, RequireInv, ResultTrue, MarksExplained

(* require runs the chunk of a module once, never returns the mark of a    *)
(* module in progress, and leaves marks only where a chunk runs or failed  *)
(* (ll_require), whatever the chunks require, write and raise.             *)
THEOREM ModulesLoadOnce == RequireSpec => []LoadedOnce
<1>1. RequireInit => RequireInv
  BY DEF RequireInit, RequireInv, RequireTypeOK, OnceInProgress, ResultTrue, MarksExplained, Fields
<1>2. RequireInv /\ [RequireNext]_requireVars => RequireInv'
  <2>1. ASSUME RequireInv, UNCHANGED requireVars PROVE RequireInv'
    BY <2>1 DEF requireVars, RequireInv, RequireTypeOK, OnceInProgress, ResultTrue,
                MarksExplained, InProgress
  <2>2. ASSUME RequireInv, NEW m \in Modules, RequireLoaded(m) PROVE RequireInv'
    <3>1. loaded[m] # "sentinel" /\ result' = <<m, loaded[m]>>
          /\ UNCHANGED <<loaded, running, failed, cleared>>
      BY <2>2 DEF RequireLoaded
    <3>2. RequireTypeOK' /\ OnceInProgress' /\ MarksExplained'
      BY <2>2, <3>1 DEF RequireInv, RequireTypeOK, OnceInProgress, MarksExplained, InProgress
    <3>3. ResultTrue'
      BY <3>1 DEF ResultTrue
    <3>. QED  BY <3>2, <3>3 DEF RequireInv
  <2>3. ASSUME RequireInv, RequireNext PROVE RequireInv'
    BY <2>2, <2>3, LoadFailsKeeps, RequireRunsKeeps, ChunkReturnsKeeps, SetLoadedKeeps
       DEF RequireNext, RequireLoop, NotFound, ChunkFails
  <2>. QED  BY <2>1, <2>3
<1>. QED  BY <1>1, <1>2, LoadedOnceHolds, PTL DEF RequireSpec

-----------------------------------------------------------------------------
(* The table of strings.                                                   *)

StringsSpec == StringsInit /\ [][StringsNext]_strt

Entries == {Entry(s, m) : s \in Strings, m \in {0, 1, Black}}
Names(tb) == {e.s : e \in Interned(tb)}

Chains == UNION {[1 .. n -> SUBSET Entries] : n \in Nat}
Tables == [size : Nat \ {0}, hash : Chains, nuse : Nat, currentwhite : {0, 1},
           gcstate : {"stopped", "propagate", "sweepstring", "sweep"},
           sweepstrgc : Nat, held : SUBSET Strings]

StrTypeOK(tb) ==
  /\ tb \in Tables
  /\ DOMAIN tb.hash = 1 .. tb.size
  /\ tb.gcstate = "sweepstring" => tb.sweepstrgc < tb.size

(* Each string has one entry, in the bucket of its hash, and is counted.   *)
Placed(tb) ==
  /\ \A b \in DOMAIN tb.hash : \A e \in tb.hash[b] : Bucket(e.s, tb.size) = b
  /\ \A e, f \in Interned(tb) : e.s = f.s => e = f
  /\ IsFiniteSet(Names(tb)) /\ tb.nuse = Cardinality(Names(tb))

(* While the table is swept dead strings are only in the buckets to come,  *)
(* and none of them is held: that is why sweeping them is safe.            *)
Alive(tb) ==
  /\ \A b \in DOMAIN tb.hash : \A e \in tb.hash[b] :
       IsDead(tb, e) => tb.gcstate = "sweepstring" /\ b > tb.sweepstrgc
  /\ \A s \in tb.held : \E e \in Interned(tb) : e.s = s /\ ~IsDead(tb, e)

StringsInv(tb) == StrTypeOK(tb) /\ Placed(tb) /\ Alive(tb)

(* An entry is a string and a mark.                                        *)
LEMMA EntryIs ==
  /\ \A s, m : Entry(s, m).s = s /\ Entry(s, m).marked = m
  /\ \A e \in Entries : /\ e.s \in Strings /\ e.marked \in {0, 1, 2} /\ e = Entry(e.s, e.marked)
  /\ \A s \in Strings, m \in {0, 1, 2} : Entry(s, m) \in Entries
<1>1. \A s, m : Entry(s, m).s = s /\ Entry(s, m).marked = m
  BY DEF Entry
<1>2. \A s \in Strings, m \in {0, 1, 2} : Entry(s, m) \in Entries
  BY DEF Entries, Black
<1>3. ASSUME NEW e \in Entries
      PROVE  e.s \in Strings /\ e.marked \in {0, 1, 2} /\ e = Entry(e.s, e.marked)
  <2>1. PICK s \in Strings, m \in {0, 1, 2} : e = Entry(s, m)
    BY DEF Entries, Black
  <2>. QED  BY <1>1, <2>1
<1>. QED  BY <1>1, <1>2, <1>3

(* A hash has its bucket in a table of any size.                           *)
LEMMA BucketInTable ==
  ASSUME NEW s \in Strings, NEW n \in Nat \ {0}
  PROVE  Bucket(s, n) \in 1 .. n
<1>1. s \in Nat
  BY StringsAssumption
<1>2. s % n \in 0 .. n - 1
  BY <1>1
<1>. QED  BY <1>2 DEF Bucket

(* luaS_resize gives every entry its new bucket and loses none.            *)
LEMMA ResizeKeeps ==
  ASSUME NEW tb, StringsInv(tb), NEW n \in Nat \ {0}
  PROVE  /\ StringsInv(luaS_resize(tb, n))
         /\ Interned(luaS_resize(tb, n)) = Interned(tb)
<1>1. CASE tb.gcstate = "sweepstring"
  BY <1>1 DEF luaS_resize
<1>2. CASE tb.gcstate # "sweepstring"
  <2>. DEFINE h == [b \in 1 .. n |-> {e \in Interned(tb) : Bucket(e.s, n) = b}]
              r == [tb EXCEPT !.size = n, !.hash = h]
  <2>1. luaS_resize(tb, n) = r
    BY <1>2 DEF luaS_resize
  <2>2. StrTypeOK(tb) /\ Placed(tb) /\ Alive(tb)
    BY DEF StringsInv
  <2>3. Interned(tb) \subseteq Entries
    <3>1. \A b \in DOMAIN tb.hash : tb.hash[b] \subseteq Entries
      BY <2>2 DEF StrTypeOK, Tables, Chains
    <3>. QED  BY <3>1 DEF Interned
  <2>4. h \in [1 .. n -> SUBSET Entries]
    BY <2>3
  <2>5. /\ r.size = n /\ r.hash = h /\ r.nuse = tb.nuse /\ r.currentwhite = tb.currentwhite
        /\ r.gcstate = tb.gcstate /\ r.sweepstrgc = tb.sweepstrgc /\ r.held = tb.held
    BY <2>2 DEF StrTypeOK, Tables, Chains
  <2>6. StrTypeOK(r)
    BY <1>2, <2>2, <2>4, <2>5 DEF StrTypeOK, Tables, Chains
  <2>7. Interned(r) = Interned(tb)
    <3>1. \A e \in Interned(tb) : Bucket(e.s, n) \in 1 .. n
      BY <2>3, EntryIs, BucketInTable
    <3>2. Interned(r) = UNION {h[b] : b \in 1 .. n}
      BY <2>4, <2>5 DEF Interned
    <3>3. \A b \in 1 .. n : h[b] = {e \in Interned(tb) : Bucket(e.s, n) = b}
      OBVIOUS
    <3>. HIDE DEF h, r
    <3>4. ASSUME NEW e \in Interned(tb) PROVE e \in Interned(r)
      BY <3>1, <3>2, <3>3
    <3>5. ASSUME NEW e \in Interned(r) PROVE e \in Interned(tb)
      BY <3>2, <3>3
    <3>. QED  BY <3>4, <3>5
  <2>. HIDE DEF r
  <2>8. Placed(r)
    BY <2>2, <2>5, <2>7 DEF Placed, Names
  <2>9. \A e \in Interned(tb) : ~IsDead(tb, e)
    BY <1>2, <2>2 DEF Alive, Interned
  <2>10. \A e : IsDead(r, e) <=> IsDead(tb, e)
    BY <2>5 DEF IsDead, otherwhite
  <2>11. Alive(r)
    BY <2>2, <2>5, <2>7, <2>9, <2>10 DEF Alive
  <2>. QED  BY <2>1, <2>6, <2>7, <2>8, <2>11 DEF StringsInv
<1>. QED  BY <1>1, <1>2

(* newlstr: a string that is not there gets an entry, which is not dead.   *)
LEMMA NewlstrKeeps ==
  ASSUME NEW tb, StringsInv(tb), NEW s \in Strings,
         \A e \in tb.hash[Bucket(s, tb.size)] : e.s # s
  PROVE  /\ StringsInv(newlstr(tb, s))
         /\ \E e \in Interned(newlstr(tb, s)) : e.s = s /\ ~IsDead(newlstr(tb, s), e)
<1>. DEFINE b == Bucket(s, tb.size)
            x == Entry(s, tb.currentwhite)
            h == [tb.hash EXCEPT ![b] = @ \union {x}]
            made == [tb EXCEPT !.hash = h, !.nuse = @ + 1]
<1>1. newlstr(tb, s) = IF made.nuse > made.size THEN luaS_resize(made, 2 * made.size) ELSE made
  <2>1. [tb EXCEPT !.hash[Bucket(s, tb.size)] = @ \union {Entry(s, tb.currentwhite)}, !.nuse = @ + 1]
        = made
    BY DEF StringsInv, StrTypeOK
  <2>. QED  BY <2>1 DEF newlstr
<1>2. StrTypeOK(tb) /\ Placed(tb) /\ Alive(tb)
  BY DEF StringsInv
<1>3. b \in 1 .. tb.size /\ x \in Entries /\ x.s = s /\ x.marked = tb.currentwhite
  BY <1>2, BucketInTable, EntryIs DEF StrTypeOK, Tables, Chains
<1>4. tb.hash \in [1 .. tb.size -> SUBSET Entries]
  BY <1>2 DEF StrTypeOK, Tables, Chains
<1>. HIDE DEF x, b
<1>5. /\ h \in [1 .. tb.size -> SUBSET Entries] /\ h[b] = tb.hash[b] \cup {x}
      /\ \A c \in 1 .. tb.size : c # b => h[c] = tb.hash[c]
  BY <1>3, <1>4
<1>. HIDE DEF h
<1>6. /\ made.size = tb.size /\ made.hash = h /\ made.nuse = tb.nuse + 1
      /\ made.currentwhite = tb.currentwhite /\ made.gcstate = tb.gcstate
      /\ made.sweepstrgc = tb.sweepstrgc /\ made.held = tb.held
  BY <1>2 DEF StrTypeOK, Tables, Chains
<1>7. StrTypeOK(made)
  <2>1. tb.size \in Nat \ {0} /\ DOMAIN h = 1 .. tb.size
    BY <1>2, <1>5 DEF StrTypeOK, Tables, Chains
  <2>2. h \in Chains
    BY <1>5, <2>1 DEF Chains
  <2>3. \A H \in Chains, k \in Nat : [tb EXCEPT !.hash = H, !.nuse = k] \in Tables
    BY <1>2 DEF StrTypeOK, Tables
  <2>4. tb.nuse + 1 \in Nat
    BY <1>2 DEF StrTypeOK, Tables
  <2>5. [tb EXCEPT !.hash = h, !.nuse = tb.nuse + 1] \in Tables
    BY <2>2, <2>3, <2>4
  <2>6. made \in Tables
    BY <2>5
  <2>. QED  BY <1>2, <1>6, <2>1, <2>6 DEF StrTypeOK
<1>. HIDE DEF made
<1>8. Interned(made) = Interned(tb) \cup {x}
  <2>1. Interned(made) = UNION {h[c] : c \in 1 .. tb.size}
    BY <1>5, <1>6 DEF Interned
  <2>2. Interned(tb) = UNION {tb.hash[c] : c \in 1 .. tb.size}
    BY <1>4 DEF Interned
  <2>. QED  BY <1>3, <1>5, <2>1, <2>2
<1>9. \A e \in Interned(tb) : e.s # s
  BY <1>2 DEF Placed, Interned, b
<1>10. Placed(made)
  <2>1. \A c \in 1 .. tb.size : \A e \in h[c] : Bucket(e.s, tb.size) = c
    BY <1>2, <1>3, <1>4, <1>5 DEF Placed, b
  <2>2. Names(made) = Names(tb) \cup {s} /\ s \notin Names(tb)
    BY <1>3, <1>8, <1>9 DEF Names
  <2>3. IsFiniteSet(Names(made)) /\ Cardinality(Names(made)) = Cardinality(Names(tb)) + 1
    BY <1>2, <2>2, FS_AddElement DEF Placed
  <2>. QED  BY <1>2, <1>3, <1>5, <1>6, <1>8, <1>9, <2>1, <2>3 DEF Placed
<1>11. \A e : IsDead(made, e) <=> IsDead(tb, e)
  BY <1>6 DEF IsDead, otherwhite
<1>12. ~IsDead(made, x)
  BY <1>2, <1>3, <1>6 DEF IsDead, otherwhite, StrTypeOK, Tables
<1>13. Alive(made)
  BY <1>2, <1>4, <1>5, <1>6, <1>8, <1>11, <1>12 DEF Alive
<1>14. StringsInv(made)
  BY <1>7, <1>10, <1>13 DEF StringsInv
<1>15. CASE made.nuse > made.size
  <2>. DEFINE r == luaS_resize(made, 2 * made.size)
  <2>1. 2 * made.size \in Nat \ {0}
    BY <1>7 DEF StrTypeOK, Tables, Chains
  <2>2. StringsInv(r) /\ Interned(r) = Interned(made)
    BY <1>14, <2>1, ResizeKeeps
  <2>3. r.currentwhite = made.currentwhite
    BY <1>7 DEF luaS_resize, StrTypeOK
  <2>4. ~IsDead(r, x)
    BY <1>12, <2>3 DEF IsDead, otherwhite
  <2>. QED  BY <1>1, <1>3, <1>8, <1>15, <2>2, <2>4
<1>16. CASE ~(made.nuse > made.size)
  BY <1>1, <1>3, <1>8, <1>12, <1>14, <1>16
<1>. QED  BY <1>15, <1>16

(* The program holds a string that is not dead.                            *)
LEMMA HoldKeeps ==
  ASSUME NEW tb, StringsInv(tb), NEW s \in Strings,
         \E e \in Interned(tb) : e.s = s /\ ~IsDead(tb, e)
  PROVE  StringsInv([tb EXCEPT !.held = @ \union {s}])
<1>. DEFINE r == [tb EXCEPT !.held = @ \union {s}]
<1>1. StrTypeOK(tb) /\ Placed(tb) /\ Alive(tb)
  BY DEF StringsInv
<1>2. /\ r.size = tb.size /\ r.hash = tb.hash /\ r.nuse = tb.nuse /\ r.currentwhite = tb.currentwhite
      /\ r.gcstate = tb.gcstate /\ r.sweepstrgc = tb.sweepstrgc /\ r.held = tb.held \union {s}
      /\ r \in Tables
  BY <1>1 DEF StrTypeOK, Tables
<1>. HIDE DEF r
<1>3. StrTypeOK(r)
  BY <1>1, <1>2 DEF StrTypeOK
<1>4. Interned(r) = Interned(tb) /\ \A e : IsDead(r, e) <=> IsDead(tb, e)
  BY <1>2 DEF Interned, IsDead, otherwhite
<1>5. Placed(r)
  BY <1>1, <1>2, <1>4 DEF Placed, Names
<1>6. Alive(r)
  BY <1>1, <1>2, <1>4 DEF Alive
<1>7. StringsInv(r)
  BY <1>3, <1>5, <1>6 DEF StringsInv
<1>. QED  BY <1>7 DEF r

(* A step that gives entries other marks, and no more: the table keeps its *)
(* strings where they are. Used for a dead string that is found again and  *)
(* for the marks of a collection.                                          *)
Remarks(tb, r) ==
  /\ StrTypeOK(r) /\ r.size = tb.size /\ r.nuse = tb.nuse
  /\ \A b \in 1 .. tb.size : \A e \in r.hash[b] : \E f \in tb.hash[b] : f.s = e.s
  /\ \A b \in 1 .. tb.size : \A f \in tb.hash[b] : \E e \in r.hash[b] : f.s = e.s
  /\ \A b \in 1 .. tb.size : \A e, f \in r.hash[b] : e.s = f.s => e = f

(* With other marks the table has the same strings, each where it was.     *)
LEMMA RemarksKeep ==
  ASSUME NEW tb, StrTypeOK(tb), Placed(tb), NEW r, Remarks(tb, r)
  PROVE  Placed(r) /\ Names(r) = Names(tb)
<1>1. /\ DOMAIN tb.hash = 1 .. tb.size /\ DOMAIN r.hash = 1 .. tb.size
  BY DEF StrTypeOK, Remarks
<1>2. Interned(r) = UNION {r.hash[b] : b \in 1 .. tb.size}
      /\ Interned(tb) = UNION {tb.hash[b] : b \in 1 .. tb.size}
  BY <1>1 DEF Interned
<1>3. ASSUME NEW e \in Interned(r)
      PROVE  \E f \in Interned(tb) : f.s = e.s
  BY <1>2 DEF Remarks
<1>4. ASSUME NEW f \in Interned(tb)
      PROVE  \E e \in Interned(r) : f.s = e.s
  BY <1>2 DEF Remarks
<1>5. Names(r) = Names(tb)
  <2>1. ASSUME NEW s \in Names(r) PROVE s \in Names(tb)
    BY <1>3 DEF Names
  <2>2. ASSUME NEW s \in Names(tb) PROVE s \in Names(r)
    BY <1>4 DEF Names
  <2>. QED  BY <2>1, <2>2
<1>6. \A b \in 1 .. tb.size : \A e \in r.hash[b] : Bucket(e.s, r.size) = b
  BY <1>1 DEF Placed, Remarks
<1>7. ASSUME NEW e \in Interned(r), NEW f \in Interned(r), e.s = f.s
      PROVE  e = f
  <2>1. PICK b \in 1 .. tb.size, c \in 1 .. tb.size : e \in r.hash[b] /\ f \in r.hash[c]
    BY <1>2
  <2>2. b = c
    BY <1>6, <1>7, <2>1
  <2>. QED  BY <1>7, <2>1, <2>2 DEF Remarks
<1>. QED  BY <1>1, <1>5, <1>6, <1>7 DEF Placed, Remarks

(* Entries of different strings are as many as their strings.              *)
LEMMA CountNames ==
  ASSUME NEW S, \A e, f \in S : e.s = f.s => e = f, IsFiniteSet({e.s : e \in S})
  PROVE  Cardinality(S) = Cardinality({e.s : e \in S})
<1>. DEFINE T == {e.s : e \in S}
            f == [s \in T |-> CHOOSE e \in S : e.s = s]
<1>1. \A s \in T : f[s] \in S /\ f[s].s = s
  OBVIOUS
<1>2. \A e \in S : e.s \in T /\ f[e.s] = e
  BY <1>1
<1>3. f \in [T -> S]
  BY <1>1
<1>. HIDE DEF f
<1>4. f \in Injection(T, S)
  BY <1>1, <1>3 DEF Injection, IsInjective
<1>5. f \in Surjection(T, S)
  <2>. HIDE DEF T
  <2>1. \A e \in S : \E s \in T : f[s] = e
    BY <1>2
  <2>. QED  BY <1>3, <2>1 DEF Surjection
<1>6. f \in Bijection(T, S)
  BY <1>4, <1>5 DEF Bijection
<1>. QED  BY <1>6, FS_Bijection DEF ExistsBijection

(* luaS_newlstr finds a string: if it is dead it gets the current white.   *)
LEMMA FindKeeps ==
  ASSUME StringsInv(strt), NEW e \in Interned(strt), FindString(e)
  PROVE  StringsInv(strt')
<1>. DEFINE b == Bucket(e.s, strt.size)
            x == Entry(e.s, strt.currentwhite)
            h == [strt.hash EXCEPT ![b] = IF IsDead(strt, e) THEN (@ \ {e}) \union {x} ELSE @]
            r == [strt EXCEPT !.hash = h]
<1>1. StrTypeOK(strt) /\ Placed(strt) /\ Alive(strt)
  BY DEF StringsInv
<1>2. /\ strt.hash \in [1 .. strt.size -> SUBSET Entries] /\ strt.size \in Nat \ {0}
      /\ strt.currentwhite \in {0, 1}
  BY <1>1 DEF StrTypeOK, Tables, Chains
<1>3. e \in Entries /\ e.s \in Strings
  BY <1>2, EntryIs DEF Interned
<1>4. b \in 1 .. strt.size /\ x \in Entries /\ x.s = e.s /\ x.marked = strt.currentwhite /\ e \in strt.hash[b]
  BY <1>2, <1>3, BucketInTable, EntryIs DEF FindString
<1>5. strt' = [r EXCEPT !.held = @ \union {e.s}]
  BY <1>1 DEF FindString, StrTypeOK, Tables
<1>. HIDE DEF b, x
<1>6. /\ h \in [1 .. strt.size -> SUBSET Entries]
      /\ h[b] = IF IsDead(strt, e) THEN (strt.hash[b] \ {e}) \union {x} ELSE strt.hash[b]
      /\ \A c \in 1 .. strt.size : c # b => h[c] = strt.hash[c]
  BY <1>2, <1>4
<1>. HIDE DEF h
<1>7. /\ r.size = strt.size /\ r.hash = h /\ r.nuse = strt.nuse /\ r.currentwhite = strt.currentwhite
      /\ r.gcstate = strt.gcstate /\ r.sweepstrgc = strt.sweepstrgc /\ r.held = strt.held
  BY <1>1 DEF StrTypeOK, Tables
<1>8. StrTypeOK(r)
  <2>1. h \in Chains /\ DOMAIN h = 1 .. strt.size
    BY <1>2, <1>6 DEF Chains
  <2>2. r \in Tables
    BY <1>1, <2>1 DEF StrTypeOK, Tables
  <2>. QED  BY <1>1, <1>7, <2>1, <2>2 DEF StrTypeOK
<1>. HIDE DEF r
<1>9. \A d, f \in strt.hash[b] : d.s = f.s => d = f
  BY <1>1, <1>2, <1>4 DEF Placed, Interned
<1>10. Remarks(strt, r)
  BY <1>2, <1>4, <1>6, <1>7, <1>8, <1>9, <1>1 DEF Remarks, Placed, Interned
<1>11. Placed(r) /\ Names(r) = Names(strt)
  BY <1>1, <1>10, RemarksKeep
<1>12. \A d : IsDead(r, d) <=> IsDead(strt, d)
  BY <1>7 DEF IsDead, otherwhite
<1>13. ~IsDead(r, x)
  BY <1>2, <1>4, <1>7 DEF IsDead, otherwhite
<1>14. \E d \in Interned(r) : d.s = e.s /\ ~IsDead(r, d)
  <2>1. r.hash[b] \subseteq Interned(r)
    BY <1>4, <1>6, <1>7 DEF Interned
  <2>2. CASE IsDead(strt, e)
    BY <1>4, <1>6, <1>7, <1>13, <2>1, <2>2
  <2>3. CASE ~IsDead(strt, e)
    BY <1>4, <1>6, <1>7, <1>12, <2>1, <2>3
  <2>. QED  BY <2>2, <2>3
<1>15. Alive(r)
  <2>1. ASSUME NEW c \in 1 .. strt.size, NEW d \in h[c], IsDead(r, d)
        PROVE  strt.gcstate = "sweepstring" /\ c > strt.sweepstrgc
    <3>1. d \in strt.hash[c] /\ IsDead(strt, d)
      BY <1>6, <1>12, <1>13, <2>1
    <3>. QED  BY <1>1, <1>2, <3>1 DEF Alive
  <2>2. ASSUME NEW s \in strt.held PROVE \E d \in Interned(r) : d.s = s /\ ~IsDead(r, d)
    <3>1. PICK d \in Interned(strt) : d.s = s /\ ~IsDead(strt, d)
      BY <1>1 DEF Alive
    <3>2. PICK c \in 1 .. strt.size : d \in strt.hash[c]
      BY <1>2 DEF Interned
    <3>3. d \in h[c]
      BY <1>6, <3>1, <3>2
    <3>. QED  BY <1>6, <1>7, <1>12, <3>1, <3>3 DEF Interned
  <2>. QED  BY <1>6, <1>7, <2>1, <2>2 DEF Alive
<1>16. StringsInv(r)
  BY <1>8, <1>11, <1>15 DEF StringsInv
<1>. QED  BY <1>3, <1>5, <1>14, <1>16, HoldKeeps

(* luaS_newlstr makes a string that was not there.                         *)
LEMMA MakeKeeps ==
  ASSUME StringsInv(strt), NEW s \in Strings, MakeString(s)
  PROVE  StringsInv(strt')
<1>. DEFINE tb == newlstr(strt, s)
<1>1. /\ \A e \in strt.hash[Bucket(s, strt.size)] : e.s # s
      /\ strt' = [tb EXCEPT !.held = @ \union {s}]
  BY DEF MakeString
<1>2. StringsInv(tb) /\ \E e \in Interned(tb) : e.s = s /\ ~IsDead(tb, e)
  BY <1>1, NewlstrKeeps
<1>. HIDE DEF tb
<1>. QED  BY <1>1, <1>2, HoldKeeps

(* The end of the atomic step: what is marked is black, the white flips,   *)
(* and the entries of the old white are dead until the sweep comes.        *)
LEMMA FlipKeeps ==
  ASSUME StringsInv(strt), NEW marks \in SUBSET Strings, FlipWhite(marks)
  PROVE  StringsInv(strt')
<1>. DEFINE New(e) == IF e.s \in marks THEN Entry(e.s, Black) ELSE e
            h == [b \in DOMAIN strt.hash |-> {New(e) : e \in strt.hash[b]}]
<1>1. StrTypeOK(strt) /\ Placed(strt) /\ Alive(strt)
  BY DEF StringsInv
<1>2. /\ strt.hash \in [1 .. strt.size -> SUBSET Entries] /\ strt.size \in Nat \ {0}
      /\ strt.currentwhite \in {0, 1} /\ DOMAIN strt.hash = 1 .. strt.size
  BY <1>1 DEF StrTypeOK, Tables, Chains
<1>3. strt' = [strt EXCEPT !.hash = h, !.currentwhite = 1 - @, !.gcstate = "sweepstring",
                           !.sweepstrgc = 0, !.held = @ \cap marks]
  BY <1>1 DEF FlipWhite, StrTypeOK, Tables
<1>4. ASSUME NEW e \in Entries
      PROVE  New(e) \in Entries /\ New(e).s = e.s /\ (e.s \in marks => New(e).marked = 2)
  BY EntryIs DEF Black
<1>. HIDE DEF New
<1>5. h \in [1 .. strt.size -> SUBSET Entries]
  <2>1. \A b \in 1 .. strt.size : {New(e) : e \in strt.hash[b]} \subseteq Entries
    BY <1>2, <1>4
  <2>. QED  BY <1>2, <2>1
<1>6. \A b \in 1 .. strt.size : h[b] = {New(e) : e \in strt.hash[b]}
  BY <1>2
<1>. HIDE DEF h
<1>7. /\ strt'.size = strt.size /\ strt'.hash = h /\ strt'.nuse = strt.nuse
      /\ strt'.currentwhite = 1 - strt.currentwhite /\ strt'.gcstate = "sweepstring"
      /\ strt'.sweepstrgc = 0 /\ strt'.held = strt.held \cap marks
  BY <1>1, <1>3 DEF StrTypeOK, Tables
<1>8. StrTypeOK(strt')
  <2>1. h \in Chains /\ DOMAIN h = 1 .. strt.size
    BY <1>2, <1>5 DEF Chains
  <2>2. 1 - strt.currentwhite \in {0, 1}
    BY <1>2
  <2>3. strt' \in Tables
    BY <1>1, <1>3, <2>1, <2>2 DEF StrTypeOK, Tables
  <2>. QED  BY <1>2, <1>7, <2>1, <2>3 DEF StrTypeOK
<1>9. Remarks(strt, strt')
  <2>1. ASSUME NEW b \in 1 .. strt.size, NEW e \in h[b]
        PROVE  \E f \in strt.hash[b] : f.s = e.s /\ e = New(f)
    <3>1. PICK f \in strt.hash[b] : e = New(f)
      BY <1>6
    <3>. QED  BY <1>2, <1>4, <3>1
  <2>2. ASSUME NEW b \in 1 .. strt.size, NEW f \in strt.hash[b]
        PROVE  \E e \in h[b] : f.s = e.s
    BY <1>2, <1>4, <1>6
  <2>3. ASSUME NEW b \in 1 .. strt.size, NEW e \in h[b], NEW f \in h[b], e.s = f.s
        PROVE  e = f
    <3>1. PICK d \in strt.hash[b] : d.s = e.s /\ e = New(d)
      BY <2>1
    <3>2. PICK g \in strt.hash[b] : g.s = f.s /\ f = New(g)
      BY <2>1
    <3>3. d = g
      BY <1>1, <1>2, <2>3, <3>1, <3>2 DEF Placed, Interned
    <3>. QED  BY <3>1, <3>2, <3>3
  <2>. QED  BY <1>7, <1>8, <2>1, <2>2, <2>3 DEF Remarks
<1>10. Placed(strt')
  BY <1>1, <1>9, RemarksKeep
<1>11. Alive(strt')
  <2>1. \A b \in DOMAIN strt'.hash : b > strt'.sweepstrgc
    BY <1>5, <1>7
  <2>2. ASSUME NEW s \in strt'.held
        PROVE  \E e \in Interned(strt') : e.s = s /\ ~IsDead(strt', e)
    <3>1. PICK e \in Interned(strt) : e.s = s
      BY <1>1, <1>7, <2>2 DEF Alive
    <3>2. PICK b \in 1 .. strt.size : e \in strt.hash[b]
      BY <1>2, <3>1 DEF Interned
    <3>3. New(e) \in Interned(strt')
      BY <1>5, <1>6, <1>7, <3>2 DEF Interned
    <3>4. New(e).s = s /\ New(e).marked = 2
      BY <1>2, <1>4, <1>7, <2>2, <3>1, <3>2
    <3>5. ~IsDead(strt', New(e))
      BY <1>2, <1>7, <3>4 DEF IsDead, otherwhite
    <3>. QED  BY <3>3, <3>4, <3>5
  <2>. QED  BY <1>7, <2>1, <2>2 DEF Alive
<1>. QED  BY <1>8, <1>10, <1>11 DEF StringsInv

(* A bucket is swept: the dead go and are no longer counted, the others    *)
(* are white again.                                                        *)
LEMMA SweepKeeps ==
  ASSUME StringsInv(strt), SweepBucket
  PROVE  StringsInv(strt')
<1>. DEFINE b == strt.sweepstrgc + 1
            freed == {e \in strt.hash[b] : IsDead(strt, e)}
            left == {Entry(e.s, strt.currentwhite) : e \in strt.hash[b] \ freed}
            h == [strt.hash EXCEPT ![b] = left]
            next == IF b >= strt.size THEN "sweep" ELSE "sweepstring"
            n == Cardinality(freed)
<1>1. StrTypeOK(strt) /\ Placed(strt) /\ Alive(strt)
  BY DEF StringsInv
<1>2. /\ strt.hash \in [1 .. strt.size -> SUBSET Entries] /\ strt.size \in Nat \ {0}
      /\ strt.currentwhite \in {0, 1} /\ DOMAIN strt.hash = 1 .. strt.size
      /\ strt.gcstate = "sweepstring" /\ strt.sweepstrgc \in Nat /\ b \in 1 .. strt.size
      /\ strt.nuse \in Nat
  BY <1>1 DEF StrTypeOK, Tables, Chains, SweepBucket
<1>3. strt' = [strt EXCEPT !.hash = h, !.nuse = strt.nuse - n, !.sweepstrgc = b, !.gcstate = next]
  BY <1>1, <1>2 DEF SweepBucket, StrTypeOK, Tables
<1>. HIDE DEF b
<1>4. ASSUME NEW e \in Entries
      PROVE  LET x == Entry(e.s, strt.currentwhite) IN
             x \in Entries /\ x.s = e.s /\ x.marked = strt.currentwhite
  BY <1>2, EntryIs
<1>5. /\ \A x \in left : /\ x \in Entries /\ x.marked = strt.currentwhite
                         /\ \E e \in strt.hash[b] \ freed : x.s = e.s /\ x = Entry(e.s, strt.currentwhite)
      /\ \A e \in strt.hash[b] \ freed : \E x \in left : x.s = e.s
  BY <1>2, <1>4
<1>. HIDE DEF left
<1>6. /\ h \in [1 .. strt.size -> SUBSET Entries] /\ h[b] = left
      /\ \A c \in 1 .. strt.size : c # b => h[c] = strt.hash[c]
  BY <1>2, <1>5
<1>. HIDE DEF h
<1>7. Interned(strt) = UNION {strt.hash[c] : c \in 1 .. strt.size}
  BY <1>2 DEF Interned
<1>8. IsFiniteSet(Names(strt)) /\ strt.nuse = Cardinality(Names(strt))
  BY <1>1 DEF Placed
<1>. DEFINE gone == {e.s : e \in freed}
<1>9. /\ gone \subseteq Names(strt) /\ IsFiniteSet(gone)
      /\ n = Cardinality(gone) /\ n \in Nat
      /\ IsFiniteSet(Names(strt) \ gone) /\ Cardinality(Names(strt) \ gone) = strt.nuse - n
  <2>1. freed \subseteq Interned(strt)
    BY <1>2, <1>7
  <2>2. gone \subseteq Names(strt)
    BY <2>1 DEF Names
  <2>3. IsFiniteSet(gone)
    BY <1>8, <2>2, FS_Subset
  <2>4. \A e, f \in freed : e.s = f.s => e = f
    BY <1>1, <2>1 DEF Placed
  <2>. HIDE DEF freed
  <2>5. n = Cardinality(gone)
    BY <2>3, <2>4, CountNames
  <2>6. n \in Nat
    BY <2>3, <2>5, FS_CardinalityType
  <2>7. Names(strt) \cap gone = gone
    BY <2>2
  <2>8. IsFiniteSet(Names(strt) \ gone)
        /\ Cardinality(Names(strt) \ gone) = Cardinality(Names(strt)) - Cardinality(Names(strt) \cap gone)
    BY <1>8, FS_Difference
  <2>. QED  BY <1>8, <2>2, <2>3, <2>5, <2>6, <2>7, <2>8
<1>10. strt.nuse - n \in Nat
  BY <1>9, FS_CardinalityType
<1>11. \A c \in 1 .. strt.size : \A e \in strt.hash[c] : Bucket(e.s, strt.size) = c
  BY <1>1, <1>2 DEF Placed
<1>12. \A e, f \in Interned(strt) : e.s = f.s => e = f
  BY <1>1 DEF Placed
<1>. HIDE DEF n
<1>13. /\ strt'.size = strt.size /\ strt'.hash = h /\ strt'.nuse = strt.nuse - n
       /\ strt'.currentwhite = strt.currentwhite /\ strt'.gcstate = next
       /\ strt'.sweepstrgc = b /\ strt'.held = strt.held
  BY <1>1, <1>3 DEF StrTypeOK, Tables
<1>14. StrTypeOK(strt')
  <2>1. h \in Chains /\ DOMAIN h = 1 .. strt.size
    BY <1>2, <1>6 DEF Chains
  <2>2. \A H \in Chains, m \in Nat, k \in Nat, g \in {"sweep", "sweepstring"} :
          [strt EXCEPT !.hash = H, !.nuse = m, !.sweepstrgc = k, !.gcstate = g] \in Tables
    BY <1>1 DEF StrTypeOK, Tables
  <2>3. next \in {"sweep", "sweepstring"} /\ b \in Nat
    BY <1>2
  <2>4. strt' \in Tables
    <3>. HIDE DEF next
    <3>. QED  BY <1>3, <1>10, <2>1, <2>2, <2>3
  <2>. QED  BY <1>2, <1>13, <2>1, <2>4 DEF StrTypeOK
<1>15. Interned(strt') = UNION {h[c] : c \in 1 .. strt.size}
  BY <1>6, <1>13 DEF Interned
<1>16. \A c \in 1 .. strt.size : \A e \in h[c] : \E f \in strt.hash[c] : f.s = e.s /\ (c = b => f \notin freed)
  BY <1>5, <1>6
<1>17. \A c \in 1 .. strt.size : \A f \in strt.hash[c] : f.s \notin gone => \E e \in h[c] : e.s = f.s
  BY <1>5, <1>6
<1>18. \A c \in 1 .. strt.size : \A e, f \in h[c] : e.s = f.s => e = f
  BY <1>2, <1>5, <1>6, <1>7, <1>12
<1>19. \A c \in 1 .. strt.size : \A e \in h[c] : Bucket(e.s, strt.size) = c
  BY <1>11, <1>16
<1>20. Names(strt') = Names(strt) \ gone
  <2>1. ASSUME NEW s \in Names(strt') PROVE s \in Names(strt) \ gone
    <3>1. PICK c \in 1 .. strt.size : \E e \in h[c] : e.s = s
      BY <1>15 DEF Names
    <3>2. PICK f \in strt.hash[c] : f.s = s /\ (c = b => f \notin freed)
      BY <1>16, <3>1
    <3>3. f \in Interned(strt)
      BY <1>7, <3>2
    <3>4. \A d \in freed : d.s # s
      <4>1. SUFFICES ASSUME NEW d \in freed, d.s = s PROVE FALSE
        OBVIOUS
      <4>2. d \in strt.hash[b] /\ d \in Interned(strt)
        BY <1>2, <1>7
      <4>3. d = f
        BY <1>12, <3>2, <3>3, <4>1, <4>2
      <4>4. c = b
        BY <1>2, <1>11, <4>2, <4>3, <3>2
      <4>. QED  BY <3>2, <4>3, <4>4
    <3>. QED  BY <3>2, <3>3, <3>4 DEF Names
  <2>2. ASSUME NEW s \in Names(strt), s \notin gone PROVE s \in Names(strt')
    <3>1. PICK c \in 1 .. strt.size : \E f \in strt.hash[c] : f.s = s
      BY <1>7 DEF Names
    <3>2. \E e \in h[c] : e.s = s
      BY <1>17, <2>2, <3>1
    <3>. QED  BY <1>15, <3>2 DEF Names
  <2>. QED  BY <2>1, <2>2
<1>21. Placed(strt')
  <2>1. ASSUME NEW e \in Interned(strt'), NEW f \in Interned(strt'), e.s = f.s PROVE e = f
    <3>1. PICK c \in 1 .. strt.size, d \in 1 .. strt.size : e \in h[c] /\ f \in h[d]
      BY <1>15
    <3>2. c = d
      BY <1>19, <2>1, <3>1
    <3>. QED  BY <1>18, <2>1, <3>1, <3>2
  <2>. QED  BY <1>6, <1>9, <1>13, <1>19, <1>20, <2>1 DEF Placed
<1>22. \A e : IsDead(strt', e) <=> IsDead(strt, e)
  BY <1>13 DEF IsDead, otherwhite
<1>23. \A e \in left : ~IsDead(strt, e)
  BY <1>2, <1>5 DEF IsDead, otherwhite
<1>24. Alive(strt')
  <2>1. ASSUME NEW c \in 1 .. strt.size, NEW e \in h[c], IsDead(strt', e)
        PROVE  strt'.gcstate = "sweepstring" /\ c > strt'.sweepstrgc
    <3>1. c # b /\ e \in strt.hash[c] /\ IsDead(strt, e)
      BY <1>6, <1>22, <1>23, <2>1
    <3>2. c > strt.sweepstrgc
      BY <1>1, <1>2, <3>1 DEF Alive
    <3>3. c > b
      BY <1>2, <3>1, <3>2 DEF b
    <3>. QED  BY <1>2, <1>13, <3>3
  <2>2. ASSUME NEW s \in strt.held PROVE \E e \in Interned(strt') : e.s = s /\ ~IsDead(strt', e)
    <3>1. PICK e \in Interned(strt) : e.s = s /\ ~IsDead(strt, e)
      BY <1>1 DEF Alive
    <3>2. PICK c \in 1 .. strt.size : e \in strt.hash[c]
      BY <1>7
    <3>3. CASE c = b
      <4>1. e \in strt.hash[b] \ freed
        BY <3>1, <3>2, <3>3
      <4>2. PICK x \in left : x.s = s
        BY <1>5, <3>1, <4>1
      <4>. QED  BY <1>2, <1>6, <1>15, <1>22, <1>23, <4>2
    <3>4. CASE c # b
      BY <1>6, <1>15, <1>22, <3>1, <3>2, <3>4
    <3>. QED  BY <3>3, <3>4
  <2>. QED  BY <1>6, <1>13, <2>1, <2>2 DEF Alive
<1>. QED  BY <1>14, <1>21, <1>24 DEF StringsInv

(* The end of the sweep: the table may shrink.                             *)
LEMMA CheckSizesKeeps ==
  ASSUME StringsInv(strt), CheckSizes
  PROVE  StringsInv(strt')
<1>. DEFINE small == strt.nuse < strt.size \div 4 /\ strt.size > 2 * MINSTRTABSIZE
            tb == IF small THEN luaS_resize(strt, strt.size \div 2) ELSE strt
<1>1. strt.gcstate = "sweep" /\ strt' = [tb EXCEPT !.gcstate = "propagate"]
  BY DEF CheckSizes
<1>2. StringsInv(tb) /\ tb.gcstate = "sweep"
  <2>1. CASE small
    <3>1. strt.size \in Nat \ {0} /\ strt.size > 2 * MINSTRTABSIZE
      BY <2>1 DEF StringsInv, StrTypeOK, Tables
    <3>2. strt.size \div 2 \in Nat \ {0}
      BY <3>1, StringsAssumption
    <3>3. luaS_resize(strt, strt.size \div 2).gcstate = "sweep"
      BY <1>1 DEF StringsInv, StrTypeOK, Tables, luaS_resize
    <3>. QED  BY <2>1, <3>2, <3>3, ResizeKeeps
  <2>2. CASE ~small
    BY <1>1, <2>2
  <2>. QED  BY <2>1, <2>2
<1>. HIDE DEF tb
<1>3. StrTypeOK(tb) /\ Placed(tb) /\ Alive(tb)
  BY <1>2 DEF StringsInv
<1>4. /\ strt'.size = tb.size /\ strt'.hash = tb.hash /\ strt'.nuse = tb.nuse
      /\ strt'.currentwhite = tb.currentwhite /\ strt'.gcstate = "propagate"
      /\ strt'.held = tb.held /\ strt' \in Tables
  BY <1>1, <1>3 DEF StrTypeOK, Tables
<1>5. StrTypeOK(strt')
  BY <1>3, <1>4 DEF StrTypeOK
<1>6. Interned(strt') = Interned(tb) /\ \A e : IsDead(strt', e) <=> IsDead(tb, e)
  BY <1>4 DEF Interned, IsDead, otherwhite
<1>7. Placed(strt')
  BY <1>3, <1>4, <1>6 DEF Placed, Names
<1>8. Alive(strt')
  BY <1>2, <1>3, <1>4, <1>6 DEF Alive
<1>. QED  BY <1>5, <1>7, <1>8 DEF StringsInv

(* A string is in the table once and where its hash says, counted, and     *)
(* there while the program holds it (luaS_newlstr, luaS_resize, the sweep  *)
(* of the buckets, checkSizes), whatever is marked and in any order.       *)
THEOREM StringsInterned == StringsSpec => []InternedOnce
<1>1. StringsInit => StringsInv(strt)
  <2>. SUFFICES ASSUME StringsInit PROVE StringsInv(strt)
    OBVIOUS
  <2>. DEFINE n == MINSTRTABSIZE
  <2>1. n \in Nat \ {0}
    BY StringsAssumption
  <2>2. /\ strt.size = n /\ strt.hash = [b \in 1 .. n |-> {}] /\ strt.nuse = 0
        /\ strt.gcstate = "propagate" /\ strt.held = {}
    BY DEF StringsInit, NoStrings
  <2>3. [b \in 1 .. n |-> {}] \in Chains
    BY <2>1 DEF Chains
  <2>4. StrTypeOK(strt)
    BY <2>1, <2>2, <2>3 DEF StringsInit, NoStrings, StrTypeOK, Tables
  <2>5. Interned(strt) = {}
    BY <2>2 DEF Interned
  <2>6. Placed(strt) /\ Alive(strt)
    BY <2>2, <2>5, FS_EmptySet DEF Placed, Alive, Names
  <2>. QED  BY <2>4, <2>6 DEF StringsInv
<1>2. StringsInv(strt) /\ [StringsNext]_strt => StringsInv(strt')
  <2>1. ASSUME StringsInv(strt), NEW s \in Strings, NewString(s) PROVE StringsInv(strt')
    BY <2>1, MakeKeeps, FindKeeps DEF NewString
  <2>2. ASSUME StringsInv(strt), StringsNext PROVE StringsInv(strt')
    BY <2>1, <2>2, FlipKeeps, SweepKeeps, CheckSizesKeeps DEF StringsNext
  <2>. QED  BY <2>2
<1>3. StringsInv(strt) => InternedOnce
  <2>. SUFFICES ASSUME StringsInv(strt) PROVE InternedOnce
    OBVIOUS
  <2>1. Placed(strt) /\ Alive(strt)
    BY DEF StringsInv
  <2>2. Cardinality(Interned(strt)) = Cardinality(Names(strt))
    BY <2>1, CountNames DEF Placed, Names
  <2>3. strt.held \subseteq {e.s : e \in Interned(strt)}
    BY <2>1 DEF Alive
  <2>4. strt.gcstate # "sweepstring" => \A e \in Interned(strt) : ~IsDead(strt, e)
    BY <2>1 DEF Alive, Interned
  <2>. QED  BY <2>1, <2>2, <2>3, <2>4 DEF InternedOnce, Placed
<1>. DEFINE Inv == StringsInv(strt)
<1>4. Inv' <=> StringsInv(strt')
  BY DEF StringsInv, StrTypeOK, Tables, Placed, Alive, Interned, Names, IsDead, otherwhite
<1>. HIDE DEF Inv
<1>. QED  BY <1>1, <1>2, <1>3, <1>4, PTL DEF StringsSpec, Inv

-----------------------------------------------------------------------------
(* table.sort.                                                             *)

(* Powers of two: 2 ^ d counts the subsets of a set of d elements.         *)
LEMMA Power ==
  /\ 2^0 = 1
  /\ \A d \in Nat : 2^d \in Nat /\ 2^(d + 1) = 2^d + 2^d
<1>1. 2^0 = 1
  <2>1. SUBSET {} = {{}}
    OBVIOUS
  <2>. QED  BY <2>1, FS_SUBSET, FS_EmptySet, FS_Singleton
<1>2. ASSUME NEW d \in Nat PROVE 2^d \in Nat /\ 2^(d + 1) = 2^d + 2^d
  <2>. DEFINE S == 1 .. d
              e == d + 1
              X == {T \cup {e} : T \in SUBSET S}
  <2>1. IsFiniteSet(S) /\ Cardinality(S) = d /\ IsFiniteSet(1 .. e) /\ Cardinality(1 .. e) = e
    BY FS_Interval
  <2>2. IsFiniteSet(SUBSET S) /\ Cardinality(SUBSET S) = 2^d /\ Cardinality(SUBSET (1 .. e)) = 2^e
    BY <2>1, FS_SUBSET
  <2>3. SUBSET (1 .. e) = (SUBSET S) \cup X /\ (SUBSET S) \cap X = {}
    <3>1. e \notin S /\ 1 .. e = S \cup {e}
      OBVIOUS
    <3>. HIDE DEF S, e
    <3>2. ASSUME NEW T \in SUBSET (1 .. e), T \notin SUBSET S PROVE T \in X
      <4>1. e \in T /\ T \ {e} \in SUBSET S /\ T = (T \ {e}) \cup {e}
        BY <3>1, <3>2
      <4>. QED  BY <4>1
    <3>3. ASSUME NEW T \in X PROVE T \in SUBSET (1 .. e) /\ T \notin SUBSET S
      BY <3>1, <3>3
    <3>4. ASSUME NEW T \in SUBSET S PROVE T \in SUBSET (1 .. e)
      BY <3>1, <3>4
    <3>. QED  BY <3>2, <3>3, <3>4
  <2>4. IsFiniteSet(X) /\ Cardinality(X) = 2^d
    <3>1. e \notin S
      OBVIOUS
    <3>. DEFINE f == [T \in SUBSET S |-> T \cup {e}]
    <3>. HIDE DEF S, e
    <3>2. ASSUME NEW T \in SUBSET S, NEW U \in SUBSET S, f[T] = f[U] PROVE T = U
      <4>1. T = f[T] \ {e} /\ U = f[U] \ {e}
        BY <3>1
      <4>. QED  BY <3>2, <4>1
    <3>3. f \in [SUBSET S -> X] /\ \A U \in X : \E T \in SUBSET S : f[T] = U
      OBVIOUS
    <3>. HIDE DEF f, X
    <3>4. f \in Injection(SUBSET S, X) /\ f \in Surjection(SUBSET S, X)
      BY <3>2, <3>3 DEF Injection, IsInjective, Surjection
    <3>5. f \in Bijection(SUBSET S, X)
      BY <3>4 DEF Bijection
    <3>. QED  BY <2>2, <3>5, FS_Bijection DEF ExistsBijection
  <2>5. Cardinality(SUBSET (1 .. e)) = Cardinality(SUBSET S) + Cardinality(X) - Cardinality({})
    <3>. HIDE DEF S, e, X
    <3>. QED  BY <2>2, <2>3, <2>4, FS_Union
  <2>6. 2^d \in Nat
    BY <2>2, FS_CardinalityType
  <2>. QED  BY <2>2, <2>4, <2>5, <2>6, FS_EmptySet
<1>. QED  BY <1>1, <1>2

SortSpec == SortInit /\ [][SortNext]_sorting

(* The types of the state: an array has a place more at either end.        *)
Padding(n) == [1 .. n + 2 -> Nat]
Paddings == UNION {Padding(n) : n \in Nat}
Comparing == {"ends", "middle", "high", "up", "down"}
Sorts == [pc : Comparing \cup {"loop", "return", "done", "error"}, a : Paddings, was : Paddings,
          any : BOOLEAN, l : Int, u : Int, i : Int, j : Int, P : Nat, rest : Seq(Int \X Int), n : Nat]

PlacesOf(a, v) == {k \in DOMAIN a : a[k] = v}

(* No element is lost or doubled.                                          *)
Permuted(s) == \A v \in Nat : Cardinality(PlacesOf(s.a, v)) = Cardinality(PlacesOf(s.was, v))

(* The range being sorted is at most n halved as often as calls are nested,*)
(* and each range that waits fits where its call is.                       *)
Size(r) == r[2] - r[1] + 1
Nested(s) ==
  /\ s.rest # <<>> => 2 ^ Len(s.rest) <= s.n
  /\ (s.u - s.l + 1) * 2 ^ Len(s.rest) <= s.n
  /\ \A m \in 1 .. Len(s.rest) : Size(s.rest[m]) * 2 ^ (Len(s.rest) - m) <= s.n

SortTypeOK(s) ==
  /\ s \in Sorts /\ s.a \in Padding(s.n) /\ s.was \in Padding(s.n)
  /\ s.l >= 1 /\ s.u <= s.n
  /\ \A m \in 1 .. Len(s.rest) : s.rest[m][1] >= 1 /\ s.rest[m][2] <= s.n

(* Where the indices are, whatever the order function answers.             *)
Indices(s) ==
  /\ s.pc \in Comparing => s.l < s.u
  /\ s.pc \in {"middle", "high"} => s.u - s.l >= 2 /\ s.i = (s.l + s.u) \div 2
  /\ s.pc \in {"up", "down"} => s.u - s.l >= 3 /\ s.j <= s.u
  /\ s.pc = "up" => s.l <= s.i /\ s.i <= s.u /\ s.l < s.j
  /\ s.pc = "down" => s.l < s.i /\ s.i <= s.u + 1 /\ s.l <= s.j
  /\ s.pc = "done" => s.rest = <<>>

(* The rest is of a sort with an order.                                    *)
(* V(s, k) is the element at index k.                                      *)
V(s, k) == s.a[k + 1]
In(k, l, u) == l <= k /\ k <= u
InRest(s, m, k) == In(k, s.rest[m][1], s.rest[m][2])

(* Ranges that are still to be sorted do not overlap, and elements that    *)
(* are not in the same one are where they belong.                          *)
Disjoint(s) ==
  /\ \A m \in 1 .. Len(s.rest), k \in 1 .. s.n : InRest(s, m, k) => ~In(k, s.l, s.u)
  /\ \A m, o \in 1 .. Len(s.rest), k \in 1 .. s.n : InRest(s, m, k) /\ InRest(s, o, k) => m = o

Together(s, x, y) ==
  \/ In(x, s.l, s.u) /\ In(y, s.l, s.u)
  \/ \E m \in 1 .. Len(s.rest) : InRest(s, m, x) /\ InRest(s, m, y)

Separated(s) == \A x, y \in 1 .. s.n : x < y => V(s, x) <= V(s, y) \/ Together(s, x, y)

Outside(s) == Disjoint(s) /\ Separated(s)

(* auxsort's own comments: "a[l] <= P == a[u-1] <= a[u]" and the invariant *)
(* of its loop, "a[l..i] <= P <= a[j..u]".                                 *)
Ends(s) ==
  /\ s.pc \in {"middle", "high"} => V(s, s.l) <= V(s, s.u)
  /\ s.pc = "high" => V(s, s.l) <= V(s, s.i)
  /\ s.pc \in {"return", "done"} =>
       \A x, y \in s.l .. s.u : x < y => V(s, x) <= V(s, y)

Parting(s) ==
  /\ s.pc \in {"up", "down"} =>
       /\ V(s, s.u - 1) = s.P /\ s.j < s.u /\ s.l < s.j
       /\ \A k \in s.l .. s.i - 1 : V(s, k) <= s.P
       /\ \A k \in s.j .. s.u : V(s, k) >= s.P
  /\ s.pc = "up" => V(s, s.i) <= s.P /\ s.i <= s.j /\ (s.i = s.j => s.i < s.u - 1)
  /\ s.pc = "down" => V(s, s.i) >= s.P /\ s.i < s.u /\ s.i <= s.j + 1

InOrder(s) == s.pc # "error" /\ Outside(s) /\ Ends(s) /\ Parting(s)

Framed(s) == SortTypeOK(s) /\ Permuted(s) /\ Nested(s)

SortInv(s) == /\ Framed(s) /\ Indices(s)
              /\ ~s.any => InOrder(s)

(* set2 exchanges two elements.                                            *)
SwapOf(n, a, b, i, j) ==
  /\ b \in Padding(n)
  /\ \A k \in 0 .. n + 1 :
       b[k + 1] = IF k = i THEN a[j + 1] ELSE IF k = j THEN a[i + 1] ELSE a[k + 1]

(* Swapped is what set2 does.                                              *)
LEMMA SwapIs ==
  ASSUME NEW n \in Nat, NEW a \in Padding(n), NEW i \in 0 .. n + 1, NEW j \in 0 .. n + 1
  PROVE  SwapOf(n, a, Swapped(a, i, j), i, j)
BY SMTT(30) DEF Swapped, Padding, SwapOf

(* An exchange leaves as many elements of each value.                      *)
LEMMA SwapPermutes ==
  ASSUME NEW n \in Nat, NEW a \in Padding(n), NEW i \in 0 .. n + 1, NEW j \in 0 .. n + 1, NEW v \in Nat
  PROVE  Cardinality(PlacesOf(Swapped(a, i, j), v)) = Cardinality(PlacesOf(a, v))
<1>. DEFINE b == Swapped(a, i, j)
            S == PlacesOf(a, v)
            T == PlacesOf(b, v)
            Other(k) == IF k = i + 1 THEN j + 1 ELSE IF k = j + 1 THEN i + 1 ELSE k
            f == [k \in S |-> Other(k)]
<1>1. DOMAIN a = 1 .. n + 2 /\ DOMAIN b = 1 .. n + 2
  BY SwapIs DEF Padding, SwapOf
<1>2. \A k \in 1 .. n + 2 : Other(k) \in 1 .. n + 2 /\ Other(Other(k)) = k
  OBVIOUS
<1>3. \A k \in 1 .. n + 2 : b[Other(k)] = a[k]
  BY DEF Swapped, Padding
<1>. HIDE DEF b, Other
<1>4. f \in [S -> T]
  BY <1>1, <1>2, <1>3 DEF PlacesOf
<1>5. \A k \in T : Other(k) \in S /\ f[Other(k)] = k
  BY <1>1, <1>2, <1>3 DEF PlacesOf
<1>6. \A k, m \in S : f[k] = f[m] => k = m
  BY <1>1, <1>2 DEF PlacesOf
<1>7. IsFiniteSet(S)
  <2>1. IsFiniteSet(1 .. n + 2)
    BY FS_Interval
  <2>. QED  BY <1>1, <2>1, FS_Subset DEF PlacesOf
<1>. HIDE DEF f, S, T
<1>8. f \in Bijection(S, T)
  BY <1>4, <1>5, <1>6 DEF Bijection, Injection, Surjection, IsInjective
<1>. QED  BY <1>7, <1>8, FS_Bijection DEF ExistsBijection, S, T, b

(* What a state of the sort that is stored says of its parts.              *)
LEMMA SortIs ==
  ASSUME NEW s, SortTypeOK(s)
  PROVE  /\ s.n \in Nat /\ s.l \in Nat /\ s.u \in Int /\ s.i \in Int /\ s.j \in Int /\ s.P \in Nat
         /\ s.any \in BOOLEAN /\ s.rest \in Seq(Int \X Int) /\ s.l >= 1 /\ s.u <= s.n
         /\ s.a \in Padding(s.n) /\ \A k \in 0 .. s.n + 1 : V(s, k) \in Nat
         /\ Len(s.rest) \in Nat /\ DOMAIN s.rest = 1 .. Len(s.rest)
         /\ \A m \in 1 .. Len(s.rest) : s.rest[m][1] \in Int /\ s.rest[m][2] \in Int
<1>1. s \in Sorts /\ s.a \in Padding(s.n) /\ s.l >= 1 /\ s.u <= s.n
  BY DEF SortTypeOK
<1>2. /\ s.n \in Nat /\ s.l \in Nat /\ s.u \in Int /\ s.i \in Int /\ s.j \in Int /\ s.P \in Nat
      /\ s.any \in BOOLEAN /\ s.rest \in Seq(Int \X Int)
  BY <1>1 DEF Sorts
<1>3. \A k \in 0 .. s.n + 1 : V(s, k) \in Nat
  <2>1. ASSUME NEW k \in 0 .. s.n + 1 PROVE s.a[k + 1] \in Nat
    <3>1. k + 1 \in 1 .. s.n + 2
      BY <1>2
    <3>. QED  BY <1>1, <3>1 DEF Padding
  <2>. QED  BY <2>1 DEF V
<1>4. Len(s.rest) \in Nat /\ DOMAIN s.rest = 1 .. Len(s.rest)
      /\ \A m \in 1 .. Len(s.rest) : s.rest[m] \in Int \X Int
  BY <1>2
<1>. QED  BY <1>1, <1>2, <1>3, <1>4

(* A step inside the range being sorted: at most two elements of it change *)
(* places. What does not depend on the order in the range is kept.         *)
Inside(s, r) ==
  /\ r \in Sorts /\ r.was = s.was /\ r.any = s.any /\ r.l = s.l /\ r.u = s.u
  /\ r.rest = s.rest /\ r.n = s.n

Exchanged(s, r, x, y) ==
  /\ Inside(s, r) /\ r.a = Swapped(s.a, x, y) /\ x \in 0 .. s.n + 1 /\ y \in 0 .. s.n + 1

(* A step that exchanges nothing.                                          *)
LEMMA InsideKeeps ==
  ASSUME NEW s, Framed(s), NEW r, Inside(s, r), r.a = s.a
  PROVE  Framed(r) /\ \A k : V(r, k) = V(s, k)
BY DEF Framed, Inside, SortTypeOK, Permuted, Nested, V

(* An exchange permutes the array and moves two elements only.             *)
LEMMA ExchangeKeeps ==
  ASSUME NEW s, Framed(s), NEW r, NEW x, NEW y, Exchanged(s, r, x, y)
  PROVE  /\ Framed(r)
         /\ \A k \in 0 .. s.n + 1 :
              V(r, k) = IF k = x THEN V(s, y) ELSE IF k = y THEN V(s, x) ELSE V(s, k)
<1>1. /\ s.n \in Nat /\ s.a \in Padding(s.n) /\ x \in 0 .. s.n + 1 /\ y \in 0 .. s.n + 1
      /\ r.a = Swapped(s.a, x, y)
  BY SortIs DEF Framed, Exchanged
<1>2. SwapOf(s.n, s.a, r.a, x, y)
  BY <1>1, SwapIs
<1>3. SortTypeOK(r)
  BY <1>2 DEF SwapOf, SortTypeOK, Framed, Exchanged, Inside
<1>4. Permuted(r)
  BY <1>1, SwapPermutes DEF Permuted, Framed, Exchanged, Inside
<1>5. Nested(r)
  BY DEF Nested, Framed, Exchanged, Inside
<1>6. \A k \in 0 .. s.n + 1 : V(r, k) = IF k = x THEN V(s, y) ELSE IF k = y THEN V(s, x) ELSE V(s, k)
  BY <1>1, <1>2 DEF V, SwapOf
<1>. QED  BY <1>3, <1>4, <1>5, <1>6 DEF Framed

(* What is outside the range stays where it belongs when nothing moves.    *)
LEMMA InsideOutside ==
  ASSUME NEW s, Framed(s), Outside(s), NEW r, Inside(s, r), r.a = s.a
  PROVE  Outside(r)
BY DEF Inside, Outside, Disjoint, Separated, Together, V, InRest

(* The same when two elements of the range are exchanged.                  *)
LEMMA ExchangeOutside ==
  ASSUME NEW s, Framed(s), Outside(s), NEW r, NEW x, NEW y, Exchanged(s, r, x, y),
         In(x, s.l, s.u), In(y, s.l, s.u)
  PROVE  Outside(r)
<1>1. /\ s.n \in Nat /\ s.l \in Nat /\ s.u \in Int /\ s.l >= 1 /\ s.u <= s.n
      /\ \A k \in 0 .. s.n + 1 : V(s, k) \in Nat
  BY SortIs DEF Framed
<1>2. x \in 1 .. s.n /\ y \in 1 .. s.n
  BY <1>1 DEF In, Exchanged
<1>3. \A k \in 1 .. s.n :
              V(r, k) = IF k = x THEN V(s, y) ELSE IF k = y THEN V(s, x) ELSE V(s, k)
  BY <1>1, ExchangeKeeps
<1>4. \A p, q : Together(r, p, q) <=> Together(s, p, q)
  BY DEF Together, InRest, Exchanged, Inside
<1>5. Disjoint(r) /\ Disjoint(s) /\ Separated(s) /\ r.n = s.n
  BY DEF Disjoint, InRest, Outside, Exchanged, Inside
<1>6. ASSUME NEW p \in 1 .. s.n, NEW q \in 1 .. s.n, In(p, s.l, s.u), ~In(q, s.l, s.u)
      PROVE  ~Together(s, p, q)
  BY <1>5, <1>6 DEF Together, Disjoint
<1>7. ASSUME NEW p \in 1 .. s.n, NEW q \in 1 .. s.n, ~In(p, s.l, s.u), In(q, s.l, s.u)
      PROVE  ~Together(s, p, q)
  BY <1>5, <1>7 DEF Together, Disjoint
<1>8. \A p, q \in 1 .. s.n : p < q => V(s, p) <= V(s, q) \/ Together(s, p, q)
  BY <1>5 DEF Separated
<1>9. ASSUME NEW p \in 1 .. s.n, NEW q \in 1 .. s.n, p < q, ~Together(s, p, q)
      PROVE  V(r, p) <= V(r, q)
  <2>1. CASE In(p, s.l, s.u) /\ In(q, s.l, s.u)
    BY <1>9, <2>1 DEF Together
  <2>2. CASE In(p, s.l, s.u) /\ ~In(q, s.l, s.u)
    <3>1. q > s.u /\ V(r, q) = V(s, q)
      BY <1>1, <1>2, <1>3, <1>9, <2>2 DEF In
    <3>2. \A k \in 1 .. s.n : In(k, s.l, s.u) => V(s, k) <= V(s, q)
      BY <1>1, <1>6, <1>8, <2>2, <3>1 DEF In
    <3>. QED  BY <1>2, <1>3, <2>2, <3>1, <3>2
  <2>3. CASE ~In(p, s.l, s.u) /\ In(q, s.l, s.u)
    <3>1. p < s.l /\ V(r, p) = V(s, p)
      BY <1>1, <1>2, <1>3, <1>9, <2>3 DEF In
    <3>2. \A k \in 1 .. s.n : In(k, s.l, s.u) => V(s, p) <= V(s, k)
      BY <1>1, <1>7, <1>8, <2>3, <3>1 DEF In
    <3>. QED  BY <1>2, <1>3, <2>3, <3>1, <3>2
  <2>4. CASE ~In(p, s.l, s.u) /\ ~In(q, s.l, s.u)
    BY <1>3, <1>8, <1>9, <2>4
  <2>. QED  BY <2>1, <2>2, <2>3, <2>4
<1>10. Separated(r)
  BY <1>4, <1>5, <1>9 DEF Separated
<1>. QED  BY <1>5, <1>10 DEF Outside

-----------------------------------------------------------------------------
(* The steps of the sort.                                                  *)

(* What a comparison leads to inside a range.                              *)
Moved(s, a, i, j, P, pc) == [s EXCEPT !.a = a, !.i = i, !.j = j, !.P = P, !.pc = pc]
PCs == Comparing \cup {"loop", "return", "done", "error"}

IsMoved(s, r, a, i, j, P, pc) ==
  Inside(s, r) /\ r.a = a /\ r.i = i /\ r.j = j /\ r.P = P /\ r.pc = pc

(* The fields of the state after a comparison.                             *)
LEMMA MovedIs ==
  ASSUME NEW s \in Sorts, NEW a \in Paddings, NEW i \in Int, NEW j \in Int, NEW P \in Nat, NEW pc \in PCs
  PROVE  IsMoved(s, Moved(s, a, i, j, P, pc), a, i, j, P, pc)
<1>. DEFINE r == Moved(s, a, i, j, P, pc)
<1>1. r \in Sorts
  BY DEF Moved, Sorts, PCs
<1>2. /\ r.was = s.was /\ r.any = s.any /\ r.l = s.l /\ r.u = s.u /\ r.rest = s.rest /\ r.n = s.n
      /\ r.a = a /\ r.i = i /\ r.j = j /\ r.P = P /\ r.pc = pc
  BY DEF Moved, Sorts
<1>. QED  BY <1>1, <1>2 DEF Inside, IsMoved

(* The order's answer, if it is one.                                       *)
Answer(x, y, answer) == ~sorting.any => (answer <=> x < y)

(* With an order, the answer is the order of the elements.                 *)
LEMMA AnswerIs ==
  ASSUME NEW x, NEW y, NEW answer \in Answers(x, y)
  PROVE  answer \in BOOLEAN /\ Answer(x, y, answer)
<1>1. CASE sorting.any
  BY <1>1 DEF Answers, Answer
<1>2. CASE ~sorting.any
  <2>1. answer = (x < y)
    BY <1>2 DEF Answers
  <2>2. (x < y) \in BOOLEAN
    OBVIOUS
  <2>. QED  BY <2>1, <2>2 DEF Answer
<1>. QED  BY <1>1, <1>2

(* a[u] < a[l]? Two elements are sorted then; of more a[l] <= a[u].        *)
LEMMA EndsKeeps ==
  ASSUME SortInv(sorting), SortEnds
  PROVE  SortInv(sorting')
<1>. DEFINE l == sorting.l
            u == sorting.u
            next == IF u - l = 1 THEN "return" ELSE "middle"
            h == (l + u) \div 2
            less == V(sorting, u) < V(sorting, l)
            same == Moved(sorting, sorting.a, h, sorting.j, sorting.P, next)
            swap == Moved(sorting, Swapped(sorting.a, l, u), h, sorting.j, sorting.P, next)
<1>1. Framed(sorting) /\ Indices(sorting) /\ sorting \in Sorts /\ sorting.pc = "ends"
  BY DEF SortInv, Framed, SortTypeOK, SortEnds, Compare
<1>2. \/ sorting' = swap /\ (~sorting.any => less)
      \/ sorting' = same /\ (~sorting.any => ~less)
  <2>1. PICK answer \in Answers(At(u), At(l)) :
         sorting' = [sorting EXCEPT !.a = IF answer THEN Swapped(@, l, u) ELSE @, !.i = h, !.pc = next]
    BY DEF SortEnds, Compare
  <2>2. \/ answer /\ (~sorting.any => less)
        \/ ~answer /\ (~sorting.any => ~less)
    BY AnswerIs DEF Answer, At, V
  <2>3. answer => sorting' = [sorting EXCEPT !.a = Swapped(@, l, u), !.i = h, !.pc = next]
    BY <2>1
  <2>4. ~answer => sorting' = [sorting EXCEPT !.a = @, !.i = h, !.pc = next]
    BY <2>1
  <2>5. [sorting EXCEPT !.a = Swapped(@, l, u), !.i = h, !.pc = next] = swap
    <3>. HIDE DEF h, next
    <3>. QED  BY <1>1 DEF Sorts, Moved
  <2>6. [sorting EXCEPT !.a = @, !.i = h, !.pc = next] = same
    <3>. HIDE DEF h, next
    <3>. QED  BY <1>1 DEF Sorts, Moved
  <2>. QED  BY <2>2, <2>3, <2>4, <2>5, <2>6
<1>3. /\ l \in Nat /\ u \in Int /\ l >= 1 /\ u <= sorting.n /\ sorting.n \in Nat /\ l < u
      /\ sorting.a \in Padding(sorting.n) /\ sorting.j \in Int /\ sorting.P \in Nat
      /\ \A k \in 0 .. sorting.n + 1 : V(sorting, k) \in Nat
  BY <1>1, SortIs DEF Framed, SortTypeOK, Indices, Comparing
<1>4. h \in Int /\ next \in PCs /\ next \in {"return", "middle"} /\ (next = "return" <=> u - l = 1)
  BY <1>3 DEF PCs, Comparing
<1>5. Swapped(sorting.a, l, u) \in Paddings /\ sorting.a \in Paddings
  BY <1>3, SwapIs DEF Paddings, SwapOf
<1>. HIDE DEF h, next
<1>6. Inside(sorting, same) /\ same.a = sorting.a /\ same.pc = next /\ same.i = h
  <2>1. IsMoved(sorting, same, sorting.a, h, sorting.j, sorting.P, next)
    BY <1>1, <1>3, <1>4, <1>5, MovedIs
  <2>. QED  BY <2>1 DEF IsMoved
<1>7. Exchanged(sorting, swap, l, u) /\ swap.pc = next /\ swap.i = h
  <2>1. IsMoved(sorting, swap, Swapped(sorting.a, l, u), h, sorting.j, sorting.P, next)
    BY <1>1, <1>3, <1>4, <1>5, MovedIs
  <2>. QED  BY <1>3, <2>1 DEF Exchanged, IsMoved
<1>8. ASSUME NEW r, Inside(sorting, r), r.pc = next, r.i = h, Framed(r),
             ~sorting.any => Outside(r) /\ V(r, l) <= V(r, u)
      PROVE  SortInv(r)
  <2>1. r.l = l /\ r.u = u /\ r.any = sorting.any
    BY <1>8 DEF Inside
  <2>2. Indices(r)
    BY <1>3, <1>4, <1>8, <2>1 DEF Indices, Comparing, h
  <2>3. ASSUME ~r.any PROVE InOrder(r)
    <3>1. V(r, l) <= V(r, u)
      BY <1>8, <2>1, <2>3
    <3>2. Ends(r)
      <4>1. ASSUME u - l = 1, NEW x \in l .. u, NEW y \in l .. u, x < y PROVE x = l /\ y = u
        BY <1>3, <4>1
      <4>. QED  BY <1>4, <1>8, <2>1, <3>1, <4>1 DEF Ends
    <3>. QED  BY <1>4, <1>8, <2>1, <2>3, <3>2 DEF InOrder, Parting
  <2>. QED  BY <1>8, <2>2, <2>3 DEF SortInv
<1>9. ASSUME sorting' = same, ~sorting.any => ~less PROVE SortInv(sorting')
  <2>1. Framed(same) /\ \A k : V(same, k) = V(sorting, k)
    BY <1>1, <1>6, InsideKeeps
  <2>2. ~sorting.any => Outside(same)
    BY <1>1, <1>6, InsideOutside DEF SortInv, InOrder
  <2>3. ~sorting.any => V(same, l) <= V(same, u)
    BY <1>3, <1>9, <2>1
  <2>. HIDE DEF same
  <2>. QED  BY <1>6, <1>8, <1>9, <2>1, <2>2, <2>3
<1>10. ASSUME sorting' = swap, ~sorting.any => less PROVE SortInv(sorting')
  <2>1. Framed(swap) /\ V(swap, l) = V(sorting, u) /\ V(swap, u) = V(sorting, l)
    BY <1>1, <1>3, <1>7, ExchangeKeeps
  <2>2. In(l, l, u) /\ In(u, l, u)
    BY <1>3 DEF In
  <2>3. ~sorting.any => Outside(swap)
    BY <1>1, <1>7, <2>2, ExchangeOutside DEF SortInv, InOrder
  <2>4. ~sorting.any => V(swap, l) <= V(swap, u)
    BY <1>3, <1>10, <2>1
  <2>5. Inside(sorting, swap)
    BY <1>7 DEF Exchanged
  <2>. HIDE DEF swap
  <2>. QED  BY <1>7, <1>8, <1>10, <2>1, <2>3, <2>4, <2>5
<1>. QED  BY <1>2, <1>9, <1>10

(* What is known in a range of the indices and elements.                   *)
LEMMA RangeIs ==
  ASSUME NEW s, Framed(s)
  PROVE  /\ s \in Sorts /\ s.l \in Nat /\ s.u \in Int /\ s.l >= 1 /\ s.u <= s.n /\ s.n \in Nat
         /\ s.a \in Padding(s.n) /\ s.a \in Paddings /\ s.i \in Int /\ s.j \in Int /\ s.P \in Nat
         /\ \A k \in 0 .. s.n + 1 : V(s, k) \in Nat
BY SortIs DEF Framed, SortTypeOK, Paddings

(* Three elements are sorted; of more the pivot is put aside.              *)
LEMMA PivotKeeps ==
  ASSUME NEW s, Framed(s), s.u - s.l >= 2, s.i = (s.l + s.u) \div 2,
         ~s.any => Outside(s) /\ V(s, s.l) <= V(s, s.i) /\ V(s, s.i) <= V(s, s.u)
  PROVE  SortInv(Pivot(s))
<1>. DEFINE l == s.l
            u == s.u
            i == s.i
<1>1. /\ s \in Sorts /\ l \in Nat /\ u \in Int /\ l >= 1 /\ u <= s.n /\ s.n \in Nat
      /\ s.a \in Padding(s.n) /\ s.a \in Paddings /\ i \in Int /\ s.j \in Int /\ s.P \in Nat
      /\ \A k \in 0 .. s.n + 1 : V(s, k) \in Nat
  BY RangeIs
<1>2. l < i /\ i < u /\ (u - l = 2 => i = l + 1)
  BY <1>1
<1>3. CASE u - l = 2
  <2>. DEFINE r == Moved(s, s.a, i, s.j, s.P, "return")
  <2>1. Pivot(s) = r
    BY <1>1, <1>3 DEF Pivot, Moved, Sorts
  <2>2. IsMoved(s, r, s.a, i, s.j, s.P, "return")
    <3>1. "return" \in PCs
      BY DEF PCs
    <3>. QED  BY <1>1, <3>1, MovedIs
  <2>. HIDE DEF r
  <2>3. Inside(s, r) /\ r.a = s.a /\ r.pc = "return"
    BY <2>2 DEF IsMoved
  <2>4. Framed(r) /\ \A k : V(r, k) = V(s, k)
    BY <2>3, InsideKeeps
  <2>5. r.l = l /\ r.u = u /\ r.any = s.any
    BY <2>3 DEF Inside
  <2>6. Indices(r)
    BY <2>3 DEF Indices, Comparing
  <2>7. ASSUME ~r.any PROVE InOrder(r)
    <3>1. Outside(r) /\ V(s, l) <= V(s, i) /\ V(s, i) <= V(s, u)
      BY <2>3, <2>5, <2>7, InsideOutside
    <3>2. \A x, y \in l .. u : x < y => V(s, x) <= V(s, y)
      <4>1. ASSUME NEW x \in l .. u, NEW y \in l .. u, x < y
            PROVE  (x = l \/ x = i) /\ (y = i \/ y = u) /\ (x = i => y = u)
        BY SMTT(30), <1>1, <1>2, <1>3, <4>1
      <4>2. V(s, l) \in Nat /\ V(s, i) \in Nat /\ V(s, u) \in Nat
        BY <1>1, <1>2
      <4>. QED  BY <3>1, <4>1, <4>2
    <3>3. Ends(r)
      BY <2>3, <2>4, <2>5, <3>2 DEF Ends
    <3>. QED  BY <2>3, <3>1, <3>3 DEF InOrder, Parting
  <2>. QED  BY <2>1, <2>4, <2>6, <2>7 DEF SortInv
<1>4. CASE u - l # 2
  <2>. DEFINE P == s.a[i + 1]
              b == Swapped(s.a, i, u - 1)
              r == Moved(s, b, l, u - 1, P, "up")
  <2>1. Pivot(s) = r
    BY <1>1, <1>4 DEF Pivot, Moved, Sorts
  <2>2. P = V(s, i) /\ P \in Nat /\ "up" \in PCs /\ l \in Int /\ u - 1 \in Int
        /\ i \in 0 .. s.n + 1 /\ u - 1 \in 0 .. s.n + 1
    BY <1>1, <1>2 DEF V, PCs, Comparing
  <2>3. b \in Paddings
    BY <1>1, <2>2, SwapIs DEF SwapOf, Paddings
  <2>4. IsMoved(s, r, b, l, u - 1, P, "up")
    <3>. HIDE DEF b, P
    <3>. DEFINE j == u - 1
    <3>1. j \in Int
      BY <2>2
    <3>. HIDE DEF j
    <3>2. IsMoved(s, Moved(s, b, l, j, P, "up"), b, l, j, P, "up")
      BY <1>1, <2>2, <2>3, <3>1, MovedIs
    <3>. QED  BY <3>2 DEF j
  <2>5. Exchanged(s, r, i, u - 1) /\ r.i = l /\ r.j = u - 1 /\ r.P = P /\ r.pc = "up"
    BY <2>2, <2>4 DEF IsMoved, Exchanged
  <2>. HIDE DEF r, P, b
  <2>6. Framed(r) /\ \A k \in 0 .. s.n + 1 :
          V(r, k) = IF k = i THEN V(s, u - 1) ELSE IF k = u - 1 THEN V(s, i) ELSE V(s, k)
    BY <2>5, ExchangeKeeps
  <2>7. r.l = l /\ r.u = u /\ r.any = s.any /\ r.n = s.n
    BY <2>5 DEF Exchanged, Inside
  <2>8. Indices(r)
    BY <1>1, <1>4, <2>5, <2>7 DEF Indices, Comparing
  <2>9. ASSUME ~r.any PROVE InOrder(r)
    <3>1. V(s, l) <= V(s, i) /\ V(s, i) <= V(s, u) /\ Outside(s)
      BY <2>7, <2>9
    <3>2. Outside(r)
      <4>1. In(i, l, u) /\ In(u - 1, l, u)
        BY <1>1, <1>2 DEF In
      <4>. QED  BY <2>5, <3>1, <4>1, ExchangeOutside
    <3>3. V(r, l) = V(s, l) /\ V(r, u - 1) = P /\ V(r, u) = V(s, u)
      BY <1>1, <1>2, <1>4, <2>2, <2>6
    <3>4. V(r, l) <= P /\ P <= V(r, u)
      BY <2>2, <3>1, <3>3
    <3>5. \A k \in u - 1 .. u : k = u - 1 \/ k = u
      BY <1>1
    <3>6. Parting(r)
      BY <1>1, <1>4, <2>2, <2>5, <2>7, <3>3, <3>4, <3>5 DEF Parting
    <3>. QED  BY <2>5, <3>2, <3>6 DEF InOrder, Ends
  <2>. QED  BY <2>1, <2>6, <2>8, <2>9 DEF SortInv
<1>. QED  BY <1>3, <1>4

(* a[i] < a[l]? Then they change places.                                   *)
LEMMA MiddleKeeps ==
  ASSUME SortInv(sorting), SortMiddle
  PROVE  SortInv(sorting')
<1>. DEFINE l == sorting.l
            u == sorting.u
            i == sorting.i
            less == V(sorting, i) < V(sorting, l)
            same == Moved(sorting, sorting.a, i, sorting.j, sorting.P, "high")
            swap == Moved(sorting, Swapped(sorting.a, i, l), i, sorting.j, sorting.P, "middle")
<1>1. Framed(sorting) /\ Indices(sorting) /\ sorting \in Sorts /\ sorting.pc = "middle"
  BY DEF SortInv, Framed, SortTypeOK, SortMiddle, Compare
<1>2. \/ sorting' = Pivot(swap) /\ (~sorting.any => less)
      \/ sorting' = same /\ (~sorting.any => ~less)
  <2>1. PICK answer \in Answers(At(i), At(l)) :
         sorting' = IF answer THEN Pivot([sorting EXCEPT !.a = Swapped(@, i, l)])
                    ELSE [sorting EXCEPT !.pc = "high"]
    BY DEF SortMiddle, Compare
  <2>2. \/ answer /\ (~sorting.any => less)
        \/ ~answer /\ (~sorting.any => ~less)
    BY AnswerIs DEF Answer, At, V
  <2>3. [sorting EXCEPT !.a = Swapped(@, i, l)] = swap
    BY <1>1 DEF Sorts, Moved
  <2>4. [sorting EXCEPT !.pc = "high"] = same
    BY <1>1 DEF Sorts, Moved
  <2>. HIDE DEF swap, same
  <2>. QED  BY <2>1, <2>2, <2>3, <2>4
<1>3. /\ l \in Nat /\ u \in Int /\ l >= 1 /\ u <= sorting.n /\ sorting.n \in Nat
      /\ sorting.a \in Padding(sorting.n) /\ sorting.a \in Paddings /\ i \in Int
      /\ sorting.j \in Int /\ sorting.P \in Nat
      /\ \A k \in 0 .. sorting.n + 1 : V(sorting, k) \in Nat
  BY <1>1, RangeIs
<1>4. u - l >= 2 /\ i = (l + u) \div 2 /\ l < i /\ i < u
  BY <1>1, <1>3 DEF Indices
<1>5. Swapped(sorting.a, i, l) \in Paddings /\ "high" \in PCs /\ "middle" \in PCs
  <2>1. i \in 0 .. sorting.n + 1 /\ l \in 0 .. sorting.n + 1
    BY <1>3, <1>4
  <2>. HIDE DEF i, l, u, same, swap, less
  <2>2. SwapOf(sorting.n, sorting.a, Swapped(sorting.a, i, l), i, l)
    BY <1>3, <2>1, SwapIs
  <2>3. Swapped(sorting.a, i, l) \in Padding(sorting.n)
    BY <2>2 DEF SwapOf
  <2>. QED  BY <1>3, <2>3 DEF Paddings, PCs, Comparing
<1>6. ~sorting.any => Outside(sorting) /\ V(sorting, l) <= V(sorting, u)
  BY <1>1 DEF SortInv, InOrder, Ends
<1>7. ASSUME sorting' = same, ~sorting.any => ~less PROVE SortInv(sorting')
  <2>1. IsMoved(sorting, same, sorting.a, i, sorting.j, sorting.P, "high")
    BY <1>1, <1>3, <1>5, MovedIs
  <2>. HIDE DEF same
  <2>2. Inside(sorting, same) /\ same.a = sorting.a /\ same.pc = "high" /\ same.i = i
    BY <2>1 DEF IsMoved
  <2>3. Framed(same) /\ \A k : V(same, k) = V(sorting, k)
    BY <1>1, <2>2, InsideKeeps
  <2>4. same.l = l /\ same.u = u /\ same.any = sorting.any
    BY <2>2 DEF Inside
  <2>5. Indices(same)
    BY <1>3, <1>4, <2>2, <2>4 DEF Indices, Comparing
  <2>6. ASSUME ~sorting.any PROVE InOrder(same)
    <3>1. Outside(same)
      BY <1>1, <1>6, <2>2, <2>6, InsideOutside
    <3>2. V(sorting, l) <= V(sorting, i)
      BY <1>3, <1>4, <1>7, <2>6
    <3>3. Ends(same)
      BY <1>6, <2>2, <2>3, <2>4, <2>6, <3>2 DEF Ends
    <3>. QED  BY <2>2, <3>1, <3>3 DEF InOrder, Parting
  <2>. QED  BY <1>7, <2>3, <2>4, <2>5, <2>6 DEF SortInv
<1>8. ASSUME sorting' = Pivot(swap), ~sorting.any => less PROVE SortInv(sorting')
  <2>1. IsMoved(sorting, swap, Swapped(sorting.a, i, l), i, sorting.j, sorting.P, "middle")
    BY <1>1, <1>3, <1>5, MovedIs
  <2>. HIDE DEF swap
  <2>2. Exchanged(sorting, swap, i, l) /\ swap.i = i
    BY <1>3, <1>4, <2>1 DEF IsMoved, Exchanged
  <2>3. Framed(swap) /\ \A k \in 0 .. sorting.n + 1 :
          V(swap, k) = IF k = i THEN V(sorting, l) ELSE IF k = l THEN V(sorting, i) ELSE V(sorting, k)
    BY <1>1, <2>2, ExchangeKeeps
  <2>4. swap.l = l /\ swap.u = u /\ swap.any = sorting.any
    BY <2>2 DEF Inside, Exchanged
  <2>5. ASSUME ~sorting.any
        PROVE  Outside(swap) /\ V(swap, l) <= V(swap, i) /\ V(swap, i) <= V(swap, u)
    <3>1. In(i, l, u) /\ In(l, l, u)
      BY <1>3, <1>4 DEF In
    <3>2. Outside(swap)
      BY <1>1, <1>6, <2>2, <2>5, <3>1, ExchangeOutside
    <3>3. V(swap, l) = V(sorting, i) /\ V(swap, i) = V(sorting, l) /\ V(swap, u) = V(sorting, u)
      BY <1>3, <1>4, <2>3
    <3>4. V(sorting, l) \in Nat /\ V(sorting, i) \in Nat
      BY <1>3, <1>4
    <3>. QED  BY <1>6, <1>8, <2>5, <3>2, <3>3, <3>4
  <2>. QED  BY <1>4, <1>8, <2>2, <2>3, <2>4, <2>5, PivotKeeps
<1>. QED  BY <1>2, <1>7, <1>8

(* a[u] < a[i]? Then they change places.                                   *)
LEMMA HighKeeps ==
  ASSUME SortInv(sorting), SortHigh
  PROVE  SortInv(sorting')
<1>. DEFINE l == sorting.l
            u == sorting.u
            i == sorting.i
            less == V(sorting, u) < V(sorting, i)
            swap == Moved(sorting, Swapped(sorting.a, i, u), i, sorting.j, sorting.P, "high")
<1>1. Framed(sorting) /\ Indices(sorting) /\ sorting \in Sorts /\ sorting.pc = "high"
  BY DEF SortInv, Framed, SortTypeOK, SortHigh, Compare
<1>2. \/ sorting' = Pivot(swap) /\ (~sorting.any => less)
      \/ sorting' = Pivot(sorting) /\ (~sorting.any => ~less)
  <2>1. PICK answer \in Answers(At(u), At(i)) :
         sorting' = Pivot(IF answer THEN [sorting EXCEPT !.a = Swapped(@, i, u)] ELSE sorting)
    BY DEF SortHigh, Compare
  <2>2. \/ answer /\ (~sorting.any => less)
        \/ ~answer /\ (~sorting.any => ~less)
    BY AnswerIs DEF Answer, At, V
  <2>3. [sorting EXCEPT !.a = Swapped(@, i, u)] = swap
    BY <1>1 DEF Sorts, Moved
  <2>. HIDE DEF swap
  <2>. QED  BY <2>1, <2>2, <2>3
<1>3. /\ l \in Nat /\ u \in Int /\ l >= 1 /\ u <= sorting.n /\ sorting.n \in Nat
      /\ sorting.a \in Padding(sorting.n) /\ sorting.a \in Paddings /\ i \in Int
      /\ sorting.j \in Int /\ sorting.P \in Nat
      /\ \A k \in 0 .. sorting.n + 1 : V(sorting, k) \in Nat
  BY <1>1, RangeIs
<1>4. u - l >= 2 /\ i = (l + u) \div 2 /\ l < i /\ i < u
  BY <1>1, <1>3 DEF Indices
<1>5. Swapped(sorting.a, i, u) \in Paddings /\ "high" \in PCs
  <2>1. i \in 0 .. sorting.n + 1 /\ u \in 0 .. sorting.n + 1
    BY <1>3, <1>4
  <2>2. SwapOf(sorting.n, sorting.a, Swapped(sorting.a, i, u), i, u)
    BY <1>3, <2>1, SwapIs
  <2>. QED  BY <1>3, <2>2 DEF Paddings, SwapOf, PCs, Comparing
<1>6. ~sorting.any => Outside(sorting) /\ V(sorting, l) <= V(sorting, u) /\ V(sorting, l) <= V(sorting, i)
  BY <1>1 DEF SortInv, InOrder, Ends
<1>7. V(sorting, l) \in Nat /\ V(sorting, i) \in Nat /\ V(sorting, u) \in Nat
  BY <1>3, <1>4
<1>8. ASSUME sorting' = Pivot(sorting), ~sorting.any => ~less PROVE SortInv(sorting')
  <2>1. ~sorting.any => V(sorting, i) <= V(sorting, u)
    BY <1>7, <1>8
  <2>. QED  BY <1>1, <1>4, <1>6, <1>8, <2>1, PivotKeeps
<1>9. ASSUME sorting' = Pivot(swap), ~sorting.any => less PROVE SortInv(sorting')
  <2>1. IsMoved(sorting, swap, Swapped(sorting.a, i, u), i, sorting.j, sorting.P, "high")
    BY <1>1, <1>3, <1>5, MovedIs
  <2>. HIDE DEF swap
  <2>2. Exchanged(sorting, swap, i, u) /\ swap.i = i
    BY <1>3, <1>4, <2>1 DEF IsMoved, Exchanged
  <2>3. Framed(swap) /\ \A k \in 0 .. sorting.n + 1 :
          V(swap, k) = IF k = i THEN V(sorting, u) ELSE IF k = u THEN V(sorting, i) ELSE V(sorting, k)
    BY <1>1, <2>2, ExchangeKeeps
  <2>4. swap.l = l /\ swap.u = u /\ swap.any = sorting.any
    BY <2>2 DEF Inside, Exchanged
  <2>5. ASSUME ~sorting.any
        PROVE  Outside(swap) /\ V(swap, l) <= V(swap, i) /\ V(swap, i) <= V(swap, u)
    <3>1. In(i, l, u) /\ In(u, l, u)
      BY <1>3, <1>4 DEF In
    <3>2. Outside(swap)
      BY <1>1, <1>6, <2>2, <2>5, <3>1, ExchangeOutside
    <3>3. V(swap, l) = V(sorting, l) /\ V(swap, i) = V(sorting, u) /\ V(swap, u) = V(sorting, i)
      BY <1>3, <1>4, <2>3
    <3>. QED  BY <1>6, <1>7, <1>9, <2>5, <3>2, <3>3
  <2>. QED  BY <1>4, <1>9, <2>2, <2>3, <2>4, <2>5, PivotKeeps
<1>. QED  BY <1>2, <1>8, <1>9

(* Repeat ++i until a[i] >= P. With an order it stops at j at the latest.  *)
LEMMA ScanUpKeeps ==
  ASSUME SortInv(sorting), ScanUp
  PROVE  SortInv(sorting')
<1>. DEFINE l == sorting.l
            u == sorting.u
            i == sorting.i + 1
            j == sorting.j
            P == sorting.P
            less == V(sorting, i) < P
            next == IF i > u THEN "error" ELSE "up"
            on == Moved(sorting, sorting.a, i, j, P, next)
            stop == Moved(sorting, sorting.a, i, j, P, "down")
<1>1. Framed(sorting) /\ Indices(sorting) /\ sorting \in Sorts /\ sorting.pc = "up"
  BY DEF SortInv, Framed, SortTypeOK, ScanUp, Compare
<1>2. /\ l \in Nat /\ u \in Int /\ l >= 1 /\ u <= sorting.n /\ sorting.n \in Nat
      /\ sorting.a \in Paddings /\ i \in Int /\ j \in Int /\ P \in Nat
      /\ \A k \in 0 .. sorting.n + 1 : V(sorting, k) \in Nat
  BY <1>1, RangeIs
<1>3. u - l >= 3 /\ l < i /\ i <= u + 1 /\ l < j /\ j <= u
  <2>1. u - l >= 3 /\ l <= sorting.i /\ sorting.i <= u /\ l < j /\ j <= u /\ sorting.i \in Int
    BY <1>1, RangeIs DEF Indices
  <2>. QED  BY <1>2, <2>1
<1>4. \/ sorting' = on /\ (~sorting.any => less)
      \/ sorting' = stop /\ (~sorting.any => ~less)
  <2>1. PICK answer \in Answers(At(i), P) :
         sorting' = [sorting EXCEPT !.i = i, !.pc = CASE answer /\ i > u -> "error"
                                                      [] answer /\ i <= u -> "up"
                                                      [] ~answer -> "down"]
    BY DEF ScanUp, Compare
  <2>2. \/ answer /\ (~sorting.any => less)
        \/ ~answer /\ (~sorting.any => ~less)
    BY AnswerIs DEF Answer, At, V
  <2>3. answer => sorting' = [sorting EXCEPT !.i = i, !.pc = next]
    <3>1. CASE i > u
      <4>1. ~(i <= u)
        BY <1>2, <3>1
      <4>. QED  BY <2>1, <3>1, <4>1
    <3>2. CASE ~(i > u)
      <4>1. i <= u
        BY <1>2, <3>2
      <4>. QED  BY <2>1, <3>2, <4>1
    <3>. QED  BY <3>1, <3>2
  <2>4. ~answer => sorting' = [sorting EXCEPT !.i = i, !.pc = "down"]
    BY <2>1
  <2>5. [sorting EXCEPT !.i = i, !.pc = next] = on
    <3>. HIDE DEF i, next
    <3>. QED  BY <1>1 DEF Sorts, Moved
  <2>6. [sorting EXCEPT !.i = i, !.pc = "down"] = stop
    <3>. HIDE DEF i
    <3>. QED  BY <1>1 DEF Sorts, Moved
  <2>. HIDE DEF on, stop
  <2>. QED  BY <2>2, <2>3, <2>4, <2>5, <2>6
<1>5. ASSUME ~sorting.any
      PROVE  /\ Outside(sorting) /\ V(sorting, u - 1) = P /\ j < u
             /\ \A k \in l .. i - 1 : V(sorting, k) <= P
             /\ \A k \in j .. u : V(sorting, k) >= P
             /\ i - 1 <= j /\ (i - 1 = j => i < u)
  <2>1. InOrder(sorting) /\ sorting.i = i - 1
    BY <1>1, <1>2, <1>5, RangeIs DEF SortInv
  <2>2. Outside(sorting) /\ Parting(sorting)
    BY <2>1 DEF InOrder
  <2>3. /\ V(sorting, u - 1) = P /\ j < u
        /\ \A k \in l .. sorting.i - 1 : V(sorting, k) <= P
        /\ \A k \in j .. u : V(sorting, k) >= P
        /\ V(sorting, sorting.i) <= P /\ sorting.i <= j /\ (sorting.i = j => sorting.i < u - 1)
    BY <1>1, <2>2 DEF Parting
  <2>4. \A k \in l .. i - 1 : V(sorting, k) <= P
    <3>1. \A k \in l .. i - 1 : k = sorting.i \/ k \in l .. sorting.i - 1
      BY <1>2, <2>1
    <3>. QED  BY <2>3, <3>1
  <2>. QED  BY <1>2, <1>3, <2>1, <2>2, <2>3, <2>4
<1>6. sorting.a \in Paddings /\ next \in PCs /\ "down" \in PCs /\ (next = "up" <=> i <= u)
      /\ next \in {"error", "up"}
  BY <1>2 DEF PCs, Comparing
<1>. HIDE DEF next, i
<1>7. ASSUME sorting' = on, ~sorting.any => less PROVE SortInv(sorting')
  <2>1. IsMoved(sorting, on, sorting.a, i, j, P, next)
    BY <1>1, <1>2, <1>6, MovedIs
  <2>. HIDE DEF on
  <2>2. Inside(sorting, on) /\ on.a = sorting.a /\ on.pc = next /\ on.i = i /\ on.j = j /\ on.P = P
    BY <2>1 DEF IsMoved
  <2>3. Framed(on) /\ \A k : V(on, k) = V(sorting, k)
    BY <1>1, <2>2, InsideKeeps
  <2>4. on.l = l /\ on.u = u /\ on.any = sorting.any
    BY <2>2 DEF Inside
  <2>5. Indices(on)
    BY <1>2, <1>3, <1>6, <2>2, <2>4 DEF Indices, Comparing
  <2>6. ASSUME ~sorting.any PROVE InOrder(on)
    <3>1. V(sorting, i) < P /\ i < u /\ V(sorting, i) \in Nat
      <4>1. CASE i - 1 = j
        BY <1>2, <1>3, <1>5, <1>7, <2>6, <4>1
      <4>2. CASE i - 1 # j
        <5>1. i <= j
          BY <1>2, <1>5, <2>6, <4>2
        <5>. QED  BY <1>2, <1>3, <1>5, <1>7, <2>6, <5>1
      <4>. QED  BY <4>1, <4>2
    <3>2. ~(V(sorting, i) >= P)
      BY <1>2, <3>1
    <3>3. i < j
      <4>1. i \notin j .. u
        BY <1>5, <2>6, <3>2
      <4>. QED  BY <1>2, <3>1, <4>1
    <3>4. Outside(on)
      BY <1>1, <1>5, <2>2, <2>6, InsideOutside
    <3>5. V(sorting, i) <= P
      BY <1>2, <3>1
    <3>6. Parting(on)
      BY <1>2, <1>3, <1>5, <1>6, <2>2, <2>3, <2>4, <2>6, <3>3, <3>5 DEF Parting
    <3>. QED  BY <1>2, <1>6, <2>2, <3>1, <3>4, <3>6 DEF InOrder, Ends
  <2>. QED  BY <1>7, <2>3, <2>4, <2>5, <2>6 DEF SortInv
<1>8. ASSUME sorting' = stop, ~sorting.any => ~less PROVE SortInv(sorting')
  <2>1. IsMoved(sorting, stop, sorting.a, i, j, P, "down")
    BY <1>1, <1>2, <1>6, MovedIs
  <2>. HIDE DEF stop
  <2>2. Inside(sorting, stop) /\ stop.a = sorting.a /\ stop.pc = "down" /\ stop.i = i /\ stop.j = j
        /\ stop.P = P
    BY <2>1 DEF IsMoved
  <2>3. Framed(stop) /\ \A k : V(stop, k) = V(sorting, k)
    BY <1>1, <2>2, InsideKeeps
  <2>4. stop.l = l /\ stop.u = u /\ stop.any = sorting.any
    BY <2>2 DEF Inside
  <2>5. Indices(stop)
    BY <1>2, <1>3, <2>2, <2>4 DEF Indices, Comparing
  <2>6. ASSUME ~sorting.any PROVE InOrder(stop)
    <3>1. i < u /\ i <= j + 1
      BY <1>2, <1>3, <1>5, <2>6
    <3>2. V(sorting, i) >= P
      BY <1>2, <1>3, <1>8, <2>6, <3>1
    <3>3. Outside(stop)
      BY <1>1, <1>5, <2>2, <2>6, InsideOutside
    <3>4. Parting(stop)
      BY <1>2, <1>3, <1>5, <2>2, <2>3, <2>4, <2>6, <3>1, <3>2 DEF Parting
    <3>. QED  BY <2>2, <3>3, <3>4 DEF InOrder, Ends
  <2>. QED  BY <1>8, <2>3, <2>4, <2>5, <2>6 DEF SortInv
<1>. QED  BY <1>4, <1>7, <1>8

(* The smaller part of a range is at most half of it.                      *)
HalvesFit(p, n, size) ==
  /\ \A k \in Int : k <= size => k * p <= n
  /\ \A k \in Int : k + k <= size => k * (p + p) <= n

(* Half of a range, and twice the weight, take no more than the whole.     *)
LEMMA Halves ==
  ASSUME NEW p \in Nat, NEW n \in Nat, NEW size \in Int, size * p <= n
  PROVE  HalvesFit(p, n, size)
<1>1. ASSUME NEW k \in Int, k <= size PROVE k * p <= n
  <2>1. size - k \in Nat /\ (size - k) * p \in Nat
    BY <1>1
  <2>2. size * p = k * p + (size - k) * p
    OBVIOUS
  <2>. QED  BY <2>1, <2>2
<1>2. ASSUME NEW k \in Int, k + k <= size PROVE k * (p + p) <= n
  <2>1. (k + k) * p <= n
    BY <1>1, <1>2
  <2>2. (k + k) * p = k * (p + p)
    OBVIOUS
  <2>. QED  BY <2>1, <2>2
<1>. QED  BY <1>1, <1>2 DEF HalvesFit

(* The list of the ranges that wait, with one more.                        *)
LEMMA OneMore ==
  ASSUME NEW S, NEW rest \in Seq(S), NEW x \in S
  PROVE  /\ <<x>> \o rest \in Seq(S) /\ Len(<<x>> \o rest) = Len(rest) + 1
         /\ (<<x>> \o rest)[1] = x
         /\ \A m \in 1 .. Len(rest) : (<<x>> \o rest)[m + 1] = rest[m]
OBVIOUS

(* A range is cut in two: its smaller part is sorted by a call, the larger *)
(* one waits for the call to return.                                       *)
Cut(s, i, c, k) ==
  \/ c = <<s.l, i - 1>> /\ k = <<i + 1, s.u>> /\ i - s.l < s.u - i
  \/ c = <<i + 1, s.u>> /\ k = <<s.l, i - 1>> /\ ~(i - s.l < s.u - i)

(* Both parts are smaller than the range; the called one is at most half   *)
(* of it, so that calls nest to a logarithm of the length.                 *)
LEMMA CutKeeps ==
  ASSUME NEW s, Framed(s), s.u - s.l >= 3, NEW i \in Int, s.l < i, i <= s.u + 1,
         NEW c, NEW k, Cut(s, i, c, k),
         ~s.any => /\ Outside(s) /\ i < s.u
                   /\ \A x \in s.l .. i - 1 : V(s, x) <= V(s, i)
                   /\ \A x \in i + 1 .. s.u : V(s, i) <= V(s, x)
  PROVE  SortInv([s EXCEPT !.l = c[1], !.u = c[2], !.rest = <<k>> \o @, !.pc = "loop"])
<1>. DEFINE l == s.l
            u == s.u
            rest == <<k>> \o s.rest
            D == Len(s.rest)
            r == [s EXCEPT !.l = c[1], !.u = c[2], !.rest = <<k>> \o @, !.pc = "loop"]
<1>1. /\ s \in Sorts /\ l \in Nat /\ u \in Int /\ l >= 1 /\ u <= s.n /\ s.n \in Nat
      /\ \A x \in 0 .. s.n + 1 : V(s, x) \in Nat
      /\ s.rest \in Seq(Int \X Int) /\ D \in Nat
      /\ \A m \in 1 .. D : s.rest[m][1] \in Int /\ s.rest[m][2] \in Int
  BY RangeIs, SortIs DEF Framed
<1>2. c \in Int \X Int /\ k \in Int \X Int
  BY SMTT(30), <1>1 DEF Cut
<1>3. /\ rest \in Seq(Int \X Int) /\ Len(rest) = D + 1 /\ rest[1] = k
      /\ \A m \in 1 .. D : rest[m + 1] = s.rest[m]
  BY <1>1, <1>2, OneMore
<1>. HIDE DEF rest
<1>4. /\ c[1] \in Int /\ c[2] \in Int /\ c[1] >= 1 /\ c[2] <= s.n
      /\ k[1] \in Int /\ k[2] \in Int /\ k[1] >= 1 /\ k[2] <= s.n
      /\ Size(c) + Size(c) <= u - l + 1 /\ Size(k) <= u - l + 1
  <2>0. /\ i - 1 \in Int /\ i + 1 \in Int /\ l \in Int /\ i - 1 <= s.n /\ i + 1 >= 1
        /\ i - l < u - i => ((i - 1) - l + 1) + ((i - 1) - l + 1) <= u - l + 1
        /\ ~(i - l < u - i) => (u - (i + 1) + 1) + (u - (i + 1) + 1) <= u - l + 1
        /\ u - (i + 1) + 1 <= u - l + 1 /\ (i - 1) - l + 1 <= u - l + 1
    <3>1. ASSUME NEW a \in Nat, NEW b \in Int, NEW n \in Nat, a < i, i <= b + 1, b <= n
          PROVE  /\ i - 1 <= n /\ i + 1 >= 1
                 /\ i - a < b - i => ((i - 1) - a + 1) + ((i - 1) - a + 1) <= b - a + 1
                 /\ ~(i - a < b - i) => (b - (i + 1) + 1) + (b - (i + 1) + 1) <= b - a + 1
                 /\ b - (i + 1) + 1 <= b - a + 1 /\ (i - 1) - a + 1 <= b - a + 1
      BY <3>1
    <3>2. l \in Nat /\ u \in Int /\ s.n \in Nat /\ l < i /\ i <= u + 1 /\ u <= s.n
      BY <1>1
    <3>3. i - 1 \in Int /\ i + 1 \in Int /\ l \in Int
      BY <3>2
    <3>. HIDE DEF l, u
    <3>. QED  BY <3>1, <3>2, <3>3
  <2>1. CASE c[1] = l /\ c[2] = i - 1 /\ k[1] = i + 1 /\ k[2] = u /\ i - l < u - i
    BY <1>1, <2>0, <2>1 DEF Size
  <2>2. CASE c[1] = i + 1 /\ c[2] = u /\ k[1] = l /\ k[2] = i - 1 /\ ~(i - l < u - i)
    BY <1>1, <2>0, <2>2 DEF Size
  <2>. QED  BY <2>1, <2>2 DEF Cut
<1>5. r = [s EXCEPT !.l = c[1], !.u = c[2], !.rest = rest, !.pc = "loop"]
  BY DEF rest
<1>6. r \in Sorts
  BY <1>1, <1>3, <1>4, <1>5 DEF Sorts
<1>7. /\ r.l = c[1] /\ r.u = c[2] /\ r.rest = rest /\ r.pc = "loop" /\ r.a = s.a
      /\ r.was = s.was /\ r.any = s.any /\ r.n = s.n
  BY <1>1, <1>5 DEF Sorts
<1>. HIDE DEF r
<1>8. ASSUME NEW m \in 1 .. D + 1, m # 1 PROVE m - 1 \in 1 .. D /\ rest[m] = s.rest[m - 1]
  <2>1. m - 1 \in 1 .. D /\ (m - 1) + 1 = m
    BY <1>1, <1>8
  <2>. QED  BY <1>3, <2>1
<1>9. SortTypeOK(r)
  <2>1. ASSUME NEW m \in 1 .. D + 1 PROVE rest[m][1] >= 1 /\ rest[m][2] <= s.n
    <3>1. CASE m = 1
      BY <1>3, <1>4, <3>1
    <3>2. CASE m # 1
      BY <1>8, <3>2 DEF Framed, SortTypeOK
    <3>. QED  BY <3>1, <3>2
  <2>. QED  BY <1>3, <1>4, <1>6, <1>7, <2>1 DEF SortTypeOK, Framed
<1>10. Nested(r)
  <2>. DEFINE p == 2 ^ D
  <2>1. p \in Nat /\ 2 ^ (D + 1) = p + p
    BY <1>1, Power
  <2>2. (u - l + 1) * p <= s.n /\ \A m \in 1 .. D : Size(s.rest[m]) * 2 ^ (D - m) <= s.n
    BY DEF Framed, Nested
  <2>. HIDE DEF p
  <2>3. Size(c) * (p + p) <= s.n /\ Size(k) * p <= s.n /\ 2 * (p + p) <= s.n
    <3>. DEFINE size == u - l + 1
    <3>1. size \in Int /\ 2 + 2 <= size
      BY <1>1
    <3>2. Size(c) \in Int /\ Size(k) \in Int
      BY <1>4 DEF Size
    <3>. HIDE DEF size
    <3>3. HalvesFit(p, s.n, size)
      BY <1>1, <2>1, <2>2, <3>1, Halves DEF size
    <3>4. Size(c) + Size(c) <= size /\ Size(k) <= size
      BY <1>4 DEF size
    <3>. QED  BY <3>1, <3>2, <3>3, <3>4 DEF HalvesFit
  <2>4. p + p <= s.n
    BY <1>1, <2>1, <2>3
  <2>5. ASSUME NEW m \in 1 .. D + 1 PROVE Size(rest[m]) * 2 ^ (D + 1 - m) <= s.n
    <3>1. CASE m = 1
      <4>1. D + 1 - m = D
        BY <1>1, <3>1
      <4>. QED  BY <1>3, <2>3, <3>1, <4>1 DEF p
    <3>2. CASE m # 1
      <4>1. D + 1 - m = D - (m - 1)
        BY <1>1
      <4>. QED  BY <1>8, <2>2, <3>2, <4>1
    <3>. QED  BY <3>1, <3>2
  <2>6. (c[2] - c[1] + 1) * 2 ^ (D + 1) <= s.n
    BY <2>1, <2>3 DEF Size
  <2>7. 2 ^ Len(r.rest) <= r.n
    BY <1>3, <1>7, <2>1, <2>4
  <2>8. (r.u - r.l + 1) * 2 ^ Len(r.rest) <= r.n
    BY <1>3, <1>7, <2>6
  <2>9. \A m \in 1 .. Len(r.rest) : Size(r.rest[m]) * 2 ^ (Len(r.rest) - m) <= r.n
    <3>1. Len(r.rest) = D + 1 /\ r.rest = rest /\ r.n = s.n
      BY <1>3, <1>7
    <3>2. ASSUME NEW m \in 1 .. D + 1 PROVE Size(r.rest[m]) * 2 ^ (Len(r.rest) - m) <= r.n
      BY <2>5, <3>1
    <3>. QED  BY <3>1, <3>2
  <2>. QED  BY <2>7, <2>8, <2>9 DEF Nested
<1>11. Framed(r)
  BY <1>7, <1>9, <1>10 DEF Framed, Permuted
<1>12. ASSUME ~s.any PROVE InOrder(r)
  <2>1. /\ Disjoint(s) /\ Separated(s) /\ i < u
        /\ \A x \in l .. i - 1 : V(s, x) <= V(s, i)
        /\ \A x \in i + 1 .. u : V(s, i) <= V(s, x)
    BY <1>12 DEF Outside
  <2>2. \A x \in Int : (In(x, c[1], c[2]) => In(x, l, u) /\ ~In(x, k[1], k[2]))
                    /\ (In(x, k[1], k[2]) => In(x, l, u))
    <3>1. CASE c[1] = l /\ c[2] = i - 1 /\ k[1] = i + 1 /\ k[2] = u
      BY <1>1, <2>1, <3>1 DEF In
    <3>2. CASE c[1] = i + 1 /\ c[2] = u /\ k[1] = l /\ k[2] = i - 1
      BY <1>1, <2>1, <3>2 DEF In
    <3>. QED  BY <3>1, <3>2 DEF Cut
  <2>3. \A x : InRest(r, 1, x) <=> In(x, k[1], k[2])
    BY <1>3, <1>7 DEF InRest
  <2>4. \A m \in 1 .. D + 1, x \in Int : m # 1 => (InRest(r, m, x) <=> InRest(s, m - 1, x))
    BY <1>7, <1>8 DEF InRest
  <2>5. \A m \in 1 .. D, x \in 1 .. s.n : InRest(s, m, x) => ~In(x, l, u)
    BY <2>1 DEF Disjoint
  <2>6. Disjoint(r)
    <3>1. ASSUME NEW m \in 1 .. D + 1, NEW x \in 1 .. s.n, InRest(r, m, x)
          PROVE  ~In(x, c[1], c[2]) /\ (m # 1 => ~In(x, l, u))
      <4>1. CASE m = 1
        BY <2>2, <2>3, <3>1, <4>1
      <4>2. CASE m # 1
        BY <1>8, <2>2, <2>4, <2>5, <3>1, <4>2
      <4>. QED  BY <4>1, <4>2
    <3>2. ASSUME NEW m \in 1 .. D + 1, NEW o \in 1 .. D + 1, NEW x \in 1 .. s.n,
                 InRest(r, m, x), InRest(r, o, x)
          PROVE  m = o
      <4>1. CASE m = 1 \/ o = 1
        BY <2>2, <2>3, <3>1, <3>2, <4>1
      <4>2. CASE m # 1 /\ o # 1
        <5>1. m - 1 \in 1 .. D /\ o - 1 \in 1 .. D /\ InRest(s, m - 1, x) /\ InRest(s, o - 1, x)
          BY <1>8, <2>4, <3>2, <4>2
        <5>2. m - 1 = o - 1
          BY <2>1, <5>1 DEF Disjoint
        <5>. QED  BY <1>1, <5>2
      <4>. QED  BY <4>1, <4>2
    <3>. QED  BY <1>3, <1>7, <3>1, <3>2 DEF Disjoint
  <2>7. ASSUME NEW x \in 1 .. s.n, NEW y \in 1 .. s.n, x < y, ~(V(s, x) <= V(s, y))
        PROVE  Together(r, x, y)
    <3>1. Together(s, x, y)
      BY <2>1, <2>7 DEF Separated
    <3>2. CASE In(x, l, u) /\ In(y, l, u)
      <4>1. \/ In(x, l, i - 1) /\ In(y, l, i - 1)
            \/ In(x, i + 1, u) /\ In(y, i + 1, u)
        <5>1. SUFFICES ASSUME x <= i, i <= y PROVE FALSE
          BY <1>1, <2>7, <3>2 DEF In
        <5>2. V(s, x) <= V(s, i) /\ V(s, i) <= V(s, y)
          <6>1. V(s, i) \in Nat
            BY <1>1, <2>1
          <6>2. x = i \/ x \in l .. i - 1
            BY <1>1, <3>2, <5>1 DEF In
          <6>3. y = i \/ y \in i + 1 .. u
            BY <1>1, <3>2, <5>1 DEF In
          <6>. QED  BY <2>1, <6>1, <6>2, <6>3
        <5>3. V(s, x) \in Nat /\ V(s, y) \in Nat /\ V(s, i) \in Nat
          BY SMTT(30), <1>1, <2>1
        <5>. QED  BY <2>7, <5>2, <5>3
      <4>2. \/ In(x, c[1], c[2]) /\ In(y, c[1], c[2])
            \/ In(x, k[1], k[2]) /\ In(y, k[1], k[2])
        BY <4>1 DEF Cut
      <4>3. 1 \in 1 .. D + 1
        BY <1>1
      <4>. QED  BY <1>3, <1>7, <2>3, <4>2, <4>3 DEF Together
    <3>3. ASSUME NEW m \in 1 .. D, InRest(s, m, x), InRest(s, m, y) PROVE Together(r, x, y)
      <4>1. m + 1 \in 1 .. D + 1 /\ r.rest[m + 1] = s.rest[m]
        BY <1>1, <1>3, <1>7
      <4>2. InRest(r, m + 1, x) /\ InRest(r, m + 1, y)
        BY <3>3, <4>1 DEF InRest
      <4>. QED  BY <1>3, <1>7, <4>1, <4>2 DEF Together
    <3>. QED  BY <3>1, <3>2, <3>3 DEF Together
  <2>8. Separated(r)
    BY <1>7, <2>7 DEF Separated, V
  <2>. QED  BY <1>7, <2>6, <2>8 DEF InOrder, Outside, Ends, Parting
<1>13. SortInv(r)
  BY <1>7, <1>11, <1>12 DEF SortInv, Indices, Comparing
<1>. QED  BY <1>13 DEF r

(* The pivot goes to its place and its range is cut there.                 *)
LEMMA PartedKeeps ==
  ASSUME NEW s, Framed(s), s.u - s.l >= 3, s.l < s.i, s.i <= s.u + 1,
         ~s.any => /\ Outside(s) /\ s.i < s.u /\ V(s, s.u - 1) = s.P
                   /\ \A x \in s.l .. s.i - 1 : V(s, x) <= s.P
                   /\ \A x \in s.i .. s.u : V(s, x) >= s.P
  PROVE  SortInv(Parted(s))
<1>. DEFINE l == s.l
            u == s.u
            i == s.i
            b == Swapped(s.a, u - 1, i)
            lower == <<l, i - 1>>
            upper == <<i + 1, u>>
            c == IF i - l < u - i THEN lower ELSE upper
            k == IF i - l < u - i THEN upper ELSE lower
            r == Moved(s, b, i, s.j, s.P, s.pc)
<1>1. /\ s \in Sorts /\ l \in Nat /\ u \in Int /\ l >= 1 /\ u <= s.n /\ s.n \in Nat
      /\ s.a \in Padding(s.n) /\ s.a \in Paddings /\ i \in Int /\ s.j \in Int /\ s.P \in Nat
      /\ \A x \in 0 .. s.n + 1 : V(s, x) \in Nat
  BY RangeIs
<1>2. s.pc \in PCs
  BY <1>1 DEF Sorts, PCs
<1>3. u - 1 \in 0 .. s.n + 1 /\ i \in 0 .. s.n + 1
  BY <1>1
<1>4. b \in Paddings
  BY <1>1, <1>3, SwapIs DEF SwapOf, Paddings
<1>5. Parted(s) = [r EXCEPT !.l = c[1], !.u = c[2], !.rest = <<k>> \o @, !.pc = "loop"]
  <2>1. Parted(s) = [s EXCEPT !.a = b, !.l = c[1], !.u = c[2], !.rest = <<k>> \o @, !.pc = "loop"]
    BY DEF Parted
  <2>. HIDE DEF b, c, k
  <2>. QED  BY ZenonT(40), <1>1, <2>1 DEF Moved, Sorts
<1>6. IsMoved(s, r, b, i, s.j, s.P, s.pc)
  <2>. HIDE DEF b
  <2>. QED  BY <1>1, <1>2, <1>4, MovedIs
<1>. HIDE DEF r
<1>7. Exchanged(s, r, u - 1, i)
  BY <1>3, <1>6 DEF IsMoved, Exchanged
<1>8. Framed(r) /\ \A x \in 0 .. s.n + 1 :
        V(r, x) = IF x = u - 1 THEN V(s, i) ELSE IF x = i THEN V(s, u - 1) ELSE V(s, x)
  BY <1>7, ExchangeKeeps
<1>9. r.l = l /\ r.u = u /\ r.any = s.any
  BY <1>7 DEF Exchanged, Inside
<1>10. Cut(r, i, c, k)
  BY <1>9 DEF Cut
<1>11. ASSUME ~r.any
       PROVE  /\ Outside(r) /\ i < r.u
              /\ \A x \in r.l .. i - 1 : V(r, x) <= V(r, i)
              /\ \A x \in i + 1 .. r.u : V(r, i) <= V(r, x)
  <2>1. /\ Outside(s) /\ i < u /\ V(s, u - 1) = s.P
        /\ \A x \in l .. i - 1 : V(s, x) <= s.P
        /\ \A x \in i .. u : V(s, x) >= s.P
    BY <1>9, <1>11
  <2>2. In(u - 1, l, u) /\ In(i, l, u)
    BY <1>1, <2>1 DEF In
  <2>3. Outside(r)
    BY <1>7, <2>1, <2>2, ExchangeOutside
  <2>4. V(r, i) = s.P
    BY <1>1, <1>3, <1>8, <2>1
  <2>5. ASSUME NEW x \in l .. i - 1 PROVE V(r, x) <= s.P
    <3>1. x \in 0 .. s.n + 1 /\ x # u - 1 /\ x # i
      BY <1>1, <2>1
    <3>. QED  BY <1>8, <2>1, <3>1
  <2>6. ASSUME NEW x \in i + 1 .. u PROVE s.P <= V(r, x)
    <3>1. x \in 0 .. s.n + 1 /\ x # i /\ x \in i .. u /\ i \in i .. u
      BY <1>1, <2>1
    <3>2. V(s, x) >= s.P /\ V(s, i) >= s.P
      BY <2>1, <3>1
    <3>3. V(s, x) \in Nat /\ V(s, i) \in Nat
      BY <1>1, <1>3, <3>1
    <3>. QED  BY <1>1, <1>8, <3>1, <3>2, <3>3
  <2>. QED  BY <1>9, <2>1, <2>3, <2>4, <2>5, <2>6
<1>. HIDE DEF c, k
<1>12. SortInv([r EXCEPT !.l = c[1], !.u = c[2], !.rest = <<k>> \o @, !.pc = "loop"])
  <2>1. r.u - r.l >= 3 /\ r.l < i /\ i <= r.u + 1
    BY <1>9
  <2>. QED  BY <1>1, <1>8, <1>10, <1>11, <2>1, CutKeeps
<1>. QED  BY <1>5, <1>12

(* Repeat --j until a[j] <= P. With an order it stops before l. Then a[i]  *)
(* and a[j] change places, or the range is cut.                            *)
LEMMA ScanDownKeeps ==
  ASSUME SortInv(sorting), ScanDown
  PROVE  SortInv(sorting')
<1>. DEFINE l == sorting.l
            u == sorting.u
            i == sorting.i
            j == sorting.j - 1
            P == sorting.P
            less == P < V(sorting, j)
            next == IF j < l THEN "error" ELSE "down"
            on == Moved(sorting, sorting.a, i, j, P, next)
            met == Moved(sorting, sorting.a, i, j, P, "down")
            swap == Moved(sorting, Swapped(sorting.a, i, j), i, j, P, "up")
<1>1. Framed(sorting) /\ Indices(sorting) /\ sorting \in Sorts /\ sorting.pc = "down"
  BY DEF SortInv, Framed, SortTypeOK, ScanDown, Compare
<1>2. /\ l \in Nat /\ u \in Int /\ l >= 1 /\ u <= sorting.n /\ sorting.n \in Nat
      /\ sorting.a \in Padding(sorting.n) /\ sorting.a \in Paddings
      /\ i \in Int /\ sorting.j \in Int /\ P \in Nat
      /\ \A k \in 0 .. sorting.n + 1 : V(sorting, k) \in Nat
  BY <1>1, RangeIs
<1>3. u - l >= 3 /\ l < i /\ i <= u + 1 /\ l <= sorting.j /\ sorting.j <= u
  BY <1>1, <1>2 DEF Indices
<1>4. \/ sorting' = on /\ (~sorting.any => less)
      \/ sorting' = Parted(met) /\ j < i /\ (~sorting.any => ~less)
      \/ sorting' = swap /\ ~(j < i) /\ (~sorting.any => ~less)
  <2>1. PICK answer \in Answers(P, At(j)) :
         sorting' = CASE answer /\ j < l -> [sorting EXCEPT !.j = j, !.pc = "error"]
                      [] answer /\ j >= l -> [sorting EXCEPT !.j = j]
                      [] ~answer /\ j < i -> Parted([sorting EXCEPT !.j = j])
                      [] OTHER -> [sorting EXCEPT !.j = j, !.a = Swapped(@, i, j), !.pc = "up"]
    BY DEF ScanDown, Compare
  <2>2. \/ answer /\ (~sorting.any => less)
        \/ ~answer /\ (~sorting.any => ~less)
    BY AnswerIs DEF Answer, At, V
  <2>3. j \in Int /\ (j >= l <=> ~(j < l))
    BY <1>2
  <2>4. /\ [sorting EXCEPT !.j = j] = met
        /\ [sorting EXCEPT !.j = j, !.a = Swapped(@, i, j), !.pc = "up"] = swap
        /\ j < l => [sorting EXCEPT !.j = j, !.pc = "error"] = on
        /\ ~(j < l) => met = on
    <3>. HIDE DEF j
    <3>. QED  BY <1>1, <1>2, <2>3 DEF Moved, Sorts
  <2>. HIDE DEF j, on, met, swap
  <2>5. CASE answer /\ j < l
    BY <2>1, <2>2, <2>3, <2>4, <2>5
  <2>6. CASE answer /\ ~(j < l)
    BY <2>1, <2>2, <2>3, <2>4, <2>6
  <2>7. CASE ~answer /\ j < i
    BY <2>1, <2>2, <2>4, <2>7
  <2>8. CASE ~answer /\ ~(j < i)
    BY <2>1, <2>2, <2>4, <2>8
  <2>. QED  BY <2>5, <2>6, <2>7, <2>8
<1>5. j \in Int /\ j + 1 = sorting.j /\ next \in PCs /\ next \in {"error", "down"}
      /\ (next = "down" <=> l <= j) /\ "up" \in PCs /\ "down" \in PCs
  BY <1>2 DEF PCs, Comparing
<1>6. ASSUME ~sorting.any
      PROVE  /\ Outside(sorting) /\ V(sorting, u - 1) = P /\ j + 1 < u /\ l < j + 1
             /\ \A k \in l .. i - 1 : V(sorting, k) <= P
             /\ \A k \in j + 1 .. u : V(sorting, k) >= P
             /\ V(sorting, i) >= P /\ i < u /\ i <= j + 2
  <2>1. Outside(sorting) /\ Parting(sorting)
    BY <1>6 DEF SortInv, InOrder
  <2>. QED  BY <1>1, <1>2, <1>5, <2>1 DEF Parting
<1>. HIDE DEF next, j
<1>7. ASSUME sorting' = on, ~sorting.any => less PROVE SortInv(sorting')
  <2>1. IsMoved(sorting, on, sorting.a, i, j, P, next)
    BY <1>1, <1>2, <1>5, MovedIs
  <2>. HIDE DEF on
  <2>2. Inside(sorting, on) /\ on.a = sorting.a /\ on.pc = next /\ on.i = i /\ on.j = j /\ on.P = P
    BY <2>1 DEF IsMoved
  <2>3. Framed(on) /\ \A k : V(on, k) = V(sorting, k)
    BY <1>1, <2>2, InsideKeeps
  <2>4. on.l = l /\ on.u = u /\ on.any = sorting.any
    BY <2>2 DEF Inside
  <2>5. Indices(on)
    BY <1>2, <1>3, <1>5, <2>2, <2>4 DEF Indices, Comparing
  <2>6. ASSUME ~sorting.any PROVE InOrder(on)
    <3>1. P < V(sorting, j) /\ V(sorting, j) \in Nat
      <4>1. j \in 0 .. sorting.n + 1
        BY <1>2, <1>3, <1>5
      <4>. QED  BY <1>2, <1>7, <2>6, <4>1
    <3>2. ~(V(sorting, j) <= P)
      BY <1>2, <3>1
    <3>3. j \notin l .. i - 1
      BY <1>6, <2>6, <3>2
    <3>4. l < j /\ i <= j
      BY <1>2, <1>3, <1>5, <1>6, <2>6, <3>3
    <3>5. \A k \in j .. u : V(sorting, k) >= P
      <4>1. \A k \in j .. u : k = j \/ k \in j + 1 .. u
        BY <1>2, <1>5
      <4>2. V(sorting, j) >= P
        BY <1>2, <3>1
      <4>. QED  BY <1>6, <2>6, <4>1, <4>2
    <3>6. Outside(on)
      BY <1>1, <1>6, <2>2, <2>6, InsideOutside
    <3>7. j < u /\ i <= j + 1
      BY <1>2, <1>5, <1>6, <2>6, <3>4
    <3>8. Parting(on)
      BY <1>2, <1>5, <1>6, <2>2, <2>3, <2>4, <2>6, <3>4, <3>5, <3>7 DEF Parting
    <3>9. next = "down"
      BY <1>2, <1>5, <3>4
    <3>. QED  BY <2>2, <3>6, <3>8, <3>9 DEF InOrder, Ends
  <2>. QED  BY <1>7, <2>3, <2>4, <2>5, <2>6 DEF SortInv
<1>8. ASSUME sorting' = Parted(met), j < i, ~sorting.any => ~less PROVE SortInv(sorting')
  <2>1. IsMoved(sorting, met, sorting.a, i, j, P, "down")
    BY <1>1, <1>2, <1>5, MovedIs
  <2>. HIDE DEF met
  <2>2. Inside(sorting, met) /\ met.a = sorting.a /\ met.i = i /\ met.P = P
    BY <2>1 DEF IsMoved
  <2>3. Framed(met) /\ \A k : V(met, k) = V(sorting, k)
    BY <1>1, <2>2, InsideKeeps
  <2>4. met.l = l /\ met.u = u /\ met.any = sorting.any
    BY <2>2 DEF Inside
  <2>5. ASSUME ~sorting.any
        PROVE  Outside(met) /\ \A x \in i .. u : V(sorting, x) >= P
    <3>1. Outside(met)
      BY <1>1, <1>6, <2>2, <2>5, InsideOutside
    <3>2. \A x \in i .. u : x \in j + 1 .. u
      BY <1>2, <1>5, <1>8
    <3>. QED  BY <1>6, <2>5, <3>1, <3>2
  <2>. QED  BY <1>3, <1>6, <1>8, <2>2, <2>3, <2>4, <2>5, PartedKeeps
<1>9. ASSUME sorting' = swap, ~(j < i), ~sorting.any => ~less PROVE SortInv(sorting')
  <2>1. i <= j /\ j < u /\ i \in 0 .. sorting.n + 1 /\ j \in 0 .. sorting.n + 1
    BY <1>2, <1>3, <1>5, <1>9
  <2>2. Swapped(sorting.a, i, j) \in Paddings
    BY <1>2, <2>1, SwapIs DEF SwapOf, Paddings
  <2>3. IsMoved(sorting, swap, Swapped(sorting.a, i, j), i, j, P, "up")
    BY <1>1, <1>2, <1>5, <2>2, MovedIs
  <2>. HIDE DEF swap
  <2>4. Exchanged(sorting, swap, i, j) /\ swap.pc = "up" /\ swap.i = i /\ swap.j = j /\ swap.P = P
    BY <2>1, <2>3 DEF IsMoved, Exchanged
  <2>5. Framed(swap) /\ \A k \in 0 .. sorting.n + 1 :
          V(swap, k) = IF k = i THEN V(sorting, j) ELSE IF k = j THEN V(sorting, i) ELSE V(sorting, k)
    BY <1>1, <2>4, ExchangeKeeps
  <2>6. swap.l = l /\ swap.u = u /\ swap.any = sorting.any
    BY <2>4 DEF Inside, Exchanged
  <2>7. Indices(swap)
    BY <1>2, <1>3, <2>1, <2>4, <2>6 DEF Indices, Comparing
  <2>8. ASSUME ~sorting.any PROVE InOrder(swap)
    <3>1. V(sorting, j) <= P /\ V(sorting, i) >= P
      BY <1>2, <1>6, <1>9, <2>1, <2>8
    <3>2. In(i, l, u) /\ In(j, l, u)
      BY <1>2, <1>3, <2>1 DEF In
    <3>3. Outside(swap)
      BY <1>1, <1>6, <2>4, <2>8, <3>2, ExchangeOutside
    <3>4. V(swap, i) = V(sorting, j) /\ V(swap, j) = V(sorting, i)
      BY <2>1, <2>5
    <3>5. j < u - 1
      BY <1>2, <1>5, <1>6, <2>8
    <3>6. V(swap, u - 1) = P
      <4>1. u - 1 \in 0 .. sorting.n + 1 /\ u - 1 # i /\ u - 1 # j
        BY <1>2, <1>3, <2>1, <3>5
      <4>. QED  BY <1>6, <2>5, <2>8, <4>1
    <3>7. ASSUME NEW k \in l .. i - 1 PROVE V(swap, k) <= P
      <4>1. k \in 0 .. sorting.n + 1 /\ k # i /\ k # j
        BY <1>2, <1>3, <2>1
      <4>. QED  BY <1>6, <2>5, <2>8, <4>1
    <3>8. ASSUME NEW k \in j .. u PROVE V(swap, k) >= P
      <4>1. CASE k = j
        BY <3>1, <3>4, <4>1
      <4>2. CASE k # j
        <5>1. k \in 0 .. sorting.n + 1 /\ k # i /\ k \in j + 1 .. u
          BY <1>2, <1>3, <2>1, <4>2
        <5>. QED  BY <1>6, <2>5, <2>8, <4>2, <5>1
      <4>. QED  BY <4>1, <4>2
    <3>9. l < j
      BY <1>2, <1>3, <2>1
    <3>10. i = j => i < u - 1
      BY <3>5
    <3>11. Parting(swap)
      BY <2>1, <2>4, <2>6, <3>1, <3>4, <3>6, <3>7, <3>8, <3>9, <3>10 DEF Parting
    <3>. QED  BY <2>4, <3>3, <3>11 DEF InOrder, Ends
  <2>. QED  BY <1>9, <2>5, <2>6, <2>7, <2>8 DEF SortInv
<1>. QED  BY <1>4, <1>7, <1>8, <1>9

(* The ranges that wait, without the first.                                *)
LEMMA OneLess ==
  ASSUME NEW S, NEW rest \in Seq(S), rest # <<>>
  PROVE  /\ Tail(rest) \in Seq(S) /\ Head(rest) = rest[1] /\ 1 \in 1 .. Len(rest)
         /\ Len(rest) \in Nat /\ Len(Tail(rest)) \in Nat /\ Len(rest) = Len(Tail(rest)) + 1
         /\ \A m \in 1 .. Len(Tail(rest)) : Tail(rest)[m] = rest[m + 1] /\ m + 1 \in 1 .. Len(rest)
OBVIOUS

(* A range is sorted, or has one element at most: its caller goes on with  *)
(* the one that waits.                                                     *)
LEMMA ReturnsKeep ==
  ASSUME SortInv(sorting), sorting.pc = "return" \/ (sorting.pc = "loop" /\ sorting.l >= sorting.u),
         sorting.rest # <<>>,
         sorting' = [sorting EXCEPT !.pc = "loop", !.l = Head(sorting.rest)[1],
                                    !.u = Head(sorting.rest)[2], !.rest = Tail(@)]
  PROVE  SortInv(sorting')
<1>. DEFINE s == sorting
            r == sorting'
            D == Len(Tail(s.rest))
            h == Head(s.rest)
<1>1. /\ Framed(s) /\ s \in Sorts /\ s.l \in Nat /\ s.u \in Int /\ s.n \in Nat
      /\ s.rest \in Seq(Int \X Int)
      /\ \A x \in 0 .. s.n + 1 : V(s, x) \in Nat
  BY RangeIs, SortIs DEF SortInv, Framed
<1>2. /\ Tail(s.rest) \in Seq(Int \X Int) /\ h = s.rest[1] /\ 1 \in 1 .. Len(s.rest)
      /\ Len(s.rest) \in Nat /\ D \in Nat /\ Len(s.rest) = D + 1
      /\ \A m \in 1 .. D : Tail(s.rest)[m] = s.rest[m + 1] /\ m + 1 \in 1 .. Len(s.rest)
  BY <1>1, OneLess
<1>3. h[1] \in Int /\ h[2] \in Int /\ h[1] >= 1 /\ h[2] <= s.n
  <2>1. h \in Int \X Int
    BY <1>1, <1>2
  <2>. QED  BY <1>1, <1>2, <2>1 DEF Framed, SortTypeOK
<1>4. r = [s EXCEPT !.pc = "loop", !.l = h[1], !.u = h[2], !.rest = Tail(s.rest)]
  OBVIOUS
<1>5. /\ r.l = h[1] /\ r.u = h[2] /\ r.rest = Tail(s.rest) /\ r.pc = "loop" /\ r.a = s.a
      /\ r.was = s.was /\ r.any = s.any /\ r.n = s.n /\ r \in Sorts
  <2>. HIDE DEF h
  <2>1. r \in Sorts
    BY ZenonT(40), <1>1, <1>2, <1>3, <1>4 DEF Sorts
  <2>. QED  BY <1>1, <1>4, <2>1 DEF Sorts
<1>6. SortTypeOK(r)
  BY <1>1, <1>2, <1>3, <1>5 DEF Framed, SortTypeOK
<1>7. Nested(r)
  <2>. DEFINE p == 2 ^ D
  <2>1. p \in Nat /\ 2 ^ Len(s.rest) = p + p
    BY <1>2, Power
  <2>2. 2 ^ Len(s.rest) <= s.n /\ \A m \in 1 .. D + 1 : Size(s.rest[m]) * 2 ^ (D + 1 - m) <= s.n
    <3>1. Nested(s) /\ s.rest # <<>>
      BY <1>1 DEF Framed
    <3>2. 2 ^ Len(s.rest) <= s.n
      BY <3>1 DEF Nested
    <3>3. \A m \in 1 .. Len(s.rest) : Size(s.rest[m]) * 2 ^ (Len(s.rest) - m) <= s.n
      BY <3>1 DEF Nested
    <3>4. ASSUME NEW m \in 1 .. D + 1 PROVE Size(s.rest[m]) * 2 ^ (D + 1 - m) <= s.n
      <4>1. m \in 1 .. Len(s.rest) /\ Len(s.rest) - m = D + 1 - m
        BY <1>2
      <4>. QED  BY <3>3, <4>1
    <3>. QED  BY <3>2, <3>4
  <2>3. p <= s.n
    <3>. HIDE DEF p
    <3>. QED  BY <1>1, <2>1, <2>2
  <2>4. Size(h) * p <= s.n
    <3>1. D + 1 - 1 = D /\ 1 \in 1 .. D + 1
      BY <1>2
    <3>. QED  BY <1>2, <2>2, <3>1
  <2>5. ASSUME NEW m \in 1 .. D PROVE Size(Tail(s.rest)[m]) * 2 ^ (D - m) <= s.n
    <3>1. m + 1 \in 1 .. D + 1 /\ D + 1 - (m + 1) = D - m
      BY <1>2
    <3>. QED  BY <1>2, <2>2, <3>1
  <2>. QED  BY <1>5, <2>3, <2>4, <2>5 DEF Nested, Size
<1>8. Framed(r)
  BY <1>1, <1>5, <1>6, <1>7 DEF Framed, Permuted
<1>9. ASSUME ~s.any PROVE InOrder(r)
  <2>1. Disjoint(s) /\ Separated(s) /\ Ends(s)
    BY <1>9 DEF SortInv, InOrder, Outside
  <2>2. /\ \A x : In(x, r.l, r.u) <=> InRest(s, 1, x)
        /\ \A x, m \in 1 .. D : InRest(r, m, x) <=> InRest(s, m + 1, x)
    BY <1>2, <1>5 DEF InRest
  <2>3. \A m, o \in 1 .. D + 1, k \in 1 .. s.n : InRest(s, m, k) /\ InRest(s, o, k) => m = o
    BY <1>2, <2>1 DEF Disjoint
  <2>4. Disjoint(r)
    <3>1. ASSUME NEW m \in 1 .. D, NEW x \in 1 .. s.n, InRest(r, m, x) PROVE ~In(x, r.l, r.u)
      <4>1. m + 1 \in 1 .. D + 1 /\ 1 \in 1 .. D + 1 /\ m + 1 # 1
        BY <1>2
      <4>2. InRest(s, m + 1, x)
        BY <1>2, <1>5, <3>1 DEF InRest
      <4>. QED  BY <2>2, <2>3, <4>1, <4>2
    <3>2. ASSUME NEW m \in 1 .. D, NEW o \in 1 .. D, NEW x \in 1 .. s.n, InRest(r, m, x), InRest(r, o, x)
          PROVE  m = o
      <4>1. m + 1 \in 1 .. D + 1 /\ o + 1 \in 1 .. D + 1
        BY <1>2
      <4>2. InRest(s, m + 1, x) /\ InRest(s, o + 1, x)
        BY <1>2, <1>5, <3>2 DEF InRest
      <4>3. m + 1 = o + 1
        BY <2>3, <4>1, <4>2
      <4>. QED  BY <4>3
    <3>. QED  BY <1>5, <3>1, <3>2 DEF Disjoint
  <2>5. ASSUME NEW x \in 1 .. s.n, NEW y \in 1 .. s.n, x < y, ~(V(s, x) <= V(s, y))
        PROVE  Together(r, x, y)
    <3>1. ~(In(x, s.l, s.u) /\ In(y, s.l, s.u))
      <4>1. CASE s.pc = "return"
        <5>1. \A p, q \in s.l .. s.u : p < q => V(s, p) <= V(s, q)
          BY <2>1, <4>1 DEF Ends
        <5>. QED  BY <1>1, <2>5, <5>1 DEF In
      <4>2. CASE s.l >= s.u
        BY <1>1, <2>5, <4>2 DEF In
      <4>. QED  BY <4>1, <4>2
    <3>2. PICK m \in 1 .. D + 1 : InRest(s, m, x) /\ InRest(s, m, y)
      BY <1>2, <2>1, <2>5, <3>1 DEF Separated, Together
    <3>3. CASE m = 1
      BY <2>2, <3>2, <3>3 DEF Together
    <3>4. CASE m # 1
      <4>1. m - 1 \in 1 .. D /\ m - 1 + 1 = m
        BY SMTT(30), <1>2, <3>4
      <4>2. InRest(r, m - 1, x) /\ InRest(r, m - 1, y)
        BY <1>2, <1>5, <3>2, <4>1 DEF InRest
      <4>. QED  BY <1>5, <4>1, <4>2 DEF Together
    <3>. QED  BY <3>3, <3>4
  <2>6. Separated(r)
    BY <1>5, <2>5 DEF Separated, V
  <2>. QED  BY <1>5, <2>4, <2>6 DEF InOrder, Outside, Ends, Parting
<1>. QED  BY <1>5, <1>8, <1>9 DEF SortInv, Indices, Comparing

(* The loop goes on, or the last call returns.                             *)
LEMMA LoopKeeps ==
  ASSUME SortInv(sorting), Loop
  PROVE  SortInv(sorting')
<1>. DEFINE s == sorting
            Over == s.pc = "return" \/ (s.pc = "loop" /\ s.l >= s.u)
            NextIs(pc) == sorting' = Moved(s, s.a, s.i, s.j, s.P, pc)
<1>1. /\ Framed(s) /\ Indices(s) /\ s \in Sorts /\ s.l \in Nat /\ s.u \in Int /\ s.n \in Nat
      /\ s.a \in Paddings /\ s.i \in Int /\ s.j \in Int /\ s.P \in Nat
      /\ \A x \in 0 .. s.n + 1 : V(s, x) \in Nat
  BY RangeIs DEF SortInv
<1>2. \/ s.pc = "loop" /\ s.l < s.u /\ NextIs("ends")
      \/ Over /\ s.rest = <<>> /\ NextIs("done")
      \/ /\ Over /\ s.rest # <<>>
         /\ sorting' = [sorting EXCEPT !.pc = "loop", !.l = Head(sorting.rest)[1],
                                       !.u = Head(sorting.rest)[2], !.rest = Tail(@)]
  <2>1. /\ [sorting EXCEPT !.pc = "ends"] = Moved(s, s.a, s.i, s.j, s.P, "ends")
        /\ [sorting EXCEPT !.pc = "done"] = Moved(s, s.a, s.i, s.j, s.P, "done")
    BY <1>1 DEF Moved, Sorts
  <2>2. s.pc \in {"loop", "return"} /\ (s.l < s.u <=> ~(s.l >= s.u))
    BY <1>1 DEF Loop
  <2>3. CASE s.pc = "loop" /\ s.l < s.u
    BY <2>1, <2>2, <2>3 DEF Loop
  <2>4. CASE Over /\ s.rest = <<>>
    <3>1. ~(s.pc = "loop" /\ s.l < s.u)
      BY <2>2, <2>4
    <3>. QED  BY <2>1, <2>4, <3>1 DEF Loop
  <2>5. CASE Over /\ s.rest # <<>>
    <3>1. ~(s.pc = "loop" /\ s.l < s.u)
      BY <2>2, <2>5
    <3>. QED  BY <2>5, <3>1 DEF Loop
  <2>. QED  BY <2>2, <2>3, <2>4, <2>5
<1>3. ASSUME NEW pc \in {"ends", "done"}, NextIs(pc),
             pc = "ends" => s.l < s.u,
             pc = "done" => Over /\ s.rest = <<>>
      PROVE  SortInv(sorting')
  <2>. DEFINE r == sorting'
  <2>1. IsMoved(s, r, s.a, s.i, s.j, s.P, pc)
    <3>1. pc \in PCs
      BY DEF PCs, Comparing
    <3>. QED  BY <1>1, <1>3, <3>1, MovedIs
  <2>. HIDE DEF r
  <2>2. Inside(s, r) /\ r.a = s.a /\ r.pc = pc
    BY <2>1 DEF IsMoved
  <2>3. Framed(r) /\ \A k : V(r, k) = V(s, k)
    BY <1>1, <2>2, InsideKeeps
  <2>4. r.l = s.l /\ r.u = s.u /\ r.any = s.any /\ r.rest = s.rest
    BY <2>2 DEF Inside
  <2>5. Indices(r)
    BY <1>3, <2>2, <2>4 DEF Indices, Comparing
  <2>6. ASSUME ~s.any PROVE InOrder(r)
    <3>1. Outside(s) /\ Ends(s)
      BY <2>6 DEF SortInv, InOrder
    <3>2. Outside(r)
      BY <1>1, <2>2, <3>1, InsideOutside
    <3>3. ASSUME pc = "done", NEW x \in s.l .. s.u, NEW y \in s.l .. s.u, x < y
          PROVE  V(s, x) <= V(s, y)
      <4>1. CASE s.pc = "return"
        BY <3>1, <3>3, <4>1 DEF Ends
      <4>2. CASE s.l >= s.u
        BY <1>1, <3>3, <4>2
      <4>. QED  BY <1>3, <3>3, <4>1, <4>2
    <3>4. Ends(r)
      BY <2>2, <2>3, <2>4, <3>3 DEF Ends
    <3>. QED  BY <2>2, <3>2, <3>4 DEF InOrder, Parting
  <2>7. SortInv(r)
    BY <2>3, <2>4, <2>5, <2>6 DEF SortInv
  <2>. QED  BY <2>7 DEF r
<1>4. CASE s.pc = "loop" /\ s.l < s.u /\ NextIs("ends")
  BY <1>3, <1>4
<1>5. CASE Over /\ s.rest = <<>> /\ NextIs("done")
  BY <1>3, <1>5
<1>. QED  BY <1>2, <1>4, <1>5, ReturnsKeep

(* A sort begins with one range, the whole array.                          *)
LEMMA StartIs ==
  ASSUME NEW f \in Seq(Nat \ {Nothing}), NEW any \in BOOLEAN
  PROVE  SortInv(SortStart(f, any))
<1>. DEFINE n == Len(f)
            a == Padded(f)
            pc == IF n > 1 THEN "ends" ELSE "done"
            s == SortStart(f, any)
<1>1. n \in Nat /\ 0 \in Nat
  OBVIOUS
<1>2. a \in Padding(n)
  <2>1. <<Nothing>> \o f \in Seq(Nat) /\ Len(<<Nothing>> \o f) = n + 1
    BY DEF Nothing
  <2>2. a \in Seq(Nat) /\ Len(a) = n + 2
    <3>1. a = (<<Nothing>> \o f) \o <<Nothing>>
      BY DEF Padded
    <3>2. <<Nothing>> \in Seq(Nat) /\ Len(<<Nothing>>) = 1
      BY DEF Nothing
    <3>. QED  BY <1>1, <2>1, <3>1, <3>2
  <2>. QED  BY <2>2 DEF Padding
<1>3. s = [pc |-> pc, a |-> a, was |-> a, any |-> any, l |-> 1, u |-> n, i |-> 0, j |-> 0,
           P |-> Nothing, rest |-> <<>>, n |-> n]
  <2>1. SortStart(f, any) =
          [NotSorting EXCEPT !.a = Padded(f), !.was = Padded(f), !.any = any, !.n = Len(f),
                             !.u = Len(f), !.pc = IF Len(f) > 1 THEN "ends" ELSE "done"]
    BY Zenon DEF SortStart
  <2>. HIDE DEF pc, n, a, s
  <2>2. s = [NotSorting EXCEPT !.a = a, !.was = a, !.any = any, !.n = n, !.u = n, !.pc = pc]
    BY <2>1, Zenon DEF pc, n, a, s
  <2>. QED  BY <2>2 DEF NotSorting
<1>. HIDE DEF n, a
<1>. HIDE DEF s
<1>4. /\ s.pc = pc /\ s.a = a /\ s.was = a /\ s.l = 1 /\ s.u = n /\ s.rest = <<>> /\ s.n = n
      /\ Len(s.rest) = 0
  BY <1>3
<1>5. s \in Sorts
  <2>1. a \in Paddings
    BY <1>1, <1>2 DEF Paddings
  <2>2. pc \in PCs /\ <<>> \in Seq(Int \X Int)
    BY DEF PCs, Comparing
  <2>. HIDE DEF pc
  <2>. QED  BY <1>1, <1>3, <2>1, <2>2 DEF Sorts, PCs, Nothing
<1>6. SortTypeOK(s) /\ Permuted(s)
  BY <1>1, <1>2, <1>4, <1>5 DEF SortTypeOK, Permuted
<1>7. Nested(s)
  <2>1. 2 ^ Len(s.rest) = 1 /\ (s.u - s.l + 1) * 1 <= s.n
    BY <1>1, <1>4, Power
  <2>. QED  BY <1>4, <2>1 DEF Nested
<1>8. Indices(s)
  BY <1>1, <1>4 DEF Indices, Comparing
<1>9. InOrder(s)
  <2>1. Outside(s)
    BY <1>1, <1>4 DEF Outside, Disjoint, Separated, Together, In
  <2>2. Ends(s)
    BY <1>1, <1>4 DEF Ends
  <2>. QED  BY <1>4, <2>1, <2>2 DEF InOrder, Parting
<1>10. SortInv(s)
  BY <1>6, <1>7, <1>8, <1>9 DEF SortInv, Framed
<1>. QED  BY <1>10 DEF s

(* table.sort loses no element whatever the order function answers, nests  *)
(* calls to a logarithm of the length only, and with an order sorts the    *)
(* array and never finds the order invalid (auxsort): for every length.    *)
THEOREM TablesAreSorted == SortSpec => []SortsSafely
<1>. DEFINE Inv == SortInv(sorting)
<1>1. SortInit => Inv
  <2>1. ASSUME NEW x \in Arrays, sorting = SortStart(x[1], x[2]) PROVE SortInv(sorting)
    BY <2>1, StartIs, ArraysAssumption
  <2>. QED  BY <2>1 DEF SortInit
<1>2. Inv /\ [SortNext]_sorting => Inv'
  <2>1. Inv /\ SortNext => SortInv(sorting')
    BY LoopKeeps, EndsKeeps, MiddleKeeps, HighKeeps, ScanUpKeeps, ScanDownKeeps DEF SortNext
  <2>. QED  BY <2>1
<1>3. Inv => SortsSafely
  <2>. SUFFICES ASSUME SortInv(sorting) PROVE SortsSafely
    OBVIOUS
  <2>1. Framed(sorting) /\ Indices(sorting)
    BY DEF SortInv
  <2>2. \A k \in DOMAIN sorting.was : sorting.was[k] \in Nat
    BY <2>1 DEF Framed, SortTypeOK, Padding
  <2>3. \A k \in DOMAIN sorting.was :
          Cardinality(PlacesOf(sorting.a, sorting.was[k])) = Cardinality(PlacesOf(sorting.was, sorting.was[k]))
    BY <2>1, <2>2 DEF Framed, Permuted
  <2>4. sorting.rest # <<>> => 2 ^ Len(sorting.rest) <= sorting.n
    BY <2>1 DEF Framed, Nested
  <2>5. ASSUME ~sorting.any, sorting.pc = "done", NEW k \in 1 .. sorting.n - 1
        PROVE  At(k) <= At(k + 1)
    <3>1. Separated(sorting) /\ Ends(sorting) /\ sorting.rest = <<>>
      BY <2>1, <2>5 DEF SortInv, InOrder, Outside, Indices
    <3>2. /\ sorting.n \in Nat /\ sorting.l \in Nat /\ sorting.u \in Int
          /\ k \in 1 .. sorting.n /\ k + 1 \in 1 .. sorting.n /\ k < k + 1
      BY <2>1, RangeIs
    <3>3. V(sorting, k) <= V(sorting, k + 1) \/ (In(k, sorting.l, sorting.u) /\ In(k + 1, sorting.l, sorting.u))
      BY <3>1, <3>2 DEF Separated, Together
    <3>4. \A x, y \in sorting.l .. sorting.u : x < y => V(sorting, x) <= V(sorting, y)
      BY <2>5, <3>1 DEF Ends
    <3>5. V(sorting, k) <= V(sorting, k + 1)
      BY <3>2, <3>3, <3>4 DEF In
    <3>. QED  BY <3>5 DEF At, V
  <2>6. ~sorting.any => sorting.pc # "error"
    BY DEF SortInv, InOrder
  <2>. QED  BY <2>3, <2>4, <2>5, <2>6 DEF SortsSafely, PlacesOf
<1>. HIDE DEF Inv
<1>. QED  BY <1>1, <1>2, <1>3, PTL DEF SortSpec

-----------------------------------------------------------------------------
(* gsub and gmatch.                                                        *)
GsubSpec == GsubInit /\ [][GsubNext]_matching

MatchEnd(x, s) == Matched(x, s).s

(* Where both go from s: after the match, or one place further.            *)
NextPlace(x, s) == IF MatchEnd(x, s) > s THEN MatchEnd(x, s) ELSE s + 1

Pieces == Nat \X Nat \X BOOLEAN
Firsts(ps) == {ps[i][1] : i \in DOMAIN ps}
Replaced(ps) == {<<ps[i][1], ps[i][2]>> : i \in {j \in DOMAIN ps : ps[j][3]}}

(* Every character up to the place `to' is in one piece, in order.         *)
Joined(ps, to) ==
  /\ \A i \in DOMAIN ps : ps[i][1] = IF i = 1 THEN 1 ELSE ps[i - 1][2]
  /\ to = IF ps = <<>> THEN 1 ELSE ps[Len(ps)][2]

(* What another piece does. *)
Added(ps, a, b, replaced, r) ==
  /\ r \in Seq(Pieces) /\ Joined(r, b) /\ Firsts(r) = Firsts(ps) \cup {a}
  /\ Replaced(r) = Replaced(ps) \cup (IF replaced THEN {<<a, b>>} ELSE {})

(* gsub appends to its buffer. *)
LEMMA AddPiece ==
  ASSUME NEW ps \in Seq(Pieces), NEW a \in Nat, NEW b \in Nat, NEW replaced \in BOOLEAN,
         Joined(ps, a), NEW r, r = Append(ps, <<a, b, replaced>>)
  PROVE  Added(ps, a, b, replaced, r)
<1>. DEFINE n == Len(ps)
            p == <<a, b, replaced>>
<1>1. n \in Nat /\ DOMAIN ps = 1 .. n /\ p \in Pieces /\ p[1] = a /\ p[2] = b /\ p[3] = replaced
  BY DEF Pieces
<1>. HIDE DEF p
<1>2. /\ r \in Seq(Pieces) /\ Len(r) = n + 1 /\ DOMAIN r = 1 .. n + 1
      /\ \A i \in 1 .. n : r[i] = ps[i]
      /\ r[n + 1] = p
  BY <1>1 DEF p
<1>. HIDE DEF n
<1>3. 1 .. n + 1 = (1 .. n) \cup {n + 1} /\ n + 1 \notin 1 .. n
  BY <1>1
<1>4. Joined(r, b)
  <2>1. \A i \in 1 .. n : i # 1 => i - 1 \in 1 .. n
    BY <1>1
  <2>2. \A i \in 1 .. n : r[i][1] = IF i = 1 THEN 1 ELSE r[i - 1][2]
    <3>1. \A i \in 1 .. n : ps[i][1] = IF i = 1 THEN 1 ELSE ps[i - 1][2]
      BY <1>1 DEF Joined
    <3>2. \A i \in 1 .. n : r[i] = ps[i] /\ (i # 1 => r[i - 1] = ps[i - 1])
      BY <1>2, <2>1
    <3>. HIDE DEF n
    <3>. QED  BY <3>1, <3>2
  <2>3. r[n + 1][1] = IF n + 1 = 1 THEN 1 ELSE r[n + 1 - 1][2]
    <3>1. CASE n = 0
      <4>1. ps = <<>>
        BY <1>1, <3>1 DEF n
      <4>. QED  BY <1>1, <1>2, <3>1, <4>1 DEF Joined
    <3>2. CASE n # 0
      <4>1. ps # <<>> /\ n \in 1 .. n /\ n + 1 - 1 = n /\ n + 1 # 1
        BY <1>1, <3>2 DEF n
      <4>. QED  BY <1>1, <1>2, <4>1 DEF Joined, n
    <3>. QED  BY <3>1, <3>2
  <2>4. r # <<>> /\ r[Len(r)][2] = b
    BY <1>1, <1>2
  <2>. QED  BY <1>2, <1>3, <2>2, <2>3, <2>4 DEF Joined
<1>5. Firsts(r) = Firsts(ps) \cup {a}
  BY <1>1, <1>2, <1>3 DEF Firsts
<1>6. Replaced(r) = Replaced(ps) \cup (IF replaced THEN {<<a, b>>} ELSE {})
  <2>1. {j \in DOMAIN r : r[j][3]} = {j \in DOMAIN ps : ps[j][3]} \cup (IF replaced THEN {n + 1} ELSE {})
    BY <1>1, <1>2, <1>3
  <2>2. \A j \in DOMAIN ps : r[j] = ps[j]
    BY <1>1, <1>2
  <2>. QED  BY <1>1, <1>2, <2>1, <2>2 DEF Replaced
<1>. QED  BY <1>2, <1>4, <1>5, <1>6 DEF Added

(* What both loops rest on: gsub has tried all places of D, and will try h. *)
Tried(x, D, h) ==
  /\ D \in SUBSET (1 .. SrcEnd(x)) /\ h \in 1 .. SrcEnd(x) /\ 1 \in D \cup {h}
  /\ \A q \in D : q < SrcEnd(x) => NextPlace(x, q) \in D \cup {h}
  /\ \A q \in D, v \in D \cup {h} : q < v => NextPlace(x, q) <= v

MatchesAt(x, D) == {<<s, MatchEnd(x, s)>> : s \in {q \in D : MatchEnd(x, q) # 0}}

Matchings == [x : Subjects, at : Nat, n : Nat, pieces : Seq(Pieces), next : Nat, seen : Seq(Nat \X Nat)]

(* gsub is at the place h, and has tried D before it.                      *)
Replacing(m, D, h) ==
  /\ Tried(m.x, D, h) /\ Joined(m.pieces, h)
  /\ Firsts(m.pieces) \subseteq D
  /\ Replaced(m.pieces) = MatchesAt(m.x, D)
  /\ IsFiniteSet(MatchesAt(m.x, D)) /\ m.n = Cardinality(MatchesAt(m.x, D))

(* While gsub runs; the places it tried are before the one it is at.       *)
Running(m) ==
  /\ m.at # 0 /\ m.next = 1 /\ m.seen = <<>> /\ m.n < m.at
  /\ \E D \in SUBSET (1 .. m.at - 1) : Replacing(m, D, m.at)

Listed(seen) == {seen[i] : i \in DOMAIN seen}
Rising(seen) == \A i, j \in DOMAIN seen : i < j => seen[i][1] < seen[j][1]

(* Then gmatch has returned the matches that begin before the place it is at. *)
Matching(m) ==
  /\ m.at = 0 /\ Rising(m.seen)
  /\ IsFiniteSet(Listed(m.seen)) /\ Len(m.seen) = Cardinality(Listed(m.seen))
  /\ \E D \in SUBSET (1 .. SrcEnd(m.x)) :
        /\ Replacing(m, D, SrcEnd(m.x)) /\ SrcEnd(m.x) \in D
        /\ m.next \in D \cup {0, SrcEnd(m.x) + 1}
        /\ Listed(m.seen) = {r \in MatchesAt(m.x, D) : m.next # 0 => r[1] < m.next}

GsubInv == matching \in Matchings /\ (Running(matching) \/ Matching(matching))

(* A match that ends at or after the place where it begins.                *)
LEMMA MatchesEnd ==
  ASSUME NEW x \in Subjects
  PROVE  /\ SrcEnd(x) \in Nat \ {0}
         /\ \A s \in 1 .. SrcEnd(x) : /\ MatchEnd(x, s) \in {0} \cup s .. SrcEnd(x)
                                      /\ NextPlace(x, s) \in s + 1 .. SrcEnd(x) + 1
                                      /\ s < SrcEnd(x) => NextPlace(x, s) <= SrcEnd(x)
                                      /\ s = SrcEnd(x) => NextPlace(x, s) = s + 1
<1>1. SrcEnd(x) \in Nat \ {0} /\ \A s \in 1 .. SrcEnd(x) : MatchEnd(x, s) \in {0} \cup s .. SrcEnd(x)
  BY MatchAssumption DEF SrcEnd, MatchEnd
<1>. QED  BY <1>1 DEF NextPlace

(* gsub tries one more place. *)
LEMMA TryNext ==
  ASSUME NEW x \in Subjects, NEW s \in 1 .. SrcEnd(x), NEW D \in SUBSET (1 .. s - 1),
         Tried(x, D, s), NEW h, h = IF s < SrcEnd(x) THEN NextPlace(x, s) ELSE s
  PROVE  /\ Tried(x, D \cup {s}, h)
         /\ MatchesAt(x, D \cup {s}) =
              MatchesAt(x, D) \cup (IF MatchEnd(x, s) # 0 THEN {<<s, MatchEnd(x, s)>>} ELSE {})
<1>. DEFINE E == D \cup {s}
<1>1. SrcEnd(x) \in Nat \ {0} /\ NextPlace(x, s) \in s + 1 .. SrcEnd(x) + 1
      /\ (s < SrcEnd(x) => NextPlace(x, s) <= SrcEnd(x))
  BY MatchesEnd
<1>2. h \in 1 .. SrcEnd(x) /\ E \in SUBSET (1 .. SrcEnd(x)) /\ s <= h
  BY <1>1
<1>3. 1 \in E \cup {h}
  BY DEF Tried
<1>4. \A q \in E : q < SrcEnd(x) => NextPlace(x, q) \in E \cup {h}
  <2>1. \A q \in D : q < SrcEnd(x) => NextPlace(x, q) \in E
    BY DEF Tried
  <2>. QED  BY <2>1
<1>5. ASSUME NEW q \in E, NEW v \in E \cup {h}, q < v PROVE NextPlace(x, q) <= v
  <2>1. CASE q \in D /\ v \in D \cup {s}
    BY <1>5, <2>1 DEF Tried
  <2>2. CASE q \in D /\ v = h
    <3>1. NextPlace(x, q) <= s /\ NextPlace(x, q) \in Int
      BY <2>2, MatchesEnd DEF Tried
    <3>. QED  BY <1>1, <1>2, <2>2, <3>1
  <2>3. CASE q = s
    BY <1>1, <1>2, <1>5, <2>3
  <2>. QED  BY <2>1, <2>2, <2>3
<1>6. Tried(x, E, h)
  BY <1>2, <1>3, <1>4, <1>5 DEF Tried
<1>. QED  BY <1>6 DEF MatchesAt

(* A step of gsub (lstrlib.cpp:657). *)
LEMMA GsubKeeps ==
  ASSUME GsubInv, Gsub
  PROVE  GsubInv'
<1>. DEFINE m == matching
            x == m.x
            s == m.at
            e == MatchEnd(x, s)
            end == SrcEnd(x)
            h == IF s < end THEN NextPlace(x, s) ELSE s
            r == matching'
            one == IF e # 0 THEN {<<s, e>>} ELSE {}
<1>1. m \in Matchings /\ Running(m) /\ x \in Subjects /\ m.pieces \in Seq(Pieces) /\ m.n \in Nat
  BY DEF GsubInv, Matching, Gsub, Matchings
<1>2. PICK D \in SUBSET (1 .. s - 1) : Replacing(m, D, s)
  BY <1>1 DEF Running
<1>3. /\ Tried(x, D, s) /\ Joined(m.pieces, s) /\ Firsts(m.pieces) \subseteq D
      /\ Replaced(m.pieces) = MatchesAt(x, D)
      /\ IsFiniteSet(MatchesAt(x, D)) /\ m.n = Cardinality(MatchesAt(x, D))
  BY <1>2 DEF Replacing
<1>4. s \in 1 .. end /\ end \in Nat \ {0} /\ e \in {0} \cup s .. end
      /\ (s < end => NextPlace(x, s) \in s + 1 .. end)
  BY <1>1, <1>3, MatchesEnd DEF Tried
<1>. DEFINE E == D \cup {s}
<1>5. Tried(x, E, h) /\ MatchesAt(x, E) = MatchesAt(x, D) \cup one
  BY <1>1, <1>3, <1>4, TryNext
<1>6. /\ r = [m EXCEPT !.n = r.n, !.pieces = r.pieces, !.at = r.at]
      /\ r.n = m.n + (IF e # 0 THEN 1 ELSE 0)
      /\ r.at = IF s < end THEN h ELSE 0
      /\ r.pieces = (m.pieces \o (IF e # 0 THEN << <<s, e, TRUE>> >> ELSE <<>>))
                    \o (IF e <= s /\ s < end THEN << <<s, s + 1, FALSE>> >> ELSE <<>>)
  <2>1. matching' = [m EXCEPT !.n = @ + Len(IF e # 0 THEN << <<s, e, TRUE>> >> ELSE <<>>),
               !.pieces = (@ \o (IF e # 0 THEN << <<s, e, TRUE>> >> ELSE <<>>))
                          \o (IF e <= s /\ s < end THEN << <<s, s + 1, FALSE>> >> ELSE <<>>),
               !.at = IF e > s THEN e ELSE IF s < end THEN s + 1 ELSE 0]
    BY DEF Gsub, Counts, MatchEnd
  <2>2. Len(IF e # 0 THEN << <<s, e, TRUE>> >> ELSE <<>>) = IF e # 0 THEN 1 ELSE 0
    OBVIOUS
  <2>3. (IF e > s THEN e ELSE IF s < end THEN s + 1 ELSE 0) = IF s < end THEN h ELSE 0
    BY <1>4 DEF NextPlace
  <2>. HIDE DEF e, s, end, h
  <2>. QED  BY <1>1, <2>1, <2>2, <2>3 DEF Matchings
<1>13. /\ h = IF s < end THEN (IF e > s THEN e ELSE s + 1) ELSE s
       /\ s \in Nat /\ e \in Nat /\ h \in Nat /\ s >= 1
       /\ \A q \in D : q \in Nat /\ 1 <= q /\ q < s
       /\ m.x = x /\ m.at = s
  <2>1. s \in Nat /\ e \in Nat /\ s >= 1
    BY <1>4
  <2>2. h = IF s < end THEN (IF e > s THEN e ELSE s + 1) ELSE s
    BY DEF NextPlace
  <2>3. \A q \in D : q \in Nat /\ 1 <= q /\ q < s
    <3>. HIDE DEF s
    <3>. QED  BY <2>1
  <2>. HIDE DEF s, e, h, end
  <2>. QED  BY <2>1, <2>2, <2>3 DEF s
<1>. HIDE DEF m, r, x, s, e, end, h
<1>. DEFINE ps == m.pieces
            a == << <<s, e, TRUE>> >>
            b == << <<s, s + 1, FALSE>> >>
            mid == IF e # 0 THEN Append(ps, <<s, e, TRUE>>) ELSE ps
<1>7. /\ mid \in Seq(Pieces) /\ Joined(mid, IF e # 0 THEN e ELSE s)
      /\ Firsts(mid) = Firsts(ps) \cup (IF e # 0 THEN {s} ELSE {})
      /\ Replaced(mid) = Replaced(ps) \cup one
      /\ mid = ps \o (IF e # 0 THEN a ELSE <<>>)
  <2>1. CASE e # 0
    <3>1. mid = Append(ps, <<s, e, TRUE>>) /\ <<s, e, TRUE>> \in Pieces /\ e \in Nat /\ s \in Nat
      BY <1>13, <2>1 DEF Pieces
    <3>. HIDE DEF mid, ps
    <3>2. mid = ps \o a
      BY <1>1, <3>1, AppendIsConcat DEF ps
    <3>3. Added(ps, s, e, TRUE, mid)
      <4>1. ps \in Seq(Pieces) /\ Joined(ps, s)
        BY <1>1, <1>3 DEF ps
      <4>. HIDE DEF one
      <4>. QED  BY <3>1, <4>1, AddPiece
    <3>. QED  BY <2>1, <3>2, <3>3 DEF Added
  <2>2. CASE e = 0
    <3>1. mid = ps /\ ps \in Seq(Pieces) /\ Joined(ps, s)
      BY <1>1, <1>3, <2>2
    <3>. HIDE DEF mid, ps
    <3>2. ps \o <<>> = ps
      BY <3>1, ConcatEmptySeq
    <3>. QED  BY <2>2, <3>1, <3>2
  <2>. QED  BY <2>1, <2>2
<1>8. /\ r.pieces \in Seq(Pieces) /\ Joined(r.pieces, h) /\ Firsts(r.pieces) \subseteq E
      /\ Replaced(r.pieces) = MatchesAt(x, E)
  <2>1. r.pieces = mid \o (IF e <= s /\ s < end THEN b ELSE <<>>)
    BY <1>6, <1>7
  <2>2. Firsts(mid) \subseteq E /\ Replaced(mid) = MatchesAt(x, E)
    BY <1>3, <1>5, <1>7
  <2>3. CASE e <= s /\ s < end
    <3>1. h = s + 1 /\ (IF e # 0 THEN e ELSE s) = s /\ <<s, s + 1, FALSE>> \in Pieces /\ s \in Nat
      <4>1. h = s + 1 /\ (IF e # 0 THEN e ELSE s) = s
        BY <1>4, <1>13, <2>3
      <4>2. <<s, s + 1, FALSE>> \in Pieces
        <5>1. s \in Nat /\ s + 1 \in Nat
          BY <1>13
        <5>. QED  BY <5>1 DEF Pieces
      <4>. QED  BY <1>13, <4>1, <4>2
    <3>. HIDE DEF mid, ps
    <3>2. r.pieces = Append(mid, <<s, s + 1, FALSE>>)
      BY <1>7, <2>1, <2>3, <3>1, AppendIsConcat
    <3>3. Added(mid, s, s + 1, FALSE, r.pieces)
      <4>1. mid \in Seq(Pieces) /\ Joined(mid, s) /\ s + 1 \in Nat /\ FALSE \in BOOLEAN
        BY <1>7, <3>1
      <4>. QED  BY <3>1, <3>2, <4>1, AddPiece
    <3>. QED  BY <2>2, <3>1, <3>3 DEF Added
  <2>4. CASE ~(e <= s /\ s < end)
    <3>1. h = IF e # 0 THEN e ELSE s
      BY <1>4, <1>13, <2>4
    <3>. HIDE DEF mid, ps
    <3>2. r.pieces = mid
      BY <1>7, <2>1, <2>4, ConcatEmptySeq
    <3>. QED  BY <1>7, <2>2, <3>1, <3>2
  <2>. QED  BY <2>3, <2>4
<1>9. IsFiniteSet(MatchesAt(x, E)) /\ r.n = Cardinality(MatchesAt(x, E))
  <2>1. CASE e # 0
    <3>1. <<s, e>> \notin MatchesAt(x, D)
      BY <1>13 DEF MatchesAt
    <3>2. r.n = m.n + 1 /\ MatchesAt(x, E) = MatchesAt(x, D) \cup {<<s, e>>}
      BY <1>5, <1>6, <2>1
    <3>. DEFINE M == MatchesAt(x, D)
                y == <<s, e>>
    <3>3. IsFiniteSet(M) /\ y \notin M /\ m.n = Cardinality(M) /\ MatchesAt(x, E) = M \cup {y}
      BY <1>3, <3>1, <3>2
    <3>. HIDE DEF E, M, y
    <3>4. IsFiniteSet(M \cup {y}) /\ Cardinality(M \cup {y}) = Cardinality(M) + 1
      BY <3>3, FS_AddElement
    <3>. QED  BY <3>2, <3>3, <3>4
  <2>2. CASE e = 0
    <3>1. r.n = m.n /\ MatchesAt(x, E) = MatchesAt(x, D)
      BY <1>1, <1>5, <1>6, <2>2
    <3>. QED  BY <1>3, <3>1
  <2>. QED  BY <2>1, <2>2
<1>10. /\ r \in Matchings /\ r.x = x /\ r.next = 1 /\ r.seen = <<>> /\ r.n <= m.n + 1
       /\ r.at = IF s < end THEN h ELSE 0
  <2>1. r.n \in Nat /\ r.n <= m.n + 1
    BY <1>1, <1>6
  <2>2. r.at \in Nat
    BY <1>6, <1>13
  <2>3. r.x = x /\ r.next = m.next /\ r.seen = m.seen /\ m.next = 1 /\ m.seen = <<>>
    <3>1. r.x = m.x /\ r.next = m.next /\ r.seen = m.seen
      BY <1>1, <1>6 DEF Matchings
    <3>. QED  BY <1>1, <1>13, <3>1 DEF Running
  <2>. QED  BY <1>1, <1>6, <1>8, <2>1, <2>2, <2>3 DEF Matchings
<1>11. Replacing(r, E, h)
  BY <1>5, <1>8, <1>9, <1>10 DEF Replacing
<1>12. CASE s < end
  <2>1. h \in s + 1 .. end /\ r.at = h
    BY <1>4, <1>10, <1>12, <1>13
  <2>2. m.n < s /\ s \in Nat /\ r.n \in Nat
    BY <1>1, <1>10, <1>13 DEF Running, Matchings
  <2>3. E \in SUBSET (1 .. h - 1)
    <3>1. \A q \in E : q \in Nat /\ 1 <= q /\ q < h
      BY <1>4, <1>13, <2>1
    <3>. HIDE DEF E
    <3>. QED  BY <1>13, <3>1
  <2>. HIDE DEF E
  <2>4. r.at # 0 /\ r.n < r.at
    BY <1>1, <1>10, <2>1, <2>2
  <2>5. Running(r)
    BY <1>10, <1>11, <2>1, <2>3, <2>4 DEF Running
  <2>. QED  BY <1>10, <2>5 DEF GsubInv, r
<1>14. CASE ~(s < end)
  <2>1. s = end /\ h = end /\ r.at = 0 /\ end \in E
    BY <1>4, <1>10, <1>13, <1>14
  <2>2. E \in SUBSET (1 .. end) /\ 1 \in E
    BY <1>5, <2>1 DEF Tried
  <2>3. /\ DOMAIN r.seen = {} /\ Len(r.seen) = 0
    BY <1>10
  <2>4. Listed(r.seen) = {} /\ Rising(r.seen)
    BY <2>3 DEF Listed, Rising
  <2>5. {p \in MatchesAt(x, E) : r.next # 0 => p[1] < r.next} = {}
    <3>1. \A p \in MatchesAt(x, E) : p[1] \in Nat /\ p[1] >= 1
      BY <1>4, <1>13 DEF MatchesAt
    <3>. HIDE DEF E
    <3>. QED  BY <1>10, <3>1
  <2>. HIDE DEF E
  <2>6. Matching(r)
    <3>1. end = SrcEnd(r.x)
      BY <1>10 DEF end, x
    <3>2. IsFiniteSet({}) /\ Cardinality({}) = 0
      BY FS_EmptySet
    <3>3. Replacing(r, E, SrcEnd(r.x)) /\ SrcEnd(r.x) \in E /\ E \in SUBSET (1 .. SrcEnd(r.x))
      BY <1>11, <2>1, <2>2, <3>1
    <3>4. r.next \in E \cup {0, SrcEnd(r.x) + 1}
      BY <1>10, <2>2
    <3>5. Listed(r.seen) = {p \in MatchesAt(r.x, E) : r.next # 0 => p[1] < r.next}
      BY <1>10, <2>4, <2>5
    <3>. QED  BY <2>1, <2>3, <2>4, <3>2, <3>3, <3>4, <3>5 DEF Matching
  <2>. QED  BY <1>10, <2>6 DEF GsubInv, r
<1>. QED  BY <1>12, <1>14

(* A set of numbers has a first one. *)
LEMMA FirstIs ==
  ASSUME NEW S \in SUBSET Nat, S # {}
  PROVE  Min(S) \in S /\ \A n \in S : Min(S) <= n
<1>. DEFINE R == {p \in Nat \X Nat : p[1] < p[2]}
<1>1. IsWellFoundedOn(R, Nat)
  <2>1. R = OpToRel(<, Nat)
    BY DEF OpToRel
  <2>. QED  BY <2>1, NatLessThanWellFounded
<1>2. PICK y \in S : \A n \in S : <<n, y>> \notin R
  <2>. HIDE DEF R
  <2>. QED  BY <1>1, WFMin
<1>3. \A n \in S : y <= n
  <2>1. \A n \in S : n \in Nat /\ y \in Nat /\ ~(n < y)
    BY <1>2
  <2>. QED  BY <2>1
<1>. QED  BY <1>3 DEF Min

(* Where nothing matches gsub goes place by place, as gmatch does. *)
LEMMA PlaceByPlace ==
  ASSUME NEW x \in Subjects, NEW D, Tried(x, D, SrcEnd(x)), SrcEnd(x) \in D, NEW p \in D,
         NEW s \in p .. SrcEnd(x), \A q \in p .. s - 1 : MatchEnd(x, q) = 0
  PROVE  s \in D
<1>. DEFINE B == {q \in p .. s : q \notin D}
<1>1. SUFFICES ASSUME B # {} PROVE FALSE
  <2>1. s \in p .. s
    BY MatchesEnd DEF Tried
  <2>. QED  BY <2>1
<1>2. p \in Nat /\ p >= 1 /\ s \in Nat /\ s <= SrcEnd(x) /\ SrcEnd(x) \in Nat
  BY MatchesEnd DEF Tried
<1>3. B \in SUBSET Nat
  BY <1>2
<1>4. Min(B) \in B /\ \A n \in B : Min(B) <= n
  <2>. HIDE DEF B
  <2>. QED  BY <1>1, <1>3, FirstIs
<1>. DEFINE b == Min(B)
            a == b - 1
<1>5. b \in p .. s /\ b \notin D /\ b # p
  BY <1>4
<1>6. a \in p .. s - 1 /\ a \in p .. s /\ a < b /\ a + 1 = b /\ a < SrcEnd(x)
  <2>. HIDE DEF b
  <2>. QED  BY <1>2, <1>5
<1>7. a \in D
  <2>1. a \notin B
    <3>. HIDE DEF B
    <3>. QED  BY <1>2, <1>4, <1>5, <1>6
  <2>. QED  BY <1>6, <2>1
<1>8. NextPlace(x, a) = b
  <2>1. MatchEnd(x, a) = 0 /\ ~(0 > a)
    BY <1>2, <1>6
  <2>. QED  BY <1>6, <2>1 DEF NextPlace
<1>. QED  BY <1>5, <1>6, <1>7, <1>8 DEF Tried

(* A step of gmatch (lstrlib.cpp:559). *)
LEMMA GmatchKeeps ==
  ASSUME GsubInv, Gmatch
  PROVE  GsubInv'
<1>. DEFINE m == matching
            x == m.x
            p == m.next
            end == SrcEnd(x)
            S == {s \in p .. end : MatchEnd(x, s) # 0}
            s == Min(S)
            e == MatchEnd(x, s)
            r == matching'
<1>1. m \in Matchings /\ Matching(m) /\ x \in Subjects /\ p \in Nat /\ p # 0 /\ m.at = 0
  BY DEF GsubInv, Running, Gmatch, Matchings
<1>2. PICK D \in SUBSET (1 .. end) :
        /\ Replacing(m, D, end) /\ end \in D /\ p \in D \cup {0, end + 1}
        /\ Listed(m.seen) = {q \in MatchesAt(x, D) : p # 0 => q[1] < p}
  BY <1>1 DEF Matching
<1>3. end \in Nat \ {0} /\ Tried(x, D, end)
  BY <1>1, <1>2, MatchesEnd DEF Replacing
<1>4. r = IF S = {} THEN [m EXCEPT !.next = 0]
          ELSE [m EXCEPT !.seen = Append(@, <<s, e>>), !.next = IF e = s THEN e + 1 ELSE e]
  BY DEF Gmatch, MatchEnd
<1>5. \A q \in D : q \in Nat /\ 1 <= q /\ q <= end
  BY <1>3
<1>6. Replacing(r, D, end) /\ r.at = 0 /\ r.x = x
  <2>1. r.x = x /\ r.pieces = m.pieces /\ r.n = m.n /\ r.at = m.at
    <3>. HIDE DEF S, s, e
    <3>. QED  BY <1>1, <1>4 DEF Matchings
  <2>. QED  BY <1>1, <1>2, <2>1 DEF Replacing
<1>7. CASE S = {}
  <2>1. r = [m EXCEPT !.next = 0]
    BY <1>4, <1>7
  <2>. HIDE DEF r, S, s, e
  <2>2. r \in Matchings /\ r.next = 0 /\ r.seen = m.seen
    BY <1>1, <2>1 DEF Matchings
  <2>3. \A q \in D : MatchEnd(x, q) # 0 => q < p
    <3>1. ASSUME NEW q \in D, MatchEnd(x, q) # 0, ~(q < p) PROVE FALSE
      <4>1. q \in p .. end
        BY <1>1, <1>3, <1>5, <3>1
      <4>2. q \in S
        BY <3>1, <4>1 DEF S
      <4>. QED  BY <1>7, <4>2
    <3>. QED  BY <3>1
  <2>4. \A q \in MatchesAt(x, D) : q[1] < p
    BY <2>3 DEF MatchesAt
  <2>5. Listed(r.seen) = {q \in MatchesAt(x, D) : r.next # 0 => q[1] < r.next}
    BY <1>2, <2>2, <2>4
  <2>6. Matching(r)
    BY <1>1, <1>2, <1>6, <2>2, <2>5 DEF Matching
  <2>. QED  BY <2>2, <2>6 DEF GsubInv, r
<1>8. CASE S # {}
  <2>1. s \in S /\ \A q \in S : s <= q
    <3>1. S \in SUBSET Nat
      BY <1>1, <1>3
    <3>. HIDE DEF S
    <3>. QED  BY <1>8, <3>1, FirstIs
  <2>2. s \in p .. end /\ e # 0
    BY <2>1
  <2>3. \A q \in p .. s - 1 : MatchEnd(x, q) = 0
    <3>1. ASSUME NEW q \in p .. s - 1, MatchEnd(x, q) # 0 PROVE FALSE
      <4>1. q \in p .. end /\ ~(s <= q)
        <5>. HIDE DEF s, end
        <5>. QED  BY <1>1, <1>3, <2>2, <3>1
      <4>2. q \in S
        BY <3>1, <4>1
      <4>. QED  BY <2>1, <4>1, <4>2
    <3>. QED  BY <3>1
  <2>4. r = [m EXCEPT !.seen = Append(@, <<s, e>>), !.next = IF e = s THEN e + 1 ELSE e]
    BY <1>4, <1>8
  <2>5. p \in D
    BY <1>1, <1>2, <1>3, <2>2
  <2>. HIDE DEF r, S, s
  <2>6. s \in D
    BY <1>1, <1>2, <1>3, <2>2, <2>3, <2>5, PlaceByPlace
  <2>7. /\ s \in Nat /\ s >= p /\ s <= end /\ e \in s .. end /\ e \in Nat
        /\ (IF e = s THEN e + 1 ELSE e) = NextPlace(x, s)
    <3>1. s \in Nat /\ s >= p /\ s <= end /\ s \in 1 .. end
      BY <1>1, <1>3, <1>5, <2>2
    <3>2. e \in s .. end /\ e \in Nat
      <4>1. e \in {0} \cup s .. end
        BY <1>1, <3>1, MatchesEnd
      <4>. HIDE DEF e
      <4>. QED  BY <2>2, <3>1, <4>1
    <3>3. (IF e = s THEN e + 1 ELSE e) = NextPlace(x, s)
      BY <3>1, <3>2 DEF NextPlace
    <3>. QED  BY <3>1, <3>2, <3>3
  <2>. DEFINE n == NextPlace(x, s)
  <2>8. n \in D \cup {end + 1} /\ n \in Nat /\ n > s
    <3>1. s < end => n \in D
      BY <1>2, <1>3, <2>6 DEF Tried
    <3>2. n \in s + 1 .. end + 1 /\ (s = end => n = s + 1)
      BY <1>1, <1>5, <2>6, <2>7, MatchesEnd
    <3>. HIDE DEF n
    <3>. QED  BY <1>3, <2>7, <3>1, <3>2
  <2>. HIDE DEF e
  <2>9. \A q \in D : q > s => n <= q
    BY <1>3, <2>6 DEF Tried
  <2>. DEFINE y == <<s, e>>
              L == Listed(m.seen)
              k == Len(m.seen)
  <2>10. /\ r \in Matchings /\ r.next = n /\ m.seen \in Seq(Nat \X Nat) /\ y \in Nat \X Nat
         /\ r.seen = Append(m.seen, y)
    <3>1. m.seen \in Seq(Nat \X Nat) /\ y \in Nat \X Nat
      BY <1>1, <2>7 DEF Matchings
    <3>2. Append(m.seen, y) \in Seq(Nat \X Nat)
      BY <3>1
    <3>3. r.next = n /\ r.seen = Append(m.seen, y) /\ r = [m EXCEPT !.seen = Append(m.seen, y), !.next = n]
      <4>. HIDE DEF n
      <4>. QED  BY <1>1, <2>4, <2>7 DEF Matchings, n
    <3>. HIDE DEF n, y
    <3>. QED  BY <1>1, <2>8, <3>1, <3>2, <3>3 DEF Matchings
  <2>11. /\ Len(r.seen) = k + 1 /\ k \in Nat /\ DOMAIN m.seen = 1 .. k /\ DOMAIN r.seen = 1 .. k + 1
         /\ r.seen[k + 1] = y /\ \A i \in 1 .. k : r.seen[i] = m.seen[i]
    <3>. HIDE DEF y
    <3>. QED  BY <2>10
  <2>12. Listed(r.seen) = L \cup {y} /\ 1 .. k + 1 = (1 .. k) \cup {k + 1}
    <3>. HIDE DEF y, k
    <3>1. 1 .. k + 1 = (1 .. k) \cup {k + 1}
      BY <2>11
    <3>. QED  BY <2>11, <3>1 DEF Listed
  <2>13. \A q \in L : q[1] < p /\ q[1] < s /\ q[1] < n
    <3>1. \A q \in L : q[1] < p /\ q[1] \in D
      BY <1>1, <1>2 DEF MatchesAt
    <3>2. \A q \in L : q[1] < p /\ q[1] \in Nat
      BY <1>5, <3>1
    <3>3. p \in Nat /\ s \in Nat /\ s >= p /\ n \in Nat /\ n > s
      BY <1>1, <2>7, <2>8
    <3>. HIDE DEF L, n, p
    <3>4. ASSUME NEW q \in L PROVE q[1] < p /\ q[1] < s /\ q[1] < n
      <4>. DEFINE f == q[1]
      <4>1. f < p /\ f \in Nat
        BY <3>2
      <4>. HIDE DEF f
      <4>2. f < p /\ f < s /\ f < n
        BY <3>3, <4>1
      <4>. QED  BY <4>2 DEF f
    <3>. QED  BY <3>4
  <2>14. Rising(r.seen)
    <3>1. \A i \in 1 .. k : m.seen[i] \in L
      BY <2>11 DEF Listed
    <3>2. Rising(m.seen)
      BY <1>1 DEF Matching
    <3>3. ASSUME NEW i \in 1 .. k + 1, NEW j \in 1 .. k + 1, i < j PROVE r.seen[i][1] < r.seen[j][1]
      <4>. HIDE DEF k, L, y
      <4>1. i \in 1 .. k
        BY <2>11, <3>3
      <4>2. CASE j \in 1 .. k
        BY <2>11, <3>2, <3>3, <4>1, <4>2 DEF Rising
      <4>3. CASE j = k + 1
        <5>1. r.seen[i] \in L /\ r.seen[j] = y /\ y[1] = s
          BY <2>11, <3>1, <4>1, <4>3 DEF y
        <5>. QED  BY <2>13, <5>1
      <4>. QED  BY <2>12, <4>2, <4>3
    <3>. QED  BY <2>11, <3>3 DEF Rising
  <2>15. IsFiniteSet(Listed(r.seen)) /\ Len(r.seen) = Cardinality(Listed(r.seen))
    <3>1. y \notin L
      <4>1. \A q \in L : q # y
        BY <2>7, <2>13
      <4>. QED  BY <4>1
    <3>2. IsFiniteSet(L) /\ k = Cardinality(L)
      BY <1>1 DEF Matching
    <3>. HIDE DEF L, y, k
    <3>. QED  BY <2>11, <2>12, <3>1, <3>2, FS_AddElement
  <2>16. Listed(r.seen) = {q \in MatchesAt(x, D) : q[1] < n}
    <3>. DEFINE M == MatchesAt(x, D)
    <3>1. y \in M /\ y[1] < n
      BY <2>2, <2>6, <2>8 DEF MatchesAt, e
    <3>2. L = {q \in M : q[1] < p}
      BY <1>1, <1>2
    <3>3. ASSUME NEW q \in M, q[1] < n, ~(q[1] < p) PROVE q = y
      <4>1. q[1] \in D /\ q = <<q[1], MatchEnd(x, q[1])>> /\ MatchEnd(x, q[1]) # 0
        BY DEF MatchesAt
      <4>2. q[1] \in Nat /\ q[1] <= s /\ q[1] >= p
        BY <1>1, <1>5, <2>7, <2>8, <2>9, <3>3, <4>1
      <4>3. q[1] = s
        <5>1. CASE q[1] \in p .. s - 1
          BY <2>3, <4>1, <5>1
        <5>2. CASE q[1] \notin p .. s - 1
          BY <1>1, <2>7, <4>2, <5>2
        <5>. QED  BY <5>1, <5>2
      <4>. QED  BY <4>1, <4>3 DEF e
    <3>. HIDE DEF M, L, y, n, p
    <3>4. \A q \in L : q \in M /\ q[1] < n
      BY <2>13, <3>2
    <3>5. \A q \in M : q[1] < n => q \in L \cup {y}
      BY <3>2, <3>3
    <3>6. L \cup {y} = {q \in M : q[1] < n}
      BY <3>1, <3>4, <3>5
    <3>. QED  BY <2>12, <3>6 DEF M
  <2>17. Matching(r)
    <3>1. Listed(r.seen) = {q \in MatchesAt(x, D) : r.next # 0 => q[1] < r.next}
      <4>. HIDE DEF n
      <4>. QED  BY <2>8, <2>10, <2>16
    <3>2. r.next \in D \cup {0, end + 1}
      BY <2>8, <2>10
    <3>. QED  BY <1>2, <1>6, <2>14, <2>15, <3>1, <3>2 DEF Matching
  <2>. QED  BY <2>10, <2>17 DEF GsubInv, r
<1>. QED  BY <1>7, <1>8

(* gsub starts at the first place. *)
LEMMA GsubStarts ==
  ASSUME GsubInit
  PROVE  GsubInv
<1>. DEFINE m == matching
<1>1. PICK x \in Subjects :
        m = [x |-> x, at |-> 1, n |-> 0, pieces |-> <<>>, next |-> 1, seen |-> <<>>]
  BY DEF GsubInit
<1>2. m \in Matchings /\ m.x = x /\ m.at = 1 /\ m.next = 1 /\ m.seen = <<>> /\ m.n = 0 /\ m.pieces = <<>>
  BY <1>1 DEF Matchings
<1>3. MatchesAt(x, {}) = {} /\ Replaced(<<>>) = {} /\ Firsts(<<>>) = {} /\ Joined(<<>>, 1)
  BY DEF MatchesAt, Replaced, Firsts, Joined
<1>4. Tried(x, {}, 1)
  BY MatchesEnd DEF Tried
<1>5. Replacing(m, {}, 1)
  BY <1>2, <1>3, <1>4, FS_EmptySet DEF Replacing
<1>6. Running(m)
  BY <1>2, <1>5 DEF Running
<1>. QED  BY <1>2, <1>6 DEF GsubInv

(* gsub and gmatch agree on what the matches are, whatever the matcher     *)
(* finds: the invariant of both loops.                                     *)
THEOREM GsubInvariant == GsubSpec => []GsubInv
<1>1. GsubInv /\ [GsubNext]_matching => GsubInv'
  <2>1. ASSUME GsubInv, UNCHANGED matching PROVE GsubInv'
    BY <2>1 DEF GsubInv
  <2>. QED  BY <2>1, GsubKeeps, GmatchKeeps DEF GsubNext
<1>. QED  BY <1>1, GsubStarts, PTL DEF GsubSpec

(* gsub copies or replaces every character once, and replaces and counts   *)
(* the matches gmatch returns; its default limit does not end it.          *)
THEOREM GsubAndGmatchAgree == GsubSpec => []SubstitutesEveryMatch
<1>. DEFINE m == matching
            end == SrcEnd(m.x)
<1>1. ASSUME GsubInv PROVE SubstitutesEveryMatch
  <2>1. CASE Running(m)
    <3>1. m.at # 0 /\ m.n < m.at /\ m.n \in Nat /\ m.at \in Nat
      BY <1>1, <2>1 DEF GsubInv, Running, Matchings
    <3>2. m.at \in 1 .. end /\ end \in Nat
      BY <1>1, <2>1, MatchesEnd DEF Running, Replacing, Tried, GsubInv, Matchings
    <3>3. m.n < end
      <4>. HIDE DEF end
      <4>. QED  BY <3>1, <3>2
    <3>. QED  BY <3>1, <3>3 DEF SubstitutesEveryMatch
  <2>2. CASE Matching(m)
    <3>1. m.at = 0 /\ Rising(m.seen) /\ Len(m.seen) = Cardinality(Listed(m.seen))
      BY <2>2 DEF Matching
    <3>2. PICK D \in SUBSET (1 .. end) :
            /\ Replacing(m, D, end)
            /\ Listed(m.seen) = {r \in MatchesAt(m.x, D) : m.next # 0 => r[1] < m.next}
      BY <2>2 DEF Matching
    <3>3. Joined(m.pieces, end) /\ Replaced(m.pieces) = MatchesAt(m.x, D)
          /\ m.n = Cardinality(MatchesAt(m.x, D))
      BY <3>2 DEF Replacing
    <3>4. m.next = 0 => Listed(m.seen) = Replaced(m.pieces) /\ Len(m.seen) = m.n
      BY <3>1, <3>2, <3>3
    <3>. QED  BY <3>1, <3>3, <3>4 DEF SubstitutesEveryMatch, Joined, Rising, Listed, Replaced
  <2>. QED  BY <1>1, <2>1, <2>2 DEF GsubInv
<1>. QED  BY <1>1, GsubInvariant, PTL
=============================================================================
