-------------------------- MODULE LuaPatternProofs --------------------------
(***************************************************************************)
(* What is proved of match (LuaPattern), for any pattern and any string:   *)
(* it finds the preferred way, with its captures, if there is a way, and   *)
(* fails with every capture undone if there is none.                       *)
(*                                                                         *)
(* The invariant: there is a path through the items matched so far, each   *)
(* function that waits for match does so at an item of it, and every way   *)
(* to match the pattern goes on from it or comes after it.                 *)
(***************************************************************************)
EXTENDS LuaPattern, FiniteSetTheorems, SequenceTheorems, WellFoundedInduction, NaturalsInduction,
        TLAPS

(* A set of numbers has a first one. *)
LEMMA FirstIs ==
  ASSUME NEW S \in SUBSET Nat, S # {}
  PROVE  Min(S) \in S /\ \A n \in S : Min(S) <= n
<1>. DEFINE R == {p \in Nat \X Nat : p[1] < p[2]}
<1>1. IsWellFoundedOn(R, Nat)
  <2>1. R = OpToRel(<, Nat)
    BY DEF OpToRel
  <2>. QED  BY <2>1, NatLessThanWellFounded
<1>2. PICK y \in S : \A n \in S : <<n, y>> \notin R
  <2>. HIDE DEF R
  <2>. QED  BY <1>1, WFMin
<1>3. \A n \in S : y <= n
  <2>1. \A n \in S : n \in Nat /\ y \in Nat /\ ~(n < y)
    BY <1>2
  <2>. QED  BY <2>1
<1>. QED  BY <1>3 DEF Min

-----------------------------------------------------------------------------
(* match.                                                                  *)
MatchSpec == MatchInit /\ [][MatchNext]_matcher

(* Induction from a to b. *)
LEMMA Upward ==
  ASSUME NEW a \in Nat, NEW b \in Nat, NEW S, a \in S, \A i \in a .. b - 1 : i \in S => i + 1 \in S
  PROVE  a .. b \subseteq S
<1>. DEFINE T == {i \in a .. b : i \notin S}
            m == Min(T)
<1>1. SUFFICES ASSUME T # {} PROVE FALSE
  OBVIOUS
<1>2. m \in T /\ \A i \in T : m <= i
  <2>1. T \in SUBSET Nat
    OBVIOUS
  <2>. HIDE DEF T
  <2>. QED  BY <1>1, <2>1, FirstIs
<1>. HIDE DEF m
<1>3. m # a /\ m - 1 \in a .. b - 1 /\ m - 1 + 1 = m
  BY <1>2
<1>4. m - 1 \notin S
  BY <1>2, <1>3
<1>5. m - 1 \in T
  BY <1>3, <1>4
<1>. QED  BY <1>2, <1>3, <1>5

(* A set of numbers below a bound has a last one. *)
LEMMA LastIs ==
  ASSUME NEW b \in Nat, NEW S \in SUBSET (0 .. b), S # {}
  PROVE  Max(S) \in S /\ \A n \in S : n <= Max(S)
<1>. DEFINE T == {b - n : n \in S}
            y == b - Min(T)
<1>1. Min(T) \in T /\ \A n \in T : Min(T) <= n
  <2>1. T \in SUBSET Nat /\ T # {}
    <3>1. \A n \in S : b - n \in Nat
      OBVIOUS
    <3>. QED  BY <3>1
  <2>. HIDE DEF T
  <2>. QED  BY <2>1, FirstIs
<1>2. PICK n \in S : Min(T) = b - n
  BY <1>1
<1>3. y = n
  <2>. DEFINE z == Min(T)
  <2>1. z = b - n /\ n \in Nat
    BY <1>2
  <2>. HIDE DEF z, T
  <2>2. b - z = n
    BY <2>1
  <2>. QED  BY <2>2 DEF z
<1>4. y \in S /\ \A k \in S : k <= y
  <2>1. \A k \in S : b - n <= b - k
    BY <1>1, <1>2
  <2>. QED  BY <1>3, <2>1
<1>. QED  BY <1>4 DEF Max

(* What a subject is. *)
LEMMA SubjectIs ==
  ASSUME NEW x \in Subjects
  PROVE  /\ Len(x.src) \in Nat /\ SrcEnd(x) = Len(x.src) + 1 /\ DOMAIN x.src = 1 .. Len(x.src)
         /\ IsPattern(x.pat) /\ Len(x.pat) \in Nat /\ DOMAIN x.pat = 1 .. Len(x.pat)
BY PatternAssumption DEF SrcEnd, IsPattern

(* The ways to match one more item. *)
WaysStep(x, s, ways, k) == IF k = 1 THEN {<<s>>} ELSE Longer(x, k - 1, ways[k - 1])

(* The recursion of WaysTo, unfolded. *)
LEMMA WaysUnfold ==
  ASSUME NEW x \in Subjects, NEW s
  PROVE  /\ WaysTo(x, s)[1] = {<<s>>}
         /\ \A k \in 1 .. Len(x.pat) : WaysTo(x, s)[k + 1] = Longer(x, k, WaysTo(x, s)[k])
<1>. DEFINE N == Len(x.pat) + 1
            P == {n \in Nat : \E g : g = [k \in 1 .. n |-> WaysStep(x, s, g, k)]}
<1>1. N \in Nat /\ 1 <= N
  BY SubjectIs
<1>2. 1 \in P
  <2>. DEFINE g == [k \in 1 .. 1 |-> {<<s>>}]
  <2>1. g = [k \in 1 .. 1 |-> WaysStep(x, s, g, k)]
    BY DEF WaysStep
  <2>. QED  BY <2>1
<1>3. ASSUME NEW n \in 1 .. N - 1, n \in P PROVE n + 1 \in P
  <2>1. PICK g : g = [k \in 1 .. n |-> WaysStep(x, s, g, k)]
    BY <1>3
  <2>. DEFINE h == [k \in 1 .. n + 1 |-> IF k = n + 1 THEN WaysStep(x, s, g, k) ELSE g[k]]
  <2>2. ASSUME NEW k \in 1 .. n + 1 PROVE h[k] = WaysStep(x, s, h, k)
    <3>1. h[k] = WaysStep(x, s, g, k)
      BY <2>1
    <3>2. k # 1 => h[k - 1] = g[k - 1]
      OBVIOUS
    <3>. HIDE DEF h
    <3>. QED  BY <3>1, <3>2 DEF WaysStep
  <2>3. h = [k \in 1 .. n + 1 |-> WaysStep(x, s, h, k)]
    <3>1. h = [k \in 1 .. n + 1 |-> h[k]]
      OBVIOUS
    <3>. HIDE DEF h
    <3>. QED  BY <2>2, <3>1
  <2>4. n + 1 \in Nat
    BY <1>1
  <2>5. \E f : f = [k \in 1 .. n + 1 |-> WaysStep(x, s, f, k)]
    BY <2>3
  <2>. QED  BY <2>4, <2>5
<1>4. N \in P
  <2>. HIDE DEF P, N
  <2>. QED  BY <1>1, <1>2, <1>3, Upward
<1>5. WaysTo(x, s) = [k \in 1 .. N |-> WaysStep(x, s, WaysTo(x, s), k)]
  <2>1. PICK g : g = [k \in 1 .. N |-> WaysStep(x, s, g, k)]
    BY <1>4
  <2>. QED  BY <2>1 DEF WaysTo, WaysStep
<1>6. \A k \in 1 .. N : WaysTo(x, s)[k] = WaysStep(x, s, WaysTo(x, s), k)
  BY <1>5
<1>7. WaysTo(x, s)[1] = {<<s>>}
  BY <1>1, <1>6 DEF WaysStep
<1>8. ASSUME NEW k \in 1 .. Len(x.pat) PROVE WaysTo(x, s)[k + 1] = Longer(x, k, WaysTo(x, s)[k])
  <2>1. k + 1 \in 1 .. N /\ k + 1 # 1 /\ k + 1 - 1 = k
    BY <1>1
  <2>. HIDE DEF N
  <2>. QED  BY <1>6, <2>1 DEF WaysStep
<1>. QED  BY <1>7, <1>8

(* The items up to k begin at the places of e. *)
Path(x, s, k, e) ==
  /\ e \in Seq(Nat) /\ Len(e) = k /\ e[1] = s
  /\ \A i \in 1 .. k - 1 : e[i + 1] \in Reach(x, e, i)

Places(e, w, k) == \A i \in 1 .. k : e[i] = w[i]

(* Where an item may end depends on the places up to it only. *)
LEMMA ReachSame ==
  ASSUME NEW x \in Subjects, NEW k \in 1 .. Len(x.pat), NEW e, NEW w, Places(e, w, k)
  PROVE  Reach(x, e, k) = Reach(x, w, k)
<1>1. e[k] = w[k] /\ k \in 1 .. k /\ \A g \in 1 .. k - 1 : e[g] = w[g]
  BY SubjectIs DEF Places
<1>. QED  BY <1>1 DEF Reach

(* An item ends in the string, and not before it begins. *)
LEMMA ReachIn ==
  ASSUME NEW x \in Subjects, NEW k \in 1 .. Len(x.pat), NEW e, e[k] \in 1 .. SrcEnd(x)
  PROVE  Reach(x, e, k) \subseteq e[k] .. SrcEnd(x)
<1>1. SrcEnd(x) \in Nat /\ e[k] \in e[k] .. SrcEnd(x)
  BY SubjectIs
<1>. QED  BY <1>1 DEF Reach

(* The places of a path only go forward. *)
LEMMA PathForward ==
  ASSUME NEW x \in Subjects, NEW s \in 1 .. SrcEnd(x), NEW k \in 1 .. Len(x.pat) + 1, NEW e,
         Path(x, s, k, e)
  PROVE  /\ \A i \in 1 .. k : e[i] \in s .. SrcEnd(x)
         /\ \A i, j \in 1 .. k : i <= j => e[i] <= e[j]
<1>. DEFINE In(i) == e[i] \in s .. SrcEnd(x)
            S == {i \in 1 .. k : In(i)}
<1>1. SrcEnd(x) \in Nat /\ Len(x.pat) \in Nat /\ s \in Nat /\ k \in Nat
  BY SubjectIs
<1>2. ASSUME NEW i \in 1 .. k - 1, In(i) PROVE e[i + 1] \in e[i] .. SrcEnd(x) /\ In(i + 1)
  <2>1. e[i] \in 1 .. SrcEnd(x) /\ i \in 1 .. Len(x.pat)
    BY <1>1, <1>2
  <2>2. e[i + 1] \in e[i] .. SrcEnd(x)
    BY <2>1, ReachIn DEF Path
  <2>. QED  BY <1>1, <1>2, <2>2
<1>3. 1 .. k \subseteq S
  <2>1. 1 \in S
    BY <1>1 DEF Path
  <2>2. \A i \in 1 .. k - 1 : i \in S => i + 1 \in S
    BY <1>1, <1>2
  <2>. HIDE DEF S
  <2>. QED  BY <1>1, <2>1, <2>2, Upward
<1>4. \A i \in 1 .. k : In(i)
  BY <1>3
<1>5. ASSUME NEW i \in 1 .. k, NEW j \in 1 .. k, i <= j PROVE e[i] <= e[j]
  <2>. DEFINE T == {h \in i .. k : e[i] <= e[h]}
  <2>1. i \in T
    BY <1>1, <1>4
  <2>2. ASSUME NEW h \in i .. k - 1, h \in T PROVE h + 1 \in T
    <3>1. h \in 1 .. k - 1 /\ In(h) /\ In(h + 1) /\ In(i)
      BY <1>4
    <3>2. e[h + 1] \in e[h] .. SrcEnd(x)
      BY <1>2, <3>1
    <3>. QED  BY <1>1, <2>2, <3>1, <3>2
  <2>3. i .. k \subseteq T
    <3>1. i \in Nat /\ \A h \in i .. k - 1 : h \in T => h + 1 \in T
      BY <2>2
    <3>. HIDE DEF T
    <3>. QED  BY <1>1, <2>1, <3>1, Upward
  <2>. QED  BY <1>5, <2>3
<1>. QED  BY <1>4, <1>5

(* A path goes on with one more item. *)
LEMMA PathLonger ==
  ASSUME NEW x \in Subjects, NEW s \in 1 .. SrcEnd(x), NEW k \in 1 .. Len(x.pat), NEW e,
         Path(x, s, k, e), NEW t \in Reach(x, e, k), NEW w, w = Append(e, t)
  PROVE  Path(x, s, k + 1, w) /\ w[k + 1] = t /\ Places(w, e, k)
<1>1. t \in Nat /\ k \in Nat
  <2>1. e[k] \in s .. SrcEnd(x) /\ k \in Nat /\ SrcEnd(x) \in Nat
    BY PathForward, SubjectIs
  <2>2. e[k] \in 1 .. SrcEnd(x)
    BY <2>1
  <2>3. t \in e[k] .. SrcEnd(x)
    BY <2>2, ReachIn
  <2>. QED  BY <2>1, <2>3
<1>2. e \in Seq(Nat) /\ Len(e) = k
  BY DEF Path
<1>3. w \in Seq(Nat) /\ Len(w) = k + 1 /\ w[k + 1] = t /\ \A i \in 1 .. k : w[i] = e[i]
  BY <1>1, <1>2
<1>4. w[1] = s
  BY <1>1, <1>3 DEF Path
<1>5. ASSUME NEW i \in 1 .. k PROVE w[i + 1] \in Reach(x, w, i)
  <2>1. Places(w, e, i) /\ i \in 1 .. Len(x.pat)
    BY <1>1, <1>3, SubjectIs DEF Places
  <2>2. Reach(x, w, i) = Reach(x, e, i)
    BY <2>1, ReachSame
  <2>3. CASE i = k
    BY <1>3, <2>2, <2>3
  <2>4. CASE i # k
    <3>1. i \in 1 .. k - 1 /\ i + 1 \in 1 .. k
      BY <1>1, <2>4
    <3>. QED  BY <1>3, <2>2, <3>1 DEF Path
  <2>. QED  BY <2>3, <2>4
<1>6. k + 1 - 1 = k
  BY <1>1
<1>7. Places(w, e, k)
  BY <1>3 DEF Places
<1>8. Path(x, s, k + 1, w)
  BY <1>3, <1>4, <1>5, <1>6 DEF Path
<1>. QED  BY <1>3, <1>7, <1>8

(* The first items of a path are a path. *)
LEMMA PathShorter ==
  ASSUME NEW x \in Subjects, NEW s, NEW k \in 1 .. Len(x.pat) + 1, NEW e,
         Path(x, s, k, e), NEW j \in 1 .. k
  PROVE  Path(x, s, j, SubSeq(e, 1, j)) /\ Places(SubSeq(e, 1, j), e, j)
<1>1. Len(x.pat) \in Nat /\ k \in Nat /\ j \in Nat /\ 1 <= j /\ j <= k /\ e \in Seq(Nat) /\ Len(e) = k
  BY SubjectIs DEF Path
<1>. DEFINE w == SubSeq(e, 1, j)
<1>2. w \in Seq(Nat) /\ Len(w) = j /\ \A i \in 1 .. j : w[i] = e[i]
  BY <1>1
<1>. HIDE DEF w
<1>3. w[1] = s
  BY <1>1, <1>2 DEF Path
<1>4. ASSUME NEW i \in 1 .. j - 1 PROVE w[i + 1] \in Reach(x, w, i)
  <2>1. Places(w, e, i) /\ i \in 1 .. Len(x.pat) /\ i \in 1 .. k - 1
    BY <1>1, <1>2 DEF Places
  <2>2. Reach(x, w, i) = Reach(x, e, i)
    BY <2>1, ReachSame
  <2>3. i + 1 \in 1 .. j
    BY <1>1
  <2>4. w[i + 1] = e[i + 1]
    BY <1>2, <2>3
  <2>. QED  BY <2>1, <2>2, <2>4 DEF Path
<1>5. Places(w, e, j)
  BY <1>2 DEF Places
<1>6. Path(x, s, j, w)
  BY <1>2, <1>3, <1>4 DEF Path
<1>. QED  BY <1>5, <1>6 DEF w

(* Ways are paths. *)
LEMMA WaysArePaths ==
  ASSUME NEW x \in Subjects, NEW s \in 1 .. SrcEnd(x)
  PROVE  \A e : e \in Ways(x, s) <=> Path(x, s, Len(x.pat) + 1, e)
<1>. DEFINE N == Len(x.pat) + 1
            S == {k \in Nat : \A e : e \in WaysTo(x, s)[k] <=> Path(x, s, k, e)}
<1>1. N \in Nat /\ 1 <= N /\ N - 1 = Len(x.pat) /\ s \in Nat
  BY SubjectIs
<1>2. 1 \in S
  <2>1. ASSUME NEW e PROVE e = <<s>> <=> Path(x, s, 1, e)
    <3>1. e = <<s>> => Path(x, s, 1, e)
      BY <1>1 DEF Path
    <3>2. Path(x, s, 1, e) => e = <<s>>
      BY <1>1 DEF Path
    <3>. QED  BY <3>1, <3>2
  <2>. QED  BY <2>1, WaysUnfold
<1>3. ASSUME NEW k \in 1 .. N - 1, k \in S PROVE k + 1 \in S
  <2>1. k \in Nat /\ k \in 1 .. Len(x.pat) /\ k + 1 \in 1 .. Len(x.pat) + 1
    BY <1>1
  <2>2. WaysTo(x, s)[k + 1] = Longer(x, k, WaysTo(x, s)[k])
    BY <2>1, WaysUnfold
  <2>3. ASSUME NEW e, e \in WaysTo(x, s)[k + 1] PROVE Path(x, s, k + 1, e)
    <3>1. PICK w \in WaysTo(x, s)[k] : \E t \in Reach(x, w, k) : e = Append(w, t)
      BY <2>2, <2>3 DEF Longer
    <3>2. Path(x, s, k, w)
      BY <1>3, <3>1
    <3>. QED  BY <2>1, <3>1, <3>2, PathLonger
  <2>4. ASSUME NEW e, Path(x, s, k + 1, e) PROVE e \in WaysTo(x, s)[k + 1]
    <3>. DEFINE w == SubSeq(e, 1, k)
    <3>1. Path(x, s, k, w) /\ Places(w, e, k)
      BY <2>1, <2>4, PathShorter
    <3>2. w \in WaysTo(x, s)[k]
      BY <1>3, <3>1
    <3>3. e[k + 1] \in Reach(x, w, k)
      <4>1. e[k + 1] \in Reach(x, e, k)
        BY <2>1, <2>4 DEF Path
      <4>2. Reach(x, w, k) = Reach(x, e, k)
        BY <2>1, <3>1, ReachSame
      <4>. QED  BY <4>1, <4>2
    <3>4. e = Append(w, e[k + 1])
      BY <2>1, <2>4 DEF Path
    <3>. HIDE DEF w
    <3>5. e \in {Append(w, t) : t \in Reach(x, w, k)}
      BY <3>3, <3>4
    <3>. QED  BY <2>2, <3>2, <3>5 DEF Longer
  <2>. QED  BY <2>1, <2>3, <2>4
<1>4. N \in S
  <2>. HIDE DEF S, N
  <2>1. 1 .. N \subseteq S
    BY <1>1, <1>2, <1>3, Upward
  <2>. QED  BY <1>1, <2>1
<1>. QED  BY <1>4 DEF Ways

(* How many captures start before an item. *)
LEMMA LevelNext ==
  ASSUME NEW pat, NEW k \in Nat \ {0}
  PROVE  /\ Level(pat, 1) = 0 /\ Level(pat, k) \in Nat
         /\ Level(pat, k + 1) = Level(pat, k) + IF Starts(pat, k) THEN 1 ELSE 0
<1>. DEFINE S(n) == {g \in 1 .. n - 1 : Starts(pat, g)}
<1>1. IsFiniteSet(S(k))
  <2>1. IsFiniteSet(1 .. k - 1) /\ S(k) \subseteq 1 .. k - 1
    BY FS_Interval
  <2>. HIDE DEF S
  <2>. QED  BY <2>1, FS_Subset
<1>2. S(1) = {}
  OBVIOUS
<1>3. S(k + 1) = S(k) \cup (IF Starts(pat, k) THEN {k} ELSE {}) /\ k \notin S(k)
  OBVIOUS
<1>4. \A n : Level(pat, n) = Cardinality(S(n))
  BY DEF Level
<1>. HIDE DEF S
<1>5. Level(pat, 1) = 0 /\ Level(pat, k) \in Nat
  BY <1>1, <1>2, <1>4, FS_EmptySet, FS_CardinalityType
<1>6. CASE Starts(pat, k)
  <2>1. Cardinality(S(k) \cup {k}) = Cardinality(S(k)) + 1
    BY <1>1, <1>3, FS_AddElement
  <2>. QED  BY <1>3, <1>4, <1>5, <1>6, <2>1
<1>7. CASE ~Starts(pat, k)
  BY <1>3, <1>4, <1>5, <1>7
<1>. QED  BY <1>5, <1>6, <1>7

(* An item that starts a capture makes one more; any other does not. *)
LEMMA LevelGrows ==
  ASSUME NEW pat, NEW j \in Nat \ {0}, NEW k \in Nat, j <= k
  PROVE  Level(pat, j) <= Level(pat, k) /\ Level(pat, j) \in Nat /\ Level(pat, k) \in Nat
<1>. DEFINE S == {i \in j .. k : Level(pat, j) <= Level(pat, i)}
<1>1. \A i \in j .. k : i \in Nat \ {0} /\ Level(pat, i) \in Nat /\ Level(pat, i) <= Level(pat, i + 1)
  <2>1. ASSUME NEW i \in j .. k PROVE i \in Nat \ {0} /\ Level(pat, i) \in Nat /\ Level(pat, i) <= Level(pat, i + 1)
    <3>1. i \in Nat \ {0}
      OBVIOUS
    <3>. QED  BY <3>1, LevelNext
  <2>. QED  BY <2>1
<1>2. j \in S
  BY <1>1
<1>3. \A i \in j .. k - 1 : i \in S => i + 1 \in S
  <2>1. ASSUME NEW i \in j .. k - 1, i \in S PROVE i + 1 \in S
    <3>1. i \in j .. k /\ i + 1 \in j .. k /\ j \in j .. k
      OBVIOUS
    <3>. QED  BY <1>1, <2>1, <3>1
  <2>. QED  BY <2>1
<1>4. j .. k \subseteq S
  <2>. HIDE DEF S
  <2>. QED  BY <1>2, <1>3, Upward
<1>5. k \in S /\ k \in j .. k /\ j \in j .. k
  BY <1>4
<1>. QED  BY <1>1, <1>5

(* Captures have different levels. *)
LEMMA LevelsDiffer ==
  ASSUME NEW pat, NEW g \in Nat \ {0}, NEW k \in Nat \ {0}, Starts(pat, g), g < k
  PROVE  Level(pat, g) \in Nat /\ Level(pat, k) \in Nat /\ Level(pat, g) + 1 <= Level(pat, k)
<1>1. Level(pat, g + 1) = Level(pat, g) + 1 /\ Level(pat, g) \in Nat
  BY LevelNext
<1>2. Level(pat, g + 1) <= Level(pat, k) /\ Level(pat, k) \in Nat
  BY LevelGrows
<1>. QED  BY <1>1, <1>2

(* Each level is that of a capture. *)
LEMMA LevelOf ==
  ASSUME NEW pat, NEW k \in Nat \ {0}, NEW l \in 1 .. Level(pat, k)
  PROVE  \E g \in 1 .. k - 1 : Starts(pat, g) /\ Level(pat, g) + 1 = l
<1>. DEFINE S == {i \in 1 .. k : l <= Level(pat, i)}
            j == Min(S)
<1>1. Level(pat, k) \in Nat /\ Level(pat, 1) = 0
  BY LevelNext
<1>2. j \in S /\ \A i \in S : j <= i
  <2>1. k \in S /\ S \in SUBSET Nat
    BY <1>1
  <2>. HIDE DEF S
  <2>. QED  BY <2>1, FirstIs
<1>. HIDE DEF j
<1>. DEFINE g == j - 1
<1>3. j # 1 /\ g \in 1 .. k - 1 /\ g \in Nat \ {0} /\ g + 1 = j /\ j \in Nat \ {0} /\ g < j /\ g \in 1 .. k
  BY <1>1, <1>2
<1>4. Level(pat, g) \in Nat /\ Level(pat, j) = Level(pat, g) + IF Starts(pat, g) THEN 1 ELSE 0
  <2>. HIDE DEF g
  <2>. QED  BY <1>3, LevelNext
<1>5. ~(l <= Level(pat, g)) /\ l <= Level(pat, j)
  BY <1>2, <1>3
<1>6. Starts(pat, g) /\ Level(pat, g) + 1 = l
  <2>. HIDE DEF g
  <2>. QED  BY <1>1, <1>4, <1>5
<1>. QED  BY <1>3, <1>6

(* A capture is closed once. *)
LEMMA OneCloser ==
  ASSUME NEW pat, IsPattern(pat), NEW h \in DOMAIN pat, NEW j \in DOMAIN pat, NEW g,
         Closes(pat, h, g), Closes(pat, j, g)
  PROVE  h = j /\ g \in 1 .. h - 1 /\ pat[g][1] = "("
<1>1. h \in Nat /\ j \in Nat /\ g \in 1 .. h - 1 /\ g \in 1 .. j - 1 /\ pat[g][1] = "("
  BY DEF IsPattern, Closes
<1>2. \A m, n \in DOMAIN pat : Closes(pat, m, g) /\ Closes(pat, n, g) => ~(m < n)
  <2>1. ASSUME NEW m \in DOMAIN pat, NEW n \in DOMAIN pat, Closes(pat, m, g), Closes(pat, n, g), m < n PROVE FALSE
    <3>1. m \in g + 1 .. n - 1 /\ pat[m][1] = ")" /\ pat[m][2] = g /\ g \in Nat
      BY <2>1 DEF IsPattern, Closes
    <3>2. pat[m][2] > g
      BY <2>1, <3>1 DEF IsPattern, Closes
    <3>. QED  BY <3>1, <3>2
  <2>. QED  BY <2>1
<1>. QED  BY <1>1, <1>2

(* The items that close a capture: one at most. *)
LEMMA CloserIs ==
  ASSUME NEW pat, IsPattern(pat), NEW k \in 1 .. Len(pat) + 1, NEW g \in 1 .. k - 1,
         NEW h \in g + 1 .. k - 1, Closes(pat, h, g)
  PROVE  ClosersBefore(pat, k, g) = {h} /\ Min({h}) = h
<1>1. k \in Nat /\ g \in Nat /\ Len(pat) \in Nat /\ DOMAIN pat = 1 .. Len(pat)
  BY DEF IsPattern
<1>2. \A j \in g + 1 .. k - 1 : j \in DOMAIN pat
  BY <1>1
<1>3. \A j \in g + 1 .. k - 1 : Closes(pat, j, g) => j = h
  BY <1>2, OneCloser
<1>4. Min({h}) = h
  BY <1>1 DEF Min
<1>. QED  BY <1>3, <1>4 DEF ClosersBefore

(* The length of a capture changes with the item that closes it only. *)
LEMMA CaptureLenNext ==
  ASSUME NEW x \in Subjects, NEW k \in 1 .. Len(x.pat), NEW g \in 1 .. k - 1, NEW e, NEW w, Places(e, w, k),
         Starts(x.pat, g)
  PROVE  CaptureLen(x, w, k + 1, g) = IF Closes(x.pat, k, g) THEN e[k] - e[g] ELSE CaptureLen(x, e, k, g)
<1>1. k \in Nat /\ k \in DOMAIN x.pat /\ g \in Nat /\ IsPattern(x.pat) /\ DOMAIN x.pat = 1 .. Len(x.pat)
      /\ Len(x.pat) \in Nat /\ k + 1 \in 1 .. Len(x.pat) + 1 /\ g \in 1 .. k + 1 - 1
      /\ k \in 1 .. Len(x.pat) + 1
  BY SubjectIs
<1>2. (\A h \in 1 .. k : e[h] = w[h]) /\ w[k] = e[k] /\ w[g] = e[g]
  BY <1>1 DEF Places
<1>3. CASE x.pat[g][1] = "()"
  <2>1. ~Closes(x.pat, k, g)
    <3>. DEFINE pat == x.pat
    <3>1. k \in DOMAIN pat /\ IsPattern(pat)
      BY <1>1
    <3>. HIDE DEF pat
    <3>2. Closes(pat, k, g) => pat[g][1] = "("
      BY <3>1, OneCloser
    <3>. QED  BY <1>3, <3>2 DEF pat
  <2>. QED  BY <1>3, <2>1 DEF CaptureLen
<1>4. CASE x.pat[g][1] # "()" /\ Closes(x.pat, k, g)
  <2>1. k \in g + 1 .. k + 1 - 1
    BY <1>1
  <2>2. ClosersBefore(x.pat, k + 1, g) = {k} /\ Min({k}) = k
    <3>. DEFINE pat == x.pat
                K == k + 1
    <3>1. /\ IsPattern(pat) /\ K \in 1 .. Len(pat) + 1 /\ g \in 1 .. K - 1 /\ k \in g + 1 .. K - 1
          /\ Closes(pat, k, g)
      BY <1>1, <1>4, <2>1
    <3>. HIDE DEF pat, K
    <3>2. ClosersBefore(pat, K, g) = {k} /\ Min({k}) = k
      BY <3>1, CloserIs
    <3>. QED  BY <3>2 DEF pat, K
  <2>. QED  BY <1>2, <1>4, <2>2 DEF CaptureLen
<1>5. CASE x.pat[g][1] # "()" /\ ~Closes(x.pat, k, g)
  <2>1. ClosersBefore(x.pat, k + 1, g) = ClosersBefore(x.pat, k, g)
    BY <1>1, <1>5 DEF ClosersBefore
  <2>2. CASE ClosersBefore(x.pat, k, g) # {}
    <3>1. PICK h \in g + 1 .. k - 1 : Closes(x.pat, h, g)
      BY <2>2 DEF ClosersBefore
    <3>2. ClosersBefore(x.pat, k, g) = {h} /\ Min({h}) = h
      BY <1>1, <3>1, CloserIs
    <3>3. w[h] = e[h]
      BY <1>1, <1>2
    <3>. QED  BY <1>2, <1>5, <2>1, <3>2, <3>3 DEF CaptureLen
  <2>3. CASE ClosersBefore(x.pat, k, g) = {}
    BY <1>5, <2>1, <2>3 DEF CaptureLen
  <2>. QED  BY <2>2, <2>3
<1>. QED  BY <1>3, <1>4, <1>5

CaptureLists == Seq([init : Nat, len : Int])
IsCapture(pat, k) == pat[k][1] \in {"(", "()", ")"}

(* Item g has started a capture, which is in the list. *)
CapturedAt(x, e, k, c, g) ==
  /\ Level(x.pat, g) + 1 \in 1 .. Len(c) /\ DOMAIN c = 1 .. Len(c)
  /\ c[Level(x.pat, g) + 1] = [init |-> e[g], len |-> CaptureLen(x, e, k, g)]
  /\ Len(c) = Level(x.pat, k) /\ Len(c) \in Nat

(* What the list holds of the capture that item g starts. *)
LEMMA CaptureAt ==
  ASSUME NEW x \in Subjects, NEW k \in 1 .. Len(x.pat) + 1, NEW e, NEW c \in CaptureLists,
         Captures(x, e, k, c), NEW g \in 1 .. k - 1, Starts(x.pat, g)
  PROVE  CapturedAt(x, e, k, c, g)
<1>1. k \in Nat \ {0} /\ g \in Nat \ {0} /\ g < k
  BY SubjectIs
<1>2. Level(x.pat, g) \in Nat /\ Level(x.pat, k) \in Nat /\ Level(x.pat, g) + 1 <= Level(x.pat, k)
  BY <1>1, LevelsDiffer
<1>3. Len(c) = Level(x.pat, k) /\ DOMAIN c = 1 .. Len(c)
  BY DEF Captures, CaptureLists
<1>. QED  BY <1>2, <1>3 DEF Captures, CapturedAt

(* A capture starts. *)
LEMMA CapturesStart ==
  ASSUME NEW x \in Subjects, NEW k \in 1 .. Len(x.pat), NEW e, NEW w, Places(e, w, k), e[k] \in Nat,
         NEW c \in CaptureLists, Captures(x, e, k, c), Starts(x.pat, k),
         NEW v, v = [init |-> e[k], len |-> IF x.pat[k][1] = "()" THEN CAP_POSITION ELSE CAP_UNFINISHED]
  PROVE  Append(c, v) \in CaptureLists /\ Captures(x, w, k + 1, Append(c, v))
<1>1. k \in Nat \ {0} /\ k \in 1 .. Len(x.pat) + 1 /\ Len(x.pat) \in Nat /\ w[k] = e[k]
      /\ \A g \in 1 .. k - 1 : w[g] = e[g]
  BY SubjectIs DEF Places
<1>. DEFINE d == Append(c, v)
            n == Level(x.pat, k)
<1>2. n \in Nat /\ Level(x.pat, k + 1) = n + 1
  BY <1>1, LevelNext
<1>3. Len(c) = n
  BY DEF Captures
<1>4. v \in [init : Nat, len : Int]
  BY DEF CAP_POSITION, CAP_UNFINISHED
<1>5. d \in CaptureLists /\ Len(d) = n + 1 /\ d[n + 1] = v /\ \A i \in 1 .. n : d[i] = c[i]
  BY <1>2, <1>3, <1>4 DEF CaptureLists
<1>. HIDE DEF d
<1>6. ASSUME NEW g \in 1 .. k, Starts(x.pat, g)
      PROVE  d[Level(x.pat, g) + 1] = [init |-> w[g], len |-> CaptureLen(x, w, k + 1, g)]
  <2>1. CASE g = k
    <3>1. ClosersBefore(x.pat, k + 1, k) = {}
      BY <1>1 DEF ClosersBefore
    <3>2. CaptureLen(x, w, k + 1, k) = IF x.pat[k][1] = "()" THEN CAP_POSITION ELSE CAP_UNFINISHED
      BY <3>1 DEF CaptureLen
    <3>. QED  BY <1>1, <1>5, <2>1, <3>2
  <2>2. CASE g \in 1 .. k - 1
    <3>1. Level(x.pat, g) + 1 \in 1 .. n /\ c[Level(x.pat, g) + 1] = [init |-> e[g], len |-> CaptureLen(x, e, k, g)]
      <4>1. CapturedAt(x, e, k, c, g)
        BY <1>1, <1>6, <2>2, CaptureAt
      <4>. QED  BY <1>3, <4>1 DEF CapturedAt
    <3>2. ~Closes(x.pat, k, g)
      BY DEF Starts, Closes
    <3>3. CaptureLen(x, w, k + 1, g) = CaptureLen(x, e, k, g)
      BY <1>6, <2>2, <3>2, CaptureLenNext
    <3>. QED  BY <1>1, <1>5, <2>2, <3>1, <3>3
  <2>. QED  BY <1>1, <2>1, <2>2
<1>7. \A g \in 1 .. k + 1 - 1 : g \in 1 .. k
  BY <1>1
<1>8. Captures(x, w, k + 1, d)
  <2>1. Len(d) = Level(x.pat, k + 1)
    BY <1>2, <1>5
  <2>2. \A g \in 1 .. k + 1 - 1 : Starts(x.pat, g) =>
          d[Level(x.pat, g) + 1] = [init |-> w[g], len |-> CaptureLen(x, w, k + 1, g)]
    BY <1>6, <1>7
  <2>. QED  BY <2>1, <2>2 DEF Captures
<1>. QED  BY <1>5, <1>8 DEF d

(* match_capture and capture_to_close find the capture that a `)' closes. *)
LEMMA CaptureToCloseIs ==
  ASSUME NEW x \in Subjects, NEW k \in 1 .. Len(x.pat), NEW s \in 1 .. SrcEnd(x), NEW e, Path(x, s, k, e),
         NEW c \in CaptureLists, Captures(x, e, k, c), x.pat[k][1] = ")"
  PROVE  /\ CaptureToClose(c) = Level(x.pat, x.pat[k][2]) + 1
         /\ x.pat[k][2] \in 1 .. k - 1 /\ Starts(x.pat, x.pat[k][2]) /\ Closes(x.pat, k, x.pat[k][2])
<1>. DEFINE pat == x.pat
            g == pat[k][2]
            l == Level(pat, g) + 1
            S == {i \in DOMAIN c : c[i].len = CAP_UNFINISHED}
<1>1. k \in Nat \ {0} /\ k \in 1 .. Len(pat) + 1 /\ Len(pat) \in Nat /\ k \in DOMAIN pat /\ IsPattern(pat)
      /\ DOMAIN pat = 1 .. Len(pat)
  BY SubjectIs
<1>2. g \in 1 .. k - 1 /\ pat[g][1] = "(" /\ Starts(pat, g) /\ Closes(pat, k, g)
  BY <1>1 DEF IsPattern, Starts, Closes
<1>3. /\ l \in 1 .. Len(c) /\ DOMAIN c = 1 .. Len(c) /\ Len(c) = Level(pat, k) /\ Len(c) \in Nat
      /\ c[l] = [init |-> e[g], len |-> CaptureLen(x, e, k, g)]
  <2>1. CapturedAt(x, e, k, c, g)
    <3>. HIDE DEF g
    <3>. QED  BY <1>1, <1>2, CaptureAt
  <2>. QED  BY <2>1 DEF CapturedAt
<1>4. l \in S
  <2>1. ClosersBefore(pat, k, g) = {}
    <3>1. ASSUME NEW h \in g + 1 .. k - 1, Closes(pat, h, g) PROVE FALSE
      <4>1. h \in DOMAIN pat /\ h # k
        <5>. HIDE DEF g, pat
        <5>. QED  BY <1>1, <1>2
      <4>. HIDE DEF g, pat
      <4>2. h = k
        BY <1>1, <1>2, <3>1, <4>1, OneCloser
      <4>. QED  BY <4>1, <4>2
    <3>. QED  BY <3>1 DEF ClosersBefore
  <2>2. CaptureLen(x, e, k, g) = CAP_UNFINISHED
    BY <1>2, <2>1 DEF CaptureLen
  <2>. QED  BY <1>3, <2>2
<1>5. ASSUME NEW i \in S PROVE i <= l
  <2>1. i \in 1 .. Level(pat, k)
    BY <1>3
  <2>2. PICK j \in 1 .. k - 1 : Starts(pat, j) /\ Level(pat, j) + 1 = i
    BY <1>1, <2>1, LevelOf
  <2>3. c[i].len = CaptureLen(x, e, k, j)
    <3>1. CapturedAt(x, e, k, c, j)
      BY <1>1, <2>2, CaptureAt
    <3>. QED  BY <2>2, <3>1 DEF CapturedAt
  <2>4. j \in Nat \ {0} /\ g \in Nat \ {0}
    BY <1>1, <1>2
  <2>5. CASE j <= g
    <3>1. Level(pat, j) <= Level(pat, g) /\ Level(pat, j) \in Nat /\ Level(pat, g) \in Nat
      BY <2>4, <2>5, LevelGrows
    <3>. QED  BY <2>2, <3>1
  <2>6. CASE g < j
    <3>1. pat[j][1] = "("
      <4>1. pat[j][1] = "()" => CaptureLen(x, e, k, j) = CAP_POSITION
        BY DEF CaptureLen
      <4>2. CAP_POSITION # CAP_UNFINISHED
        BY DEF CAP_POSITION, CAP_UNFINISHED
      <4>. QED  BY <2>2, <2>3, <4>1, <4>2 DEF Starts
    <3>2. j \in g + 1 .. k - 1
      BY <1>1, <1>2, <2>6
    <3>3. PICK h \in j + 1 .. k - 1 : Closes(pat, h, j)
      BY <1>1, <3>1, <3>2 DEF IsPattern
    <3>4. ClosersBefore(pat, k, j) = {h} /\ Min({h}) = h
      BY <1>1, <3>3, CloserIs
    <3>5. CaptureLen(x, e, k, j) = e[h] - e[j]
      BY <3>1, <3>4 DEF CaptureLen
    <3>6. e[j] <= e[h] /\ e[j] \in Nat /\ e[h] \in Nat
      <4>1. j \in 1 .. k /\ h \in 1 .. k /\ j <= h
        BY <1>1, <3>3
      <4>2. SrcEnd(x) \in Nat /\ s \in Nat
        BY SubjectIs
      <4>. QED  BY <1>1, <4>1, <4>2, PathForward
    <3>. QED  BY <2>3, <3>5, <3>6 DEF CAP_UNFINISHED
  <2>. QED  BY <2>4, <2>5, <2>6
<1>6. CaptureToClose(c) = l
  <2>1. S \in SUBSET (0 .. Len(c)) /\ S # {}
    BY <1>3, <1>4
  <2>2. Max(S) \in S /\ \A n \in S : n <= Max(S)
    <3>. HIDE DEF S
    <3>. QED  BY <1>3, <2>1, LastIs
  <2>3. Max(S) <= l /\ l <= Max(S) /\ Max(S) \in Nat /\ l \in Nat
    <3>. HIDE DEF S, l
    <3>1. Max(S) \in 0 .. Len(c)
      BY <2>1, <2>2
    <3>. QED  BY <1>3, <1>4, <1>5, <2>2, <3>1
  <2>4. CaptureToClose(c) = Max(S)
    BY DEF CaptureToClose
  <2>. HIDE DEF S, l
  <2>. QED  BY <2>3, <2>4
<1>. QED  BY <1>2, <1>6

(* A capture is closed. *)
LEMMA CapturesEnd ==
  ASSUME NEW x \in Subjects, NEW k \in 1 .. Len(x.pat), NEW s \in 1 .. SrcEnd(x), NEW e, Path(x, s, k, e),
         NEW w, Places(e, w, k), NEW c \in CaptureLists, Captures(x, e, k, c), x.pat[k][1] = ")",
         NEW l, l = Level(x.pat, x.pat[k][2]) + 1, NEW d, d = [c EXCEPT ![l].len = e[k] - c[l].init]
  PROVE  d \in CaptureLists /\ Captures(x, w, k + 1, d)
<1>. DEFINE pat == x.pat
            g == pat[k][2]
<1>1. k \in Nat \ {0} /\ k \in 1 .. Len(pat) + 1 /\ w[k] = e[k] /\ \A i \in 1 .. k - 1 : w[i] = e[i]
  BY SubjectIs DEF Places
<1>2. g \in 1 .. k - 1 /\ Starts(pat, g) /\ Closes(pat, k, g)
  BY CaptureToCloseIs
<1>3. /\ l \in 1 .. Len(c) /\ DOMAIN c = 1 .. Len(c) /\ Len(c) = Level(pat, k) /\ Len(c) \in Nat
      /\ c[l] = [init |-> e[g], len |-> CaptureLen(x, e, k, g)]
  <2>1. CapturedAt(x, e, k, c, g)
    <3>. HIDE DEF g
    <3>. QED  BY <1>1, <1>2, CaptureAt
  <2>. QED  BY <2>1 DEF CapturedAt
<1>4. e[k] \in Nat /\ c[l].init = e[g] /\ c[l] \in [init : Nat, len : Int]
  <2>1. SrcEnd(x) \in Nat /\ k \in 1 .. k /\ s \in Nat
    BY <1>1, SubjectIs
  <2>2. e[k] \in s .. SrcEnd(x)
    BY <1>1, <2>1, PathForward
  <2>3. e[k] \in Nat
    BY <2>1, <2>2
  <2>4. c[l] \in [init : Nat, len : Int]
    <3>. DEFINE R == [init : Nat, len : Int]
    <3>1. c \in Seq(R) /\ l \in 1 .. Len(c)
      BY <1>3 DEF CaptureLists
    <3>. HIDE DEF R
    <3>2. c[l] \in R
      BY <3>1
    <3>. QED  BY <3>2 DEF R
  <2>. QED  BY <1>3, <2>3, <2>4
<1>5. d = [c EXCEPT ![l] = [init |-> e[g], len |-> e[k] - e[g]]] /\ e[k] - e[g] \in Int /\ e[g] \in Nat
  <2>. HIDE DEF g
  <2>1. [c[l] EXCEPT !.len = e[k] - e[g]] = [init |-> e[g], len |-> e[k] - e[g]]
    BY <1>3
  <2>2. d = [c EXCEPT ![l] = [c[l] EXCEPT !.len = e[k] - e[g]]]
    BY <1>3, <1>4
  <2>3. e[g] \in Nat
    BY <1>4
  <2>4. e[k] - e[g] \in Int
    BY <1>4, <2>3
  <2>5. d = [c EXCEPT ![l] = [init |-> e[g], len |-> e[k] - e[g]]]
    BY <2>1, <2>2, Zenon
  <2>. QED  BY <2>3, <2>4, <2>5
<1>6. /\ d \in CaptureLists /\ Len(d) = Len(c) /\ d[l] = [init |-> e[g], len |-> e[k] - e[g]]
      /\ \A i \in 1 .. Len(c) : i # l => d[i] = c[i]
  <2>. HIDE DEF g
  <2>. DEFINE v == [init |-> e[g], len |-> e[k] - e[g]]
  <2>1. v \in [init : Nat, len : Int] /\ c \in Seq([init : Nat, len : Int]) /\ l \in 1 .. Len(c)
    BY <1>3, <1>5 DEF CaptureLists
  <2>2. d = [c EXCEPT ![l] = v]
    BY <1>5
  <2>. HIDE DEF v
  <2>3. /\ d \in Seq([init : Nat, len : Int]) /\ Len(d) = Len(c) /\ d[l] = v
        /\ \A i \in 1 .. Len(c) : i # l => d[i] = c[i]
    <3>. DEFINE R == [init : Nat, len : Int]
    <3>1. v \in R /\ c \in Seq(R) /\ l \in 1 .. Len(c)
      BY <2>1
    <3>. HIDE DEF R
    <3>2. /\ d \in Seq(R) /\ Len(d) = Len(c) /\ d[l] = v
          /\ \A i \in 1 .. Len(c) : i # l => d[i] = c[i]
      BY ONLY <2>2, <3>1
    <3>. QED  BY <3>2 DEF R
  <2>. QED  BY <2>3 DEF v, CaptureLists
<1>7. Len(d) = Level(pat, k + 1)
  <2>1. ~Starts(pat, k)
    BY DEF Starts
  <2>2. Level(pat, k + 1) = Level(pat, k) /\ Level(pat, k) \in Nat
    BY <1>1, <2>1, LevelNext
  <2>. QED  BY <1>3, <1>6, <2>2
<1>8. ASSUME NEW j \in 1 .. k - 1, Starts(pat, j)
      PROVE  d[Level(pat, j) + 1] = [init |-> w[j], len |-> CaptureLen(x, w, k + 1, j)]
  <2>1. CaptureLen(x, w, k + 1, j) = IF Closes(pat, k, j) THEN e[k] - e[j] ELSE CaptureLen(x, e, k, j)
    <3>1. k \in 1 .. Len(x.pat) /\ Places(e, w, k) /\ Starts(x.pat, j)
      BY <1>8
    <3>. QED  BY ONLY <3>1, CaptureLenNext, Zenon
  <2>2. CASE j = g
    <3>1. Closes(pat, k, g) /\ w[g] = e[g]
      BY <1>1, <1>2
    <3>2. CaptureLen(x, w, k + 1, j) = e[k] - e[g]
      BY <2>1, <2>2, <3>1
    <3>3. l = Level(pat, g) + 1
      BY Zenon
    <3>. HIDE DEF g, pat
    <3>. QED  BY <1>6, <2>2, <3>1, <3>2, <3>3
  <2>3. CASE j # g
    <3>1. ~Closes(pat, k, j)
      BY <2>3 DEF Closes
    <3>2. Level(pat, j) + 1 # l
      <4>1. j \in Nat \ {0} /\ g \in Nat \ {0}
        <5>. HIDE DEF g, pat
        <5>. QED  BY <1>1, <1>2
      <4>2. Level(pat, j) \in Nat /\ Level(pat, g) \in Nat
        BY <4>1, LevelNext
      <4>. HIDE DEF g
      <4>3. j < g => Level(pat, j) + 1 <= Level(pat, g)
        BY <1>8, <4>1, LevelsDiffer
      <4>4. g < j => Level(pat, g) + 1 <= Level(pat, j)
        BY <1>2, <4>1, LevelsDiffer
      <4>5. l = Level(pat, g) + 1
        BY DEF g
      <4>. QED  BY <2>3, <4>1, <4>2, <4>3, <4>4, <4>5
    <3>3. Level(pat, j) + 1 \in 1 .. Len(c) /\ c[Level(pat, j) + 1] = [init |-> e[j], len |-> CaptureLen(x, e, k, j)]
      <4>1. CapturedAt(x, e, k, c, j)
        BY <1>1, <1>8, CaptureAt
      <4>. QED  BY <4>1 DEF CapturedAt
    <3>. HIDE DEF g
    <3>. QED  BY <1>1, <1>6, <2>1, <3>1, <3>2, <3>3
  <2>. QED  BY <2>2, <2>3
<1>9. \A j \in 1 .. k + 1 - 1 : Starts(pat, j) => j \in 1 .. k - 1
  <2>1. ~Starts(pat, k)
    BY DEF Starts
  <2>. QED  BY <1>1, <2>1
<1>10. Captures(x, w, k + 1, d)
  <2>1. \A j \in 1 .. k + 1 - 1 : Starts(x.pat, j) =>
          d[Level(x.pat, j) + 1] = [init |-> w[j], len |-> CaptureLen(x, w, k + 1, j)]
    BY <1>8, <1>9
  <2>2. Len(d) = Level(x.pat, k + 1)
    BY <1>7
  <2>. QED  BY ONLY <2>1, <2>2 DEF Captures
<1>. QED  BY <1>6, <1>10

(* Other items leave the captures as they are. *)
LEMMA CapturesSkip ==
  ASSUME NEW x \in Subjects, NEW k \in 1 .. Len(x.pat), NEW e, NEW w, Places(e, w, k), ~IsCapture(x.pat, k),
         NEW c
  PROVE  Captures(x, e, k, c) <=> Captures(x, w, k + 1, c)
<1>1. k \in Nat \ {0} /\ \A i \in 1 .. k - 1 : w[i] = e[i]
  BY SubjectIs DEF Places
<1>2. ~Starts(x.pat, k) /\ \A g : ~Closes(x.pat, k, g)
  BY DEF Starts, Closes, IsCapture
<1>3. Level(x.pat, k + 1) = Level(x.pat, k)
  BY <1>1, <1>2, LevelNext
<1>4. \A g \in 1 .. k - 1 : Starts(x.pat, g) => CaptureLen(x, w, k + 1, g) = CaptureLen(x, e, k, g)
  BY <1>2, CaptureLenNext
<1>5. \A g \in 1 .. k - 1 : Starts(x.pat, g) =>
        [init |-> w[g], len |-> CaptureLen(x, w, k + 1, g)] = [init |-> e[g], len |-> CaptureLen(x, e, k, g)]
  BY <1>1, <1>4
<1>6. \A g : g \in 1 .. k + 1 - 1 /\ Starts(x.pat, g) <=> g \in 1 .. k - 1 /\ Starts(x.pat, g)
  BY <1>1, <1>2
<1>7. (\A g \in 1 .. k + 1 - 1 : Starts(x.pat, g) =>
           c[Level(x.pat, g) + 1] = [init |-> w[g], len |-> CaptureLen(x, w, k + 1, g)])
      <=> (\A g \in 1 .. k - 1 : Starts(x.pat, g) =>
           c[Level(x.pat, g) + 1] = [init |-> e[g], len |-> CaptureLen(x, e, k, g)])
  BY <1>5, <1>6
<1>8. Len(c) = Level(x.pat, k) <=> Len(c) = Level(x.pat, k + 1)
  BY <1>3
<1>. QED  BY ONLY <1>7, <1>8 DEF Captures

(* start_capture undoes what it did. *)
LEMMA UndoStart ==
  ASSUME NEW x \in Subjects, NEW k \in 1 .. Len(x.pat), NEW e, NEW w, Places(e, w, k), Starts(x.pat, k),
         NEW c \in CaptureLists, Captures(x, w, k + 1, c)
  PROVE  WithoutLast(c) \in CaptureLists /\ Captures(x, e, k, WithoutLast(c))
<1>1. k \in Nat \ {0} /\ k + 1 \in 1 .. Len(x.pat) + 1 /\ \A i \in 1 .. k - 1 : w[i] = e[i]
  BY SubjectIs DEF Places
<1>. DEFINE d == WithoutLast(c)
            n == Level(x.pat, k)
<1>2. Level(x.pat, k + 1) = n + 1 /\ n \in Nat /\ Len(c) = n + 1
  BY <1>1, LevelNext DEF Captures
<1>3. d \in CaptureLists /\ Len(d) = n /\ \A i \in 1 .. n : d[i] = c[i]
  <2>. DEFINE T == [init : Nat, len : Int]
  <2>1. c \in Seq(T) /\ d = SubSeq(c, 1, n)
    BY <1>2 DEF WithoutLast, CaptureLists
  <2>. HIDE DEF n, T, d
  <2>2. d \in Seq(T) /\ Len(d) = n /\ \A i \in 1 .. n : d[i] = c[i]
    BY <1>2, <2>1
  <2>. QED  BY <2>2 DEF T, CaptureLists
<1>. HIDE DEF d
<1>4. ASSUME NEW g \in 1 .. k - 1, Starts(x.pat, g)
      PROVE  d[Level(x.pat, g) + 1] = [init |-> e[g], len |-> CaptureLen(x, e, k, g)]
  <2>1. ~Closes(x.pat, k, g)
    BY DEF Starts, Closes
  <2>2. CaptureLen(x, w, k + 1, g) = CaptureLen(x, e, k, g)
    BY <1>4, <2>1, CaptureLenNext
  <2>3. Level(x.pat, g) + 1 \in 1 .. n
    <3>1. g \in Nat \ {0} /\ g < k
      BY <1>1
    <3>2. Level(x.pat, g) \in Nat /\ Level(x.pat, k) \in Nat /\ Level(x.pat, g) + 1 <= Level(x.pat, k)
      BY <1>1, <1>4, <3>1, LevelsDiffer
    <3>. QED  BY <3>2
  <2>4. c[Level(x.pat, g) + 1] = [init |-> w[g], len |-> CaptureLen(x, w, k + 1, g)]
    <3>1. g \in 1 .. k + 1 - 1
      BY <1>1
    <3>. QED  BY <1>4, <3>1 DEF Captures
  <2>. QED  BY <1>1, <1>3, <2>2, <2>3, <2>4
<1>5. Captures(x, e, k, d)
  BY <1>3, <1>4 DEF Captures
<1>. QED  BY <1>3, <1>5 DEF d

(* end_capture undoes what it did. *)
LEMMA UndoEnd ==
  ASSUME NEW x \in Subjects, NEW k \in 1 .. Len(x.pat), NEW e, NEW w, Places(e, w, k), x.pat[k][1] = ")",
         NEW c \in CaptureLists, Captures(x, w, k + 1, c),
         NEW l, l = Level(x.pat, x.pat[k][2]) + 1, NEW d, d = [c EXCEPT ![l].len = CAP_UNFINISHED]
  PROVE  d \in CaptureLists /\ Captures(x, e, k, d)
<1>. DEFINE pat == x.pat
            g == pat[k][2]
<1>1. /\ k \in Nat \ {0} /\ k + 1 \in 1 .. Len(pat) + 1 /\ \A i \in 1 .. k - 1 : w[i] = e[i]
      /\ k \in 1 .. Len(pat) + 1 /\ k \in DOMAIN pat /\ IsPattern(pat) /\ DOMAIN pat = 1 .. Len(pat)
      /\ Len(pat) \in Nat
  BY SubjectIs DEF Places
<1>2. g \in 1 .. k - 1 /\ pat[g][1] = "(" /\ Starts(pat, g) /\ Closes(pat, k, g) /\ g \in 1 .. k + 1 - 1
  BY <1>1 DEF IsPattern, Starts, Closes
<1>3. /\ l \in 1 .. Len(c) /\ DOMAIN c = 1 .. Len(c) /\ Len(c) = Level(pat, k + 1) /\ Len(c) \in Nat
      /\ c[l] = [init |-> w[g], len |-> CaptureLen(x, w, k + 1, g)]
  <2>1. CapturedAt(x, w, k + 1, c, g)
    <3>. HIDE DEF g
    <3>. QED  BY <1>1, <1>2, CaptureAt
  <2>. QED  BY <2>1 DEF CapturedAt
<1>4. CaptureLen(x, e, k, g) = CAP_UNFINISHED
  <2>1. ClosersBefore(pat, k, g) = {}
    <3>1. ASSUME NEW h \in g + 1 .. k - 1, Closes(pat, h, g) PROVE FALSE
      <4>1. h \in DOMAIN pat /\ h # k
        <5>. HIDE DEF g, pat
        <5>. QED  BY <1>1, <1>2
      <4>2. h = k
        <5>1. Closes(pat, k, g) /\ k \in DOMAIN pat /\ IsPattern(pat)
          BY <1>1, <1>2
        <5>. HIDE DEF g, pat
        <5>. QED  BY <3>1, <4>1, <5>1, OneCloser
      <4>. QED  BY <4>1, <4>2
    <3>. QED  BY <3>1 DEF ClosersBefore
  <2>. QED  BY <1>2, <2>1 DEF CaptureLen
<1>5. d = [c EXCEPT ![l] = [init |-> e[g], len |-> CAP_UNFINISHED]] /\ e[g] \in Nat
  <2>1. c[l] \in [init : Nat, len : Int]
    <3>. DEFINE R == [init : Nat, len : Int]
    <3>1. c \in Seq(R) /\ l \in 1 .. Len(c)
      BY <1>3 DEF CaptureLists
    <3>. HIDE DEF R
    <3>2. c[l] \in R
      BY <3>1
    <3>. QED  BY <3>2 DEF R
  <2>2. w[g] = e[g]
    BY <1>1, <1>2
  <2>. HIDE DEF g
  <2>3. [c[l] EXCEPT !.len = CAP_UNFINISHED] = [init |-> e[g], len |-> CAP_UNFINISHED]
    BY <1>3, <2>2
  <2>. QED  BY <1>3, <2>1, <2>2, <2>3
<1>6. /\ d \in CaptureLists /\ Len(d) = Len(c) /\ d[l] = [init |-> e[g], len |-> CAP_UNFINISHED]
      /\ \A i \in 1 .. Len(c) : i # l => d[i] = c[i]
  <2>. HIDE DEF g
  <2>. DEFINE v == [init |-> e[g], len |-> CAP_UNFINISHED]
  <2>1. v \in [init : Nat, len : Int] /\ c \in Seq([init : Nat, len : Int]) /\ l \in 1 .. Len(c)
    BY <1>3, <1>5 DEF CaptureLists, CAP_UNFINISHED
  <2>2. d = [c EXCEPT ![l] = v]
    BY <1>5
  <2>. HIDE DEF v
  <2>3. /\ d \in Seq([init : Nat, len : Int]) /\ Len(d) = Len(c) /\ d[l] = v
        /\ \A i \in 1 .. Len(c) : i # l => d[i] = c[i]
    <3>. DEFINE R == [init : Nat, len : Int]
    <3>1. v \in R /\ c \in Seq(R) /\ l \in 1 .. Len(c)
      BY <2>1
    <3>. HIDE DEF R
    <3>2. /\ d \in Seq(R) /\ Len(d) = Len(c) /\ d[l] = v
          /\ \A i \in 1 .. Len(c) : i # l => d[i] = c[i]
      BY ONLY <2>2, <3>1
    <3>. QED  BY <3>2 DEF R
  <2>. QED  BY <2>3 DEF v, CaptureLists
<1>7. Len(d) = Level(pat, k)
  <2>1. ~Starts(pat, k)
    BY DEF Starts
  <2>2. Level(pat, k + 1) = Level(pat, k) /\ Level(pat, k) \in Nat
    BY <1>1, <2>1, LevelNext
  <2>. QED  BY <1>3, <1>6, <2>2
<1>8. ASSUME NEW j \in 1 .. k - 1, Starts(pat, j)
      PROVE  d[Level(pat, j) + 1] = [init |-> e[j], len |-> CaptureLen(x, e, k, j)]
  <2>1. CaptureLen(x, w, k + 1, j) = IF Closes(pat, k, j) THEN e[k] - e[j] ELSE CaptureLen(x, e, k, j)
    <3>1. k \in 1 .. Len(x.pat) /\ Places(e, w, k) /\ Starts(x.pat, j)
      BY <1>8
    <3>. QED  BY ONLY <3>1, CaptureLenNext, Zenon
  <2>2. CASE j = g
    <3>1. l = Level(pat, g) + 1
      BY Zenon
    <3>. HIDE DEF g, pat
    <3>. QED  BY ONLY <1>4, <1>6, <2>2, <3>1
  <2>3. CASE j # g
    <3>1. ~Closes(pat, k, j)
      BY <2>3 DEF Closes
    <3>2. Level(pat, j) + 1 # l
      <4>1. j \in Nat \ {0} /\ g \in Nat \ {0}
        <5>. HIDE DEF g, pat
        <5>. QED  BY <1>1, <1>2
      <4>2. Level(pat, j) \in Nat /\ Level(pat, g) \in Nat
        BY <4>1, LevelNext
      <4>. HIDE DEF g
      <4>3. j < g => Level(pat, j) + 1 <= Level(pat, g)
        BY <1>8, <4>1, LevelsDiffer
      <4>4. g < j => Level(pat, g) + 1 <= Level(pat, j)
        BY <1>2, <4>1, LevelsDiffer
      <4>5. l = Level(pat, g) + 1
        BY DEF g
      <4>. QED  BY <2>3, <4>1, <4>2, <4>3, <4>4, <4>5
    <3>3. j \in 1 .. k + 1 - 1
      BY <1>1
    <3>4. Level(pat, j) + 1 \in 1 .. Len(c) /\ c[Level(pat, j) + 1] = [init |-> w[j], len |-> CaptureLen(x, w, k + 1, j)]
      <4>1. CapturedAt(x, w, k + 1, c, j)
        BY <1>1, <1>8, <3>3, CaptureAt
      <4>. QED  BY <4>1 DEF CapturedAt
    <3>. HIDE DEF g
    <3>. QED  BY <1>1, <1>6, <2>1, <3>1, <3>2, <3>4
  <2>. QED  BY <2>2, <2>3
<1>9. Captures(x, e, k, d)
  BY <1>7, <1>8 DEF Captures
<1>. QED  BY <1>6, <1>9

-----------------------------------------------------------------------------
(* What the functions that wait for match know.                            *)
CallSet == [by : {"start_capture", "end_capture", "match", "max_expand", "min_expand"},
            s : Nat, p : Nat, i : Nat]

\* The function that waits while item f.p extends from s to t.
Frame(x, s, t, f) ==
  LET item == x.pat[f.p]
      single(suffixes) == item[1] = "single" /\ item[3] \in suffixes
  IN  /\ f.by = "start_capture" => Starts(x.pat, f.p)
      /\ f.by = "end_capture" => item[1] = ")" /\ f.i = Level(x.pat, item[2]) + 1
      /\ f.by = "match" => single({"?"}) /\ f.s = s /\ t = s + 1
      /\ f.by = "max_expand" => /\ single({"*", "+"}) /\ t = f.s + f.i
                                /\ f.s = s + IF item[3] = "+" THEN 1 ELSE 0
      /\ f.by = "min_expand" => single({"-"}) /\ t = f.s

Waits(calls, q) == \E j \in 1 .. Len(calls) : calls[j].p = q
NoLater(x, e, q) == \A t \in Reach(x, e, q) : ~Prefers(x, q, e[q + 1], t)

\* Of the items before k, those that nobody waits for are not captures and have no other end left.
Stack(x, e, k, calls) ==
  /\ calls \in Seq(CallSet)
  /\ \A j \in 1 .. Len(calls) : /\ calls[j].p \in 1 .. k - 1
                                /\ Frame(x, e[calls[j].p], e[calls[j].p + 1], calls[j])
  /\ \A i, j \in 1 .. Len(calls) : i < j => calls[i].p < calls[j].p
  /\ \A q \in 1 .. k - 1 : Waits(calls, q) \/ (~IsCapture(x.pat, q) /\ NoLater(x, e, q))

\* The way w comes after e: an item before k prefers e.
Passed(x, e, k, w) == \E j \in 1 .. k - 1 : Places(e, w, j) /\ Prefers(x, j, e[j + 1], w[j + 1])

Whole(x, s, w) == Path(x, s, Len(x.pat) + 1, w)

At(x, s, e, k, c, calls) ==
  Path(x, s, k, e) /\ c \in CaptureLists /\ Captures(x, e, k, c) /\ Stack(x, e, k, calls)

\* match begins item k at e[k], and every way that comes before those from there on is no way.
Branch(x, s, e, k, c, calls) ==
  At(x, s, e, k, c, calls) /\ \A w : Whole(x, s, w) => Places(e, w, k) \/ Passed(x, e, k, w)

\* The same, and item k may end in U only.
Open(x, s, e, k, U, c, calls) ==
  /\ At(x, s, e, k, c, calls)
  /\ \A w : Whole(x, s, w) => (Places(e, w, k) /\ w[k + 1] \in U) \/ Passed(x, e, k, w)

(* An item does not prefer an end to itself. *)
LEMMA PrefersOne ==
  ASSUME NEW x, NEW k, NEW t \in Nat
  PROVE  ~Prefers(x, k, t, t)
BY DEF Prefers

(* An item is about to be matched. *)
LEMMA BranchOpens ==
  ASSUME NEW x \in Subjects, NEW s \in 1 .. SrcEnd(x), NEW k \in 1 .. Len(x.pat), NEW e, NEW c, NEW calls,
         Branch(x, s, e, k, c, calls)
  PROVE  Open(x, s, e, k, Reach(x, e, k), c, calls)
<1>1. ASSUME NEW w, Whole(x, s, w), Places(e, w, k) PROVE w[k + 1] \in Reach(x, e, k)
  <2>1. w[k + 1] \in Reach(x, w, k)
    <3>1. k \in 1 .. Len(x.pat) + 1 - 1
      BY SubjectIs
    <3>. QED  BY <1>1, <3>1 DEF Whole, Path
  <2>. QED  BY <1>1, <2>1, ReachSame
<1>. QED  BY <1>1 DEF Branch, Open

(* Longer paths of which an item is the last one. *)
LEMMA PassedLonger ==
  ASSUME NEW x \in Subjects, NEW k \in 1 .. Len(x.pat), NEW e, NEW e1, Places(e1, e, k), NEW w
  PROVE  /\ Passed(x, e, k, w) => Passed(x, e1, k + 1, w)
         /\ Passed(x, e, k, w) <=> Passed(x, e1, k, w)
         /\ Places(e, w, k) <=> Places(e1, w, k)
<1>1. k \in Nat \ {0} /\ \A i \in 1 .. k : e1[i] = e[i]
  BY SubjectIs DEF Places
<1>2. \A j \in 1 .. k : Places(e, w, j) <=> Places(e1, w, j)
  BY <1>1 DEF Places
<1>3. \A j \in 1 .. k - 1 : e1[j + 1] = e[j + 1] /\ (Places(e, w, j) <=> Places(e1, w, j)) /\ j \in 1 .. k + 1 - 1
  BY <1>1, <1>2
<1>4. k \in 1 .. k
  BY <1>1
<1>. QED  BY <1>2, <1>3, <1>4 DEF Passed

(* The stack when the last item changes or is left. *)
LEMMA StackLonger ==
  ASSUME NEW x \in Subjects, NEW k \in 1 .. Len(x.pat), NEW e, NEW e1, Places(e1, e, k), NEW calls,
         Stack(x, e, k, calls)
  PROVE  /\ Stack(x, e1, k, calls)
         /\ ~IsCapture(x.pat, k) /\ NoLater(x, e1, k) => Stack(x, e1, k + 1, calls)
         /\ \A f \in CallSet : f.p = k /\ Frame(x, e1[k], e1[k + 1], f) => Stack(x, e1, k + 1, Append(calls, f))
<1>1. k \in Nat \ {0} /\ \A i \in 1 .. k : e1[i] = e[i]
  BY SubjectIs DEF Places
<1>2. \A q \in 1 .. k - 1 : e1[q] = e[q] /\ e1[q + 1] = e[q + 1] /\ q \in 1 .. k + 1 - 1
  BY <1>1
<1>3. \A q \in 1 .. k - 1 : NoLater(x, e, q) <=> NoLater(x, e1, q)
  <2>1. ASSUME NEW q \in 1 .. k - 1 PROVE NoLater(x, e, q) <=> NoLater(x, e1, q)
    <3>1. q \in 1 .. Len(x.pat) /\ Places(e, e1, q)
      BY <1>1, SubjectIs DEF Places
    <3>2. Reach(x, e, q) = Reach(x, e1, q)
      BY <3>1, ReachSame
    <3>. QED  BY <1>2, <3>2 DEF NoLater
  <2>. QED  BY <2>1
<1>4. Stack(x, e1, k, calls)
  BY <1>2, <1>3 DEF Stack
<1>5. \A q \in 1 .. k + 1 - 1 : q \in 1 .. k - 1 \/ q = k
  BY <1>1
<1>6. ~IsCapture(x.pat, k) /\ NoLater(x, e1, k) => Stack(x, e1, k + 1, calls)
  BY <1>2, <1>4, <1>5 DEF Stack
<1>7. ASSUME NEW f \in CallSet, f.p = k, Frame(x, e1[k], e1[k + 1], f) PROVE Stack(x, e1, k + 1, Append(calls, f))
  <2>. DEFINE d == Append(calls, f)
              n == Len(calls)
  <2>1. calls \in Seq(CallSet) /\ n \in Nat
    BY DEF Stack
  <2>2. d \in Seq(CallSet) /\ Len(d) = n + 1 /\ d[n + 1] = f /\ \A i \in 1 .. n : d[i] = calls[i]
    BY <2>1
  <2>. HIDE DEF d
  <2>3. \A j \in 1 .. n + 1 : j \in 1 .. n \/ j = n + 1
    BY <2>1
  <2>4. \A j \in 1 .. Len(d) : d[j].p \in 1 .. k + 1 - 1 /\ Frame(x, e1[d[j].p], e1[d[j].p + 1], d[j])
    <3>1. \A j \in 1 .. n : d[j].p \in 1 .. k + 1 - 1 /\ Frame(x, e1[d[j].p], e1[d[j].p + 1], d[j])
      BY <1>2, <1>4, <2>2 DEF Stack
    <3>2. k \in 1 .. k + 1 - 1
      BY <1>1
    <3>. QED  BY <1>7, <2>2, <2>3, <3>1, <3>2
  <2>5. \A i, j \in 1 .. Len(d) : i < j => d[i].p < d[j].p
    <3>1. \A i \in 1 .. n : d[i].p \in 1 .. k - 1
      BY <1>4, <2>2 DEF Stack
    <3>2. \A i \in 1 .. n : d[i].p < k
      BY <1>1, <3>1
    <3>3. \A i, j \in 1 .. n : i < j => d[i].p < d[j].p
      BY <1>4, <2>2 DEF Stack
    <3>4. \A i, j \in 1 .. n + 1 : i < j => i \in 1 .. n
      BY <2>1
    <3>. QED  BY <1>7, <2>2, <2>3, <3>2, <3>3, <3>4
  <2>6. \A q \in 1 .. k + 1 - 1 : Waits(d, q) \/ (~IsCapture(x.pat, q) /\ NoLater(x, e1, q))
    <3>1. Waits(d, k)
      <4>1. n + 1 \in 1 .. Len(d)
        BY <2>1, <2>2
      <4>. QED  BY <1>7, <2>2, <4>1 DEF Waits
    <3>2. \A q : Waits(calls, q) => Waits(d, q)
      <4>1. \A j \in 1 .. n : j \in 1 .. Len(d)
        BY <2>1, <2>2
      <4>. QED  BY <2>2, <4>1 DEF Waits
    <3>. QED  BY <1>4, <1>5, <3>1, <3>2 DEF Stack
  <2>7. Stack(x, e1, k + 1, d)
    BY <2>2, <2>4, <2>5, <2>6 DEF Stack
  <2>. QED  BY <2>7 DEF d
<1>. QED  BY <1>4, <1>6, <1>7

(* One more item is matched, where it prefers to end of what is left. *)
LEMMA Onward ==
  ASSUME NEW x \in Subjects, NEW s \in 1 .. SrcEnd(x), NEW k \in 1 .. Len(x.pat), NEW e, NEW U, NEW c, NEW calls,
         Open(x, s, e, k, U, c, calls), NEW t \in Reach(x, e, k), \A u \in U : u = t \/ Prefers(x, k, t, u)
  PROVE  \E e1 : /\ Path(x, s, k + 1, e1) /\ e1[k + 1] = t /\ e1[k] = e[k]
                 /\ Places(e1, e, k) /\ Places(e, e1, k)
                 /\ \A w : Whole(x, s, w) => Places(e1, w, k + 1) \/ Passed(x, e1, k + 1, w)
<1>. DEFINE e1 == Append(e, t)
<1>1. Path(x, s, k, e)
  BY DEF Open, At
<1>2. Path(x, s, k + 1, e1) /\ e1[k + 1] = t /\ Places(e1, e, k)
  BY <1>1, PathLonger
<1>. HIDE DEF e1
<1>3. ASSUME NEW w, Whole(x, s, w) PROVE Places(e1, w, k + 1) \/ Passed(x, e1, k + 1, w)
  <2>1. CASE Passed(x, e, k, w)
    BY <1>2, <2>1, PassedLonger
  <2>2. CASE Places(e, w, k) /\ w[k + 1] \in U
    <3>1. Places(e1, w, k)
      BY <1>2, <2>2, PassedLonger
    <3>2. CASE w[k + 1] = t
      <4>1. \A i \in 1 .. k + 1 : i \in 1 .. k \/ i = k + 1
        BY SubjectIs
      <4>. QED  BY <1>2, <3>1, <3>2, <4>1 DEF Places
    <3>3. CASE Prefers(x, k, t, w[k + 1])
      <4>1. k \in 1 .. k + 1 - 1
        BY SubjectIs
      <4>. QED  BY <1>2, <3>1, <3>3, <4>1 DEF Passed
    <3>. QED  BY <2>2, <3>2, <3>3
  <2>. QED  BY <1>3, <2>1, <2>2 DEF Open
<1>4. e1[k] = e[k] /\ Places(e, e1, k)
  BY <1>2, SubjectIs DEF Places
<1>. QED  BY <1>2, <1>3, <1>4

(* match goes on with the next item. *)
LEMMA Goes ==
  ASSUME NEW x \in Subjects, NEW s \in 1 .. SrcEnd(x), NEW k \in 1 .. Len(x.pat), NEW e, NEW U, NEW c, NEW calls,
         Open(x, s, e, k, U, c, calls), NEW t \in Reach(x, e, k), \A u \in U : u = t \/ Prefers(x, k, t, u),
         ~IsCapture(x.pat, k), \A u \in Reach(x, e, k) : ~Prefers(x, k, t, u)
  PROVE  \E e1 : Branch(x, s, e1, k + 1, c, calls) /\ e1[k + 1] = t
<1>1. Captures(x, e, k, c) /\ Stack(x, e, k, calls) /\ c \in CaptureLists
  BY DEF Open, At
<1>2. PICK e1 : /\ Path(x, s, k + 1, e1) /\ e1[k + 1] = t /\ Places(e1, e, k) /\ Places(e, e1, k)
                /\ \A w : Whole(x, s, w) => Places(e1, w, k + 1) \/ Passed(x, e1, k + 1, w)
  BY Onward
<1>3. NoLater(x, e1, k)
  <2>1. Reach(x, e1, k) = Reach(x, e, k)
    BY <1>2, ReachSame
  <2>. QED  BY <1>2, <2>1 DEF NoLater
<1>4. Stack(x, e1, k + 1, calls)
  BY <1>1, <1>2, <1>3, StackLonger
<1>5. Captures(x, e1, k + 1, c)
  BY <1>1, <1>2, CapturesSkip
<1>. QED  BY <1>1, <1>2, <1>4, <1>5 DEF Branch, At

(* A function calls match for the next item. *)
LEMMA Calls ==
  ASSUME NEW x \in Subjects, NEW s \in 1 .. SrcEnd(x), NEW k \in 1 .. Len(x.pat), NEW e, NEW U, NEW c, NEW calls,
         Open(x, s, e, k, U, c, calls), NEW t \in Reach(x, e, k), \A u \in U : u = t \/ Prefers(x, k, t, u),
         NEW d \in CaptureLists, \A w : Places(e, w, k) => Captures(x, w, k + 1, d),
         NEW f \in CallSet, f.p = k, Frame(x, e[k], t, f)
  PROVE  \E e1 : Branch(x, s, e1, k + 1, d, Append(calls, f)) /\ e1[k + 1] = t
<1>1. Stack(x, e, k, calls)
  BY DEF Open, At
<1>2. PICK e1 : /\ Path(x, s, k + 1, e1) /\ e1[k + 1] = t /\ e1[k] = e[k] /\ Places(e1, e, k) /\ Places(e, e1, k)
                /\ \A w : Whole(x, s, w) => Places(e1, w, k + 1) \/ Passed(x, e1, k + 1, w)
  BY Onward
<1>3. Stack(x, e1, k + 1, Append(calls, f))
  BY <1>1, <1>2, StackLonger
<1>. QED  BY <1>2, <1>3 DEF Branch, At

(* Back to item j: the captures are those of the items before it, and the stack what is left. *)
LEMMA CapturesBack ==
  ASSUME NEW x \in Subjects, NEW k \in 1 .. Len(x.pat) + 1, NEW e, NEW j \in 1 .. k, NEW c, Captures(x, e, k, c),
         \A q \in j .. k - 1 : ~IsCapture(x.pat, q), NEW w, Places(w, e, j)
  PROVE  Captures(x, w, j, c)
<1>. DEFINE S == {n \in 0 .. k - j : Captures(x, e, k - n, c)}
<1>1. k \in Nat /\ j \in Nat \ {0} /\ k - j \in Nat /\ j <= k /\ Len(x.pat) \in Nat
  BY SubjectIs
<1>2. 0 \in S
  BY <1>1
<1>3. ASSUME NEW n \in 0 .. k - j - 1, n \in S PROVE n + 1 \in S
  <2>. DEFINE q == k - n - 1
  <2>1. q \in 1 .. Len(x.pat) /\ q \in j .. k - 1 /\ q + 1 = k - n /\ k - (n + 1) = q
    BY <1>1
  <2>2. Captures(x, e, q + 1, c)
    BY <1>3, <2>1
  <2>3. ~IsCapture(x.pat, q) /\ Places(e, e, q)
    BY <2>1 DEF Places
  <2>. HIDE DEF q
  <2>4. Captures(x, e, q, c)
    BY <2>1, <2>2, <2>3, CapturesSkip
  <2>. QED  BY <1>1, <2>1, <2>4
<1>4. 0 .. k - j \subseteq S
  <2>1. \A n \in 0 .. k - j - 1 : n \in S => n + 1 \in S
    BY <1>3
  <2>. HIDE DEF S
  <2>. QED  BY <1>1, <1>2, <2>1, Upward
<1>5. Captures(x, e, j, c)
  <2>1. k - j \in 0 .. k - j /\ k - (k - j) = j
    BY <1>1
  <2>. QED  BY <1>4, <2>1
<1>6. \A i \in 1 .. j : w[i] = e[i]
  BY DEF Places
<1>7. ASSUME NEW g \in 1 .. j - 1 PROVE w[g] = e[g] /\ CaptureLen(x, w, j, g) = CaptureLen(x, e, j, g)
  <2>1. w[g] = e[g]
    BY <1>1, <1>6
  <2>2. CASE ClosersBefore(x.pat, j, g) = {}
    <3>1. CaptureLen(x, w, j, g) = IF x.pat[g][1] = "()" THEN CAP_POSITION ELSE CAP_UNFINISHED
      BY <2>2 DEF CaptureLen
    <3>2. CaptureLen(x, e, j, g) = IF x.pat[g][1] = "()" THEN CAP_POSITION ELSE CAP_UNFINISHED
      BY <2>2 DEF CaptureLen
    <3>. QED  BY <2>1, <3>1, <3>2
  <2>3. CASE ClosersBefore(x.pat, j, g) # {}
    <3>1. PICK h \in g + 1 .. j - 1 : Closes(x.pat, h, g)
      BY <2>3 DEF ClosersBefore
    <3>2. ClosersBefore(x.pat, j, g) = {h} /\ Min({h}) = h
      <4>1. j \in 1 .. Len(x.pat) + 1 /\ IsPattern(x.pat)
        BY <1>1, SubjectIs
      <4>. QED  BY <3>1, <4>1, CloserIs
    <3>3. w[h] = e[h]
      BY <1>1, <1>6
    <3>. QED  BY <2>1, <3>2, <3>3 DEF CaptureLen
  <2>. QED  BY <2>1, <2>2, <2>3
<1>. QED  BY ONLY <1>5, <1>7 DEF Captures

(* The last function that waits. *)
TopAt(calls) == IF calls = <<>> THEN 1 ELSE calls[Len(calls)].p + 1

(* No way is left from item k on: the last function that waits gets nullptr. *)
LEMMA Fails ==
  ASSUME NEW x \in Subjects, NEW s \in 1 .. SrcEnd(x), NEW k \in 1 .. Len(x.pat) + 1, NEW e, NEW c, NEW calls,
         Open(x, s, e, k, {}, c, calls)
  PROVE  TopAt(calls) \in 1 .. k /\ \E e1 : Open(x, s, e1, TopAt(calls), {}, c, calls)
<1>. DEFINE j == TopAt(calls)
            e1 == SubSeq(e, 1, j)
            n == Len(calls)
<1>1. Path(x, s, k, e) /\ Captures(x, e, k, c) /\ Stack(x, e, k, calls) /\ c \in CaptureLists
  BY DEF Open, At
<1>2. k \in Nat \ {0} /\ Len(x.pat) \in Nat /\ calls \in Seq(CallSet) /\ n \in Nat
  BY <1>1, SubjectIs DEF Stack
<1>3. j \in 1 .. k /\ j \in Nat \ {0} /\ \A i \in 1 .. n : calls[i].p \in 1 .. j - 1
  <2>1. CASE calls = <<>>
    BY <1>2, <2>1 DEF TopAt
  <2>2. CASE calls # <<>>
    <3>1. n \in 1 .. n /\ j = calls[n].p + 1 /\ \A i \in 1 .. n : i < n \/ i = n
      BY <1>2, <2>2 DEF TopAt
    <3>2. \A i \in 1 .. n : calls[i].p \in 1 .. k - 1
      BY <1>1 DEF Stack
    <3>3. \A i \in 1 .. n : i < n => calls[i].p < calls[n].p
      BY <1>1, <3>1 DEF Stack
    <3>. HIDE DEF j, n
    <3>4. j \in 1 .. k /\ j \in Nat \ {0}
      BY <1>2, <3>1, <3>2
    <3>5. \A i \in 1 .. n : calls[i].p \in Nat /\ 1 <= calls[i].p
      BY <1>2, <3>2
    <3>6. \A i \in 1 .. n : calls[i].p <= calls[n].p
      BY <3>1, <3>3, <3>5
    <3>. QED  BY <3>1, <3>4, <3>5, <3>6
  <2>. QED  BY <2>1, <2>2
<1>. HIDE DEF j
<1>4. Path(x, s, j, e1) /\ Places(e1, e, j)
  BY <1>1, <1>3, PathShorter
<1>. HIDE DEF e1
<1>5. \A q \in j .. k - 1 : ~Waits(calls, q) /\ ~IsCapture(x.pat, q) /\ NoLater(x, e, q)
  <2>1. \A q \in j .. k - 1 : q \in 1 .. k - 1 /\ ~Waits(calls, q)
    BY <1>2, <1>3 DEF Waits
  <2>. QED  BY <1>1, <2>1 DEF Stack
<1>6. Captures(x, e1, j, c)
  BY <1>1, <1>3, <1>4, <1>5, CapturesBack
<1>7. Stack(x, e1, j, calls)
  <2>1. \A q \in 1 .. j - 1 : e1[q] = e[q] /\ e1[q + 1] = e[q + 1] /\ q \in 1 .. k - 1
    BY <1>2, <1>3, <1>4 DEF Places
  <2>2. \A q \in 1 .. j - 1 : NoLater(x, e, q) <=> NoLater(x, e1, q)
    <3>1. ASSUME NEW q \in 1 .. j - 1 PROVE NoLater(x, e, q) <=> NoLater(x, e1, q)
      <4>1. q \in 1 .. Len(x.pat) /\ Places(e, e1, q)
        BY <1>2, <1>3, <1>4 DEF Places
      <4>2. Reach(x, e, q) = Reach(x, e1, q)
        BY <4>1, ReachSame
      <4>. QED  BY <2>1, <4>2 DEF NoLater
    <3>. QED  BY <3>1
  <2>3. \A i \in 1 .. Len(calls) : calls[i].p \in 1 .. j - 1 /\ Frame(x, e1[calls[i].p], e1[calls[i].p + 1], calls[i])
    BY <1>1, <1>3, <2>1 DEF Stack
  <2>. QED  BY <1>1, <2>1, <2>2, <2>3 DEF Stack
<1>8. ASSUME NEW w, Whole(x, s, w) PROVE Passed(x, e1, j, w)
  <2>1. PICK q \in 1 .. k - 1 : Places(e, w, q) /\ Prefers(x, q, e[q + 1], w[q + 1])
    BY <1>8 DEF Open, Passed
  <2>2. q \in 1 .. Len(x.pat) /\ q \in 1 .. Len(x.pat) + 1 - 1 /\ q \in Nat
    BY <1>2
  <2>3. w[q + 1] \in Reach(x, e, q)
    <3>1. w[q + 1] \in Reach(x, w, q)
      BY <1>8, <2>2 DEF Whole, Path
    <3>. QED  BY <2>1, <2>2, <3>1, ReachSame
  <2>4. q \notin j .. k - 1
    BY <1>5, <2>1, <2>3 DEF NoLater
  <2>5. q \in 1 .. j - 1
    BY <1>2, <1>3, <2>4
  <2>6. e1[q + 1] = e[q + 1] /\ Places(e1, w, q)
    BY <1>3, <1>4, <2>1, <2>5 DEF Places
  <2>. QED  BY <2>1, <2>5, <2>6 DEF Passed
<1>9. Open(x, s, e1, j, {}, c, calls)
  BY <1>1, <1>4, <1>6, <1>7, <1>8 DEF Open, At
<1>. QED  BY <1>3, <1>9 DEF j
(* match has failed in the function that waits for item k: the other ends of that item are left. *)
LEMMA Returns ==
  ASSUME NEW x \in Subjects, NEW s \in 1 .. SrcEnd(x), NEW calls, calls # <<>>, NEW k, k = calls[Len(calls)].p,
         k \in 1 .. Len(x.pat), NEW e, NEW c, Open(x, s, e, k + 1, {}, c, calls),
         NEW d \in CaptureLists, \A w : Places(w, e, k) => Captures(x, w, k, d)
  PROVE  \E e0, t : /\ Frame(x, e0[k], t, calls[Len(calls)]) /\ t \in Reach(x, e0, k)
                    /\ Open(x, s, e0, k, {u \in Reach(x, e0, k) : Prefers(x, k, t, u)}, d,
                            SubSeq(calls, 1, Len(calls) - 1))
<1>. DEFINE n == Len(calls)
            e0 == SubSeq(e, 1, k)
            front == SubSeq(calls, 1, n - 1)
            t == e[k + 1]
            U == {u \in Reach(x, e0, k) : Prefers(x, k, t, u)}
<1>1. k \in Nat \ {0} /\ Len(x.pat) \in Nat /\ k + 1 \in 1 .. Len(x.pat) + 1 /\ k \in 1 .. k + 1 /\ k + 1 - 1 = k
  BY SubjectIs
<1>2. Path(x, s, k + 1, e) /\ Stack(x, e, k + 1, calls)
  BY DEF Open, At
<1>3. Path(x, s, k, e0) /\ Places(e0, e, k)
  BY <1>1, <1>2, PathShorter
<1>. HIDE DEF e0
<1>4. /\ \A i \in 1 .. k : e0[i] = e[i]
      /\ Places(e, e0, k) /\ Reach(x, e0, k) = Reach(x, e, k)
  BY <1>3, ReachSame DEF Places
<1>5. t \in Reach(x, e0, k)
  BY <1>1, <1>2, <1>4 DEF Path
<1>6. calls \in Seq(CallSet) /\ n \in Nat /\ n - 1 \in Nat /\ n \in 1 .. n /\ calls[n].p = k
  BY <1>2 DEF Stack
<1>7. Frame(x, e0[k], t, calls[n])
  <2>1. Frame(x, e[k], e[k + 1], calls[n])
    BY <1>2, <1>6 DEF Stack
  <2>2. e0[k] = e[k]
    BY <1>1, <1>4
  <2>. QED  BY <2>1, <2>2
<1>8. front \in Seq(CallSet) /\ Len(front) = n - 1 /\ \A i \in 1 .. n - 1 : front[i] = calls[i]
  <2>1. front = SubSeq(calls, 1, n - 1) /\ Len(calls) = n
    OBVIOUS
  <2>. HIDE DEF front, n
  <2>. QED  BY <1>6, <2>1
<1>. HIDE DEF front, U
<1>9. Stack(x, e0, k, front)
  <2>1. \A i \in 1 .. n - 1 : i \in 1 .. n /\ calls[i].p \in 1 .. k - 1
    <3>1. \A i \in 1 .. n - 1 : i \in 1 .. n /\ i < n
      BY <1>6
    <3>2. \A i \in 1 .. n - 1 : calls[i].p < k /\ calls[i].p \in 1 .. k + 1 - 1
      BY <1>2, <1>6, <3>1 DEF Stack
    <3>. QED  BY <1>1, <3>1, <3>2
  <2>2. \A q \in 1 .. k - 1 : e0[q] = e[q] /\ e0[q + 1] = e[q + 1] /\ q \in 1 .. k + 1 - 1 /\ q # k
    BY <1>1, <1>4
  <2>3. \A q \in 1 .. k - 1 : NoLater(x, e, q) <=> NoLater(x, e0, q)
    <3>1. ASSUME NEW q \in 1 .. k - 1 PROVE NoLater(x, e, q) <=> NoLater(x, e0, q)
      <4>1. q \in 1 .. Len(x.pat) /\ Places(e, e0, q)
        BY <1>1, <1>4 DEF Places
      <4>2. Reach(x, e, q) = Reach(x, e0, q)
        BY <4>1, ReachSame
      <4>. QED  BY <2>2, <4>2 DEF NoLater
    <3>. QED  BY <3>1
  <2>4. \A q \in 1 .. k - 1 : Waits(calls, q) => Waits(front, q)
    <3>1. \A i \in 1 .. n : i \in 1 .. n - 1 \/ i = n
      BY <1>6
    <3>. QED  BY <1>6, <1>8, <2>2, <3>1 DEF Waits
  <2>5. \A i \in 1 .. Len(front) : /\ front[i].p \in 1 .. k - 1
                                   /\ Frame(x, e0[front[i].p], e0[front[i].p + 1], front[i])
    <3>1. ASSUME NEW i \in 1 .. Len(front)
          PROVE  front[i].p \in 1 .. k - 1 /\ Frame(x, e0[front[i].p], e0[front[i].p + 1], front[i])
      <4>1. i \in 1 .. n - 1 /\ i \in 1 .. Len(calls) /\ front[i] = calls[i]
        BY <1>8, <2>1
      <4>2. calls[i].p \in 1 .. k - 1 /\ Frame(x, e[calls[i].p], e[calls[i].p + 1], calls[i])
        BY <1>2, <2>1, <4>1 DEF Stack
      <4>. QED  BY <2>2, <4>1, <4>2
    <3>. QED  BY <3>1
  <2>6. \A i, j \in 1 .. Len(front) : i < j => front[i].p < front[j].p
    <3>1. ASSUME NEW i \in 1 .. Len(front), NEW j \in 1 .. Len(front), i < j PROVE front[i].p < front[j].p
      <4>1. i \in 1 .. Len(calls) /\ j \in 1 .. Len(calls) /\ front[i] = calls[i] /\ front[j] = calls[j]
        BY <1>8, <2>1
      <4>2. calls[i].p < calls[j].p
        BY <1>2, <3>1, <4>1 DEF Stack
      <4>. QED  BY <4>1, <4>2
    <3>. QED  BY <3>1
  <2>7. \A q \in 1 .. k - 1 : Waits(front, q) \/ (~IsCapture(x.pat, q) /\ NoLater(x, e0, q))
    BY <1>2, <2>2, <2>3, <2>4 DEF Stack
  <2>. QED  BY <1>8, <2>5, <2>6, <2>7 DEF Stack
<1>10. ASSUME NEW w, Whole(x, s, w) PROVE (Places(e0, w, k) /\ w[k + 1] \in U) \/ Passed(x, e0, k, w)
  <2>1. PICK q \in 1 .. k + 1 - 1 : Places(e, w, q) /\ Prefers(x, q, e[q + 1], w[q + 1])
    BY <1>10 DEF Open, Passed
  <2>2. CASE q = k
    <3>1. Places(e0, w, k)
      BY <1>4, <2>1, <2>2 DEF Places
    <3>2. w[k + 1] \in Reach(x, w, k) /\ Reach(x, w, k) = Reach(x, e0, k)
      <4>1. k \in 1 .. Len(x.pat) + 1 - 1
        BY <1>1
      <4>2. w[k + 1] \in Reach(x, w, k)
        BY <1>10, <4>1 DEF Whole, Path
      <4>. QED  BY <3>1, <4>2, ReachSame
    <3>. QED  BY <2>1, <2>2, <3>1, <3>2 DEF U
  <2>3. CASE q \in 1 .. k - 1
    <3>1. e0[q + 1] = e[q + 1] /\ Places(e0, w, q)
      BY <1>1, <1>4, <2>1, <2>3 DEF Places
    <3>. QED  BY <2>1, <2>3, <3>1 DEF Passed
  <2>. QED  BY <1>1, <2>2, <2>3
<1>11. Open(x, s, e0, k, U, d, front)
  BY <1>3, <1>9, <1>10 DEF Open, At
<1>. QED  BY <1>5, <1>7, <1>11 DEF U, front

-----------------------------------------------------------------------------
(* Where items end.                                                        *)
Run(x, k, s, t) == \A i \in s .. t - 1 : x.src[i] \in x.pat[k][2]

(* Where a class of characters with a suffix may end. *)
LEMMA SingleReach ==
  ASSUME NEW x, NEW k, NEW e, x.pat[k][1] = "single"
  PROVE  Reach(x, e, k) = {t \in e[k] .. SrcEnd(x) : t - e[k] \in Times(x.pat[k][3]) /\ Run(x, k, e[k], t)}
BY DEF Reach, Run

\* Item k ends at r only; or nowhere if r is 0.
EndsAt(x, e, k, r) == r \in Nat /\ Reach(x, e, k) = IF r = 0 THEN {} ELSE {r}

(* One more character. *)
LEMMA RunNext ==
  ASSUME NEW x \in Subjects, NEW k, NEW s \in 1 .. SrcEnd(x), NEW t \in s .. SrcEnd(x)
  PROVE  /\ Run(x, k, s, s)
         /\ Run(x, k, s, t + 1) /\ t < SrcEnd(x) <=> Run(x, k, s, t) /\ SingleMatch(x, t, k)
         /\ \A u \in s .. t : Run(x, k, s, t) => Run(x, k, s, u)
         /\ s < t /\ Run(x, k, s, t) => SingleMatch(x, s, k)
         /\ s < t => (Run(x, k, s, t) <=> SingleMatch(x, s, k) /\ Run(x, k, s + 1, t))
<1>1. SrcEnd(x) \in Nat /\ s \in Nat /\ t \in Nat
  BY SubjectIs
<1>2. t \in s .. t + 1 - 1 /\ \A i \in s .. t + 1 - 1 : i \in s .. t - 1 \/ i = t
  BY <1>1
<1>3. \A i \in s .. t - 1 : i \in s .. t + 1 - 1
  BY <1>1
<1>4. Run(x, k, s, s)
  BY <1>1 DEF Run
<1>5. Run(x, k, s, t + 1) /\ t < SrcEnd(x) <=> Run(x, k, s, t) /\ SingleMatch(x, t, k)
  BY <1>2, <1>3 DEF Run, SingleMatch
<1>6. \A u \in s .. t : Run(x, k, s, t) => Run(x, k, s, u)
  BY <1>1 DEF Run
<1>7. s < t => (Run(x, k, s, t) <=> SingleMatch(x, s, k) /\ Run(x, k, s + 1, t))
  <2>1. s < t => s \in s .. t - 1 /\ s < SrcEnd(x)
    BY <1>1
  <2>2. \A i \in s .. t - 1 : i = s \/ i \in s + 1 .. t - 1
    BY <1>1
  <2>3. \A i \in s + 1 .. t - 1 : i \in s .. t - 1
    BY <1>1
  <2>. QED  BY <2>1, <2>2, <2>3 DEF Run, SingleMatch
<1>. QED  BY <1>4, <1>5, <1>6, <1>7

(* The longest run. *)
LEMMA RepetitionsAre ==
  ASSUME NEW x \in Subjects, NEW k, NEW s \in 1 .. SrcEnd(x), NEW r, r = Repetitions(x, s, k)
  PROVE  r \in 0 .. SrcEnd(x) - s /\ \A t \in s .. SrcEnd(x) : Run(x, k, s, t) <=> t <= s + r
<1>. DEFINE n == SrcEnd(x) - s
            S == {i \in 0 .. n : \A j \in 0 .. i - 1 : SingleMatch(x, s + j, k)}
<1>1. SrcEnd(x) \in Nat /\ s \in Nat /\ n \in Nat
  BY SubjectIs
<1>2. ASSUME NEW t \in s .. SrcEnd(x) PROVE t - s \in 0 .. n /\ (Run(x, k, s, t) <=> t - s \in S)
  <2>1. t - s \in 0 .. n
    BY <1>1
  <2>2. \A j \in 0 .. t - s - 1 : s + j \in s .. t - 1 /\ s + j < SrcEnd(x)
    BY <1>1
  <2>3. \A i \in s .. t - 1 : i - s \in 0 .. t - s - 1 /\ s + (i - s) = i
    BY <1>1
  <2>4. Run(x, k, s, t) => t - s \in S
    BY <2>1, <2>2 DEF Run, SingleMatch
  <2>5. t - s \in S => Run(x, k, s, t)
    <3>1. SUFFICES ASSUME t - s \in S, NEW i \in s .. t - 1 PROVE x.src[i] \in x.pat[k][2]
      BY DEF Run
    <3>2. SingleMatch(x, s + (i - s), k)
      BY <2>3, <3>1
    <3>. QED  BY <2>3, <3>2 DEF SingleMatch
  <2>. QED  BY <2>1, <2>4, <2>5
<1>3. r \in S /\ \A i \in S : i <= r
  <2>1. S \in SUBSET (0 .. n) /\ S # {}
    <3>1. 0 \in S
      BY <1>1
    <3>. QED  BY <3>1
  <2>2. r = Max(S)
    BY DEF Repetitions
  <2>. HIDE DEF S, n
  <2>. QED  BY <1>1, <2>1, <2>2, LastIs
<1>4. ASSUME NEW i \in 0 .. r PROVE i \in S
  <2>1. r \in 0 .. n /\ \A j \in 0 .. r - 1 : SingleMatch(x, s + j, k)
    BY <1>3
  <2>2. i \in 0 .. n /\ \A j \in 0 .. i - 1 : j \in 0 .. r - 1
    BY <1>1, <2>1
  <2>. QED  BY <2>1, <2>2
<1>5. ASSUME NEW t \in s .. SrcEnd(x) PROVE Run(x, k, s, t) <=> t <= s + r
  <2>1. r \in 0 .. n
    BY <1>3
  <2>2. t - s \in S <=> t - s \in 0 .. r
    <3>1. t - s \in S => t - s <= r /\ t - s \in 0 .. n
      BY <1>3
    <3>. HIDE DEF S
    <3>. QED  BY <1>1, <1>4, <2>1, <3>1
  <2>. HIDE DEF S
  <2>. QED  BY <1>1, <1>2, <2>1, <2>2
<1>. QED  BY <1>3, <1>5

(* An item without suffix, and an optional one. *)
LEMMA OnceReach ==
  ASSUME NEW x \in Subjects, NEW k, NEW e, NEW s, s = e[k], s \in 1 .. SrcEnd(x), x.pat[k][1] = "single"
  PROVE  /\ x.pat[k][3] = "" => \A r : r = (IF SingleMatch(x, s, k) THEN s + 1 ELSE 0) => EndsAt(x, e, k, r)
         /\ x.pat[k][3] = "?" => Reach(x, e, k) = {s} \cup IF SingleMatch(x, s, k) THEN {s + 1} ELSE {}
<1>1. SrcEnd(x) \in Nat /\ s \in Nat /\ s \in s .. SrcEnd(x)
  BY SubjectIs
<1>2. Run(x, k, s, s) /\ (Run(x, k, s, s + 1) /\ s < SrcEnd(x) <=> SingleMatch(x, s, k))
  BY <1>1, RunNext
<1>3. Reach(x, e, k) = {t \in s .. SrcEnd(x) : t - s \in Times(x.pat[k][3]) /\ Run(x, k, s, t)}
  BY SingleReach
<1>4. ASSUME x.pat[k][3] = "" PROVE Reach(x, e, k) = IF SingleMatch(x, s, k) THEN {s + 1} ELSE {}
  <2>1. \A t \in s .. SrcEnd(x) : t - s \in Times("") <=> t = s + 1
    BY <1>1 DEF Times
  <2>2. \A t : t \in Reach(x, e, k) <=> t \in s .. SrcEnd(x) /\ t = s + 1 /\ Run(x, k, s, t)
    BY <1>3, <1>4, <2>1
  <2>3. s + 1 \in s .. SrcEnd(x) <=> s < SrcEnd(x)
    BY <1>1
  <2>4. \A t : t \in Reach(x, e, k) <=> t = s + 1 /\ SingleMatch(x, s, k)
    BY <1>2, <2>2, <2>3
  <2>. QED  BY <2>4
<1>5. ASSUME x.pat[k][3] = "?" PROVE Reach(x, e, k) = {s} \cup IF SingleMatch(x, s, k) THEN {s + 1} ELSE {}
  <2>1. \A t \in s .. SrcEnd(x) : t - s \in Times("?") <=> t = s \/ t = s + 1
    BY <1>1 DEF Times
  <2>2. \A t : t \in Reach(x, e, k) <=> t \in s .. SrcEnd(x) /\ (t = s \/ t = s + 1) /\ Run(x, k, s, t)
    BY <1>3, <1>5, <2>1
  <2>3. s + 1 \in s .. SrcEnd(x) <=> s < SrcEnd(x)
    BY <1>1
  <2>4. \A t : t \in Reach(x, e, k) <=> t = s \/ (t = s + 1 /\ SingleMatch(x, s, k))
    BY <1>1, <1>2, <2>2, <2>3
  <2>. QED  BY <2>4
<1>6. ASSUME x.pat[k][3] = "", NEW r, r = IF SingleMatch(x, s, k) THEN s + 1 ELSE 0 PROVE EndsAt(x, e, k, r)
  <2>1. CASE SingleMatch(x, s, k)
    <3>0. r = s + 1
      BY <1>6, <2>1
    <3>1. r # 0 /\ r \in Nat
      BY <1>1, <3>0
    <3>2. Reach(x, e, k) = {r}
      BY <1>4, <1>6, <2>1, <3>0
    <3>. QED  BY <3>1, <3>2 DEF EndsAt
  <2>2. CASE ~SingleMatch(x, s, k)
    BY <1>4, <1>6, <2>2 DEF EndsAt
  <2>. QED  BY <2>1, <2>2
<1>. QED  BY <1>5, <1>6

(* Repetitions. *)
LEMMA RepeatReach ==
  ASSUME NEW x \in Subjects, NEW k, NEW e, NEW s, s = e[k], s \in 1 .. SrcEnd(x), x.pat[k][1] = "single"
  PROVE  /\ x.pat[k][3] = "*" => Repetitions(x, s, k) \in Nat /\ Reach(x, e, k) = s .. s + Repetitions(x, s, k)
         /\ x.pat[k][3] = "+" /\ ~SingleMatch(x, s, k) => Reach(x, e, k) = {}
         /\ x.pat[k][3] = "+" /\ SingleMatch(x, s, k) =>
              /\ Repetitions(x, s + 1, k) \in Nat /\ s + 1 \in 1 .. SrcEnd(x)
              /\ Reach(x, e, k) = s + 1 .. s + 1 + Repetitions(x, s + 1, k)
<1>1. SrcEnd(x) \in Nat /\ s \in Nat /\ s \in s .. SrcEnd(x)
  BY SubjectIs
<1>2. Reach(x, e, k) = {t \in s .. SrcEnd(x) : t - s \in Times(x.pat[k][3]) /\ Run(x, k, s, t)}
  BY SingleReach
<1>3. ASSUME x.pat[k][3] = "*" PROVE Repetitions(x, s, k) \in Nat /\ Reach(x, e, k) = s .. s + Repetitions(x, s, k)
  <2>. DEFINE r == Repetitions(x, s, k)
  <2>1. r \in 0 .. SrcEnd(x) - s /\ \A t \in s .. SrcEnd(x) : Run(x, k, s, t) <=> t <= s + r
    BY RepetitionsAre
  <2>2. \A t \in s .. SrcEnd(x) : t - s \in Times("*")
    BY <1>1 DEF Times
  <2>. HIDE DEF r
  <2>3. \A t : t \in Reach(x, e, k) <=> t \in s .. SrcEnd(x) /\ t <= s + r
    BY <1>2, <1>3, <2>1, <2>2
  <2>4. \A t : t \in s .. SrcEnd(x) /\ t <= s + r <=> t \in s .. s + r
    BY <1>1, <2>1
  <2>5. Reach(x, e, k) = s .. s + r
    BY <2>3, <2>4
  <2>. QED  BY <1>1, <2>1, <2>5 DEF r
<1>4. ASSUME x.pat[k][3] = "+" PROVE \A t : t \in Reach(x, e, k) <=> t \in s + 1 .. SrcEnd(x) /\ SingleMatch(x, s, k) /\ Run(x, k, s + 1, t)
  <2>1. \A t \in s .. SrcEnd(x) : t - s \in Times("+") <=> t \in s + 1 .. SrcEnd(x)
    BY <1>1 DEF Times
  <2>2. \A t \in s + 1 .. SrcEnd(x) : t \in s .. SrcEnd(x) /\ s < t
    BY <1>1
  <2>3. \A t \in s + 1 .. SrcEnd(x) : Run(x, k, s, t) <=> SingleMatch(x, s, k) /\ Run(x, k, s + 1, t)
    BY <2>2, RunNext
  <2>4. \A t : t \in Reach(x, e, k) <=> t \in s + 1 .. SrcEnd(x) /\ Run(x, k, s, t)
    BY <1>2, <1>4, <2>1, <2>2
  <2>. QED  BY <2>3, <2>4
<1>5. ASSUME x.pat[k][3] = "+", SingleMatch(x, s, k)
      PROVE  /\ Repetitions(x, s + 1, k) \in Nat /\ s + 1 \in 1 .. SrcEnd(x)
             /\ Reach(x, e, k) = s + 1 .. s + 1 + Repetitions(x, s + 1, k)
  <2>. DEFINE r == Repetitions(x, s + 1, k)
              v == s + 1
  <2>1. v \in 1 .. SrcEnd(x) /\ v \in Nat
    BY <1>1, <1>5 DEF SingleMatch
  <2>2. r \in 0 .. SrcEnd(x) - v /\ \A t \in v .. SrcEnd(x) : Run(x, k, v, t) <=> t <= v + r
    <3>1. r = Repetitions(x, v, k)
      OBVIOUS
    <3>. HIDE DEF r, v
    <3>. QED  BY <2>1, <3>1, RepetitionsAre
  <2>3. \A t : t \in Reach(x, e, k) <=> t \in v .. SrcEnd(x) /\ Run(x, k, v, t)
    BY <1>4, <1>5
  <2>. HIDE DEF r, v
  <2>4. \A t : t \in Reach(x, e, k) <=> t \in v .. SrcEnd(x) /\ t <= v + r
    BY <2>2, <2>3
  <2>5. \A t : t \in v .. SrcEnd(x) /\ t <= v + r <=> t \in v .. v + r
    BY <1>1, <2>1, <2>2
  <2>6. Reach(x, e, k) = v .. v + r
    BY <2>4, <2>5
  <2>. QED  BY <1>1, <2>1, <2>2, <2>6 DEF r, v
<1>6. ASSUME x.pat[k][3] = "+", ~SingleMatch(x, s, k) PROVE Reach(x, e, k) = {}
  BY <1>4, <1>6
<1>. QED  BY <1>3, <1>5, <1>6

(* As few repetitions as possible. *)
LEMMA LazyReach ==
  ASSUME NEW x \in Subjects, NEW k, NEW e, e[k] \in 1 .. SrcEnd(x), x.pat[k][1] = "single", x.pat[k][3] = "-"
  PROVE  /\ e[k] \in Reach(x, e, k) /\ \A t \in Reach(x, e, k) : t >= e[k] /\ t \in Nat
         /\ \A t \in Reach(x, e, k) : SingleMatch(x, t, k) <=> t + 1 \in Reach(x, e, k)
         /\ \A t, u \in Reach(x, e, k) : t < u => t + 1 \in Reach(x, e, k)
<1>. DEFINE s == e[k]
<1>1. SrcEnd(x) \in Nat /\ s \in Nat /\ s \in s .. SrcEnd(x)
  BY SubjectIs
<1>2. \A t : t \in Reach(x, e, k) <=> t \in s .. SrcEnd(x) /\ Run(x, k, s, t)
  <2>1. \A t \in s .. SrcEnd(x) : t - s \in Times("-")
    BY <1>1 DEF Times
  <2>2. Reach(x, e, k) = {t \in s .. SrcEnd(x) : t - s \in Times(x.pat[k][3]) /\ Run(x, k, s, t)}
    BY SingleReach
  <2>. QED  BY <2>1, <2>2
<1>. HIDE DEF s
<1>3. s \in 1 .. SrcEnd(x)
  BY DEF s
<1>4. s \in Reach(x, e, k)
  BY <1>1, <1>2, <1>3, RunNext
<1>5. \A t \in Reach(x, e, k) : t >= s /\ t \in Nat
  BY <1>1, <1>2
<1>6. ASSUME NEW t \in Reach(x, e, k) PROVE SingleMatch(x, t, k) <=> t + 1 \in Reach(x, e, k)
  <2>1. t \in s .. SrcEnd(x) /\ Run(x, k, s, t)
    BY <1>2
  <2>2. Run(x, k, s, t + 1) /\ t < SrcEnd(x) <=> SingleMatch(x, t, k)
    BY <1>3, <2>1, RunNext
  <2>3. t + 1 \in s .. SrcEnd(x) <=> t < SrcEnd(x)
    BY <1>1, <2>1
  <2>. QED  BY <1>2, <2>2, <2>3
<1>7. ASSUME NEW t \in Reach(x, e, k), NEW u \in Reach(x, e, k), t < u PROVE t + 1 \in Reach(x, e, k)
  <2>1. u \in s .. SrcEnd(x) /\ Run(x, k, s, u) /\ t \in s .. SrcEnd(x)
    BY <1>2
  <2>2. t + 1 \in s .. u /\ t + 1 \in s .. SrcEnd(x)
    BY <1>1, <1>7, <2>1
  <2>3. Run(x, k, s, t + 1)
    BY <1>3, <2>1, <2>2, RunNext
  <2>. QED  BY <1>2, <2>2, <2>3
<1>. QED  BY <1>4, <1>5, <1>6, <1>7 DEF s

(* What is left of %b after its first character: one more closing character than others. *)
FirstOdd(x, s, t, open, c) ==
  /\ t > s /\ x.src[s] \in open
  /\ \A u \in s .. t - 1 : (u # s /\ Count(x, {c}, s + 1, u) = 1 + Count(x, open \ {c}, s + 1, u)) <=> u = t - 1

(* The reference says of %b what matchbalance counts. *)
LEMMA BalancedIs ==
  ASSUME NEW x \in Subjects, NEW s \in 1 .. SrcEnd(x), NEW t \in s .. SrcEnd(x), NEW open, NEW c
  PROVE  IsBalanced(x, s, t, open, c) <=> FirstOdd(x, s, t, open, c)
<1>. DEFINE Opening(u) == {i \in s .. u - 1 : i = s \/ x.src[i] \in open \ {c}}
            Closing(u) == {i \in s + 1 .. u - 1 : x.src[i] = c}
            O(u) == {i \in s + 1 .. u : x.src[i] \in open \ {c}}
            C(u) == {i \in s + 1 .. u : x.src[i] \in {c}}
            Even(u) == Cardinality(Opening(u)) = Cardinality(Closing(u))
            Odd(u) == u # s /\ Cardinality(C(u)) = 1 + Cardinality(O(u))
<1>1. SrcEnd(x) \in Nat /\ s \in Nat /\ t \in Nat
  BY SubjectIs
<1>2. ASSUME NEW u \in s .. t - 1 PROVE Even(u + 1) <=> Odd(u)
  <2>1. Opening(u + 1) = O(u) \cup {s} /\ s \notin O(u) /\ Closing(u + 1) = C(u)
    BY <1>1
  <2>2. IsFiniteSet(O(u)) /\ IsFiniteSet(C(u))
    <3>1. IsFiniteSet(s + 1 .. u)
      <4>1. s + 1 \in Int /\ u \in Int
        BY <1>1
      <4>. QED  BY <4>1, FS_Interval
    <3>2. O(u) \subseteq s + 1 .. u /\ C(u) \subseteq s + 1 .. u
      OBVIOUS
    <3>. HIDE DEF O, C
    <3>. QED  BY <3>1, <3>2, FS_Subset
  <2>3. u = s => C(u) = {}
    BY <1>1
  <2>. HIDE DEF O, C, Opening, Closing
  <2>4. Cardinality(O(u)) \in Nat /\ Cardinality(C(u)) \in Nat
    BY <2>2, FS_CardinalityType
  <2>5. Cardinality(O(u) \cup {s}) = Cardinality(O(u)) + 1
    BY <2>1, <2>2, FS_AddElement
  <2>6. u = s => Cardinality(C(u)) = 0
    BY <2>3, FS_EmptySet
  <2>7. Cardinality(Opening(u + 1)) = Cardinality(O(u)) + 1 /\ Cardinality(Closing(u + 1)) = Cardinality(C(u))
    BY <2>1, <2>5
  <2>. QED  BY <2>4, <2>6, <2>7
<1>3. (\A u \in s + 1 .. t : Even(u) <=> u = t) <=> (\A u \in s .. t - 1 : Odd(u) <=> u = t - 1)
  <2>. HIDE DEF Even, Odd
  <2>1. \A u \in s + 1 .. t : u - 1 \in s .. t - 1 /\ u - 1 + 1 = u /\ (u = t <=> u - 1 = t - 1)
    BY <1>1
  <2>2. \A u \in s .. t - 1 : u + 1 \in s + 1 .. t /\ (u + 1 = t <=> u = t - 1)
    BY <1>1
  <2>3. ASSUME \A u \in s + 1 .. t : Even(u) <=> u = t PROVE \A u \in s .. t - 1 : Odd(u) <=> u = t - 1
    BY <1>2, <2>2, <2>3
  <2>4. ASSUME \A u \in s .. t - 1 : Odd(u) <=> u = t - 1, NEW u \in s + 1 .. t PROVE Even(u) <=> u = t
    <3>1. Even(u - 1 + 1) <=> Odd(u - 1)
      BY <1>2, <2>1
    <3>. QED  BY <2>1, <2>4, <3>1
  <2>. QED  BY <2>3, <2>4
<1>4. IsBalanced(x, s, t, open, c) <=> t > s /\ x.src[s] \in open /\ (\A u \in s + 1 .. t : Even(u) <=> u = t)
  BY DEF IsBalanced
<1>5. \A u : Odd(u) <=> u # s /\ Count(x, {c}, s + 1, u) = 1 + Count(x, open \ {c}, s + 1, u)
  BY DEF Count
<1>. HIDE DEF Even, Odd
<1>. QED  BY <1>3, <1>4, <1>5 DEF FirstOdd

(* matchbalance finds the end of the balanced characters. *)
LEMMA BalanceReach ==
  ASSUME NEW x \in Subjects, NEW k \in 1 .. Len(x.pat), NEW e, NEW s, s = e[k], s \in 1 .. SrcEnd(x),
         x.pat[k][1] = "%b", NEW r, r = MatchBalance(x, s, k)
  PROVE  EndsAt(x, e, k, r)
<1>. DEFINE open == x.pat[k][2]
            c == x.pat[k][3]
            Odd(u) == Count(x, {c}, s + 1, u) = 1 + Count(x, open \ {c}, s + 1, u)
            Ends == {t \in s + 1 .. Len(x.src) : Odd(t)}
<1>1. /\ SrcEnd(x) = Len(x.src) + 1 /\ Len(x.src) \in Nat /\ s \in Nat /\ SrcEnd(x) \in Nat
      /\ DOMAIN x.src = 1 .. Len(x.src)
  BY SubjectIs
<1>2. r = IF CharAt(x, s) \notin open \/ Ends = {} THEN 0 ELSE Min(Ends) + 1
  BY DEF MatchBalance
<1>3. \A t : t \in Reach(x, e, k) <=>
        /\ t \in s .. SrcEnd(x) /\ t > s /\ x.src[s] \in open
        /\ \A u \in s .. t - 1 : (u # s /\ Odd(u)) <=> u = t - 1
  <2>1. Reach(x, e, k) = {t \in s .. SrcEnd(x) : IsBalanced(x, s, t, open, c)}
    BY DEF Reach
  <2>2. ASSUME NEW t \in s .. SrcEnd(x)
        PROVE  IsBalanced(x, s, t, open, c) <=>
                 /\ t > s /\ x.src[s] \in open
                 /\ \A u \in s .. t - 1 : (u # s /\ Odd(u)) <=> u = t - 1
    <3>1. IsBalanced(x, s, t, open, c) <=> FirstOdd(x, s, t, open, c)
      <4>. HIDE DEF open, c
      <4>. QED  BY BalancedIs
    <3>. QED  BY <3>1 DEF FirstOdd
  <2>. HIDE DEF open, c, Odd
  <2>. QED  BY <2>1, <2>2
<1>4. \A t \in s .. SrcEnd(x) : t > s => CharAt(x, s) = x.src[s]
  BY <1>1 DEF CharAt
<1>. HIDE DEF Odd, open, c
<1>5. \A t : t \in Ends <=> t \in s + 1 .. Len(x.src) /\ Odd(t)
  OBVIOUS
<1>6. Ends # {} => Min(Ends) \in Ends /\ \A n \in Ends : Min(Ends) <= n
  <2>1. Ends \in SUBSET Nat
    BY <1>1
  <2>. HIDE DEF Ends
  <2>. QED  BY <2>1, FirstIs
<1>. HIDE DEF Ends
<1>7. ASSUME NEW t \in Reach(x, e, k) PROVE CharAt(x, s) \in open /\ Ends # {} /\ t = Min(Ends) + 1
  <2>1. /\ t \in s .. SrcEnd(x) /\ t > s /\ CharAt(x, s) \in open
        /\ \A u \in s .. t - 1 : (u # s /\ Odd(u)) <=> u = t - 1
    BY <1>3, <1>4
  <2>2. t - 1 \in s .. t - 1 /\ t \in Nat
    BY <1>1, <2>1
  <2>3. t - 1 # s /\ Odd(t - 1)
    BY <2>1, <2>2
  <2>4. t - 1 \in Ends
    BY <1>1, <1>5, <2>1, <2>2, <2>3
  <2>5. Min(Ends) \in s + 1 .. Len(x.src) /\ Odd(Min(Ends)) /\ Min(Ends) <= t - 1
    BY <1>5, <1>6, <2>4
  <2>6. Min(Ends) \in s .. t - 1 /\ Min(Ends) # s
    BY <1>1, <2>2, <2>5
  <2>7. Min(Ends) = t - 1
    BY <2>1, <2>5, <2>6
  <2>. QED  BY <2>1, <2>2, <2>4, <2>7
<1>8. ASSUME CharAt(x, s) \in open, Ends # {} PROVE Min(Ends) + 1 \in Reach(x, e, k) /\ Min(Ends) + 1 \in Nat \ {0}
  <2>. DEFINE m == Min(Ends)
              t == m + 1
  <2>1. m \in s + 1 .. Len(x.src) /\ Odd(m) /\ \A n \in Ends : m <= n
    BY <1>5, <1>6, <1>8
  <2>. HIDE DEF m
  <2>2. t \in s .. SrcEnd(x) /\ t > s /\ t - 1 = m /\ m # s /\ t \in Nat \ {0}
    BY <1>1, <2>1
  <2>3. ASSUME NEW u \in s .. t - 1 PROVE (u # s /\ Odd(u)) <=> u = t - 1
    <3>1. u # s /\ Odd(u) => u \in Ends
      BY <1>1, <1>5, <2>1
    <3>2. u # s /\ Odd(u) => m <= u
      BY <2>1, <3>1
    <3>. QED  BY <1>1, <2>1, <2>2, <3>2
  <2>4. x.src[s] \in open
    BY <1>4, <1>8, <2>2
  <2>. HIDE DEF t
  <2>5. t \in Reach(x, e, k)
    BY <1>3, <2>2, <2>3, <2>4
  <2>. QED  BY <2>2, <2>5 DEF t, m
<1>. QED  BY <1>2, <1>7, <1>8 DEF EndsAt

(* The frontier and the end of the string. *)
LEMMA EmptyReach ==
  ASSUME NEW x \in Subjects, NEW k, NEW e, NEW s, s = e[k], s \in 1 .. SrcEnd(x)
  PROVE  /\ x.pat[k][1] = "%f" => EndsAt(x, e, k, Frontier(x, s, k))
         /\ x.pat[k][1] = "$" => EndsAt(x, e, k, IF s = SrcEnd(x) THEN s ELSE 0)
         /\ x.pat[k][1] \in {"(", "()", ")"} => Reach(x, e, k) = {s}
<1>1. s # 0 /\ s \in Nat
  BY SubjectIs
<1>2. x.pat[k][1] = "%f" => EndsAt(x, e, k, Frontier(x, s, k))
  <2>1. x.pat[k][1] = "%f" => Reach(x, e, k) = IF Frontier(x, s, k) = 0 THEN {} ELSE {Frontier(x, s, k)}
    BY <1>1 DEF Reach, Frontier
  <2>2. Frontier(x, s, k) \in Nat
    BY <1>1 DEF Frontier
  <2>. QED  BY <2>1, <2>2 DEF EndsAt
<1>3. x.pat[k][1] = "$" => EndsAt(x, e, k, IF s = SrcEnd(x) THEN s ELSE 0)
  <2>1. x.pat[k][1] = "$" => Reach(x, e, k) = IF s = SrcEnd(x) THEN {s} ELSE {}
    BY DEF Reach
  <2>. QED  BY <1>1, <2>1 DEF EndsAt
<1>4. x.pat[k][1] \in {"(", "()", ")"} => Reach(x, e, k) = {s}
  BY DEF Reach
<1>. QED  BY <1>2, <1>3, <1>4

(* The text of a capture. *)
LEMMA DigitReach ==
  ASSUME NEW x \in Subjects, NEW k \in 1 .. Len(x.pat), NEW s0 \in 1 .. SrcEnd(x), NEW e, Path(x, s0, k, e),
         NEW c \in CaptureLists, Captures(x, e, k, c), x.pat[k][1] = "%digit",
         NEW s, s = e[k], NEW r, r = MatchCapture(x, c, s, x.pat[k][2])
  PROVE  EndsAt(x, e, k, r)
<1>. DEFINE pat == x.pat
            l == pat[k][2]
            Same(t, g, h) == /\ t - s = e[h] - e[g]
                             /\ \A i \in 0 .. t - s - 1 : x.src[s + i] = x.src[e[g] + i]
<1>1. /\ k \in Nat \ {0} /\ k \in 1 .. Len(pat) + 1 /\ Len(pat) \in Nat /\ k \in DOMAIN pat /\ IsPattern(pat)
      /\ DOMAIN pat = 1 .. Len(pat) /\ SrcEnd(x) \in Nat /\ s0 \in Nat
  BY SubjectIs
<1>2. (\A i \in 1 .. k : e[i] \in s0 .. SrcEnd(x)) /\ \A i, j \in 1 .. k : i <= j => e[i] <= e[j]
  BY <1>1, PathForward
<1>3. PICK g \in 1 .. k - 1 :
        /\ Starts(pat, g) /\ l = Level(pat, g) + 1
        /\ pat[g][1] = "(" => \E h \in g + 1 .. k - 1 : Closes(pat, h, g)
  BY <1>1 DEF IsPattern
<1>4. c[l] = [init |-> e[g], len |-> CaptureLen(x, e, k, g)]
  <2>1. CapturedAt(x, e, k, c, g)
    BY <1>1, <1>3, CaptureAt
  <2>. QED  BY <1>3, <2>1 DEF CapturedAt
<1>5. Reach(x, e, k) = {t \in s .. SrcEnd(x) : \E g1 \in 1 .. k - 1, h \in 1 .. k - 1 :
                           Starts(pat, g1) /\ l = Level(pat, g1) + 1 /\ Closes(pat, h, g1) /\ Same(t, g1, h)}
  BY DEF Reach
<1>6. \A g1 \in 1 .. k - 1 : Starts(pat, g1) /\ l = Level(pat, g1) + 1 => g1 = g
  <2>1. ASSUME NEW g1 \in 1 .. k - 1, Starts(pat, g1), l = Level(pat, g1) + 1 PROVE g1 = g
    <3>1. g1 \in Nat \ {0} /\ g \in Nat \ {0}
      BY <1>1
    <3>2. Level(pat, g1) \in Nat /\ Level(pat, g) \in Nat
      BY <3>1, LevelNext
    <3>3. g1 < g => Level(pat, g1) + 1 <= Level(pat, g)
      BY <2>1, <3>1, LevelsDiffer
    <3>4. g < g1 => Level(pat, g) + 1 <= Level(pat, g1)
      BY <1>3, <3>1, LevelsDiffer
    <3>. HIDE DEF l, pat
    <3>. QED  BY <1>3, <2>1, <3>1, <3>2, <3>3, <3>4
  <2>. QED  BY <2>1
<1>7. s \in 1 .. SrcEnd(x) /\ e[g] \in Nat
  <2>1. k \in 1 .. k /\ g \in 1 .. k
    BY <1>1
  <2>2. e[k] \in s0 .. SrcEnd(x) /\ e[g] \in s0 .. SrcEnd(x)
    BY <1>2, <2>1
  <2>. QED  BY <1>1, <2>2
<1>8. r = LET len == CaptureLen(x, e, k, g)
          IN  IF len >= 0 /\ SrcEnd(x) - s >= len /\ (\A i \in 0 .. len - 1 : x.src[s + i] = x.src[e[g] + i])
              THEN s + len ELSE 0
  BY <1>4 DEF MatchCapture
<1>9. CASE pat[g][1] = "()"
  <2>1. CaptureLen(x, e, k, g) = -2
    BY <1>9 DEF CaptureLen, CAP_POSITION
  <2>2. r = 0
    BY <1>8, <2>1
  <2>3. \A h \in 1 .. k - 1 : ~Closes(pat, h, g)
    <3>1. \A h \in 1 .. k - 1 : h \in DOMAIN pat
      BY <1>1
    <3>. QED  BY <1>1, <1>9, <3>1, OneCloser
  <2>4. Reach(x, e, k) = {}
    BY <1>5, <1>6, <2>3
  <2>. QED  BY <2>2, <2>4 DEF EndsAt
<1>10. CASE pat[g][1] = "("
  <2>1. PICK h \in g + 1 .. k - 1 : Closes(pat, h, g)
    BY <1>3, <1>10
  <2>2. ClosersBefore(pat, k, g) = {h} /\ Min({h}) = h
    BY <1>1, <2>1, CloserIs
  <2>. DEFINE len == e[h] - e[g]
  <2>3. CaptureLen(x, e, k, g) = len
    BY <1>10, <2>2 DEF CaptureLen
  <2>4. len \in Nat
    <3>1. h \in 1 .. k /\ g \in 1 .. k /\ g <= h
      BY <1>1, <2>1
    <3>2. e[g] <= e[h] /\ e[h] \in s0 .. SrcEnd(x)
      BY <1>2, <3>1
    <3>. QED  BY <1>1, <1>7, <3>2
  <2>5. r = IF SrcEnd(x) - s >= len /\ (\A i \in 0 .. len - 1 : x.src[s + i] = x.src[e[g] + i]) THEN s + len ELSE 0
    <3>. HIDE DEF len
    <3>. QED  BY <1>8, <2>3, <2>4
  <2>6. \A h1 \in 1 .. k - 1 : Closes(pat, h1, g) => h1 = h
    <3>1. \A h1 \in 1 .. k - 1 : h1 \in DOMAIN pat
      BY <1>1
    <3>2. h \in DOMAIN pat
      BY <1>1, <2>1
    <3>. QED  BY <1>1, <2>1, <3>1, <3>2, OneCloser
  <2>7. h \in 1 .. k - 1
    BY <1>1, <2>1
  <2>8. \A t : t \in Reach(x, e, k) <=> t \in s .. SrcEnd(x) /\ Same(t, g, h)
    <3>. HIDE DEF Same, pat, l
    <3>. QED  BY <1>3, <1>5, <1>6, <2>1, <2>6, <2>7
  <2>. HIDE DEF len
  <2>9. \A t \in s .. SrcEnd(x) : t - s = len <=> t = s + len
    <3>1. s \in Nat /\ SrcEnd(x) \in Nat
      BY <1>1, <1>7
    <3>. QED  BY ONLY <2>4, <3>1
  <2>10. s + len \in s .. SrcEnd(x) <=> SrcEnd(x) - s >= len
    <3>1. s \in Nat /\ SrcEnd(x) \in Nat
      BY <1>1, <1>7
    <3>. QED  BY ONLY <2>4, <3>1
  <2>11. s + len - s = len
    BY <1>7, <2>4
  <2>12. \A t : t \in Reach(x, e, k) <=> t \in s .. SrcEnd(x) /\ t = s + len
                                         /\ \A i \in 0 .. len - 1 : x.src[s + i] = x.src[e[g] + i]
    <3>1. \A t \in s .. SrcEnd(x) : Same(t, g, h) <=> t - s = len /\ \A i \in 0 .. len - 1 : x.src[s + i] = x.src[e[g] + i]
      BY DEF len
    <3>. HIDE DEF Same
    <3>. QED  BY <2>8, <2>9, <3>1
  <2>13. \A t : t \in Reach(x, e, k) <=> t = r /\ r # 0
    <3>1. s + len # 0
      BY <1>7, <2>4
    <3>. QED  BY <2>5, <2>10, <2>12, <3>1
  <2>14. r \in Nat
    BY <1>7, <2>4, <2>5
  <2>. QED  BY <2>13, <2>14 DEF EndsAt
<1>. QED  BY <1>3, <1>9, <1>10 DEF Starts
-----------------------------------------------------------------------------
(* The invariant of match.                                                 *)
MatcherState(x, start, pc, s, p, c, calls) ==
  [x |-> x, start |-> start, pc |-> pc, s |-> s, p |-> p, capture |-> c, calls |-> calls]

MatcherType(m) ==
  /\ m = MatcherState(m.x, m.start, m.pc, m.s, m.p, m.capture, m.calls)
  /\ m.x \in Subjects /\ m.start \in 1 .. SrcEnd(m.x) /\ m.pc \in {"match", "fail", "found"}
  /\ m.s \in Nat /\ m.p \in Nat /\ m.capture \in CaptureLists /\ m.calls \in Seq(CallSet)

\* match is at the place m.s of a way: every way that comes before is none.
Matching(m) == /\ m.p \in 1 .. Len(m.x.pat) + 1
               /\ \E e : Branch(m.x, m.start, e, m.p, m.capture, m.calls) /\ e[m.p] = m.s

\* match returns nullptr: every way up to those that the last function has tried is none.
Failing(m) == /\ TopAt(m.calls) \in 1 .. Len(m.x.pat) + 1
              /\ \E e : Open(m.x, m.start, e, TopAt(m.calls), {}, m.capture, m.calls)

Finding(m) == LET n == Len(m.x.pat) + 1
              IN  \E e : /\ Whole(m.x, m.start, e) /\ Captures(m.x, e, n, m.capture) /\ e[n] = m.s
                         /\ \A w : Whole(m.x, m.start, w) => Places(e, w, n) \/ Passed(m.x, e, n, w)

MatcherInv(m) == /\ MatcherType(m)
                 /\ m.pc = "match" => Matching(m)
                 /\ m.pc = "fail" => Failing(m)
                 /\ m.pc = "found" => Finding(m)

(* match goes on. *)
LEMMA ToMatch ==
  ASSUME NEW x \in Subjects, NEW start \in 1 .. SrcEnd(x), NEW p \in 1 .. Len(x.pat) + 1, NEW c, NEW calls,
         NEW s, NEW e, Branch(x, start, e, p, c, calls), e[p] = s
  PROVE  MatcherInv(MatcherState(x, start, "match", s, p, c, calls))
<1>. DEFINE m == MatcherState(x, start, "match", s, p, c, calls)
<1>1. /\ m.x = x /\ m.start = start /\ m.pc = "match" /\ m.s = s /\ m.p = p /\ m.capture = c /\ m.calls = calls
      /\ m = MatcherState(m.x, m.start, m.pc, m.s, m.p, m.capture, m.calls)
  BY DEF MatcherState
<1>2. Path(x, start, p, e) /\ c \in CaptureLists /\ calls \in Seq(CallSet)
  BY DEF Branch, At, Stack
<1>3. SrcEnd(x) \in Nat /\ Len(x.pat) \in Nat /\ p \in Nat /\ p \in 1 .. p /\ start \in Nat
  BY SubjectIs
<1>4. e[p] \in start .. SrcEnd(x)
  BY <1>2, <1>3, PathForward
<1>5. s \in Nat
  BY <1>3, <1>4
<1>. HIDE DEF m
<1>6. MatcherType(m)
  BY <1>1, <1>2, <1>3, <1>5 DEF MatcherType
<1>7. Matching(m)
  BY <1>1 DEF Matching
<1>. QED  BY <1>1, <1>6, <1>7 DEF MatcherInv, m

(* match returns nullptr. *)
LEMMA ToFail ==
  ASSUME NEW x \in Subjects, NEW start \in 1 .. SrcEnd(x), NEW k \in 1 .. Len(x.pat) + 1, NEW c, NEW calls,
         NEW s \in Nat, NEW p \in Nat, NEW e, Open(x, start, e, k, {}, c, calls)
  PROVE  MatcherInv(MatcherState(x, start, "fail", s, p, c, calls))
<1>. DEFINE m == MatcherState(x, start, "fail", s, p, c, calls)
<1>1. /\ m.x = x /\ m.start = start /\ m.pc = "fail" /\ m.s = s /\ m.p = p /\ m.capture = c /\ m.calls = calls
      /\ m = MatcherState(m.x, m.start, m.pc, m.s, m.p, m.capture, m.calls)
  BY DEF MatcherState
<1>2. c \in CaptureLists /\ calls \in Seq(CallSet)
  BY DEF Open, At, Stack
<1>3. TopAt(calls) \in 1 .. k /\ \E e1 : Open(x, start, e1, TopAt(calls), {}, c, calls)
  BY Fails
<1>4. TopAt(calls) \in 1 .. Len(x.pat) + 1
  BY <1>3, SubjectIs
<1>. HIDE DEF m
<1>5. MatcherType(m)
  BY <1>1, <1>2 DEF MatcherType
<1>6. Failing(m)
  BY <1>1, <1>3, <1>4 DEF Failing
<1>. QED  BY <1>1, <1>5, <1>6 DEF MatcherInv, m

(* An item that match is about to match. *)
ItemAhead(m, e) ==
  /\ m.x \in Subjects /\ m.start \in 1 .. SrcEnd(m.x) /\ m.p \in 1 .. Len(m.x.pat) /\ m.s \in 1 .. SrcEnd(m.x)
  /\ m.p \in Nat /\ m.s \in Nat /\ m.p + 1 \in 1 .. Len(m.x.pat) + 1 /\ m.p \in 1 .. Len(m.x.pat) + 1
  /\ m.capture \in CaptureLists /\ m.calls \in Seq(CallSet) /\ e[m.p] = m.s
  /\ Path(m.x, m.start, m.p, e) /\ Captures(m.x, e, m.p, m.capture)
  /\ Open(m.x, m.start, e, m.p, Reach(m.x, e, m.p), m.capture, m.calls)

(* At the place of a way there is an item in the pattern. *)
LEMMA ItemIsAhead ==
  ASSUME NEW m, MatcherInv(m), m.pc = "match", m.p <= Len(m.x.pat)
  PROVE  \E e : ItemAhead(m, e)
<1>1. MatcherType(m) /\ Matching(m)
  BY DEF MatcherInv
<1>2. /\ m.x \in Subjects /\ m.start \in 1 .. SrcEnd(m.x) /\ m.p \in Nat /\ m.s \in Nat
      /\ m.capture \in CaptureLists /\ m.calls \in Seq(CallSet)
  BY <1>1 DEF MatcherType
<1>3. PICK e : Branch(m.x, m.start, e, m.p, m.capture, m.calls) /\ e[m.p] = m.s
  BY <1>1 DEF Matching
<1>4. m.p \in 1 .. Len(m.x.pat) /\ m.p + 1 \in 1 .. Len(m.x.pat) + 1 /\ m.p \in 1 .. Len(m.x.pat) + 1 /\ m.p \in 1 .. m.p
  <2>1. m.p \in 1 .. Len(m.x.pat) + 1 /\ Len(m.x.pat) \in Nat
    BY <1>1, <1>2, SubjectIs DEF Matching
  <2>. QED  BY <1>2, <2>1
<1>5. Path(m.x, m.start, m.p, e) /\ Captures(m.x, e, m.p, m.capture)
  BY <1>3 DEF Branch, At
<1>6. Open(m.x, m.start, e, m.p, Reach(m.x, e, m.p), m.capture, m.calls)
  BY <1>2, <1>3, <1>4, BranchOpens
<1>7. m.s \in 1 .. SrcEnd(m.x)
  <2>1. e[m.p] \in m.start .. SrcEnd(m.x)
    BY <1>2, <1>4, <1>5, PathForward
  <2>2. SrcEnd(m.x) \in Nat /\ m.start \in Nat
    BY <1>2, SubjectIs
  <2>. QED  BY <1>2, <1>3, <2>1, <2>2
<1>. QED  BY <1>2, <1>3, <1>4, <1>5, <1>6, <1>7 DEF ItemAhead

(* goto init, after an item with one end, or none. *)
LEMMA GoToStep ==
  ASSUME NEW m, MatcherInv(m), NEW e, ItemAhead(m, e), NEW r, ~IsCapture(m.x.pat, m.p), EndsAt(m.x, e, m.p, r)
  PROVE  MatcherInv(GoTo(m, r))
<1>. DEFINE x == m.x
            k == m.p
<1>1. m = MatcherState(x, m.start, m.pc, m.s, k, m.capture, m.calls)
  BY DEF MatcherInv, MatcherType
<1>. USE DEF EndsAt
<1>2. CASE r = 0
  <2>1. GoTo(m, r) = MatcherState(x, m.start, "fail", m.s, k, m.capture, m.calls)
    BY <1>1, <1>2 DEF GoTo, MatcherState
  <2>2. Open(x, m.start, e, k, {}, m.capture, m.calls)
    BY <1>2 DEF ItemAhead
  <2>. QED  BY <2>1, <2>2, ToFail DEF ItemAhead
<1>3. CASE r # 0
  <2>1. GoTo(m, r) = MatcherState(x, m.start, "match", r, k + 1, m.capture, m.calls)
    BY <1>1, <1>3 DEF GoTo, MatcherState
  <2>2. ~Prefers(x, k, r, r)
    BY PrefersOne
  <2>3. PICK e1 : Branch(x, m.start, e1, k + 1, m.capture, m.calls) /\ e1[k + 1] = r
    <3>1. \A u \in Reach(x, e, k) : u = r \/ Prefers(x, k, r, u)
      BY <1>3
    <3>2. r \in Reach(x, e, k) /\ \A u \in Reach(x, e, k) : ~Prefers(x, k, r, u)
      BY <1>3, <2>2
    <3>. QED  BY <3>1, <3>2, Goes DEF ItemAhead
  <2>. QED  BY <2>1, <2>3, ToMatch DEF ItemAhead
<1>. QED  BY <1>2, <1>3

(* A call of match for the next item. *)
LEMMA CallingStep ==
  ASSUME NEW m, MatcherInv(m), NEW e, NEW k \in 1 .. Len(m.x.pat), NEW U, NEW c, NEW calls,
         Open(m.x, m.start, e, k, U, c, calls), NEW t \in Reach(m.x, e, k), \A u \in U : u = t \/ Prefers(m.x, k, t, u),
         NEW d \in CaptureLists, \A w : Places(e, w, k) => Captures(m.x, w, k + 1, d),
         NEW f \in CallSet, f.p = k, Frame(m.x, e[k], t, f)
  PROVE  MatcherInv(MatcherState(m.x, m.start, "match", t, k + 1, d, Append(calls, f)))
<1>1. m.x \in Subjects /\ m.start \in 1 .. SrcEnd(m.x)
  BY DEF MatcherInv, MatcherType
<1>2. PICK e1 : Branch(m.x, m.start, e1, k + 1, d, Append(calls, f)) /\ e1[k + 1] = t
  BY <1>1, Calls
<1>3. k + 1 \in 1 .. Len(m.x.pat) + 1
  BY <1>1, SubjectIs
<1>. QED  BY <1>1, <1>2, <1>3, ToMatch

(* The steps of match. *)
LEMMA MatchItemStep ==
  ASSUME MatcherInv(matcher), MatchItem
  PROVE  MatcherInv(matcher')
<1>. DEFINE m == matcher
            x == m.x
            k == m.p
<1>1. /\ m.pc = "match" /\ k <= Len(x.pat) /\ matcher' = GoTo(m, ItemEnd(m))
      /\ x.pat[k][1] \in {"%b", "%f", "%digit", "$"} \/ (x.pat[k][1] = "single" /\ x.pat[k][3] = "")
  BY DEF MatchItem, AtItem, AtSingle
<1>2. PICK e : ItemAhead(m, e)
  BY <1>1, ItemIsAhead
<1>3. /\ x \in Subjects /\ m.start \in 1 .. SrcEnd(x) /\ k \in 1 .. Len(x.pat) /\ m.s = e[k] /\ m.s \in 1 .. SrcEnd(x)
      /\ m.s \in Nat /\ Path(x, m.start, k, e) /\ m.capture \in CaptureLists /\ Captures(x, e, k, m.capture)
  BY <1>2 DEF ItemAhead
<1>. HIDE DEF m
<1>4. EndsAt(x, e, k, ItemEnd(m))
  <2>1. CASE x.pat[k][1] = "%b"
    <3>1. ItemEnd(m) = MatchBalance(x, m.s, k)
      BY <2>1 DEF ItemEnd
    <3>. QED  BY <1>3, <2>1, <3>1, BalanceReach
  <2>2. CASE x.pat[k][1] = "%f"
    <3>1. ItemEnd(m) = Frontier(x, m.s, k)
      BY <2>2 DEF ItemEnd
    <3>. QED  BY <1>3, <2>2, <3>1, EmptyReach
  <2>3. CASE x.pat[k][1] = "%digit"
    <3>1. ItemEnd(m) = MatchCapture(x, m.capture, m.s, x.pat[k][2])
      BY <2>3 DEF ItemEnd
    <3>. QED  BY <1>3, <2>3, <3>1, DigitReach
  <2>4. CASE x.pat[k][1] = "$"
    <3>1. ItemEnd(m) = IF m.s = SrcEnd(x) THEN m.s ELSE 0
      BY <2>4 DEF ItemEnd
    <3>. QED  BY <1>3, <2>4, <3>1, EmptyReach
  <2>5. CASE x.pat[k][1] = "single" /\ x.pat[k][3] = ""
    <3>1. ItemEnd(m) = IF SingleMatch(x, m.s, k) THEN m.s + 1 ELSE 0
      BY <2>5 DEF ItemEnd
    <3>. QED  BY <1>3, <2>5, <3>1, OnceReach
  <2>. QED  BY <1>1, <2>1, <2>2, <2>3, <2>4, <2>5
<1>5. ~IsCapture(x.pat, k)
  BY <1>1 DEF IsCapture
<1>6. MatcherInv(m)
  BY DEF m
<1>7. MatcherInv(GoTo(m, ItemEnd(m)))
  BY <1>2, <1>4, <1>5, <1>6, GoToStep
<1>. QED  BY <1>1, <1>7

(* start_capture calls match with one more capture. *)
LEMMA StartCaptureStep ==
  ASSUME MatcherInv(matcher), StartCapture
  PROVE  MatcherInv(matcher')
<1>. DEFINE m == matcher
            x == m.x
            k == m.p
            what == IF x.pat[k][1] = "()" THEN CAP_POSITION ELSE CAP_UNFINISHED
            v == [init |-> m.s, len |-> what]
            d == Append(m.capture, v)
            f == CallFrom("start_capture", m.s, k, 0)
<1>1. /\ m.pc = "match" /\ k <= Len(x.pat) /\ x.pat[k][1] \in {"(", "()"}
      /\ matcher' = Calling([m EXCEPT !.capture = d], f, m.s)
  BY DEF StartCapture, AtItem
<1>2. PICK e : ItemAhead(m, e)
  BY <1>1, ItemIsAhead
<1>3. /\ x \in Subjects /\ m.start \in 1 .. SrcEnd(x) /\ k \in 1 .. Len(x.pat) /\ m.s = e[k] /\ m.s \in 1 .. SrcEnd(x)
      /\ m.s \in Nat /\ k \in Nat /\ m.capture \in CaptureLists /\ Captures(x, e, k, m.capture)
      /\ Open(x, m.start, e, k, Reach(x, e, k), m.capture, m.calls)
  BY <1>2 DEF ItemAhead
<1>4. MatcherInv(m) /\ m = MatcherState(x, m.start, m.pc, m.s, k, m.capture, m.calls)
  BY DEF MatcherInv, MatcherType
<1>. HIDE DEF m
<1>5. matcher' = MatcherState(x, m.start, "match", m.s, k + 1, d, Append(m.calls, f))
  <2>. HIDE DEF d
  <2>. QED  BY <1>1, <1>4 DEF Calling, CallFrom, MatcherState
<1>6. Reach(x, e, k) = {m.s}
  BY <1>1, <1>3, EmptyReach
<1>7. Starts(x.pat, k)
  BY <1>1 DEF Starts
<1>8. ASSUME NEW w, Places(e, w, k) PROVE d \in CaptureLists /\ Captures(x, w, k + 1, d)
  <2>1. v = [init |-> e[k], len |-> IF x.pat[k][1] = "()" THEN CAP_POSITION ELSE CAP_UNFINISHED] /\ e[k] \in Nat
    BY <1>3
  <2>. HIDE DEF v
  <2>. QED  BY <1>3, <1>7, <1>8, <2>1, CapturesStart
<1>9. d \in CaptureLists
  <2>1. Places(e, e, k)
    BY DEF Places
  <2>. QED  BY <1>8, <2>1
<1>10. f \in CallSet /\ f.p = k /\ Frame(x, e[k], m.s, f)
  BY <1>3, <1>7 DEF CallFrom, CallSet, Frame
<1>. HIDE DEF d, f
<1>. QED  BY <1>3, <1>4, <1>5, <1>6, <1>8, <1>9, <1>10, CallingStep

(* end_capture calls match with the capture closed. *)
LEMMA EndCaptureStep ==
  ASSUME MatcherInv(matcher), EndCapture
  PROVE  MatcherInv(matcher')
<1>. DEFINE m == matcher
            x == m.x
            k == m.p
            c == m.capture
            l == CaptureToClose(c)
            d == [c EXCEPT ![l].len = m.s - c[l].init]
            f == CallFrom("end_capture", m.s, k, l)
<1>1. /\ m.pc = "match" /\ k <= Len(x.pat) /\ x.pat[k][1] = ")"
      /\ matcher' = Calling([m EXCEPT !.capture = d], f, m.s)
  BY DEF EndCapture, AtItem
<1>2. PICK e : ItemAhead(m, e)
  BY <1>1, ItemIsAhead
<1>3. /\ x \in Subjects /\ m.start \in 1 .. SrcEnd(x) /\ k \in 1 .. Len(x.pat) /\ m.s = e[k] /\ m.s \in 1 .. SrcEnd(x)
      /\ m.s \in Nat /\ k \in Nat /\ c \in CaptureLists /\ Captures(x, e, k, c) /\ Path(x, m.start, k, e)
      /\ Open(x, m.start, e, k, Reach(x, e, k), c, m.calls)
  BY <1>2 DEF ItemAhead
<1>4. MatcherInv(m) /\ m = MatcherState(x, m.start, m.pc, m.s, k, c, m.calls)
  BY DEF MatcherInv, MatcherType
<1>. HIDE DEF m
<1>5. matcher' = MatcherState(x, m.start, "match", m.s, k + 1, d, Append(m.calls, f))
  <2>. HIDE DEF d, l
  <2>. QED  BY <1>1, <1>4 DEF Calling, CallFrom, MatcherState
<1>6. Reach(x, e, k) = {m.s}
  BY <1>1, <1>3, EmptyReach
<1>. HIDE DEF c
<1>7. l = Level(x.pat, x.pat[k][2]) + 1 /\ l \in Nat
  <2>1. l = Level(x.pat, x.pat[k][2]) + 1 /\ x.pat[k][2] \in 1 .. k - 1
    BY <1>1, <1>3, CaptureToCloseIs
  <2>2. x.pat[k][2] \in Nat \ {0}
    BY <2>1
  <2>3. Level(x.pat, x.pat[k][2]) \in Nat
    BY <2>2, LevelNext, Zenon
  <2>. HIDE DEF l
  <2>. QED  BY <2>1, <2>3
<1>8. ASSUME NEW w, Places(e, w, k) PROVE d \in CaptureLists /\ Captures(x, w, k + 1, d)
  <2>1. d = [c EXCEPT ![l].len = e[k] - c[l].init]
    BY <1>3
  <2>. HIDE DEF d, l
  <2>2. /\ x \in Subjects /\ m.start \in 1 .. SrcEnd(x) /\ k \in 1 .. Len(x.pat) /\ Path(x, m.start, k, e)
        /\ x.pat[k][1] = ")" /\ c \in CaptureLists /\ Captures(x, e, k, c)
    BY <1>1, <1>3
  <2>3. Places(e, w, k)
    BY <1>8
  <2>. HIDE DEF x, k
  <2>. QED  BY ONLY <1>7, <2>1, <2>2, <2>3, CapturesEnd, Zenon
<1>9. d \in CaptureLists
  <2>1. Places(e, e, k)
    BY DEF Places
  <2>. QED  BY <1>8, <2>1
<1>10. f \in CallSet /\ f.p = k /\ Frame(x, e[k], m.s, f)
  <2>. HIDE DEF l
  <2>. QED  BY <1>1, <1>3, <1>7 DEF CallFrom, CallSet, Frame
<1>. HIDE DEF d, f, l
<1>. QED  BY <1>3, <1>4, <1>5, <1>6, <1>8, <1>9, <1>10, CallingStep

(* match at an item with the suffix `?'. *)
LEMMA OptionalStep ==
  ASSUME MatcherInv(matcher), Optional
  PROVE  MatcherInv(matcher')
<1>. DEFINE m == matcher
            x == m.x
            k == m.p
            f == CallFrom("match", m.s, k, 0)
<1>1. /\ m.pc = "match" /\ k <= Len(x.pat) /\ x.pat[k][1] = "single" /\ x.pat[k][3] = "?"
      /\ matcher' = IF SingleMatch(x, m.s, k) THEN Calling(m, f, m.s + 1) ELSE GoTo(m, m.s)
  BY DEF Optional, AtItem, AtSingle
<1>2. PICK e : ItemAhead(m, e)
  BY <1>1, ItemIsAhead
<1>3. /\ x \in Subjects /\ k \in 1 .. Len(x.pat) /\ m.s = e[k] /\ m.s \in 1 .. SrcEnd(x)
      /\ m.s \in Nat /\ k \in Nat /\ m.capture \in CaptureLists /\ Captures(x, e, k, m.capture)
      /\ Open(x, m.start, e, k, Reach(x, e, k), m.capture, m.calls)
  BY <1>2 DEF ItemAhead
<1>4. MatcherInv(m) /\ m = MatcherState(x, m.start, m.pc, m.s, k, m.capture, m.calls)
  BY DEF MatcherInv, MatcherType
<1>. HIDE DEF m
<1>5. Reach(x, e, k) = {m.s} \cup IF SingleMatch(x, m.s, k) THEN {m.s + 1} ELSE {}
  <2>. DEFINE s == m.s
  <2>1. s = e[k] /\ s \in 1 .. SrcEnd(x) /\ x \in Subjects /\ x.pat[k][1] = "single" /\ x.pat[k][3] = "?"
    BY <1>1, <1>3
  <2>. HIDE DEF s, x, k
  <2>2. Reach(x, e, k) = {s} \cup IF SingleMatch(x, s, k) THEN {s + 1} ELSE {}
    BY <2>1, OnceReach
  <2>. QED  BY <2>2 DEF s
<1>6. ~IsCapture(x.pat, k)
  BY <1>1 DEF IsCapture
<1>7. CASE SingleMatch(x, m.s, k)
  <2>1. matcher' = MatcherState(x, m.start, "match", m.s + 1, k + 1, m.capture, Append(m.calls, f))
    BY <1>1, <1>4, <1>7 DEF Calling, CallFrom, MatcherState
  <2>2. m.s + 1 \in Reach(x, e, k) /\ \A u \in Reach(x, e, k) : u = m.s + 1 \/ Prefers(x, k, m.s + 1, u)
    BY <1>1, <1>3, <1>5, <1>7 DEF Prefers
  <2>3. \A w : Places(e, w, k) => Captures(x, w, k + 1, m.capture)
    BY <1>3, <1>6, CapturesSkip
  <2>4. f \in CallSet /\ f.p = k /\ Frame(x, e[k], m.s + 1, f)
    BY <1>1, <1>3 DEF CallFrom, CallSet, Frame
  <2>. HIDE DEF f
  <2>. QED  BY <1>3, <1>4, <2>1, <2>2, <2>3, <2>4, CallingStep
<1>8. CASE ~SingleMatch(x, m.s, k)
  <2>1. EndsAt(x, e, k, m.s)
    BY <1>3, <1>5, <1>8 DEF EndsAt
  <2>2. matcher' = GoTo(m, m.s)
    BY <1>1, <1>8
  <2>. QED  BY <1>2, <1>4, <1>6, <2>1, <2>2, GoToStep
<1>. QED  BY <1>7, <1>8

(* max_expand calls match, after as many repetitions as there are. *)
LEMMA MaxExpandStep ==
  ASSUME NEW m, MatcherInv(m), NEW e, ItemAhead(m, e), m.x.pat[m.p][1] = "single", m.x.pat[m.p][3] \in {"*", "+"},
         NEW s \in Nat, s = m.s + IF m.x.pat[m.p][3] = "+" THEN 1 ELSE 0,
         NEW i \in Nat, i = Repetitions(m.x, s, m.p), Reach(m.x, e, m.p) = s .. s + i
  PROVE  MatcherInv(MaxExpand(m, s))
<1>. DEFINE x == m.x
            k == m.p
            t == s + i
            f == CallFrom("max_expand", s, k, i)
<1>1. /\ x \in Subjects /\ k \in 1 .. Len(x.pat) /\ m.s = e[k]
      /\ m.s \in Nat /\ k \in Nat /\ m.capture \in CaptureLists /\ Captures(x, e, k, m.capture)
      /\ Open(x, m.start, e, k, Reach(x, e, k), m.capture, m.calls)
  BY DEF ItemAhead
<1>2. m = MatcherState(x, m.start, m.pc, m.s, k, m.capture, m.calls)
  BY DEF MatcherInv, MatcherType
<1>3. MaxExpand(m, s) = MatcherState(x, m.start, "match", t, k + 1, m.capture, Append(m.calls, f))
  <2>1. MaxExpand(m, s) = Calling(m, f, t)
    BY DEF MaxExpand
  <2>. HIDE DEF t
  <2>. QED  BY <1>2, <2>1 DEF Calling, CallFrom, MatcherState
<1>4. t \in Reach(x, e, k) /\ \A u \in Reach(x, e, k) : u = t \/ Prefers(x, k, t, u)
  <2>1. t \in Reach(x, e, k) /\ \A u \in Reach(x, e, k) : u = t \/ t > u
    <3>1. s \in Nat /\ i \in Nat
      OBVIOUS
    <3>2. t \in s .. s + i /\ \A u \in s .. s + i : u = t \/ t > u
      BY ONLY <3>1
    <3>3. Reach(x, e, k) = s .. s + i
      OBVIOUS
    <3>. QED  BY ONLY <3>2, <3>3
  <2>2. x.pat[k][3] # "-"
    OBVIOUS
  <2>. HIDE DEF t
  <2>. QED  BY <2>1, <2>2 DEF Prefers
<1>5. ~IsCapture(x.pat, k)
  BY DEF IsCapture
<1>6. \A w : Places(e, w, k) => Captures(x, w, k + 1, m.capture)
  <2>1. x \in Subjects /\ k \in 1 .. Len(x.pat) /\ Captures(x, e, k, m.capture)
    BY <1>1
  <2>. QED  BY ONLY <1>5, <2>1, CapturesSkip, Zenon
<1>7. f \in CallSet /\ f.p = k /\ Frame(x, e[k], t, f)
  BY <1>1 DEF CallFrom, CallSet, Frame
<1>. HIDE DEF t, f
<1>8. MatcherInv(MatcherState(x, m.start, "match", t, k + 1, m.capture, Append(m.calls, f)))
  BY <1>1, <1>4, <1>6, <1>7, CallingStep, Zenon
<1>. QED  BY <1>3, <1>8, Zenon

(* match at an item with the suffix `*' or `+'. *)
LEMMA RepeatStep ==
  ASSUME MatcherInv(matcher), Repeat
  PROVE  MatcherInv(matcher')
<1>. DEFINE m == matcher
            x == m.x
            k == m.p
            plus == x.pat[k][3] = "+"
            s == IF plus THEN m.s + 1 ELSE m.s
            i == Repetitions(x, s, k)
<1>1. /\ m.pc = "match" /\ k <= Len(x.pat) /\ x.pat[k][1] = "single" /\ x.pat[k][3] \in {"*", "+"}
      /\ plus /\ ~SingleMatch(x, m.s, k) => matcher' = GoTo(m, 0)
      /\ ~(plus /\ ~SingleMatch(x, m.s, k)) => matcher' = MaxExpand(m, s)
  BY DEF Repeat, AtItem, AtSingle
<1>2. PICK e : ItemAhead(m, e)
  BY <1>1, ItemIsAhead
<1>3. x \in Subjects /\ k \in 1 .. Len(x.pat) /\ m.s = e[k] /\ m.s \in 1 .. SrcEnd(x) /\ m.s \in Nat
  BY <1>2 DEF ItemAhead
<1>4. MatcherInv(m)
  OBVIOUS
<1>. HIDE DEF m
<1>5. /\ x.pat[k][3] = "*" => Repetitions(x, m.s, k) \in Nat /\ Reach(x, e, k) = m.s .. m.s + Repetitions(x, m.s, k)
      /\ plus /\ ~SingleMatch(x, m.s, k) => Reach(x, e, k) = {}
      /\ plus /\ SingleMatch(x, m.s, k) =>
           /\ Repetitions(x, m.s + 1, k) \in Nat /\ m.s + 1 \in 1 .. SrcEnd(x)
           /\ Reach(x, e, k) = m.s + 1 .. m.s + 1 + Repetitions(x, m.s + 1, k)
  BY <1>1, <1>3, RepeatReach
<1>6. CASE plus /\ ~SingleMatch(x, m.s, k)
  <2>1. EndsAt(x, e, k, 0)
    BY <1>5, <1>6 DEF EndsAt
  <2>2. ~IsCapture(x.pat, k)
    BY <1>1 DEF IsCapture
  <2>3. matcher' = GoTo(m, 0)
    <3>. HIDE DEF x, k, plus, s
    <3>. QED  BY ONLY <1>1, <1>6, Zenon
  <2>. QED  BY <1>2, <1>4, <2>1, <2>2, <2>3, GoToStep
<1>7. CASE ~(plus /\ ~SingleMatch(x, m.s, k))
  <2>1. s \in Nat /\ s = m.s + IF x.pat[k][3] = "+" THEN 1 ELSE 0
    BY <1>3
  <2>2. i \in Nat /\ Reach(x, e, k) = s .. s + i
    <3>1. CASE plus
      BY <1>5, <1>7, <3>1
    <3>2. CASE ~plus
      BY <1>1, <1>5, <3>2
    <3>. QED  BY <3>1, <3>2
  <2>3. matcher' = MaxExpand(m, s) /\ i = Repetitions(x, s, k)
    BY <1>1, <1>7
  <2>. HIDE DEF s, i
  <2>. QED  BY <1>1, <1>2, <1>4, <2>1, <2>2, <2>3, MaxExpandStep
<1>. QED  BY <1>6, <1>7

(* match at an item with the suffix `-'. *)
LEMMA MinExpandStep ==
  ASSUME MatcherInv(matcher), MinExpand
  PROVE  MatcherInv(matcher')
<1>. DEFINE m == matcher
            x == m.x
            k == m.p
            f == CallFrom("min_expand", m.s, k, 0)
<1>1. /\ m.pc = "match" /\ k <= Len(x.pat) /\ x.pat[k][1] = "single" /\ x.pat[k][3] = "-"
      /\ matcher' = Calling(m, f, m.s)
  BY DEF MinExpand, AtItem, AtSingle
<1>2. PICK e : ItemAhead(m, e)
  BY <1>1, ItemIsAhead
<1>3. /\ x \in Subjects /\ k \in 1 .. Len(x.pat) /\ m.s = e[k] /\ e[k] \in 1 .. SrcEnd(x)
      /\ m.s \in Nat /\ k \in Nat /\ m.capture \in CaptureLists /\ Captures(x, e, k, m.capture)
      /\ Open(x, m.start, e, k, Reach(x, e, k), m.capture, m.calls)
  BY <1>2 DEF ItemAhead
<1>4. MatcherInv(m) /\ m = MatcherState(x, m.start, m.pc, m.s, k, m.capture, m.calls)
  BY DEF MatcherInv, MatcherType
<1>. HIDE DEF m
<1>5. matcher' = MatcherState(x, m.start, "match", m.s, k + 1, m.capture, Append(m.calls, f))
  BY <1>1, <1>4 DEF Calling, CallFrom, MatcherState
<1>6. m.s \in Reach(x, e, k) /\ \A u \in Reach(x, e, k) : u >= m.s /\ u \in Nat
  BY <1>1, <1>3, LazyReach
<1>7. \A u \in Reach(x, e, k) : u = m.s \/ Prefers(x, k, m.s, u)
  BY <1>1, <1>3, <1>6 DEF Prefers
<1>8. \A w : Places(e, w, k) => Captures(x, w, k + 1, m.capture)
  <2>1. ~IsCapture(x.pat, k)
    BY <1>1 DEF IsCapture
  <2>. QED  BY <1>3, <2>1, CapturesSkip
<1>9. f \in CallSet /\ f.p = k /\ Frame(x, e[k], m.s, f)
  BY <1>1, <1>3 DEF CallFrom, CallSet, Frame
<1>. HIDE DEF f
<1>. QED  BY <1>3, <1>4, <1>5, <1>6, <1>7, <1>8, <1>9, CallingStep

(* match at the end of the pattern. *)
LEMMA SucceedStep ==
  ASSUME MatcherInv(matcher), Succeed
  PROVE  MatcherInv(matcher')
<1>. DEFINE m == matcher
            n == MatcherState(m.x, m.start, "found", m.s, m.p, m.capture, <<>>)
<1>1. m.pc = "match" /\ m.p > Len(m.x.pat) /\ matcher' = [m EXCEPT !.pc = "found", !.calls = <<>>]
  BY DEF Succeed
<1>2. MatcherType(m) /\ Matching(m)
  BY <1>1 DEF MatcherInv
<1>3. matcher' = n
  BY <1>1, <1>2 DEF MatcherType, MatcherState
<1>4. m.p = Len(m.x.pat) + 1
  <2>1. m.x \in Subjects /\ m.p \in 1 .. Len(m.x.pat) + 1
    BY <1>2 DEF MatcherType, Matching
  <2>. QED  BY <1>1, <2>1, SubjectIs
<1>5. PICK e : Branch(m.x, m.start, e, m.p, m.capture, m.calls) /\ e[m.p] = m.s
  BY <1>2 DEF Matching
<1>. HIDE DEF m
<1>6. /\ n.x = m.x /\ n.start = m.start /\ n.pc = "found" /\ n.s = m.s /\ n.p = m.p /\ n.capture = m.capture
      /\ n.calls = <<>> /\ n = MatcherState(n.x, n.start, n.pc, n.s, n.p, n.capture, n.calls)
  BY DEF MatcherState
<1>. HIDE DEF n
<1>7. MatcherType(n)
  <2>1. <<>> \in Seq(CallSet)
    OBVIOUS
  <2>. QED  BY <1>2, <1>6, <2>1 DEF MatcherType
<1>8. Finding(n)
  BY <1>4, <1>5, <1>6 DEF Finding, Branch, At, Whole
<1>. QED  BY <1>3, <1>6, <1>7, <1>8 DEF MatcherInv

-----------------------------------------------------------------------------
(* The function that called match last gets nullptr. *)
FailedCall(m, f, front, e) ==
  /\ m.x \in Subjects /\ m.start \in 1 .. SrcEnd(m.x) /\ m.capture \in CaptureLists /\ m.calls \in Seq(CallSet)
  /\ m.s \in Nat /\ m.p \in Nat /\ f \in CallSet /\ m.calls # <<>> /\ f = m.calls[Len(m.calls)]
  /\ front = SubSeq(m.calls, 1, Len(m.calls) - 1)
  /\ f.p \in 1 .. Len(m.x.pat) /\ f.p + 1 \in 1 .. Len(m.x.pat) + 1 /\ f.p \in 1 .. Len(m.x.pat) + 1 /\ f.p \in Nat
  /\ Open(m.x, m.start, e, f.p + 1, {}, m.capture, m.calls)
  /\ Captures(m.x, e, f.p + 1, m.capture) /\ Frame(m.x, e[f.p], e[f.p + 1], f)

(* What the function that called match knows when that returns nullptr. *)
LEMMA CallHasFailed ==
  ASSUME NEW m, MatcherInv(m), m.pc = "fail", m.calls # <<>>
  PROVE  \E e : FailedCall(m, m.calls[Len(m.calls)], SubSeq(m.calls, 1, Len(m.calls) - 1), e)
<1>. DEFINE f == m.calls[Len(m.calls)]
            n == Len(m.calls)
<1>1. MatcherType(m) /\ Failing(m)
  BY DEF MatcherInv
<1>2. /\ m.x \in Subjects /\ m.start \in 1 .. SrcEnd(m.x) /\ m.capture \in CaptureLists /\ m.calls \in Seq(CallSet)
      /\ m.s \in Nat /\ m.p \in Nat
  BY <1>1 DEF MatcherType
<1>3. f \in CallSet /\ n \in 1 .. Len(m.calls)
  BY <1>2
<1>4. f.p \in Nat /\ Len(m.x.pat) \in Nat
  BY <1>2, <1>3, SubjectIs DEF CallSet
<1>5. TopAt(m.calls) = f.p + 1
  BY DEF TopAt
<1>6. PICK e : Open(m.x, m.start, e, f.p + 1, {}, m.capture, m.calls)
  BY <1>1, <1>5 DEF Failing
<1>7. Captures(m.x, e, f.p + 1, m.capture) /\ Stack(m.x, e, f.p + 1, m.calls)
  BY <1>6 DEF Open, At
<1>8. f.p \in 1 .. f.p + 1 - 1 /\ Frame(m.x, e[f.p], e[f.p + 1], f)
  BY <1>3, <1>7 DEF Stack
<1>9. f.p + 1 \in 1 .. Len(m.x.pat) + 1
  BY <1>1, <1>5 DEF Failing
<1>. HIDE DEF f
<1>10. f.p \in 1 .. Len(m.x.pat) /\ f.p \in 1 .. Len(m.x.pat) + 1
  BY <1>4, <1>8, <1>9
<1>11. FailedCall(m, f, SubSeq(m.calls, 1, Len(m.calls) - 1), e)
  BY <1>2, <1>3, <1>4, <1>6, <1>7, <1>8, <1>9, <1>10 DEF FailedCall, f
<1>. QED  BY <1>11 DEF f

\* The other ends of the item that the function waited for, when captures are d.
EndsLeft(m, f, front, d, e, t) ==
  /\ Frame(m.x, e[f.p], t, f) /\ t \in Reach(m.x, e, f.p) /\ e[f.p] \in 1 .. SrcEnd(m.x)
  /\ Path(m.x, m.start, f.p, e) /\ Captures(m.x, e, f.p, d)
  /\ Open(m.x, m.start, e, f.p, {u \in Reach(m.x, e, f.p) : Prefers(m.x, f.p, t, u)}, d, front)

(* The ends of its item that are left to it. *)
LEMMA EndsAreLeft ==
  ASSUME NEW m, NEW f, NEW front, NEW e, FailedCall(m, f, front, e),
         NEW d \in CaptureLists, \A w : Places(w, e, f.p) => Captures(m.x, w, f.p, d)
  PROVE  \E e0, t : EndsLeft(m, f, front, d, e0, t)
<1>. DEFINE x == m.x
            k == f.p
<1>1. /\ x \in Subjects /\ m.start \in 1 .. SrcEnd(x) /\ k \in 1 .. Len(x.pat) /\ k \in 1 .. Len(x.pat) + 1
      /\ m.calls # <<>> /\ f = m.calls[Len(m.calls)] /\ front = SubSeq(m.calls, 1, Len(m.calls) - 1)
      /\ k = m.calls[Len(m.calls)].p /\ k \in 1 .. k /\ k \in Nat
      /\ Open(x, m.start, e, k + 1, {}, m.capture, m.calls)
  BY DEF FailedCall
<1>. HIDE DEF k
<1>2. \A w : Places(w, e, k) => Captures(x, w, k, d)
  BY DEF k
<1>3. PICK e0, t : /\ Frame(x, e0[k], t, f) /\ t \in Reach(x, e0, k)
                   /\ Open(x, m.start, e0, k, {u \in Reach(x, e0, k) : Prefers(x, k, t, u)}, d, front)
  <2>. DEFINE calls == m.calls
              s == m.start
              c == m.capture
  <2>1. /\ s \in 1 .. SrcEnd(x) /\ calls # <<>> /\ k = calls[Len(calls)].p
        /\ Open(x, s, e, k + 1, {}, c, calls)
    BY <1>1
  <2>. HIDE DEF calls, s, c, x
  <2>2. \E e0, t : /\ Frame(x, e0[k], t, calls[Len(calls)]) /\ t \in Reach(x, e0, k)
                  /\ Open(x, s, e0, k, {u \in Reach(x, e0, k) : Prefers(x, k, t, u)}, d,
                          SubSeq(calls, 1, Len(calls) - 1))
    BY <1>1, <1>2, <2>1, Returns
  <2>. QED  BY <1>1, <2>2 DEF calls, s
<1>4. Path(x, m.start, k, e0) /\ Captures(x, e0, k, d)
  BY <1>3 DEF Open, At
<1>5. e0[k] \in 1 .. SrcEnd(x)
  <2>1. SrcEnd(x) \in Nat /\ m.start \in Nat
    BY <1>1, SubjectIs
  <2>2. e0[k] \in m.start .. SrcEnd(x)
    BY <1>1, <1>4, PathForward
  <2>. QED  BY <1>1, <2>1, <2>2
<1>6. EndsLeft(m, f, front, d, e0, t)
  BY <1>3, <1>4, <1>5 DEF EndsLeft, k
<1>. QED  BY <1>6

\* The same for an item that is no capture.
LEMMA EndsAreLeftSame ==
  ASSUME NEW m, NEW f, NEW front, NEW e, FailedCall(m, f, front, e), ~IsCapture(m.x.pat, f.p)
  PROVE  \E e0, t : EndsLeft(m, f, front, m.capture, e0, t)
<1>1. /\ m.x \in Subjects /\ f.p \in 1 .. Len(m.x.pat) /\ m.capture \in CaptureLists
      /\ Captures(m.x, e, f.p + 1, m.capture)
  BY DEF FailedCall
<1>2. \A w : Places(w, e, f.p) => Captures(m.x, w, f.p, m.capture)
  BY <1>1, CapturesSkip
<1>. QED  BY <1>1, <1>2, EndsAreLeft

\* A function called returns nullptr too.
LEMMA ReturnedStep ==
  ASSUME NEW m, NEW f, NEW front, NEW e, FailedCall(m, f, front, e), NEW d, NEW e0, NEW t,
         EndsLeft(m, f, front, d, e0, t), \A u \in Reach(m.x, e0, f.p) : ~Prefers(m.x, f.p, t, u)
  PROVE  MatcherInv(MatcherState(m.x, m.start, "fail", m.s, m.p, d, front))
<1>1. /\ m.x \in Subjects /\ m.start \in 1 .. SrcEnd(m.x) /\ m.s \in Nat /\ m.p \in Nat
      /\ f.p \in 1 .. Len(m.x.pat) + 1
  BY DEF FailedCall
<1>2. Open(m.x, m.start, e0, f.p, {}, d, front)
  <2>1. {u \in Reach(m.x, e0, f.p) : Prefers(m.x, f.p, t, u)} = {}
    OBVIOUS
  <2>. QED  BY <2>1 DEF EndsLeft
<1>. QED  BY <1>1, <1>2, ToFail

(* start_capture takes its capture back. *)
LEMMA StartFailsStep ==
  ASSUME MatcherInv(matcher), StartFails
  PROVE  MatcherInv(matcher')
<1>. DEFINE m == matcher
            f == m.calls[Len(m.calls)]
            front == SubSeq(m.calls, 1, Len(m.calls) - 1)
            d == WithoutLast(m.capture)
<1>1. /\ m.pc = "fail" /\ m.calls # <<>> /\ f.by = "start_capture"
      /\ matcher' = [[m EXCEPT !.calls = front] EXCEPT !.capture = d]
  BY DEF StartFails, FailsIn, Caller, Returned
<1>2. PICK e : FailedCall(m, f, front, e)
  <2>1. MatcherInv(m) /\ m.pc = "fail" /\ m.calls # <<>>
    BY <1>1, Zenon
  <2>. HIDE DEF m
  <2>. QED  BY <2>1, CallHasFailed, Zenon
<1>3. m = MatcherState(m.x, m.start, m.pc, m.s, m.p, m.capture, m.calls)
  BY DEF MatcherInv, MatcherType
<1>. HIDE DEF m
<1>4. matcher' = MatcherState(m.x, m.start, "fail", m.s, m.p, d, front)
  <2>. HIDE DEF d, front
  <2>. QED  BY <1>1, <1>3 DEF MatcherState
<1>. HIDE DEF f, front
<1>5. /\ Starts(m.x.pat, f.p) /\ m.x \in Subjects /\ f.p \in 1 .. Len(m.x.pat) /\ m.capture \in CaptureLists
      /\ Captures(m.x, e, f.p + 1, m.capture)
  BY <1>1, <1>2 DEF FailedCall, Frame
<1>6. \A w : Places(w, e, f.p) => d \in CaptureLists /\ Captures(m.x, w, f.p, d)
  BY <1>5, UndoStart
<1>7. d \in CaptureLists
  <2>1. Places(e, e, f.p)
    BY DEF Places
  <2>. QED  BY <1>6, <2>1
<1>. HIDE DEF d
<1>8. PICK e0, t : EndsLeft(m, f, front, d, e0, t)
  BY <1>2, <1>6, <1>7, EndsAreLeft
<1>9. \A u \in Reach(m.x, e0, f.p) : ~Prefers(m.x, f.p, t, u)
  <2>1. m.x.pat[f.p][1] \in {"(", "()"} /\ t \in Reach(m.x, e0, f.p) /\ e0[f.p] \in 1 .. SrcEnd(m.x)
    BY <1>5, <1>8 DEF Starts, EndsLeft
  <2>2. Reach(m.x, e0, f.p) = {e0[f.p]}
    BY <1>5, <2>1, EmptyReach
  <2>3. e0[f.p] \in Nat
    BY <1>5, <2>1, SubjectIs
  <2>4. ~Prefers(m.x, f.p, e0[f.p], e0[f.p])
    BY <2>3, PrefersOne
  <2>. QED  BY <2>1, <2>2, <2>4
<1>. QED  BY <1>2, <1>4, <1>8, <1>9, ReturnedStep

(* end_capture opens its capture again. *)
LEMMA EndFailsStep ==
  ASSUME MatcherInv(matcher), EndFails
  PROVE  MatcherInv(matcher')
<1>. DEFINE m == matcher
            f == m.calls[Len(m.calls)]
            front == SubSeq(m.calls, 1, Len(m.calls) - 1)
            c == m.capture
            l == f.i
            d == [c EXCEPT ![l].len = CAP_UNFINISHED]
<1>1. /\ m.pc = "fail" /\ m.calls # <<>> /\ f.by = "end_capture"
      /\ matcher' = [[m EXCEPT !.calls = front] EXCEPT !.capture[l].len = CAP_UNFINISHED]
  BY DEF EndFails, FailsIn, Caller, Returned
<1>2. PICK e : FailedCall(m, f, front, e)
  <2>1. MatcherInv(m) /\ m.pc = "fail" /\ m.calls # <<>>
    BY <1>1, Zenon
  <2>. HIDE DEF m
  <2>. QED  BY <2>1, CallHasFailed, Zenon
<1>3. m = MatcherState(m.x, m.start, m.pc, m.s, m.p, c, m.calls)
  BY DEF MatcherInv, MatcherType
<1>. HIDE DEF m
<1>4. matcher' = MatcherState(m.x, m.start, "fail", m.s, m.p, d, front)
  <2>. DEFINE r == [m EXCEPT !.calls = front]
  <2>. HIDE DEF l, front
  <2>1. r = MatcherState(m.x, m.start, m.pc, m.s, m.p, c, front)
    BY <1>3 DEF MatcherState
  <2>. HIDE DEF r
  <2>2. matcher' = [r EXCEPT !.capture[l].len = CAP_UNFINISHED]
    BY <1>1 DEF r
  <2>3. matcher' = [r EXCEPT !.capture = d]
    <3>1. r.capture = c
      BY <2>1 DEF MatcherState
    <3>. QED  BY ONLY <2>2, <3>1
  <2>. HIDE DEF d
  <2>. QED  BY ONLY <1>1, <2>1, <2>3 DEF MatcherState
<1>. HIDE DEF f, front
<1>5. /\ m.x.pat[f.p][1] = ")" /\ l = Level(m.x.pat, m.x.pat[f.p][2]) + 1
      /\ m.x \in Subjects /\ f.p \in 1 .. Len(m.x.pat) /\ c \in CaptureLists
      /\ Captures(m.x, e, f.p + 1, c)
  BY <1>1, <1>2 DEF FailedCall, Frame
<1>. HIDE DEF c, l
<1>6. \A w : Places(w, e, f.p) => d \in CaptureLists /\ Captures(m.x, w, f.p, d)
  BY <1>5, UndoEnd
<1>7. d \in CaptureLists
  <2>1. Places(e, e, f.p)
    BY DEF Places
  <2>. QED  BY <1>6, <2>1
<1>. HIDE DEF d
<1>8. PICK e0, t : EndsLeft(m, f, front, d, e0, t)
  BY <1>2, <1>6, <1>7, EndsAreLeft
<1>9. \A u \in Reach(m.x, e0, f.p) : ~Prefers(m.x, f.p, t, u)
  <2>1. t \in Reach(m.x, e0, f.p) /\ e0[f.p] \in 1 .. SrcEnd(m.x)
    BY <1>8 DEF EndsLeft
  <2>2. Reach(m.x, e0, f.p) = {e0[f.p]}
    BY <1>5, <2>1, EmptyReach
  <2>3. e0[f.p] \in Nat
    BY <1>5, <2>1, SubjectIs
  <2>4. ~Prefers(m.x, f.p, e0[f.p], e0[f.p])
    BY <2>3, PrefersOne
  <2>. QED  BY <2>1, <2>2, <2>4
<1>. QED  BY <1>2, <1>4, <1>8, <1>9, ReturnedStep

(* match goes on without the optional item. *)
LEMMA OptionalFailsStep ==
  ASSUME MatcherInv(matcher), OptionalFails
  PROVE  MatcherInv(matcher')
<1>. DEFINE m == matcher
            x == m.x
            f == m.calls[Len(m.calls)]
            front == SubSeq(m.calls, 1, Len(m.calls) - 1)
            k == f.p
<1>1. /\ m.pc = "fail" /\ m.calls # <<>> /\ f.by = "match"
      /\ matcher' = [[m EXCEPT !.calls = front] EXCEPT !.pc = "match", !.s = f.s, !.p = k + 1]
  BY DEF OptionalFails, FailsIn, Caller, Returned
<1>2. PICK e : FailedCall(m, f, front, e)
  <2>1. MatcherInv(m) /\ m.pc = "fail" /\ m.calls # <<>>
    BY <1>1, Zenon
  <2>. HIDE DEF m
  <2>. QED  BY <2>1, CallHasFailed, Zenon
<1>3. m = MatcherState(x, m.start, m.pc, m.s, m.p, m.capture, m.calls)
  BY DEF MatcherInv, MatcherType
<1>. HIDE DEF m
<1>4. matcher' = MatcherState(x, m.start, "match", f.s, k + 1, m.capture, front)
  <2>. HIDE DEF f, front
  <2>. QED  BY <1>1, <1>3 DEF MatcherState
<1>. HIDE DEF f, front
<1>5. /\ x.pat[k][1] = "single" /\ x.pat[k][3] = "?" /\ x \in Subjects /\ m.start \in 1 .. SrcEnd(x)
      /\ k \in 1 .. Len(x.pat) /\ k + 1 \in 1 .. Len(x.pat) + 1
  BY <1>1, <1>2 DEF FailedCall, Frame
<1>6. ~IsCapture(x.pat, k)
  BY <1>5 DEF IsCapture
<1>7. PICK e0, t : EndsLeft(m, f, front, m.capture, e0, t)
  BY <1>2, <1>6, EndsAreLeftSame
<1>. DEFINE s == e0[k]
            U == {u \in Reach(x, e0, k) : Prefers(x, k, t, u)}
<1>8. f.s = s /\ t = s + 1 /\ s \in 1 .. SrcEnd(x) /\ t \in Reach(x, e0, k) /\ Open(x, m.start, e0, k, U, m.capture, front)
  BY <1>1, <1>7 DEF EndsLeft, Frame
<1>. HIDE DEF U
<1>9. Reach(x, e0, k) = {s} \cup IF SingleMatch(x, s, k) THEN {s + 1} ELSE {}
  BY <1>5, <1>8, OnceReach
<1>10. s \in Nat
  BY <1>5, <1>8, SubjectIs
<1>. HIDE DEF s
<1>11. s \in Reach(x, e0, k) /\ \A u \in Reach(x, e0, k) : ~Prefers(x, k, s, u)
  BY <1>5, <1>9, <1>10 DEF Prefers
<1>12. \A u \in U : u = s \/ Prefers(x, k, s, u)
  BY <1>5, <1>8, <1>9, <1>10 DEF Prefers, U
<1>13. PICK e1 : Branch(x, m.start, e1, k + 1, m.capture, front) /\ e1[k + 1] = s
  <2>. HIDE DEF k, x
  <2>. QED  BY <1>5, <1>6, <1>8, <1>11, <1>12, Goes
<1>. QED  BY <1>4, <1>5, <1>8, <1>13, ToMatch

(* The ends of a repeated item: from the first that max_expand tries back to f.s. *)
LEMMA MaxEnds ==
  ASSUME NEW x \in Subjects, NEW k, NEW e, e[k] \in 1 .. SrcEnd(x), NEW f \in CallSet, f.p = k, f.by = "max_expand",
         NEW t \in Reach(x, e, k), Frame(x, e[k], t, f)
  PROVE  /\ t = f.s + f.i /\ f.s \in Nat /\ f.i \in Nat /\ x.pat[k][1] = "single" /\ x.pat[k][3] \in {"*", "+"}
         /\ f.s = e[k] + IF x.pat[k][3] = "+" THEN 1 ELSE 0
         /\ \E r \in Nat : Reach(x, e, k) = f.s .. f.s + r
<1>1. /\ t = f.s + f.i /\ f.s \in Nat /\ f.i \in Nat /\ x.pat[k][1] = "single" /\ x.pat[k][3] \in {"*", "+"}
      /\ f.s = e[k] + IF x.pat[k][3] = "+" THEN 1 ELSE 0
  BY DEF Frame, CallSet
<1>. DEFINE s == e[k]
<1>2. s \in Nat
  BY SubjectIs
<1>3. s = e[k] /\ s \in 1 .. SrcEnd(x)
  OBVIOUS
<1>. HIDE DEF s
<1>4. /\ x.pat[k][3] = "*" => Repetitions(x, s, k) \in Nat /\ Reach(x, e, k) = s .. s + Repetitions(x, s, k)
      /\ x.pat[k][3] = "+" /\ ~SingleMatch(x, s, k) => Reach(x, e, k) = {}
      /\ x.pat[k][3] = "+" /\ SingleMatch(x, s, k) =>
           /\ Repetitions(x, s + 1, k) \in Nat /\ s + 1 \in 1 .. SrcEnd(x)
           /\ Reach(x, e, k) = s + 1 .. s + 1 + Repetitions(x, s + 1, k)
  BY <1>1, <1>3, RepeatReach
<1>5. CASE x.pat[k][3] = "*"
  <2>1. f.s = s
    BY <1>1, <1>2, <1>3, <1>5
  <2>. QED  BY <1>1, <1>4, <1>5, <2>1
<1>6. CASE x.pat[k][3] = "+"
  <2>1. f.s = s + 1
    BY <1>1, <1>3, <1>6
  <2>. QED  BY <1>1, <1>4, <1>6, <2>1
<1>. QED  BY <1>1, <1>5, <1>6

(* max_expand goes on with one repetition less. *)
LEMMA MaxFailsStep ==
  ASSUME MatcherInv(matcher), MaxFails
  PROVE  MatcherInv(matcher')
<1>. DEFINE m == matcher
            x == m.x
            f == m.calls[Len(m.calls)]
            front == SubSeq(m.calls, 1, Len(m.calls) - 1)
            k == f.p
            g == [f EXCEPT !.i = f.i - 1]
<1>1. /\ m.pc = "fail" /\ m.calls # <<>> /\ f.by = "max_expand"
      /\ matcher' = IF f.i = 0 THEN [m EXCEPT !.calls = front]
                    ELSE Calling([m EXCEPT !.calls = front], g, f.s + f.i - 1)
  BY DEF MaxFails, FailsIn, Caller, Returned
<1>2. PICK e : FailedCall(m, f, front, e)
  <2>1. MatcherInv(m) /\ m.pc = "fail" /\ m.calls # <<>>
    BY <1>1, Zenon
  <2>. HIDE DEF m
  <2>. QED  BY <2>1, CallHasFailed, Zenon
<1>3. MatcherInv(m) /\ m = MatcherState(x, m.start, m.pc, m.s, m.p, m.capture, m.calls)
  BY DEF MatcherInv, MatcherType
<1>. HIDE DEF m, f, front
<1>4. /\ x.pat[k][1] = "single" /\ x \in Subjects /\ k \in 1 .. Len(x.pat) /\ f \in CallSet
      /\ m.capture \in CaptureLists /\ k \in Nat
  BY <1>1, <1>2 DEF FailedCall, Frame
<1>5. ~IsCapture(x.pat, k)
  BY <1>4 DEF IsCapture
<1>6. PICK e0, t : EndsLeft(m, f, front, m.capture, e0, t)
  BY <1>2, <1>5, EndsAreLeftSame
<1>. DEFINE U == {u \in Reach(x, e0, k) : Prefers(x, k, t, u)}
<1>7. /\ t \in Reach(x, e0, k) /\ e0[k] \in 1 .. SrcEnd(x) /\ Frame(x, e0[k], t, f)
      /\ Captures(x, e0, k, m.capture) /\ Open(x, m.start, e0, k, U, m.capture, front)
  BY <1>6 DEF EndsLeft
<1>. HIDE DEF U
<1>8. /\ t = f.s + f.i /\ f.s \in Nat /\ f.i \in Nat /\ x.pat[k][3] \in {"*", "+"}
      /\ f.s = e0[k] + IF x.pat[k][3] = "+" THEN 1 ELSE 0
      /\ \E r \in Nat : Reach(x, e0, k) = f.s .. f.s + r
  <2>1. f.p = k
    OBVIOUS
  <2>. HIDE DEF k, x
  <2>. QED  BY <1>1, <1>4, <1>7, <2>1, MaxEnds
<1>9. \A u, v : Prefers(x, k, u, v) <=> u > v
  BY <1>8 DEF Prefers
<1>10. CASE f.i = 0
  <2>1. matcher' = MatcherState(x, m.start, "fail", m.s, m.p, m.capture, front)
    BY <1>1, <1>3, <1>10 DEF MatcherState
  <2>2. \A u \in Reach(x, e0, k) : ~(t > u)
    BY <1>8, <1>10
  <2>3. \A u \in Reach(x, e0, k) : ~Prefers(x, k, t, u)
    BY <1>9, <2>2
  <2>. QED  BY <1>2, <1>6, <2>1, <2>3, ReturnedStep
<1>11. CASE f.i # 0
  <2>. DEFINE v == f.s + f.i - 1
  <2>1. matcher' = MatcherState(x, m.start, "match", v, k + 1, m.capture, Append(front, g))
    <3>. HIDE DEF v
    <3>1. g.p = k
      BY <1>4 DEF CallSet
    <3>2. matcher' = Calling([m EXCEPT !.calls = front], g, v)
      BY <1>1, <1>11 DEF v
    <3>. HIDE DEF g
    <3>. QED  BY <1>1, <1>3, <3>1, <3>2 DEF Calling, MatcherState
  <2>2. v \in Reach(x, e0, k) /\ \A u \in Reach(x, e0, k) : t > u => u = v \/ v > u
    <3>1. PICK r \in Nat : Reach(x, e0, k) = f.s .. f.s + r
      BY <1>8
    <3>2. t = f.s + f.i /\ f.s \in Nat /\ f.i \in Nat \ {0} /\ t \in f.s .. f.s + r
      BY <1>7, <1>8, <1>11, <3>1
    <3>3. v \in f.s .. f.s + r /\ \A u \in f.s .. f.s + r : t > u => u = v \/ v > u
      BY ONLY <3>2, r \in Nat DEF v
    <3>. QED  BY ONLY <3>1, <3>3
  <2>3. \A u \in U : u = v \/ Prefers(x, k, v, u)
    BY <1>9, <2>2 DEF U
  <2>4. g \in CallSet /\ g.p = k /\ g.by = "max_expand" /\ g.s = f.s /\ g.i = f.i - 1
    <3>1. f.i - 1 \in Nat
      BY <1>8, <1>11
    <3>. QED  BY <1>1, <1>4, <3>1 DEF CallSet
  <2>5. v = g.s + g.i
    BY <1>8, <2>4
  <2>. HIDE DEF g, v
  <2>6. Frame(x, e0[k], v, g)
    BY <1>4, <1>8, <2>4, <2>5 DEF Frame
  <2>7. \A w : Places(e0, w, k) => Captures(x, w, k + 1, m.capture)
    BY <1>4, <1>5, <1>7, CapturesSkip
  <2>. HIDE DEF k
  <2>8. MatcherInv(MatcherState(x, m.start, "match", v, k + 1, m.capture, Append(front, g)))
    BY <1>3, <1>4, <1>7, <2>2, <2>3, <2>4, <2>6, <2>7, CallingStep
  <2>. QED  BY <2>1, <2>8
<1>. QED  BY <1>10, <1>11

(* min_expand goes on with one repetition more. *)
LEMMA MinFailsStep ==
  ASSUME MatcherInv(matcher), MinFails
  PROVE  MatcherInv(matcher')
<1>. DEFINE m == matcher
            x == m.x
            f == m.calls[Len(m.calls)]
            front == SubSeq(m.calls, 1, Len(m.calls) - 1)
            k == f.p
            g == [f EXCEPT !.s = f.s + 1]
<1>1. /\ m.pc = "fail" /\ m.calls # <<>> /\ f.by = "min_expand"
      /\ matcher' = IF SingleMatch(x, f.s, k) THEN Calling([m EXCEPT !.calls = front], g, f.s + 1)
                    ELSE [m EXCEPT !.calls = front]
  BY DEF MinFails, FailsIn, Caller, Returned
<1>2. PICK e : FailedCall(m, f, front, e)
  <2>1. MatcherInv(m) /\ m.pc = "fail" /\ m.calls # <<>>
    BY <1>1, Zenon
  <2>. HIDE DEF m
  <2>. QED  BY <2>1, CallHasFailed, Zenon
<1>3. MatcherInv(m) /\ m = MatcherState(x, m.start, m.pc, m.s, m.p, m.capture, m.calls)
  BY DEF MatcherInv, MatcherType
<1>. HIDE DEF m, f, front
<1>4. /\ x.pat[k][1] = "single" /\ x.pat[k][3] = "-" /\ x \in Subjects /\ k \in 1 .. Len(x.pat) /\ f \in CallSet
      /\ m.capture \in CaptureLists /\ k \in Nat
  BY <1>1, <1>2 DEF FailedCall, Frame
<1>5. ~IsCapture(x.pat, k)
  BY <1>4 DEF IsCapture
<1>6. PICK e0, t : EndsLeft(m, f, front, m.capture, e0, t)
  BY <1>2, <1>5, EndsAreLeftSame
<1>. DEFINE U == {u \in Reach(x, e0, k) : Prefers(x, k, t, u)}
<1>7. /\ t \in Reach(x, e0, k) /\ e0[k] \in 1 .. SrcEnd(x) /\ t = f.s
      /\ Captures(x, e0, k, m.capture) /\ Open(x, m.start, e0, k, U, m.capture, front)
  BY <1>1, <1>6 DEF EndsLeft, Frame
<1>. HIDE DEF U
<1>8. /\ \A u \in Reach(x, e0, k) : u \in Nat
      /\ SingleMatch(x, t, k) <=> t + 1 \in Reach(x, e0, k)
      /\ \A u \in Reach(x, e0, k) : t < u => t + 1 \in Reach(x, e0, k)
  BY <1>4, <1>7, LazyReach
<1>9. \A u, v : Prefers(x, k, u, v) <=> u < v
  BY <1>4 DEF Prefers
<1>10. CASE ~SingleMatch(x, f.s, k)
  <2>1. matcher' = MatcherState(x, m.start, "fail", m.s, m.p, m.capture, front)
    BY <1>1, <1>3, <1>10 DEF MatcherState
  <2>2. \A u \in Reach(x, e0, k) : ~Prefers(x, k, t, u)
    BY <1>7, <1>8, <1>9, <1>10
  <2>. QED  BY <1>2, <1>6, <2>1, <2>2, ReturnedStep
<1>11. CASE SingleMatch(x, f.s, k)
  <2>. DEFINE v == f.s + 1
  <2>1. matcher' = MatcherState(x, m.start, "match", v, k + 1, m.capture, Append(front, g))
    <3>. HIDE DEF v
    <3>1. g.p = k
      BY <1>4 DEF CallSet
    <3>2. matcher' = Calling([m EXCEPT !.calls = front], g, v)
      BY <1>1, <1>11 DEF v
    <3>. HIDE DEF g
    <3>. QED  BY <1>1, <1>3, <3>1, <3>2 DEF Calling, MatcherState
  <2>2. v \in Reach(x, e0, k) /\ f.s \in Nat
    BY <1>7, <1>8, <1>11
  <2>3. \A u \in U : u = v \/ Prefers(x, k, v, u)
    <3>1. ASSUME NEW u \in Reach(x, e0, k), t < u PROVE u = v \/ v < u
      BY <1>7, <1>8, <2>2, <3>1
    <3>. HIDE DEF v
    <3>. QED  BY <1>9, <3>1 DEF U
  <2>4. g \in CallSet /\ g.p = k /\ g.by = "min_expand" /\ g.s = v
    BY <1>1, <1>4, <2>2 DEF CallSet
  <2>. HIDE DEF g, v
  <2>5. Frame(x, e0[k], v, g)
    BY <1>4, <2>4 DEF Frame
  <2>6. \A w : Places(e0, w, k) => Captures(x, w, k + 1, m.capture)
    BY <1>4, <1>5, <1>7, CapturesSkip
  <2>. HIDE DEF k
  <2>7. MatcherInv(MatcherState(x, m.start, "match", v, k + 1, m.capture, Append(front, g)))
    BY <1>3, <1>4, <1>7, <2>2, <2>3, <2>4, <2>5, <2>6, CallingStep
  <2>. QED  BY <2>1, <2>7
<1>. QED  BY <1>10, <1>11

(* The invariant of match. *)
LEMMA MatcherStarts ==
  ASSUME MatchInit
  PROVE  MatcherInv(matcher)
<1>1. PICK x \in Subjects : \E s \in 1 .. SrcEnd(x) : matcher = MatcherState(x, s, "match", s, 1, <<>>, <<>>)
  BY DEF MatchInit, MatcherState
<1>2. PICK s \in 1 .. SrcEnd(x) : matcher = MatcherState(x, s, "match", s, 1, <<>>, <<>>)
  BY <1>1
<1>. DEFINE e == <<s>>
<1>3. s \in Nat /\ 1 \in 1 .. Len(x.pat) + 1
  BY SubjectIs
<1>4. Path(x, s, 1, e)
  BY <1>3 DEF Path
<1>5. <<>> \in CaptureLists /\ Captures(x, e, 1, <<>>)
  <2>1. Level(x.pat, 1) = 0
    BY LevelNext
  <2>2. Captures(x, e, 1, <<>>)
    BY <2>1 DEF Captures
  <2>. QED  BY <2>2 DEF CaptureLists
<1>6. Stack(x, e, 1, <<>>)
  BY DEF Stack
<1>7. \A w : Whole(x, s, w) => Places(e, w, 1)
  BY DEF Whole, Path, Places
<1>8. e[1] = s
  OBVIOUS
<1>. HIDE DEF e
<1>9. Branch(x, s, e, 1, <<>>, <<>>)
  BY <1>4, <1>5, <1>6, <1>7 DEF Branch, At
<1>. QED  BY <1>2, <1>3, <1>8, <1>9, ToMatch

(* Every step keeps the invariant. *)
LEMMA MatcherStep ==
  ASSUME MatcherInv(matcher), MatchNext
  PROVE  MatcherInv(matcher')
BY MatchItemStep, StartCaptureStep, EndCaptureStep, OptionalStep, RepeatStep, MinExpandStep, SucceedStep,
   StartFailsStep, EndFailsStep, OptionalFailsStep, MaxFailsStep, MinFailsStep DEF MatchNext

(* match goes through the ways in the order of preference. *)
THEOREM MatcherInvariant == MatchSpec => []MatcherInv(matcher)
<1>1. MatcherInv(matcher) /\ [MatchNext]_matcher => MatcherInv(matcher)'
  BY MatcherStep
<1>. QED  BY <1>1, MatcherStarts, PTL DEF MatchSpec

(* match finds the preferred way, with its captures; or there is none, and nothing is captured. *)
THEOREM MatchFindsPreferred == MatchSpec => []MatchIsPreferred
<1>1. MatcherInv(matcher) => MatchIsPreferred
  <2>. SUFFICES ASSUME MatcherInv(matcher) PROVE MatchIsPreferred
    OBVIOUS
  <2>. DEFINE m == matcher
              x == m.x
              n == Len(x.pat) + 1
  <2>1. x \in Subjects /\ m.start \in 1 .. SrcEnd(x) /\ m.capture \in CaptureLists
    BY DEF MatcherInv, MatcherType
  <2>2. n - 1 = Len(x.pat) /\ n \in Nat /\ DOMAIN x.pat = 1 .. n - 1
    BY <2>1, SubjectIs
  <2>3. \A w : w \in Ways(x, m.start) <=> Whole(x, m.start, w)
    BY <2>1, WaysArePaths DEF Whole
  <2>4. ASSUME m.pc = "found"
        PROVE  \E e \in Ways(x, m.start) : /\ \A w \in Ways(x, m.start) : w = e \/ Preferred(x, e, w)
                                           /\ m.s = e[n] /\ Captures(x, e, n, m.capture)
    <3>1. PICK e : /\ Whole(x, m.start, e) /\ Captures(x, e, n, m.capture) /\ e[n] = m.s
                   /\ \A w : Whole(x, m.start, w) => Places(e, w, n) \/ Passed(x, e, n, w)
      BY <2>4 DEF MatcherInv, Finding
    <3>2. ASSUME NEW w \in Ways(x, m.start) PROVE w = e \/ Preferred(x, e, w)
      <4>1. Whole(x, m.start, w)
        BY <2>3, <3>2
      <4>2. CASE Places(e, w, n)
        <5>1. e \in Seq(Nat) /\ w \in Seq(Nat) /\ Len(e) = n /\ Len(w) = n
          BY <3>1, <4>1 DEF Whole, Path
        <5>. HIDE DEF n
        <5>. QED  BY <4>2, <5>1 DEF Places
      <4>3. CASE Passed(x, e, n, w)
        <5>. HIDE DEF n
        <5>. QED  BY <2>2, <4>3 DEF Passed, Preferred, Places
      <4>. QED  BY <3>1, <4>1, <4>2, <4>3
    <3>. QED  BY <2>3, <3>1, <3>2
  <2>5. ASSUME m.pc = "fail", m.calls = <<>> PROVE Ways(x, m.start) = {} /\ m.capture = <<>>
    <3>1. TopAt(m.calls) = 1
      BY <2>5 DEF TopAt
    <3>2. PICK e : Open(x, m.start, e, 1, {}, m.capture, m.calls)
      BY <2>5, <3>1 DEF MatcherInv, Failing
    <3>3. \A w : ~Whole(x, m.start, w)
      BY <3>2 DEF Open, Passed
    <3>4. Len(m.capture) = 0
      <4>1. Level(x.pat, 1) = 0
        BY LevelNext
      <4>. QED  BY <3>2, <4>1 DEF Open, At, Captures
    <3>5. m.capture = <<>>
      BY <2>1, <3>4 DEF CaptureLists
    <3>. QED  BY <2>3, <3>3, <3>5
  <2>. QED  BY <2>4, <2>5 DEF MatchIsPreferred
<1>. QED  BY <1>1, MatcherInvariant, PTL

(* What LuaGsub assumes of the matcher: a match ends between the place     *)
(* where it begins and the end of the string.                              *)
THEOREM MatchStaysInString ==
  MatchSpec => [](matcher.pc = "found" => matcher.s \in matcher.start .. SrcEnd(matcher.x))
<1>1. ASSUME MatcherInv(matcher), matcher.pc = "found"
      PROVE  matcher.s \in matcher.start .. SrcEnd(matcher.x)
  <2>. DEFINE x == matcher.x
              n == Len(x.pat) + 1
  <2>1. x \in Subjects /\ matcher.start \in 1 .. SrcEnd(x)
    BY <1>1 DEF MatcherInv, MatcherType
  <2>2. n \in 1 .. Len(x.pat) + 1 /\ n \in 1 .. n
    BY <2>1, SubjectIs
  <2>3. PICK e : Whole(x, matcher.start, e) /\ e[n] = matcher.s
    BY <1>1 DEF MatcherInv, Finding
  <2>4. \A i \in 1 .. n : e[i] \in matcher.start .. SrcEnd(x)
    <3>1. Path(x, matcher.start, n, e)
      BY <2>3 DEF Whole
    <3>. HIDE DEF n, x
    <3>. QED  BY <2>1, <2>2, <3>1, PathForward DEF n
  <2>. QED  BY <2>2, <2>3, <2>4
<1>. QED  BY <1>1, MatcherInvariant, PTL
=============================================================================
