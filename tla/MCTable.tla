------------------------------ MODULE MCTable ------------------------------
(***************************************************************************)
(* The integers 1 and 2, a string and an object.  The first hash function  *)
(* lets one of 1, 2 and the object take the main position of the string,   *)
(* which then moves it away; with the second all but 2 collide.            *)
(***************************************************************************)
EXTENDS LuaTable, TLC

CONSTANTS i1, i2, s1, o1, v1, v2

Keys == {i1, i2, s1, o1}
IndexOf == [k \in Keys |-> CASE k = i1 -> 1 [] k = i2 -> 2 [] OTHER -> 0]

Hash(h1, h2, hs, ho) ==
    [k \in Keys |-> CASE k = i1 -> h1 [] k = i2 -> h2 [] k = s1 -> hs [] k = o1 -> ho]
\* Nothing tells the two values apart
ValueSymmetry == Permutations({v1, v2})

HashChoice == {Hash(0, 0, 3, 0), Hash(2, 1, 2, 2)}
=============================================================================
