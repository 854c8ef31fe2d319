------------------------------- MODULE LuaMap -------------------------------
(***************************************************************************)
(* What a Lua table promises: a partial function from keys to values, and  *)
(* a traversal, started by next(t, nil), that meets every field once as    *)
(* long as the program only changes or clears fields that are there: each  *)
(* call returns a key that none of them has returned.                      *)
(***************************************************************************)
EXTENDS Naturals

CONSTANTS Key, Values, Nil

VARIABLES map,      \* the value of each key; Nil: absent
          walking,  \* a traversal is in progress
          seen,     \* the keys it has returned
          visits    \* how many times it has returned a key

vars == <<map, walking, seen, visits>>

TypeOK == /\ map \in [Key -> Values \cup {Nil}]
          /\ walking \in BOOLEAN
          /\ seen \subseteq Key
          /\ visits \in Nat

Present(k) == map[k] # Nil

Init == /\ map = [k \in Key |-> Nil]
        /\ walking = FALSE
        /\ seen = {}
        /\ visits = 0

\* An assignment; one to an absent field ends the traversal (manual: undefined)
Put(k, v) == /\ map' = [map EXCEPT ![k] = v]
             /\ walking' = (walking /\ Present(k))
             /\ UNCHANGED <<seen, visits>>

\* Several fields become v at once, outside a traversal
PutAll(v) == /\ ~walking
             /\ map' \in [Key -> Values \cup {Nil}]
             /\ \A k \in Key : map'[k] \in {map[k], v}
             /\ UNCHANGED <<walking, seen, visits>>

Begin == /\ ~walking
         /\ walking' = TRUE
         /\ seen' = {}
         /\ visits' = 0
         /\ UNCHANGED map

Visit(k) == /\ walking
            /\ Present(k)
            /\ k \notin seen
            /\ seen' = seen \cup {k}
            /\ visits' = visits + 1
            /\ UNCHANGED <<map, walking>>

Finish == /\ walking
          /\ \A k \in Key : Present(k) => k \in seen
          /\ walking' = FALSE
          /\ UNCHANGED <<map, seen, visits>>

Next == \/ \E k \in Key, v \in Values \cup {Nil} : Put(k, v)
        \/ \E v \in Values \cup {Nil} : PutAll(v)
        \/ Begin
        \/ \E k \in Key : Visit(k)
        \/ Finish

Spec == Init /\ [][Next]_vars
=============================================================================
