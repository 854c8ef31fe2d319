------------------------------- MODULE LuaRef -------------------------------
(***************************************************************************)
(* luaL_ref and luaL_unref of lauxlib.cpp.  The table holds the objects    *)
(* referred to and, threaded through its free places, the list of          *)
(* references to use again.  The first one given back links to nil, which  *)
(* leaves a hole, and lua_objlen finds any boundary of a table with holes. *)
(***************************************************************************)
EXTENDS Integers, FiniteSets

CONSTANTS RefObjects, MaxRef     \* what is referred to; bound on the references

ASSUME MaxRefAssumption == MaxRef \in Nat

VARIABLES reft,     \* the table
          refs      \* history: <<reference, object>> for each luaL_ref not yet undone

refVars == <<reft, refs>>

FREELIST_REF == 0
NilRef == <<"nil", FREELIST_REF>>
Number(r) == <<"number", r>>
Object(o) == <<"object", o>>

RefInit == reft = [i \in 0 .. MaxRef + 1 |-> NilRef] /\ refs = {}

\* What lua_objlen may return.
Boundaries == {n \in 0 .. MaxRef : (n = 0 \/ reft[n] # NilRef) /\ reft[n + 1] = NilRef}

\* A free element is taken from the list, or a new one is made.
KeepsListHead(free, o) ==        \* mutant: the element stays in the list
    \E ref \in IF free # 0 THEN {free} ELSE {n + 1 : n \in Boundaries} :
        /\ ref <= MaxRef
        /\ reft' = [reft EXCEPT ![ref] = Object(o)]
        /\ refs' = refs \union {<<ref, o>>}

TakeRef(free, o) ==
    \E ref \in IF free # 0 THEN {free} ELSE {n + 1 : n \in Boundaries} :
        /\ ref <= MaxRef
        /\ reft' = [reft EXCEPT ![FREELIST_REF] = IF free # 0 THEN reft[ref] ELSE @,
                                ![ref] = Object(o)]
        /\ refs' = refs \union {<<ref, o>>}

Ref(o) ==
    /\ \A p \in refs : p[2] # o
    /\ TakeRef(reft[FREELIST_REF][2], o)

Unref(p) ==
    /\ p \in refs
    /\ reft' = [reft EXCEPT ![p[1]] = reft[FREELIST_REF], ![FREELIST_REF] = Number(p[1])]
    /\ refs' = refs \ {p}

RefNext == \/ \E o \in RefObjects : Ref(o)
           \/ \E p \in refs : Unref(p)

\* No reference is handed out twice while it is in use, and each finds its object,
\* in whatever order references are taken and given back.
RefsDistinct ==
    /\ \A p \in refs : reft[p[1]] = Object(p[2])
    /\ Cardinality({p[1] : p \in refs}) = Cardinality(refs)
=============================================================================
