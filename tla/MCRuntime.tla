----------------------------- MODULE MCRuntime -----------------------------
(***************************************************************************)
(* The mechanisms of the runtime that do not touch one another, each on    *)
(* its small instances: a behaviour chooses one of them at the start and   *)
(* the others rest.                                                        *)
(***************************************************************************)
EXTENDS LuaCalls, LuaPattern, LuaSort, LuaStrings, LuaRef, LuaRequire, TLC

CONSTANTS M, A, B

VARIABLE mechanism

runtimeVars == <<callsVars, matching, matcher, sorting, strt, refVars, requireVars, mechanism>>

(***************************************************************************)
(* The states of a mechanism that rests.                                   *)
(***************************************************************************)
CallsRest == /\ thread = [t \in AllThreads |-> NewThread] /\ cstack = <<>>
             /\ todo = "return" /\ over = {}
GsubRests == matching = NoMatching
MatchRests == matcher = NoMatcher
SortRests == sorting = NotSorting
StringsRest == strt = NoStrings

Mechanisms == {"calls", "gsub", "match", "sort", "strings", "ref", "require"}

RuntimeInit ==
    /\ mechanism \in Mechanisms
    /\ RefInit /\ RequireInit
    /\ IF mechanism = "calls" THEN CallsInit ELSE CallsRest
    /\ IF mechanism = "gsub" THEN GsubInit ELSE GsubRests
    /\ IF mechanism = "match" THEN MatchInit ELSE MatchRests
    /\ IF mechanism = "sort" THEN SortInit ELSE SortRests
    /\ IF mechanism = "strings" THEN StringsInit ELSE StringsRest

Calls == /\ mechanism = "calls" /\ CallsNext
         /\ UNCHANGED <<matching, matcher, sorting, strt, refVars, requireVars, mechanism>>
Substitution == /\ mechanism = "gsub" /\ GsubNext
                /\ UNCHANGED <<callsVars, matcher, sorting, strt, refVars, requireVars, mechanism>>
Matcher == /\ mechanism = "match" /\ MatchNext
           /\ UNCHANGED <<callsVars, matching, sorting, strt, refVars, requireVars, mechanism>>
Sort == /\ mechanism = "sort" /\ SortNext
        /\ UNCHANGED <<callsVars, matching, matcher, strt, refVars, requireVars, mechanism>>
StringTable == /\ mechanism = "strings" /\ StringsNext
               /\ UNCHANGED <<callsVars, matching, matcher, sorting, refVars, requireVars, mechanism>>
References == /\ mechanism = "ref" /\ RefNext
              /\ UNCHANGED <<callsVars, matching, matcher, sorting, strt, requireVars, mechanism>>
Require == /\ mechanism = "require" /\ RequireNext
           /\ UNCHANGED <<callsVars, matching, matcher, sorting, strt, refVars, mechanism>>

RuntimeNext == Calls \/ Substitution \/ Matcher \/ Sort \/ StringTable \/ References \/ Require

RuntimeSpec == RuntimeInit /\ [][RuntimeNext]_runtimeVars

\* Of a coroutine that is over, with nothing left to call, only what luaB_costatus and
\* auxresume look at matters.
Threads ==
    [t \in AllThreads |->
        IF t \in over /\ ~KeptResults(t)
        THEN [NewThread EXCEPT !.status = thread[t].status, !.values = 0,
                               !.ci = IF thread[t].status = "ok" THEN thread[t].ci ELSE 0]
        ELSE thread[t]]
Seen == <<Threads, cstack, todo, over, matching, matcher, sorting, strt, refVars, requireVars,
          mechanism>>

Sym == Permutations({A, B})

(***************************************************************************)
(* Patterns: all of up to three items over the letters a and b, and longer *)
(* ones with two captures, one in the other or one after the other, that   *)
(* go on with what was captured.  Captures are closed in order, and a      *)
(* capture referred to is closed, as the compiled pattern must or match    *)
(* raises an error.  gsub and gmatch get what match promises.              *)
(***************************************************************************)
MatchedV(x, s) ==
    LET ways == Ways(x, s)
        preferred == CHOOSE e \in ways : \A w \in ways : w = e \/ Preferred(x, e, w)
    IN  [s |-> IF ways = {} THEN 0 ELSE preferred[Len(x.pat) + 1]]

Letters == {"a", "b"}
Item(kind) == <<kind, {}, "">>
One(class, suffix) == <<"single", class, suffix>>
Captured(l) == <<"%digit", l, "">>
Singles == {One({"a"}, u) : u \in {"", "?", "*", "-"}}
           \union {One(Letters, "+"), One({"b"}, "")}
Others == {Item("()"), Item("("), Item(")"), Captured(1),
           <<"%b", {"a"}, "b">>, <<"%f", {"b", "end"}, "">>}

\* The item that a `)' closes: the last one that is still open.
Opener(p, k) ==
    LET Unclosed(n) == Cardinality({i \in 1..n : p[i][1] = "("})
                         - Cardinality({i \in 1..n : p[i][1] = ")"})
    IN  Max({0} \union {g \in 1 .. k - 1 : p[g][1] = "(" /\ Unclosed(g) = Unclosed(k) + 1})
Numbered(p) == [k \in DOMAIN p |-> IF p[k][1] = ")" THEN <<")", Opener(p, k), "">> ELSE p[k]]

Short == UNION {[1..n -> Singles \union Others] : n \in 0..3}
Nested == {<<Item("("), a, Item("("), b, Item(")"), Item(")"), c>> :
               a \in Singles, b \in Singles, c \in {Captured(1), Captured(2)}}
InARow == {<<Item("("), a, Item(")"), Item("("), b, Item(")"), c, d>> :
               a \in Singles, b \in Singles, c \in {Captured(1), Captured(2)},
               d \in {Item("$"), One({"a"}, "?")}}
Patterns == {p \in {Numbered(q) : q \in Short \union Nested \union InARow} : IsPattern(p)}
SubjectsV == {[pat |-> p, src |-> s] :
                  p \in Patterns, s \in UNION {[1..n -> Letters] : n \in 0..3}}

\* Sorting: all arrays of up to six elements out of three, with an order; one that answers
\* anything sees the same whatever the elements are.
ArraysV == {<<f, FALSE>> : f \in UNION {[1..n -> 1..3] : n \in 0..6}}
           \union {<<[i \in 1..n |-> i], TRUE>> : n \in 1..4}
=============================================================================
