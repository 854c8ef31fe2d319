------------------------------ MODULE LuaSort ------------------------------
(***************************************************************************)
(* table.sort of ltablib.cpp, one comparison at a time.  The order         *)
(* function is the program's: it is the order of the values, or it answers *)
(* anything, or it raises an error, which ends the sort where it is.       *)
(*                                                                         *)
(* Indices 0 and n + 1 belong to the model because an order function that  *)
(* contradicts itself takes the inner loops there; nil is Nothing.         *)
(***************************************************************************)
EXTENDS Integers, Sequences, FiniteSets

CONSTANT Arrays      \* what is sorted: <<array of numbers, may the order answer anything?>>

VARIABLE sorting       \* the array, what it was, auxsort's variables and its callers

Nothing == 0
ASSUME ArraysAssumption == \A x \in Arrays : x[1] \in Seq(Nat \ {Nothing}) /\ x[2] \in BOOLEAN

NotSorting == [pc |-> "done", a |-> <<>>, was |-> <<>>, any |-> FALSE,
         l |-> 1, u |-> 0, i |-> 0, j |-> 0, P |-> Nothing, rest |-> <<>>, n |-> 0]

\* The array with one place more at each end: index i is at i + 1.
Padded(f) == <<Nothing>> \o f \o <<Nothing>>
At(i) == sorting.a[i + 1]
Swapped(a, i, j) == [a EXCEPT ![i + 1] = a[j + 1], ![j + 1] = a[i + 1]]
Answers(x, y) == IF sorting.any THEN BOOLEAN ELSE {x < y}

SortStart(f, any) ==
    [NotSorting EXCEPT !.a = Padded(f), !.was = Padded(f), !.any = any, !.n = Len(f), !.u = Len(f),
                 !.pc = IF Len(f) > 1 THEN "ends" ELSE "done"]

SortInit == \E x \in Arrays : sorting = SortStart(x[1], x[2])

\* An action of sort compares x and y and goes on with After(answer).
Compare(pc, x, y, After(_)) ==
    /\ sorting.pc = pc
    /\ \E answer \in Answers(x, y) : sorting' = After(answer)

\* while (l < u); when auxsort returns, its caller goes on with the larger part.
Loop ==
    /\ sorting.pc \in {"loop", "return"}
    /\ sorting' =
         CASE sorting.pc = "loop" /\ sorting.l < sorting.u -> [sorting EXCEPT !.pc = "ends"]
           [] (sorting.pc = "return" \/ sorting.l >= sorting.u) /\ sorting.rest = <<>> ->
                [sorting EXCEPT !.pc = "done"]
           [] OTHER -> [sorting EXCEPT !.pc = "loop", !.l = Head(sorting.rest)[1],
                                       !.u = Head(sorting.rest)[2], !.rest = Tail(@)]

\* a[u] < a[l]?
SortEnds ==
    LET l == sorting.l
        u == sorting.u
    IN  Compare("ends", At(u), At(l), LAMBDA less :
            [sorting EXCEPT !.a = IF less THEN Swapped(@, l, u) ELSE @, !.i = (l + u) \div 2,
                            !.pc = IF u - l = 1 THEN "return" ELSE "middle"])

\* The pivot goes to a[u - 1], unless there were only three elements.
Pivot(s) ==
    IF s.u - s.l = 2 THEN [s EXCEPT !.pc = "return"]
    ELSE [s EXCEPT !.P = s.a[s.i + 1], !.a = Swapped(@, s.i, s.u - 1),
                   !.i = s.l, !.j = s.u - 1, !.pc = "up"]

\* a[i] < a[l]?
SortMiddle ==
    Compare("middle", At(sorting.i), At(sorting.l), LAMBDA less :
        IF less THEN Pivot([sorting EXCEPT !.a = Swapped(@, sorting.i, sorting.l)])
        ELSE [sorting EXCEPT !.pc = "high"])

\* a[u] < a[i]?
SortHigh ==
    Compare("high", At(sorting.u), At(sorting.i), LAMBDA less :
        Pivot(IF less THEN [sorting EXCEPT !.a = Swapped(@, sorting.i, sorting.u)] ELSE sorting))

\* Repeat ++i until a[i] >= P.
ScanUp ==
    LET i == sorting.i + 1
    IN  Compare("up", At(i), sorting.P, LAMBDA less :
            [sorting EXCEPT !.i = i, !.pc = CASE less /\ i > sorting.u -> "error"
                                              [] less /\ i <= sorting.u -> "up"
                                              [] ~less -> "down"])

\* The pivot goes to its place i; the smaller part is sorted by a recursive call.
LargerByCall(s) ==                  \* mutant
    LET i == s.i
        lower == <<s.l, i - 1>>
        upper == <<i + 1, s.u>>
        called == IF i - s.l < s.u - i THEN upper ELSE lower
        kept == IF i - s.l < s.u - i THEN lower ELSE upper
    IN  [s EXCEPT !.a = Swapped(@, s.u - 1, i), !.l = called[1], !.u = called[2],
                  !.rest = <<kept>> \o @, !.pc = "loop"]

Parted(s) ==
    LET i == s.i
        lower == <<s.l, i - 1>>
        upper == <<i + 1, s.u>>
        called == IF i - s.l < s.u - i THEN lower ELSE upper
        kept == IF i - s.l < s.u - i THEN upper ELSE lower
    IN  [s EXCEPT !.a = Swapped(@, s.u - 1, i), !.l = called[1], !.u = called[2],
                  !.rest = <<kept>> \o @, !.pc = "loop"]

\* Repeat --j until a[j] <= P, then swap a[i] and a[j] or stop.
ScanDown ==
    LET j == sorting.j - 1
    IN  Compare("down", sorting.P, At(j), LAMBDA less :
            CASE less /\ j < sorting.l -> [sorting EXCEPT !.j = j, !.pc = "error"]
              [] less /\ j >= sorting.l -> [sorting EXCEPT !.j = j]
              [] ~less /\ j < sorting.i -> Parted([sorting EXCEPT !.j = j])
              [] OTHER -> [sorting EXCEPT !.j = j, !.a = Swapped(@, sorting.i, j), !.pc = "up"])

SortNext == Loop \/ SortEnds \/ SortMiddle \/ SortHigh \/ ScanUp \/ ScanDown

(***************************************************************************)
(* Properties.                                                             *)
(***************************************************************************)
\* Whatever the order function answers, and wherever an error of it ends the
\* sort, no element is lost or doubled, and calls nest to a logarithm of the
\* length only; with an order, the sort raises no error and leaves the array sorted.
SortsSafely ==
    LET Places(a, v) == Cardinality({i \in DOMAIN a : a[i] = v})
    IN  /\ \A i \in DOMAIN sorting.was :
               Places(sorting.a, sorting.was[i]) = Places(sorting.was, sorting.was[i])
        /\ sorting.rest # <<>> => 2 ^ Len(sorting.rest) <= sorting.n
        /\ ~sorting.any => /\ sorting.pc # "error"
                           /\ sorting.pc = "done" =>
                                  \A i \in 1 .. sorting.n - 1 : At(i) <= At(i + 1)
=============================================================================
