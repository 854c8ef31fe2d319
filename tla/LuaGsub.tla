------------------------------- MODULE LuaGsub -------------------------------
(***************************************************************************)
(* str_gsub without a limit, and gmatch_aux: the loops around match, one   *)
(* match per step.  The pieces gsub adds to its buffer are                 *)
(* <<first, last + 1, replaced>>.  Positions count from 1; 0 stands for    *)
(* nullptr.                                                                *)
(***************************************************************************)
EXTENDS Integers, Sequences, FiniteSets, FiniteSetsExt

CONSTANTS Subjects,             \* the patterns and strings to match: [pat, src]
          Matched(_, _)         \* what match returns for a subject, from a place

VARIABLE matching               \* a subject, and how far gsub and gmatch have come

SrcEnd(x) == Len(x.src) + 1

\* match fails, or ends in the rest of the string
ASSUME MatchAssumption ==
    \A x \in Subjects :
        /\ Len(x.src) \in Nat
        /\ \A s \in 1 .. SrcEnd(x) : Matched(x, s).s \in {0} \cup s .. SrcEnd(x)

\* A subject that waits: nothing is matched.
NoMatching == [x |-> [pat |-> <<>>, src |-> <<>>], at |-> 0, n |-> 0, pieces |-> <<>>,
               next |-> 0, seen |-> <<>>]

GsubInit ==
    \E x \in Subjects :
        matching = [x |-> x, at |-> 1, n |-> 0, pieces |-> <<>>, next |-> 1, seen |-> <<>>]

OnlyNonEmpty(s, e) == e > s          \* mutant: a replaced empty match does not count

Counts(s, e) == e # 0

Gsub ==
    LET x == matching.x
        s == matching.at
        e == Matched(x, s).s
        value == IF Counts(s, e) THEN << <<s, e, TRUE>> >> ELSE <<>>
        char == IF e <= s /\ s < SrcEnd(x) THEN << <<s, s + 1, FALSE>> >> ELSE <<>>
    IN  /\ s # 0
        /\ matching' = [matching EXCEPT
               !.n = @ + Len(value), !.pieces = @ \o value \o char,
               !.at = IF e > s THEN e ELSE IF s < SrcEnd(x) THEN s + 1 ELSE 0]

Gmatch ==
    LET x == matching.x
        Starts == {s \in matching.next .. SrcEnd(x) : Matched(x, s).s # 0}
        s == Min(Starts)
        e == Matched(x, s).s
    IN  /\ matching.at = 0 /\ matching.next # 0
        /\ matching' = IF Starts = {} THEN [matching EXCEPT !.next = 0]
                       ELSE [matching EXCEPT !.seen = Append(@, <<s, e>>),
                                             !.next = IF e = s THEN e + 1 ELSE e]

GsubNext == Gsub \/ Gmatch

\* gsub copies or replaces every character once, in order, and replaces and counts
\* the matches that gmatch finds, empty ones included; the limit it has when none
\* is given, one more than the length (lstrlib.cpp:648), never ends it.
SubstitutesEveryMatch ==
    LET ps == matching.pieces
        seen == matching.seen
        end == SrcEnd(matching.x)
    IN  /\ matching.at # 0 => matching.n < end
        /\ matching.at = 0 /\ matching.next = 0 /\ matching # NoMatching =>
              /\ \A i \in DOMAIN ps : ps[i][1] = IF i = 1 THEN 1 ELSE ps[i - 1][2]
              /\ end = IF ps = <<>> THEN 1 ELSE ps[Len(ps)][2]
              /\ {seen[i] : i \in DOMAIN seen} =
                    {<<ps[i][1], ps[i][2]>> : i \in {j \in DOMAIN ps : ps[j][3]}}
              /\ \A i, j \in DOMAIN seen : i < j => seen[i][1] < seen[j][1]
              /\ Len(seen) = matching.n
=============================================================================
