----------------------------- MODULE LuaStrings -----------------------------
(***************************************************************************)
(* The string table of lstring.cpp while it grows, shrinks and is swept.   *)
(* A string stands for its hash value; how the collector marks is left to  *)
(* LuaCollector: here any strings are marked when the white is flipped,    *)
(* and of these the program still holds those it held. A chain is the set  *)
(* of its entries: its order decides nothing but how long a search takes.  *)
(***************************************************************************)
EXTENDS Integers, FiniteSets

CONSTANTS Strings, MINSTRTABSIZE

ASSUME StringsAssumption == Strings \subseteq Nat /\ MINSTRTABSIZE \in Nat \ {0}

VARIABLE strt      \* the table, the collector's phase and what the program holds

Black == 2         \* marked: neither white
Entry(s, m) == [s |-> s, marked |-> m]

\* A program that makes no strings.
NoStrings == [size |-> MINSTRTABSIZE, hash |-> [b \in 1..MINSTRTABSIZE |-> {}], nuse |-> 0,
              currentwhite |-> 0, gcstate |-> "stopped", sweepstrgc |-> 0, held |-> {}]
StringsInit == strt = [NoStrings EXCEPT !.gcstate = "propagate"]

Bucket(s, size) == (s % size) + 1
otherwhite(tb) == 1 - tb.currentwhite
IsDead(tb, e) == e.marked = otherwhite(tb)

Interned(tb) == UNION {tb.hash[b] : b \in DOMAIN tb.hash}

\* luaS_resize: the chains are rebuilt, each entry goes where its hash now says.
NotRehashed(tb, newsize) ==         \* mutant: the buckets keep their chains
    IF tb.gcstate = "sweepstring" THEN tb
    ELSE [tb EXCEPT !.size = newsize,
                    !.hash = [b \in 1..newsize |-> IF b <= tb.size THEN @[b] ELSE {}]]

luaS_resize(tb, newsize) ==
    IF tb.gcstate = "sweepstring" THEN tb
    ELSE [tb EXCEPT !.size = newsize,
                    !.hash = [b \in 1..newsize |->
                                 {e \in Interned(tb) : Bucket(e.s, newsize) = b}]]

newlstr(tb, s) ==
    LET made == [tb EXCEPT !.hash[Bucket(s, tb.size)] = @ \union {Entry(s, tb.currentwhite)},
                           !.nuse = @ + 1]
    IN  IF made.nuse > made.size THEN luaS_resize(made, 2 * made.size) ELSE made

\* luaS_newlstr, called for the program: a string that is there is found, and
\* resurrected if it is dead.
FindString(e) ==
    LET b == Bucket(e.s, strt.size)
    IN  /\ e \in strt.hash[b]
        /\ strt' = [strt EXCEPT !.hash[b] = IF IsDead(strt, e)
                                           THEN (@ \ {e}) \union {Entry(e.s, strt.currentwhite)}
                                           ELSE @,
                                !.held = @ \union {e.s}]
MakeString(s) ==
    /\ \A e \in strt.hash[Bucket(s, strt.size)] : e.s # s
    /\ strt' = [newlstr(strt, s) EXCEPT !.held = @ \union {s}]

NewString(s) ==
    /\ strt.gcstate # "stopped"
    /\ MakeString(s) \/ \E e \in Interned(strt) : e.s = s /\ FindString(e)

\* The end of the atomic step.  The program no longer holds what is not marked.
FlipWhite(marks) ==
    /\ strt.gcstate = "propagate"
    /\ strt' = [strt EXCEPT
           !.hash = [b \in DOMAIN @ |->
                        {IF e.s \in marks THEN Entry(e.s, Black) ELSE e : e \in @[b]}],
           !.currentwhite = 1 - @, !.gcstate = "sweepstring", !.sweepstrgc = 0,
           !.held = @ \cap marks]

\* singlestep, GCSsweepstring: one bucket, and freeobj counts what it frees.
SweepBucket ==
    /\ strt.gcstate = "sweepstring"
    /\ LET b == strt.sweepstrgc + 1
           freed == {e \in strt.hash[b] : IsDead(strt, e)}
       IN  strt' = [strt EXCEPT
               !.hash[b] = {Entry(e.s, strt.currentwhite) : e \in @ \ freed},
               !.nuse = @ - Cardinality(freed), !.sweepstrgc = b,
               !.gcstate = IF b >= strt.size THEN "sweep" ELSE @]

\* checkSizes, when the rest of the sweep is over.
CheckSizes ==
    /\ strt.gcstate = "sweep"
    /\ LET tb == IF strt.nuse < strt.size \div 4 /\ strt.size > 2 * MINSTRTABSIZE
                 THEN luaS_resize(strt, strt.size \div 2) ELSE strt
       IN  strt' = [tb EXCEPT !.gcstate = "propagate"]

StringsNext ==
    \/ \E s \in Strings : NewString(s)
    \/ \E marks \in SUBSET Strings : FlipWhite(marks)
    \/ SweepBucket \/ CheckSizes

\* Every string is in the table once, where its hash says, the count is exact, what
\* the program holds was not freed, and no dead string outlives its sweep, however
\* often the table was resized between and during collections.
InternedOnce ==
    LET All == Interned(strt)
    IN  /\ \A e, f \in All : e.s = f.s => e = f
        /\ strt.nuse = Cardinality(All)
        /\ \A b \in DOMAIN strt.hash : \A e \in strt.hash[b] : Bucket(e.s, strt.size) = b
        /\ strt.held \subseteq {e.s : e \in All}
        /\ strt.gcstate # "sweepstring" => \A e \in All : ~IsDead(strt, e)
=============================================================================
