----------------------------- MODULE LuaPattern -----------------------------
(***************************************************************************)
(* The pattern matcher of lstrlib.cpp: one call of match from outside, in  *)
(* which match goes from item to item and calls itself where it may have   *)
(* to come back.                                                           *)
(*                                                                         *)
(* A pattern is a sequence of items <<kind, class, suffix>>, as classend   *)
(* and match cut its text: a class of characters with a repetition suffix, *)
(* the start or end of a capture, a position capture, %b, %f, the number   *)
(* of a capture, or a final $.  For %b the class holds the opening         *)
(* character and the suffix is the closing one.  The class of a `)' is the *)
(* item it closes, which match does not know.  Positions count from 1; 0   *)
(* stands for nullptr.                                                     *)
(***************************************************************************)
EXTENDS LuaGsub

VARIABLE matcher                \* a call of match: what it does, and what it may return to

CAP_UNFINISHED == -1
CAP_POSITION == -2

RepetitionSuffixes == {"", "?", "*", "+", "-"}
Starts(pat, g) == pat[g][1] \in {"(", "()"}
Closes(pat, h, g) == pat[h][1] = ")" /\ pat[h][2] = g

\* The captures that start before item k.
Level(pat, k) == Cardinality({g \in 1 .. k - 1 : Starts(pat, g)})

\* A pattern on which match raises no error.
IsPattern(pat) ==
    /\ Len(pat) \in Nat /\ DOMAIN pat = 1 .. Len(pat)
    /\ \A k \in DOMAIN pat :
          /\ pat[k][1] \in {"single", "(", "()", ")", "%b", "%f", "%digit", "$"}
          /\ pat[k][1] = "single" => pat[k][3] \in RepetitionSuffixes
          /\ pat[k][1] = "$" => k = Len(pat)
          /\ pat[k][1] = ")" =>
                /\ pat[k][2] \in 1 .. k - 1 /\ pat[pat[k][2]][1] = "("
                /\ \A j \in pat[k][2] + 1 .. k - 1 :
                      /\ pat[j][1] = ")" => pat[j][2] > pat[k][2]
                      /\ pat[j][1] = "(" => \E h \in j + 1 .. k - 1 : Closes(pat, h, j)
          /\ pat[k][1] = "%digit" =>
                \E g \in 1 .. k - 1 :
                    /\ Starts(pat, g) /\ pat[k][2] = Level(pat, g) + 1
                    /\ pat[g][1] = "(" => \E h \in g + 1 .. k - 1 : Closes(pat, h, g)

ASSUME PatternAssumption ==
    \A x \in Subjects : /\ Len(x.src) \in Nat /\ DOMAIN x.src = 1 .. Len(x.src)
                        /\ IsPattern(x.pat)

-----------------------------------------------------------------------------
NoMatcher == [x |-> [pat |-> <<>>, src |-> <<>>], start |-> 0, pc |-> "rest", s |-> 0, p |-> 0,
              capture |-> <<>>, calls |-> <<>>]

MatchInit ==
    \E x \in Subjects : \E s \in 1 .. SrcEnd(x) :
        matcher = [x |-> x, start |-> s, pc |-> "match", s |-> s, p |-> 1,
                   capture |-> <<>>, calls |-> <<>>]

CharAt(x, s) == IF s \in DOMAIN x.src THEN x.src[s] ELSE "end"

SingleMatch(x, s, p) == s < SrcEnd(x) /\ x.src[s] \in x.pat[p][2]

\* How many characters of s .. t of the string are in the class.
Count(x, class, s, t) == Cardinality({i \in s .. t : x.src[i] \in class})

MatchBalance(x, s, p) ==
    LET open == x.pat[p][2]
        close == {x.pat[p][3]}
        Ends == {t \in s + 1 .. Len(x.src) :
                    Count(x, close, s + 1, t) = 1 + Count(x, open \ close, s + 1, t)}
    IN  IF CharAt(x, s) \notin open \/ Ends = {} THEN 0 ELSE Min(Ends) + 1

Frontier(x, s, p) ==
    IF CharAt(x, s - 1) \notin x.pat[p][2] /\ CharAt(x, s) \in x.pat[p][2] THEN s ELSE 0

MatchCapture(x, capture, s, l) ==
    LET len == capture[l].len
    IN  IF len >= 0 /\ SrcEnd(x) - s >= len
           /\ \A i \in 0 .. len - 1 : x.src[s + i] = x.src[capture[l].init + i]
        THEN s + len ELSE 0

\* Where an item ends that match need not come back to; 0 if it does not match.
ItemEnd(m) ==
    LET x == m.x
        item == x.pat[m.p]
    IN  CASE item[1] = "%b" -> MatchBalance(x, m.s, m.p)
          [] item[1] = "%f" -> Frontier(x, m.s, m.p)
          [] item[1] = "%digit" -> MatchCapture(x, m.capture, m.s, item[2])
          [] item[1] = "$" -> IF m.s = SrcEnd(x) THEN m.s ELSE 0
          [] OTHER -> IF SingleMatch(x, m.s, m.p) THEN m.s + 1 ELSE 0

\* goto init, with the next item; or return nullptr.
GoTo(m, s) == IF s = 0 THEN [m EXCEPT !.pc = "fail"]
              ELSE [m EXCEPT !.pc = "match", !.s = s, !.p = @ + 1]

\* A function that calls match for the items after p, and its locals.
CallFrom(by, s, p, i) == [by |-> by, s |-> s, p |-> p, i |-> i]

Calling(m, f, s) == [m EXCEPT !.pc = "match", !.s = s, !.p = f.p + 1, !.calls = Append(@, f)]

AtItem(kinds) == /\ matcher.pc = "match" /\ matcher.p <= Len(matcher.x.pat)
                 /\ matcher.x.pat[matcher.p][1] \in kinds
AtSingle(suffixes) == AtItem({"single"}) /\ matcher.x.pat[matcher.p][3] \in suffixes

MatchItem == /\ AtItem({"%b", "%f", "%digit", "$"}) \/ AtSingle({""})
             /\ matcher' = GoTo(matcher, ItemEnd(matcher))

StartCapture ==
    LET m == matcher
        what == IF m.x.pat[m.p][1] = "()" THEN CAP_POSITION ELSE CAP_UNFINISHED
    IN  /\ AtItem({"(", "()"})
        /\ matcher' = Calling([m EXCEPT !.capture = Append(@, [init |-> m.s, len |-> what])],
                              CallFrom("start_capture", m.s, m.p, 0), m.s)

CaptureToClose(capture) == Max({l \in DOMAIN capture : capture[l].len = CAP_UNFINISHED})

EndCapture ==
    LET m == matcher
        l == CaptureToClose(m.capture)
    IN  /\ AtItem({")"})
        /\ matcher' = Calling([m EXCEPT !.capture[l].len = m.s - m.capture[l].init],
                              CallFrom("end_capture", m.s, m.p, l), m.s)

Optional ==
    LET m == matcher
    IN  /\ AtSingle({"?"})
        /\ matcher' = IF SingleMatch(m.x, m.s, m.p)
                      THEN Calling(m, CallFrom("match", m.s, m.p, 0), m.s + 1) ELSE GoTo(m, m.s)

\* max_expand at s, with the most repetitions.
Repetitions(x, s, p) == Max({i \in 0 .. SrcEnd(x) - s :
                                \A j \in 0 .. i - 1 : SingleMatch(x, s + j, p)})
MaxExpand(m, s) == LET i == Repetitions(m.x, s, m.p)
                   IN  Calling(m, CallFrom("max_expand", s, m.p, i), s + i)

Repeat ==
    LET m == matcher
        plus == m.x.pat[m.p][3] = "+"
    IN  /\ AtSingle({"*", "+"})
        /\ matcher' = IF plus /\ ~SingleMatch(m.x, m.s, m.p) THEN GoTo(m, 0)
                      ELSE MaxExpand(m, IF plus THEN m.s + 1 ELSE m.s)

MinExpand == LET m == matcher
             IN  AtSingle({"-"}) /\ matcher' = Calling(m, CallFrom("min_expand", m.s, m.p, 0), m.s)

\* The pattern ends: all that called match return what it returns.
Succeed == /\ matcher.pc = "match" /\ matcher.p > Len(matcher.x.pat)
           /\ matcher' = [matcher EXCEPT !.pc = "found", !.calls = <<>>]

-----------------------------------------------------------------------------
(* match returns nullptr to the function that called it.                   *)
Caller == matcher.calls[Len(matcher.calls)]
FailsIn(by) == matcher.pc = "fail" /\ matcher.calls # <<>> /\ Caller.by = by
Returned == [matcher EXCEPT !.calls = SubSeq(@, 1, Len(@) - 1)]

CaptureLeft(capture) == capture        \* mutant: a failure leaves the capture
WithoutLast(capture) == SubSeq(capture, 1, Len(capture) - 1)

StartFails == /\ FailsIn("start_capture")
              /\ matcher' = [Returned EXCEPT !.capture = WithoutLast(@)]

EndFails == /\ FailsIn("end_capture")
            /\ matcher' = [Returned EXCEPT !.capture[Caller.i].len = CAP_UNFINISHED]

OptionalFails == /\ FailsIn("match")
                 /\ matcher' = [Returned EXCEPT !.pc = "match", !.s = Caller.s, !.p = Caller.p + 1]

MaxFails ==
    /\ FailsIn("max_expand")
    /\ matcher' = IF Caller.i = 0 THEN Returned
                  ELSE Calling(Returned, [Caller EXCEPT !.i = @ - 1], Caller.s + Caller.i - 1)

MinFails ==
    /\ FailsIn("min_expand")
    /\ matcher' = IF SingleMatch(matcher.x, Caller.s, Caller.p)
                  THEN Calling(Returned, [Caller EXCEPT !.s = @ + 1], Caller.s + 1) ELSE Returned

MatchNext == \/ MatchItem \/ StartCapture \/ EndCapture \/ Optional \/ Repeat \/ MinExpand
             \/ Succeed \/ StartFails \/ EndFails \/ OptionalFails \/ MaxFails \/ MinFails

(***************************************************************************)
(* What a pattern means: a way to match it begins the items at e[1], e[2], *)
(* ... and ends at the last place of e.  The first item on which two ways  *)
(* differ tells which one is preferred.                                    *)
(***************************************************************************)
Times(suffix) ==
    CASE suffix = "" -> {1} [] suffix = "?" -> {0, 1} [] suffix = "+" -> Nat \ {0} [] OTHER -> Nat

\* The characters at s .. t - 1, of which the first opens, are balanced, and no fewer are.
IsBalanced(x, s, t, open, close) ==
    LET Opening(u) == {i \in s .. u - 1 : i = s \/ x.src[i] \in open \ {close}}
        Closing(u) == {i \in s + 1 .. u - 1 : x.src[i] = close}
    IN  /\ t > s /\ x.src[s] \in open
        /\ \A u \in s + 1 .. t : Cardinality(Opening(u)) = Cardinality(Closing(u)) <=> u = t

\* Where item k may end if the items up to it begin at e[1], ..., e[k].
Reach(x, e, k) ==
    LET s == e[k]
        pat == x.pat
        kind == pat[k][1]
        class == pat[k][2]
        ends == s .. SrcEnd(x)
        Same(t, g, h) == /\ t - s = e[h] - e[g]
                         /\ \A i \in 0 .. t - s - 1 : x.src[s + i] = x.src[e[g] + i]
    IN  CASE kind = "single" -> {t \in ends : /\ t - s \in Times(pat[k][3])
                                              /\ \A i \in s .. t - 1 : x.src[i] \in class}
          [] kind = "%b" -> {t \in ends : IsBalanced(x, s, t, class, pat[k][3])}
          [] kind = "%f" -> {t \in {s} : CharAt(x, s - 1) \notin class /\ CharAt(x, s) \in class}
          [] kind = "$"  -> {s} \cap {SrcEnd(x)}
          [] kind = "%digit" ->
                {t \in ends : \E g \in 1 .. k - 1, h \in 1 .. k - 1 :
                                  /\ Starts(pat, g) /\ class = Level(pat, g) + 1
                                  /\ Closes(pat, h, g) /\ Same(t, g, h)}
          [] OTHER -> {s}

\* With item k matched after the items before it.
Longer(x, k, ways) == UNION {{Append(e, t) : t \in Reach(x, e, k)} : e \in ways}

\* The ways to match the first k - 1 items from s.
WaysTo(x, s) ==
    LET ways[k \in 1 .. Len(x.pat) + 1] ==
            IF k = 1 THEN {<<s>>} ELSE Longer(x, k - 1, ways[k - 1])
    IN  ways
Ways(x, s) == WaysTo(x, s)[Len(x.pat) + 1]

\* Item k prefers to end at t rather than at u: a lazy one less, all others more.
Prefers(x, k, t, u) == IF x.pat[k][3] = "-" THEN t < u ELSE t > u

Preferred(x, e, w) ==
    \E k \in DOMAIN x.pat : /\ \A i \in 1 .. k : e[i] = w[i]
                            /\ Prefers(x, k, e[k + 1], w[k + 1])

\* The length of the capture that item g starts, when the items before k are matched.
ClosersBefore(pat, k, g) == {h \in g + 1 .. k - 1 : Closes(pat, h, g)}
CaptureLen(x, e, k, g) ==
    LET closers == ClosersBefore(x.pat, k, g)
    IN  IF x.pat[g][1] = "()" THEN CAP_POSITION
        ELSE IF closers # {} THEN e[Min(closers)] - e[g] ELSE CAP_UNFINISHED

Captures(x, e, k, capture) ==
    /\ Len(capture) = Level(x.pat, k)
    /\ \A g \in 1 .. k - 1 :
          Starts(x.pat, g) => capture[Level(x.pat, g) + 1]
                                = [init |-> e[g], len |-> CaptureLen(x, e, k, g)]

(***************************************************************************)
(* Properties.                                                             *)
(***************************************************************************)
\* match finds a way exactly if there is one, and then the preferred one with its
\* captures; if it fails, every capture it had opened or closed is undone.
MatchIsPreferred ==
    LET m == matcher
        x == m.x
        n == Len(x.pat) + 1
    IN  /\ m.pc = "found" =>
              \E e \in Ways(x, m.start) :
                  /\ \A w \in Ways(x, m.start) : w = e \/ Preferred(x, e, w)
                  /\ m.s = e[n] /\ Captures(x, e, n, m.capture)
        /\ m.pc = "fail" /\ m.calls = <<>> => Ways(x, m.start) = {} /\ m.capture = <<>>
=============================================================================
