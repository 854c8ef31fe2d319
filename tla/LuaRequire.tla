----------------------------- MODULE LuaRequire -----------------------------
(***************************************************************************)
(* require of loadlib.cpp.  The chunk of a module is arbitrary: it may     *)
(* require others or itself, set any field of package.loaded, return any   *)
(* value or raise an error, which any of the chunks below it, or the main  *)
(* program, may catch.  The loaders find the module or they do not.        *)
(***************************************************************************)
EXTENDS Naturals, Sequences, FiniteSets

CONSTANTS Modules, MaxRequires       \* bound: chunks in progress

ASSUME MaxRequiresAssumption == MaxRequires \in Nat

VARIABLES loaded,      \* package.loaded
          running,     \* the modules whose chunks are in progress, the last one on top
          result,      \* what the last require returned, just after it did
          failed,      \* history: modules whose chunk ended with an error
          cleared      \* history: modules in progress whose field was set to nil or false

requireVars == <<loaded, running, result, failed, cleared>>

NoResult == <<"none", "nil">>
InProgress(m) == \E i \in DOMAIN running : running[i] = m

RequireInit == /\ loaded = [m \in Modules |-> "nil"] /\ running = <<>> /\ result = NoResult
               /\ failed = {} /\ cleared = {}

\* luaL_error, caught at some level.
LoadFails(level) ==
    /\ level \in 0 .. Len(running)
    /\ running' = SubSeq(running, 1, level)
    /\ failed' = failed \union {running[i] : i \in level + 1 .. Len(running)}
    /\ cleared' = cleared \cap {running[i] : i \in 1 .. level}
    /\ result' = NoResult
    /\ UNCHANGED loaded

\* The field is there: it is returned, unless it is the sentinel.
RequireLoaded(m) ==
    /\ loaded[m] \notin {"nil", "false", "sentinel"}
    /\ result' = <<m, loaded[m]>>
    /\ UNCHANGED <<loaded, running, failed, cleared>>

RequireLoop(m, level) == loaded[m] = "sentinel" /\ LoadFails(level)

NotFound(m, level) == loaded[m] \in {"nil", "false"} /\ LoadFails(level)

SentinelForgotten(m) == UNCHANGED loaded      \* mutant

MarkLoading(m) == loaded' = [loaded EXCEPT ![m] = "sentinel"]

\* A loader found the module: its chunk runs. That the loader, which is called between the
\* check of the field and the mark, may be the program's and require too is left out.
RequireRuns(m) ==
    /\ loaded[m] \in {"nil", "false"} /\ Len(running) < MaxRequires
    /\ MarkLoading(m)
    /\ running' = Append(running, m)
    /\ result' = NoResult
    /\ failed' = failed \ {m}
    /\ UNCHANGED cleared

\* The chunk returns v.
ChunkReturns(v) ==
    /\ running # <<>>
    /\ LET m == running[Len(running)]
           field == IF v # "nil" THEN v ELSE loaded[m]
           value == IF field = "sentinel" THEN "true" ELSE field
       IN  /\ loaded' = [loaded EXCEPT ![m] = value]
           /\ result' = <<m, value>>
           /\ running' = SubSeq(running, 1, Len(running) - 1)
           /\ cleared' = cleared \cap {running[i] : i \in 1 .. Len(running) - 1}
           /\ UNCHANGED failed

ChunkFails(level) == level < Len(running) /\ LoadFails(level)

\* The program sets a field of package.loaded.
SetLoaded(m, v) ==
    /\ loaded' = [loaded EXCEPT ![m] = v]
    /\ cleared' = IF v \in {"nil", "false"} /\ InProgress(m) THEN cleared \union {m} ELSE cleared
    /\ result' = NoResult
    /\ UNCHANGED <<running, failed>>

RequireNext ==
    \/ \E m \in Modules : RequireLoaded(m) \/ RequireRuns(m)
    \/ \E m \in Modules, level \in 0 .. Len(running) : RequireLoop(m, level) \/ NotFound(m, level)
    \/ \E v \in {"nil", "false", "value"} : ChunkReturns(v)
    \/ \E level \in 0 .. Len(running) : ChunkFails(level)
    \/ \E m \in Modules, v \in {"nil", "false", "value"} : SetLoaded(m, v)

\* The chunk of a module does not run inside itself unless the program has cleared
\* its field meanwhile; require never returns the mark of a module in progress, but what
\* package.loaded holds; and only chunks in progress or failed leave the mark there.
LoadedOnce ==
    /\ \A m \in Modules \ cleared : Cardinality({i \in DOMAIN running : running[i] = m}) <= 1
    /\ result # NoResult => result[2] # "sentinel" /\ result[2] = loaded[result[1]]
    /\ \A m \in Modules : loaded[m] = "sentinel" => m \in failed \/ InProgress(m)
=============================================================================
