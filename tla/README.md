# A verification project for cpplua

cpplua is the Lua 5.1 interpreter written in C++. This directory holds TLA+
models of it, the TLC runs that check them and the TLAPS proofs about them:
the incremental collector and its barriers, tables, the compiler from syntax
to bytecode with the machine that runs it, calls with errors and coroutines,
and the algorithms of the libraries. Paths such as `lgc.cpp:483` refer to the files of the repository.

To repeat a check: `tlc -config MCWeak.cfg MCWeak`; to repeat a proof:
`tlapm LuaGCProofs.tla`. PROJECT.json lists the runs, the source lines that
every definition models, the hazards and the findings.

## Inventory

| component | files | state | operations | hard behaviour | what makes it correct |
|---|---|---|---|---|---|
| heap | lobject.h, lgc.h | mark bytes, lists threaded through `next` and `gclist` | marking, barriers | every store meets every phase of the collector | nothing reachable is freed; no black object refers to a white one while marks propagate |
| collector | lgc.cpp | gcstate, currentwhite, gray, grayagain, weak, tmudata, sweep positions, thresholds | singlestep, luaC_step, luaC_fullgc | incremental: the program runs between any two steps, finalizers run inside one | the above; one white per cycle; garbage is freed, finalizers run once |
| functions | lfunc.cpp | open upvalues of each thread, uvhead | findupval, close, new closures | upvalues shared by closures, resurrected, closed in any phase | one upvalue per captured local |
| strings | lstring.cpp | hash table of all strings | intern, resize | dead strings found again; no resize in the sweep | equal strings are one object |
| tables | ltable.cpp | array part, nodes with chains, lastfree | get, set, newkey, rehash, next, getn | dead keys, colliding nodes, failed allocations, weak entries | a map from keys to values; next visits each field once |
| tag methods | ltm.cpp | a cache of absent fields in `flags` | fasttm | the cache after a store that does not pass luaH_set | cache agrees with the table |
| calls | ldo.cpp | stack, CallInfo array, nCcalls, errorJmp | call, pcall, grow, throw | reallocation under pointers, overflow while handling overflow, unwinding | limits restored, errors reach the nearest handler |
| coroutines | ldo.cpp, lbaselib.cpp | status, ci, resuming C frames | resume, yield, status | normal and dead coroutines, yields across C calls | one thread runs; a coroutine is resumed only when suspended |
| virtual machine | lvm.cpp, lopcodes.cpp | registers | opcodes, metamethods | metamethods run anything | result equals that of the reference manual |
| state | lstate.cpp | global_State | open, newthread, close | finalizers that fail while closing | every block freed |
| API | lapi.cpp | - | everything C code does | barriers, pseudo-indices | keeps the heap's invariants |
| memory | lmem.cpp | totalbytes | realloc, growaux | limits, emergency | accounting is exact |
| lexer | llex.cpp | buffer, lookahead | next | long brackets, escapes | token sequence |
| parser, code generator | lparser.cpp, lcode.cpp | FuncState, blocks, jump lists, registers | statements, expressions | jump lists threaded through instructions | every jump patched once; registers balanced |
| dump, undump | ldump.cpp, lundump.cpp | stream | dump, load | the reader may run Lua code | undump(dump(f)) = f |
| streams | lzio.cpp | chunk, rest | fill, lookahead, read | chunk borders | bytes in order, once |
| numbers | lobject.cpp | - | int2fb, log2, conversions | rounding | rounds up, never down |
| auxiliary library | lauxlib.cpp | free list in a table, buffers on the stack | ref, unref, buffers | reuse of references | a reference is given once |
| base, table, string, package, debug libraries | lbaselib.cpp, ltablib.cpp, lstrlib.cpp, loadlib.cpp, ldblib.cpp | - | wrappers, sort, patterns, require | order functions that lie, backtracking, module loops | against reference definitions |
| io, os, math, lua | liolib.cpp, loslib.cpp, lmathlib.cpp, lua.cpp, lualib.cpp | files | wrappers of libc | - | not modelled |

The components call one another as follows. The program (the virtual machine
and C functions through the API) allocates by `luaC_link`, stores with a
barrier, and calls `luaC_checkGC` at allocation sites; that runs `luaC_step`,
which may run finalizers, which are program again. The parser and the undumper
are program too: they allocate prototypes, kept in registers while they are
filled. Everything shares one `global_State`, and coroutines share the heap
but have each a stack, whose registers open upvalues alias.

## Modules

The heap (a state machine, and the modules that prove things about it):

    LuaHeap         objects, references, colours, marking, barriers
      LuaCollector  singlestep by state and branch, luaC_fullgc
        LuaGC       the program; Spec; the safety properties
          LuaGCLiveness   fairness and the liveness properties
          LuaGCUnguarded  three operations that break the invariants
          LuaGCProofs     types and colours; open upvalues, gray lists, userdata
            LuaGCProgramProofs  the references a step of the program makes
              LuaGCSafetyProofs the collector's steps; nothing dangles
    MCWeak MCChunk MCUpvals MCThreads MCLive   small heaps for TLC

Tables:

    LuaMap          what a table promises: a map, and a traversal of it
      LuaTable      ltable.cpp; Spec implements LuaMap
        LuaTableProofs      chains, main positions, free places, next
          LuaTableMapProofs rehash counts right; luaH_getn; IsMap
        MCTable     a small table for TLC

From source to values:

    LuaSyntax         abstract syntax; values and the operations on them
      LuaCode         lcode.cpp: registers, constants, jump lists
        LuaParser     lparser.cpp: the grammar rules that drive LuaCode
          LuaDebug    ldebug.cpp: the verifier, and names for error messages
            LuaVM     lvm.cpp: one action per instruction; also takes LuaSource
              MCCode  the programs for TLC
      LuaSource       what a program means, without registers or jumps

The runtime's other mechanisms, which share no state:

    LuaCalls        ldo.cpp: calls, errors, coroutines, their limits
      LuaCallsProofs  its counters are functions of the C stack
    LuaGsub         lstrlib.cpp: gsub, gmatch, around any matcher
      LuaPattern    lstrlib.cpp: match, step by step
        LuaPatternProofs  it finds the preferred way to match, or there is none
    LuaSort         ltablib.cpp: sort
    LuaStrings      lstring.cpp: the table of strings
    LuaRef          lauxlib.cpp: luaL_ref, luaL_unref
    LuaRequire      loadlib.cpp: require
      LuaRuntimeProofs  what is proved of the last four, and of LuaGsub
      MCRuntime     all seven for TLC

**LuaHeap.** An element of `Obj` is a block of memory of fixed type that is
allocated, freed and allocated again; a stale reference is thus a reference to
a free or a recycled block. `list[o]` is the list `o` is linked in (`next`),
`gray`, `grayagain` and `weak` are the lists threaded through `gclist`, as
sets, because nothing depends on their order. `tab`, `ud`, `cl`, `pr`, `uv`
and `th` are the contents of tables, userdata, closures, prototypes, upvalues
and threads, reduced to references: every value that is not collectable is
`Nil`. `Contents` is what the program can read from an object, `Refs` what
traversing it marks. `MarkSet` and `Coloured` are `reallymarkobject`: userdata
and upvalues are followed at once, other objects become gray and are linked.

**LuaCollector.** One action per state and branch of `singlestep`:
`StartCycle`, `PropagateMark`, `Atomic`, `SweepString`, `Sweep`, `GCTM` and
`FinalizerReturn`, `EndCycle`. Nothing runs inside `atomic`, so that its
successive calls of `propagateall` are one step: together they mark the least
set of white objects closed under references (`WhiteClosure`). A sweep step
visits at most `GCSWEEPMAX` objects of those that were in the root list when
the sweep began. `FullGC` is `luaC_fullgc`: while `fullgc` holds only the
collector runs, until the pending sweep is finished and `FullMark` marks the
roots; what follows is a cycle like any other, in which the model lets the
program interleave although the code does not (it has more behaviours).

**LuaGC.** The program in actions that contain no `luaC_checkGC`: registers,
allocation, closures and upvalues, stores, loading a chunk, coroutines. Its
operands are what it holds (`Held`: registers, globals, registry, the
arguments of running finalizers), and it can load whatever `Readable` says.
A coroutine knows the thread it resumed (`resuming`, the argument of
coroutine.resume, which the collector marks) and the one that resumed it
(`resumer`, which only the C stack knows). `ResumeDead` is the refused resume of
a coroutine that an error ended; which coroutines those are is left open.
`luaC_step` makes several single steps in a row; the model lets the program
run between any two, since the number depends on pace parameters.

**LuaGCUnguarded** adds `lua_setupvalue`, `LoadConstants` and the refused resume of a
normal coroutine (`ResumeNormal`). They violate what the others keep, so they
are in runs of their own.

**LuaTable.** `t` is one table: its array part as a sequence, its nodes as a
function on `0..sizenode-1` with `next` a position or `NoNode`. The functions
of ltable.cpp are operators from tables to tables with the names they have
there: `getfreepos`, `rehash`, `resize`, `luaH_getn`; `Insert` is `newkey` when
there is room, with `MoveColliding` and `ChainAfter` for its two branches, and
`SetSlot` is `luaH_set`. The C functions are mutually recursive (newkey,
rehash, resize, luaH_set, newkey); the model stops at the second rehash and
sets `overflow`, and RoomAfterRehash says it never happens. `Put`, `SetList`
(OP_SETLIST), `Collect` (the collector turns keys of empty nodes dead) and the
steps of a traversal (`Begin`, `Visit`, `Finish`: the calls of `luaH_next`)
interleave. A program that assigns to an absent field gives up its traversal,
as the reference manual asks of it. `fields`, `seen` and `visits` are ghosts: what
`luaH_get` returns for each key, the keys `luaH_next` has returned, and how often it
returned one. `LuaMap` knows only these and whether a traversal is in progress;
`IsMap` is the refinement.

**LuaSyntax** has constructors for the trees that stand for source text, and the
values: a value is a pair of a type and a datum. `Arith`, `Less` and their like are
what lvm.cpp does to values without tag methods; 1 % 0 gives a NaN that equals nothing.

**LuaCode.** An operator maps a `FuncState` to the next one and has the name of
its function (`Exp2Reg` is `exp2reg`, `PatchList` is `luaK_patchlist`). The
expression descriptor, which the code passes by pointer, is the field `e`. As in the
code, a list of pending jumps is not a data structure of its own: each JMP
holds the offset of the next jump in the list, and patching overwrites it. `jpc`
is the list of jumps to the next instruction, `lasttarget` what keeps
peephole optimizations from crossing a label.

**LuaParser** has one operator per grammar rule. A rule gets the piece of tree
it would read, and does to the FuncState what the rule does, in its order.
`prev` links a function to the one it is nested in, and `singlevaraux` changes
both when a local is captured. `Compile` is what f_parser returns.

**LuaDebug** is `luaG_checkcode`, which undump applies to bytecode it does not
trust, and `getobjname` with `symbexec`, which finds out from bytecode alone what
a register would be called in the source. Both run on the compiler's output.

**LuaSource** gives a program its meaning by recursion on its tree: locals are
cells, a closure is a body with an environment, control leaves a statement with
a signal. It follows the rules the sources state where they decide something
(the order of evaluation in assignments and calls, when an error is raised). It
shares with LuaVM only the operations on single values.

**LuaVM.** `stack`, `top`, `ci` and `upvals` are those of one `lua_State`; an
action is one case of the switch in luaV_execute, with the part of
luaD_precall, luaD_poscall or luaF_close it calls. OP_TFORLOOP takes two steps,
because it calls in the middle. `log` records its arguments and returns them,
`iter` counts up; they are the only C functions.

**LuaCalls.** `thread` is what every `lua_State` keeps about calls: `ci` as a
number of frames, `size_ci`, `nCcalls`, `allowhook`, `errfunc`, `status`. `cstack` is
the C stack, which all threads share: activations of luaV_execute,
luaD_call, luaD_pcall, lua_resume, luaD_callhook, GCTM and luaG_errormsg,
each with what it saved in its locals. `todo` is what the activation on top does
next: run, return to its caller, call the handler ("error"), or throw
("errrun", "errerr"). An error cuts the C stack at the last protected
activation (`Catcher`), whichever thread that serves; the counts of the threads
do not follow by themselves, which is what the properties are about. `values` is what a
coroutine has on its stack when no call is in progress: its body, or results that
its resumer had no room for (`TooManyResults`). The next resume calls the last of these
as a body (`Resume`, or `ResumeUncallable` if it is no function); whether there is room, for them or for
arguments (`TooManyArguments`), is left open. A Lua function
may at any instruction call, return, fail, or be interrupted by a tag method, a
hook or a finalizer, so that all programs are covered, not chosen ones.

**LuaPattern** is one call of `match` from outside, from any place of the string. `matcher`
holds the place, the next item, the captures of MatchState, and in `calls` the
functions that wait for a `match` they have called, with the locals they need when it returns:
start_capture and end_capture, max_expand and min_expand, and match itself at an
optional item. An action is what happens between two of these calls or returns. An
end of the pattern returns through all of them (`Succeed`); a `nullptr` goes back to one
function at a time, which undoes its capture or tries again (`StartFails` to
`MinFails`). A pattern is cut into items beforehand, since classend does not depend on the string;
a `)' names the item it closes, which only the reference looks at: the matcher searches
for it as capture_to_close does. `Ways` defines all ways to match a pattern, and
`Preferred` which of two is the right one: neither backtracks.

**LuaGsub** runs `gsub` and then `gmatch` on the same subject, one match per step.
The matcher is the constant `Matched`, of which `MatchAssumption` only says that a match
ends between the place where it begins and the end of the string. MatchStaysInString is
that of LuaPattern's matcher; in MCRuntime `Matched` is the end of the preferred way, which
is what `MatchIsPreferred` says of the matcher, and TLC evaluates the assumption.

**LuaSort** makes one comparison per action, because the order function is the
program's. Where the order may answer anything, each answer is a branch.

**LuaStrings** has a set of entries for each chain, because the order of a chain decides
only how long a search takes; a string is its hash value. Marking is arbitrary, because LuaCollector has it.

**LuaRef.** `reft` is the table; the free list is threaded through it from index
0, and the next new reference comes from any border that `lua_objlen` may return.

**LuaRequire.** `running` is the stack of chunks in progress. A chunk may require
any module, itself too, assign to package.loaded, return or fail; an
error is caught by any chunk below.

**MCRuntime.** A behaviour chooses one mechanism in `mechanism` and the others
rest: the seven state spaces are one run, side by side and not multiplied.

## Runs

Every run finishes its state space. Deadlock is checked in all but `runtime`,
whose sort, match and calls come to an end.

| run | instance | checks |
|---|---|---|
| gc_weak | thread, root table, metatable, table, string; one node, two registers, all modes | TypeOK, NoDangling, LinkedOnce |
| gc_chunk | thread, root table, two registers; and at one time a prototype, a Lua closure, a C closure and a string, with one constant and two buckets, at another a metatable and a userdata | NoDangling, Tricolor, OneWhite, FinalizedBeforeFreed |
| gc_upvals | thread, root table, two closures, two upvalues, two registers | NoDangling, NeverBlack, OneUpvalPerSlot |
| gc_threads | main thread, two coroutines, root table, closure, upvalue | NoDangling, Tricolor |
| gc_live | thread, root table, userdata with finalizer, table | GarbageIsFreed, FinalizersRun |
| table_map | two integers, a string and an object, two values, two hash functions | the invariants of chains and free places, BoundaryFound, KeyStillFound, IsMap |
| code | 288 programs, each with four lists of arguments | CompiledMeansSource, CompilerPassesVerifier, NamesTheCulprit, OpenUpvaluesAreLocals, Terminates |
| runtime | two coroutines; patterns; arrays; five strings; four references; two modules | CCallsExact, FramesShared, StatusTrue, HandlerInForce, HooksOffInside, OverflowContained, MatchIsPreferred, SubstitutesEveryMatch, SortsSafely, InternedOnce, RefsDistinct, LoadedOnce |
| code_disputed | three programs | CompiledMeansSource is violated |
| gc_setupvalue | that of gc_upvals, with `lua_setupvalue` | Tricolor is violated |
| gc_undump | that of gc_chunk, with `LoadConstants` | NoDangling is violated |
| gc_refused | main thread, three coroutines in a chain of resumes, root table; with `ResumeNormal` | NoDangling is violated |

`NoDangling` is the property of a collector: no root and no live object refers
to a block that is free or that the sweep in progress will free, and neither the
running thread nor one that waits for a coroutine it resumed (`Active`) is such a
block. The second half is not about references in the heap: those threads have C frames,
which hold a `lua_State *`. `Tricolor` is
the invariant the barriers are for; it exempts userdata that wait for their
finalizer since an earlier cycle, which are black while their contents are
marked again only by the next `atomic` (`marktmu`). `LinkedOnce` relates the
three gray lists and the colours. `OneWhite` says the sweep leaves no object
with the white of the last cycle. `NeverBlack` is why stores into a stack and
into open upvalues need no barrier. `OneUpvalPerSlot` is what sharing of a
captured local rests on. `FinalizedBeforeFreed` says which sweep may free a
userdata.

`IsMap` is where everything in a table meets: a key lost by a move, found in the
wrong node, counted wrong by a rehash, skipped or repeated by a traversal makes
a step that the map does not allow. `visits` is there for keys that come again: a
visit that does not add to `seen` adds to `visits`, which LuaMap does only for a
new key. A key can have two nodes, a dead one and a
live one: the traversal works because newkey chains the live one nearer to the
main position, and a run with the new node chained last fails. `MainPositions`
is the invariant the file states, `ChainsEnd` what its loops need,
`FreeBeforeLast` what `lastfree` means.

`CompiledMeansSource` is the correctness of a compiler: for each program and its
arguments, the bytecode ends with the error or the values, after the calls, that
LuaSource defines. A jump patched twice or to the wrong place, a register freed
too early, a constant folded wrong or an upvalue closed too late all end in it.
`OpenUpvaluesAreLocals` looks at the machine between instructions:
an open upvalue on a register that has become a temporary would be changed by
expressions. `NamesTheCulprit` compares the name that symbolic execution finds
with what the source called the value. `Terminates`: bytecode never loops where
the source does not.

Of `runtime`, the first six relate the two stacks of LuaCalls. `CCallsExact` is
what makes "attempt to yield across metamethod/C-call boundary" right: nCcalls
is saved, restored and reset in four places. `FramesShared` is what
`nexeccalls` means, also after a coroutine goes on in another luaV_execute than
the one it yielded in. `StatusTrue` compares what luaB_costatus works out from
three fields with what is on the C stack. It has one exception, which is what the code does:
a coroutine that kept results (`KeptResults`, lbaselib.cpp:449) is called suspended
although its body has returned. `HandlerInForce` and `HooksOffInside`
say that an error, a yield or a nested call never leaves the handler or the hooks
of someone else. `OverflowContained` covers the overflow of either stack, the
overflow while handling that, and the shrinking afterwards. `MatchIsPreferred`
is both directions: a match that exists is found, it is the preferred one, and
after a failure no capture is left. `SortsSafely` includes inconsistent orders.

*Bounds.* Each heap is the smallest in which its hazard occurs: two whites need
two cycles, which every run has as blocks are recycled without limit; a lost
object needs a black holder, a white value and a register or weak entry that
hid it; a shared upvalue needs two closures. `GCSWEEPMAX = 1` makes each sweep
step visit one object, the most interleaving. The number of steps, of cycles
and of allocations is not bounded. `Metas`, `Modes`, `GCFields` and `Envs`
limit which metatables, `__mode` and `__gc` fields and environments a run
tries. MCUpvals and MCThreads start from the state after a chunk was loaded
or after a coroutine first yielded, and MCRefused.cfg after three resumes.
MCUpvals leaves prototypes out (`Protos = {}`). In gc_threads no closure is created and no upvalue
closed by its function, and there is no full collection: the question is what
switching, dying and freeing threads does. In gc_chunk the blocks of a chunk
and the userdata with its metatable are not allocated at the same time
(`OneKind`): each side has all its interleavings with the collector, the
product of both is not explored.

In table_map four keys fill a hash part of four nodes, which dead nodes fill too,
so that a rehash grows, shrinks or only cleans the table and moves integers
either way; the first hash function makes a colliding node move, the second
makes the string, the object and 1 collide. Nothing tells the two values apart
(`ValueSymmetry`). `MAX_INT = 3` lets unbound_search reach its linear search. Sizes above 2^MAXBITS are out of the model's bounds.

In code the families of MCCode put every expression in every position where the
code generator treats it in a different way: as a value, as a condition, after
and, or, not, in parentheses, as argument, upvalue, index, in lists that are too
short, too long and open. Conditions combine six atoms, which are all kinds
that luaK_goiftrue and luaK_goiffalse tell apart. The arguments are chosen so
that each variable is nil, false, true and a number. `MAXINDEXRK = 1` makes the third
constant of a function need a register, and `LFIELDS_PER_FLUSH = 2` makes
constructors flush; 40 slots are more than any program uses. Every
instruction of luaV_execute occurs but OP_DIV and OP_POW, which no module has:
the code generator treats them like the other arithmetic.

In runtime, CallInfos start at 2 and have the limit 4, so that the array doubles
before it overflows; C calls have limit 3 and margin 2. Overflow, the
handler's overflow and LUA_ERRERR all occur. `MaxNested = 3` bounds nested
luaD_call and lua_resume (before a new one of the program; handlers go to the
limit), `MaxLua = 2` the Lua frames of one luaV_execute. The two coroutines are
interchangeable constants, hence `SYMMETRY`; `VIEW` leaves out, of a coroutine
that is over with nothing left to call, the fields that neither auxresume nor luaB_costatus reads.
Patterns: all of at most three items, and families with two captures and
references to them, on all strings of up to three letters over {a, b}. Arrays: all of up to six
elements out of three with an order, four with arbitrary answers. Strings: hash
values 0 to 4 and minimal size 1, so that the table has sizes 1 to 8 and grows
and shrinks. Four objects share five references. Two modules, three chunks in progress.

*Fairness.* `LiveSpec` assumes weak fairness of `CollectorStep`: the program
allocates again and again, `totalbytes` passes `GCthreshold`, and every
allocation site calls `luaC_checkGC`, which takes at least one single step.
Nothing is assumed of the program nor of the return of a finalizer. A stopped
collector (`collectgarbage("stop")`) is outside that assumption. Full
collections are left out of `LiveSpec`: a program that calls them for ever
ends a cycle each time.

`Spec` of LuaVM assumes weak fairness of the next step: a sequential machine
goes on with its next instruction. Every program of the run ends by its meaning
in LuaSource. The other modules assume no fairness.

## What the runs found

* `lua_setupvalue` (lapi.cpp:795) puts the barrier on the closure, while the
  value goes into an upvalue that other closures may share. In gc_setupvalue the
  upvalue is closed and black, the closure it is set through is white: no
  barrier acts and a black object refers to a white one.
* `LoadConstants` (lundump.cpp:104) stores without a barrier into a prototype
  which the collector may have blackened while the reader, possibly a Lua
  function, ran. In gc_undump the constant is freed under it.
* `resume_error` (ldo.cpp:341) resets the top of the thread it refuses, also when
  this is a coroutine that has resumed another and waits for it: auxresume asks only
  whether it is dead. The slot that goes is the argument of coroutine.resume, in
  gc_refused the only reference to a coroutine further up the chain, which is
  freed while C frames still wait in it.
* A coroutine whose results do not fit in the stack of its resumer (lbaselib.cpp:449)
  keeps them, is called "suspended", and when it is resumed again calls the last of
  them. Nothing states otherwise, so that StatusTrue has the case as its exception.
* `luaK_nil` (lcode.cpp:27) omits OP_LOADNIL at the start of a function, where
  "positions are already clean". Registers of parameters are not:
  `function f(a) a = nil; return a end` returns its argument.
* `luaK_goiffalse` compiles the constant true, and `luaK_goiftrue` the constant
  false, to a jump (lcode.cpp:521, 493). `luaK_jump` appends the jumps that wait for the next
  instruction (`jpc`) to the list of the new jump. Those with a value to keep
  thus bypass the constant: `((1 or false) and true) or false` gives 1,
  `((nil and true) or false) and 1` gives nil. Both and the one above are in
  code_disputed.

The programs of `code` avoid these shapes, and some others in which LuaSource
and the code differ for reasons that were met and understood:

* `-nil`, `-true`: luaK_prefix (lcode.cpp:664) puts only string constants in a
  register, so that OP_UNM gets a constant's index where it takes a register;
* a generic `for` with four or more expressions in its list;
* a comparison with a comparison as its right operand and a constant beyond
  MAXINDEXRK as its left one: the constant is put in a register after the other operand;
* `(v and g or h)()` where none is callable: the name found is that of the
  global that the last load on the straight path took;
* strings that are converted to numbers.

Met while reading, with no model: `luaV_settable` on a table that is its
own metatable leaves a stale bit in `flags` (lvm.cpp:125-131);
`lua_gc(LUA_GCSTEP)` has no exit at the end of a cycle when the pause is at
most 100 (lapi.cpp:698).

## What is proved

Every theorem holds for all values of the constants that satisfy the named
assumptions of its module: for the heap `HeapAssumption`, `CollectorAssumption` and
`ProgramAssumption` (any finite set of objects of any types, any sizes of tables,
prototypes and stacks, any number of buckets); for LuaCalls any set of coroutines
and limits within `LimitsAssumption`; for LuaPattern any
string and any pattern on which match raises no error (`PatternAssumption`), for LuaGsub any
matcher within `MatchAssumption`; for LuaTable `TableAssumption` (any keys, also
infinitely many, any values, hash functions, initial sizes and `MAX_INT`); any
objects and references, modules, hash values, and arrays of any length. The heap's are
about `Spec` of LuaGC, the table's about `Spec` of LuaTable, the others about the mechanism alone (`CallsSpec`, `RefSpec`,
`RequireSpec`, `StringsSpec`, `SortSpec`, `MatchSpec`, `GsubSpec`), whose initial states and steps MCRuntime uses.

| theorem | module | shows |
|---|---|---|
| TypeCorrect | LuaGCProofs | `[]TypeOK` |
| OpenNeverBlack | LuaGCProofs | `[]NeverBlack` |
| OneUpvalForEachSlot | LuaGCProofs | `[]OneUpvalPerSlot` |
| GrayListsExact | LuaGCProofs | `[]LinkedOnce` |
| SeparatedBeforeFreed | LuaGCProofs | `FinalizedBeforeFreed` |
| NothingDangles | LuaGCSafetyProofs | `[]NoDangling` |
| BarriersSuffice | LuaGCSafetyProofs | `[]Tricolor` |
| CurrentWhiteOnly | LuaGCSafetyProofs | `[]OneWhite` |
| CountersAreTheStack | LuaCallsProofs | `[]CallsInv` |
| CCallsAreExact | LuaCallsProofs | `[]CCallsExact` |
| FramesAreShared | LuaCallsProofs | `[]FramesShared` |
| StatusIsTrue | LuaCallsProofs | `[]StatusTrue` |
| HandlerIsInForce | LuaCallsProofs | `[]HandlerInForce` |
| HooksAreOffInside | LuaCallsProofs | `[]HooksOffInside` |
| OverflowIsContained | LuaCallsProofs | `[]OverflowContained` |
| ReferencesDistinct | LuaRuntimeProofs | `[]RefsDistinct` |
| ModulesLoadOnce | LuaRuntimeProofs | `[]LoadedOnce` |
| StringsInterned | LuaRuntimeProofs | `[]InternedOnce` |
| TablesAreSorted | LuaRuntimeProofs | `[]SortsSafely` |
| GsubAndGmatchAgree | LuaRuntimeProofs | `[]SubstitutesEveryMatch` |
| MatchFindsPreferred | LuaPatternProofs | `[]MatchIsPreferred` |
| MatchStaysInString | LuaPatternProofs | a match ends in the string, not before it begins |
| TableTypes | LuaTableProofs | `[]TypeOK` |
| MainPositionsKept | LuaTableProofs | `[]MainPositions` |
| SearchesEnd | LuaTableProofs | `[]ChainsEnd` |
| LastFreeKept | LuaTableProofs | `[]FreeBeforeLast` |
| NextNeverFails | LuaTableProofs | `[]KeyStillFound` |
| RehashCountsRight | LuaTableMapProofs | `[]RoomAfterRehash` |
| GetnFindsBoundary | LuaTableMapProofs | `[]BoundaryFound` |
| TableIsMap | LuaTableMapProofs | `IsMap` |

### The collector

`TypeInv` is `TypeOK` with one more conjunct: while strings are swept the next
bucket exists. Without it a step of the sweep could leave the table.

A step of the program can do seven things to an object (`ColourStep`: keep,
create, resurrect, mark, whiten, gray, close); `ProgramColours` proves that of
every operation, so that the invariants of colours and lists look at seven
cases instead of thirty operations.

`NeverBlack` is inductive once it is said of free blocks too (`BlackOK`).
`OneUpvalPerSlot` is inductive.

`LinkedOnce` speaks only of the marking phase, and is not inductive: markroot
empties the lists, which is right only if nothing was gray. `LinkInv` adds that
nothing is gray or black at rest, and that in a sweep whatever is lies ahead in
`unswept`. `FinalizedBeforeFreed` needs `UdataInv`: no userdata has the white of
the last cycle, except in a sweep, ahead of it and separated.

`NoDangling`, `Tricolor` and `OneWhite` need one another: a barrier acts on
objects that are allocated, which NoDangling gives; what a sweep frees is
what was white when the marking ended, which Tricolor must have kept from everything
else. `SafeInv` has all three and what they rest on: the list of every object and the owner of every
open upvalue (`ListOK`), free blocks that refer to nothing (`FreeOK`), threads that resume
one another in one chain, each referred to by the one that resumed it (`ChainOK`), OneWhite said in every phase
(`ColourOK`), which objects can be gray (`GrayOK`), and Tricolor, with the keys of empty nodes, which a
store may bring back (`MarkedOK`). The active threads are what the chain is for: the main
thread is marked, and with each resumer the argument that is the coroutine it
resumed (`ResumedLive`). This is what a refused resume of a normal coroutine breaks,
so that the theorem is about the program without it. It is also about a program that has
no way to assign to the locals of C functions, as nothing but debug.setlocal does. `RefStep`
says of each object what a step of the program does to its
references: each is old, or new and safe. LuaGCProgramProofs proves that of every operation
with its barrier; RefStepsSafe concludes once for all. Of the
collector's steps `Atomic` matters: what is not white after it refers to
nothing that is white, because what it marks is closed under references.

### Calls

The six properties of LuaCalls are one fact: the counters are a function of the C
stack. `CallsInv` says which function (`Agrees`), for every thread at once and also for
what the activations saved, since an error restores from there: the stack cut
at any protected activation must give what that activation saved. `Fits` and `Placed`
say which activation can lie on which; without them `Catcher` could find that
of another thread. Where errors can come from, the invariant says which threads
the cut leaves (`Lives`). A coroutine that is over has nothing on the C stack and its
counters as before it began (`Idle`), unless it has an error status; so that one
which kept results can begin again. One lemma for each way to push, pop and cut (`DCall`,
`CallOver`, `PopKeeps`, `Cut`), then one for each action.

### Tables

`TableInv` has one part that is about the nodes alone (`Sound`): following `next`
never returns to a node (`Acyclic`: every set of nodes has one whose successor is
outside), where a key is not in its main position, the key there is in its own
(`AtHome`), and every node is reached from the main position of its key (`Reached`). A node is reached from another when
every set that holds that one and is closed under `next` holds it: no induction along a
chain is needed, and what `newkey` does to a chain is shown by cutting such sets. Three
more parts make this inductive: at most one node links to a node (`OnePrevious`: a moved
node has one predecessor to redirect), at most one live node has a key (`OneLive`), and where a dead
key is the same object as a live one, the live one comes first (`FirstLive`: findindex
compares dead keys too, ltable.cpp:122, and must stop at the live node). `FreeBefore` is
the comment of `lastfree`; with it getfreepos returns nothing only when every node has a key.

`newkey` has three lemmas about nodes: TakeMain, TakeBehind (the new key chained after its
main position) and TakeOver (the colliding node moves). `resize` and OP_SETLIST are loops
that contain all of this: Recursion shows that such a loop has a value after every turn, UpTo is
induction along a range (from the well-foundedness of the naturals), and an invariant
of the loop's body is one of the loop.

RehashCountsRight is where the counting matters. During `resize` some entries of the
old table are in the new one and some are not (`Filling`); `Ready` says that the keys
which still need a node are at most as many as the nodes without a key (`Blanks`). rehash
establishes it for the entries in use and the key that found no place; every
reinsertion takes one key from one side and one node from the other; at the end
the one blank that is left is for the new key. It needs `Neat`: no live node has a
key that belongs to the array part, otherwise resize would not move it there, and the dummy node is never used.

TableIsMap rests on `MapInv`: `TableInv`, `Neat`, `fields` is what luaH_get returns for each key
(`Fields`), and `Walked`: the keys returned so far are exactly those with a value
whose place is not after the place of the last one, places being the numbers findindex gives to
array slots and nodes. A store to a field that exists, a field that is cleared and a
dead key change no place. From `Walked`, the next place with a value is a
key that was not returned, hence `visits` goes up only with `seen`, and at the end all were.

GetnFindsBoundary: each step of the binary search keeps an interval whose lower end is present
or zero and whose upper end is not (`Between`), and shortens it; doubling ends below or
above MAX_INT; the linear search ends because there are more numbers than entries in use.

### The other mechanisms

`RefInv`: no two elements link to the same one, none in use is linked to, and everything
that links is reached from index 0 (every set that contains 0 and follows the links has it),
which is why an empty list means that the nil found at a border is not the end of one.
`RequireInv` strengthens LoadedOnce by what `loaded` holds for a chunk in progress. `StringsInv`
says in which buckets a dead entry may still be; that luaS_resize
loses nothing is a lemma about the table it makes.

`SortInv` of table.sort: the array is a permutation (a bijection between
the places of each value, since two elements change places only); a waiting
range has at least twice the size of those called later, so that 2 to the depth is at
most the length; with an order, whatever lies outside the ranges is separated from them,
and within the current one `Parting` says what the scans have
seen. The scans stop at the pivot and at a[l], so that the sort raises no error. Powers
of two are the sizes of power sets (`Power`), which avoids an induction.

`GsubInv` says of gsub that there is a set D of places it has tried, from each of
which it went to the end of the match or one place further (`Tried`), that its pieces join
up, and that those it replaced are the matches at the places of D, as many as it
counted. No place of D lies inside a match that begins at another. gmatch looks at every
place from where it is to the next match, and may thus look inside what
gsub skipped only if it leaves D; `PlaceByPlace` shows that it does not: from a place of D
without a match the next place is in D as well. So what it has returned are the matches
at D before the place it is at.

`MatcherInv` of match: there is a path `e` through the items matched so far (`Path`), a list
of places of which each is an end the reference allows for its item (`Reach`); the captures
are what the path says (`Captures`); and every function that waits does so at an item of the
path, with the locals of its place there (`Stack`, `Frame`), while an item nobody waits at
has no end left that it likes less (`NoLater`). The heart is `Branch`: every way to match the whole
pattern goes on from the path, or parts from it at an item that prefers the path (`Passed`), so
that no way which comes before the path is left out. Hence a match that is found is preferred to every
other way, and when nobody waits any more there was none. A call needs only that the item ends where the reference says
(`SingleReach` to `DigitReach`; matchbalance counts as `IsBalanced` does), that the ends tried
before were preferred, and that a capture closed or opened again is the one the reference means
(`CapturesBack`). A call that fails leaves to the item of its caller the ends that this likes less
than the one tried (`Returns`). The recursion of `Ways` is unfolded once (`WaysUnfold`), by well-foundedness
of the naturals: the ways are the paths through all items.

### Only model-checked

* Liveness (`GarbageIsFreed`, `FinalizersRun`, `Terminates`): out of the prover's reach.
* Syntax, code, meaning and the machine: they follow the recursion of trees with
  RECURSIVE operators, of which nothing can be proved.
  `OpenUpvaluesAreLocals` is about LuaVM, but holds because of the registers
  and OP_CLOSE that LuaCode emits.

## What the models leave out

In LuaGC: values that are not collectable, hash chains and rehash,
the resizing of the string table, hooks, allocation failures, the pace of
the collector, `lua_close`. A finalizer that fails looks like one that returns.
The order of lists is open. `resuming` stands for the argument slot of the
resuming C function, `resumer` for its C frame. debug.setlocal, which can change the arguments of a C function in
progress, is left out. `mt` is one metatable for all basic types.

In LuaTable: `flags` and failed allocations.

From source to values: the text (the grammar is read as trees, so that lexer,
line numbers and syntax errors are outside), the limits on locals, upvalues and
constants, tag methods, the growth of the stack, hooks and the collector. Two strings are
not compared (lvm.cpp:217, 230): `OpOrder` has an error for them, and no program
of the run compares strings. The verifier's check of maxstacksize against MAXSTACK and of the
size of lineinfo (precheck, ldebug.cpp) is left out, as code has neither.

In LuaCalls: values and pointers into the stack (`correctstack`, ldo.cpp:104),
handlers that are not functions, a new coroutine in the place of one that is over,
a C function called as the body of a coroutine that kept it as a result,
hooks on calls and returns of C functions, finalizers and hooks outside luaV_execute, yields from
hooks, the halving of the CallInfo array by the collector (checkstacksizes).
Nested resumes are bounded by `MaxNested` only; the code does not count them
either.

In LuaPattern: the text of patterns and classes, patterns that raise an error, and the limit of
32 captures. In LuaGsub: the anchor `^`, gsub's limit and kinds of replacement. In LuaRequire: how a loader finds a file, and a loader of the program that itself requires
modules or sets their fields (loadlib.cpp:269, between the check of the
field and its mark).
In LuaStrings: collisions of equal hash values (two strings in one chain occur).

Hazards with no property, and why:

* the stale `flags` bit (lvm.cpp:125) needs tables with metatables that refer to
  themselves, which multiplies the states of LuaTable;
* the endless LUA_GCSTEP (lapi.cpp:698, lgc.cpp:566) needs thresholds and byte counts: LuaGC
  lets a step come at any time, which covers every pace but not this loop;
* a failed allocation in `resize` (ltable.cpp:251) leaves a table that is no map
  until the next rehash; allocation does not fail in the models;
* a stack that moves (ldo.cpp:104) is about pointers; positions have none;
* `lua_close` (lstate.cpp:172) repeats what GCTM does until no finalizer fails.

Not modelled at all: memory manager, lexer, streams, chunk format, input and
output, the operating system and mathematics libraries, the stand-alone
interpreter. They copy and convert bytes or wrap the C library.

## Plan

Done, in this order: the heap and its collector with their first theorems;
LuaTable, which implements LuaMap; the compiler and its machine; calls,
patterns, sort, strings, references and require.

Proved: the safety of the collector, the counters of calls, references, require, the
table of strings, sort, match and the loops of gsub and gmatch, and all that the run of the table checks. The safety properties
of the runs that have no theorem are those of modules with RECURSIVE operators.

Models still worth writing: the absent bits of tag methods (`flags`, fasttm,
luaV_settable); the pace of the collector with 32-bit thresholds; `lua_close`
with failing finalizers; allocations that fail inside a rehash.
