CONSTANTS
    M = M
    A = A
    B = B
    MainThread = M
    Coroutines = {A, B}
    BASIC_CI_SIZE = 2
    LUAI_MAXCALLS = 4
    LUAI_MAXCCALLS = 3
    CCallMargin = 2
    MaxNested = 3
    MaxLua = 2
    Subjects <- SubjectsV
    Matched <- MatchedV
    Arrays <- ArraysV
    Strings = {0, 1, 2, 3, 4}
    MINSTRTABSIZE = 1
    RefObjects = {1, 2, 3, 4}
    MaxRef = 5
    Modules = {"m1", "m2"}
    MaxRequires = 3
SPECIFICATION RuntimeSpec
INVARIANT CCallsExact
INVARIANT FramesShared
INVARIANT StatusTrue
INVARIANT HandlerInForce
INVARIANT HooksOffInside
INVARIANT OverflowContained
INVARIANT MatchIsPreferred
INVARIANT SubstitutesEveryMatch
INVARIANT SortsSafely
INVARIANT InternedOnce
INVARIANT RefsDistinct
INVARIANT LoadedOnce
SYMMETRY Sym
VIEW Seen
CHECK_DEADLOCK FALSE
