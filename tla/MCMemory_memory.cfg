CONSTANTS
    t1 = t1
    t2 = t2
    k1 = k1
    k2 = k2
    e1 = e1
    n1 = n1
    s1 = s1
    v1 = v1
    v2 = v2
    u1 = u1
    u2 = u2
    f1 = f1
    f2 = f2
    f3 = f3
    None = None
    CNODE = {k1, k2}
    TCB = {t1, t2}
    ENDPOINT = {e1}
    NTFN = {n1}
    SCHED = {s1}
    VSPACE = {v1, v2}
    UNTYPED = {u1, u2}
    FRAME = {f1, f2}
    Careful = {v1}
    Bit = {}
    CNodeSlots = 10
    MaxTcbs = 2
    PageSize = 2
    TableEntries = 2
    ArenaPages = 6
    BootArena = 2
    BootRoot <- RootAtBoot
    KernelTable <- TableAtBoot
    KernelBase = 12
    WordSize = 32
    InitSlots <- UntypedSlots
    Domain <- OneDomain
    Home <- BootHome
    BootThreads = {t1}
    BootObjects <- Boot1
    BootBudget <- Budgets
    BootRange <- Ranges
    Syscalls = {"Delete", "Yield"}
    CPtrs = {7}
    Args = {4, 7}
    Configures <- SomeConfigures
    ExtraCaps = {0}
    Flags = {FALSE}
    Mints <- NoMints
    Retypes <- SomeRetypes
    FrameWords <- SomeFrameWords
SPECIFICATION CarefulSpec
INVARIANTS
    MemoryTypeOK
    FramesDisjoint
    TablesDistinct
    KernelMapped
    MappingsAgree
    NothingNamesTheFree
    BudgetsSpent
    NothingUnrecorded
PROPERTIES
    AuthorityMade
    SpacesIsolated
    TranslationAuthorised
    PagesNotWasted
    MemoryObjectsNamed
VIEW Live
