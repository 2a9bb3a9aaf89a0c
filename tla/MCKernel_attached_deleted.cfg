CONSTANTS
    t1 = t1
    t2 = t2
    t3 = t3
    k1 = k1
    k2 = k2
    k3 = k3
    e1 = e1
    e2 = e2
    n1 = n1
    s1 = s1
    v1 = v1
    v2 = v2
    b1 = b1
    b2 = b2
    None = None
    CNODE = {k1, k2, k3}
    TCB = {t1, t2, t3}
    ENDPOINT = {e1, e2}
    NTFN = {}
    SCHED = {s1}
    VSPACE = {v1, v2}
    UNTYPED = {}
    FRAME = {}
    Bit = {b1, b2}
    CNodeSlots = 3
    MaxTcbs = 3
    InitSlots <- SharedSlots
    Domain <- Own2
    Home <- HomeSlots
    BootThreads = {t1, t2, t3}
    Syscalls = {"Send", "Recv", "Delete", "Yield"}
    CPtrs = {1}
    Args = {1, 2}
    Configures <- NoConfigures
    ExtraCaps = {0, 1}
    Flags = {FALSE}
    Mints <- NoMints
SPECIFICATION Spec
PROPERTIES
    AttachedStillHeld
