CONSTANTS
    t1 = t1
    t2 = t2
    t3 = t3
    k1 = k1
    k2 = k2
    k3 = k3
    e1 = e1
    e2 = e2
    n1 = n1
    s1 = s1
    v1 = v1
    v2 = v2
    b1 = b1
    b2 = b2
    None = None
    CNODE = {k1, k2, k3}
    TCB = {t1, t2, t3}
    ENDPOINT = {e1, e2}
    NTFN = {n1}
    SCHED = {s1}
    VSPACE = {v1, v2}
    UNTYPED = {}
    FRAME = {}
    Bit = {b1, b2}
    CNodeSlots = 5
    MaxTcbs = 3
    InitSlots <- IpcSlots
    Domain <- Own2
    Home <- HomeSlots
    BootThreads = {t1, t2, t3}
    Syscalls = {"Send", "NBSend", "Call", "Recv", "Reply", "Signal", "Wait", "Poll", "Yield"}
    CPtrs = {0, 1, 2, 3, 4}
    Args = {}
    Configures <- NoConfigures
    ExtraCaps = {0}
    Flags = {FALSE}
    Mints <- NoMints
SPECIFICATION Cooperative
INVARIANTS
    TypeOK
    SchedulerExact
    EndpointQueuesExact
    ReplyLinksExact
    NotificationsExact
PROPERTIES
    ObjectsNamed
    WokenByPartner
    SleepersWoken
    SignalsConserved
    RendezvousKept
    NoStarvation
