SPECIFICATION Spec
CONSTANTS
    c1 = c1
    c2 = c2
    w1 = w1
    w2 = w2
    i1 = i1
    i2 = i2
    i3 = i3
    i4 = i4
    u1 = u1
    u2 = u2
    u3 = u3
    u4 = u4
    None = None
    Invoices = {i1, i2}
    Tenants = {"t1"}
    Refs = {"r1", ""}
    Blank = ""
    Uuids = {u1, u2}
    Clients = {c1, c2}
    Workers = {w1, w2}
    Misconfigured = {}
    SyncModes = {FALSE, TRUE}
    CertifyReplies = {"ok", "blank", "reject", "transient", "lost", "garbled", "torn"}
    AnnulReplies = {"ok", "reject", "transient", "lost", "garbled", "torn"}
    MaxRetries = 1
    MaxRequests = 2
    MaxCrashes = 1
    MaxOutages = 1
SYMMETRY MCSymmetry
INVARIANTS
    TypeOK
    ProcessesInStep
    UniqueIndex
    MirrorAuthentic
    TasksHaveRows
    AuditExplainsStatus
    AcceptedNotLost
    XmlUnlessFailed
PROPERTIES
    PromiseKept
