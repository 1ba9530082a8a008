SPECIFICATION ServiceSpec
CONSTANTS
    t1 = t1
    t2 = t2
    k1 = k1
    k2 = k2
    k3 = k3
    i1 = i1
    i2 = i2
    u1 = u1
    u2 = u2
    None = None
    Invoices = {i1, i2}
    Tenants = {t1, t2}
    Refs = {"r1"}
    Blank = ""
    Uuids = {u1, u2}
    Clients = {"c1"}
    Workers = {"w1"}
    Misconfigured = {}
    SyncModes = {FALSE, TRUE}
    CertifyReplies = {"ok", "reject"}
    AnnulReplies = {"ok"}
    MaxRetries = 1
    MaxRequests = 2
    MaxCrashes = 0
    MaxOutages = 0
    Names = {"n1", "n2"}
    Keys = {k1, k2, k3}
    Admins = {"a1"}
    MaxLosses = 1
SYMMETRY MCSymmetry
INVARIANTS
    WorksForOwner
PROPERTIES
    StaysDrained
