SPECIFICATION FairServiceSpec
CONSTANTS
    t1 = t1
    t2 = t2
    k1 = k1
    k2 = k2
    k3 = k3
    i1 = i1
    i2 = i2
    u1 = u1
    u2 = u2
    None = None
    Invoices = {i1, i2}
    Tenants = {t1}
    Refs = {"r1"}
    Blank = ""
    Uuids = {u1}
    Clients = {"c1"}
    Workers = {"w1"}
    Misconfigured = {}
    SyncModes = {FALSE}
    CertifyReplies = {"ok", "reject"}
    AnnulReplies = {"ok", "transient"}
    MaxRetries = 1
    MaxRequests = 2
    MaxCrashes = 1
    MaxOutages = 0
    Names = {"n1"}
    Keys = {k1, k2}
    Admins = {"a1"}
    MaxLosses = 0

PROPERTIES
    DisabledDrains
    RevokedStaysOut
    AcceptedOutlivesTenant
