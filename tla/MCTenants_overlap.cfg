SPECIFICATION TenantSpec
CONSTANTS
    t1 = t1
    t2 = t2
    t3 = t3
    k1 = k1
    k2 = k2
    k3 = k3
    a1 = a1
    a2 = a2
    c1 = c1
    c2 = c2
    None = None
    Tenants = {t1, t2}
    Names = {"n1", "n2"}
    Keys = {k1, k2, k3}
    Admins = {a1, a2}
    Clients = {c1}
    MaxLosses = 1
SYMMETRY MCSymmetry
INVARIANTS
    TenantTypeOK
    NamesUnique
    ActsAsOwnTenant
    AuditExplainsTenant
    KeyReachesSomebody
PROPERTIES
    DirectoryKept
    RevokedStaysRevoked
