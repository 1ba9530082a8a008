SPECIFICATION Spec
CONSTANTS
    None = None
    MaxRetries = 2
INVARIANTS
    TypeOK
    DocsPaid
    LookupHonest
    ServerErrorIsTransient
PROPERTIES
    ContractKept
