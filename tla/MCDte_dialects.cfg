SPECIFICATION Spec
CONSTANTS
    None = None
    Unit = 10
    Nits <- MCNits
    Prices = {1, 556, 9990}
    Quantities = {50, 300}
    Discounts = {0, 7003}
    Rates = {0, 12, 100}
    Types = {"FACT", "FCAM", "NCRE"}
    Originals = {"o1"}
    CreditDays = {0, 30}
    Totals = {1004, 1005}
    Taxes = {125}
    MaxLines = 2
INVARIANTS
    TypeOK
    LinesAgree
    XmlTellsWhatWasSent
    SameInvoice
CHECK_DEADLOCK FALSE
