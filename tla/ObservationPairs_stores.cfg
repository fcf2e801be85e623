SPECIFICATION Spec
CONSTANTS
    Pairs = {p}
    Handlers = {h1, h2}
    Workers = {w}
    Offered = {"link", "bulk", "close", "reopen"}
    Ruled = {p}
    MaxRulings = 2
    MaxFaults = 1
    NoPair = NoPair
SYMMETRY HandlerSymmetry
INVARIANT StoresAgree
PROPERTY VerdictLeavesByReopen
PROPERTY ReopenedNeverAutoClosed
PROPERTY ImplementsPairs
