SPECIFICATION Spec
CONSTANTS
    Pairs = {p}
    Handlers = {h}
    Workers = {w}
    Offered = {"link", "bulk", "close", "reopen"}
    Ruled = {}
    MaxRulings = 2
    MaxFaults = 0
    NoPair = NoPair
PROPERTY ClosedStaysClosed
