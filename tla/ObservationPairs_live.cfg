SPECIFICATION FairSpec
CONSTANTS
    Pairs = {p, q}
    Handlers = {h}
    Workers = {w}
    Offered = {"close"}
    Ruled = {}
    MaxRulings = 1
    MaxFaults = 1
    NoPair = NoPair
PROPERTY EveryEdgeGetsRow
