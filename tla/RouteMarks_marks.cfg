SPECIFICATION MarkSpec
CONSTANTS
    MarkNames = {A, B}
    NoOwner = NoOwner
    MaxMark = 3
    MaxMarkEdits = 2
    MaxApplies = 2
    MaxTunnelDeaths = 1
INVARIANTS
    AppliedTargetsRouted
CHECK_DEADLOCK FALSE
