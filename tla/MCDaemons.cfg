SPECIFICATION Spec
CONSTANTS
    Tickets = {t1, t2, t3}
    Conns = {c1, c2}
    Registries = {r1}
    NoTerminal = NoTerminal
    NoTicket = NoTicket
    max_sessions = 2
    ttl = 1
    MaxTermTime = 2
    PanelThread = panel
    MaxHostRewrites = 1
    MaxDnsSaves = 2
    MaxHostCrashes = 1
    Lists = {none, x}
    NoLists = none
    Resolvers = {d0, d1}
    NoResolvers = d0
    sync_interval = 1
    MaxSyncEvents = 3
    MarkNames = {A, B}
    NoOwner = NoOwner
    MaxMark = 3
    MaxMarkEdits = 2
    MaxApplies = 2
    MaxTunnelDeaths = 1
INVARIANTS
    DaemonsTypeOK
    SlotAccounting
    NoOrphanShell
    OriginalKept
    HostReleased
PROPERTIES
    TerminalEnds
    HostFollows
    PacedSync
    FailedSyncKeepsLists
    SyncConverges
    MarksHealed
CHECK_DEADLOCK FALSE
