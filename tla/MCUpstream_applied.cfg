SPECIFICATION Spec
CONSTANTS
    A = A
    B = B
    None = None
    Default = Default
    Uplink = Uplink
    Watchdog = Watchdog
    Admins = {a1}
    Profiles <- MC_Profiles
    Position <- MC_Position
    Init_Config <- MC_Pushing
    Edit_Config <- MC_Fixed
    check_threshold = 1
    MaxRequests = 0
    MaxEdits = 0
    MaxFaults = 0
    MaxPushes = 3
INVARIANT
    PushedListsApplied
