SPECIFICATION Spec
CONSTANTS
    A = A
    B = B
    None = None
    Default = Default
    Uplink = Uplink
    Watchdog = Watchdog
    Admins = {a1}
    Profiles <- MC_Profiles
    Position <- MC_Position
    Init_Config <- MC_Disabled
    Edit_Config <- MC_Plain
    check_threshold = 1
    MaxRequests = 0
    MaxEdits = 1
    MaxFaults = 0
    MaxPushes = 0
INVARIANT
    KillSwitchBeforeDial
