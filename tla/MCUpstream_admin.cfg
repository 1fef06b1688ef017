SPECIFICATION FairSpec
CONSTANTS
    A = A
    B = B
    None = None
    Default = Default
    Uplink = Uplink
    Watchdog = Watchdog
    Admins = {a1}
    Profiles <- MC_Profiles
    Position <- MC_Position
    Init_Config <- MC_Plain
    Edit_Config <- MC_OneOff
    check_threshold = 1
    MaxRequests = 1
    MaxEdits = 1
    MaxFaults = 0
    MaxPushes = 0
PROPERTIES
    RequestTerminates
    EnablementEnforced
    RoutesHealed
