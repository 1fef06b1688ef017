SPECIFICATION FairSpec
CONSTANTS
    A = A
    B = B
    None = None
    Default = Default
    Uplink = Uplink
    Watchdog = Watchdog
    Admins = {a1}
    Profiles <- MC_Profiles
    Position <- MC_Position
    Init_Config <- MC_Base
    Edit_Config <- MC_Fixed
    check_threshold = 2
    MaxRequests = 0
    MaxEdits = 0
    MaxFaults = 2
    MaxPushes = 0
PROPERTIES
    Recovers
    RoutesHealed
