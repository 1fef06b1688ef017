SPECIFICATION Spec
CONSTANTS
    A = A
    B = B
    None = None
    Default = Default
    Uplink = Uplink
    Watchdog = Watchdog
    Admins = {a1}
    Profiles <- MC_Profiles
    Position <- MC_Position
    Init_Config <- MC_Base
    Edit_Config <- MC_Fixed
    check_threshold = 1
    MaxRequests = 1
    MaxEdits = 0
    MaxFaults = 0
    MaxPushes = 0
INVARIANT
    SwitchRepointsRules
