SPECIFICATION Spec
CONSTANTS
    Threads = {w1, w2}
    Sources = {s1}
    Tokens = {t1}
    NoRegistry = NoRegistry
    session_lifetime = 2
    login_limit = 1
    login_window = 1
    MaxLogins = 3
    Workers = {w1, w2}
    Cli = Cli
    ProfA = ProfA
    ProfB = ProfB
    Ref = Ref
    Plaintext = Plaintext
    Level = Level
    ProfileNames = {ProfA, ProfB}
    Secrets = {Ref, Plaintext}
    Resolved <- MC_Resolved
    Groups = {g}
    Levels = {Level}
    Payloads <- MC_Payloads
    Unset = Unset
    Mask = Mask
    env_overrides <- MC_Env
    Init_File <- MC_File
    MaxConfigEdits = 2
    AccountWorkers = {w1, w2}
    Korctl = Korctl
    Users = {alice, bob}
    UserGroups = {g1}
    Passwords = {p1, p2}
    LongLists = {}
    Absent = Absent
    MaxAccountOps = 3
    CertWorkers = {w1, w2}
    KorctlRuns = {k}
    CertUsers = {alice}
    NoCert = NoCert
    MaxCertOps = 4
    MaxCertFaults = 1
    ListWorkers = {w1, w2}
    ListCli = {k}
    Net = Net
    Dom = Dom
    NetSpelling = NetSpelling
    Rubbish = Rubbish
    Entries = {Net, Dom}
    Spellings = {Net, Dom, NetSpelling, Rubbish}
    Normal <- MC_Normal
    Invalid = Invalid
    ListUrls = {u}
    ListSettings <- MC_ListSettings
    Downloads <- MC_Downloads
    NoList = NoList
    MaxListOps = 3
    MaxListCrashes = 1
    ServerWorkers = {w1, w2}
    ServerValues = {0, 1}
    Saves <- MC_Saves
    MaxServerOps = 3
    MaxServerFaults = 1
INVARIANTS
    PanelTypeOK
    GuessesBounded
    ConfigAlwaysValid
    CacheFollowsFile
    ConfigInForce
    RevocationsKept
    ListEditsKept
PROPERTIES
    AcceptedSessionLive
    LoneEditIsLocal
    SourceKeepsSecrets
    SaveKeepsSessions
    AccountsImplementStore
    DeletedGroupGone
    ServerKeyKept
    BootServes
    ListImplementsStore
    RefreshKeepsList
SYMMETRY MC_Symmetry
CHECK_DEADLOCK FALSE
