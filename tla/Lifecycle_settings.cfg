SPECIFICATION FairSpec
CONSTANTS
    c1 = c1
    NoFile = NoFile
    Clients = {c1}
    Contents <- Files
    NeverQuit = FALSE
    LogType = 1
    Compiled = {1, 2, 3, 5}
    MaxRunning = 2
INVARIANTS
    LogIsConfigured
PROPERTIES
    SettingsFollowFile
    ExitsOnceTold
