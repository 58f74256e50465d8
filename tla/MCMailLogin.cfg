SPECIFICATION Spec
CONSTANTS
    Configs <- MCConfigs
    Servers <- MCServers
INVARIANTS
    TypeOK
    NothingInClear
    AuthSound
    BrokenShows
CHECK_DEADLOCK FALSE
