SPECIFICATION Spec
CONSTANTS
    Configs <- MCConfigs
    Servers <- MCAllServers
    NRcpt = 2
    MaxChallenges = 3
INVARIANTS
    TypeOK
    AuthSound
    SendsAsUser
    NothingInClear
    ReportSound
PROPERTIES
    ImplementsHandoff
    DeadlinesHold
CHECK_DEADLOCK FALSE
