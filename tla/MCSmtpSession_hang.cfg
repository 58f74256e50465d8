SPECIFICATION Spec
CONSTANTS
    Configs <- MCConfigs
    Servers <- MCMuteServers
    NRcpt = 1
    MaxChallenges = 2
PROPERTIES
    NoHang
CHECK_DEADLOCK FALSE
