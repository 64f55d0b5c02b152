SPECIFICATION FairSpec
CHECK_DEADLOCK FALSE
CONSTANTS
    Conns = {1, 2}
    Configs <- MCConfigs
    Plugins = {"native", "sha2", "sha256", "clear"}
    Offers <- SameOffers
    MaxFaults = 1
INVARIANTS SamePhase ClearOnlyEncrypted ParamsApplied
PROPERTIES ConnectReturns
