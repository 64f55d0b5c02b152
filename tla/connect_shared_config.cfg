SPECIFICATION Spec
CHECK_DEADLOCK FALSE
CONSTANTS
    Conns = {1, 2}
    Configs <- Preferred
    Plugins = {"native", "sha256"}
    Offers <- AnyOffers
    MaxFaults = 0
INVARIANTS AnswersByOneConfig
