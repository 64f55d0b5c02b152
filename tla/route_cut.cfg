CONSTANTS
    Commands = {"select", "begin", "end"}
    MaxCommands = 4
    Window = 1
    Cuts = {"early"}
SPECIFICATION Spec
CHECK_DEADLOCK FALSE
INVARIANT TxSelectsToMain
