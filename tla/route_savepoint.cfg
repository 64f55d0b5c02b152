CONSTANTS
    Commands = {"select", "begin", "end", "rollbackTo"}
    MaxCommands = 4
    Window = 1
    Cuts = {}
SPECIFICATION Spec
CHECK_DEADLOCK FALSE
INVARIANT TxSelectsToMain
