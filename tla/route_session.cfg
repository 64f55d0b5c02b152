CONSTANTS
    Commands = {"select", "selectWrite", "write", "begin", "end", "other", "ddl"}
    MaxCommands = 5
    Window = 1
    Cuts = {"late"}
SPECIFICATION Spec
CHECK_DEADLOCK FALSE
INVARIANTS
    TypeOK
    TxSelectsToMain
