CONSTANTS
    Commands = {"select", "write"}
    MaxCommands = 4
    Window = 1
    Cuts = {"late", "lookalike"}
SPECIFICATION Spec
CHECK_DEADLOCK FALSE
INVARIANT WritesToMain
