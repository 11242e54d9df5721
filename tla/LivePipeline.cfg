CONSTANTS
    Stems = {vocals, instrumental}
    Actions = {"start", "stop"}
    Keep = 1
    MaxCommands = 2
    MaxWindow = 2
    MaxRestarts = 1
SPECIFICATION FairSpec
INVARIANTS OwnSession WholeWindow
PROPERTIES PruneOnlyQueued SessionAdopted EveryWindowConsumed
