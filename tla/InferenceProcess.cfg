CONSTANTS
    MaxCommands = 2
    MaxWindows = 3
    MaxModels = 3
SPECIFICATION FairSpec
INVARIANTS OnlyOwnModelRuns PipeInStep OneFailurePerModel ErrorsAreCurrent
PROPERTIES EveryWindowAnswered
