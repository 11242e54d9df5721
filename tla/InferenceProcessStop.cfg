CONSTANTS
    MaxCommands = 2
    MaxWindows = 1
    MaxModels = 2
SPECIFICATION Spec
INVARIANTS StopReleasesModel
