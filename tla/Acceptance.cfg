CONSTANTS
    Continuity = {"device_recoveries"}
    MaxEvents = 1
    MaxUpdates = 1
    MaxChanges = 3
    MaxWindows = 2
    MaxCommands = 1
SPECIFICATION Spec
INVARIANTS PassedMeansClean PassedMeansPlayed IdleNeverCounts
PROPERTY FailureIsFinal
