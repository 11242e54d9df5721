CONSTANTS
    Stems = {vocals, instrumental}
    Unity = 2
    Smoothing = 2
    Frames = 1
    MaxSnapshots = 2
    MaxFailures = 1
SPECIFICATION FairMixerSpec
INVARIANTS AppliedSnapshotIsWhole RampsEndOnTarget
PROPERTIES LoweredFadersTakeEffect
