CONSTANTS
    Stems = {vocals, instrumental}
    Unity = 1
    Smoothing = 2
    Frames = 1
    MaxSnapshots = 2
    MaxFailures = 1
SPECIFICATION FairMixerSpec
PROPERTY FadersTakeEffect
