CONSTANTS
    long = long
    short = short
    Songs = {long, short}
    LengthOf <- MCLengthOf
    Profiles = {two, six}
    Hop = 2
    Overlap = 1
    Prefix = 1
    Resync = 1
    HistoryHops = 3
    Radius = 2
    SongQuota = 5
    WindowQuota = 1
    MaxWindows = 4
    MaxSurprises = 2
    Garbled = Garbled
    None = None
SYMMETRY AnyProfile
SPECIFICATION Spec
INVARIANTS ServedIsOwnSeparation FullPlayIsStored CountIsTrue
PROPERTIES ReplaysNeedNoGpu
CHECK_DEADLOCK FALSE
