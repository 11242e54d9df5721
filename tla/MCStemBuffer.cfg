CONSTANTS
    Stems = {vocals, instrumental}
    Capacity <- MCCapacity
    Prebuffer <- MCPrebuffer
    PushSizes <- MCPushSizes
    PopSizes <- MCPopSizes
    TotalFrames = 18
    Silence = Silence
SPECIFICATION FairSpec
INVARIANTS RingInv CommittedFramesIntact StemsInStep UnderrunEpisodes
PROPERTIES ImplementsStream PlaybackResumes
