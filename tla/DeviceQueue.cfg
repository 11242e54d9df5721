CONSTANTS
    Capacity = 4
    FramesPerPacket = 2
    BlockSizes = {3, 5}
    SequenceSpan = 4
    MaxFrames = 18
SPECIFICATION FairSpec
INVARIANTS GapsAreTold WholeBlocks FramesAccounted RendererNeverWaits
PROPERTY QueueDrains
