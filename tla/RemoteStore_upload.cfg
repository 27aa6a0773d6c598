SPECIFICATION FairSpec
CONSTANTS
    ann = ann
    bob = bob
    Users = {ann, bob}
    kMaxPendingWrites = 2
    MaxWrites = 3
    MaxFaults = 2
    MaxRestarts = 2
INVARIANTS TypeOK PipelineIsQueueFront CallMatchesPipeline AssertionsHold QueueIsUnderWay
PROPERTIES UploadsInOrder QueueDrains
CHECK_DEADLOCK FALSE
