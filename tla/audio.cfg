SPECIFICATION OSpec
CONSTANTS
    RetryInterval = 2
    MaxFaults = 3
    Padding = Padding
    Target = 4
    High = 6
    Capacity = 8
    Ramp = 2
    BatchSizes = {1, 7}
    MaxFrames = 9
INVARIANTS
    NoSilentPlayer
    OneConsumer
    LatencyBounded
    NewestKept
PROPERTIES
    AttemptsSpaced
    SoundReturns
    RecoveryFades
    ImplementsRing
CHECK_DEADLOCK FALSE
