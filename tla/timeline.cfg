SPECIFICATION Spec
CONSTANTS
    MasterHz = 7
    Clocks = {"dsp", "margo"}
    RatesOf <- TwoRates
    Quanta = {2, 5}
    Margo = "margo"
    FrameHz = 2
    FrameDots = {1, 3, 4}
    MaxU64 = 12
    Requests = {1, 3, 8}
INVARIANTS
    CaptureAccepted
    NothingDrifts
    TscExact
    DeadlineExact
    BeamDeadlineExact
CHECK_DEADLOCK FALSE
