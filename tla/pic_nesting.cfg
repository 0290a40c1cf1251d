CONSTANTS
    N = 3
    Bases = {0, 8}
    MasterPulses = {0, 2}
    SlavePulses = {0, 2}
    MasterLevelLines = {}
    SlaveLevelLines = {}
    MasterGuest <- NestingMaster
    SlaveGuest <- NestingSlave
SPECIFICATION HSpec
INVARIANT EoiEndsLatest
