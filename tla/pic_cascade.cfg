CONSTANTS
    N = 3
    Bases = {0, 8}
    MasterPulses = {}
    SlavePulses = {0}
    MasterLevelLines = {2}
    SlaveLevelLines = {2}
    MasterGuest <- CascadeMaster
    SlaveGuest <- CascadeSlave
SPECIFICATION Spec
INVARIANTS PinFollowsSlave NoStrandedSlave HeldLevelLatched
