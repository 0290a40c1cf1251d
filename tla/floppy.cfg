CONSTANTS
    Channels = {2}
    ByteBase = 2
    Drives = {0}
    Cylinders = {0, 1}
    Sectors = 2  SectorBytes = 2
    None = None
    SpinUp = 1  SpinDown = 2  Revolution = 3  NoReadyTimeout = 2
    StepRate = 1  HeadLoad = 0  ByteTicks = 1  DataResult = 2
    Commands <- MCCommands
    DmaPrograms <- MCPrograms
    DorValues <- MCDors
    MaxBatch = 2
SPECIFICATION Spec
INVARIANTS ExecutionIsTimed IrqHasCause BusyHasSeek TransferFaithful
