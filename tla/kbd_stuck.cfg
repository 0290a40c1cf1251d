CONSTANTS
    None = None
    Radix = 4  Wheel = 2  MaxMotion = 20  MasterHz = 400
    InputTicks = 1  DeviceTicks = 3
    Sessions <- MaskingSession
SPECIFICATION Spec
INVARIANT NoForgottenByte
