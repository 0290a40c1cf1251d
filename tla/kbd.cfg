CONSTANTS
    None = None
    Radix = 4  Wheel = 2  MaxMotion = 20  MasterHz = 400
    InputTicks = 1  DeviceTicks = 2
    Sessions <- BothSessions
SPECIFICATION Spec
INVARIANTS NoForgottenByte KeysInOrder PacketsWhole PendingIsClocked
PROPERTY MotionConserved
