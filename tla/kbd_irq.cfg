CONSTANTS
    None = None
    Radix = 4  Wheel = 2  MaxMotion = 20  MasterHz = 400
    InputTicks = 1  DeviceTicks = 3
    Sessions <- QuerySession
SPECIFICATION KSpec
INVARIANT NoPhantom
PROPERTY KeysDelivered
