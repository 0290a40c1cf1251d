CONSTANTS
    Sources = {a, b}
    None = None
    Kinds = {"mount", "eject", "midi"}
    Reloads = TRUE
    MaxRequests = 3  MaxGenerations = 3  MaxWrites = 2  MaxFaults = 2
SPECIFICATION Spec
INVARIANTS WritesSafe
