CONSTANTS
    Sources = {a, b}
    None = None
    Kinds = {"mount", "eject", "midi"}
    Reloads = FALSE
    MaxRequests = 3  MaxGenerations = 3  MaxWrites = 2  MaxFaults = 2
SPECIFICATION Spec
INVARIANTS OneAnswer WritesSafe
PROPERTY AnswersCome
