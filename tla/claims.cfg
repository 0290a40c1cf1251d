CONSTANTS
    Clusters = {2, 3, 4, 5, 6}
    Far = {9}
    SectorOf <- MCSectorOf
    EOC = EOC  None = None
    MemoMax = 3
    Root = 2
    Slots <- MCSlots
    MountFat <- MCMountFat
    MountFiles <- MCMountFiles
    DirRuns <- MCDirRuns
    FatWrites <- MCFatWrites
    FileWrites <- MCFileWrites
    SubdirWrites = {4, 5}
    MaxWrites = 3
SPECIFICATION Spec
INVARIANTS GuardExact CountsExact MemoSound
