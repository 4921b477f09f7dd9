\* One process; every failure point that raises before the swap.
CONSTANTS
    Procs = {p1}
    URLs = {u1, u2}
    u1 = u1  u2 = u2  f1 = f1  f2 = f2
    p1 = p1  p2 = p2
    Names <- MCFlatNames
    Subs <- MCSubs
    NoName = NoName  NoSub = NoSub  NoURL = NoURL  Absent = Absent
    OsSep = "/"
    Files = {f1, f2}
    FileOf <- MCFileOf
    GlobMatch <- MCGlob
    ArchiveFiles = {f1, f2}
    Contains <- MCContains
    DirSubs <- MCDirSubs
    CacheOn = TRUE
    CacheNorm = TRUE
    TempDirInit = FALSE
    Faults = {"scratch", "download", "corrupt", "cachewrite", "prepare", "prune"}
    MaxCalls = 3
SPECIFICATION Spec
INVARIANT TypeOK
INVARIANT SkipIsSound
INVARIANT FailedInstallKeepsTarget
