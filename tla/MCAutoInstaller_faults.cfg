\* One process, every failure point, a kill at any step; f2 is not an archive and the cache path is not a normpath.
CONSTANTS
    Procs = {p1}
    URLs = {u1, u2}
    u1 = u1  u2 = u2  f1 = f1  f2 = f2
    p1 = p1  p2 = p2
    Names <- MCFlatNames
    Subs <- MCSubs
    NoName = NoName  NoSub = NoSub  NoURL = NoURL  Absent = Absent
    OsSep = "/"
    Files = {f1, f2}
    FileOf <- MCFileOf
    GlobMatch <- MCGlob
    ArchiveFiles = {f1}
    Contains <- MCContains
    DirSubs <- MCDirSubs
    CacheOn = TRUE
    CacheNorm = FALSE
    TempDirInit = FALSE
    Faults = {"scratch", "download", "corrupt", "cachewrite", "prepare", "prune", "remove", "record", "crash"}
    MaxCalls = 3
SPECIFICATION Spec
INVARIANT Idempotent
