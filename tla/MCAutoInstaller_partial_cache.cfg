\* Two processes share a normpath cache; f2 is a plain (non-archive) file, and nothing fails.
CONSTANTS
    Procs = {p1, p2}
    URLs = {u1, u2}
    u1 = u1  u2 = u2  f1 = f1  f2 = f2
    p1 = p1  p2 = p2
    Names <- MCFlatNames
    Subs <- MCSubs
    NoName = NoName  NoSub = NoSub  NoURL = NoURL  Absent = Absent
    OsSep = "/"
    Files = {f1, f2}
    FileOf <- MCFileOf
    GlobMatch <- MCGlob
    ArchiveFiles = {f1}
    Contains <- MCContains
    DirSubs <- MCDirSubs
    CacheOn = TRUE
    CacheNorm = TRUE
    TempDirInit = FALSE
    Faults = {}
    MaxCalls = 2
SPECIFICATION Spec
INVARIANT NoPartialInstall
