\* A sub-path missing from the archive: shutil.move raises after the old target is removed.
CONSTANTS
    Procs = {p1}
    URLs = {u1, u2}
    u1 = u1  u2 = u2  f1 = f1  f2 = f2
    p1 = p1  p2 = p2
    Names <- MCFlatNames
    Subs <- MCSubsMissing
    NoName = NoName  NoSub = NoSub  NoURL = NoURL  Absent = Absent
    OsSep = "/"
    Files = {f1, f2}
    FileOf <- MCFileOf
    GlobMatch <- MCGlob
    ArchiveFiles = {f1, f2}
    Contains <- MCContains
    DirSubs <- MCDirSubsMissing
    CacheOn = FALSE
    CacheNorm = TRUE
    TempDirInit = TRUE
    Faults = {}
    MaxCalls = 2
SPECIFICATION Spec
INVARIANT FailedInstallKeepsTarget
