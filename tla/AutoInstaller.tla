--------------------------- MODULE AutoInstaller ---------------------------
(***************************************************************************)
(* AutoInstaller.install() of webkitpy/common/system/autoinstall.py:       *)
(* the installer pipeline run by one or more processes that share the     *)
(* install root (target directory), the optional local autoinstall cache  *)
(* (LOCAL_AUTOINSTALL_CACHE) and the temp directory.  Every process runs  *)
(* install() calls one after the other; the steps of one call are         *)
(*                                                                         *)
(*   Begin -> CreateScratch [-> MakeTempDir] -> Download [-> CacheWrite]   *)
(*         -> Prepare -> RemoveOld -> Move -> Record -> Cleanup            *)
(*                                                                         *)
(* and every step after CreateScratch may raise, which the except/finally *)
(* of install() turns into a wrapped error followed by Cleanup.            *)
(*                                                                         *)
(* Data is abstracted: a URL is a model value, the bytes it serves are a   *)
(* record [url, q] (q says whether the bytes are a complete, good          *)
(* archive), a directory tree at a target path is the record of the       *)
(* download it came from.  Target names and sub-paths are sequences of    *)
(* path characters, because the marker-file name is computed from them by *)
(* character replacement.                                                 *)
(***************************************************************************)
EXTENDS Naturals, Sequences, FiniteSets

CONSTANTS
    Procs,        \* processes calling install() on the same install root
    URLs,         \* package URLs
    Names,        \* target names (sequences of path characters)
    Subs,         \* url_subpath values (sequences of path characters)
    NoName,       \* target_name=None
    NoSub,        \* url_subpath=None
    NoURL,        \* no marker file / no recorded URL
    Absent,       \* no file at a path
    OsSep,        \* os.sep of the platform ("/" on POSIX)
    Files,        \* base names of downloaded files (names in the cache)
    FileOf,       \* FileOf[u]: basename of the path of URL u (_download)
    GlobMatch,    \* GlobMatch[u]: files glob(cache/FileOf[u] + '*') matches
    ArchiveFiles, \* files ending in .zip, .tar.gz or .tar.bz2
    Contains,     \* Contains[u]: the sub-paths present in u's archive
    DirSubs,      \* sub-paths that name a directory in the archive
    CacheOn,      \* LOCAL_AUTOINSTALL_CACHE is set
    CacheNorm,    \* the variable is already a normpath (dirname == normpath)
    TempDirInit,  \* the temp directory exists initially (True when None)
    Faults,       \* the failure points the run lets happen
    MaxCalls      \* bound on the number of install() calls

FaultKinds == {"scratch", "download", "corrupt", "cachewrite", "prepare",
               "prune", "remove", "record", "crash"}

ASSUME ConstAssumption ==
    /\ Procs # {} /\ URLs # {} /\ Names # {}
    /\ NoName \notin Names /\ NoSub \notin Subs
    /\ NoURL \notin URLs
    /\ FileOf \in [URLs -> Files]
    /\ GlobMatch \in [URLs -> SUBSET Files]
    /\ ArchiveFiles \subseteq Files
    /\ Contains \in [URLs -> SUBSET Subs]
    /\ DirSubs \subseteq Subs
    /\ CacheOn \in BOOLEAN /\ CacheNorm \in BOOLEAN /\ TempDirInit \in BOOLEAN
    /\ Faults \subseteq FaultKinds
    /\ MaxCalls \in Nat

-----------------------------------------------------------------------------
(* Path helpers.                                                           *)

\* s with every character old replaced by new: Python's str.replace.
Replace(s, old, new) == [i \in DOMAIN s |-> IF s[i] = old THEN new ELSE s[i]]

\* os.path.basename: the part of s after its last "/".
Basename(s) ==
    LET cut == {i \in DOMAIN s : s[i] = "/"}
        k   == IF cut = {} THEN 0 ELSE CHOOSE i \in cut : \A j \in cut : j <= i
    IN  SubSeq(s, k + 1, Len(s))

\* _url_downloaded_path: the marker file of a name is ".<name with / -> _>.url".
MarkerKey(name) == Replace(name, "/", "_")

\* install(): package_name = target_name.replace(os.sep, '.').
PackageName(name) == Replace(name, OsSep, ".")

\* install(): the target name of a call, derived from the sub-path if None.
TargetName(c) == IF c.name = NoName THEN Basename(c.sub) ELSE c.name

ASSUME SubsAssumption == \A s \in Subs : Basename(s) \in Names

Quality  == {"good", "bad", "partial"}
Blob     == [url : URLs, q : Quality]            \* the bytes of a file
Tree     == [url : URLs, q : Quality, dir : BOOLEAN]  \* an installed target
Keys     == {MarkerKey(n) : n \in Names} \cup {MarkerKey(PackageName(n)) : n \in Names}
Calls    == [url : URLs, refresh : BOOLEAN, name : Names \cup {NoName},
             sub : Subs \cup {NoSub}]
PCs      == {"idle", "scratch", "mktemp", "download", "cachewrite", "prepare",
             "remove", "move", "record", "cleanup"}
Results  == {"none", "ok", "skip", "config", "wrapped", "raw", "crash"}

\* No file and no directory tree is the absence of one.
ASSUME AbsentAssumption == Absent \notin Tree \cup Blob

VARIABLES
    target,   \* target[n]: the tree installed at <target_dir>/<n>, or Absent
    marker,   \* marker[k]: the URL in the marker file with key k, or NoURL
    cache,    \* cache[f]: the file f in the cache directory, or Absent
    tempDir,  \* the temp directory exists
    scratch,  \* the processes whose scratch directory exists
    orphans,  \* scratch directories left behind by killed processes
    pc,       \* pc[p]: the step of install() process p is at
    call,     \* call[p]: the arguments of p's current install() call
    got,      \* got[p]: the bytes p downloaded or took from the cache
    loc,      \* loc[p]: "scratch", or the cache file p's prepared path is
    result,   \* result[p]: how p's last call ended
    before,   \* before[p]: target[name] when p's call began (history)
    lastOk,   \* lastOk[n]: URL of the last successful install of n (history)
    calls     \* number of install() calls made

vars == <<target, marker, cache, tempDir, scratch, orphans, pc, call, got, loc,
          result, before, lastOk, calls>>

TypeOK ==
    /\ target \in [Names -> Tree \cup {Absent}]
    /\ marker \in [Keys -> URLs \cup {NoURL}]
    /\ cache \in [Files -> Blob \cup {Absent}]
    /\ tempDir \in BOOLEAN
    /\ scratch \subseteq Procs
    /\ orphans \in Nat
    /\ pc \in [Procs -> PCs]
    /\ call \in [Procs -> Calls]
    /\ got \in [Procs -> Blob \cup {Absent}]
    /\ loc \in [Procs -> {"scratch"} \cup Files]
    /\ result \in [Procs -> Results]
    /\ before \in [Procs -> Tree \cup {Absent}]
    /\ lastOk \in [Names -> URLs \cup {NoURL}]
    /\ calls \in 0..MaxCalls

-----------------------------------------------------------------------------
(* _is_downloaded(name, url) and os.path.exists(target_path): the skip test. *)
Installed(n, u) == marker[MarkerKey(n)] = u /\ target[n] # Absent

\* The name of p's current call, and the file its prepared path names.
Cur(p)     == TargetName(call[p])
PathFile(p) == IF loc[p] = "scratch" THEN FileOf[call[p].url] ELSE loc[p]

\* os.path.exists(source_path) before shutil.move.
SourceExists(p) ==
    /\ loc[p] # "scratch" => cache[loc[p]] # Absent
    /\ \/ call[p].sub = NoSub
       \/ PathFile(p) \in ArchiveFiles /\ call[p].sub \in Contains[got[p].url]

\* The tree shutil.move puts in place: an unpacked archive is a directory.
NewTree(p) ==
    [url |-> got[p].url, q |-> got[p].q,
     dir |-> PathFile(p) \in ArchiveFiles /\ (call[p].sub = NoSub \/ call[p].sub \in DirSubs)]

\* A step of p that raises: install() wraps the error and runs Cleanup.
Raise(p) ==
    /\ pc' = [pc EXCEPT ![p] = "cleanup"]
    /\ result' = [result EXCEPT ![p] = "wrapped"]

Init ==
    /\ target = [n \in Names |-> Absent]
    /\ marker = [k \in Keys |-> NoURL]
    /\ cache = [f \in Files |-> Absent]
    /\ tempDir = TempDirInit
    /\ scratch = {}
    /\ orphans = 0
    /\ pc = [p \in Procs |-> "idle"]
    /\ call = [p \in Procs |-> CHOOSE c \in Calls : TRUE]
    /\ got = [p \in Procs |-> Absent]
    /\ loc = [p \in Procs |-> "scratch"]
    /\ result = [p \in Procs |-> "none"]
    /\ before = [p \in Procs |-> Absent]
    /\ lastOk = [n \in Names |-> NoURL]
    /\ calls = 0

-----------------------------------------------------------------------------
(* install(), lines 482-486: no target_name and no url_subpath.           *)
CallRejected(p, c) ==
    /\ pc[p] = "idle" /\ calls < MaxCalls
    /\ c.name = NoName /\ c.sub = NoSub
    /\ call' = [call EXCEPT ![p] = c]
    /\ result' = [result EXCEPT ![p] = "config"]
    /\ calls' = calls + 1
    /\ UNCHANGED <<orphans, target, marker, cache, tempDir, scratch, pc, got, loc, before, lastOk>>

(* install(), lines 487-493: the marker holds the URL and the target      *)
(* exists, so the call returns at once.                                    *)
CallSkipped(p, c) ==
    /\ pc[p] = "idle" /\ calls < MaxCalls
    /\ (c.name # NoName \/ c.sub # NoSub)
    /\ ~c.refresh /\ Installed(TargetName(c), c.url)
    /\ call' = [call EXCEPT ![p] = c]
    /\ result' = [result EXCEPT ![p] = "skip"]
    /\ before' = [before EXCEPT ![p] = target[TargetName(c)]]
    /\ calls' = calls + 1
    /\ UNCHANGED <<orphans, target, marker, cache, tempDir, scratch, pc, got, loc, lastOk>>

(* install(), lines 487-502: the call goes on to create its scratch dir.  *)
CallStarted(p, c) ==
    /\ pc[p] = "idle" /\ calls < MaxCalls
    /\ (c.name # NoName \/ c.sub # NoSub)
    /\ c.refresh \/ ~Installed(TargetName(c), c.url)
    /\ call' = [call EXCEPT ![p] = c]
    /\ pc' = [pc EXCEPT ![p] = "scratch"]
    /\ result' = [result EXCEPT ![p] = "none"]
    /\ before' = [before EXCEPT ![p] = target[TargetName(c)]]
    /\ lastOk' = [lastOk EXCEPT ![TargetName(c)] = NoURL]
    /\ calls' = calls + 1
    /\ UNCHANGED <<orphans, target, marker, cache, tempDir, scratch, got, loc>>

(* _create_scratch_directory: mkdtemp; an OSError when the temp dir       *)
(* exists is re-raised unwrapped, since line 502 is outside the try.       *)
CreateScratch(p) ==
    /\ pc[p] = "scratch"
    /\ \/ /\ tempDir
          /\ scratch' = scratch \cup {p}
          /\ pc' = [pc EXCEPT ![p] = "download"]
          /\ UNCHANGED result
       \/ /\ tempDir /\ "scratch" \in Faults
          /\ pc' = [pc EXCEPT ![p] = "idle"]
          /\ result' = [result EXCEPT ![p] = "raw"]
          /\ UNCHANGED scratch
       \/ /\ ~tempDir
          /\ pc' = [pc EXCEPT ![p] = "mktemp"]
          /\ UNCHANGED <<scratch, result>>
    /\ UNCHANGED <<orphans, target, marker, cache, tempDir, call, got, loc, before, lastOk, calls>>

(* _create_scratch_directory, lines 178-186: the temp dir was missing; if *)
(* it exists by now the OSError is re-raised, else it is made and mkdtemp  *)
(* is retried once; an error of the retry is raised unwrapped as well.     *)
MakeTempDir(p) ==
    /\ pc[p] = "mktemp"
    /\ \/ /\ tempDir
          /\ pc' = [pc EXCEPT ![p] = "idle"]
          /\ result' = [result EXCEPT ![p] = "raw"]
          /\ UNCHANGED <<tempDir, scratch>>
       \/ /\ ~tempDir
          /\ tempDir' = TRUE
          /\ scratch' = scratch \cup {p}
          /\ pc' = [pc EXCEPT ![p] = "download"]
          /\ UNCHANGED result
       \/ /\ ~tempDir /\ "scratch" \in Faults
          /\ tempDir' = TRUE
          /\ pc' = [pc EXCEPT ![p] = "idle"]
          /\ result' = [result EXCEPT ![p] = "raw"]
          /\ UNCHANGED scratch
    /\ UNCHANGED <<orphans, target, marker, cache, call, got, loc, before, lastOk, calls>>

(* _download, lines 404-410: a file of the cache whose name glob matches *)
(* is returned as the downloaded path (the first glob hit: any of them).  *)
DownloadHit(p) ==
    /\ pc[p] = "download" /\ CacheOn
    /\ \E f \in GlobMatch[call[p].url] :
          /\ cache[f] # Absent
          /\ got' = [got EXCEPT ![p] = cache[f]]
          /\ loc' = [loc EXCEPT ![p] = f]
    /\ pc' = [pc EXCEPT ![p] = "prepare"]
    /\ UNCHANGED <<orphans, target, marker, cache, tempDir, scratch, call, result, before, lastOk, calls>>

\* No file of the cache matches the URL.
CacheMiss(p) == CacheOn => \A f \in GlobMatch[call[p].url] : cache[f] = Absent

(* _download_to_stream raises (retries and mirrors used up, a non-2xx     *)
(* code, a read error): the error goes up to install().                    *)
DownloadFail(p) ==
    /\ pc[p] = "download" /\ CacheMiss(p) /\ "download" \in Faults
    /\ Raise(p)
    /\ UNCHANGED <<orphans, target, marker, cache, tempDir, scratch, call, got, loc, before, lastOk, calls>>

(* _download, lines 412-417: the URL is fetched into the scratch dir and, *)
(* with a cache, copy_tree starts copying the scratch dir into it.  A 2xx  *)
(* answer can carry bad bytes.                                             *)
DownloadFetch(p) ==
    LET u == call[p].url IN
    /\ pc[p] = "download" /\ CacheMiss(p)
    /\ \E q \in IF "corrupt" \in Faults THEN {"good", "bad"} ELSE {"good"} :
          got' = [got EXCEPT ![p] = [url |-> u, q |-> q]]
    /\ loc' = [loc EXCEPT ![p] = "scratch"]
    /\ IF CacheOn
         THEN /\ cache' = [cache EXCEPT ![FileOf[u]] = [url |-> u, q |-> "partial"]]
              /\ pc' = [pc EXCEPT ![p] = "cachewrite"]
         ELSE /\ pc' = [pc EXCEPT ![p] = "prepare"]
              /\ UNCHANGED cache
    /\ UNCHANGED <<orphans, target, marker, tempDir, scratch, call, result, before, lastOk, calls>>

(* _download, line 417: copy_tree finishes writing the file into the     *)
(* cache, or raises (a full disk) with the cache file half written.        *)
CacheWrite(p) ==
    /\ pc[p] = "cachewrite"
    /\ \/ /\ cache' = [cache EXCEPT ![FileOf[call[p].url]] = got[p]]
          /\ pc' = [pc EXCEPT ![p] = "prepare"]
          /\ UNCHANGED result
       \/ /\ "cachewrite" \in Faults
          /\ Raise(p)
          /\ UNCHANGED cache
    /\ UNCHANGED <<orphans, target, marker, tempDir, scratch, call, got, loc, before, lastOk, calls>>

Prepare(p) ==
    LET data    == IF loc[p] = "scratch" THEN got[p] ELSE cache[loc[p]]
        archive == PathFile(p) \in ArchiveFiles
        read    == archive \/ (loc[p] # "scratch" /\ CacheNorm)
    IN
    /\ pc[p] = "prepare"
    /\ \/ /\ \/ read /\ data = Absent
             \/ archive /\ data.q # "good"
             \/ archive /\ "prepare" \in Faults
             \/ "prune" \in Faults
          /\ Raise(p)
          /\ UNCHANGED <<got, loc>>
       \/ /\ read => data # Absent
          /\ archive => data.q = "good"
          /\ got' = [got EXCEPT ![p] = IF data = Absent THEN got[p] ELSE data]
          /\ loc' = [loc EXCEPT ![p] =
                        IF archive \/ (CacheOn /\ CacheNorm) THEN "scratch" ELSE loc[p]]
          /\ pc' = [pc EXCEPT ![p] = "remove"]
          /\ UNCHANGED result
    /\ UNCHANGED <<orphans, target, marker, cache, tempDir, scratch, call, before, lastOk, calls>>

\* Mutant: files_to_remove is pruned after the old target is removed.
RemoveOldThenPrune(p) ==
    LET n == Cur(p) IN
    /\ pc[p] = "remove"
    /\ \/ /\ target[n] = Absent
          /\ pc' = [pc EXCEPT ![p] = "move"]
          /\ UNCHANGED <<target, result>>
       \/ /\ target[n] # Absent
          /\ target' = [target EXCEPT ![n] = Absent]
          /\ \/ pc' = [pc EXCEPT ![p] = "move"] /\ UNCHANGED result
             \/ "prune" \in Faults /\ Raise(p)
    /\ UNCHANGED <<orphans, marker, cache, tempDir, scratch, call, got, loc, before, lastOk, calls>>

\* Mutant: the old target is not removed before the move.
RemoveOldSkipped(p) ==
    /\ pc[p] = "remove"
    /\ pc' = [pc EXCEPT ![p] = "move"]
    /\ UNCHANGED <<orphans, target, marker, cache, tempDir, scratch, call, got, loc,
                   result, before, lastOk, calls>>

(* _install, lines 443-447: an existing target is removed; rmtree ignores *)
(* its errors (the tree may survive), os.remove of a file may raise.       *)
RemoveOld(p) ==
    LET n == Cur(p) IN
    /\ pc[p] = "remove"
    /\ \/ /\ target[n] = Absent
          /\ pc' = [pc EXCEPT ![p] = "move"]
          /\ UNCHANGED <<target, result>>
       \/ /\ target[n] # Absent
          /\ target' = [target EXCEPT ![n] = Absent]
          /\ pc' = [pc EXCEPT ![p] = "move"]
          /\ UNCHANGED result
       \/ /\ target[n] # Absent /\ target[n].dir /\ "remove" \in Faults
          /\ pc' = [pc EXCEPT ![p] = "move"]
          /\ UNCHANGED <<target, result>>
       \/ /\ target[n] # Absent /\ ~target[n].dir /\ "remove" \in Faults
          /\ Raise(p)
          /\ UNCHANGED target
    /\ UNCHANGED <<orphans, marker, cache, tempDir, scratch, call, got, loc, before, lastOk, calls>>

(* _install, line 450: shutil.move(source_path, target_path).  A missing  *)
(* source raises; onto an existing directory the source is moved inside   *)
(* it, unless an entry of its basename is there already (shutil.Error: the *)
(* model does not track the entries of a tree, so either may happen); a   *)
(* file replaces a file; a directory onto a file raises.  A prepared path  *)
(* still in the cache is moved out of the cache.                           *)
Move(p) ==
    LET n   == Cur(p)
        new == NewTree(p)
        out == IF loc[p] = "scratch" THEN cache ELSE [cache EXCEPT ![loc[p]] = Absent]
    IN
    /\ pc[p] = "move"
    /\ \/ /\ \/ ~SourceExists(p)
             \/ target[n] # Absent /\ ~target[n].dir /\ new.dir
          /\ Raise(p)
          /\ UNCHANGED <<target, cache>>
       \/ /\ SourceExists(p)
          /\ \/ target[n] = Absent
             \/ target[n] # Absent /\ ~target[n].dir /\ ~new.dir
          /\ target' = [target EXCEPT ![n] = new]
          /\ cache' = out
          /\ pc' = [pc EXCEPT ![p] = "record"]
          /\ UNCHANGED result
       \/ /\ SourceExists(p)
          /\ target[n] # Absent /\ target[n].dir
          /\ cache' = out
          /\ pc' = [pc EXCEPT ![p] = "record"]
          /\ UNCHANGED <<target, result>>
       \/ /\ SourceExists(p)
          /\ target[n] # Absent /\ target[n].dir
          /\ Raise(p)
          /\ UNCHANGED <<target, cache>>
    /\ UNCHANGED <<orphans, marker, tempDir, scratch, call, got, loc, before, lastOk, calls>>

\* Mutant: _record_url_downloaded(url, package_name), arguments swapped.
RecordSwappedArgs(p) ==
    /\ pc[p] = "record"
    /\ marker' = [marker EXCEPT ![MarkerKey(PackageName(Cur(p)))] = Cur(p)]
    /\ pc' = [pc EXCEPT ![p] = "cleanup"]
    /\ result' = [result EXCEPT ![p] = "ok"]
    /\ UNCHANGED <<orphans, target, cache, tempDir, scratch, call, got, loc, before, lastOk, calls>>

\* Mutant: the marker write is missing.
RecordNoWrite(p) ==
    /\ pc[p] = "record"
    /\ pc' = [pc EXCEPT ![p] = "cleanup"]
    /\ result' = [result EXCEPT ![p] = "ok"]
    /\ UNCHANGED <<orphans, target, marker, cache, tempDir, scratch, call, got, loc, before, lastOk, calls>>

(* _install, lines 452-459: the intermediate dirs get __init__.py and the *)
(* URL is written to the marker of package_name; either write may raise,   *)
(* the marker file then being untouched or left empty.                     *)
Record(p) ==
    LET k == MarkerKey(PackageName(Cur(p))) IN
    /\ pc[p] = "record"
    /\ \/ /\ marker' = [marker EXCEPT ![k] = call[p].url]
          /\ pc' = [pc EXCEPT ![p] = "cleanup"]
          /\ result' = [result EXCEPT ![p] = "ok"]
       \/ /\ "record" \in Faults
          /\ marker' \in {marker, [marker EXCEPT ![k] = NoURL]}
          /\ Raise(p)
    /\ UNCHANGED <<orphans, target, cache, tempDir, scratch, call, got, loc, before, lastOk, calls>>

(* install(), finally at 518-519: rmtree(scratch_dir, ignore_errors=True) *)
(* removes the scratch dir or, on an error it ignores, leaves it behind    *)
(* owned by no call; the call returns, or raises the wrapped error.        *)
Cleanup(p) ==
    /\ pc[p] = "cleanup"
    /\ scratch' = scratch \ {p}
    /\ \/ UNCHANGED orphans
       \/ /\ "remove" \in Faults /\ p \in scratch
          /\ orphans' = orphans + 1
    /\ pc' = [pc EXCEPT ![p] = "idle"]
    /\ lastOk' = IF result[p] = "ok" THEN [lastOk EXCEPT ![Cur(p)] = call[p].url] ELSE lastOk
    /\ UNCHANGED <<target, marker, cache, tempDir, call, got, loc, result, before, calls>>

(* The process is killed in the middle of a call: nothing runs after it,  *)
(* so files half written and the scratch dir stay behind, owned by none.  *)
Crash(p) ==
    /\ "crash" \in Faults /\ pc[p] # "idle"
    /\ pc' = [pc EXCEPT ![p] = "idle"]
    /\ result' = [result EXCEPT ![p] = "crash"]
    /\ scratch' = scratch \ {p}
    /\ orphans' = IF p \in scratch THEN orphans + 1 ELSE orphans
    /\ UNCHANGED <<target, marker, cache, tempDir, call, got, loc, before, lastOk, calls>>

\* Every call has returned and no more are made.
Terminated ==
    /\ calls = MaxCalls /\ \A p \in Procs : pc[p] = "idle"
    /\ UNCHANGED vars

\* The steps of a running call: install() blocks on each of them in turn.
Running(p) ==
    \/ CreateScratch(p) \/ MakeTempDir(p)
    \/ DownloadHit(p) \/ DownloadFail(p) \/ DownloadFetch(p) \/ CacheWrite(p)
    \/ Prepare(p) \/ RemoveOld(p) \/ Move(p) \/ Record(p) \/ Cleanup(p)

Step(p) ==
    \/ \E c \in Calls : CallRejected(p, c) \/ CallSkipped(p, c) \/ CallStarted(p, c)
    \/ Running(p)
    \/ Crash(p)

Next == (\E p \in Procs : Step(p)) \/ Terminated

Spec == Init /\ [][Next]_vars

-----------------------------------------------------------------------------
(* Properties.                                                             *)

(* Marker fidelity at its use (spec 4.5 CheckSkip, 8): when install()     *)
(* returns early because the marker names the URL and the target exists,  *)
(* the tree at the target is the one downloaded from that URL.  Breaking  *)
(* it takes an install that swaps the tree without the matching marker    *)
(* write, or a marker written for another name.                           *)
SkipIsSound ==
    \A p \in Procs :
        result[p] = "skip" => before[p] # Absent /\ before[p].url = call[p].url

(* Idempotence (spec 8): after a call installs URL u at name n, and until *)
(* another call for n begins, a repeated call install(u, n) is a no-op:   *)
(* the marker _is_downloaded reads names u and the target exists.          *)
Idempotent ==
    \A n \in Names : lastOk[n] # NoURL => Installed(n, lastOk[n])

(* Failure atomicity (spec 7): a call that ends in the wrapped error      *)
(* leaves the target exactly as it was when the call began.                *)
FailedInstallKeepsTarget ==
    \A p \in Procs :
        pc[p] = "cleanup" /\ result[p] = "wrapped" => target[Cur(p)] = before[p]

(* Error wrapping (spec 7): install() reports every failure after the     *)
(* argument check as the wrapped "Error auto-installing" error.            *)
ErrorsWrapped == \A p \in Procs : result[p] # "raw"

(* Concurrent installs (spec 5: "the result is whichever finishes last"): *)
(* once no call is running, the tree at every name and the marker written *)
(* for it come from the same URL.                                          *)
MarkerMatchesTarget ==
    (\A p \in Procs : pc[p] = "idle") =>
        \A n \in Names :
            LET m == marker[MarkerKey(PackageName(n))] IN
            target[n] # Absent /\ m # NoURL => target[n].url = m

(* Half-written cache files (spec 2 CacheDirectory: "previously fetched   *)
(* raw archive files"; _download line 417): copy_tree writes the download  *)
(* into the shared cache file by file, and another call's glob can take   *)
(* the file mid-copy, or a call killed or failing in copy_tree leaves it   *)
(* half written.  No target ever holds a tree made from such a file.      *)
NoPartialInstall == \A n \in Names : target[n] # Absent => target[n].q # "partial"
=============================================================================
