# Verification of webkitpy's auto-installer

This directory holds TLA+ models of the package auto-installer in
`Tools/Scripts/webkitpy/common/system/autoinstall.py`, the TLC
configurations that model-check them, and the TLAPS proofs about them.

## The system

`AutoInstaller.install(url, should_refresh, target_name, url_subpath,
files_to_remove)` downloads a package and puts it at
`<target_dir>/<target_name>`. The parts of the system are listed below.

| Part | Code | State it keeps |
|---|---|---|
| Installer (orchestrator) | `install`, `_install` | none of its own; it sequences the others |
| Target directory manager | `_set_up_target_dir`, `_make_package`, `_create_scratch_directory` | the target dir, the temp dir, one scratch dir per call |
| Install-state tracker | `_url_downloaded_path`, `_is_downloaded`, `_record_url_downloaded` | marker files `.<name>.url` holding the URL installed |
| Downloader and local cache | `_download`, `_check_package_in_local_autoinstall_cache` | files in `LOCAL_AUTOINSTALL_CACHE`, the downloaded file in the scratch dir |
| Retry loop and mirror resolver | `_download_to_stream`, `_parse_colon_separated_mirrors_from_env`, `_replace_domain_with_next_mirror` | the failure count and one iterator per mirror class |
| Archive preparer | `_prepare_package`, `_unzip`, `_extract_all`, `_extract_tar`, `_copy_unpackaged_files_from_local_cache` | the unpacked tree in the scratch dir |
| Import hook | `thirdparty/__init__.py` | none; it calls `install` with fixed URLs on import |

A call runs these steps in order:

1. It checks its arguments.
2. It returns at once when the marker names the URL and the target exists.
3. It creates a scratch dir. If the temp dir is missing, it creates the temp dir and tries once more.
4. It takes the file from the cache by a glob on its name, or downloads it. A downloaded file is then copied into the cache.
5. It unpacks the file.
6. It removes the old target.
7. It calls `shutil.move` to put the new tree in place.
8. It writes the marker.
9. In a `finally`, it removes the scratch dir.

Any exception from steps 4 to 8 is wrapped in "Error auto-installing".

There is no lock. Processes that share a target dir, a cache or a temp dir interleave freely.

## Modules

| Module | Models | Notes |
|---|---|---|
| `AutoInstaller` | `install`, `_install` and all the components they call, for a set `Procs` of processes | Core module |
| `MCAutoInstaller` | model values and small name sets for TLC | MC module |
| `MirrorDownload` | `_download_to_stream` with both mirror helpers | Detailed loop |
| `DownloadResult` | what `_download_to_stream` promises its caller | Abstract spec |
| `MCMirrorDownload` | host sets and mirror lists | MC module |
| `AutoInstallerProofs` | TLAPS proofs about `AutoInstaller` | |
| `MirrorDownloadProofs` | TLAPS proofs about `MirrorDownload` | |

`AutoInstaller` treats the download as one step that may succeed, raise, or
deliver bad bytes. `MirrorDownload` refines that step in detail, and
`DownloadResult` states its contract.

### AutoInstaller

The state is as follows:

- **`target[n]`**: the tree at name `n`. A tree is the URL it came from, its quality and whether it is a directory.
- **`marker[k]`**: the marker files, keyed by the name with `/` replaced by `_`.
- **`cache[f]`**: the cache files.
- **`tempDir`**, **`scratch`** and **`orphans`**: the temp dir, the scratch dirs of running calls, and the dirs left by killed processes.
- **Per process**: a program counter `pc`, the arguments `call`, the bytes `got`, the location `loc` of the prepared path, and the `result`.
- **History variables**: `before` (the target when a call began) and `lastOk` (the URL of the last successful install of each name).

Each step of `install()` is one action.

| Action | Code it models |
|---|---|
| `CallRejected`, `CallSkipped`, `CallStarted` | lines 481-502 |
| `CreateScratch`, `MakeTempDir` | 148-188 |
| `DownloadHit`, `DownloadFail`, `DownloadFetch`, `CacheWrite` | 394-419 |
| `Prepare` | 284-318 and the `files_to_remove` loop |
| `RemoveOld` | 443-447 |
| `Move` | 450 |
| `Record` | 451-459 |
| `Cleanup` | 518-519 |

`Crash` kills a process at any step; nothing after the kill runs.

Failure points are enabled by the `Faults` constant:

- `scratch`: mkdtemp fails, including the retry after the temp dir is made;
- `download`: the download fails;
- `corrupt`: the 2xx body is corrupt;
- `cachewrite`: `copy_tree` raises and leaves the cache file half written;
- `prepare`: the archive fails to unpack;
- `prune`: `files_to_remove` fails;
- `remove`: an rmtree with `ignore_errors=True` leaves its tree behind. At line 445 that is the old target; in the `finally` at line 519 it is the scratch dir, which is then counted in `orphans`;
- `record`: the marker write fails;
- `crash`: the process is killed.

`DownloadFetch` marks the cache file half written and `CacheWrite` completes it. Between them, another process's glob can take the file.

`Prepare` reads the file only when `_prepare_package` does: an archive is unpacked, and a plain file is copied only from a normpath cache. A plain file left in a non-normpath cache is not read, so if it is gone the failure comes at the move, after the old target was removed.

When the target is a directory, `shutil.move` puts the source inside it, or raises `shutil.Error` if an entry of the same basename is already there. The model does not track a tree's entries, so `Move` allows either.

Names and sub-paths are short character sequences. The marker key is computed from them by character replacement, as in the code.

### MirrorDownload

The state is as follows:

- `host`, the current URL's host;
- `failures`, from 0 to 2;
- `rest[c]`, what is left of the iterator for class `c`;
- `status`.

The history variables `attempts`, `subs` and `origin` count the urlopen calls, count the substitutions and keep the original host.

The actions are as follows:

| Action | What it models |
|---|---|
| `OpenSucceeds` | the status check and the read loop |
| `Retry` | a failed open, with fewer than 3 attempts on this URL |
| `Substitute` | the third failure, when a mirror is left |
| `GiveUp` | the third failure, with no mirror left |

`NextMirror` is `_replace_domain_with_next_mirror` as a pure operator. It scans the classes in order (sourceforge, then pypi). Each class regex is matched against the host as already substituted, and a `StopIteration` ends the scan.

## Runs

| Run | Checks | What it shows |
|---|---|---|
| `installer_single` (pass) | TypeOK, SkipIsSound, FailedInstallKeepsTarget | One process, flat names, every failure that raises before the swap (a failed cache write included): a skip finds the tree of its URL, and a failed call keeps its target. |
| `installer_faults` (pass) | Idempotent | All 9 faults, a non-normpath cache and a plain file: a completed install is seen by the next identical call. |
| `installer_two_procs` (pass) | NoPartialInstall | Two processes, a normpath cache of archives, failed cache writes, corrupt bodies and kills. A half-written archive that the other process takes from the cache is rejected by the unpack. |
| `mirror_download` (pass) | TypeOK, AttemptsAccounted, GivesUpOnlyWhenExhausted | Three attempts per URL, and all mirrors tried before giving up. |
| `mirror_refines` (pass) | Refines | The loop implements `DownloadResult`, termination included. |
| `nested_name_marker` (violation) | Idempotent | `logilab/common` is read under `.logilab_common.url` and written under `.logilab.common.url`. |
| `partial_rmtree` (violation) | SkipIsSound | rmtree leaves the old tree, the move nests the new one inside it, and the marker claims the new URL. |
| `lost_target` (violation) | FailedInstallKeepsTarget | A missing sub-path makes `shutil.move` raise after the old target was removed. |
| `scratch_unwrapped` (violation) | ErrorsWrapped | Two processes race to create the temp dir; the loser's OSError escapes unwrapped. |
| `concurrent_installs` (violation) | MarkerMatchesTarget | Two unlocked installs of one name leave a marker and a tree from different URLs. |
| `partial_cache` (violation) | NoPartialInstall | A plain file still being copied into the cache by one process is taken by the other's glob, copied as is and installed; its marker is written, so later calls skip onto it. |
| `plain_mirror` (violation) | GivesUpOnlyWhenExhausted | A mirror without "pypi" in its name ends the scan with mirrors untried. |

The violations are recorded as findings in `PROJECT.json`.

### Bounds

- **Calls:** `MaxCalls` is 2 or 3. That is enough for an install followed by a repeat or a refresh, which is what the skip and idempotence properties relate.
- **Processes:** one or two. Two are enough for every pairwise race, because the code has no locks.
- **Names:** two names, one of them with a `.`, or one nested name. That is enough to make the read key and the written key differ.
- **URLs:** two, so that a tree and a marker can disagree.
- **Archives:** one archive file and one plain file, so that both arms of `_prepare_package` are taken.
- **Mirrors:** three sourceforge mirrors and one pypi mirror, with start hosts of each class and of neither.

### Fairness

The `AutoInstaller` runs check safety only, under `Spec`. `MirrorDownload`
assumes weak fairness of the loop step. That is justified by the 30-second
`urlopen` timeout: every attempt returns or raises.

## Proofs

The theorems are proved with TLAPS for every value of the constants.

- **`AutoInstallerProofs!TypeCorrect`** proves `Spec => []TypeOK`. `TypeOK` is not inductive on its own, so it is strengthened to `IInv`, which adds two facts:
  - `RunningNamed`: a running call passed the argument check, so `Cur(p)` is a name.
  - `HoldsBytes`: the cache write, the prepare step, the removal and the move have their bytes. The prepare step needs it because a plain file it does not read keeps the bytes found earlier.
- **`AutoInstallerProofs!IdempotentHolds`** proves `Spec => []Idempotent` under two hypotheses:
  - `SingleProcess`;
  - `FlatKeys`: the written key of a name equals its read key and differs from every other name's read key.

  The inductive invariant `IdemInv` adds two facts to `IInv`. A running call's name has no recorded success (`RunningReset`). And after the move the target exists; after the marker write, the marker names the URL (`MovedInPlace`). The run `nested_name_marker` shows that the theorem fails without `FlatKeys`.
- **`MirrorDownloadProofs!TypeCorrect`** rests on the lemma `TryClassType` about the mirror scan.
- **`MirrorDownloadProofs!AttemptsTheorem`** proves `AttemptsAccounted`, which is inductive together with `TypeOK`.
- **`MirrorDownloadProofs!RefinesSafety`** proves the safety half of the refinement of `DownloadResult`.

Some things are only model-checked:

- **Liveness:** the fairness part of `Refines`. TLAPS does not handle liveness or ENABLED here.
- **Unassumed invariants:** the invariants that the violation runs refute, `SkipIsSound` and `FailedInstallKeepsTarget` under the fault sets of `installer_single`, and `NoPartialInstall` for a cache of archives.

## Not modelled

- **Import hook (`thirdparty/__init__.py`):** its nested target names are covered through the `Names` constant.
- **`darwin.py` (DarwinPort):** not part of the installer.
- **Search-path edits and `__init__.py` writes:** they are process-local or touch no state that the properties read.
- **Archive members:** modelled only by whether the archive unpacks and which sub-paths exist.
- **Log text and error messages.**
- **The md5 fragment of the URLs:** the code never checks it.
- **Nested trees:** `target` is a flat map from names, so removing a parent name does not remove a nested name's tree.
- **Non-atomic moves:** the cross-device fallback of `shutil.move` copies and then deletes, and a kill in between is not modelled. `Move` is one step.
- **Zip files without a sub-path:** the path that `_unzip` returns is assumed to exist.
- **Other urlopen exceptions:** an exception from `urlopen` that is not an `IOError` propagates without a retry, and is left out of `MirrorDownload`.
- **Leaked scratch dirs:** these are counted in `orphans`, but no property is stated about them. Every call takes a fresh `mkdtemp` name, so a leaked dir costs only disk space.

## Plan for later work

- A module for the import hook that composes `AutoInstaller`. It would check that `autoinstall_everything` ends with every package installed.
- A property that the cache never serves bytes that failed to prepare. The code writes to the cache before it validates the archive, so a corrupt body poisons the cache.
- A run with overlapping glob matches.
- A proof of `SkipIsSound` for one process, and of `NoPartialInstall` for a cache of archives.
