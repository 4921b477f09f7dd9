------------------------- MODULE AutoInstallerProofs -------------------------
(***************************************************************************)
(* Proofs about AutoInstaller for every value of its constants.           *)
(*                                                                         *)
(* TypeOK is not inductive by itself: a running call uses Cur(p), the      *)
(* target name of its arguments, as an index into target, marker and      *)
(* lastOk, and the move builds the new tree from got[p].  The inductive   *)
(* invariant adds the two facts the code's control flow guarantees: a     *)
(* call past the argument check has a target name or a sub-path (lines    *)
(* 481-486), and a call at the cache write, the prepare step, the removal *)
(* or the move holds the bytes it downloaded or found.                     *)
(***************************************************************************)
EXTENDS AutoInstaller, TLAPS

\* A call that got past install()'s argument check.
Named(c) == c.name # NoName \/ c.sub # NoSub

\* Every running call got past the check.
RunningNamed == \A p \in Procs : pc[p] # "idle" => Named(call[p])

\* The steps that use got[p] find it set.
HoldsBytes == \A p \in Procs : pc[p] \in {"cachewrite", "prepare", "remove", "move"} => got[p] \in Blob

IInv == TypeOK /\ RunningNamed /\ HoldsBytes

(* A call past the argument check has a target name: the one given, or   *)
(* the basename of the sub-path (install(), lines 481-489).               *)
LEMMA TargetNamed ==
    ASSUME NEW c \in Calls, Named(c)
    PROVE  TargetName(c) \in Names
BY SubsAssumption DEF Named, TargetName, Calls

\* The marker keys a name is read and written under are keys of the marker map.
LEMMA PackageKey ==
    ASSUME NEW n \in Names
    PROVE  MarkerKey(PackageName(n)) \in Keys /\ MarkerKey(n) \in Keys
BY DEF Keys

(* The initial state, with no target, marker, cache file or running call, *)
(* satisfies the inductive invariant.                                      *)
LEMMA InitIInv == Init => IInv
<1> SUFFICES ASSUME Init PROVE IInv
    OBVIOUS
<1>1. (CHOOSE c \in Calls : TRUE) \in Calls
    <2>1. PICK u \in URLs : TRUE
        BY ConstAssumption
    <2>2. [url |-> u, refresh |-> TRUE, name |-> NoName, sub |-> NoSub] \in Calls
        BY DEF Calls
    <2> QED
        BY <2>2, Zenon
<1>2. TypeOK
    BY <1>1, ConstAssumption, ConstAssumption DEF Init, TypeOK, PCs, Results
<1>3. RunningNamed /\ HoldsBytes
    BY DEF Init, RunningNamed, HoldsBytes
<1> QED
    BY <1>2, ConstAssumption, <1>3 DEF IInv

\* The name a running call works on is a target name.
LEMMA CurNamed ==
    ASSUME IInv, NEW p \in Procs, pc[p] # "idle"
    PROVE  Cur(p) \in Names
BY TargetNamed DEF IInv, TypeOK, RunningNamed, Cur


(* Every step of every process, and the final stutter, keeps the          *)
(* inductive invariant.                                                    *)
LEMMA NextIInv == IInv /\ [Next]_vars => IInv'
<1> SUFFICES ASSUME IInv, [Next]_vars PROVE IInv'
    OBVIOUS
<1>1. ASSUME NEW p \in Procs, NEW c \in Calls, CallRejected(p, c) PROVE IInv'
    BY <1>1, ConstAssumption DEF IInv, TypeOK, RunningNamed, HoldsBytes, PCs, Results, Named, CallRejected
<1>2. ASSUME NEW p \in Procs, NEW c \in Calls, CallSkipped(p, c) PROVE IInv'
    BY <1>2, ConstAssumption, TargetNamed DEF IInv, TypeOK, RunningNamed, HoldsBytes, PCs, Results, Named, CallSkipped
<1>3. ASSUME NEW p \in Procs, NEW c \in Calls, CallStarted(p, c) PROVE IInv'
    BY <1>3, ConstAssumption, TargetNamed DEF IInv, TypeOK, RunningNamed, HoldsBytes, PCs, Results, Named, CallStarted
<1>4. ASSUME NEW p \in Procs, CreateScratch(p) PROVE IInv'
    BY <1>4 DEF IInv, TypeOK, RunningNamed, HoldsBytes, PCs, Results, CreateScratch
<1>5. ASSUME NEW p \in Procs, MakeTempDir(p) PROVE IInv'
    BY <1>5 DEF IInv, TypeOK, RunningNamed, HoldsBytes, PCs, Results, MakeTempDir
<1>6. ASSUME NEW p \in Procs, DownloadHit(p) PROVE IInv'
    BY <1>6, ConstAssumption DEF IInv, TypeOK, RunningNamed, HoldsBytes, PCs, Results, Calls, DownloadHit
<1>7. ASSUME NEW p \in Procs, DownloadFail(p) PROVE IInv'
    BY <1>7 DEF IInv, TypeOK, RunningNamed, HoldsBytes, PCs, Results, DownloadFail, Raise
<1>8. ASSUME NEW p \in Procs, DownloadFetch(p) PROVE IInv'
    <2> DEFINE u == call[p].url
    <2>1. u \in URLs /\ FileOf[u] \in Files
        BY ConstAssumption DEF IInv, TypeOK, Calls
    <2>2. PICK q \in {"good", "bad"} : got' = [got EXCEPT ![p] = [url |-> u, q |-> q]]
        BY <1>8 DEF DownloadFetch
    <2>3. got' \in [Procs -> Blob \cup {Absent}] /\ got'[p] \in Blob
        BY <2>1, <2>2 DEF IInv, TypeOK, Blob, Quality
    <2>4. cache' \in [Files -> Blob \cup {Absent}]
        BY <1>8, <2>1 DEF DownloadFetch, IInv, TypeOK, Blob, Quality
    <2>5. pc' \in [Procs -> PCs] /\ pc'[p] \in {"cachewrite", "prepare"}
        BY <1>8 DEF DownloadFetch, IInv, TypeOK, PCs
    <2>6. TypeOK'
        BY <1>8, <2>3, <2>4, <2>5, ConstAssumption DEF DownloadFetch, IInv, TypeOK
    <2>7. RunningNamed'
        BY <1>8 DEF DownloadFetch, IInv, TypeOK, RunningNamed
    <2>8. HoldsBytes'
        BY <1>8, <2>3, <2>5 DEF DownloadFetch, IInv, TypeOK, HoldsBytes
    <2> QED
        BY <2>6, <2>7, <2>8 DEF IInv
<1>9. ASSUME NEW p \in Procs, CacheWrite(p) PROVE IInv'
    <2>1. FileOf[call[p].url] \in Files
        BY ConstAssumption DEF IInv, TypeOK, Calls
    <2>2. CASE /\ cache' = [cache EXCEPT ![FileOf[call[p].url]] = got[p]]
               /\ pc' = [pc EXCEPT ![p] = "prepare"]
               /\ UNCHANGED result
        BY <1>9, <2>1, <2>2 DEF CacheWrite, IInv, TypeOK, RunningNamed, HoldsBytes, PCs
    <2>3. CASE Raise(p) /\ UNCHANGED cache
        BY <1>9, <2>3 DEF CacheWrite, Raise, IInv, TypeOK, RunningNamed, HoldsBytes, PCs, Results
    <2> QED
        BY <1>9, <2>2, <2>3 DEF CacheWrite
<1>10. ASSUME NEW p \in Procs, Prepare(p) PROVE IInv'
    <2> DEFINE data == IF loc[p] = "scratch" THEN got[p] ELSE cache[loc[p]]
    <2>1. data \in Blob \cup {Absent}
        BY DEF IInv, TypeOK
    <2>2. got' \in [Procs -> Blob \cup {Absent}]
        BY <1>10, <2>1 DEF Prepare, IInv, TypeOK
    <2>3. loc' \in [Procs -> {"scratch"} \cup Files]
        BY <1>10 DEF Prepare, IInv, TypeOK
    <2>4. pc' \in [Procs -> PCs] /\ result' \in [Procs -> Results] /\ pc'[p] \in {"remove", "cleanup"}
        BY <1>10 DEF Prepare, Raise, IInv, TypeOK, PCs, Results
    <2>5. TypeOK'
        BY <1>10, <2>2, <2>3, <2>4 DEF Prepare, IInv, TypeOK
    <2>6. RunningNamed'
        BY <1>10 DEF Prepare, Raise, IInv, TypeOK, RunningNamed
    <2>7. pc'[p] = "remove" => got'[p] \in Blob
        BY <1>10 DEF Prepare, Raise, IInv, TypeOK, HoldsBytes
    <2>8. HoldsBytes'
        BY <1>10, <2>4, <2>7 DEF Prepare, Raise, IInv, TypeOK, HoldsBytes
    <2> QED
        BY <2>5, <2>6, <2>8 DEF IInv
<1>11. ASSUME NEW p \in Procs, RemoveOld(p) PROVE IInv'
    BY <1>11, CurNamed DEF IInv, TypeOK, RunningNamed, HoldsBytes, PCs, Results, RemoveOld, Raise
<1>12. ASSUME NEW p \in Procs, Move(p) PROVE IInv'
    <2> DEFINE n == Cur(p)
    <2>1. n \in Names
        BY <1>12, CurNamed DEF Move
    <2>2. NewTree(p) \in Tree
        BY <1>12 DEF Move, IInv, HoldsBytes, NewTree, Tree, Blob
    <2>3. target' \in [Names -> Tree \cup {Absent}]
        BY <1>12, <2>1, <2>2 DEF Move, IInv, TypeOK
    <2>4. cache' \in [Files -> Blob \cup {Absent}]
        BY <1>12 DEF Move, IInv, TypeOK
    <2>5. pc' \in [Procs -> PCs] /\ result' \in [Procs -> Results]
        BY <1>12 DEF Move, Raise, IInv, TypeOK, PCs, Results
    <2>6. TypeOK'
        BY <1>12, <2>3, <2>4, <2>5 DEF Move, IInv, TypeOK
    <2>7. RunningNamed' /\ HoldsBytes'
        BY <1>12 DEF Move, Raise, IInv, TypeOK, RunningNamed, HoldsBytes
    <2> QED
        BY <2>6, <2>7 DEF IInv
<1>13. ASSUME NEW p \in Procs, Record(p) PROVE IInv'
    <2> DEFINE k == MarkerKey(PackageName(Cur(p)))
    <2>1. k \in Keys
        BY <1>13, CurNamed, PackageKey DEF Record
    <2>2. call[p].url \in URLs
        BY DEF IInv, TypeOK, Calls
    <2>3. marker' \in [Keys -> URLs \cup {NoURL}]
        BY <1>13, <2>1, <2>2 DEF Record, IInv, TypeOK
    <2>4. TypeOK'
        BY <1>13, <2>3, ConstAssumption DEF Record, Raise, IInv, TypeOK, PCs, Results
    <2>5. RunningNamed' /\ HoldsBytes'
        BY <1>13 DEF Record, Raise, IInv, TypeOK, RunningNamed, HoldsBytes
    <2> QED
        BY <2>4, <2>5 DEF IInv
<1>14. ASSUME NEW p \in Procs, Cleanup(p) PROVE IInv'
    BY <1>14, ConstAssumption, CurNamed DEF IInv, TypeOK, RunningNamed, HoldsBytes, PCs, Results, Calls, Cleanup
<1>15. ASSUME NEW p \in Procs, Crash(p) PROVE IInv'
    BY <1>15 DEF IInv, TypeOK, RunningNamed, HoldsBytes, PCs, Results, Crash
<1>16. CASE Terminated
    BY <1>16 DEF IInv, TypeOK, RunningNamed, HoldsBytes, Terminated, vars
<1>17. CASE UNCHANGED vars
    BY <1>17 DEF IInv, TypeOK, RunningNamed, HoldsBytes, vars
<1> QED
    BY <1>1, ConstAssumption, <1>2, <1>3, <1>4, <1>5, <1>6, <1>7, <1>8, <1>9, <1>10, <1>11, <1>12,
       <1>13, <1>14, <1>15, <1>16, <1>17 DEF Next, Step, Running

(* Type correctness of install(): in every reachable state of any number  *)
(* of processes, each marker, target, cache file and call argument has    *)
(* its type; in particular the marker written at the end of _install      *)
(* (line 459) has a key of the marker map and a URL as its content.       *)
THEOREM TypeCorrect == Spec => []TypeOK
<1>1. Init => IInv
    BY InitIInv
<1>2. IInv /\ [Next]_vars => IInv'
    BY NextIInv
<1>3. IInv => TypeOK
    BY DEF IInv
<1> QED
    BY <1>1, <1>2, <1>3, PTL DEF Spec

-----------------------------------------------------------------------------
(* Idempotence.  install() reads the marker of a name under MarkerKey(n)  *)
(* and writes it under MarkerKey(PackageName(n)) (lines 492 and 459).     *)
(* The two agree, and differ between different names, exactly when no    *)
(* name contains os.sep and no two names collide once '/' becomes '_':     *)
(* the hypothesis FlatKeys.  Calls of one process run one after the other. *)

FlatKeys ==
    \A m, n \in Names : MarkerKey(PackageName(m)) = MarkerKey(n) <=> m = n

SingleProcess == \E q \in Procs : Procs = {q}

\* The name of a running call has no recorded success yet.
RunningReset == \A p \in Procs : pc[p] # "idle" => lastOk[Cur(p)] = NoURL

\* After the move the target exists; after the marker write it names the URL.
MovedInPlace ==
    \A p \in Procs :
        /\ pc[p] = "record" => target[Cur(p)] # Absent
        /\ pc[p] = "cleanup" /\ result[p] = "ok" =>
               marker[MarkerKey(Cur(p))] = call[p].url /\ target[Cur(p)] # Absent

IdemInv == IInv /\ Idempotent /\ RunningReset /\ MovedInPlace

\* With one process, every process is the one taking the step.
LEMMA OnlyProcess ==
    ASSUME SingleProcess, NEW p \in Procs, NEW r \in Procs
    PROVE  r = p
BY DEF SingleProcess

\* Under FlatKeys the marker written for a name is the one read for it ...
LEMMA WrittenKeyIsRead ==
    ASSUME FlatKeys, NEW n \in Names
    PROVE  MarkerKey(PackageName(n)) = MarkerKey(n)
BY DEF FlatKeys

\* ... and it is not the one read for any other name.
LEMMA WrittenKeyIsOwn ==
    ASSUME FlatKeys, NEW m \in Names, NEW n \in Names, m # n
    PROVE  MarkerKey(PackageName(m)) # MarkerKey(n)
BY DEF FlatKeys

(* Every step keeps the idempotence facts, for one process and flat keys. *)
LEMMA NextIdem ==
    ASSUME SingleProcess, FlatKeys, IdemInv, [Next]_vars
    PROVE  Idempotent' /\ RunningReset' /\ MovedInPlace'
<1> USE DEF IdemInv
<1>1. ASSUME NEW p \in Procs, NEW c \in Calls, CallRejected(p, c)
      PROVE  Idempotent' /\ RunningReset' /\ MovedInPlace'
    BY <1>1 DEF CallRejected, Idempotent, RunningReset, MovedInPlace, Installed, Cur
<1>2. ASSUME NEW p \in Procs, NEW c \in Calls, CallSkipped(p, c)
      PROVE  Idempotent' /\ RunningReset' /\ MovedInPlace'
    BY <1>2 DEF CallSkipped, Idempotent, RunningReset, MovedInPlace, Installed, Cur
<1>3. ASSUME NEW p \in Procs, NEW c \in Calls, CallStarted(p, c)
      PROVE  Idempotent' /\ RunningReset' /\ MovedInPlace'
    <2>1. \A r \in Procs : r = p
        BY OnlyProcess
    <2>2. TargetName(c) \in Names
        BY <1>3, TargetNamed DEF CallStarted, Named
    <2> QED
        BY <1>3, <2>1, <2>2 DEF CallStarted, IInv, TypeOK, Idempotent, RunningReset,
                                MovedInPlace, Installed, Cur
<1>4. ASSUME NEW p \in Procs, CreateScratch(p)
      PROVE  Idempotent' /\ RunningReset' /\ MovedInPlace'
    BY <1>4, OnlyProcess DEF CreateScratch,
       IInv, TypeOK, Idempotent, RunningReset, MovedInPlace, Installed, Cur
<1>5. ASSUME NEW p \in Procs, MakeTempDir(p)
      PROVE  Idempotent' /\ RunningReset' /\ MovedInPlace'
    BY <1>5, OnlyProcess DEF MakeTempDir,
       IInv, TypeOK, Idempotent, RunningReset, MovedInPlace, Installed, Cur
<1>6. ASSUME NEW p \in Procs, DownloadHit(p)
      PROVE  Idempotent' /\ RunningReset' /\ MovedInPlace'
    BY <1>6, OnlyProcess DEF DownloadHit,
       IInv, TypeOK, Idempotent, RunningReset, MovedInPlace, Installed, Cur
<1>7. ASSUME NEW p \in Procs, DownloadFail(p)
      PROVE  Idempotent' /\ RunningReset' /\ MovedInPlace'
    BY <1>7, OnlyProcess DEF DownloadFail, Raise,
       IInv, TypeOK, Idempotent, RunningReset, MovedInPlace, Installed, Cur
<1>8. ASSUME NEW p \in Procs, DownloadFetch(p)
      PROVE  Idempotent' /\ RunningReset' /\ MovedInPlace'
    BY <1>8, OnlyProcess DEF DownloadFetch,
       IInv, TypeOK, Idempotent, RunningReset, MovedInPlace, Installed, Cur
<1>9. ASSUME NEW p \in Procs, CacheWrite(p)
      PROVE  Idempotent' /\ RunningReset' /\ MovedInPlace'
    <2>1. UNCHANGED <<target, marker, lastOk, call>>
        BY <1>9 DEF CacheWrite
    <2>2. /\ pc[p] = "cachewrite"
          /\ \/ pc'[p] = "prepare"
             \/ pc'[p] = "cleanup" /\ result'[p] = "wrapped"
        BY <1>9 DEF CacheWrite, Raise, IInv, TypeOK
    <2> QED
        BY <1>9, <2>1, <2>2, OnlyProcess DEF IInv, TypeOK, Idempotent, RunningReset,
                                         MovedInPlace, Installed, Cur
<1>10. ASSUME NEW p \in Procs, Prepare(p)
       PROVE  Idempotent' /\ RunningReset' /\ MovedInPlace'
    BY <1>10, OnlyProcess DEF Prepare, Raise,
       IInv, TypeOK, Idempotent, RunningReset, MovedInPlace, Installed, Cur
<1>11. ASSUME NEW p \in Procs, RemoveOld(p)
       PROVE  Idempotent' /\ RunningReset' /\ MovedInPlace'
    <2>1. Cur(p) \in Names /\ lastOk[Cur(p)] = NoURL
        BY <1>11, CurNamed DEF RemoveOld, RunningReset
    <2>2. \A r \in Procs : r = p
        BY OnlyProcess
    <2> QED
        BY <1>11, <2>1, <2>2 DEF RemoveOld, Raise, IInv, TypeOK, Idempotent, RunningReset,
                           MovedInPlace, Installed, Cur
<1>12. ASSUME NEW p \in Procs, Move(p)
       PROVE  Idempotent' /\ RunningReset' /\ MovedInPlace'
    <2>1. Cur(p) \in Names /\ lastOk[Cur(p)] = NoURL
        BY <1>12, CurNamed DEF Move, RunningReset
    <2>2. NewTree(p) # Absent
        <3>1. got[p] \in Blob
            BY <1>12 DEF Move, IInv, HoldsBytes
        <3>2. NewTree(p) \in Tree
            BY <3>1 DEF NewTree, Tree, Blob
        <3> QED
            BY <3>2, AbsentAssumption
    <2>3. \A r \in Procs : r = p
        BY OnlyProcess
    <2> QED
        BY <1>12, <2>1, <2>2, <2>3 DEF Move, Raise, IInv, TypeOK, Idempotent, RunningReset,
                                 MovedInPlace, Installed, Cur
<1>13. ASSUME NEW p \in Procs, Record(p)
       PROVE  Idempotent' /\ RunningReset' /\ MovedInPlace'
    <2> DEFINE n == Cur(p)
    <2>1. n \in Names /\ lastOk[n] = NoURL
        BY <1>13, CurNamed DEF Record, RunningReset
    <2>2. MarkerKey(PackageName(n)) = MarkerKey(n)
        BY <2>1, WrittenKeyIsRead
    <2>3. \A m \in Names : m # n => MarkerKey(PackageName(n)) # MarkerKey(m)
        BY <2>1, WrittenKeyIsOwn
    <2>4. \A r \in Procs : r = p
        BY OnlyProcess
    <2>5. target[n] # Absent
        BY <1>13 DEF Record, MovedInPlace
    <2>6. UNCHANGED <<target, lastOk, call>> /\ pc' = [pc EXCEPT ![p] = "cleanup"]
        BY <1>13 DEF Record, Raise
    <2>7. \A m \in Names : m # n => MarkerKey(m) \in Keys /\ MarkerKey(m) # MarkerKey(PackageName(n))
        BY <2>3, PackageKey
    <2>8. MarkerKey(PackageName(n)) \in Keys
        BY <2>1, PackageKey
    <2>9. RunningReset'
        BY <2>4, <2>6, <2>1 DEF RunningReset, Cur
    <2>10. CASE marker' = [marker EXCEPT ![MarkerKey(PackageName(n))] = call[p].url]
                /\ result' = [result EXCEPT ![p] = "ok"]
        <3>1. Idempotent'
            BY <2>1, <2>6, <2>7, <2>10 DEF IInv, TypeOK, Idempotent, Installed
        <3>2. MovedInPlace'
            BY <2>2, <2>4, <2>5, <2>6, <2>8, <2>10 DEF IInv, TypeOK, MovedInPlace, Cur
        <3> QED
            BY <3>1, <3>2, <2>9
    <2>11. CASE marker' \in {marker, [marker EXCEPT ![MarkerKey(PackageName(n))] = NoURL]}
                /\ result' = [result EXCEPT ![p] = "wrapped"]
        <3>1. Idempotent'
            BY <2>1, <2>6, <2>7, <2>11 DEF IInv, TypeOK, Idempotent, Installed
        <3>2. MovedInPlace'
            BY <2>4, <2>6, <2>11 DEF IInv, TypeOK, MovedInPlace
        <3> QED
            BY <3>1, <3>2, <2>9
    <2> QED
        BY <1>13, <2>10, <2>11 DEF Record, Raise
<1>14. ASSUME NEW p \in Procs, Cleanup(p)
       PROVE  Idempotent' /\ RunningReset' /\ MovedInPlace'
    <2>1. Cur(p) \in Names
        BY <1>14, CurNamed DEF Cleanup
    <2>2. \A r \in Procs : r = p
        BY OnlyProcess
    <2> QED
        BY <1>14, <2>1, <2>2 DEF Cleanup, IInv, TypeOK, Idempotent, RunningReset,
                                 MovedInPlace, Installed, Cur
<1>15. ASSUME NEW p \in Procs, Crash(p)
       PROVE  Idempotent' /\ RunningReset' /\ MovedInPlace'
    BY <1>15 DEF Crash, Idempotent, RunningReset, MovedInPlace, Installed, Cur
<1>16. CASE Terminated \/ UNCHANGED vars
    BY <1>16 DEF Terminated, vars, Idempotent, RunningReset, MovedInPlace, Installed, Cur
<1> QED
    BY <1>1, <1>2, <1>3, <1>4, <1>5, <1>6, <1>7, <1>8, <1>9, <1>10, <1>11, <1>12,
       <1>13, <1>14, <1>15, <1>16 DEF Next, Step, Running

(* Idempotence of install() (spec 8): for one process and names without   *)
(* os.sep that stay distinct once '/' becomes '_', after a call installs   *)
(* URL u at name n, and until the next call for n begins, the marker read  *)
(* by _is_downloaded names u and the target exists, so install(u, n)       *)
(* returns at once.  Without FlatKeys the run nested_name_marker shows it  *)
(* fails.                                                                  *)
THEOREM IdempotentHolds ==
    ASSUME SingleProcess, FlatKeys
    PROVE  Spec => []Idempotent
<1>1. Init => IdemInv
    <2> SUFFICES ASSUME Init PROVE IdemInv
        OBVIOUS
    <2>1. IInv
        BY InitIInv
    <2> QED
        BY <2>1 DEF Init, IdemInv, Idempotent, RunningReset, MovedInPlace
<1>2. IdemInv /\ [Next]_vars => IdemInv'
    BY NextIInv, NextIdem DEF IdemInv
<1>3. IdemInv => Idempotent
    BY DEF IdemInv
<1> QED
    BY <1>1, <1>2, <1>3, PTL DEF Spec
=============================================================================
