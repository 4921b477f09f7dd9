------------------------- MODULE MirrorDownloadProofs -------------------------
(***************************************************************************)
(* Proofs about the retry and mirror loop of _download_to_stream, for      *)
(* every set of hosts, regexes and mirror lists.  The type invariant rests *)
(* on one lemma about the mirror scan: _replace_domain_with_next_mirror    *)
(* only ever hands out a configured host and shortens the iterators.       *)
(***************************************************************************)
EXTENDS MirrorDownload, TLAPS

\* The state of the scan in _replace_domain_with_next_mirror.
ScanState == [stop : BOOLEAN, h : Hosts, new : Hosts \cup {NoHost},
              rest : [ClassSet -> Seq(Hosts)]]

(* One pair of the scan keeps its state well formed: the new host comes   *)
(* from an iterator, and an iterator only loses its head.                  *)
LEMMA TryClassType ==
    ASSUME NEW st \in ScanState, NEW c \in ClassSet
    PROVE  TryClass(st, c) \in ScanState
<1>1. CASE st.stop \/ st.h \notin Match[c]
    BY <1>1 DEF TryClass
<1>2. CASE ~(st.stop \/ st.h \notin Match[c]) /\ st.rest[c] = <<>>
    BY <1>2 DEF TryClass, ScanState
<1>3. CASE ~(st.stop \/ st.h \notin Match[c]) /\ st.rest[c] # <<>>
    <2>1. st.rest[c] \in Seq(Hosts) /\ Len(st.rest[c]) > 0
        BY <1>3 DEF ScanState
    <2>2. Head(st.rest[c]) \in Hosts /\ Tail(st.rest[c]) \in Seq(Hosts)
        BY <2>1
    <2> QED
        BY <1>3, <2>2 DEF TryClass, ScanState
<1> QED
    BY <1>1, <1>2, <1>3

\* The whole scan, over both classes.
LEMMA NextMirrorType ==
    ASSUME NEW h \in Hosts, NEW r \in [ClassSet -> Seq(Hosts)]
    PROVE  NextMirror(h, r) \in ScanState
<1>1. [stop |-> FALSE, h |-> h, new |-> NoHost, rest |-> r] \in ScanState
    BY DEF ScanState
<1>2. Classes[1] \in ClassSet /\ Classes[2] \in ClassSet
    BY DEF Classes, ClassSet
<1> QED
    BY <1>1, <1>2, TryClassType DEF NextMirror

\* Every step of the loop keeps the type invariant.
LEMMA TypeStep == TypeOK /\ [Next]_vars => TypeOK'
<1> SUFFICES ASSUME TypeOK, [Next]_vars PROVE TypeOK'
    OBVIOUS
<1>1. CASE OpenSucceeds
    BY <1>1 DEF OpenSucceeds, TypeOK, Outcomes
<1>2. CASE Retry
    BY <1>2 DEF Retry, TypeOK
<1>3. CASE Substitute
    BY <1>3, NextMirrorType DEF Substitute, TypeOK, ScanState
<1>4. CASE GiveUp
    BY <1>4, NextMirrorType DEF GiveUp, TypeOK, ScanState, Outcomes
<1>5. CASE Returned \/ UNCHANGED vars
    BY <1>5 DEF Returned, vars, TypeOK
<1> QED
    BY <1>1, <1>2, <1>3, <1>4, <1>5 DEF Next, Loop

(* The loop's state keeps its type: a configured host, at most two        *)
(* failures of it, and the unread rest of each mirror list.               *)
THEOREM TypeCorrect == Spec => []TypeOK
<1>1. Init => TypeOK
    BY DownloadAssumption DEF Init, TypeOK, Mirrors
<1>2. TypeOK /\ [Next]_vars => TypeOK'
    BY TypeStep
<1> QED
    BY <1>1, <1>2, PTL DEF Spec

(* Retry accounting (spec 4.3), for any number of mirrors: every URL      *)
(* tried gets exactly three urlopen calls before the next one is used.     *)
(* The invariant is inductive together with TypeOK: a substitution turns  *)
(* the three calls of the old URL into one more substitution.             *)
THEOREM AttemptsTheorem == Spec => []AttemptsAccounted
<1> DEFINE Inv == TypeOK /\ AttemptsAccounted
<1>1. Init => Inv
    BY DownloadAssumption DEF Init, TypeOK, Mirrors, AttemptsAccounted
<1>2. Inv /\ [Next]_vars => Inv'
    <2> SUFFICES ASSUME Inv, [Next]_vars PROVE Inv'
        OBVIOUS
    <2>1. TypeOK'
        BY TypeStep
    <2>2. ASSUME OpenSucceeds PROVE AttemptsAccounted'
        BY <2>2 DEF OpenSucceeds, TypeOK, AttemptsAccounted
    <2>3. ASSUME Retry PROVE AttemptsAccounted'
        BY <2>3 DEF Retry, TypeOK, AttemptsAccounted
    <2>4. ASSUME Substitute PROVE AttemptsAccounted'
        BY <2>4 DEF Substitute, TypeOK, AttemptsAccounted
    <2>5. ASSUME GiveUp PROVE AttemptsAccounted'
        BY <2>5 DEF GiveUp, TypeOK, AttemptsAccounted
    <2>6. ASSUME Returned \/ UNCHANGED vars PROVE AttemptsAccounted'
        BY <2>6 DEF Returned, vars, AttemptsAccounted
    <2> QED
        BY <2>1, <2>2, <2>3, <2>4, <2>5, <2>6 DEF Next, Loop
<1> QED
    BY <1>1, <1>2, PTL DEF Spec

(* The safety half of the refinement of DownloadResult: the loop starts   *)
(* pending and every step either leaves the outcome alone or is the one   *)
(* step that fixes it; a returned outcome never changes.  The liveness     *)
(* half, that the loop does return, is checked by TLC (run mirror_refines).*)
THEOREM RefinesSafety == Spec => Abstract!Init /\ [][Abstract!Return]_Result
<1>1. Init => Abstract!Init
    BY DEF Init, Result, Abstract!Init
<1>2. TypeOK /\ [Next]_vars => [Abstract!Return]_Result
    <2> SUFFICES ASSUME TypeOK, [Next]_vars PROVE [Abstract!Return]_Result
        OBVIOUS
    <2>1. CASE OpenSucceeds
        BY <2>1 DEF OpenSucceeds, Result, Abstract!Return, Abstract!Outcomes
    <2>2. CASE GiveUp
        BY <2>2 DEF GiveUp, Result, Abstract!Return, Abstract!Outcomes
    <2>3. CASE Retry \/ Substitute \/ Returned \/ UNCHANGED vars
        BY <2>3 DEF Retry, Substitute, Returned, vars, Result
    <2> QED
        BY <2>1, <2>2, <2>3 DEF Next, Loop
<1> QED
    BY <1>1, <1>2, TypeCorrect, PTL DEF Spec
=============================================================================
