--------------------------- MODULE MirrorDownload ---------------------------
(***************************************************************************)
(* AutoInstaller._download_to_stream of autoinstall.py with the mirror     *)
(* resolver it calls: _parse_colon_separated_mirrors_from_env builds, once *)
(* per call, one iterator per mirror class: SOURCEFORGE_MIRRORS for hosts  *)
(* containing "sourceforge", then PYPI_MIRRORS for hosts containing       *)
(* "pypi" (_MIRROR_REGEXS); and                                            *)
(* _replace_domain_with_next_mirror swaps the URL's host for the next      *)
(* mirror after the third failed urlopen of the current URL.               *)
(*                                                                         *)
(* A URL is abstracted to its host (substitution changes nothing else); an *)
(* environment variable is given by its ':'-separated fields, so "" is the *)
(* one-field list of the empty host name.                                  *)
(***************************************************************************)
EXTENDS Naturals, Sequences

CONSTANTS
    Hosts,       \* host names (model values)
    StartHosts,  \* hosts of the URLs install() is called with
    Match,       \* Match[c]: the hosts the regex of mirror class c matches
    Env,         \* Env[c]: the fields of class c's variable, or NoEnv if unset
    NoEnv,       \* the variable is not set
    NoHost,      \* None: no substitute URL
    FileScheme   \* the URL starts with "file": no status code check

\* _MIRROR_REGEXS and the iterators are zipped in this order.
Classes == <<"sf", "pypi">>
ClassSet == {"sf", "pypi"}

ASSUME DownloadAssumption ==
    /\ StartHosts \subseteq Hosts /\ StartHosts # {}
    /\ NoHost \notin Hosts
    /\ Match \in [ClassSet -> SUBSET Hosts]
    /\ Env \in [ClassSet -> Seq(Hosts) \cup {NoEnv}]
    /\ FileScheme \in BOOLEAN

\* _parse_colon_separated_mirrors_from_env: a KeyError gives ().
Mirrors(c) == IF Env[c] = NoEnv THEN <<>> ELSE Env[c]

(* _replace_domain_with_next_mirror, the loop body for the pair of class  *)
(* c: if the regex matches the current host, the host becomes the next    *)
(* mirror; StopIteration ends the loop (caught, new_url as it stands).     *)
TryClass(st, c) ==
    IF st.stop \/ st.h \notin Match[c] THEN st
    ELSE IF st.rest[c] = <<>> THEN [st EXCEPT !.stop = TRUE]
    ELSE [st EXCEPT !.h = Head(st.rest[c]), !.new = Head(st.rest[c]),
                    !.rest = [st.rest EXCEPT ![c] = Tail(st.rest[c])]]

\* _replace_domain_with_next_mirror(url, mirrors): new_url and the iterators.
NextMirror(h, r) ==
    TryClass(TryClass([stop |-> FALSE, h |-> h, new |-> NoHost, rest |-> r],
                      Classes[1]), Classes[2])

VARIABLES
    host,      \* the host of the URL being tried
    failures,  \* failed urlopen calls of the current URL
    rest,      \* rest[c]: what class c's iterator has still to give
    status,    \* "open" while looping, then the outcome of the call
    attempts,  \* urlopen calls made (history)
    subs,      \* substitutions made (history)
    origin     \* the host install() was given (history)

vars == <<host, failures, rest, status, attempts, subs, origin>>

Outcomes == {"ok", "ioerror", "badcode", "readerror"}

TypeOK ==
    /\ host \in Hosts
    /\ failures \in 0..2
    /\ rest \in [ClassSet -> Seq(Hosts)]
    /\ status \in {"open"} \cup Outcomes
    /\ attempts \in Nat
    /\ subs \in Nat
    /\ origin \in StartHosts

Init ==
    /\ host \in StartHosts
    /\ origin = host
    /\ failures = 0
    /\ rest = [c \in ClassSet |-> Mirrors(c)]
    /\ status = "open"
    /\ attempts = 0
    /\ subs = 0

(* Lines 357-358: urlopen returns; lines 380-392: a non-2xx code of a     *)
(* non-file URL raises ValueError, else the response is read to the end,  *)
(* and a read may raise.                                                   *)
OpenSucceeds ==
    /\ status = "open"
    /\ status' \in {"ok", "readerror"} \cup (IF FileScheme THEN {} ELSE {"badcode"})
    /\ attempts' = attempts + 1
    /\ UNCHANGED <<host, failures, rest, subs, origin>>

\* Mutant: a fourth try of the same URL (failures <= 2).
RetryOffByOne ==
    /\ status = "open" /\ failures <= 2
    /\ failures' = failures + 1
    /\ attempts' = attempts + 1
    /\ UNCHANGED <<host, rest, status, subs, origin>>

(* Lines 359-365: urlopen raises IOError and the URL has been tried fewer *)
(* than three times: try it again.                                         *)
Retry ==
    /\ status = "open" /\ failures < 2
    /\ failures' = failures + 1
    /\ attempts' = attempts + 1
    /\ UNCHANGED <<host, rest, status, subs, origin>>

\* Mutant: the failure count is not reset for the mirror.
SubstituteNoReset ==
    LET r == NextMirror(host, rest) IN
    /\ status = "open" /\ failures = 2 /\ r.new # NoHost
    /\ host' = r.new
    /\ rest' = r.rest
    /\ attempts' = attempts + 1
    /\ subs' = subs + 1
    /\ UNCHANGED <<status, failures, origin>>

(* Lines 367-370: the third IOError of a URL; a mirror replaces the host  *)
(* and the failure count restarts.                                         *)
Substitute ==
    LET r == NextMirror(host, rest) IN
    /\ status = "open" /\ failures = 2 /\ r.new # NoHost
    /\ host' = r.new
    /\ rest' = r.rest
    /\ failures' = 0
    /\ attempts' = attempts + 1
    /\ subs' = subs + 1
    /\ UNCHANGED <<status, origin>>

\* Mutant: raise on the third IOError whether or not a mirror is left.
GiveUpEarly ==
    LET r == NextMirror(host, rest) IN
    /\ status = "open" /\ failures = 2
    /\ rest' = r.rest
    /\ status' = "ioerror"
    /\ attempts' = attempts + 1
    /\ UNCHANGED <<host, failures, subs, origin>>

\* Mutant: the raise is missing; urlopen(None) then fails with a TypeError.
GiveUpFallThrough ==
    LET r == NextMirror(host, rest) IN
    /\ status = "open" /\ failures = 2 /\ r.new = NoHost
    /\ rest' = r.rest
    /\ status' = "typeerror"
    /\ attempts' = attempts + 1
    /\ UNCHANGED <<host, failures, subs, origin>>

(* Lines 367-379: the third IOError and no mirror: raise IOError.         *)
GiveUp ==
    LET r == NextMirror(host, rest) IN
    /\ status = "open" /\ failures = 2 /\ r.new = NoHost
    /\ rest' = r.rest
    /\ status' = "ioerror"
    /\ attempts' = attempts + 1
    /\ UNCHANGED <<host, failures, subs, origin>>

\* The call has returned.
Returned == status # "open" /\ UNCHANGED vars

Loop == OpenSucceeds \/ Retry \/ Substitute \/ GiveUp

Next == Loop \/ Returned

\* The loop keeps running: each urlopen returns within its 30 s timeout.
Spec == Init /\ [][Next]_vars /\ WF_vars(Loop)

-----------------------------------------------------------------------------
(* Properties.                                                             *)

(* Retry accounting (spec 4.3): every URL tried, the original and each    *)
(* mirror, gets exactly three urlopen calls before the next one is used,  *)
(* and the last URL one more if it opened.                                 *)
AttemptsAccounted ==
    attempts = 3 * subs + failures + (IF status = "open" THEN 0 ELSE 1)

(* Mirror exhaustion (spec 4.2, 8): the download raises IOError only      *)
(* after every mirror of the class of the URL's original host has been    *)
(* tried.                                                                  *)
GivesUpOnlyWhenExhausted ==
    status = "ioerror" => \A c \in ClassSet : origin \in Match[c] => rest[c] = <<>>

\* What the loop promises: DownloadResult with the outcome it returns.
Result == IF status = "open" THEN "pending" ELSE status
Abstract == INSTANCE DownloadResult WITH result <- Result

(* Refinement and termination (spec 4.3): the loop ends, once, with an    *)
(* outcome, whatever mix of failures urlopen returns.                      *)
Refines == Abstract!Spec
=============================================================================
