-------------------------- MODULE MCAutoInstaller --------------------------
(* Small instances of AutoInstaller for TLC.  Names and sub-paths are     *)
(* sequences of path characters; URLs, files and processes model values.  *)
EXTENDS AutoInstaller

CONSTANTS u1, u2, f1, f2

\* Two flat target names: "pkg" and "p.y".
MCFlatNames == {<<"k">>, <<"k", ".", "y">>}
\* A flat name and the nested name "logilab/common" abstracted as "k/c".
MCNestedNames == {<<"k">>, <<"k", "/", "c">>}
\* Sub-paths "d/k" (a directory) and "d/x" (absent from every archive).
MCSubs == {<<"d", "/", "k">>}
MCSubsMissing == {<<"d", "/", "k">>, <<"x", "/", "k">>}
MCDirSubs == {<<"d", "/", "k">>}
MCDirSubsMissing == MCSubsMissing
MCFileOf == [u \in {u1, u2} |-> IF u = u1 THEN f1 ELSE f2]
MCGlob == [u \in {u1, u2} |-> {MCFileOf[u]}]
MCContains == [u \in {u1, u2} |-> {<<"d", "/", "k">>}]
=============================================================================
