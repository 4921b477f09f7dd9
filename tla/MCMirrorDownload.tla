-------------------------- MODULE MCMirrorDownload --------------------------
(* Small instances of MirrorDownload: a sourceforge URL with three mirrors (one of them also a start host),  *)
(* a pypi URL with one, and a host neither regex matches.                  *)
EXTENDS MirrorDownload

CONSTANTS sf0, sfm1, sfm2, sfm3, py0, pym1, other, plain

MCMatch == [c \in ClassSet |-> IF c = "sf" THEN {sf0, sfm1, sfm2, sfm3} ELSE {py0, pym1}]

\* SOURCEFORGE_MIRRORS=sfm1:sfm2:sfm3, PYPI_MIRRORS=pym1
MCEnv == [c \in ClassSet |-> IF c = "sf" THEN <<sfm1, sfm2, sfm3>> ELSE <<pym1>>]

\* PYPI_MIRRORS=plain:pym1, whose first mirror has no "pypi" in its name
MCEnvPlain == [c \in ClassSet |-> IF c = "sf" THEN <<sfm1, sfm2, sfm3>> ELSE <<plain, pym1>>]
=============================================================================
