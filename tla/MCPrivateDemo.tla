----------------------------- MODULE MCPrivateDemo -----------------------------
(***************************************************************************)
(* Two runs that may choose the same second, over a raw log that may grow  *)
(* once; the scan finds nothing, or something in two of the files.         *)
(***************************************************************************)
EXTENDS PrivateDemoProperties

CONSTANTS r1, r2, noRun, s1, s2, noSecond

MCRuns == {r1, r2}
MCSeconds == {s1, s2}
MCFindings == {{}, {"report", "manifest"}}
=============================================================================
