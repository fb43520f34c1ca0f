----------------------------- MODULE MCRelease ------------------------------
(***************************************************************************)
(* Small instances of ReleasePipeline for TLC.                             *)
(***************************************************************************)
EXTENDS ReleasePipeline, TLC

CONSTANTS v1, v2

MCVersions == {v1, v2}
MCSymmetry == Permutations(MCVersions)
=============================================================================
