-------------------------- MODULE MCArtifactStore --------------------------
(***************************************************************************)
(* Instances of ArtifactStore for TLC: runs r1 and r2 with contents a, b    *)
(* and c; the worker of r2 left a process behind.                          *)
(***************************************************************************)
EXTENDS ArtifactStore

CONSTANTS r1, r2, a, b, c
=============================================================================
