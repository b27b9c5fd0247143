----------------------------- MODULE MCSyncWait -----------------------------
(***************************************************************************)
(* The instance of SyncWait for TLC.                                       *)
(***************************************************************************)
EXTENDS SyncWait

CONSTANTS s1, s2, j1, j2, x

TwoSlots == {s1, s2}
TwoJobs  == {j1, j2}
OneText  == {x}
=============================================================================
