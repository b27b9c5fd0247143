---------------------------- MODULE MCWorkerRun ----------------------------
(***************************************************************************)
(* Instances of WorkerRun for TLC.                                         *)
(***************************************************************************)
EXTENDS WorkerRun, TLC

CONSTANTS t1, i1, i2, i3, r1, m1, g1

OneText   == {t1}
NoJobs    == {}
OneImage  == {i1}
TwoImages == {i1, i2}
ThreeImages == {i1, i2, i3}
OneResident == {r1}
OneModal    == {m1}
NoWorkers   == {}
OneHung     == {g1}

\* The resident worker embeds one job at a time, Modal several.
Batches == [w \in Workers |-> IF w \in Resident THEN 1 ELSE 2]

ImageSymmetry == Permutations(ThreeImages)
=============================================================================
