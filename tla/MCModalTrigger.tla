--------------------------- MODULE MCModalTrigger ---------------------------
(***************************************************************************)
(* Instances of ModalTrigger for TLC.                                      *)
(***************************************************************************)
EXTENDS ModalTrigger, TLC

CONSTANTS i1, i2, i3, s1, s2

ThreeImages == {i1, i2, i3}
TwoSlots    == {s1, s2}
=============================================================================
