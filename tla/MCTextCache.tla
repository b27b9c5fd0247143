----------------------------- MODULE MCTextCache -----------------------------
(***************************************************************************)
(* The instance of TextCache for TLC.                                      *)
(***************************************************************************)
EXTENDS TextCache

CONSTANTS t1, t2, t3, h1, h2

ThreeTexts  == {t1, t2, t3}
TwoHandlers == {h1, h2}
=============================================================================
