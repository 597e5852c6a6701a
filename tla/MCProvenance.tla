----------------------------- MODULE MCProvenance -----------------------------
(* Instances of Provenance for TLC.                                         *)
EXTENDS Provenance

MCTexts == {1, 5, 9}
=============================================================================
