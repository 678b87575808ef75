---------------------------- MODULE MCCodaliJob ----------------------------
(* Instances of CodaliJob for TLC. *)
EXTENDS CodaliJob

MCAsks == {Unset, 0}
=============================================================================
