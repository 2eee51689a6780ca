------------------------------- MODULE MCBatch -------------------------------
(***************************************************************************)
(* Batch on a small instance.                                              *)
(***************************************************************************)
EXTENDS Batch

MCWorths == {-1, 1}
=============================================================================
