---------------------------- MODULE MCFrameStream ----------------------------
(***************************************************************************)
(* FrameStream with every kind of record.                                  *)
(***************************************************************************)
EXTENDS FrameStream

MCKinds == {"good", "bad", "foreign"}
=============================================================================
