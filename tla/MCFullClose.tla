---------------------------- MODULE MCFullClose ----------------------------
(* Instances of FullClose for TLC. *)
EXTENDS FullClose
=============================================================================
