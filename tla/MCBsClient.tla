----------------------------- MODULE MCBsClient -----------------------------
(* Instances of BsClient for TLC. *)
EXTENDS BsClient
=============================================================================
