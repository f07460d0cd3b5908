------------------------ MODULE MCCancellableClient ------------------------
(* Instances of CancellableClient for TLC. *)
EXTENDS CancellableClient, TLC

CONSTANTS c1, c2
=============================================================================
