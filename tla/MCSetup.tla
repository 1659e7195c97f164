-------------------------------- MODULE MCSetup --------------------------------
(* A small instance of Setup. *)
EXTENDS Setup
=============================================================================
