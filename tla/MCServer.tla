------------------------------ MODULE MCServer ------------------------------
(* Four requests on two connections. *)
EXTENDS Server
=============================================================================
