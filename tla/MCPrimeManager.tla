--------------------------- MODULE MCPrimeManager ---------------------------
(* Model values for PrimeManager. *)
EXTENDS PrimeManager
=============================================================================
