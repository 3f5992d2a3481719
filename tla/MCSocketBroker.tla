--------------------------- MODULE MCSocketBroker ---------------------------
(* Model values for the SocketBroker runs: all bounds are in the .cfg.     *)
EXTENDS SocketBroker
=============================================================================
