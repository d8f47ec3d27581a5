---------------------------- MODULE MCConnector ----------------------------
(* Connector as TLC checks it; every constant is given in the cfg. *)
EXTENDS Connector
=============================================================================
