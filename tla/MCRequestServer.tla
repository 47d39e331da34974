-------------------------- MODULE MCRequestServer --------------------------
(* A small instance of RequestServer: its constants are given in the cfgs.  *)
EXTENDS RequestServer
=============================================================================
