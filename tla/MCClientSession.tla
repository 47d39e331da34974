-------------------------- MODULE MCClientSession --------------------------
(* A small instance of ClientSession.                                       *)
EXTENDS ClientSession

Names == {"admin", "newuser"}
Passwords == {"secret", "changeme"}
=============================================================================
