------------------------------ MODULE MCClients ------------------------------
(* An instance of the clients for TLC. *)
EXTENDS Clients

MCIds == 1..4
=============================================================================
