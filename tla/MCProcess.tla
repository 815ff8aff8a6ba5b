------------------------------ MODULE MCProcess ------------------------------
(* A small instance of PodiumProcess for TLC.                              *)
EXTENDS PodiumProcess

CONSTANTS c1, c2

=============================================================================
