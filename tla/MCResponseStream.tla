-------------------------- MODULE MCResponseStream --------------------------
(* Two processes; the client is sent to either. *)
EXTENDS ResponseStream

CONSTANTS p1, p2
=============================================================================
