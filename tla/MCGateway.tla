----------------------------- MODULE MCGateway -----------------------------
(* Gateway for TLC. *)
EXTENDS Gateway

CONSTANTS r1, r2

MCRequests == {r1, r2}
=============================================================================
