--------------------------- MODULE MCVertexClient ---------------------------
(* VertexClient for TLC. *)
EXTENDS VertexClient

CONSTANTS c1, c2, c3

MCCallers == {c1, c2, c3}
=============================================================================
