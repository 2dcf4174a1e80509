--------------------------- MODULE MCPolicyEngine ---------------------------
(* PolicyEngine for TLC. *)
EXTENDS PolicyEngine

CONSTANTS r1, r2

MCRequests == {r1, r2}
MCEveryConfiguration == SUBSET Source
MCFileOnly == {{"file"}}
=============================================================================
