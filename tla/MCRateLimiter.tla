--------------------------- MODULE MCRateLimiter ---------------------------
(* RateLimiter for TLC. *)
EXTENDS RateLimiter

CONSTANTS k1, k2

MCKeys == {k1, k2}
=============================================================================
