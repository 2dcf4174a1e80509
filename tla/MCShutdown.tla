----------------------------- MODULE MCShutdown -----------------------------
(* Shutdown for TLC. *)
EXTENDS Shutdown

CONSTANTS e1, e2, e3

MCEvents == {e1, e2, e3}
=============================================================================
