----------------------------- MODULE MCBackends -----------------------------
(* The backends with the values of Backends.cfg.                            *)
EXTENDS Backends
=============================================================================
