--------------------------- MODULE MCServiceLease ---------------------------
(* Two callers of Close, two readiness attempts, every selection. *)
EXTENDS ServiceLease
=============================================================================
