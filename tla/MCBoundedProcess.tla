-------------------------- MODULE MCBoundedProcess --------------------------
(* Both streams, one child, one chunk within the limit. *)
EXTENDS BoundedProcess
=============================================================================
