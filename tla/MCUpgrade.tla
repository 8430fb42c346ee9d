----------------------------- MODULE MCUpgrade ------------------------------
(* Two releases, every combination of pins to begin with, three faults. *)
EXTENDS Upgrade
=============================================================================
