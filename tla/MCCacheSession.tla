--------------------------- MODULE MCCacheSession ---------------------------
(* Two invocations, which may share a session or be nested. *)
EXTENDS CacheSession, TLC

Symmetry == Permutations(Invocations)
=============================================================================
