------------------------- MODULE MCProfileLifecycle -------------------------
(* Small instances of ProfileLifecycle.                                    *)
EXTENDS ProfileLifecycle, TLC

Interchangeable == Permutations(Devices) \cup Permutations(Peers) \cup Permutations(Bootstraps)
=============================================================================
