----------------------------- MODULE MCRegistry -----------------------------
(* Small instances of Registry for the model checker.                      *)
EXTENDS RegistryRefinement, TLC

(* The members of these sets are interchangeable.                          *)
Interchangeable ==
    Permutations(Handlers) \cup Permutations(Peers) \cup Permutations(Usernames)
    \cup Permutations(Rooms) \cup Permutations(Sources)
=============================================================================
