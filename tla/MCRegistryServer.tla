-------------------------- MODULE MCRegistryServer --------------------------
(* A small instance of RegistryServer for the model checker.               *)
EXTENDS RegistryServer, TLC

Interchangeable == Permutations(Handlers) \cup Permutations(Peers) \cup Permutations(Usernames)
=============================================================================
