----------------------------- MODULE MCInbound ------------------------------
(* A small instance of Inbound for the model checker: a busy clock of a    *)
(* few units and limits of two and three messages.                         *)
EXTENDS Inbound

CONSTANTS alice, bob
=============================================================================
