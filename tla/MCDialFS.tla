------------------------------ MODULE MCDialFS ------------------------------
(***************************************************************************)
(* Instance of DialFS for TLC.                                             *)
(***************************************************************************)
EXTENDS DialFS

CONSTANTS a, b, c

MCArchivos == {a, b, c}
MCTamanos == {0, 3, 5}
=============================================================================
