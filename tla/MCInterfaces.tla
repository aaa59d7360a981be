---------------------------- MODULE MCInterfaces ----------------------------
(***************************************************************************)
(* Instance of Interfaces for TLC: a generic interface and a DialFS.       *)
(***************************************************************************)
EXTENDS Interfaces

CONSTANTS p1, p2, p3, gen, fs

MCProcesos == {p1, p2, p3}
MCInterfaces == {gen, fs}
MCTipo == [i \in MCInterfaces |-> IF i = gen THEN "GENERICA" ELSE "DIALFS"]
Pide(forma, tipo, i) == [forma |-> forma, tipo |-> tipo, i |-> i]
Dormir == Pide("io", "GENERICA", gen)
Rechazo == Pide("io", "GENERICA", fs)
Leer == Pide("fs", "DIALFS", fs)
Truncar == Pide("truncar", "DIALFS", fs)
MCOrdenes == [p \in MCProcesos |-> IF p = p2 THEN {Leer, Truncar, Dormir, Rechazo} ELSE {Leer}]
MCVictimas == {p2}
MCGrados == {1, 3}
=============================================================================
