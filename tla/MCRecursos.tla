----------------------------- MODULE MCRecursos -----------------------------
(* Three processes, a disciplined resource and a loose one, one instance   *)
(* each, one interface thread.                                             *)
EXTENDS Recursos, TLC

CONSTANTS p1, p2, p3

MCProcesos == {p1, p2, p3}
MCNombres == {"RA", "RB"}
MCInicial == [r \in MCNombres |-> 1]
MCHilosIO == {"io"}
MCSueltos == {"RB"}

Simetria == Permutations(MCProcesos)
=============================================================================
