----------------------------- MODULE MCDespacho -----------------------------
EXTENDS Despacho

MCNombres == {"RA"}
MCInicial == [r \in MCNombres |-> 1]
MCSinInstancias == [r \in MCNombres |-> 0]

Calcula == <<<<"CPU">>, <<"CPU">>>>
Imprime == <<<<"IO", "GEN">>>>
Comparte == <<<<"WAIT", "RA">>, <<"IO", "GEN">>, <<"SIGNAL", "RA">>>>
Agranda == <<<<"RESIZE">>>>
\* It may also end, holding RA, at the RESIZE or at the interface.
Completo == <<<<"WAIT", "RA">>, <<"RESIZE">>, <<"IO", "GEN">>, <<"SIGNAL", "RA">>>>
\* There is no XX.
EsperaOtro == <<<<"WAIT", "XX">>>>
SenalaOtro == <<<<"SIGNAL", "XX">>>>
\* The WAIT blocks: there is no instance until another process signals.
Espera == <<<<"WAIT", "RA">>, <<"CPU">>>>

MCProgramasFIFO == {Completo}
MCProgramasPreemptivo == {Calcula, Agranda, Comparte}
MCProgramasAdmision == {Completo, EsperaOtro}
MCProgramasSenal == {SenalaOtro, Imprime}
MCProgramasQuantum == {Calcula}
MCProgramasAviso == {Espera}
=============================================================================
