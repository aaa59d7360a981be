SPECIFICATION Spec
CONSTANTS
    NProcesos = 2
    Algoritmos = {"RR"}
    Grado = 2
    Quantum = 1
    Nulo = Nulo
    MaxDetener = 0
    AvisoATiempo = TRUE
    AltaATiempo = TRUE
    Programas <- MCProgramasQuantum
    Nombres <- MCNombres
    Inicial <- MCInicial
CHECK_DEADLOCK FALSE
INVARIANT EnManosDeAlguien
