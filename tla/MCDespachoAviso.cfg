SPECIFICATION Spec
CONSTANTS
    NProcesos = 1
    Algoritmos = {"FIFO"}
    Grado = 2
    Quantum = 1
    Nulo = Nulo
    MaxDetener = 0
    AvisoATiempo = FALSE
    AltaATiempo = TRUE
    Programas <- MCProgramasAviso
    Nombres <- MCNombres
    Inicial <- MCSinInstancias
CHECK_DEADLOCK FALSE
INVARIANT SoloElDespachado
