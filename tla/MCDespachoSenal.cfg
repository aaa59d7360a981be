SPECIFICATION Spec
CONSTANTS
    NProcesos = 2
    Algoritmos = {"FIFO"}
    Grado = 2
    Quantum = 1
    Nulo = Nulo
    MaxDetener = 0
    AvisoATiempo = TRUE
    AltaATiempo = TRUE
    Programas <- MCProgramasSenal
    Nombres <- MCNombres
    Inicial <- MCInicial
CHECK_DEADLOCK FALSE
INVARIANT ConfirmacionPropia
