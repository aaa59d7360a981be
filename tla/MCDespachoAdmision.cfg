SPECIFICATION Spec
CONSTANTS
    NProcesos = 3
    Algoritmos = {"FIFO"}
    Grado = 2
    Quantum = 1
    Nulo = Nulo
    MaxDetener = 1
    AvisoATiempo = TRUE
    AltaATiempo = TRUE
    Programas <- MCProgramasAdmision
    Nombres <- MCNombres
    Inicial <- MCInicial
INVARIANTS
    CuentaReady
    GradoRespetado
