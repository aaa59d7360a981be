SPECIFICATION Spec
CONSTANTS
    NProcesos = 2
    Algoritmos = {"RR", "VRR"}
    Grado = 2
    Quantum = 1
    Nulo = Nulo
    MaxDetener = 0
    AvisoATiempo = TRUE
    AltaATiempo = FALSE
    Programas <- MCProgramasPreemptivo
    Nombres <- MCNombres
    Inicial <- MCInicial
INVARIANTS
    CaidasConocidas
    CuentaReady
    UnSoloLugar
    SoloElDespachado
    SacaConProceso
CHECK_DEADLOCK FALSE
