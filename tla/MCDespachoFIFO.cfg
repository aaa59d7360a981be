SPECIFICATION FairSpec
CONSTANTS
    NProcesos = 3
    Algoritmos = {"FIFO"}
    Grado = 3
    Quantum = 1
    Nulo = Nulo
    MaxDetener = 0
    AvisoATiempo = TRUE
    AltaATiempo = TRUE
    Programas <- MCProgramasFIFO
    Nombres <- MCNombres
    Inicial <- MCInicial
CHECK_DEADLOCK FALSE
INVARIANTS
    TypeOK
    SinCaida
    EnManosDeAlguien
PROPERTY CadaUnoTermina
