SPECIFICATION Spec
CONSTANTS
    p1 = p1
    p2 = p2
    p3 = p3
    gen = gen
    fs = fs
    Nulo = Nulo
    Basura = Basura
    Procesos <- MCProcesos
    Interfaces <- MCInterfaces
    Tipo <- MCTipo
    Ordenes <- MCOrdenes
    Grado = 2
    MaxOrdenes = 1
    Victimas <- MCVictimas
    Grados <- MCGrados
    MaxIncidentes = 1
INVARIANTS
    TypeOK
    UnaPorVez
    NadieEsperaLibre
    EntradaPresente
    UnSoloLugar
    PlazasExactas
PROPERTIES
    NadieEsperaSiempre
    AtiendeEnOrden
CHECK_DEADLOCK FALSE
