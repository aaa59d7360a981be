SPECIFICATION Spec
CONSTANTS
    p1 = p1
    p2 = p2
    p3 = p3
    Nadie = Nadie
    Procesos <- MCProcesos
    Nombres <- MCNombres
    Inicial <- MCInicial
    HilosIO <- MCHilosIO
    Sueltos <- MCSueltos
    Tope = 2
SYMMETRY Simetria
CHECK_DEADLOCK FALSE
INVARIANT SinDespertarPerdido
