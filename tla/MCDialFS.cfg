SPECIFICATION Spec
CONSTANTS
    a = a
    b = b
    c = c
    Archivos <- MCArchivos
    Tamanos <- MCTamanos
    BlockCount = 4
    BlockSize = 2
    MaxCortes = 2
    SigueTrasRoto = FALSE
INVARIANTS
    TypeOK
    BloquesDisjuntos
    BitmapExacto
    ContenidoIntacto
    LecturaDelPrimero
PROPERTIES
    TodaOperacionTermina
    OperacionesAtomicas
CHECK_DEADLOCK FALSE
