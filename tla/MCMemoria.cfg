\* Two programs that resize, read, write and use the interfaces; the whole
\* system stops when every process has ended.
SPECIFICATION Spec
CHECK_DEADLOCK FALSE
CONSTANTS
  p1 = p1
  p2 = p2
  p3 = p3
  Pids <- DosPids
  NumMarcos = 4
  AnchoByte = 3
  Valores <- DosValores
  EntradasTLB = 2
  AlgoritmoTLB = "LRU"
  MaxPaginas = 2
  MaxLargo = 2
  SigueTrasAchicar = FALSE
  Exclusivo = TRUE
  EntradaATiempo = TRUE
INVARIANTS TypeOK MarcosExclusivos PerdidasExactas TLBFiel
PROPERTY EspacioPropio
SYMMETRY Simetria
