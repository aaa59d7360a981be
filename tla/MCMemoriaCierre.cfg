\* A process is ended while another one grows.  A byte of one bit: what is seen
\* is the loop that frees one frame several times, not two threads in a byte.
SPECIFICATION Spec
CHECK_DEADLOCK FALSE
CONSTANTS
  p1 = p1
  p2 = p2
  p3 = p3
  Pids <- DosPids
  NumMarcos = 3
  AnchoByte = 1
  Valores <- DosValores
  EntradasTLB = 2
  AlgoritmoTLB = "LRU"
  MaxPaginas = 2
  MaxLargo = 2
  SigueTrasAchicar = FALSE
  Exclusivo = FALSE
  EntradaATiempo = TRUE
INVARIANT MarcosExclusivos
SYMMETRY Simetria
