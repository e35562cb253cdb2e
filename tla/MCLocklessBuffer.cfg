\* Two cells, so that a torn or a short copy shows; four Writes, so that
\* each buffer is written, read and written again.
CONSTANTS
  Cells = 2
  MaxWrites = 4
SPECIFICATION BufferSpec
INVARIANTS
  WriteAlwaysPublishes
PROPERTIES
  HeldIsStable
  UndisturbedReadIsFresh
