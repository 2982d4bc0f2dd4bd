\* Memories on, off and far from an alignment boundary, lengths around one
\* chunk and several, sizes around the two changes of alignment.
CONSTANTS
  Starts = {4096, 1, 8, 40, 4064}
  Lengths = {0, 32, 33, 40, 96, 97, 200, 2080, 4200, 8300, 12500}
  Sizes = {1, 8, 64, 65, 2047, 2048, 3000}
SPECIFICATION Spec
CHECK_DEADLOCK FALSE
INVARIANT EveryChunkFreeable
