\* Two arenas over blocks of four bytes; option strings of up to eleven characters;
\* tables of up to three strings, prefixes of one another among them.
CONSTANTS
  Arenas = {a1, a2}
  Sizes = {1, 2, 4, 5}
  BlockSize = 4
  GrowSize = 2
  Alignment = 2
  MaxChunks = 4
  Strings <- MCStrings
  RequestStrings <- MCRequestStrings
  Requests <- MCRequests
  MaxTable = 3
  NULL = NULL
SPECIFICATION Spec
CHECK_DEADLOCK FALSE
INVARIANTS MemoryApart ParsesGrammar FindsHandler
