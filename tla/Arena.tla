-------------------------------- MODULE Arena --------------------------------
(***************************************************************************)
(* The memory of messages: arenas (lib/mempool.c), each a chain of chunks, *)
(* over block allocators (lib/blockalloc.c), each a stack of free blocks   *)
(* that grows when it is empty.  Two allocators are used, one for the      *)
(* chunks and one for their descriptors; threads share both, and each      *)
(* takes and returns blocks under the allocator's lock.  An arena is used  *)
(* by one thread at a time, so each of its operations is one action, but   *)
(* for its freeing, which returns one chunk after the other.               *)
(***************************************************************************)
EXTENDS Naturals, Sequences, SequencesExt, FiniteSets

CONSTANTS Arenas,       \* the arenas that may exist at once
          Sizes,        \* the numbers of bytes asked for
          BlockSize,    \* block_size of the allocator of chunks
          GrowSize,     \* grow_size of both allocators
          Alignment,    \* ALLOC_ALIGNMENT
          MaxChunks     \* bound: chunks in use

VARIABLES chain,     \* the chunks of each arena, its first first; << >> if it is free
          blocks,    \* the free blocks of each allocator; the last is the next taken
          made,      \* num_blocks of each allocator
          reserved,  \* the spaces reserved in each arena: chunk, first byte, size
          freeing    \* the arenas of which some chunks have been freed

vars == <<chain, blocks, made, reserved, freeing>>

Allocator == {"chunk", "descriptor"}
External  == 0   \* the base of a chunk from malloc

Init == /\ chain    = [a \in Arenas |-> << >>]
        /\ blocks   = [p \in Allocator |-> << >>]
        /\ made     = [p \in Allocator |-> 0]
        /\ reserved = [a \in Arenas |-> << >>]
        /\ freeing  = {}

\* SVR_BlockAlloc_alloc of an allocator with no free block: the blocks of a new chunk
\* of memory replace the pointers in its array.
Filled(p) == IF blocks[p] = << >> THEN [i \in 1 .. GrowSize |-> made[p] + i] ELSE blocks[p]

\* The allocators after a block of each in ps was taken.
TakeBlocks(ps) ==
  /\ blocks' = [p \in Allocator |-> IF p \in ps THEN Front(Filled(p)) ELSE blocks[p]]
  /\ made'   = [p \in Allocator |-> IF p \in ps /\ blocks[p] = << >>
                                      THEN made[p] + GrowSize ELSE made[p]]

\* SVR_Arena_alloc and SVR_Arena_allocExternal: a chunk, used up to its write_index.
NewChunk(external, size, used) ==
  [base        |-> IF external THEN External ELSE Last(Filled("chunk")),
   descriptor  |-> Last(Filled("descriptor")),
   size        |-> IF external THEN size ELSE BlockSize,
   write_index |-> used]

Bounded == made["descriptor"] - Len(blocks["descriptor"]) < MaxChunks

\* SVR_Arena_alloc
Alloc(a) == /\ chain[a] = << >> /\ Bounded
            /\ chain' = [chain EXCEPT ![a] = <<NewChunk(FALSE, 0, 0)>>]
            /\ TakeBlocks(Allocator)
            /\ UNCHANGED <<reserved, freeing>>

\* Round up to the nearest boundary.
Aligned(size) == IF size % Alignment > 0 THEN size + (Alignment - (size % Alignment)) ELSE size

\* Mutant: the size is not counted.
HasRoomNow(chunk, size) == chunk.write_index < BlockSize

HasRoom(chunk, size) == chunk.write_index + size < BlockSize

\* The chunks with enough free space, of those that are not the last.
Roomy(a, size) == {i \in 1 .. Len(chain[a]) - 1 : HasRoom(chain[a][i], size)}

\* SVR_Arena_reserve in the first such chunk of the chain ...
ReserveFound(a, n) ==
  LET size == Aligned(n)
  IN  /\ chain[a] # << >> /\ a \notin freeing
      /\ \E i \in Roomy(a, size) :
           /\ \A j \in Roomy(a, size) : i <= j
           /\ chain' = [chain EXCEPT ![a][i].write_index = @ + size]
           /\ reserved' = [reserved EXCEPT ![a] =
                Append(@, [chunk |-> i, first |-> chain[a][i].write_index, size |-> n])]
      /\ UNCHANGED <<blocks, made, freeing>>

\* ... or in a new one: a block, or memory of its own if a block is too small.
ReserveNew(a, n) ==
  LET size     == Aligned(n)
      external == size > BlockSize
  IN  /\ chain[a] # << >> /\ a \notin freeing /\ Roomy(a, size) = {}
      /\ Bounded
      /\ chain' = [chain EXCEPT ![a] = Append(@, NewChunk(external, size, size))]
      /\ TakeBlocks(IF external THEN {"descriptor"} ELSE Allocator)
      /\ reserved' = [reserved EXCEPT ![a] =
                        Append(@, [chunk |-> Len(chain[a]) + 1, first |-> 0, size |-> n])]
      /\ UNCHANGED freeing

\* SVR_Arena_free frees the rest of the chain first: the last chunk goes, and when none
\* is left the arena is free.
Free(a) ==
  /\ chain[a] # << >>
  /\ LET chunk == Last(chain[a])
     IN  blocks' = [blocks EXCEPT
                      !["chunk"]      = IF chunk.base = External THEN @ ELSE Append(@, chunk.base),
                      !["descriptor"] = Append(@, chunk.descriptor)]
  /\ chain' = [chain EXCEPT ![a] = Front(@)]
  /\ reserved' = [reserved EXCEPT ![a] = << >>]
  /\ freeing' = IF Len(chain[a]) = 1 THEN freeing \ {a} ELSE freeing \cup {a}
  /\ UNCHANGED made

Next == \E a \in Arenas : \/ Alloc(a) \/ Free(a)
                          \/ \E n \in Sizes : ReserveFound(a, n) \/ ReserveNew(a, n)

-----------------------------------------------------------------------------
(* Properties. *)

\* The places a block can be in: one per entry.
BlockUses(p, b) ==
  {<<"free", i>> : i \in {i \in DOMAIN blocks[p] : blocks[p][i] = b}}
  \cup UNION {{<<a, i>> : i \in {i \in DOMAIN chain[a] :
                 b = IF p = "chunk" THEN chain[a][i].base ELSE chain[a][i].descriptor}} : a \in Arenas}

\* Every block is free or in one chunk of one arena: none is lost or handed out
\* twice, and the array of free blocks never outgrows num_blocks.
BlocksOnce == \A p \in Allocator : /\ \A b \in 1 .. made[p] : Cardinality(BlockUses(p, b)) = 1
                                   /\ Len(blocks[p]) <= made[p]

Bytes(r) == r.first .. r.first + r.size - 1

\* What is reserved in an arena lies within its chunk, on a boundary, and apart from
\* everything else that is reserved there.
ReservationsApart ==
  \A a \in Arenas : \A i \in DOMAIN reserved[a] :
    LET r == reserved[a][i]
    IN  /\ r.first + r.size <= chain[a][r.chunk].size
        /\ r.first % Alignment = 0
        /\ \A j \in 1 .. i - 1 : reserved[a][j].chunk = r.chunk
                                   => Bytes(reserved[a][j]) \cap Bytes(r) = {}

\* Memory of messages is never shared between two of them, or between two parts of one.
MemoryApart == BlocksOnce /\ ReservationsApart
=============================================================================
