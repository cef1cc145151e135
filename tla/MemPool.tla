------------------------------ MODULE MemPool ------------------------------
(***************************************************************************)
(* MemPool (src/Modules/UIPEthernet/utility/MemPool.cpp): the allocator    *)
(* that hands out the part of the ENC28J60's buffer memory that is not the *)
(* receive ring.  A block is a descriptor: where it begins, how long it    *)
(* is, and which descriptor follows it; descriptor 0 is the anchor of that *)
(* list and, as a handle, means "no block".  A descriptor of size 0 is     *)
(* free.  The operators below take the descriptors as an argument and      *)
(* return the new ones: Enc28j60.tla keeps them in a variable, next to the *)
(* chip's memory they describe.                                            *)
(***************************************************************************)
EXTENDS Integers, Sequences, FiniteSetsExt, SequencesExt

CONSTANTS
    RXEND_INIT,             \* last address of the receive ring (0x7FF)
    TXEND_INIT,             \* last address of the chip's memory (0x1FFF)
    MEMPOOL_NUM_MEMBLOCKS   \* descriptors, the anchor not counted (52)

\* The receive ring ends at an odd address, as enc28j60.h asks for, and the
\* rest of the memory holds at least one byte of pool.
ASSUME MemoryAssumption ==
    /\ RXEND_INIT \in Nat /\ TXEND_INIT \in Nat
    /\ RXEND_INIT % 2 = 1 /\ RXEND_INIT + 2 <= TXEND_INIT
    /\ MEMPOOL_NUM_MEMBLOCKS \in Nat \ {0}

RXSTART_INIT == 0
NOBLOCK == 0
POOLSTART == 0
Handles == 1 .. MEMPOOL_NUM_MEMBLOCKS

\* TXSTART_INIT is the unparenthesised text RXEND_INIT + 1, so the macro
\* TXEND_INIT - TXSTART_INIT adds the 1 it should take away.
MEMPOOL_STARTADDRESS == RXEND_INIT + 1 + 1
MEMPOOL_SIZE == TXEND_INIT - RXEND_INIT + 1
PoolEnd == MEMPOOL_STARTADDRESS + MEMPOOL_SIZE

Free == [begin |-> 0, size |-> 0, nextblock |-> NOBLOCK]
NoBlocks ==
    [h \in {POOLSTART} \cup Handles |->
        IF h = POOLSTART THEN [Free EXCEPT !.begin = MEMPOOL_STARTADDRESS] ELSE Free]

\* The descriptors in the order of the list, the anchor first.
Followed(blocks, list) ==
    IF blocks[Last(list)].nextblock = NOBLOCK THEN list
    ELSE Append(list, blocks[Last(list)].nextblock)
Chain(blocks) ==
    LET walk[n \in 0 .. MEMPOOL_NUM_MEMBLOCKS] ==
            IF n = 0 THEN <<POOLSTART>> ELSE Followed(blocks, walk[n - 1])
    IN  walk[MEMPOOL_NUM_MEMBLOCKS]

End(b) == b.begin + b.size

\* The unused bytes between a block and the one that follows it.
FreeSize(blocks, h) ==
    (IF blocks[h].nextblock = NOBLOCK THEN PoolEnd
     ELSE blocks[blocks[h].nextblock].begin) - End(blocks[h])

\* The first loop of allocBlock: the first gap of exactly this size, else the
\* first of the smallest gaps that are larger; {} when every gap is smaller.
FirstOf(chain, fits) == IF fits = {} THEN {} ELSE {chain[Min(fits)]}
Smallest(gaps, larger) == {i \in larger : \A j \in larger : gaps[i] <= gaps[j]}
FitOf(chain, gaps, size) ==
    IF \E i \in DOMAIN gaps : gaps[i] = size
    THEN FirstOf(chain, {i \in DOMAIN gaps : gaps[i] = size})
    ELSE FirstOf(chain, Smallest(gaps, {i \in DOMAIN gaps : gaps[i] > size}))
BestFit(blocks, chain, size) ==
    FitOf(chain, [i \in DOMAIN chain |-> FreeSize(blocks, chain[i])], size)

\* Mutant of Collected: the gaps stay.
NotCollected(blocks) == blocks

\* The collection: every block is moved down to the end of the one before it.
Lengths(blocks, chain) ==
    LET before[i \in 1 .. Len(chain) + 1] ==
            IF i = 1 THEN 0 ELSE before[i - 1] + blocks[chain[i - 1]].size
    IN  before
Place(chain, h) == CHOOSE i \in DOMAIN chain : chain[i] = h
Packed(blocks, chain) ==
    [h \in DOMAIN blocks |->
        IF h \notin Range(chain) THEN blocks[h]
        ELSE [blocks[h] EXCEPT !.begin =
                MEMPOOL_STARTADDRESS + Lengths(blocks, chain)[Place(chain, h)]]]
Collected(blocks) == Packed(blocks, Chain(blocks))

\* What the collection leaves in memory: each block's bytes at its new place,
\* and elsewhere what was there.  A block only moves down and the list is in
\* address order, so no move overwrites a block that is still to be moved.
Owners(blocks, a) == {h \in Handles : blocks[h].begin <= a /\ a < End(blocks[h])}
Moved(mem, from, to) ==
    [a \in DOMAIN mem |->
        IF Owners(to, a) = {} THEN mem[a]
        ELSE LET h == CHOOSE h \in Owners(to, a) : TRUE
             IN  mem[from[h].begin + a - to[h].begin]]

\* The end of allocBlock: the first free descriptor becomes the block behind
\* the one that the search found.
Unused(blocks) == {h \in Handles : blocks[h].size = 0}
Linked(blocks, mem, size, best, cur) ==
    [blocks |-> [blocks EXCEPT ![cur] = [begin |-> End(blocks[best]), size |-> size,
                                         nextblock |-> blocks[best].nextblock],
                               ![best].nextblock = cur],
     mem |-> mem, handle |-> cur]
Placed(blocks, mem, size, found) ==
    IF found = {} \/ Unused(blocks) = {}
    THEN [blocks |-> blocks, mem |-> mem, handle |-> NOBLOCK]
    ELSE Linked(blocks, mem, size, CHOOSE b \in found : TRUE, Min(Unused(blocks)))

\* After the collection the only gap is behind the last block.  The blocks
\* stay where they were moved, also when that gap is too small.
TailFit(blocks, tail, size) == IF FreeSize(blocks, tail) >= size THEN {tail} ELSE {}
InTail(from, packed, mem, size) ==
    Placed(packed, Moved(mem, from, packed), size,
           TailFit(packed, Last(Chain(packed)), size))

\* allocBlock: the new descriptors, the memory after a collection, the handle.
Allocated(blocks, mem, size, found) ==
    IF found # {} THEN Placed(blocks, mem, size, found)
    ELSE InTail(blocks, Collected(blocks), mem, size)
allocBlock(blocks, mem, size) ==
    Allocated(blocks, mem, size, BestFit(blocks, Chain(blocks), size))

\* freeBlock: the descriptor before it is found by walking the list.  The
\* address of a free descriptor is never read, and not kept here.
Before(blocks, handle) == {b \in Range(Chain(blocks)) : blocks[b].nextblock = handle}
Unlinked(blocks, handle, before) ==
    IF handle = NOBLOCK \/ before = {} THEN blocks
    ELSE [blocks EXCEPT ![CHOOSE b \in before : TRUE].nextblock = blocks[handle].nextblock,
                        ![handle] = Free]
freeBlock(blocks, handle) == Unlinked(blocks, handle, Before(blocks, handle))

\* Mutant of resizeBlock: the size is not taken back.
MovedOnly(blocks, handle, position) ==
    [blocks EXCEPT ![handle].begin = blocks[handle].begin + position]

\* resizeBlock(handle, position): the first bytes have been read.
resizeBlock(blocks, handle, position) ==
    [blocks EXCEPT ![handle] = [blocks[handle] EXCEPT
        !.begin = blocks[handle].begin + position,
        !.size = blocks[handle].size - position]]

\* resizeBlock(handle, 0, size): the block is cut to what was written.
cutBlock(blocks, handle, size) == [blocks EXCEPT ![handle].size = size]

blockSize(blocks, handle) == blocks[handle].size
=============================================================================
