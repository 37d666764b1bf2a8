-------------------------------- MODULE Heap --------------------------------
(***************************************************************************)
(* The kernel heap of kmalloc.c: a first-fit list of blocks that grows by  *)
(* frames from pmm.c, which hands out frames to page tables and programs   *)
(* too.  Addresses and sizes are in units of 16 bytes, the alignment of    *)
(* kmalloc.  blocks is the list in the order of its next pointers.  The    *)
(* headers of the blocks are taken to survive whatever the owners of the   *)
(* memory write: that is what the properties are about.                    *)
(***************************************************************************)
EXTENDS Frames, Sequences, SequencesExt

CONSTANTS
  PageUnits,     \* PAGE_SIZE, 256 units in the code
  Header,        \* HEADER_SIZE, 2 units
  InitialPages,  \* HEAP_INITIAL_PAGES, 16
  MinGrow,       \* the least number of pages that kmalloc grows by, 4
  Sizes,         \* the sizes that callers ask for
  OtherRuns      \* how many frames the other users of pmm.c ask for at once

ASSUME HeapAssumption ==
  /\ PageUnits \in Nat /\ Header \in 1 .. PageUnits - 1
  /\ InitialPages \in 1 .. TotalPages /\ MinGrow \in Nat \ {0}
  /\ Sizes \subseteq Nat \ {0} /\ OtherRuns \subseteq Nat \ {0}

VARIABLES
  used,       \* the frames that are not free
  heap,       \* those that heap_grow has got
  blocks,     \* the list: address of the header, usable size, free
  heap_end,   \* the address that heap_end holds
  live,       \* what callers hold: address of the header, size asked for
  oneRegion,  \* every growth began where the heap ended
  hung        \* kmalloc calls itself for ever

vars == <<used, heap, blocks, heap_end, live, oneRegion, hung>>

Block(at, size, free) == [at |-> at, size |-> size, free |-> free]

TypeOK ==
  /\ used \subseteq Frame /\ heap \subseteq used
  /\ blocks \in Seq([at : Nat, size : Nat, free : BOOLEAN])
  /\ heap_end \in Nat
  /\ live \subseteq [at : Nat, size : Sizes]
  /\ oneRegion \in BOOLEAN /\ hung \in BOOLEAN

\* After kmalloc_init.
Init ==
  /\ used = Run(0, InitialPages) /\ heap = used
  /\ blocks = <<Block(0, InitialPages * PageUnits - Header, TRUE)>>
  /\ heap_end = 0
  /\ live = {}
  /\ oneRegion = TRUE /\ hung = FALSE

-----------------------------------------------------------------------------
BlockEnd(b) == b.at + Header + b.size

\* Every block is made of frames of the heap, and no two overlap.
BlocksAreOwnMemory ==
  /\ \A i \in DOMAIN blocks :
       blocks[i].at \div PageUnits .. (BlockEnd(blocks[i]) - 1) \div PageUnits \subseteq heap
  /\ \A i, j \in DOMAIN blocks : blocks[i].at < blocks[j].at =>
       BlockEnd(blocks[i]) <= blocks[j].at

\* The kernel goes on.  (With a block over memory of others, what happens is
\* no longer up to this code: the model stops there.)
Goes == ~hung /\ BlocksAreOwnMemory

\* Where in the list bs the block with this header is.
IndexOf(bs, at) == CHOOSE i \in DOMAIN bs : bs[i].at = at

\* heap_grow with the frames from start on: they extend the last block when
\* it is free and they follow it, else they are a new block behind heap_end.
Grown(bs, start, pages) ==
  LET e == IndexOf(bs, heap_end) IN
  IF BlockEnd(bs[e]) = start * PageUnits /\ bs[e].free
  THEN [bs EXCEPT ![e].size = @ + pages * PageUnits]
  ELSE Append(SubSeq(bs, 1, e), Block(start * PageUnits, pages * PageUnits - Header, TRUE))

\* (Variant: blocks in use are not passed over.)
FitsAny(bs, n) == {i \in DOMAIN bs : bs[i].size >= n}

Fits(bs, n) == {i \in DOMAIN bs : bs[i].free /\ bs[i].size >= n}

\* (Variant: a rest is split off that has no room for anything.)
SplitsTight(b, n) == b.size >= n + Header - 1

\* Is enough left of block b behind n units to be a block of its own?
Splits(b, n) == b.size >= n + Header + 1

\* (Variant: heap_end is not moved to the rest of the last block.)
TakeKeepsEnd(bs, end, n) ==
  LET i == CHOOSE j \in Fits(bs, n) : \A k \in Fits(bs, n) : j <= k
      b == bs[i]
      rest == Block(b.at + Header + n, b.size - n - Header, TRUE) IN
  /\ blocks' = IF Splits(b, n)
               THEN InsertAt(ReplaceAt(bs, i, Block(b.at, n, FALSE)), i + 1, rest)
               ELSE ReplaceAt(bs, i, Block(b.at, b.size, FALSE))
  /\ heap_end' = end
  /\ live' = live \cup {[at |-> b.at, size |-> n]}

\* The first-fit search of kmalloc in the list bs, and what it changes.
Take(bs, end, n) ==
  LET i == CHOOSE j \in Fits(bs, n) : \A k \in Fits(bs, n) : j <= k
      b == bs[i]
      rest == Block(b.at + Header + n, b.size - n - Header, TRUE) IN
  /\ blocks' = IF Splits(b, n)
               THEN InsertAt(ReplaceAt(bs, i, Block(b.at, n, FALSE)), i + 1, rest)
               ELSE ReplaceAt(bs, i, Block(b.at, b.size, FALSE))
  /\ heap_end' = IF Splits(b, n) /\ b.at = end THEN rest.at ELSE end
  /\ live' = live \cup {[at |-> b.at, size |-> n]}

PagesNeeded(n) ==
  LET pages == (n + Header + PageUnits - 1) \div PageUnits IN
  IF pages < MinGrow THEN MinGrow ELSE pages

\* kmalloc of n units: without and with growth, ...
KmallocFits(n) ==
  /\ Goes /\ Fits(blocks, n) # {}
  /\ Take(blocks, heap_end, n)
  /\ UNCHANGED <<used, heap, oneRegion, hung>>

KmallocGrows(n) ==
  LET pages == PagesNeeded(n)
      start == AllocPages(used, pages)
      bs == Grown(blocks, start, pages) IN
  /\ Goes /\ Fits(blocks, n) = {} /\ start # NoFrame
  /\ used' = used \cup Run(start, pages)
  /\ heap' = heap \cup Run(start, pages)
  /\ oneRegion' = (oneRegion /\ BlockEnd(Last(blocks)) = start * PageUnits)
  /\ Take(bs, IF Len(bs) > Len(blocks) THEN Last(bs).at ELSE heap_end, n)
  /\ UNCHANGED hung

\* ... and when there are no frames: it calls itself, to find the same again.
KmallocRecurses(n) ==
  /\ Goes /\ Fits(blocks, n) = {} /\ AllocPages(used, PagesNeeded(n)) = NoFrame
  /\ hung' = TRUE
  /\ UNCHANGED <<used, heap, blocks, heap_end, live, oneRegion>>

\* The blocks i and i + 1 made one.
Merged(bs, i) ==
  RemoveAt([bs EXCEPT ![i].size = @ + Header + bs[i + 1].size], i + 1)

\* (Variant: the block before is not looked at.)
KfreeNotBefore(b) ==
  LET i  == IndexOf(blocks, b.at)
      bs == [blocks EXCEPT ![i].free = TRUE]
      behind == i < Len(bs) /\ bs[i + 1].free IN
  /\ Goes /\ b \in live
  /\ blocks' = IF behind THEN Merged(bs, i) ELSE bs
  /\ heap_end' = IF behind /\ bs[i + 1].at = heap_end THEN b.at ELSE heap_end
  /\ live' = live \ {b}
  /\ UNCHANGED <<used, heap, oneRegion, hung>>

\* kfree: the block is merged with the one behind it in the list, then with
\* the one before it, when they are free.
Kfree(b) ==
  LET i   == IndexOf(blocks, b.at)
      bs  == [blocks EXCEPT ![i].free = TRUE]
      behind == i < Len(bs) /\ bs[i + 1].free
      before == i > 1 /\ bs[i - 1].free
      bs1 == IF behind THEN Merged(bs, i) ELSE bs
      end == IF behind /\ bs[i + 1].at = heap_end THEN b.at ELSE heap_end IN
  /\ Goes /\ b \in live
  /\ blocks' = IF before THEN Merged(bs1, i - 1) ELSE bs1
  /\ heap_end' = IF before /\ end = b.at THEN bs[i - 1].at ELSE end
  /\ live' = live \ {b}
  /\ UNCHANGED <<used, heap, oneRegion, hung>>

\* The other users of pmm.c: page tables, code, stacks and heaps of programs.
OthersAlloc(count) ==
  /\ Goes /\ AllocPages(used, count) # NoFrame
  /\ used' = used \cup Run(AllocPages(used, count), count)
  /\ UNCHANGED <<heap, blocks, heap_end, live, oneRegion, hung>>

OthersFree(f) ==
  /\ Goes /\ f \in used \ heap
  /\ used' = used \ {f}
  /\ UNCHANGED <<heap, blocks, heap_end, live, oneRegion, hung>>

Next ==
  \/ \E n \in Sizes : KmallocFits(n) \/ KmallocGrows(n) \/ KmallocRecurses(n)
  \/ \E b \in live : Kfree(b)
  \/ \E count \in OtherRuns : OthersAlloc(count)
  \/ \E f \in Frame : OthersFree(f)

Spec == Init /\ [][Next]_vars

-----------------------------------------------------------------------------
(* Properties.                                                             *)

\* pmm_alloc_pages returns the first free run that is long enough, whatever
\* is in use, and fails only when there is none.
ScanIsFirstFit ==
  \A count \in 1 .. TotalPages : AllocPages(used, count) = FirstFit(used, count)

\* As long as the heap is one region, its blocks tile it without gap or
\* overlap, heap_end is the last of them, and no two free ones are neighbours:
\* what was freed can be had again in one piece.
BlocksTileHeap ==
  oneRegion =>
    /\ \A i \in 1 .. Len(blocks) - 1 : blocks[i + 1].at = BlockEnd(blocks[i])
    /\ BlockEnd(Last(blocks)) = blocks[1].at + Cardinality(heap) * PageUnits
    /\ heap_end = Last(blocks).at
    /\ \A i \in 1 .. Len(blocks) - 1 : ~(blocks[i].free /\ blocks[i + 1].free)

\* What callers hold is what the list has in use, with the room they asked
\* for: kmalloc never gives out a block twice or too small, kfree frees no
\* block but the one it is given.
LiveBlocksAreListed ==
  /\ \A b \in live : \E i \in DOMAIN blocks :
       blocks[i].at = b.at /\ ~blocks[i].free /\ blocks[i].size >= b.size
  /\ \A i \in DOMAIN blocks : ~blocks[i].free =>
       \E b \in live : b.at = blocks[i].at

\* kmalloc.h:20, "Allocate size bytes": what kmalloc has to give is memory of
\* the heap, and nobody else's.
AllocatesOwnMemory == BlocksAreOwnMemory

=============================================================================
