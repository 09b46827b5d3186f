----------------------------- MODULE MallocProps -----------------------------
(* The properties of the allocator of lab7/mm.c. *)
EXTENDS Malloc, FiniteSetsExt

\* The blocks of heap h, met on the way from heap_listp by the sizes in the headers
BlocksOf(h) ==
  LET from[bp \in Nat \ {0}] ==
        IF bp >= h.brk \/ SizeOf(h, bp) = 0 THEN {} ELSE {bp} \cup from[NEXT_BLKP(h, bp)]
  IN  from[heap_listp]

Prologue == heap_listp
Blocks == BlocksOf(heap)
Free == {bp \in Blocks : ~IsAlloc(heap, bp)}
Ready == status = "ready"

(***************************************************************************)
(* The words that mean something to the allocator are the tags and, in     *)
(* free blocks, the links; to the client, the payloads it filled.  What is *)
(* in the others is left over from earlier.                                *)
(***************************************************************************)
TagsAndLinks(h) ==
  {HDRP(h.brk)} \cup
  UNION {{HDRP(bp), FTRP(h, bp)} \cup
         (IF IsAlloc(h, bp) THEN {} ELSE {PREV_FREE(bp), NEXT_FREE(bp)}) : bp \in BlocksOf(h)}
PayloadWords(b) == b.lo .. (b.lo + b.size - 1)
Payloads == UNION {PayloadWords(block[id]) : id \in Held \ {todo}}

Meaning(h, words) == <<[a \in words |-> h.mem[a]], h.brk, h.hd_free, h.ft_free>>
Skeleton(h) == Meaning(h, TagsAndLinks(h))

-----------------------------------------------------------------------------
(***************************************************************************)
(* The headers lead from the prologue to the epilogue at the break; every  *)
(* footer equals its header; no block is too small to be free one day.  A  *)
(* client that fills its payloads never damages a tag.                     *)
(***************************************************************************)
TagsAgree ==
  Ready =>
    /\ \A bp \in Blocks :
         /\ SizeOf(heap, bp) % 2 = 0
         /\ bp # Prologue => SizeOf(heap, bp) >= MINBLOCK
         /\ NEXT_BLKP(heap, bp) <= heap.brk
         /\ heap.mem[FTRP(heap, bp)] = heap.mem[HDRP(bp)]
    /\ heap.brk \in {NEXT_BLKP(heap, bp) : bp \in Blocks}
    /\ heap.mem[HDRP(heap.brk)] = PACK(0, 1)

(***************************************************************************)
(* The free list holds exactly the free blocks, each once, and its links   *)
(* back are the converse of its links on: find_fit misses no free block,   *)
(* and never ends up in one that is in use.                                *)
(***************************************************************************)
FreeListExact ==
  LET nth == FreeBlocks(heap)
      listed == {nth[k] : k \in DOMAIN nth} \ {NULL}
  IN  Ready =>
        /\ listed = Free
        /\ heap.hd_free = NULL <=> heap.ft_free = NULL
        /\ heap.hd_free # NULL => prev_free_block(heap, heap.hd_free) = NULL
        /\ heap.ft_free # NULL => next_free_block(heap, heap.ft_free) = NULL
        /\ \A bp \in Free \ {heap.ft_free} :
             prev_free_block(heap, next_free_block(heap, bp)) = bp

(***************************************************************************)
(* Two free blocks are never neighbours: mm_free, extend_heap and          *)
(* mm_realloc coalesce at once, on both sides.                             *)
(***************************************************************************)
NoFreeNeighbours ==
  LET free == Free IN Ready => \A bp \in free : NEXT_BLKP(heap, bp) \notin free

(***************************************************************************)
(* Nothing leaks: a block is marked allocated exactly while the client     *)
(* holds it, whatever mm_realloc did with it, and it has room for what the *)
(* client asked for.                                                       *)
(***************************************************************************)
NothingLeaks ==
  Ready =>
    /\ Blocks \ (Free \cup {Prologue}) = {block[id].lo : id \in Held}
    /\ \A id \in Held : SizeOf(heap, block[id].lo) >= block[id].size + DSIZE

(***************************************************************************)
(* What free and realloc leave behind in memory does not matter: no        *)
(* routine takes an old tag, an old link or a client's old data for a live *)
(* one.  From a heap that differs only in left-over words, every call      *)
(* answers the same and leaves the same tags and links.                    *)
(***************************************************************************)
Scrambled ==
  LET live == TagsAndLinks(heap) \cup Payloads
  IN  [heap EXCEPT !.mem = [a \in Addr |-> IF a \in live THEN heap.mem[a] ELSE heap.mem[a] + 5]]

LeftoversDoNotMatter ==
  LET scrambled == Scrambled
      SameMalloc(a, b) == a.bp = b.bp /\ Skeleton(a.heap) = Skeleton(b.heap)
      SameRealloc(a, b) == a.crash = b.crash /\ SameMalloc(a, b)
  IN  Turn =>
        /\ \A size \in Sizes : SameMalloc(mm_malloc(heap, size), mm_malloc(scrambled, size))
        /\ \A id \in Held :
             /\ Skeleton(mm_free(heap, block[id].lo)) = Skeleton(mm_free(scrambled, block[id].lo))
             /\ \A size \in Sizes :
                  SameRealloc(mm_realloc(heap, block[id].lo, size),
                              mm_realloc(scrambled, block[id].lo, size))

(***************************************************************************)
(* The utilization that eval_mm_util reports, max_total_size over the size *)
(* of the heap, is below 1: the sum it keeps over malloc, realloc and free *)
(* counts the words of the payloads the client holds, and at its highest   *)
(* they were in the heap together with the four words of mm_init and two   *)
(* tags at least.                                                          *)
(***************************************************************************)
HighWaterInHeap ==
  /\ total_size = Cardinality(UNION {PayloadWords(block[id]) : id \in Ids})
  /\ max_total_size > 0 => max_total_size + 3 * DSIZE <= heap.brk

(***************************************************************************)
(* The allocator keeps the promise that eval_mm_valid checks: payloads     *)
(* aligned, inside the heap and disjoint, and their contents untouched by  *)
(* every call, in particular kept by mm_realloc.                           *)
(***************************************************************************)
content == [id \in Ids |-> [k \in 1 .. block[id].size |-> heap.mem[block[id].lo + k - 1]]]
A == INSTANCE Allocator WITH Limit <- MAX_HEAP
PayloadsAreSafe == A!Spec
=============================================================================
