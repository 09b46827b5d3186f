--------------------------------- MODULE Heap ---------------------------------
(***************************************************************************)
(* The allocator of lab7/mm.c over the simulated memory of lab7/memlib.c.  *)
(*                                                                         *)
(* A heap is a record: the words of the memory, the break, and the two     *)
(* ends of the free list.  Every routine is an operator from the heap it   *)
(* finds to the heap it leaves.  Addresses and sizes count 4-byte words    *)
(* (WSIZE is 1); a block pointer is the address of the block's payload.    *)
(* A block has its size and allocated bit in the word before the payload   *)
(* (header) and in its last word (footer), and while it is free the links  *)
(* of the free list in the first two words of its payload.                 *)
(***************************************************************************)
EXTENDS Integers, FiniteSetsExt

CONSTANTS
  MAX_HEAP,   \* words of memory mem_sbrk can give out
  CHUNKSIZE,  \* words the heap grows by, at least (1024 in the source)
  Padded      \* request sizes that mm_malloc replaces by a larger one
              \* (112 bytes by 128 and 448 bytes by 512 in the source)

ASSUME HeapAssumption ==
  /\ MAX_HEAP \in Nat \ {0} /\ CHUNKSIZE \in Nat
  /\ CHUNKSIZE % 2 = 0 /\ CHUNKSIZE >= 4
  /\ \A size \in DOMAIN Padded : Padded[size] \in Nat /\ Padded[size] >= size

DSIZE == 2
MINBLOCK == 2 * DSIZE
MaxBlocks == MAX_HEAP \div MINBLOCK
NULL == -1
Addr == 0 .. (MAX_HEAP - 1)

PACK(size, alloc) == size + alloc
GET_SIZE(word) == word - (word % 2)
GET_ALLOC(word) == word % 2

HDRP(bp) == bp - 1
SizeOf(h, bp) == GET_SIZE(h.mem[HDRP(bp)])
IsAlloc(h, bp) == GET_ALLOC(h.mem[HDRP(bp)]) = 1
FTRP(h, bp) == bp + SizeOf(h, bp) - DSIZE
NEXT_BLKP(h, bp) == bp + SizeOf(h, bp)
PREV_BLKP(h, bp) == bp - GET_SIZE(h.mem[bp - DSIZE])

\* The memory after the words are stored.  A word that is stored outside the
\* memory would enlarge its domain, and Malloc!TypeOK would not hold.
Stored(mem, words) ==
  [p \in DOMAIN mem \cup DOMAIN words |-> IF p \in DOMAIN words THEN words[p] ELSE mem[p]]
PUT(h, p, word) == [h EXCEPT !.mem = Stored(h.mem, [a \in {p} |-> word])]

\* Header and footer of one block
Tag_HeaderOnly(h, bp, size, alloc) == PUT(h, HDRP(bp), PACK(size, alloc))
Tag(h, bp, size, alloc) ==
  PUT(PUT(h, HDRP(bp), PACK(size, alloc)), bp + size - DSIZE, PACK(size, alloc))

-----------------------------------------------------------------------------
(* The free list; a link is an index from heap_listp, 0 for none.          *)

heap_listp == DSIZE
SELF_INDEX_Swapped(bp) == heap_listp - bp
SELF_INDEX(bp) == bp - heap_listp
PREV_FREE(bp) == bp
NEXT_FREE(bp) == bp + 1

LinkedAt(h, p) == IF h.mem[p] = 0 THEN NULL ELSE heap_listp + h.mem[p]
prev_free_block(h, bp) == LinkedAt(h, PREV_FREE(bp))
next_free_block(h, bp) == LinkedAt(h, NEXT_FREE(bp))

insert_free_block_KeepNext(h, bp) ==
  IF h.hd_free = NULL
  THEN [PUT(PUT(h, NEXT_FREE(bp), 0), PREV_FREE(bp), 0) EXCEPT !.hd_free = bp, !.ft_free = bp]
  ELSE [PUT(PUT(h, NEXT_FREE(h.ft_free), SELF_INDEX(bp)), PREV_FREE(bp), SELF_INDEX(h.ft_free))
          EXCEPT !.ft_free = bp]

insert_free_block(h, bp) ==
  IF h.hd_free = NULL
  THEN [PUT(PUT(h, NEXT_FREE(bp), 0), PREV_FREE(bp), 0) EXCEPT !.hd_free = bp, !.ft_free = bp]
  ELSE [PUT(PUT(PUT(h, NEXT_FREE(h.ft_free), SELF_INDEX(bp)),
                PREV_FREE(bp), SELF_INDEX(h.ft_free)),
            NEXT_FREE(bp), 0) EXCEPT !.ft_free = bp]

\* new takes the place of old in the list; the links move by memcpy.
replace_free_block(h, old, new) ==
  LET a == IF h.hd_free = old THEN [h EXCEPT !.hd_free = new]
           ELSE PUT(h, NEXT_FREE(heap_listp + h.mem[PREV_FREE(old)]), SELF_INDEX(new))
      b == IF a.ft_free = old THEN [a EXCEPT !.ft_free = new]
           ELSE PUT(a, PREV_FREE(heap_listp + a.mem[NEXT_FREE(old)]), SELF_INDEX(new))
  IN  [b EXCEPT !.mem = Stored(b.mem, [p \in {new, new + 1} |-> b.mem[p - new + old]])]

remove_free_block_KeepTail(h, bp) ==
  LET prev == prev_free_block(h, bp)
      next == next_free_block(h, bp)
      a == IF prev # NULL THEN PUT(h, NEXT_FREE(prev), h.mem[NEXT_FREE(bp)])
           ELSE [h EXCEPT !.hd_free = next]
  IN  IF next # NULL THEN PUT(a, PREV_FREE(next), a.mem[PREV_FREE(bp)]) ELSE a

remove_free_block(h, bp) ==
  LET prev == prev_free_block(h, bp)
      next == next_free_block(h, bp)
      a == IF prev # NULL THEN PUT(h, NEXT_FREE(prev), h.mem[NEXT_FREE(bp)])
           ELSE [h EXCEPT !.hd_free = next]
  IN  IF next # NULL THEN PUT(a, PREV_FREE(next), a.mem[PREV_FREE(bp)])
      ELSE [a EXCEPT !.ft_free = prev]

\* The first blocks of the list, in its order, then NULL
FreeBlocks(h) ==
  LET nth[k \in 0 .. MaxBlocks] ==
        IF k = 0 THEN h.hd_free
        ELSE IF nth[k - 1] = NULL THEN NULL ELSE next_free_block(h, nth[k - 1])
  IN  nth

find_fit_Head(h, size) == h.hd_free
find_fit(h, size) ==
  LET nth == FreeBlocks(h)
      fits == {k \in 0 .. MaxBlocks : nth[k] # NULL /\ size <= SizeOf(h, nth[k])}
  IN  IF fits = {} THEN NULL ELSE nth[Min(fits)]

-----------------------------------------------------------------------------
(* Growing the heap; bp is NULL when the memory is used up.                *)

mem_sbrk(h, incr) == h.brk + incr <= MAX_HEAP

extend_heap(h, size) ==
  LET bp == h.brk
      grown == [h EXCEPT !.brk = @ + size]
      prev == PREV_BLKP(h, bp)
      whole == SizeOf(h, prev) + size
      epilogue == PACK(0, 1)
  IN  IF ~mem_sbrk(h, size) THEN [heap |-> h, bp |-> NULL]
      ELSE IF IsAlloc(h, prev)
      THEN [heap |-> insert_free_block(
                       PUT(Tag(grown, bp, size, 0), HDRP(bp + size), epilogue), bp),
            bp |-> bp]
      ELSE [heap |-> PUT(Tag(grown, prev, whole, 0), HDRP(prev + whole), epilogue),
            bp |-> prev]

\* A memory that starts with these words; ok is FALSE when mm_init returns -1.
mm_init(mem) ==
  LET empty == [mem |-> mem, brk |-> 2 * DSIZE, hd_free |-> NULL, ft_free |-> NULL]
      h == PUT(PUT(PUT(PUT(empty, 0, 0), 1, PACK(DSIZE, 1)), 2, PACK(DSIZE, 1)), 3, PACK(0, 1))
      r == extend_heap(h, CHUNKSIZE)
  IN  IF 2 * DSIZE > MAX_HEAP THEN [heap |-> [empty EXCEPT !.brk = 0], ok |-> FALSE]
      ELSE [heap |-> r.heap, ok |-> r.bp # NULL]

-----------------------------------------------------------------------------
(* Allocating and freeing.                                                 *)

\* A large enough rest stays free, in front of the block that is handed out.
place(h, bp, size) ==
  LET rest == SizeOf(h, bp) - size
  IN  IF rest >= MINBLOCK
      THEN [heap |-> Tag(Tag(h, bp, rest, 0), bp + rest, size, 1), bp |-> bp + rest]
      ELSE [heap |-> remove_free_block(Tag(h, bp, SizeOf(h, bp), 1), bp), bp |-> bp]

AlignedSize(size) == DSIZE * ((size + DSIZE + (DSIZE - 1)) \div DSIZE)

mm_malloc(h, size) ==
  LET asize == AlignedSize(IF size \in DOMAIN Padded THEN Padded[size] ELSE size)
      bp == find_fit(h, asize)
      r == extend_heap(h, IF asize > CHUNKSIZE THEN asize ELSE CHUNKSIZE)
  IN  IF size = 0 THEN [heap |-> h, bp |-> NULL]
      ELSE IF bp # NULL THEN place(h, bp, asize)
      ELSE IF r.bp # NULL THEN place(r.heap, r.bp, asize)
      ELSE [heap |-> h, bp |-> NULL]

coalesce_IgnoreNext(h, bp) ==
  LET prev == PREV_BLKP(h, bp)
  IN  IF IsAlloc(h, prev) THEN insert_free_block(h, bp)
      ELSE Tag(h, prev, SizeOf(h, prev) + SizeOf(h, bp), 0)

coalesce(h, bp) ==
  LET prev == PREV_BLKP(h, bp)
      next == NEXT_BLKP(h, bp)
      size == SizeOf(h, bp)
      prev_alloc == GET_ALLOC(h.mem[FTRP(h, prev)]) = 1
      next_alloc == IsAlloc(h, next)
  IN  CASE prev_alloc /\ next_alloc -> insert_free_block(h, bp)
        [] prev_alloc /\ ~next_alloc ->
             replace_free_block(Tag(h, bp, size + SizeOf(h, next), 0), next, bp)
        [] ~prev_alloc /\ next_alloc -> Tag(h, prev, SizeOf(h, prev) + size, 0)
        [] ~prev_alloc /\ ~next_alloc ->
             remove_free_block(Tag(h, prev, SizeOf(h, prev) + size + SizeOf(h, next), 0), next)

mm_free(h, bp) == coalesce(Tag(h, bp, SizeOf(h, bp), 0), bp)

-----------------------------------------------------------------------------
(* Resizing.                                                               *)

\* The block becomes smaller; a large enough rest becomes free.
shrink(h, ptr, asize) ==
  LET rest == SizeOf(h, ptr) - asize
      next == NEXT_BLKP(h, ptr)
      new == ptr + asize
      cut == Tag(h, ptr, asize, 1)
  IN  IF rest < MINBLOCK THEN h
      ELSE IF IsAlloc(h, next) THEN insert_free_block(Tag(cut, new, rest, 0), new)
      ELSE replace_free_block(Tag(cut, new, rest + SizeOf(h, next), 0), next, new)

\* The block and the free block behind it are enough together.
grow(h, ptr, asize) ==
  LET next == NEXT_BLKP(h, ptr)
      both == SizeOf(h, ptr) + SizeOf(h, next)
      new == ptr + asize
  IN  IF both >= asize + MINBLOCK
      THEN Tag(Tag(replace_free_block(h, next, new), ptr, asize, 1), new, both - asize, 0)
      ELSE remove_free_block(Tag(h, ptr, both, 1), next)

\* memcpy(to, from, oldSize - DSIZE)
Copied_OneShort(h, to, from, n) ==
  [h EXCEPT !.mem = Stored(h.mem, [a \in to .. (to + n - 2) |-> h.mem[a - to + from]])]
Copied(h, to, from, n) ==
  [h EXCEPT !.mem = Stored(h.mem, [a \in to .. (to + n - 1) |-> h.mem[a - to + from]])]

\* The block moves to new, and the old one is freed.
Moved_KeepOld(h, ptr, new, n) == Copied(h, new, ptr, n)
Moved(h, ptr, new, n) == mm_free(Copied(h, new, ptr, n), ptr)

\* crash: the call touches the null page, in memcpy or in mm_free.
mm_realloc(h, ptr, size) ==
  LET asize == AlignedSize(size)
      next == NEXT_BLKP(h, ptr)
      r == mm_malloc(h, asize)
      fits == ~IsAlloc(h, next) /\ SizeOf(h, ptr) + SizeOf(h, next) >= asize
      Done(heap, bp) == [heap |-> heap, bp |-> bp, crash |-> FALSE]
      Crash == [heap |-> h, bp |-> NULL, crash |-> TRUE]
  IN  CASE size = 0 /\ ptr = NULL -> Crash
        [] size = 0 /\ ptr # NULL -> Done(mm_free(h, ptr), ptr)
        [] size # 0 /\ ptr = NULL -> Done(r.heap, r.bp)
        [] OTHER ->
             IF asize <= SizeOf(h, ptr) THEN Done(shrink(h, ptr, asize), ptr)
             ELSE IF fits THEN Done(grow(h, ptr, asize), ptr)
             ELSE IF r.bp = NULL THEN Crash
             ELSE Done(Moved(r.heap, ptr, r.bp, SizeOf(h, ptr) - DSIZE), r.bp)
=============================================================================
