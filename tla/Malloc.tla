-------------------------------- MODULE Malloc --------------------------------
(***************************************************************************)
(* A client of lab7/mm.c: the loops of eval_mm_valid and of eval_mm_util   *)
(* in lab7/mdriver.c over every trace of requests.  It remembers each      *)
(* block it holds with the size it asked for, fills a payload with the     *)
(* block's name as soon as it gets it, and keeps the sum of the sizes with *)
(* its high water mark.  Unlike the driver it goes on after a call         *)
(* returned NULL.                                                          *)
(***************************************************************************)
EXTENDS Heap

CONSTANTS
  Ids,      \* the client's names for its blocks; a payload word holds a name
  Sizes,    \* the sizes it asks for, in words
  Garbage   \* what the words of the memory may hold before mm_init

ASSUME ClientAssumption ==
  Ids \subseteq Nat \ {0} /\ Sizes \subseteq Nat \ {0} /\ Garbage \subseteq Nat

VARIABLES
  heap,     \* the allocator's state
  block,    \* block[id]: payload address and size of a block the client holds
  todo,     \* the block the client is about to fill, or 0
  status,   \* "ready", "failed" (mm_init returned -1) or "crashed"
  total_size, max_total_size

sums == <<total_size, max_total_size>>
vars == <<heap, block, todo, status, sums>>

NoBlock == [lo |-> 0, size |-> 0]
Held == {id \in Ids : block[id] # NoBlock}

\* The memory has the words of Addr and no other: nothing was stored outside it.
TypeOK ==
  /\ DOMAIN heap = {"mem", "brk", "hd_free", "ft_free"}
  /\ heap.mem \in [Addr -> Nat]
  /\ heap.brk \in 0 .. MAX_HEAP
  /\ {heap.hd_free, heap.ft_free} \subseteq Addr \cup {NULL}
  /\ block \in [Ids -> [lo : Addr, size : Nat]]
  /\ todo \in Ids \cup {0}
  /\ status \in {"ready", "failed", "crashed"}
  /\ total_size \in Int /\ max_total_size \in Nat

Init ==
  /\ \E g \in Garbage :
       LET r == mm_init([a \in Addr |-> g])
       IN  heap = r.heap /\ status = IF r.ok THEN "ready" ELSE "failed"
  /\ block = [id \in Ids |-> NoBlock]
  /\ todo = 0
  /\ total_size = 0 /\ max_total_size = 0

Turn == status = "ready" /\ todo = 0

\* What a request adds to the sum of the sizes.
Grows_Forgetful(id, size) == size
Grows(id, size) == size - block[id].size

Count(more) ==
  /\ total_size' = total_size + more
  /\ max_total_size' = IF total_size' > max_total_size THEN total_size' ELSE max_total_size

\* The client got a block for id, or NULL.
Receive(id, bp, size) ==
  \/ bp = NULL /\ UNCHANGED <<block, todo, sums>>
  \/ /\ bp # NULL /\ block' = [block EXCEPT ![id] = [lo |-> bp, size |-> size]]
     /\ todo' = id /\ Count(Grows(id, size))

Allocate(id, size) ==
  LET r == mm_malloc(heap, size)
  IN  /\ Turn /\ id \notin Held
      /\ heap' = r.heap
      /\ Receive(id, r.bp, size)
      /\ UNCHANGED status

\* realloc of a block, or of no block at all (NULL); size 0 frees it.
Reallocate(id, size) ==
  LET r == mm_realloc(heap, IF id \in Held THEN block[id].lo ELSE NULL, size)
  IN  /\ Turn
      /\ heap' = r.heap
      /\ \/ r.crash /\ status' = "crashed" /\ UNCHANGED <<block, todo, sums>>
         \/ ~r.crash /\ size # 0 /\ Receive(id, r.bp, size) /\ UNCHANGED status
         \/ /\ ~r.crash /\ size = 0 /\ block' = [block EXCEPT ![id] = NoBlock]
            /\ Count(Grows(id, 0)) /\ UNCHANGED <<todo, status>>

Release(id) ==
  /\ Turn /\ id \in Held
  /\ heap' = mm_free(heap, block[id].lo)
  /\ block' = [block EXCEPT ![id] = NoBlock]
  /\ Count(Grows(id, 0))
  /\ UNCHANGED <<todo, status>>

\* memset(p, index & 0xFF, size)
Fill ==
  /\ status = "ready" /\ todo # 0
  /\ LET payload == block[todo].lo .. (block[todo].lo + block[todo].size - 1)
     IN  heap' = [heap EXCEPT !.mem = Stored(heap.mem, [a \in payload |-> todo])]
  /\ todo' = 0
  /\ UNCHANGED <<block, status, sums>>

Next ==
  \/ \E id \in Ids, size \in Sizes : Allocate(id, size)
  \/ \E id \in Ids, size \in Sizes \cup {0} : Reallocate(id, size)
  \/ \E id \in Ids : Release(id)
  \/ Fill

Spec == Init /\ [][Next]_vars
=============================================================================
