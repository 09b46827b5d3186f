------------------------------ MODULE Allocator ------------------------------
(***************************************************************************)
(* What an allocator promises its client, as the driver of lab7/mdriver.c  *)
(* checks it: a payload is aligned, lies inside the heap and overlaps no   *)
(* other payload; nobody but the client changes what is in it; and realloc *)
(* keeps the contents up to the smaller of the two sizes.  A call may fail *)
(* and then changes nothing.                                               *)
(***************************************************************************)
EXTENDS Integers, FiniteSetsExt

CONSTANTS
  Ids,     \* the client's names for its blocks
  Limit    \* no payload lies at or above this address

VARIABLES
  block,   \* block[id]: where the payload is and how large; size 0 is no block
  content  \* content[id]: the words of the payload

NoBlock == [lo |-> 0, size |-> 0]
Words(b) == b.lo .. (b.lo + b.size - 1)

Init ==
  /\ block = [id \in Ids |-> NoBlock]
  /\ content = [id \in Ids |-> <<>>]

\* The checks of add_range
Acceptable(id, b) ==
  /\ b.lo % 2 = 0
  /\ Words(b) \subseteq 0 .. (Limit - 1)
  /\ \A other \in Ids \ {id} : Words(b) \cap Words(block[other]) = {}

OthersUntouched(id) ==
  \A other \in Ids \ {id} : block'[other] = block[other] /\ content'[other] = content[other]

\* The block changes; its first words stay, as many as old and new have.
Resize(id) ==
  LET b == block'[id]
  IN  /\ b.size > 0 /\ Acceptable(id, b)
      /\ DOMAIN content'[id] = 1 .. b.size
      /\ \A k \in 1 .. Min({block[id].size, b.size}) : content'[id][k] = content[id][k]
      /\ OthersUntouched(id)

Free(id) ==
  /\ block' = [block EXCEPT ![id] = NoBlock]
  /\ content' = [content EXCEPT ![id] = <<>>]

Write(id) ==
  /\ UNCHANGED block
  /\ DOMAIN content'[id] = DOMAIN content[id]
  /\ OthersUntouched(id)

Next == \E id \in Ids : Resize(id) \/ Free(id) \/ Write(id)

Spec == Init /\ [][Next]_<<block, content>>
=============================================================================
