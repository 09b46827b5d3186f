------------------------------- MODULE LRUCache -------------------------------
(***************************************************************************)
(* A set-associative cache that replaces the least recently used block: a  *)
(* set holds the E blocks used last.  before[s] is the order of last use:  *)
(* <<a, b>> is in it when block a was last used before block b.            *)
(***************************************************************************)
EXTENDS Integers, FiniteSets

CONSTANTS
  S, E,    \* number of sets, blocks per set
  Blocks   \* the blocks of a set, known by their tags

VARIABLES
  request,                    \* the access just made: set, block, second access
  resident, before,
  hits, misses, evictions

Init ==
  /\ request = <<>>
  /\ resident = [s \in 0 .. (S - 1) |-> {}]
  /\ before = [s \in 0 .. (S - 1) |-> {}]
  /\ hits = 0 /\ misses = 0 /\ evictions = 0

\* Block t of set s becomes the one used last; victims leave.
Use(s, t, victims) ==
  LET stay == resident[s] \ (victims \cup {t})
  IN  /\ resident' = [resident EXCEPT ![s] = stay \cup {t}]
      /\ before' = [before EXCEPT ![s] = (@ \cap (stay \X stay)) \cup (stay \X {t})]

\* extra is 1 for an access that is followed by a second one to the same block.
Hit(s, t, extra) ==
  /\ t \in resident[s]
  /\ Use(s, t, {})
  /\ hits' = hits + 1 + extra
  /\ UNCHANGED <<misses, evictions>>

Fill(s, t, extra) ==
  /\ t \notin resident[s] /\ Cardinality(resident[s]) < E
  /\ Use(s, t, {})
  /\ misses' = misses + 1 /\ hits' = hits + extra
  /\ UNCHANGED evictions

Replace(s, t, extra) ==
  /\ t \notin resident[s] /\ Cardinality(resident[s]) = E
  /\ \E v \in resident[s] :
       /\ \A b \in resident[s] \ {v} : <<v, b>> \in before[s]
       /\ Use(s, t, {v})
  /\ misses' = misses + 1 /\ hits' = hits + extra /\ evictions' = evictions + 1

Next == \E s \in 0 .. (S - 1), t \in Blocks, extra \in {0, 1} :
  /\ request' = <<s, t, extra>>
  /\ Hit(s, t, extra) \/ Fill(s, t, extra) \/ Replace(s, t, extra)

Spec == Init /\ [][Next]_<<request, resident, before, hits, misses, evictions>>
=============================================================================
