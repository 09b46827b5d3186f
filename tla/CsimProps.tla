------------------------------- MODULE CsimProps -------------------------------
(* The properties of the cache simulator lab8/csim.c. *)
EXTENDS Csim

InUse(s) == {i \in Line : cache[s][i].age # 0}

(***************************************************************************)
(* A block is in at most one line of its set, so the scan of addressCache, *)
(* which stops at the first line with the tag, misses no other; and a line *)
(* not in use has tag 0, without which it would never be filled.           *)
(***************************************************************************)
LinesConsistent ==
  \A s \in SetIndex :
    /\ \A i, j \in InUse(s) : cache[s][i].tag = cache[s][j].tag => i = j
    /\ \A i \in Line \ InUse(s) : cache[s][i].tag = 0

(***************************************************************************)
(* The lines in use come first, so that the two loops that age them (one   *)
(* stops at an age of 0, one at the line to fill) leave none out, and no   *)
(* two of them have the same age: there is one least recently used line.   *)
(***************************************************************************)
AgesOrderLines ==
  \A s \in SetIndex :
    /\ \A i \in InUse(s) : 1 .. i \subseteq InUse(s)
    /\ \A i, j \in InUse(s) : cache[s][i].age = cache[s][j].age => i = j

(***************************************************************************)
(* The ages do what they are for: the simulator counts the hits, misses    *)
(* and evictions of a cache that replaces the least recently used block.   *)
(***************************************************************************)
TagsOf(s) == {cache[s][i].tag : i \in InUse(s)}
UsedBefore(s) ==
  {p \in TagsOf(s) \X TagsOf(s) : \E i, j \in InUse(s) :
     /\ cache[s][i].tag = p[1] /\ cache[s][j].tag = p[2]
     /\ cache[s][i].age > cache[s][j].age}

LRU == INSTANCE LRUCache WITH
  Blocks <- {Tag(a) : a \in Addresses},
  resident <- [s \in SetIndex |-> TagsOf(s)],
  before <- [s \in SetIndex |-> UsedBefore(s)],
  request <- IF line = NoLine THEN <<>>
             ELSE <<Index(line.address), Tag(line.address), Extra(line.action)>>,
  hits <- hitCount, misses <- missCount, evictions <- evictionCount
IsLRU == LRU!Spec
=============================================================================
