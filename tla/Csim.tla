--------------------------------- MODULE Csim ---------------------------------
(***************************************************************************)
(* The cache simulator of lab8/csim.c: the loop of main hands every line   *)
(* of the trace to addressCache, which keeps a tag and an age for each of  *)
(* the E lines of each of the S sets, and counts.  Age 0 is a line not in  *)
(* use, age 1 the line used last.                                          *)
(***************************************************************************)
EXTENDS Integers

CONSTANTS
  S, E, B,     \* number of sets, lines per set, bytes per block
  Addresses,   \* the addresses that occur in the trace
  MaxAccesses  \* bound: no trace line is read once that many accesses counted

ASSUME GeometryAssumption == S \in Nat \ {0} /\ E \in Nat \ {0} /\ B \in Nat \ {0}
ASSUME TraceAssumption == Addresses \subseteq Nat /\ MaxAccesses \in Nat

VARIABLES
  cache, hitCount, missCount, evictionCount,
  line   \* the trace line read last: action and address

counts == <<hitCount, missCount, evictionCount>>
vars == <<cache, counts, line>>

SetIndex == 0 .. (S - 1)
Line == 1 .. E
CacheLine == [tag : Nat, age : Nat]
Action == {"L", "S", "M"}   \* trace lines of other kinds change nothing
NoLine == [action |-> "none", address |-> 0]

TypeOK ==
  /\ cache \in [SetIndex -> [Line -> CacheLine]]
  /\ hitCount \in Nat /\ missCount \in Nat /\ evictionCount \in Nat
  /\ line \in [action : Action, address : Addresses] \cup {NoLine}

\* calloc
Init ==
  /\ cache = [s \in SetIndex |-> [i \in Line |-> [tag |-> 0, age |-> 0]]]
  /\ hitCount = 0 /\ missCount = 0 /\ evictionCount = 0
  /\ line = NoLine

Index(address) == (address \div B) % S
Tag(address) == address \div (B * S)

-----------------------------------------------------------------------------
(* One set, and the scan over its lines.                                   *)

Older_Younger(l) == [tag |-> l.tag, age |-> l.age - 1]
Older(l) == [tag |-> l.tag, age |-> l.age + 1]
Fresh(tag) == [tag |-> tag, age |-> 1]

HitLines_OffByOne(set, tag) == {j \in Line : set[j].tag = tag /\ set[j].age > 1}
HitLines(set, tag) == {j \in Line : set[j].tag = tag /\ set[j].age # 0}
EmptyLines(set) == {j \in Line : set[j].tag = 0 /\ set[j].age = 0}

\* The scan keeps the first line whose age is larger than all before it.
OldestLines(set) ==
  {j \in Line : /\ set[j].age > 0
                /\ \A i \in Line : set[i].age <= set[j].age
                /\ \A i \in 1 .. (j - 1) : set[i].age < set[j].age}

\* The loop over the ages stops at the first line that is not in use.
InUseUpTo(set, i) == \A k \in 1 .. i : set[k].age # 0

Rehit_NoReset(set, j) ==
  [i \in Line |-> IF InUseUpTo(set, i) THEN Older(set[i]) ELSE set[i]]
Rehit(set, j) ==
  [i \in Line |-> IF i = j THEN Fresh(set[j].tag)
                  ELSE IF InUseUpTo(set, i) THEN Older(set[i]) ELSE set[i]]

Filled_NoAging(set, j, tag) == [set EXCEPT ![j] = Fresh(tag)]
Filled(set, j, tag) ==
  [i \in Line |-> IF i = j THEN Fresh(tag) ELSE IF i < j THEN Older(set[i]) ELSE set[i]]

Replaced(set, j, tag) ==
  [i \in Line |-> IF i = j THEN Fresh(tag) ELSE Older(set[i])]

-----------------------------------------------------------------------------
(* addressCache: a hit, a line not in use, or the oldest line.             *)

\* A modification is a load and a store: one more hit.
Extra(action) == IF action = "M" THEN 1 ELSE 0

Store(s, set) == cache' = [cache EXCEPT ![s] = set]

Hit(s, tag, extra) ==
  /\ \E j \in HitLines(cache[s], tag) :
       /\ \A i \in HitLines(cache[s], tag) : j <= i
       /\ Store(s, Rehit(cache[s], j))
  /\ hitCount' = hitCount + 1 + extra
  /\ UNCHANGED <<missCount, evictionCount>>

FillEmpty(s, tag, extra) ==
  /\ HitLines(cache[s], tag) = {}
  /\ \E j \in EmptyLines(cache[s]) :
       /\ \A i \in EmptyLines(cache[s]) : j <= i
       /\ Store(s, Filled(cache[s], j, tag))
  /\ missCount' = missCount + 1 /\ hitCount' = hitCount + extra
  /\ UNCHANGED evictionCount

Evict(s, tag, extra) ==
  /\ HitLines(cache[s], tag) = {} /\ EmptyLines(cache[s]) = {}
  /\ \E j \in OldestLines(cache[s]) : Store(s, Replaced(cache[s], j, tag))
  /\ missCount' = missCount + 1 /\ evictionCount' = evictionCount + 1
  /\ hitCount' = hitCount + extra

addressCache(action, address) ==
  LET s == Index(address)
      tag == Tag(address)
      extra == Extra(action)
  IN  Hit(s, tag, extra) \/ FillEmpty(s, tag, extra) \/ Evict(s, tag, extra)

Next ==
  /\ hitCount + missCount < MaxAccesses
  /\ \E action \in Action, address \in Addresses :
       /\ line' = [action |-> action, address |-> address]
       /\ addressCache(action, address)

Spec == Init /\ [][Next]_vars
=============================================================================
