----------------------------- MODULE MallocProofs -----------------------------
(***************************************************************************)
(* The properties of the allocator hold whatever the client asks for, in   *)
(* memories of any size.  The invariant says that the heap has a           *)
(* description (HeapProofs) and that the client's blocks are the ones in   *)
(* use, each with room for what the client asked for.                      *)
(***************************************************************************)
EXTENDS MallocProps, HeapProofs

(***************************************************************************)
(* BlocksOf: the way through the headers meets the blocks of a             *)
(* description and no others.                                              *)
(***************************************************************************)
InBlock(h, bp) == ~(bp >= h.brk \/ SizeOf(h, bp) = 0)

IsTrail(h, f) ==
  f = [bp \in Nat \ {0} |->
         IF bp >= h.brk \/ SizeOf(h, bp) = 0 THEN {} ELSE {bp} \cup f[NEXT_BLKP(h, bp)]]

LEMMA NextHeader ==
  ASSUME NEW h \in HeapRecord, NEW bp \in Nat \ {0}, InBlock(h, bp)
  PROVE  NEXT_BLKP(h, bp) \in Nat \ {0}
<1>1. h.brk \in 0 .. MAX_HEAP /\ MAX_HEAP \in Nat
  BY HeapAssumption DEF HeapRecord
<1>2. bp - 1 \in Addr
  BY <1>1 DEF InBlock, Addr
<1>3. h.mem[bp - 1] \in Nat
  BY <1>2 DEF HeapRecord
<1>4. SizeOf(h, bp) \in Nat
  BY <1>3 DEF SizeOf, GET_SIZE, HDRP
<1> QED BY <1>4 DEF NEXT_BLKP

\* What the blocks on the way from bp are: those in every set that the way does not leave
LEMMA TrailExists ==
  ASSUME NEW h \in HeapRecord
  PROVE  \E f : IsTrail(h, f)
<1> DEFINE Closed(T) == \A y \in T : InBlock(h, y) => NEXT_BLKP(h, y) \in T
           Way(bp) == {x \in Nat \ {0} : /\ InBlock(h, x)
                                         /\ \A T \in SUBSET (Nat \ {0}) : bp \in T /\ Closed(T) => x \in T}
           f == [bp \in Nat \ {0} |-> Way(bp)]
<1>1. ASSUME NEW bp \in Nat \ {0}, ~InBlock(h, bp) PROVE Way(bp) = {}
  <2>1. {bp} \in SUBSET (Nat \ {0}) /\ Closed({bp})
    BY <1>1
  <2> HIDE DEF Closed
  <2> QED BY <1>1, <2>1
<1>2. ASSUME NEW bp \in Nat \ {0}, InBlock(h, bp) PROVE Way(bp) = {bp} \cup Way(NEXT_BLKP(h, bp))
  <2> DEFINE next == NEXT_BLKP(h, bp)
  <2>1. next \in Nat \ {0}
    BY <1>2, NextHeader
  <2>2. ASSUME NEW T \in SUBSET (Nat \ {0}), bp \in T, Closed(T) PROVE next \in T
    BY <1>2, <2>2
  <2>3. ASSUME NEW T \in SUBSET (Nat \ {0}), next \in T, Closed(T)
        PROVE  T \cup {bp} \in SUBSET (Nat \ {0}) /\ Closed(T \cup {bp})
    BY <2>3
  <2> HIDE DEF Closed, next
  <2>4. bp \in Way(bp)
    BY <1>2
  <2>5. ASSUME NEW x \in Way(next) PROVE x \in Way(bp)
    BY <2>2
  <2>6. ASSUME NEW x \in Way(bp), x # bp PROVE x \in Way(next)
    <3>1. ASSUME NEW T \in SUBSET (Nat \ {0}), next \in T, Closed(T) PROVE x \in T
      <4>1. x \in T \cup {bp}
        BY <2>3, <3>1
      <4> QED BY <2>6, <4>1
    <3> QED BY <3>1
  <2> HIDE DEF Way
  <2>7. Way(bp) = {bp} \cup Way(next)
    BY <2>4, <2>5, <2>6
  <2> QED BY <2>7 DEF next
<1> HIDE DEF Way
<1>3. \A bp \in Nat \ {0} : f[bp] = IF bp >= h.brk \/ SizeOf(h, bp) = 0 THEN {} ELSE {bp} \cup f[NEXT_BLKP(h, bp)]
  <2> SUFFICES ASSUME NEW bp \in Nat \ {0}
               PROVE  f[bp] = IF bp >= h.brk \/ SizeOf(h, bp) = 0 THEN {} ELSE {bp} \cup f[NEXT_BLKP(h, bp)]
    OBVIOUS
  <2>1. CASE InBlock(h, bp)
    <3>1. f[NEXT_BLKP(h, bp)] = Way(NEXT_BLKP(h, bp)) /\ f[bp] = Way(bp)
      BY <2>1, NextHeader
    <3> QED BY <1>2, <2>1, <3>1 DEF InBlock
  <2>2. CASE ~InBlock(h, bp)
    BY <1>1, <2>2 DEF InBlock
  <2> QED BY <2>1, <2>2
<1>4. f = [bp \in Nat \ {0} |-> f[bp]]
  OBVIOUS
<1> HIDE DEF f
<1>5. IsTrail(h, f)
  BY <1>3, <1>4 DEF IsTrail
<1> QED BY <1>5

LEMMA TrailIs ==
  ASSUME NEW h, NEW S, NEW n, NEW L, Described(h, S, n, L), NEW f, IsTrail(h, f)
  PROVE  f[heap_listp] = DOMAIN S
<1> DEFINE Rest(b) == {x \in DOMAIN S : x >= b}
           T == {k \in Nat : \E b \in DOMAIN S : b + k = h.brk /\ f[b] # Rest(b)}
<1>1. Tiling(S, h.brk) /\ h.brk \in Nat
  BY DEF Described, Tiling
<1>2. ASSUME NEW b \in DOMAIN S
      PROVE  /\ b \in Nat \ {0} /\ S[b] \in Nat /\ b + S[b] <= h.brk /\ S[b] >= 2 /\ b < h.brk
             /\ b + S[b] \in DOMAIN S \cup {h.brk}
             /\ f[b] = {b} \cup f[b + S[b]]
  <2>1. /\ b \in Nat \ {0} /\ S[b] \in Nat /\ b + S[b] <= h.brk /\ S[b] >= 2 /\ b < h.brk
        /\ b + S[b] \in DOMAIN S \cup {h.brk}
    <3>1. /\ b \in Nat /\ S[b] \in Nat /\ b + S[b] <= h.brk /\ b >= 2 /\ S[b] >= 2
          /\ b + S[b] \in DOMAIN S \cup {h.brk}
      BY <1>1, Tile
    <3> QED BY <1>1, <3>1
  <2>2. SizeOf(h, b) = S[b] /\ NEXT_BLKP(h, b) = b + S[b]
    BY DescribedBlocks
  <2>3. f[b] = IF b >= h.brk \/ SizeOf(h, b) = 0 THEN {} ELSE {b} \cup f[NEXT_BLKP(h, b)]
    BY <2>1 DEF IsTrail
  <2> QED BY <1>1, <2>1, <2>2, <2>3
<1>3. f[h.brk] = {}
  <2>1. h.brk \in Nat \ {0} /\ h.brk >= h.brk
    BY <1>1, <1>2 DEF Tiling
  <2> QED BY <2>1 DEF IsTrail
<1>4. ASSUME T # {} PROVE FALSE
  <2>1. PICK k \in T : \A i \in T : k <= i
    <3>1. T \subseteq Nat
      OBVIOUS
    <3> HIDE DEF T
    <3> QED BY <1>4, <3>1, Least
  <2>2. PICK b \in DOMAIN S : b + k = h.brk /\ f[b] # Rest(b)
    OBVIOUS
  <2> DEFINE c == b + S[b]
  <2>3. CASE c = h.brk
    <3>1. Rest(b) = {b}
      <4>1. ASSUME NEW x \in DOMAIN S, x >= b, x # b PROVE FALSE
        <5>1. x < h.brk /\ x \in Nat /\ b \in Nat
          BY <1>2
        <5>2. b < x => c <= x
          BY <1>1, Tile
        <5> QED BY <1>1, <2>3, <4>1, <5>1, <5>2
      <4>2. b >= b
        <5>1. b \in Nat
          BY <1>2
        <5> QED BY <5>1
      <4> HIDE DEF c
      <4> QED BY <4>1, <4>2
    <3> QED BY <1>2, <1>3, <2>2, <2>3, <3>1
  <2>4. CASE c \in DOMAIN S
    <3>1. f[c] = Rest(c)
      <4>1. ASSUME f[c] # Rest(c) PROVE FALSE
        <5>1. c \in Nat /\ c <= h.brk /\ c >= b + 2 /\ b \in Nat
          BY <1>2, <2>4
        <5>2. h.brk - c \in Nat /\ c + (h.brk - c) = h.brk /\ ~(k <= h.brk - c)
          BY <1>1, <2>2, <5>1
        <5>3. h.brk - c \in T
          BY <2>4, <4>1, <5>2
        <5> QED BY <2>1, <5>2, <5>3
      <4> QED BY <4>1
    <3>2. Rest(b) = {b} \cup Rest(c)
      <4>1. b >= b /\ c > b /\ b \in Nat /\ c \in Nat
        BY <1>2
      <4>2. ASSUME NEW x \in DOMAIN S PROVE x >= b <=> x = b \/ x >= c
        <5>1. x \in Nat /\ (b < x => c <= x)
          BY <1>1, <1>2, Tile
        <5> QED BY <4>1, <5>1
      <4> QED BY <4>1, <4>2
    <3> QED BY <1>2, <2>2, <3>1, <3>2
  <2> QED BY <1>2, <2>3, <2>4
<1>5. ASSUME NEW b \in DOMAIN S PROVE f[b] = Rest(b)
  <2>1. h.brk - b \in Nat /\ b + (h.brk - b) = h.brk
    BY <1>1, <1>2
  <2>2. ASSUME f[b] # Rest(b) PROVE FALSE
    <3>1. h.brk - b \in T
      BY <2>1, <2>2
    <3> QED BY <1>4, <3>1
  <2> QED BY <2>2
<1>6. 2 \in DOMAIN S /\ Rest(2) = DOMAIN S
  <2>1. \A x \in DOMAIN S : x >= 2
    BY <1>1, Tile
  <2> QED BY <1>1, <2>1 DEF Tiling, heap_listp, DSIZE
<1> QED BY <1>5, <1>6 DEF heap_listp, DSIZE

LEMMA BlocksAre ==
  ASSUME NEW h, NEW S, NEW n, NEW L, Described(h, S, n, L)
  PROVE  BlocksOf(h) = DOMAIN S
<1>1. BlocksOf(h) = (CHOOSE f : IsTrail(h, f))[heap_listp]
  BY DEF BlocksOf, IsTrail
<1>2. IsTrail(h, CHOOSE f : IsTrail(h, f))
  BY TrailExists DEF Described
<1> QED BY <1>1, <1>2, TrailIs

-----------------------------------------------------------------------------
(* The client's blocks                                                     *)

Blks == [Ids -> [lo : Addr, size : Nat]]

\* The client's blocks are the ones in use besides the prologue.
Tenants(blk, S, n, L) ==
  LET held == {id \in Ids : blk[id] # NoBlock}
  IN  /\ Used(S, n, L) = {2} \cup {blk[id].lo : id \in held}
      /\ \A id \in held : /\ blk[id].lo # 2 /\ blk[id].size # 0
                          /\ S[blk[id].lo] >= blk[id].size + 2
      /\ \A id, other \in held : blk[id].lo = blk[other].lo => id = other

LEMMA Tenant ==
  ASSUME NEW h, NEW S, NEW n, NEW L, Described(h, S, n, L), NEW blk \in Blks, Tenants(blk, S, n, L),
         NEW id \in Ids, blk[id] # NoBlock
  PROVE  LET lo == blk[id].lo
             size == blk[id].size
         IN  /\ lo \in Used(S, n, L) /\ lo \in DOMAIN S /\ lo # 2 /\ lo \in Nat /\ lo % 2 = 0 /\ lo >= 4
             /\ size \in Nat \ {0} /\ S[lo] \in Nat /\ S[lo] >= size + 2
             /\ \A k \in 0 .. (size - 1) : lo + k \in (lo - 1) .. (lo + S[lo] - 2) /\ lo + k \in Addr
<1> DEFINE lo == blk[id].lo
           size == blk[id].size
<1>1. lo \in Used(S, n, L) /\ lo \in DOMAIN S /\ lo # 2 /\ size # 0 /\ S[lo] >= size + 2
  BY DEF Tenants, Used
<1>2. size \in Nat
  BY DEF Blks
<1>3. lo \in Nat /\ lo % 2 = 0 /\ lo >= 4 /\ S[lo] \in Nat
  BY <1>1, Tile DEF Described
<1>4. (lo - 1) .. (lo + S[lo] - 2) \subseteq Addr
  BY <1>1, WordsOf DEF Described
<1> HIDE DEF lo, size
<1>5. \A k \in 0 .. (size - 1) : lo + k \in (lo - 1) .. (lo + S[lo] - 2)
  BY <1>1, <1>2, <1>3
<1> QED BY <1>1, <1>2, <1>3, <1>4, <1>5 DEF lo, size

\* The block of id is replaced by v: there was one or none, and there is one or none.
LEMMA TenantsChange ==
  ASSUME NEW h, NEW S, NEW n, NEW L, Described(h, S, n, L), NEW blk \in Blks, Tenants(blk, S, n, L),
         NEW id \in Ids, NEW v, NEW g, NEW R, NEW m, NEW M, NEW gone, NEW new,
         gone = IF blk[id] = NoBlock THEN {} ELSE {blk[id].lo},
         new = IF v = NoBlock THEN {} ELSE {v.lo},
         Leads(h, S, n, L, g, R, m, M, gone, new),
         v # NoBlock => /\ v = [lo |-> v.lo, size |-> v.size] /\ v.size \in Nat \ {0}
                        /\ R[v.lo] >= v.size + 2 /\ v.lo \notin Used(S, n, L) \ gone
  PROVE  LET b == [blk EXCEPT ![id] = v] IN b \in Blks /\ Tenants(b, R, m, M)
<1> DEFINE b == [blk EXCEPT ![id] = v]
           held == {i \in Ids : blk[i] # NoBlock}
           kept == {i \in Ids : b[i] # NoBlock}
<1>1. /\ Used(S, n, L) = {2} \cup {blk[i].lo : i \in held}
      /\ \A i \in held : /\ blk[i].lo # 2 /\ blk[i].size # 0 /\ S[blk[i].lo] >= blk[i].size + 2
      /\ \A i, other \in held : blk[i].lo = blk[other].lo => i = other
  BY DEF Tenants
<1>2. /\ Described(g, R, m, M) /\ Used(R, m, M) = (Used(S, n, L) \ gone) \cup new
      /\ \A x \in Used(S, n, L) \ gone : R[x] = S[x]
  BY DEF Leads
<1>3. 2 \in Used(S, n, L) \ gone
  BY <1>1
<1>4. v # NoBlock => v.lo # 2 /\ v.lo \in Addr
  <2>1. ASSUME v # NoBlock PROVE v.lo # 2 /\ v.lo \in Addr
    <3>1. v.lo # 2
      BY <1>3, <2>1
    <3>2. v.lo \in Used(R, m, M)
      BY <1>2, <2>1
    <3>3. v.lo \in LinkPlace
      BY <1>2, <3>1, <3>2, DescribedBlocks DEF Used
    <3> QED BY <3>1, <3>3, LinkPlaces
  <2> QED BY <2>1
<1>5. NoBlock \in [lo : Addr, size : Nat]
  <2>1. 0 \in Addr
    <3>1. h.brk - 1 \in Addr
      BY WordsOf DEF Described, Tiling
    <3> QED BY <3>1, HeapAssumption DEF Addr
  <2> QED BY <2>1 DEF NoBlock
<1>6. b \in Blks
  BY <1>4, <1>5 DEF Blks
<1>7. \A i \in Ids : b[i] = IF i = id THEN v ELSE blk[i]
  BY DEF Blks
<1> HIDE DEF b
<1>8. ASSUME NEW i \in kept
      PROVE  b[i].lo # 2 /\ b[i].size # 0 /\ R[b[i].lo] >= b[i].size + 2
  <2>1. CASE i = id
    BY <1>4, <1>7, <2>1
  <2>2. CASE i # id
    <3>1. b[i] = blk[i] /\ i \in held /\ blk[i].lo \notin gone
      BY <1>1, <1>7, <2>2
    <3>2. blk[i].lo \in Used(S, n, L) \ gone
      BY <1>1, <3>1
    <3> QED BY <1>1, <1>2, <3>1, <3>2
  <2> QED BY <2>1, <2>2
<1>9. ASSUME NEW i \in kept, NEW j \in kept, b[i].lo = b[j].lo PROVE i = j
  <2>1. \A k \in kept : k # id => b[k] = blk[k] /\ k \in held /\ blk[k].lo \in Used(S, n, L) \ gone
    BY <1>1, <1>7
  <2>2. CASE i # id /\ j # id
    BY <1>1, <1>9, <2>1, <2>2
  <2>3. CASE i = id /\ j # id
    BY <1>7, <1>9, <2>1, <2>3
  <2>4. CASE i # id /\ j = id
    BY <1>7, <1>9, <2>1, <2>4
  <2> QED BY <2>2, <2>3, <2>4
<1>10. Used(R, m, M) = {2} \cup {b[i].lo : i \in kept}
  <2>1. {blk[i].lo : i \in held} \ gone = {b[i].lo : i \in kept \ {id}}
    <3>1. ASSUME NEW i \in held, blk[i].lo \notin gone PROVE i \in kept \ {id} /\ b[i] = blk[i]
      BY <1>7, <3>1
    <3>2. ASSUME NEW i \in kept \ {id} PROVE i \in held /\ b[i] = blk[i] /\ blk[i].lo \notin gone
      BY <1>1, <1>7
    <3> HIDE DEF held, kept
    <3> QED BY <3>1, <3>2
  <2>2. new = {b[i].lo : i \in kept \cap {id}}
    BY <1>7
  <2>3. 2 \notin gone
    BY <1>3
  <2> DEFINE had == {blk[i].lo : i \in held}
             others == {b[i].lo : i \in kept \ {id}}
             mine == {b[i].lo : i \in kept \cap {id}}
             has == {b[i].lo : i \in kept}
  <2>4. has = others \cup mine
    OBVIOUS
  <2>5. Used(S, n, L) = {2} \cup had /\ had \ gone = others /\ new = mine
    BY <1>1, <2>1, <2>2
  <2> HIDE DEF held, kept, had, others, mine, has
  <2>6. Used(R, m, M) = {2} \cup has
    BY <1>2, <2>3, <2>4, <2>5
  <2> QED BY <2>6 DEF has
<1>11. Tenants(b, R, m, M)
  BY <1>8, <1>9, <1>10 DEF Tenants
<1> QED BY <1>6, <1>11 DEF b

-----------------------------------------------------------------------------
(***************************************************************************)
(* The invariant.  With a description S, n, L of the heap, every routine   *)
(* leads to another described heap; that is why it has to say everything   *)
(* about tags, links and the client's blocks at once.                      *)
(***************************************************************************)
HeapInv(h, blk) == \E S, n, L : Described(h, S, n, L) /\ Tenants(blk, S, n, L)

Inv ==
  /\ heap \in HeapRecord
  /\ block \in Blks
  /\ todo \in Held \cup {0}
  /\ status \in {"ready", "failed", "crashed"}
  /\ total_size \in Int /\ max_total_size \in Nat
  /\ status # "failed" => HeapInv(heap, block)


\* The contents of the other payloads stay, and of this one as many words as it had and has.
OthersKeep(h, blk, g, id) ==
  \A other \in Ids \ {id} : \A k \in 1 .. blk[other].size :
    g.mem[blk[other].lo + k - 1] = h.mem[blk[other].lo + k - 1]
KeepsStart(h, old, g, v) ==
  \A k \in 1 .. v.size : k <= old.size => g.mem[v.lo + k - 1] = h.mem[old.lo + k - 1]

\* What a call does for the client: the block of id becomes v.
Served(h, blk, g, id, v) ==
  /\ [blk EXCEPT ![id] = v] \in Blks
  /\ HeapInv(g, [blk EXCEPT ![id] = v])
  /\ OthersKeep(h, blk, g, id)
  /\ KeepsStart(h, blk[id], g, v)

LEMMA OthersStay ==
  ASSUME NEW h, NEW S, NEW n, NEW L, Described(h, S, n, L), NEW blk \in Blks, Tenants(blk, S, n, L),
         NEW id \in Ids, NEW g, NEW gone, gone \subseteq {blk[id].lo},
         \A x \in Used(S, n, L) \ gone : Kept(h, g, S, x), blk[id] = NoBlock => gone = {}
  PROVE  OthersKeep(h, blk, g, id)
<1>1. ASSUME NEW other \in Ids \ {id}, NEW k \in 1 .. blk[other].size
      PROVE  g.mem[blk[other].lo + k - 1] = h.mem[blk[other].lo + k - 1]
  <2>1. blk[other] # NoBlock
    <3>1. NoBlock.size = 0
      BY DEF NoBlock
    <3> QED BY <3>1
  <2> DEFINE lo == blk[other].lo
             size == blk[other].size
  <2>2. lo \in Used(S, n, L) /\ lo \in Nat /\ size \in Nat
        /\ \A i \in 0 .. (size - 1) : lo + i \in (lo - 1) .. (lo + S[lo] - 2)
    BY <2>1, Tenant
  <2>3. lo \notin gone
    BY <2>1 DEF Tenants
  <2>4. Kept(h, g, S, lo)
    BY <2>2, <2>3
  <2>5. lo + k - 1 \in (lo - 1) .. (lo + S[lo] - 2)
    <3>1. k - 1 \in 0 .. (size - 1) /\ lo + k - 1 = lo + (k - 1)
      BY <2>2
    <3> HIDE DEF lo, size
    <3> QED BY <2>2, <3>1
  <2> HIDE DEF lo, size
  <2>6. g.mem[lo + k - 1] = h.mem[lo + k - 1]
    BY <2>4, <2>5 DEF Kept
  <2> QED BY <2>6 DEF lo
<1> QED BY <1>1 DEF OthersKeep

LEMMA Serves ==
  ASSUME NEW h, NEW S, NEW n, NEW L, Described(h, S, n, L), NEW blk \in Blks, Tenants(blk, S, n, L),
         NEW id \in Ids, NEW v, NEW g, NEW R, NEW m, NEW M, NEW gone, NEW new,
         gone = IF blk[id] = NoBlock THEN {} ELSE {blk[id].lo},
         new = IF v = NoBlock THEN {} ELSE {v.lo},
         Leads(h, S, n, L, g, R, m, M, gone, new),
         v # NoBlock => /\ v = [lo |-> v.lo, size |-> v.size] /\ v.size \in Nat \ {0}
                        /\ R[v.lo] >= v.size + 2 /\ v.lo \notin Used(S, n, L) \ gone,
         KeepsStart(h, blk[id], g, v)
  PROVE  Served(h, blk, g, id, v)
<1> DEFINE b == [blk EXCEPT ![id] = v]
<1>1. b \in Blks /\ Tenants(b, R, m, M)
  BY TenantsChange
<1> HIDE DEF b
<1>2. Described(g, R, m, M) /\ \A x \in Used(S, n, L) \ gone : Kept(h, g, S, x)
  BY DEF Leads
<1>3. HeapInv(g, b)
  BY <1>1, <1>2 DEF HeapInv
<1>4. OthersKeep(h, blk, g, id)
  BY <1>2, OthersStay
<1> QED BY <1>1, <1>3, <1>4 DEF Served, b

(***************************************************************************)
(* What the calls do for the client.                                       *)
(***************************************************************************)
LEMMA BlankStart ==
  ASSUME NEW h, NEW g, NEW v, v.size \in Nat
  PROVE  KeepsStart(h, NoBlock, g, v) /\ KeepsStart(h, v, g, NoBlock)
<1>1. NoBlock.size = 0
  BY DEF NoBlock
<1> QED BY <1>1 DEF KeepsStart

LEMMA MallocServes ==
  ASSUME NEW h, NEW blk \in Blks, HeapInv(h, blk), NEW id \in Ids, blk[id] = NoBlock,
         NEW size \in Nat \ {0}, NEW asize \in Nat, asize >= size
  PROVE  LET r == mm_malloc(h, asize)
         IN  \/ r = [heap |-> h, bp |-> NULL]
             \/ r.bp # NULL /\ Served(h, blk, r.heap, id, [lo |-> r.bp, size |-> size])
<1> DEFINE r == mm_malloc(h, asize)
<1>1. PICK S, n, L : Described(h, S, n, L) /\ Tenants(blk, S, n, L)
  BY DEF HeapInv
<1>2. ASSUME r # [heap |-> h, bp |-> NULL]
      PROVE  \E R, m, M, bp : HandsOut(h, S, n, L, r, R, m, M, bp, asize + 2)
  <2>1. asize \in Nat \ {0}
    OBVIOUS
  <2> QED BY <1>1, <1>2, <2>1, Mallocs
<1>3. ASSUME NEW R, NEW m, NEW M, NEW bp, HandsOut(h, S, n, L, r, R, m, M, bp, asize + 2)
      PROVE  r.bp # NULL /\ Served(h, blk, r.heap, id, [lo |-> r.bp, size |-> size])
  <2> DEFINE v == [lo |-> bp, size |-> size]
  <2>1. /\ r.bp = bp /\ Leads(h, S, n, L, r.heap, R, m, M, {}, {bp})
        /\ bp \notin Used(S, n, L) /\ R[bp] >= asize + 2
    BY <1>3 DEF HandsOut
  <2>2. bp \in DOMAIN R /\ Described(r.heap, R, m, M)
    BY <2>1 DEF Leads, Used
  <2>3. bp # NULL /\ R[bp] >= size + 2
    <3>1. bp \in Nat /\ R[bp] \in Nat
      BY <2>2, Tile DEF Described
    <3> QED BY <2>1, <3>1 DEF NULL
  <2>4. v # NoBlock /\ v.lo = bp /\ v.size = size
    BY DEF NoBlock
  <2>5. KeepsStart(h, blk[id], r.heap, v)
    BY <2>4, BlankStart
  <2> HIDE DEF v
  <2>6. v = [lo |-> v.lo, size |-> v.size]
    BY <2>4 DEF v
  <2> HIDE DEF r
  <2>7. Served(h, blk, r.heap, id, v)
    BY <1>1, <2>1, <2>3, <2>4, <2>5, <2>6, Serves
  <2> QED BY <2>1, <2>3, <2>7 DEF v
<1> HIDE DEF r
<1>4. \/ r = [heap |-> h, bp |-> NULL]
      \/ r.bp # NULL /\ Served(h, blk, r.heap, id, [lo |-> r.bp, size |-> size])
  BY <1>2, <1>3
<1> QED BY <1>4 DEF r

LEMMA FreeServes ==
  ASSUME NEW h, NEW blk \in Blks, HeapInv(h, blk), NEW id \in Ids, blk[id] # NoBlock
  PROVE  Served(h, blk, mm_free(h, blk[id].lo), id, NoBlock)
<1>1. PICK S, n, L : Described(h, S, n, L) /\ Tenants(blk, S, n, L)
  BY DEF HeapInv
<1> DEFINE lo == blk[id].lo
           g == mm_free(h, lo)
<1>2. lo \in Used(S, n, L) /\ lo # 2 /\ blk[id].size \in Nat
  BY <1>1, Tenant
<1>3. PICK R, m, M : \A x : Described(x, S, n, L) => Leads(x, S, n, L, mm_free(x, lo), R, m, M, {lo}, {})
  BY <1>2, Frees
<1>4. Leads(h, S, n, L, g, R, m, M, {lo}, {})
  BY <1>1, <1>3
<1>5. KeepsStart(h, blk[id], g, NoBlock)
  BY <1>2, BlankStart
<1> HIDE DEF g
<1>6. Served(h, blk, g, id, NoBlock)
  BY <1>1, <1>4, <1>5, Serves
<1> QED BY <1>6 DEF g

LEMMA ReallocServes ==
  ASSUME NEW h, NEW blk \in Blks, HeapInv(h, blk), NEW id \in Ids, blk[id] # NoBlock,
         NEW size \in Nat \ {0}
  PROVE  LET r == mm_realloc(h, blk[id].lo, size)
         IN  \/ r.crash /\ r.heap = h
             \/ ~r.crash /\ r.bp # NULL /\ Served(h, blk, r.heap, id, [lo |-> r.bp, size |-> size])
<1>1. PICK S, n, L : Described(h, S, n, L) /\ Tenants(blk, S, n, L)
  BY DEF HeapInv
<1> DEFINE ptr == blk[id].lo
           old == blk[id].size
           r == mm_realloc(h, ptr, size)
           v == [lo |-> r.bp, size |-> size]
<1>2. ptr \in Used(S, n, L) /\ ptr # 2 /\ old \in Nat /\ S[ptr] \in Nat /\ S[ptr] >= old + 2 /\ ptr \in Nat
  BY <1>1, Tenant
<1>3. \/ r = [heap |-> h, bp |-> NULL, crash |-> TRUE]
      \/ \E R, m, M, bp : (bp = ptr \/ bp \notin Used(S, n, L))
                          /\ Answered(h, S, n, L, r, R, m, M, ptr, bp, size + 2)
  <2> HIDE DEF ptr
  <2> QED BY <1>1, <1>2, Reallocs
<1>4. ASSUME r = [heap |-> h, bp |-> NULL, crash |-> TRUE] PROVE r.crash /\ r.heap = h
  BY <1>4
<1>5. ASSUME NEW R, NEW m, NEW M, NEW bp, bp = ptr \/ bp \notin Used(S, n, L),
             Answered(h, S, n, L, r, R, m, M, ptr, bp, size + 2)
      PROVE  ~r.crash /\ r.bp # NULL /\ Served(h, blk, r.heap, id, v)
  <2>1. /\ ~r.crash /\ r.bp = bp /\ Leads(h, S, n, L, r.heap, R, m, M, {ptr}, {bp})
        /\ R[bp] >= size + 2
        /\ \A i \in Nat : i < S[ptr] - 2 /\ i < R[bp] - 2 => r.heap.mem[bp + i] = h.mem[ptr + i]
    BY <1>5 DEF Answered, Resized
  <2>2. bp \in DOMAIN R /\ Described(r.heap, R, m, M)
    BY <2>1 DEF Leads, Used
  <2>3. bp # NULL /\ bp \in Nat /\ R[bp] \in Nat
    BY <2>2, Tile DEF NULL, Described
  <2>4. v # NoBlock /\ v.lo = bp /\ v.size = size
    BY <2>1 DEF NoBlock
  <2>5. v = [lo |-> v.lo, size |-> v.size]
    OBVIOUS
  <2> HIDE DEF v, r, ptr, old
  <2>6. KeepsStart(h, blk[id], r.heap, v)
    <3>1. ASSUME NEW k \in 1 .. v.size, k <= old
          PROVE  r.heap.mem[bp + k - 1] = h.mem[ptr + k - 1]
      <4>1. /\ k - 1 \in Nat /\ k - 1 < S[ptr] - 2 /\ k - 1 < R[bp] - 2
            /\ bp + k - 1 = bp + (k - 1) /\ ptr + k - 1 = ptr + (k - 1)
        BY <1>2, <2>1, <2>3, <2>4, <3>1
      <4> QED BY <2>1, <4>1
    <3> QED BY <2>4, <3>1 DEF KeepsStart, ptr, old
  <2>7. bp \notin Used(S, n, L) \ {ptr}
    BY <1>5
  <2>8. Served(h, blk, r.heap, id, v)
    BY <1>1, <2>1, <2>4, <2>5, <2>6, <2>7, Serves DEF ptr
  <2> QED BY <2>1, <2>3, <2>8
<1> HIDE DEF r, v
<1>6. \/ r.crash /\ r.heap = h
      \/ ~r.crash /\ r.bp # NULL /\ Served(h, blk, r.heap, id, v)
  BY <1>3, <1>4, <1>5
<1> QED BY <1>6 DEF r, v

LEMMA FillServes ==
  ASSUME NEW h, NEW blk \in Blks, HeapInv(h, blk), NEW id \in Ids, blk[id] # NoBlock, NEW w \in Nat
  PROVE  LET payload == blk[id].lo .. (blk[id].lo + blk[id].size - 1)
             g == [h EXCEPT !.mem = Stored(h.mem, [a \in payload |-> w])]
         IN  HeapInv(g, blk) /\ OthersKeep(h, blk, g, id)
<1> DEFINE lo == blk[id].lo
           size == blk[id].size
           payload == lo .. (lo + size - 1)
           words == [a \in payload |-> w]
           mem == Stored(h.mem, words)
           g == [h EXCEPT !.mem = mem]
<1>1. PICK S, n, L : Described(h, S, n, L) /\ Tenants(blk, S, n, L)
  BY DEF HeapInv
<1>2. lo \in Used(S, n, L) /\ lo \in Nat /\ size \in Nat /\ S[lo] \in Nat /\ S[lo] >= size + 2
  BY <1>1, Tenant
<1>3. h \in HeapRecord
  BY <1>1 DEF Described
<1>10. mem = [a \in Addr |-> IF a \in payload THEN w ELSE h.mem[a]]
  <2>5. \A k \in 0 .. (size - 1) : lo + k \in Addr
    BY <1>1, Tenant
  <2> HIDE DEF lo, size
  <2>1. payload \subseteq Addr
    <3> SUFFICES ASSUME NEW a \in payload PROVE a \in Addr
      OBVIOUS
    <3>1. a - lo \in 0 .. (size - 1) /\ lo + (a - lo) = a
      BY <1>2
    <3> QED BY <2>5, <3>1
  <2>2. DOMAIN words = payload /\ \A a \in payload : words[a] = w
    OBVIOUS
  <2>3. h.mem \in [Addr -> Nat]
    BY <1>3 DEF HeapRecord
  <2> HIDE DEF words, payload
  <2>4. mem = [a \in Addr |-> IF a \in DOMAIN words THEN words[a] ELSE h.mem[a]]
    BY <2>1, <2>2, <2>3, StoredWords
  <2> QED BY <2>2, <2>4
<1> HIDE DEF words, mem
<1>4. mem \in [Addr -> Nat]
  BY <1>3, <1>10 DEF HeapRecord
<1>5. \A a \in Addr : ~(a \in lo .. (lo + S[lo] - 3)) => mem[a] = h.mem[a]
  <2>1. payload \subseteq lo .. (lo + S[lo] - 3)
    <3> HIDE DEF lo, size
    <3> QED BY <1>2
  <2> HIDE DEF payload
  <2> QED BY <1>10, <2>1
<1>6. g \in HeapRecord /\ g.mem = mem /\ g.brk = h.brk /\ g.hd_free = h.hd_free /\ g.ft_free = h.ft_free
  BY <1>3, <1>4 DEF HeapRecord
<1> HIDE DEF g
<1>7. Leads(h, S, n, L, g, S, n, L, {lo}, {lo})
  BY <1>1, <1>2, <1>5, <1>6, PayloadWrites
<1>8. HeapInv(g, blk)
  BY <1>1, <1>7 DEF HeapInv, Leads
<1>9. OthersKeep(h, blk, g, id)
  BY <1>1, <1>7, OthersStay DEF Leads
<1> QED BY <1>8, <1>9 DEF g, mem, words

-----------------------------------------------------------------------------
(***************************************************************************)
(* Every step of the client is one of three: a call served it, and the     *)
(* block of id becomes v; a call failed or crashed and changed no heap; or *)
(* it fills a payload.                                                     *)
(***************************************************************************)
CallServed(id, v) ==
  /\ status = "ready" /\ status' = "ready" /\ todo = 0
  /\ Served(heap, block, heap', id, v)
  /\ block' = [block EXCEPT ![id] = v]
  /\ \/ v = NoBlock /\ todo' = 0
     \/ v.size \in Nat \ {0} /\ todo' = id
  /\ Count(Grows(id, v.size))

CallFailed ==
  /\ status = "ready" /\ status' \in {"ready", "crashed"}
  /\ UNCHANGED <<heap, block, todo, sums>>

LEMMA Counts ==
  ASSUME Inv, NEW more \in Int, Count(more)
  PROVE  total_size' \in Int /\ max_total_size' \in Nat
<1>1. total_size \in Int /\ max_total_size \in Nat
  BY DEF Inv
<1>2. total_size' = total_size + more
      /\ max_total_size' = IF total_size' > max_total_size THEN total_size' ELSE max_total_size
  BY DEF Count
<1> QED BY <1>1, <1>2

LEMMA GrowsType ==
  ASSUME Inv, NEW id \in Ids, NEW size \in Nat
  PROVE  Grows(id, size) \in Int
<1>1. block[id].size \in Nat
  BY DEF Inv, Blks
<1> QED BY <1>1 DEF Grows

LEMMA Received ==
  ASSUME Inv, NEW id \in Ids, NEW size \in Nat \ {0}, NEW bp, Turn, Receive(id, bp, size),
         UNCHANGED status, bp = NULL => heap' = heap,
         bp # NULL => Served(heap, block, heap', id, [lo |-> bp, size |-> size])
  PROVE  CallFailed \/ \E v : CallServed(id, v)
<1>1. CASE bp = NULL
  <2>1. UNCHANGED <<block, todo, sums>>
    BY <1>1 DEF Receive
  <2> QED BY <1>1, <2>1 DEF CallFailed, Turn
<1>2. CASE bp # NULL
  <2> DEFINE v == [lo |-> bp, size |-> size]
  <2>1. block' = [block EXCEPT ![id] = v] /\ todo' = id /\ Count(Grows(id, size))
    BY <1>2 DEF Receive
  <2>2. v.size = size /\ Served(heap, block, heap', id, v)
    BY <1>2
  <2> HIDE DEF v
  <2>3. CallServed(id, v)
    BY <2>1, <2>2 DEF CallServed, Turn
  <2> QED BY <2>3
<1> QED BY <1>1, <1>2

LEMMA Returned ==
  ASSUME Inv, NEW id \in Ids, Turn, Count(Grows(id, 0)), UNCHANGED <<todo, status>>,
         block' = [block EXCEPT ![id] = NoBlock], Served(heap, block, heap', id, NoBlock)
  PROVE  CallServed(id, NoBlock)
BY DEF CallServed, Turn, NoBlock

LEMMA AllocateIs ==
  ASSUME Inv, NEW id \in Ids, NEW size \in Sizes, Allocate(id, size)
  PROVE  CallFailed \/ \E v : CallServed(id, v)
<1> DEFINE r == mm_malloc(heap, size)
<1>1. /\ Turn /\ id \notin Held /\ heap' = r.heap /\ Receive(id, r.bp, size) /\ UNCHANGED status
      /\ block \in Blks /\ HeapInv(heap, block) /\ size \in Nat \ {0}
  BY ClientAssumption DEF Allocate, Inv, Turn
<1>2. \/ r = [heap |-> heap, bp |-> NULL]
      \/ r.bp # NULL /\ Served(heap, block, r.heap, id, [lo |-> r.bp, size |-> size])
  BY <1>1, MallocServes DEF Held
<1> HIDE DEF r
<1> QED BY <1>1, <1>2, Received

LEMMA ReallocateIs ==
  ASSUME Inv, NEW id \in Ids, NEW size \in Sizes \cup {0}, Reallocate(id, size)
  PROVE  CallFailed \/ \E v : CallServed(id, v)
<1> DEFINE ptr == IF id \in Held THEN block[id].lo ELSE NULL
           r == mm_realloc(heap, ptr, size)
<1>1. /\ Turn /\ heap' = r.heap
      /\ \/ r.crash /\ status' = "crashed" /\ UNCHANGED <<block, todo, sums>>
         \/ ~r.crash /\ size # 0 /\ Receive(id, r.bp, size) /\ UNCHANGED status
         \/ /\ ~r.crash /\ size = 0 /\ block' = [block EXCEPT ![id] = NoBlock]
            /\ Count(Grows(id, 0)) /\ UNCHANGED <<todo, status>>
  BY DEF Reallocate
<1>2. block \in Blks /\ HeapInv(heap, block) /\ size \in Nat /\ (id \in Held => ptr # NULL)
  <2>1. block \in Blks /\ HeapInv(heap, block) /\ size \in Nat
    BY <1>1, ClientAssumption DEF Inv, Turn
  <2>2. block[id].lo \in Nat
    BY <2>1 DEF Blks, Addr
  <2>3. block[id].lo # NULL
    BY <2>2 DEF NULL
  <2> QED BY <2>1, <2>3
<1>3. CASE id \notin Held /\ size = 0
  <2>1. r = [heap |-> heap, bp |-> NULL, crash |-> TRUE]
    BY <1>3 DEF mm_realloc
  <2>2. r.crash /\ r.heap = heap
    BY <2>1
  <2> HIDE DEF r
  <2>3. CallFailed
    BY <1>1, <2>2 DEF CallFailed, Turn
  <2> QED BY <2>3
<1>4. CASE id \notin Held /\ size # 0
  <2> DEFINE asize == AlignedSize(size)
             q == mm_malloc(heap, asize)
  <2>1. r = [heap |-> q.heap, bp |-> q.bp, crash |-> FALSE]
    BY <1>4 DEF mm_realloc
  <2>2. size \in Nat \ {0} /\ asize \in Nat \ {0} /\ asize >= size
    BY <1>2, <1>4, Aligns
  <2> HIDE DEF asize
  <2>3. \/ q = [heap |-> heap, bp |-> NULL]
        \/ q.bp # NULL /\ Served(heap, block, q.heap, id, [lo |-> q.bp, size |-> size])
    BY <1>2, <1>4, <2>2, MallocServes DEF Held
  <2>4. ~r.crash /\ r.heap = q.heap /\ r.bp = q.bp
    BY <2>1
  <2> HIDE DEF r, q
  <2>5. heap' = q.heap /\ Receive(id, q.bp, size) /\ UNCHANGED status
    BY <1>1, <1>4, <2>4
  <2> QED BY <1>1, <2>2, <2>3, <2>5, Received
<1>5. CASE id \in Held /\ size = 0
  <2> DEFINE g == mm_free(heap, block[id].lo)
  <2>1. r = [heap |-> g, bp |-> ptr, crash |-> FALSE]
    BY <1>2, <1>5 DEF mm_realloc
  <2>2. ~r.crash /\ r.heap = g
    BY <2>1
  <2>3. Served(heap, block, g, id, NoBlock)
    BY <1>2, <1>5, FreeServes DEF Held
  <2> HIDE DEF r, g
  <2>4. CallServed(id, NoBlock)
    BY <1>1, <1>5, <2>2, <2>3, Returned
  <2> QED BY <2>4
<1>6. CASE id \in Held /\ size # 0
  <2>1. \/ r.crash /\ r.heap = heap
        \/ ~r.crash /\ r.bp # NULL /\ Served(heap, block, r.heap, id, [lo |-> r.bp, size |-> size])
    BY <1>2, <1>6, ReallocServes DEF Held
  <2> HIDE DEF r
  <2>2. CASE r.crash /\ r.heap = heap
    BY <1>1, <2>2 DEF CallFailed, Turn
  <2>3. CASE ~r.crash /\ r.bp # NULL /\ Served(heap, block, r.heap, id, [lo |-> r.bp, size |-> size])
    BY <1>1, <1>2, <1>6, <2>3, Received
  <2> QED BY <2>1, <2>2, <2>3
<1> QED BY <1>3, <1>4, <1>5, <1>6

LEMMA ReleaseIs ==
  ASSUME Inv, NEW id \in Ids, Release(id)
  PROVE  CallServed(id, NoBlock)
<1>1. /\ Turn /\ id \in Held /\ heap' = mm_free(heap, block[id].lo)
      /\ block' = [block EXCEPT ![id] = NoBlock] /\ Count(Grows(id, 0)) /\ UNCHANGED <<todo, status>>
      /\ block \in Blks /\ HeapInv(heap, block)
  BY DEF Release, Inv, Turn
<1>2. Served(heap, block, mm_free(heap, block[id].lo), id, NoBlock)
  BY <1>1, FreeServes DEF Held
<1> QED BY <1>1, <1>2, Returned

LEMMA FillIs ==
  ASSUME Inv, Fill
  PROVE  /\ todo \in Ids /\ block[todo] # NoBlock /\ todo' = 0 /\ UNCHANGED <<block, status, sums>>
         /\ status = "ready" /\ HeapInv(heap', block) /\ OthersKeep(heap, block, heap', todo)
<1>1. /\ status = "ready" /\ todo # 0 /\ todo' = 0 /\ UNCHANGED <<block, status, sums>>
      /\ heap' = LET payload == block[todo].lo .. (block[todo].lo + block[todo].size - 1)
                 IN  [heap EXCEPT !.mem = Stored(heap.mem, [a \in payload |-> todo])]
  BY DEF Fill
<1>2. todo \in Ids /\ block[todo] # NoBlock /\ todo \in Nat /\ block \in Blks /\ HeapInv(heap, block)
  BY <1>1, ClientAssumption DEF Inv, Held
<1> QED BY <1>1, <1>2, FillServes

LEMMA NextIs ==
  ASSUME Inv, Next
  PROVE  CallFailed \/ Fill \/ \E id \in Ids : \E v : CallServed(id, v)
BY AllocateIs, ReallocateIs, ReleaseIs DEF Next

LEMMA HeapInvRecord ==
  ASSUME NEW h, NEW blk, HeapInv(h, blk)
  PROVE  h \in HeapRecord
BY DEF HeapInv, Described

(***************************************************************************)
(* mm_init leaves a described heap in which only the prologue is in use,   *)
(* whatever was in the memory.                                             *)
(***************************************************************************)
LEMMA InitInv ==
  ASSUME Init
  PROVE  Inv
<1>1. /\ \E g \in Garbage :
           LET r == mm_init([a \in Addr |-> g])
           IN  heap = r.heap /\ status = IF r.ok THEN "ready" ELSE "failed"
      /\ block = [id \in Ids |-> NoBlock] /\ todo = 0 /\ total_size = 0 /\ max_total_size = 0
  BY DEF Init
<1>2. PICK g \in Garbage : LET r == mm_init([a \in Addr |-> g])
                           IN  heap = r.heap /\ status = IF r.ok THEN "ready" ELSE "failed"
  BY <1>1
<1> DEFINE mem == [a \in Addr |-> g]
           r == mm_init(mem)
<1>3. heap = r.heap /\ status = IF r.ok THEN "ready" ELSE "failed"
  BY <1>2
<1>4. mem \in [Addr -> Nat]
  BY ClientAssumption
<1> HIDE DEF mem
<1>5. Started(r)
  BY <1>4, Starts
<1> HIDE DEF r
<1>6. heap \in HeapRecord
  BY <1>3, <1>5 DEF Started
<1>7. block \in Blks
  <2>1. 0 \in Addr
    BY HeapAssumption DEF Addr
  <2> QED BY <1>1, <2>1 DEF Blks, NoBlock
<1>8. ASSUME status # "failed" PROVE HeapInv(heap, block)
  <2>1. PICK S, n, L : Described(heap, S, n, L) /\ Used(S, n, L) = {heap_listp}
    BY <1>3, <1>5, <1>8 DEF Started
  <2>2. \A id \in Ids : block[id] = NoBlock
    BY <1>1
  <2>3. Tenants(block, S, n, L)
    BY <2>1, <2>2 DEF Tenants, heap_listp, DSIZE
  <2> QED BY <2>1, <2>3 DEF HeapInv
<1> QED BY <1>1, <1>3, <1>6, <1>7, <1>8 DEF Inv

(***************************************************************************)
(* Every step keeps the description, and the client's blocks in it.        *)
(***************************************************************************)
LEMMA NextInv ==
  ASSUME Inv, [Next]_vars
  PROVE  Inv'
<1>1. ASSUME NEW id \in Ids, NEW v, CallServed(id, v) PROVE Inv'
  <2>1. /\ status' = "ready" /\ block' \in Blks /\ HeapInv(heap', block')
        /\ block' = [block EXCEPT ![id] = v]
        /\ \/ v = NoBlock /\ todo' = 0
           \/ v.size \in Nat \ {0} /\ todo' = id
        /\ total_size' \in Int /\ max_total_size' \in Nat
    <3>1. v.size \in Nat /\ Count(Grows(id, v.size))
      BY <1>1 DEF CallServed, NoBlock
    <3>2. total_size' \in Int /\ max_total_size' \in Nat
      BY <3>1, Counts, GrowsType
    <3> QED BY <1>1, <3>2 DEF CallServed, Served
  <2>2. heap' \in HeapRecord
    BY <2>1, HeapInvRecord
  <2>3. todo' \in Held' \cup {0}
    <3>1. CASE v.size # 0 /\ todo' = id
      <4>1. block'[id] = v /\ v # NoBlock
        BY <2>1, <3>1 DEF Inv, Blks, NoBlock
      <4> QED BY <3>1, <4>1 DEF Held
    <3> QED BY <2>1, <3>1
  <2> QED BY <2>1, <2>2, <2>3 DEF Inv
<1>2. ASSUME CallFailed PROVE Inv'
  BY <1>2 DEF CallFailed, Inv, Held, sums
<1>3. ASSUME Fill PROVE Inv'
  <2>1. /\ todo' = 0 /\ UNCHANGED <<block, status, sums>> /\ HeapInv(heap', block')
    BY <1>3, FillIs
  <2>2. heap' \in HeapRecord
    BY <2>1, HeapInvRecord
  <2> QED BY <2>1, <2>2 DEF Inv, sums
<1>4. ASSUME UNCHANGED vars PROVE Inv'
  BY <1>4 DEF vars, sums, Inv, Held
<1> QED BY <1>1, <1>2, <1>3, <1>4, NextIs

(***************************************************************************)
(* Inv holds after every call of mm_malloc, mm_free and mm_realloc.        *)
(***************************************************************************)
THEOREM AlwaysInv == Spec => []Inv
BY InitInv, NextInv, PTL DEF Spec

-----------------------------------------------------------------------------
(* What the invariant says of the heap                                     *)

LEMMA FreeIs ==
  ASSUME NEW S, NEW n, NEW L, Described(heap, S, n, L)
  PROVE  Blocks = DOMAIN S /\ Free = Listed(n, L)
<1>1. Blocks = DOMAIN S
  BY BlocksAre DEF Blocks
<1>2. Listed(n, L) \subseteq DOMAIN S /\ \A b \in DOMAIN S : IsAlloc(heap, b) <=> b \notin Listed(n, L)
  BY DescribedBlocks DEF Described
<1> QED BY <1>1, <1>2 DEF Free

(***************************************************************************)
(* TypeOK: no routine writes outside the memory or a negative word.        *)
(***************************************************************************)
THEOREM TypeCorrect == Spec => []TypeOK
<1>1. Inv => TypeOK
  <2> SUFFICES ASSUME Inv PROVE TypeOK
    OBVIOUS
  <2>1. /\ DOMAIN heap = {"mem", "brk", "hd_free", "ft_free"} /\ heap.mem \in [Addr -> Nat]
        /\ heap.brk \in 0 .. MAX_HEAP /\ {heap.hd_free, heap.ft_free} \subseteq Addr \cup {NULL}
    BY DEF Inv, HeapRecord
  <2> QED BY <2>1 DEF TypeOK, Inv, Blks, Held
<1> QED BY <1>1, AlwaysInv, PTL

(***************************************************************************)
(* TagsAgree: the tags that place, coalesce, shrink and grow write, and    *)
(* the epilogue that extend_heap moves, always make up a whole heap.       *)
(***************************************************************************)
THEOREM TagsAlwaysAgree == Spec => []TagsAgree
<1>1. Inv => TagsAgree
  <2> SUFFICES ASSUME Inv, Ready PROVE TagsAgree
    BY DEF TagsAgree
  <2>1. PICK S, n, L : Described(heap, S, n, L)
    BY DEF Inv, Ready, HeapInv
  <2>2. Tiling(S, heap.brk) /\ TagsBut(heap, S, Listed(n, L), {}) /\ Epilogue(heap) /\ Blocks = DOMAIN S
    BY <2>1, FreeIs DEF Described
  <2>3. ASSUME NEW bp \in Blocks
        PROVE  /\ SizeOf(heap, bp) % 2 = 0
               /\ bp # Prologue => SizeOf(heap, bp) >= MINBLOCK
               /\ NEXT_BLKP(heap, bp) <= heap.brk
               /\ heap.mem[FTRP(heap, bp)] = heap.mem[HDRP(bp)]
    <3>1. SizeOf(heap, bp) = S[bp] /\ NEXT_BLKP(heap, bp) = bp + S[bp] /\ FTRP(heap, bp) = bp + S[bp] - 2
      BY <2>1, <2>2, DescribedBlocks
    <3>2. S[bp] % 2 = 0 /\ (bp # 2 => S[bp] >= 4) /\ bp + S[bp] <= heap.brk
      BY <2>2, Tile
    <3>3. heap.mem[bp - 1] = heap.mem[bp + S[bp] - 2]
      BY <2>2 DEF TagsBut
    <3> QED BY <3>1, <3>2, <3>3 DEF Prologue, heap_listp, DSIZE, MINBLOCK, HDRP
  <2>4. heap.brk \in {NEXT_BLKP(heap, bp) : bp \in Blocks}
    <3>1. heap.brk # 2
      <4>1. 2 \in DOMAIN S
        BY <2>2 DEF Tiling, heap_listp, DSIZE
      <4>2. 2 + S[2] <= heap.brk /\ S[2] \in Nat /\ S[2] >= 2
        BY <2>2, <4>1, Tile
      <4> QED BY <4>2
    <3>2. PICK a \in DOMAIN S : a + S[a] = heap.brk
      BY <2>2, <3>1 DEF Tiling, heap_listp, DSIZE
    <3>3. NEXT_BLKP(heap, a) = heap.brk
      BY <2>1, <3>2, DescribedBlocks
    <3> QED BY <2>2, <3>3
  <2>5. heap.mem[HDRP(heap.brk)] = PACK(0, 1)
    BY <2>2 DEF Epilogue, HDRP, PACK
  <2> QED BY <2>3, <2>4, <2>5 DEF TagsAgree
<1> QED BY <1>1, AlwaysInv, PTL

(***************************************************************************)
(* FreeListExact: insert_free_block, replace_free_block and                *)
(* remove_free_block keep the list and the tags in step.                   *)
(***************************************************************************)
THEOREM FreeListAlwaysExact == Spec => []FreeListExact
<1>1. Inv => FreeListExact
  <2> DEFINE nth == FreeBlocks(heap)
             listed == {nth[k] : k \in DOMAIN nth} \ {NULL}
  <2> SUFFICES ASSUME Inv, Ready
               PROVE  /\ listed = Free
                      /\ heap.hd_free = NULL <=> heap.ft_free = NULL
                      /\ heap.hd_free # NULL => prev_free_block(heap, heap.hd_free) = NULL
                      /\ heap.ft_free # NULL => next_free_block(heap, heap.ft_free) = NULL
                      /\ \A bp \in Free \ {heap.ft_free} :
                           prev_free_block(heap, next_free_block(heap, bp)) = bp
    BY DEF FreeListExact
  <2>1. PICK S, n, L : Described(heap, S, n, L)
    BY DEF Inv, Ready, HeapInv
  <2>2. heap \in HeapRecord /\ List(n, L) /\ Links(heap, n, L) /\ n \in Nat
    BY <2>1 DEF Described, List
  <2>3. Free = Listed(n, L)
    BY <2>1, FreeIs
  <2>4. \A k \in 1 .. n : L[k] # NULL
    <3>1. \A k \in 1 .. n : L[k] \in LinkPlace
      BY <2>2 DEF List
    <3> QED BY <3>1 DEF LinkPlace, NULL
  <2>5. listed = Free
    <3>1. n \in 0 .. MaxBlocks /\ MaxBlocks \in Nat
      BY <2>1, ListBound, MaxBlocksType
    <3>2. nth = [k \in 0 .. MaxBlocks |-> IF k < n THEN L[k + 1] ELSE NULL]
      BY <2>1, WalksList
    <3> HIDE DEF nth
    <3>3. ASSUME NEW k \in DOMAIN nth, nth[k] # NULL PROVE nth[k] \in Listed(n, L)
      <4>1. k + 1 \in 1 .. n /\ nth[k] = L[k + 1]
        BY <3>1, <3>2, <3>3
      <4> QED BY <4>1 DEF Listed
    <3>4. ASSUME NEW k \in 1 .. n PROVE L[k] \in listed
      <4>1. k - 1 \in 0 .. MaxBlocks /\ k - 1 < n /\ (k - 1) + 1 = k
        BY <3>1
      <4>2. nth[k - 1] = L[k]
        BY <3>2, <4>1
      <4> QED BY <2>4, <3>2, <4>1, <4>2
    <3> QED BY <2>3, <3>3, <3>4 DEF Listed
  <2> HIDE DEF listed
  <2>6. CASE n = 0
    <3>1. heap.hd_free = NULL /\ heap.ft_free = NULL /\ Listed(n, L) = {}
      BY <2>2, <2>6 DEF Links, Listed
    <3> QED BY <2>3, <2>5, <3>1
  <2>7. CASE n # 0
    <3>1. 1 \in 1 .. n /\ n \in 1 .. n
      BY <2>2, <2>7
    <3>2. heap.hd_free = L[1] /\ heap.ft_free = L[n]
      BY <2>2, <2>7 DEF Links
    <3>3. prev_free_block(heap, L[1]) = NULL /\ next_free_block(heap, L[n]) = NULL
      BY <2>2, <3>1, LinkReads
    <3>4. ASSUME NEW bp \in Free \ {heap.ft_free}
          PROVE  prev_free_block(heap, next_free_block(heap, bp)) = bp
      <4>1. PICK j \in 1 .. n : bp = L[j] /\ j # n
        BY <2>3, <3>2 DEF Listed
      <4>2. j + 1 \in 1 .. n /\ j + 1 # 1 /\ (j + 1) - 1 = j
        BY <2>2, <4>1
      <4>3. next_free_block(heap, bp) = L[j + 1]
        BY <2>2, <4>1, LinkReads
      <4>4. prev_free_block(heap, L[j + 1]) = L[(j + 1) - 1]
        BY <2>2, <4>2, LinkReads
      <4> QED BY <4>1, <4>2, <4>3, <4>4
    <3> QED BY <2>4, <2>5, <3>1, <3>2, <3>3, <3>4
  <2> QED BY <2>6, <2>7
<1> QED BY <1>1, AlwaysInv, PTL

(***************************************************************************)
(* NoFreeNeighbours: whatever frees a block merges it with both sides.     *)
(***************************************************************************)
THEOREM NeverFreeNeighbours == Spec => []NoFreeNeighbours
<1>1. Inv => NoFreeNeighbours
  <2> SUFFICES ASSUME Inv, Ready, NEW bp \in Free PROVE NEXT_BLKP(heap, bp) \notin Free
    BY DEF NoFreeNeighbours
  <2>1. PICK S, n, L : Described(heap, S, n, L)
    BY DEF Inv, Ready, HeapInv
  <2>2. Free = Listed(n, L) /\ Listed(n, L) \subseteq DOMAIN S /\ Apartness(S, Listed(n, L))
    BY <2>1, FreeIs DEF Described
  <2>3. NEXT_BLKP(heap, bp) = bp + S[bp]
    BY <2>1, <2>2, DescribedBlocks
  <2> QED BY <2>2, <2>3 DEF Apartness
<1> QED BY <1>1, AlwaysInv, PTL

(***************************************************************************)
(* NothingLeaks: mm_free and mm_realloc give back all a client no longer   *)
(* holds, and mm_malloc and mm_realloc hand out blocks that are not in use *)
(* and have room for the payload and both tags.                            *)
(***************************************************************************)
THEOREM NothingEverLeaks == Spec => []NothingLeaks
<1>1. Inv => NothingLeaks
  <2> SUFFICES ASSUME Inv, Ready PROVE NothingLeaks
    BY DEF NothingLeaks
  <2>1. PICK S, n, L : Described(heap, S, n, L) /\ Tenants(block, S, n, L)
    BY DEF Inv, Ready, HeapInv
  <2>2. Free = Listed(n, L) /\ Blocks = DOMAIN S /\ block \in Blks
    BY <2>1, FreeIs DEF Inv
  <2>3. Used(S, n, L) = {2} \cup {block[id].lo : id \in Held} /\ \A id \in Held : block[id].lo # 2
    BY <2>1 DEF Tenants, Held
  <2>4. Blocks \ (Free \cup {Prologue}) = {block[id].lo : id \in Held}
    BY <2>2, <2>3 DEF Used, Prologue, heap_listp, DSIZE
  <2>5. ASSUME NEW id \in Held PROVE SizeOf(heap, block[id].lo) >= block[id].size + DSIZE
    <3>1. /\ block[id].lo \in DOMAIN S /\ S[block[id].lo] >= block[id].size + 2
      BY <2>1, <2>2, Tenant DEF Held
    <3>2. SizeOf(heap, block[id].lo) = S[block[id].lo]
      BY <2>1, <3>1, DescribedBlocks
    <3> QED BY <3>1, <3>2 DEF DSIZE
  <2> QED BY <2>4, <2>5 DEF NothingLeaks
<1> QED BY <1>1, AlwaysInv, PTL

-----------------------------------------------------------------------------
(* What the invariant says to the client                                   *)

Content(h, blk) == [id \in Ids |-> [k \in 1 .. blk[id].size |-> h.mem[blk[id].lo + k - 1]]]

LEMMA OthersContent ==
  ASSUME NEW h, NEW g, NEW blk, NEW b, NEW id, OthersKeep(h, blk, g, id), NEW other \in Ids \ {id},
         b[other] = blk[other]
  PROVE  Content(g, b)[other] = Content(h, blk)[other]
<1>1. \A k \in 1 .. blk[other].size : g.mem[blk[other].lo + k - 1] = h.mem[blk[other].lo + k - 1]
  BY DEF OthersKeep
<1> QED BY <1>1 DEF Content

LEMMA PayloadsApart ==
  ASSUME NEW h, NEW blk \in Blks, HeapInv(h, blk), NEW id \in Ids, blk[id] # NoBlock
  PROVE  /\ blk[id].lo % 2 = 0
         /\ blk[id].lo .. (blk[id].lo + blk[id].size - 1) \subseteq 0 .. (MAX_HEAP - 1)
         /\ \A other \in Ids \ {id} :
              (blk[id].lo .. (blk[id].lo + blk[id].size - 1))
                \cap (blk[other].lo .. (blk[other].lo + blk[other].size - 1)) = {}
<1>1. PICK S, n, L : Described(h, S, n, L) /\ Tenants(blk, S, n, L)
  BY DEF HeapInv
<1> DEFINE Is(i) == /\ blk[i].lo \in DOMAIN S /\ blk[i].lo \in Nat /\ blk[i].lo % 2 = 0
                    /\ blk[i].size \in Nat /\ S[blk[i].lo] \in Nat /\ S[blk[i].lo] >= blk[i].size + 2
<1>2. ASSUME NEW i \in Ids, blk[i] # NoBlock PROVE Is(i)
  BY <1>1, <1>2, Tenant
<1>3. blk[id].lo .. (blk[id].lo + blk[id].size - 1) \subseteq 0 .. (MAX_HEAP - 1)
  <2> DEFINE lo == blk[id].lo
             size == blk[id].size
  <2>1. \A k \in 0 .. (size - 1) : lo + k \in 0 .. (MAX_HEAP - 1)
    BY <1>1, Tenant DEF Addr
  <2>2. lo \in Nat /\ size \in Nat
    BY <1>2
  <2> HIDE DEF lo, size
  <2>3. ASSUME NEW a \in lo .. (lo + size - 1) PROVE a \in 0 .. (MAX_HEAP - 1)
    <3>1. a - lo \in 0 .. (size - 1) /\ lo + (a - lo) = a
      BY <2>2
    <3> QED BY <2>1, <3>1
  <2> QED BY <2>3 DEF lo, size
<1>4. ASSUME NEW other \in Ids \ {id}
      PROVE  (blk[id].lo .. (blk[id].lo + blk[id].size - 1))
                \cap (blk[other].lo .. (blk[other].lo + blk[other].size - 1)) = {}
  <2>1. CASE blk[other] = NoBlock
    BY <2>1 DEF NoBlock
  <2>2. CASE blk[other] # NoBlock
    <3>1. blk[id].lo # blk[other].lo
      BY <1>1, <2>2 DEF Tenants
    <3>2. Is(id) /\ Is(other)
      BY <1>2, <2>2
    <3> DEFINE a == blk[id].lo
               b == blk[other].lo
               j == blk[id].size
               k == blk[other].size
    <3>3. /\ a \in Nat /\ b \in Nat /\ j \in Nat /\ k \in Nat /\ S[a] \in Nat /\ S[b] \in Nat
          /\ S[a] >= j + 2 /\ S[b] >= k + 2
      BY <3>2
    <3>4. (a < b => a + S[a] <= b) /\ (b < a => b + S[b] <= a) /\ a # b
      BY <1>1, <3>1, <3>2, Tile DEF Described
    <3> HIDE DEF a, b, j, k
    <3>5. (a .. (a + j - 1)) \cap (b .. (b + k - 1)) = {}
      BY <3>3, <3>4
    <3> QED BY <3>5 DEF a, b, j, k
  <2> QED BY <2>1, <2>2
<1> QED BY <1>2, <1>3, <1>4

LEMMA LeastOfTwo ==
  ASSUME NEW a \in Nat, NEW b \in Nat
  PROVE  Min({a, b}) <= a /\ Min({a, b}) <= b /\ Min({a, b}) \in Nat
<1>1. \E x \in {a, b} : \A y \in {a, b} : x <= y
  <2>1. CASE a <= b
    BY <2>1
  <2>2. CASE ~(a <= b)
    BY <2>2
  <2> QED BY <2>1, <2>2
<1>2. Min({a, b}) \in {a, b} /\ \A y \in {a, b} : Min({a, b}) <= y
  BY <1>1 DEF Min
<1> QED BY <1>2

LEMMA NoBlockIs == A!NoBlock = NoBlock /\ NoBlock.size = 0 /\ NoBlock.lo = 0
BY DEF A!NoBlock, NoBlock

\* A call that serves the client is Resize, or Free, of the abstract allocator.
LEMMA ServedStep ==
  ASSUME Inv, NEW id \in Ids, NEW v, CallServed(id, v)
  PROVE  A!Resize(id) \/ A!Free(id)
<1>1. /\ block' = [block EXCEPT ![id] = v] /\ block \in Blks
      /\ block' \in Blks /\ HeapInv(heap', block')
      /\ OthersKeep(heap, block, heap', id) /\ KeepsStart(heap, block[id], heap', v)
      /\ v = NoBlock \/ v.size \in Nat \ {0}
  BY DEF CallServed, Served, Inv
<1>2. block'[id] = v /\ \A other \in Ids \ {id} : block'[other] = block[other]
  BY <1>1 DEF Blks
<1>3. content = Content(heap, block) /\ content' = Content(heap', block')
  BY DEF content, Content
<1>4. \A other \in Ids \ {id} : content'[other] = content[other]
  <2> SUFFICES ASSUME NEW other \in Ids \ {id} PROVE content'[other] = content[other]
    OBVIOUS
  <2>1. OthersKeep(heap, block, heap', id) /\ block'[other] = block[other]
    BY <1>1, <1>2
  <2> QED BY <1>3, <2>1, OthersContent
<1>5. content'[id] = [k \in 1 .. v.size |-> heap'.mem[v.lo + k - 1]]
  BY <1>2, <1>3 DEF Content
<1>6. CASE v = NoBlock
  <2>1. content'[id] = <<>>
    BY <1>5, <1>6, NoBlockIs
  <2>2. content' = [content EXCEPT ![id] = <<>>]
    BY <1>3, <1>4, <2>1 DEF Content
  <2> QED BY <1>1, <1>6, <2>2, NoBlockIs DEF A!Free
<1>7. CASE v.size \in Nat \ {0}
  <2>1. v # NoBlock
    BY <1>7, NoBlockIs
  <2>2. A!Acceptable(id, v)
    BY <1>1, <1>2, <2>1, PayloadsApart DEF A!Acceptable, A!Words
  <2>3. DOMAIN content'[id] = 1 .. v.size
    BY <1>5
  <2>4. ASSUME NEW k \in 1 .. Min({block[id].size, v.size}) PROVE content'[id][k] = content[id][k]
    <3>1. block[id].size \in Nat
      BY <1>1 DEF Blks
    <3> DEFINE least == Min({block[id].size, v.size})
    <3>2. least \in Nat /\ least <= block[id].size /\ least <= v.size
      BY <1>7, <3>1, LeastOfTwo
    <3> HIDE DEF least
    <3>3. k \in 1 .. v.size /\ k \in 1 .. block[id].size /\ k <= block[id].size
      <4>1. k \in 1 .. least
        BY DEF least
      <4> QED BY <1>7, <3>1, <3>2, <4>1
    <3>4. heap'.mem[v.lo + k - 1] = heap.mem[block[id].lo + k - 1]
      BY <1>1, <3>3 DEF KeepsStart
    <3>5. content[id] = [j \in 1 .. block[id].size |-> heap.mem[block[id].lo + j - 1]]
      BY <1>3 DEF Content
    <3> QED BY <1>5, <3>3, <3>4, <3>5
  <2>5. A!OthersUntouched(id)
    BY <1>2, <1>4 DEF A!OthersUntouched
  <2>6. v.size > 0 /\ block'[id] = v
    BY <1>2, <1>7
  <2>7. A!Min({block[id].size, v.size}) = Min({block[id].size, v.size})
    BY DEF A!Min, Min
  <2> QED BY <2>2, <2>3, <2>4, <2>5, <2>6, <2>7 DEF A!Resize
<1> QED BY <1>1, <1>6, <1>7

\* The client that fills a payload is Write.
LEMMA FillStep ==
  ASSUME Inv, Fill
  PROVE  \E id \in Ids : A!Write(id)
<1>1. todo \in Ids /\ UNCHANGED block /\ OthersKeep(heap, block, heap', todo)
  BY FillIs
<1>2. content = Content(heap, block) /\ content' = Content(heap', block')
  BY DEF content, Content
<1>3. \A other \in Ids \ {todo} : content'[other] = content[other]
  BY <1>1, <1>2, OthersContent
<1>4. DOMAIN content'[todo] = DOMAIN content[todo]
  BY <1>1, <1>2 DEF Content
<1>5. A!Write(todo)
  BY <1>1, <1>3, <1>4 DEF A!Write, A!OthersUntouched
<1> QED BY <1>1, <1>5

(***************************************************************************)
(* PayloadsAreSafe: mm.c over the simulated memory keeps the promise of    *)
(* Allocator.  mm_malloc and mm_realloc are Resize or fail without a       *)
(* trace, mm_free is Free, and nothing of it reaches another payload.      *)
(***************************************************************************)
THEOREM PayloadsAlwaysSafe == Spec => PayloadsAreSafe
<1>1. Init => A!Init
  <2> SUFFICES ASSUME Init PROVE A!Init
    OBVIOUS
  <2>1. block = [id \in Ids |-> NoBlock]
    BY DEF Init
  <2>2. content = [id \in Ids |-> <<>>]
    <3>1. \A id \in Ids : block[id].size = 0
      BY <2>1, NoBlockIs
    <3> QED BY <3>1 DEF content
  <2> QED BY <2>1, <2>2, NoBlockIs DEF A!Init
<1>2. Inv /\ [Next]_vars => [A!Next]_<<block, content>>
  <2> SUFFICES ASSUME Inv, [Next]_vars PROVE [A!Next]_<<block, content>>
    OBVIOUS
  <2>1. ASSUME NEW id \in Ids, NEW v, CallServed(id, v) PROVE A!Next
    BY <2>1, ServedStep DEF A!Next
  <2>2. ASSUME Fill PROVE A!Next
    BY <2>2, FillStep DEF A!Next
  <2>3. ASSUME heap' = heap, block' = block PROVE UNCHANGED <<block, content>>
    BY <2>3 DEF content
  <2>4. ASSUME CallFailed PROVE heap' = heap /\ block' = block
    BY <2>4 DEF CallFailed
  <2>5. ASSUME UNCHANGED vars PROVE heap' = heap /\ block' = block
    BY <2>5 DEF vars
  <2> QED BY <2>1, <2>2, <2>3, <2>4, <2>5, NextIs
<1> QED BY <1>1, <1>2, AlwaysInv, PTL DEF Spec, PayloadsAreSafe, A!Spec

-----------------------------------------------------------------------------
(* What is left over in memory does not matter                             *)

\* The words that mean something in a described heap
Marks(S, F, brk) ==
  {brk - 1} \cup UNION {{b - 1, b + S[b] - 2} \cup (IF b \in F THEN {b, b + 1} ELSE {}) : b \in DOMAIN S}

LEMMA MarksAre ==
  ASSUME NEW h, NEW S, NEW n, NEW L, Described(h, S, n, L)
  PROVE  TagsAndLinks(h) = Marks(S, Listed(n, L), h.brk)
<1> DEFINE W(b) == {HDRP(b), FTRP(h, b)} \cup (IF IsAlloc(h, b) THEN {} ELSE {PREV_FREE(b), NEXT_FREE(b)})
           V(b) == {b - 1, b + S[b] - 2} \cup (IF b \in Listed(n, L) THEN {b, b + 1} ELSE {})
<1>1. \A b \in DOMAIN S : W(b) = V(b)
  BY DescribedBlocks DEF HDRP, PREV_FREE, NEXT_FREE
<1>2. BlocksOf(h) = DOMAIN S
  BY BlocksAre
<1>3. TagsAndLinks(h) = {h.brk - 1} \cup UNION {W(b) : b \in DOMAIN S}
  BY <1>2 DEF TagsAndLinks, HDRP
<1>4. Marks(S, Listed(n, L), h.brk) = {h.brk - 1} \cup UNION {V(b) : b \in DOMAIN S}
  BY DEF Marks
<1> HIDE DEF W, V
<1>5. UNION {W(b) : b \in DOMAIN S} = UNION {V(b) : b \in DOMAIN S}
  BY <1>1
<1> QED BY <1>3, <1>4, <1>5

\* The description says where the heap ends and what is in the words that mean something.
LEMMA SameBreaks ==
  ASSUME NEW S, NEW a, NEW b, Tiling(S, a), Tiling(S, b)
  PROVE  a = b
<1> DEFINE Bounds(x, y) == x <= y
<1>1. ASSUME NEW x, NEW y, Tiling(S, x), Tiling(S, y) PROVE Bounds(x, y) /\ x \in Nat
  <2>1. 2 \in DOMAIN S /\ x \in Nat /\ y \in Nat
    BY <1>1 DEF Tiling, heap_listp, DSIZE
  <2>2. 2 + S[2] <= x /\ S[2] >= 2 /\ S[2] \in Nat
    BY <1>1, <2>1, Tile
  <2>3. x # 2
    BY <2>1, <2>2
  <2>4. PICK c \in DOMAIN S : c + S[c] = x
    BY <1>1, <2>3 DEF Tiling, heap_listp, DSIZE
  <2> QED BY <1>1, <2>1, <2>4, Tile
<1>2. Bounds(a, b) /\ Bounds(b, a) /\ a \in Nat /\ b \in Nat
  BY <1>1
<1> QED BY <1>2

LEMMA SameSkeleton ==
  ASSUME NEW S, NEW n, NEW L, NEW g, NEW h, Described(g, S, n, L), Described(h, S, n, L)
  PROVE  Skeleton(g) = Skeleton(h)
<1> DEFINE F == Listed(n, L)
<1>1. g.brk = h.brk
  BY SameBreaks DEF Described
<1>2. g.hd_free = h.hd_free /\ g.ft_free = h.ft_free
  BY DEF Described, Links
<1> DEFINE words == Marks(S, F, h.brk)
<1>3. TagsAndLinks(g) = words /\ TagsAndLinks(h) = words
  BY <1>1, MarksAre
<1>4. ASSUME NEW b \in DOMAIN S
      PROVE  g.mem[b - 1] = h.mem[b - 1] /\ g.mem[b + S[b] - 2] = h.mem[b + S[b] - 2]
  BY DEF Described, TagsBut
<1>5. ASSUME NEW b \in F
      PROVE  g.mem[b] = h.mem[b] /\ g.mem[b + 1] = h.mem[b + 1]
  BY DEF Described, Links, Listed
<1>6. g.mem[h.brk - 1] = h.mem[h.brk - 1]
  BY <1>1 DEF Described, Epilogue
<1>7. ASSUME NEW a \in words PROVE g.mem[a] = h.mem[a]
  <2>1. CASE a = h.brk - 1
    BY <1>6, <2>1
  <2>2. ASSUME NEW b \in DOMAIN S,
               a \in {b - 1, b + S[b] - 2} \cup (IF b \in F THEN {b, b + 1} ELSE {})
        PROVE  g.mem[a] = h.mem[a]
    <3> HIDE DEF F
    <3> QED BY <1>4, <1>5, <2>2
  <2> QED BY <2>1, <2>2 DEF Marks
<1> HIDE DEF words
<1>8. [a \in words |-> g.mem[a]] = [a \in words |-> h.mem[a]]
  BY <1>7
<1> QED BY <1>1, <1>2, <1>3, <1>8 DEF Skeleton, Meaning

LEMMA ScrambledIs ==
  ASSUME NEW S, NEW n, NEW L, Described(heap, S, n, L)
  PROVE  Described(Scrambled, S, n, L)
<1> DEFINE live == TagsAndLinks(heap) \cup Payloads
           mem == [a \in Addr |-> IF a \in live THEN heap.mem[a] ELSE heap.mem[a] + 5]
           F == Listed(n, L)
<1>1. heap \in HeapRecord /\ Tiling(S, heap.brk) /\ F \subseteq DOMAIN S
  BY DEF Described
<1>2. mem \in [Addr -> Nat]
  BY <1>1 DEF HeapRecord
<1>3. Marks(S, F, heap.brk) \subseteq live
  BY MarksAre
<1>4. \A a \in Addr : a \in live => mem[a] = heap.mem[a]
  OBVIOUS
<1> HIDE DEF mem
<1>5. /\ Scrambled \in HeapRecord /\ Scrambled.mem = mem /\ Scrambled.brk = heap.brk
      /\ Scrambled.hd_free = heap.hd_free /\ Scrambled.ft_free = heap.ft_free
  <2>1. Scrambled = [heap EXCEPT !.mem = mem]
    BY DEF Scrambled, mem
  <2> QED BY <1>1, <1>2, <2>1 DEF HeapRecord
<1> HIDE DEF live
<1>6. mem[heap.brk - 1] = heap.mem[heap.brk - 1]
  <2>1. heap.brk - 1 \in Addr
    <3>1. 2 \in DOMAIN S
      BY <1>1 DEF Tiling, heap_listp, DSIZE
    <3> QED BY <1>1, <3>1, WordsOf
  <2>2. heap.brk - 1 \in live
    BY <1>3 DEF Marks
  <2> QED BY <1>4, <2>1, <2>2
<1>7. ASSUME NEW b \in DOMAIN S
      PROVE  mem[b - 1] = heap.mem[b - 1] /\ mem[b + S[b] - 2] = heap.mem[b + S[b] - 2]
  <2>1. b - 1 \in Addr /\ b + S[b] - 2 \in Addr
    BY <1>1, WordsOf
  <2>2. b - 1 \in live /\ b + S[b] - 2 \in live
    BY <1>3 DEF Marks
  <2> QED BY <1>4, <2>1, <2>2
<1>8. ASSUME NEW b \in F PROVE mem[b] = heap.mem[b] /\ mem[b + 1] = heap.mem[b + 1]
  <2>1. b \in DOMAIN S /\ b \in LinkPlace
    BY DescribedBlocks
  <2>2. b \in Addr /\ b + 1 \in Addr
    BY <2>1, LinkPlaces
  <2>3. b \in live /\ b + 1 \in live
    <3>1. {b, b + 1} \subseteq Marks(S, F, heap.brk)
      BY <2>1 DEF Marks
    <3> QED BY <1>3, <3>1
  <2> QED BY <1>4, <2>2, <2>3
<1> QED BY <1>5, <1>6, <1>7, <1>8, SameDescription

LEMMA CrashType ==
  ASSUME NEW h, NEW S, NEW n, NEW L, Described(h, S, n, L), NEW ptr \in Used(S, n, L), ptr # 2,
         NEW size \in Nat \ {0}
  PROVE  mm_realloc(h, ptr, size).crash \in BOOLEAN
<1> DEFINE asize == AlignedSize(size)
           next == ptr + S[ptr]
           r == mm_malloc(h, asize)
           Done(g, bp) == [heap |-> g, bp |-> bp, crash |-> FALSE]
           a == shrink(h, ptr, asize)
           b == grow(h, ptr, asize)
           c == Moved(r.heap, ptr, r.bp, S[ptr] - 2)
           q == mm_realloc(h, ptr, size)
<1>1. q = IF asize <= S[ptr] THEN Done(a, ptr)
          ELSE IF next \in Listed(n, L) /\ S[ptr] + S[next] >= asize THEN Done(b, ptr)
          ELSE IF r.bp = NULL THEN [heap |-> h, bp |-> NULL, crash |-> TRUE]
          ELSE Done(c, r.bp)
  BY ReallocCases
<1> HIDE DEF asize, r, a, b, c, q
<1>2. \/ q = Done(a, ptr) \/ q = Done(b, ptr) \/ q = Done(c, r.bp)
      \/ q = [heap |-> h, bp |-> NULL, crash |-> TRUE]
  BY <1>1
<1>3. ASSUME NEW g, NEW bp, NEW crash \in BOOLEAN, q = [heap |-> g, bp |-> bp, crash |-> crash]
      PROVE  q.crash \in BOOLEAN
  BY <1>3
<1>4. q.crash \in BOOLEAN
  BY <1>2, <1>3
<1> QED BY <1>4 DEF q

(***************************************************************************)
(* LeftoversDoNotMatter: what mm_malloc, mm_free and mm_realloc do depends *)
(* only on the description, and a scrambled heap has the same one.         *)
(***************************************************************************)
LEMMA SameCalls ==
  ASSUME NEW S, NEW n, NEW L, NEW g, NEW h, Described(g, S, n, L), Described(h, S, n, L),
         NEW size \in Nat \ {0}
  PROVE  LET a == mm_malloc(g, size)
             b == mm_malloc(h, size)
         IN  a.bp = b.bp /\ Skeleton(a.heap) = Skeleton(b.heap)
<1> DEFINE a == mm_malloc(g, size)
           b == mm_malloc(h, size)
<1>1. CASE \A x : Described(x, S, n, L) => mm_malloc(x, size) = [heap |-> x, bp |-> NULL]
  <2>1. a = [heap |-> g, bp |-> NULL] /\ b = [heap |-> h, bp |-> NULL]
    BY <1>1
  <2>2. a.heap = g /\ b.heap = h /\ a.bp = b.bp
    BY <2>1
  <2> HIDE DEF a, b
  <2>3. Skeleton(a.heap) = Skeleton(b.heap)
    BY <2>2, SameSkeleton
  <2> QED BY <2>2, <2>3 DEF a, b
<1>2. CASE \E R, m, M, bp : \A x : Described(x, S, n, L) =>
             HandsOut(x, S, n, L, mm_malloc(x, size), R, m, M, bp, size + 2)
  <2>1. PICK R, m, M, bp : \A x : Described(x, S, n, L) =>
             HandsOut(x, S, n, L, mm_malloc(x, size), R, m, M, bp, size + 2)
    BY <1>2
  <2>2. HandsOut(g, S, n, L, a, R, m, M, bp, size + 2) /\ HandsOut(h, S, n, L, b, R, m, M, bp, size + 2)
    BY <2>1
  <2> HIDE DEF a, b
  <2>3. a.bp = b.bp /\ Described(a.heap, R, m, M) /\ Described(b.heap, R, m, M)
    BY <2>2 DEF HandsOut, Leads
  <2>4. Skeleton(a.heap) = Skeleton(b.heap)
    BY <2>3, SameSkeleton
  <2> QED BY <2>3, <2>4 DEF a, b
<1> QED BY <1>1, <1>2, Mallocs

LEMMA SameFrees ==
  ASSUME NEW S, NEW n, NEW L, NEW g, NEW h, Described(g, S, n, L), Described(h, S, n, L),
         NEW ptr \in Used(S, n, L), ptr # 2
  PROVE  Skeleton(mm_free(g, ptr)) = Skeleton(mm_free(h, ptr))
<1>1. PICK R, m, M : \A x : Described(x, S, n, L) =>
                       Leads(x, S, n, L, mm_free(x, ptr), R, m, M, {ptr}, {})
  BY Frees
<1>2. Described(mm_free(g, ptr), R, m, M) /\ Described(mm_free(h, ptr), R, m, M)
  BY <1>1 DEF Leads
<1> QED BY <1>2, SameSkeleton

LEMMA SameReallocs ==
  ASSUME NEW S, NEW n, NEW L, NEW g, NEW h, Described(g, S, n, L), Described(h, S, n, L),
         NEW ptr \in Used(S, n, L), ptr # 2, NEW size \in Nat \ {0}
  PROVE  LET a == mm_realloc(g, ptr, size)
             b == mm_realloc(h, ptr, size)
         IN  a.crash = b.crash /\ a.bp = b.bp /\ Skeleton(a.heap) = Skeleton(b.heap)
<1> DEFINE a == mm_realloc(g, ptr, size)
           b == mm_realloc(h, ptr, size)
<1>1. CASE \A x : Described(x, S, n, L) =>
             mm_realloc(x, ptr, size) = [heap |-> x, bp |-> NULL, crash |-> TRUE]
  <2>1. a = [heap |-> g, bp |-> NULL, crash |-> TRUE] /\ b = [heap |-> h, bp |-> NULL, crash |-> TRUE]
    BY <1>1
  <2>2. a.heap = g /\ b.heap = h /\ a.bp = b.bp /\ a.crash = b.crash
    BY <2>1
  <2> HIDE DEF a, b
  <2>3. Skeleton(a.heap) = Skeleton(b.heap)
    BY <2>2, SameSkeleton
  <2> QED BY <2>2, <2>3 DEF a, b
<1>2. CASE \E R, m, M, bp :
              /\ bp = ptr \/ bp \notin Used(S, n, L)
              /\ \A x : Described(x, S, n, L) =>
                   Answered(x, S, n, L, mm_realloc(x, ptr, size), R, m, M, ptr, bp, size + 2)
  <2>1. PICK R, m, M, bp : \A x : Described(x, S, n, L) =>
                   Answered(x, S, n, L, mm_realloc(x, ptr, size), R, m, M, ptr, bp, size + 2)
    BY <1>2
  <2>2. Answered(g, S, n, L, a, R, m, M, ptr, bp, size + 2) /\ Answered(h, S, n, L, b, R, m, M, ptr, bp, size + 2)
    BY <2>1
  <2>3. a.crash \in BOOLEAN /\ b.crash \in BOOLEAN
    BY CrashType
  <2> HIDE DEF a, b
  <2>4. ~a.crash /\ ~b.crash /\ a.bp = b.bp /\ Described(a.heap, R, m, M) /\ Described(b.heap, R, m, M)
    BY <2>2 DEF Answered, Resized, Leads
  <2>5. a.crash = b.crash
    BY <2>3, <2>4
  <2>6. Skeleton(a.heap) = Skeleton(b.heap)
    BY <2>4, SameSkeleton
  <2> QED BY <2>4, <2>5, <2>6 DEF a, b
<1> QED BY <1>1, <1>2, Reallocs

THEOREM LeftoversNeverMatter == Spec => []LeftoversDoNotMatter
<1>1. Inv => LeftoversDoNotMatter
  <2> SUFFICES ASSUME Inv, Turn PROVE LeftoversDoNotMatter
    BY DEF LeftoversDoNotMatter
  <2>1. PICK S, n, L : Described(heap, S, n, L) /\ Tenants(block, S, n, L)
    BY DEF Inv, Turn, HeapInv
  <2> DEFINE other == Scrambled
  <2>2. Described(other, S, n, L)
    BY <2>1, ScrambledIs
  <2>3. Sizes \subseteq Nat \ {0} /\ block \in Blks
    BY ClientAssumption DEF Inv
  <2>4. \A id \in Held : block[id].lo \in Used(S, n, L) /\ block[id].lo # 2
    BY <2>1, <2>3, Tenant DEF Held
  <2> HIDE DEF other
  <2>5. ASSUME NEW size \in Sizes
        PROVE  LET a == mm_malloc(heap, size)
                   b == mm_malloc(other, size)
               IN  a.bp = b.bp /\ Skeleton(a.heap) = Skeleton(b.heap)
    BY <2>1, <2>2, <2>3, SameCalls
  <2>6. ASSUME NEW id \in Held
        PROVE  Skeleton(mm_free(heap, block[id].lo)) = Skeleton(mm_free(other, block[id].lo))
    BY <2>1, <2>2, <2>4, SameFrees
  <2>7. ASSUME NEW id \in Held, NEW size \in Sizes
        PROVE  LET a == mm_realloc(heap, block[id].lo, size)
                   b == mm_realloc(other, block[id].lo, size)
               IN  a.crash = b.crash /\ a.bp = b.bp /\ Skeleton(a.heap) = Skeleton(b.heap)
    BY <2>1, <2>2, <2>3, <2>4, SameReallocs
  <2> QED BY <2>5, <2>6, <2>7 DEF LeftoversDoNotMatter, other
<1> QED BY <1>1, AlwaysInv, PTL

-----------------------------------------------------------------------------
(***************************************************************************)
(* The high water mark.  The heap never shrinks, and the payloads lie in   *)
(* it apart from each other and from six other words: the sum of the sizes *)
(* is the number of their words, so it is below the size of the heap.      *)
(***************************************************************************)

\* A record with the fields of a heap, and no bound on what they hold
IsHeap(h) ==
  h = [mem |-> h.mem, brk |-> h.brk, hd_free |-> h.hd_free, ft_free |-> h.ft_free]
SameBrk(h, g) == IsHeap(g) /\ g.brk = h.brk

LEMMA PutKeepsBrk ==
  ASSUME NEW h, IsHeap(h), NEW p, NEW word
  PROVE  SameBrk(h, PUT(h, p, word))
BY DEF IsHeap, SameBrk, PUT

LEMMA TagKeepsBrk ==
  ASSUME NEW h, IsHeap(h), NEW bp, NEW size, NEW alloc
  PROVE  SameBrk(h, Tag(h, bp, size, alloc))
<1> DEFINE g == PUT(h, HDRP(bp), PACK(size, alloc))
<1>1. SameBrk(h, g)
  BY PutKeepsBrk
<1> HIDE DEF g
<1>2. SameBrk(g, PUT(g, bp + size - DSIZE, PACK(size, alloc)))
  BY <1>1, PutKeepsBrk DEF SameBrk
<1> QED BY <1>1, <1>2 DEF SameBrk, Tag, g

LEMMA InsertKeepsBrk ==
  ASSUME NEW h, IsHeap(h), NEW bp
  PROVE  SameBrk(h, insert_free_block(h, bp))
BY DEF IsHeap, SameBrk, PUT, insert_free_block

LEMMA ReplaceKeepsBrk ==
  ASSUME NEW h, IsHeap(h), NEW old, NEW new
  PROVE  SameBrk(h, replace_free_block(h, old, new))
<1> DEFINE a == IF h.hd_free = old THEN [h EXCEPT !.hd_free = new]
                ELSE PUT(h, NEXT_FREE(heap_listp + h.mem[PREV_FREE(old)]), SELF_INDEX(new))
           b == IF a.ft_free = old THEN [a EXCEPT !.ft_free = new]
                ELSE PUT(a, PREV_FREE(heap_listp + a.mem[NEXT_FREE(old)]), SELF_INDEX(new))
<1>1. SameBrk(h, a)
  BY PutKeepsBrk DEF IsHeap, SameBrk
<1> HIDE DEF a
<1>2. SameBrk(a, b)
  BY <1>1, PutKeepsBrk DEF IsHeap, SameBrk
<1>3. replace_free_block(h, old, new) =
        [b EXCEPT !.mem = Stored(b.mem, [p \in {new, new + 1} |-> b.mem[p - new + old]])]
  BY DEF replace_free_block, a
<1> HIDE DEF b
<1> QED BY <1>1, <1>2, <1>3 DEF IsHeap, SameBrk

LEMMA RemoveKeepsBrk ==
  ASSUME NEW h, IsHeap(h), NEW bp
  PROVE  SameBrk(h, remove_free_block(h, bp))
<1> DEFINE prev == prev_free_block(h, bp)
           next == next_free_block(h, bp)
           a == IF prev # NULL THEN PUT(h, NEXT_FREE(prev), h.mem[NEXT_FREE(bp)])
                ELSE [h EXCEPT !.hd_free = next]
<1>1. SameBrk(h, a)
  BY PutKeepsBrk DEF IsHeap, SameBrk
<1>2. remove_free_block(h, bp) =
        IF next # NULL THEN PUT(a, PREV_FREE(next), a.mem[PREV_FREE(bp)])
        ELSE [a EXCEPT !.ft_free = prev]
  BY DEF remove_free_block
<1> HIDE DEF a
<1> QED BY <1>1, <1>2, PutKeepsBrk DEF IsHeap, SameBrk

\* h grew into g, or stayed as long as it was.
Grew(h, g) == IsHeap(g) /\ g.brk \in Nat /\ g.brk >= h.brk

LEMMA ExtendGrows ==
  ASSUME NEW h, IsHeap(h), h.brk \in Nat, NEW size \in Nat
  PROVE  Grew(h, extend_heap(h, size).heap)
<1> DEFINE bp == h.brk
           grown == [h EXCEPT !.brk = @ + size]
           prev == PREV_BLKP(h, bp)
           whole == SizeOf(h, prev) + size
           one == Tag(grown, bp, size, 0)
           two == PUT(one, HDRP(bp + size), PACK(0, 1))
           three == insert_free_block(two, bp)
           four == Tag(grown, prev, whole, 0)
           five == PUT(four, HDRP(prev + whole), PACK(0, 1))
<1>1. extend_heap(h, size).heap \in {h, three, five}
  BY DEF extend_heap
<1>2. IsHeap(grown) /\ grown.brk = h.brk + size
  BY DEF IsHeap
<1> HIDE DEF grown
<1>3. SameBrk(grown, one) /\ SameBrk(grown, four)
  BY <1>2, TagKeepsBrk
<1> HIDE DEF one, four
<1>4. SameBrk(one, two) /\ SameBrk(four, five)
  BY <1>3, PutKeepsBrk DEF SameBrk
<1> HIDE DEF two, five
<1>5. SameBrk(two, three)
  BY <1>4, InsertKeepsBrk DEF SameBrk
<1> HIDE DEF three
<1>6. Grew(h, h) /\ Grew(h, three) /\ Grew(h, five)
  BY <1>2, <1>3, <1>4, <1>5 DEF Grew, SameBrk
<1> QED BY <1>1, <1>6

LEMMA PlaceKeepsBrk ==
  ASSUME NEW h, IsHeap(h), NEW bp, NEW size
  PROVE  SameBrk(h, place(h, bp, size).heap)
<1> DEFINE rest == SizeOf(h, bp) - size
           one == Tag(h, bp, rest, 0)
           two == Tag(one, bp + rest, size, 1)
           three == Tag(h, bp, SizeOf(h, bp), 1)
           four == remove_free_block(three, bp)
<1>1. place(h, bp, size).heap \in {two, four}
  BY DEF place
<1>2. SameBrk(h, one) /\ SameBrk(h, three)
  BY TagKeepsBrk
<1> HIDE DEF one, three
<1>3. SameBrk(one, two) /\ SameBrk(three, four)
  BY <1>2, TagKeepsBrk, RemoveKeepsBrk DEF SameBrk
<1> HIDE DEF two, four
<1> QED BY <1>1, <1>2, <1>3 DEF SameBrk

LEMMA MallocGrows ==
  ASSUME NEW h, IsHeap(h), h.brk \in Nat, NEW size \in Nat
  PROVE  Grew(h, mm_malloc(h, size).heap)
<1> DEFINE want == IF size \in DOMAIN Padded THEN Padded[size] ELSE size
           asize == AlignedSize(want)
           bp == find_fit(h, asize)
           more == IF asize > CHUNKSIZE THEN asize ELSE CHUNKSIZE
           r == extend_heap(h, more)
<1>1. mm_malloc(h, size).heap \in {h, place(h, bp, asize).heap, place(r.heap, r.bp, asize).heap}
  BY DEF mm_malloc
<1>2. want \in Nat
  BY HeapAssumption
<1> HIDE DEF want
<1>3. asize \in Nat
  BY <1>2 DEF AlignedSize, DSIZE
<1> HIDE DEF asize
<1>4. more \in Nat
  BY <1>3, HeapAssumption
<1> HIDE DEF more
<1>5. Grew(h, r.heap)
  BY <1>4, ExtendGrows
<1> HIDE DEF r, bp
<1>6. SameBrk(h, place(h, bp, asize).heap) /\ SameBrk(r.heap, place(r.heap, r.bp, asize).heap)
  BY <1>5, PlaceKeepsBrk DEF Grew
<1>7. /\ Grew(h, h) /\ Grew(h, place(h, bp, asize).heap)
      /\ Grew(h, place(r.heap, r.bp, asize).heap)
  BY <1>5, <1>6 DEF Grew, SameBrk
<1> QED BY <1>1, <1>7

LEMMA FreeKeepsBrk ==
  ASSUME NEW h, IsHeap(h), NEW bp
  PROVE  SameBrk(h, mm_free(h, bp))
<1> DEFINE f == Tag(h, bp, SizeOf(h, bp), 0)
<1>1. SameBrk(h, f) /\ mm_free(h, bp) = coalesce(f, bp)
  BY TagKeepsBrk DEF mm_free
<1> HIDE DEF f
<1> DEFINE prev == PREV_BLKP(f, bp)
           next == NEXT_BLKP(f, bp)
           size == SizeOf(f, bp)
           pa == GET_ALLOC(f.mem[FTRP(f, prev)]) = 1
           na == IsAlloc(f, next)
           one == insert_free_block(f, bp)
           two == Tag(f, bp, size + SizeOf(f, next), 0)
           three == Tag(f, prev, SizeOf(f, prev) + size, 0)
           four == Tag(f, prev, SizeOf(f, prev) + size + SizeOf(f, next), 0)
<1>2. coalesce(f, bp) \in {one, replace_free_block(two, next, bp), three,
                           remove_free_block(four, next)}
  <2>1. CASE pa /\ na
    BY <2>1 DEF coalesce
  <2>2. CASE pa /\ ~na
    BY <2>2 DEF coalesce
  <2>3. CASE ~pa /\ na
    BY <2>3 DEF coalesce
  <2>4. CASE ~pa /\ ~na
    BY <2>4 DEF coalesce
  <2> QED BY <2>1, <2>2, <2>3, <2>4
<1>3. SameBrk(f, one) /\ SameBrk(f, two) /\ SameBrk(f, three) /\ SameBrk(f, four)
  BY <1>1, TagKeepsBrk, InsertKeepsBrk DEF SameBrk
<1> HIDE DEF one, two, three, four
<1>4. SameBrk(two, replace_free_block(two, next, bp)) /\ SameBrk(four, remove_free_block(four, next))
  BY <1>3, ReplaceKeepsBrk, RemoveKeepsBrk DEF SameBrk
<1> QED BY <1>1, <1>2, <1>3, <1>4 DEF SameBrk

LEMMA ShrinkKeepsBrk ==
  ASSUME NEW h, IsHeap(h), NEW ptr, NEW asize
  PROVE  SameBrk(h, shrink(h, ptr, asize))
<1> DEFINE rest == SizeOf(h, ptr) - asize
           next == NEXT_BLKP(h, ptr)
           new == ptr + asize
           cut == Tag(h, ptr, asize, 1)
           one == Tag(cut, new, rest, 0)
           two == Tag(cut, new, rest + SizeOf(h, next), 0)
<1>1. shrink(h, ptr, asize) \in {h, insert_free_block(one, new), replace_free_block(two, next, new)}
  BY DEF shrink
<1>2. SameBrk(h, cut)
  BY TagKeepsBrk
<1> HIDE DEF cut
<1>3. SameBrk(cut, one) /\ SameBrk(cut, two)
  BY <1>2, TagKeepsBrk DEF SameBrk
<1> HIDE DEF one, two
<1>4. SameBrk(one, insert_free_block(one, new)) /\ SameBrk(two, replace_free_block(two, next, new))
  BY <1>3, InsertKeepsBrk, ReplaceKeepsBrk DEF SameBrk
<1> QED BY <1>1, <1>2, <1>3, <1>4 DEF SameBrk

LEMMA GrowKeepsBrk ==
  ASSUME NEW h, IsHeap(h), NEW ptr, NEW asize
  PROVE  SameBrk(h, grow(h, ptr, asize))
<1> DEFINE next == NEXT_BLKP(h, ptr)
           both == SizeOf(h, ptr) + SizeOf(h, next)
           new == ptr + asize
           one == replace_free_block(h, next, new)
           two == Tag(one, ptr, asize, 1)
           three == Tag(two, new, both - asize, 0)
           four == Tag(h, ptr, both, 1)
           five == remove_free_block(four, next)
<1>1. grow(h, ptr, asize) \in {three, five}
  BY DEF grow
<1>2. SameBrk(h, one) /\ SameBrk(h, four)
  BY TagKeepsBrk, ReplaceKeepsBrk
<1> HIDE DEF one, four
<1>3. SameBrk(one, two) /\ SameBrk(four, five)
  BY <1>2, TagKeepsBrk, RemoveKeepsBrk DEF SameBrk
<1> HIDE DEF two, five
<1>4. SameBrk(two, three)
  BY <1>3, TagKeepsBrk DEF SameBrk
<1> HIDE DEF three
<1> QED BY <1>1, <1>2, <1>3, <1>4 DEF SameBrk

LEMMA ReallocGrows ==
  ASSUME NEW h, IsHeap(h), h.brk \in Nat, NEW ptr, NEW size \in Nat
  PROVE  Grew(h, mm_realloc(h, ptr, size).heap)
<1> DEFINE asize == AlignedSize(size)
           r == mm_malloc(h, asize)
           n == SizeOf(h, ptr) - DSIZE
           copy == Copied(r.heap, r.bp, ptr, n)
<1>1. mm_realloc(h, ptr, size).heap \in
        {h, mm_free(h, ptr), r.heap, shrink(h, ptr, asize), grow(h, ptr, asize), mm_free(copy, ptr)}
  <2>1. CASE size = 0 /\ ptr = NULL
    BY <2>1 DEF mm_realloc
  <2>2. CASE size = 0 /\ ptr # NULL
    BY <2>2 DEF mm_realloc
  <2>3. CASE size # 0 /\ ptr = NULL
    BY <2>3 DEF mm_realloc
  <2>4. CASE size # 0 /\ ptr # NULL
    BY <2>4 DEF mm_realloc, Moved
  <2> QED BY <2>1, <2>2, <2>3, <2>4
<1>2. asize \in Nat
  BY DEF AlignedSize, DSIZE
<1> HIDE DEF asize
<1>3. Grew(h, r.heap)
  BY <1>2, MallocGrows
<1> HIDE DEF r
<1>4. SameBrk(r.heap, copy)
  BY <1>3 DEF Grew, SameBrk, IsHeap, Copied
<1> HIDE DEF copy
<1>5. SameBrk(copy, mm_free(copy, ptr)) /\ SameBrk(h, mm_free(h, ptr))
      /\ SameBrk(h, shrink(h, ptr, asize)) /\ SameBrk(h, grow(h, ptr, asize))
  BY <1>4, FreeKeepsBrk, ShrinkKeepsBrk, GrowKeepsBrk DEF SameBrk
<1> QED BY <1>1, <1>3, <1>4, <1>5 DEF Grew, SameBrk

LEMMA HeapGrows ==
  ASSUME Inv, Next
  PROVE  heap'.brk \in Nat /\ heap'.brk >= heap.brk
<1>1. IsHeap(heap) /\ heap.brk \in Nat
  BY HeapAssumption DEF Inv, HeapRecord, IsHeap
<1>2. ASSUME NEW id \in Ids, NEW size \in Sizes, Allocate(id, size) PROVE Grew(heap, heap')
  <2>1. size \in Nat /\ heap' = mm_malloc(heap, size).heap
    BY <1>2, ClientAssumption DEF Allocate
  <2> QED BY <1>1, <2>1, MallocGrows
<1>3. ASSUME NEW id \in Ids, NEW size \in Sizes \cup {0}, Reallocate(id, size) PROVE Grew(heap, heap')
  <2>1. size \in Nat /\ \E ptr : heap' = mm_realloc(heap, ptr, size).heap
    BY <1>3, ClientAssumption DEF Reallocate
  <2> QED BY <1>1, <2>1, ReallocGrows
<1>4. ASSUME NEW id \in Ids, Release(id) PROVE Grew(heap, heap')
  <2>1. heap' = mm_free(heap, block[id].lo)
    BY <1>4 DEF Release
  <2> QED BY <1>1, <2>1, FreeKeepsBrk DEF SameBrk, Grew
<1>5. ASSUME Fill PROVE Grew(heap, heap')
  <2> DEFINE payload == block[todo].lo .. (block[todo].lo + block[todo].size - 1)
             mem == Stored(heap.mem, [a \in payload |-> todo])
  <2>1. heap' = [heap EXCEPT !.mem = mem]
    BY <1>5 DEF Fill
  <2> HIDE DEF mem
  <2> QED BY <1>1, <2>1 DEF IsHeap, Grew
<1> QED BY <1>2, <1>3, <1>4, <1>5 DEF Next, Grew

-----------------------------------------------------------------------------
\* The words of mm_init, and the tags of a block
Overhead == 3 * DSIZE
AllPayloads(blk) == UNION {PayloadWords(blk[id]) : id \in Ids}
OtherPayloads(blk, id) == UNION {PayloadWords(blk[i]) : i \in Ids \ {id}}

LEMMA PayloadsInHeap ==
  ASSUME NEW h, NEW blk \in Blks, HeapInv(h, blk)
  PROVE  /\ AllPayloads(blk) \subseteq 4 .. (h.brk - 3) /\ h.brk \in Nat
         /\ IsFiniteSet(AllPayloads(blk))
         /\ Cardinality(AllPayloads(blk)) \in Nat
         /\ Cardinality(AllPayloads(blk)) > 0 => Cardinality(AllPayloads(blk)) + Overhead <= h.brk
<1>1. PICK S, n, L : Described(h, S, n, L) /\ Tenants(blk, S, n, L)
  BY DEF HeapInv
<1>2. h.brk \in Nat
  BY <1>1 DEF Described, Tiling
<1>3. ASSUME NEW id \in Ids PROVE PayloadWords(blk[id]) \subseteq 4 .. (h.brk - 3)
  <2>1. CASE blk[id] = NoBlock
    BY <2>1 DEF NoBlock, PayloadWords
  <2>2. CASE blk[id] # NoBlock
    <3> DEFINE lo == blk[id].lo
               size == blk[id].size
    <3>1. /\ lo \in DOMAIN S /\ lo \in Nat /\ lo >= 4 /\ size \in Nat
          /\ S[lo] \in Nat /\ S[lo] >= size + 2
      BY <1>1, <2>2, Tenant
    <3>2. lo + S[lo] <= h.brk
      BY <1>1, <3>1 DEF Described, Tiling
    <3> HIDE DEF lo, size
    <3>3. lo .. (lo + size - 1) \subseteq 4 .. (h.brk - 3)
      BY <1>2, <3>1, <3>2
    <3> QED BY <3>3 DEF lo, size, PayloadWords
  <2> QED BY <2>1, <2>2
<1>4. AllPayloads(blk) \subseteq 4 .. (h.brk - 3)
  BY <1>3 DEF AllPayloads
<1> DEFINE W == AllPayloads(blk)
           b == h.brk - 3
<1>5. W \subseteq 4 .. b /\ b \in Int
  BY <1>2, <1>4
<1> HIDE DEF W, b
<1>6. IsFiniteSet(4 .. b) /\ Cardinality(4 .. b) = (IF 4 > b THEN 0 ELSE b - 4 + 1)
  BY <1>5, FS_Interval
<1>7. IsFiniteSet(W) /\ Cardinality(W) <= Cardinality(4 .. b)
  BY <1>5, <1>6, FS_Subset
<1>8. Cardinality(W) \in Nat
  BY <1>7, FS_CardinalityType
<1>9. Cardinality(W) > 0 => Cardinality(W) + 6 <= h.brk
  BY <1>2, <1>5, <1>6, <1>7, <1>8 DEF b
<1> QED BY <1>2, <1>4, <1>7, <1>8, <1>9 DEF W, Overhead, DSIZE

\* One payload and the others
LEMMA PayloadsSplit ==
  ASSUME NEW h, NEW blk \in Blks, HeapInv(h, blk), NEW id \in Ids
  PROVE  /\ IsFiniteSet(OtherPayloads(blk, id)) /\ Cardinality(OtherPayloads(blk, id)) \in Nat
         /\ blk[id].size \in Nat
         /\ Cardinality(AllPayloads(blk)) = Cardinality(OtherPayloads(blk, id)) + blk[id].size
<1> DEFINE O == OtherPayloads(blk, id)
           P == PayloadWords(blk[id])
           lo == blk[id].lo
           size == blk[id].size
<1>1. AllPayloads(blk) = O \cup P
  BY DEF AllPayloads, OtherPayloads
<1>2. O \cap P = {}
  <2>1. CASE blk[id] = NoBlock
    BY <2>1 DEF NoBlock, PayloadWords
  <2>2. CASE blk[id] # NoBlock
    <3>1. \A other \in Ids \ {id} : PayloadWords(blk[id]) \cap PayloadWords(blk[other]) = {}
      BY <2>2, PayloadsApart DEF PayloadWords
    <3> QED BY <3>1 DEF OtherPayloads
  <2> QED BY <2>1, <2>2
<1>3. IsFiniteSet(AllPayloads(blk))
  BY PayloadsInHeap
<1>4. lo \in Nat /\ size \in Nat
  BY DEF Blks, Addr
<1>5. IsFiniteSet(P) /\ Cardinality(P) = size
  <2>1. P = lo .. (lo + size - 1) /\ lo + size - 1 \in Int
    BY <1>4 DEF PayloadWords
  <2> HIDE DEF P, lo, size
  <2>2. IsFiniteSet(P) /\ Cardinality(P) = IF lo > lo + size - 1 THEN 0 ELSE (lo + size - 1) - lo + 1
    BY <1>4, <2>1, FS_Interval
  <2> QED BY <1>4, <2>2
<1> HIDE DEF O, P, size
<1>6. IsFiniteSet(O)
  <2>1. O \in SUBSET AllPayloads(blk)
    BY <1>1
  <2> QED BY <1>3, <2>1, FS_Subset
<1>7. Cardinality(O) \in Nat
  BY <1>6, FS_CardinalityType
<1>8. Cardinality(O \cup P) = Cardinality(O) + Cardinality(P) - Cardinality({})
  BY <1>2, <1>5, <1>6, FS_Union
<1>9. Cardinality({}) = 0
  BY FS_EmptySet
<1> QED BY <1>1, <1>4, <1>5, <1>6, <1>7, <1>8, <1>9 DEF O, size

HighInv ==
  /\ total_size = Cardinality(AllPayloads(block))
  /\ max_total_size > 0 => max_total_size + Overhead <= heap.brk

LEMMA CountsPayloads ==
  ASSUME Inv, HighInv, NEW id \in Ids, NEW v, CallServed(id, v), heap'.brk \in Nat,
         heap'.brk >= heap.brk
  PROVE  HighInv'
<1>1. /\ status = "ready" /\ Served(heap, block, heap', id, v)
      /\ block' = [block EXCEPT ![id] = v] /\ Count(Grows(id, v.size))
  BY DEF CallServed
<1>2. /\ block \in Blks /\ HeapInv(heap, block) /\ block' \in Blks /\ HeapInv(heap', block')
      /\ heap.brk \in Nat /\ max_total_size \in Nat
  BY <1>1, HeapAssumption DEF Served, Inv, HeapRecord
<1>3. block'[id] = v /\ OtherPayloads(block', id) = OtherPayloads(block, id)
  <2>1. \A i \in Ids : block'[i] = IF i = id THEN v ELSE block[i]
    BY <1>1, <1>2 DEF Blks
  <2> QED BY <2>1 DEF OtherPayloads
<1> DEFINE c == Cardinality(OtherPayloads(block, id))
           t == Cardinality(AllPayloads(block'))
<1>4. c \in Nat /\ block[id].size \in Nat /\ total_size = c + block[id].size
  BY <1>2, PayloadsSplit DEF HighInv
<1>5. v.size \in Nat /\ t = c + v.size
  BY <1>2, <1>3, PayloadsSplit
<1>6. t \in Nat /\ (t > 0 => t + Overhead <= heap'.brk)
  BY <1>2, PayloadsInHeap
<1> HIDE DEF c, t
<1>7. total_size' = t
      /\ max_total_size' = IF total_size' > max_total_size THEN total_size' ELSE max_total_size
  BY <1>1, <1>4, <1>5 DEF Count, Grows
<1>8. max_total_size > 0 => max_total_size + Overhead <= heap.brk
  BY DEF HighInv
<1>9. max_total_size' > 0 => max_total_size' + Overhead <= heap'.brk
  BY <1>2, <1>6, <1>7, <1>8 DEF Overhead, DSIZE
<1> QED BY <1>7, <1>9 DEF HighInv, t

(***************************************************************************)
(* HighWaterInHeap: the sum that eval_mm_util keeps over malloc, realloc   *)
(* and free is right, and its high water mark is six words below the size  *)
(* of the heap: the utilization is below 1.                                *)
(***************************************************************************)
THEOREM HighWaterAlwaysInHeap == Spec => []HighWaterInHeap
<1>1. Init => HighInv
  <2> SUFFICES ASSUME Init PROVE HighInv
    OBVIOUS
  <2>1. block = [id \in Ids |-> NoBlock] /\ total_size = 0 /\ max_total_size = 0
    BY DEF Init
  <2>2. \A id \in Ids : PayloadWords(block[id]) = {}
    BY <2>1 DEF NoBlock, PayloadWords
  <2>3. AllPayloads(block) = {}
    BY <2>2 DEF AllPayloads
  <2> QED BY <2>1, <2>3, FS_EmptySet DEF HighInv
<1>2. Inv /\ HighInv /\ [Next]_vars => HighInv'
  <2> SUFFICES ASSUME Inv, HighInv, [Next]_vars PROVE HighInv'
    OBVIOUS
  <2>1. CASE UNCHANGED vars
    BY <2>1 DEF vars, sums, HighInv, AllPayloads
  <2>2. CASE Next
    <3>1. heap'.brk \in Nat /\ heap'.brk >= heap.brk
      BY <2>2, HeapGrows
    <3>2. ASSUME UNCHANGED <<block, sums>> PROVE HighInv'
      <4>1. heap.brk \in Nat /\ max_total_size \in Nat
        BY HeapAssumption DEF Inv, HeapRecord
      <4> QED BY <3>1, <3>2, <4>1 DEF HighInv, sums, AllPayloads, Overhead, DSIZE
    <3>3. ASSUME CallFailed PROVE HighInv'
      BY <3>2, <3>3 DEF CallFailed, sums
    <3>4. ASSUME Fill PROVE HighInv'
      BY <3>2, <3>4 DEF Fill, sums
    <3>5. ASSUME NEW id \in Ids, NEW v, CallServed(id, v) PROVE HighInv'
      BY <3>1, <3>5, CountsPayloads
    <3> QED BY <2>2, <3>3, <3>4, <3>5, NextIs
  <2> QED BY <2>1, <2>2
<1>3. HighInv => HighWaterInHeap
  BY DEF HighInv, HighWaterInHeap, AllPayloads, Overhead
<1> QED BY <1>1, <1>2, <1>3, AlwaysInv, PTL DEF Spec
=============================================================================
