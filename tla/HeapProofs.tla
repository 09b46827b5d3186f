------------------------------ MODULE HeapProofs ------------------------------
(***************************************************************************)
(* What the routines of the allocator do to the blocks of a heap and to    *)
(* its free list, whatever lies in the memory besides.                     *)
(*                                                                         *)
(* A heap is described without its memory by the sizes S of its blocks, a  *)
(* function on their addresses, and by the free list, n addresses L[1],    *)
(* ..., L[n].  Each routine is shown to lead from a heap described in this *)
(* way to one described by sizes and a list that depend on nothing else.   *)
(***************************************************************************)
EXTENDS Heap, FiniteSetTheorems, WellFoundedInduction, TLAPS

HeapRecord ==
  [mem : [Addr -> Nat], brk : 0 .. MAX_HEAP, hd_free : Addr \cup {NULL}, ft_free : Addr \cup {NULL}]

\* The blocks follow each other from the prologue up to the break.
Tiling(S, brk) ==
  /\ S \in [DOMAIN S -> Nat] /\ DOMAIN S \subseteq Nat /\ brk \in Nat
  /\ heap_listp \in DOMAIN S /\ S[heap_listp] = DSIZE
  /\ \A b \in DOMAIN S :
       /\ b % 2 = 0 /\ S[b] % 2 = 0
       /\ b = heap_listp \/ (b >= 4 /\ S[b] >= MINBLOCK)
       /\ b + S[b] <= brk /\ b + S[b] \in DOMAIN S \cup {brk}
  /\ \A a, b \in DOMAIN S : a < b => a + S[a] <= b
  /\ \A b \in DOMAIN S \cup {brk} : b # heap_listp => \E a \in DOMAIN S : a + S[a] = b

\* The tags of blocks with the sizes S, those in F free, except the tags of those in X
TagsBut(h, S, F, X) ==
  \A b \in DOMAIN S \ X :
    LET tag == IF b \in F THEN S[b] ELSE S[b] + 1
    IN  h.mem[b - 1] = tag /\ h.mem[b + S[b] - 2] = tag

Epilogue(h) == h.mem[h.brk - 1] = 1

Listed(n, L) == {L[k] : k \in 1 .. n}

\* Places for the links of a free block
LinkPlace == {b \in Nat : b % 2 = 0 /\ b >= 4 /\ b + 1 < MAX_HEAP}

List(n, L) ==
  n \in Nat /\ L \in [1 .. n -> LinkPlace] /\ \A j, k \in 1 .. n : L[j] = L[k] => j = k

\* The words of the links, and the ends of the list
Links(h, n, L) ==
  /\ h.hd_free = (IF n = 0 THEN NULL ELSE L[1])
  /\ h.ft_free = (IF n = 0 THEN NULL ELSE L[n])
  /\ \A k \in 1 .. n :
       /\ h.mem[L[k]] = IF k = 1 THEN 0 ELSE L[k - 1] - 2
       /\ h.mem[L[k] + 1] = IF k = n THEN 0 ELSE L[k + 1] - 2

\* The list as it is after insert, replace, remove
Inserted(n, L, b) == [k \in 1 .. (n + 1) |-> IF k <= n THEN L[k] ELSE b]
Replaced(L, j, b) == [L EXCEPT ![j] = b]
Removed(n, L, j) == [k \in 1 .. (n - 1) |-> IF k < j THEN L[k] ELSE L[k + 1]]

-----------------------------------------------------------------------------
(* Words of the memory.                                                    *)

LEMMA Words ==
  ASSUME NEW size \in Nat, size % 2 = 0
  PROVE  /\ GET_SIZE(size) = size /\ GET_ALLOC(size) = 0
         /\ GET_SIZE(size + 1) = size /\ GET_ALLOC(size + 1) = 1
BY DEF GET_SIZE, GET_ALLOC

\* Words that are stored inside the memory leave it as long as it is.
LEMMA StoredWords ==
  ASSUME NEW mem \in [Addr -> Nat], NEW words, DOMAIN words \subseteq Addr
  PROVE  Stored(mem, words) = [a \in Addr |-> IF a \in DOMAIN words THEN words[a] ELSE mem[a]]
<1>1. DOMAIN mem \cup DOMAIN words = Addr
  OBVIOUS
<1> QED BY <1>1 DEF Stored

\* g is h after one word was written.
Wrote(h, g, p, word) ==
  /\ g \in HeapRecord /\ g.brk = h.brk /\ g.hd_free = h.hd_free /\ g.ft_free = h.ft_free
  /\ \A a \in Addr : g.mem[a] = IF a = p THEN word ELSE h.mem[a]

LEMMA PutWord ==
  ASSUME NEW h \in HeapRecord, NEW p \in Addr, NEW word \in Nat
  PROVE  Wrote(h, PUT(h, p, word), p, word)
<1> DEFINE words == [a \in {p} |-> word]
           mem == [a \in Addr |-> IF a = p THEN word ELSE h.mem[a]]
<1>1. h.mem \in [Addr -> Nat] /\ DOMAIN words = {p} /\ words[p] = word
  BY DEF HeapRecord
<1>2. Stored(h.mem, words) = [a \in Addr |-> IF a \in DOMAIN words THEN words[a] ELSE h.mem[a]]
  <2> HIDE DEF words
  <2> QED BY <1>1, StoredWords
<1>3. Stored(h.mem, words) = mem
  <2> HIDE DEF words
  <2> QED BY <1>1, <1>2
<1>4. PUT(h, p, word) = [h EXCEPT !.mem = mem]
  BY <1>3 DEF PUT
<1>5. mem \in [Addr -> Nat] /\ \A a \in Addr : mem[a] = IF a = p THEN word ELSE h.mem[a]
  BY <1>1
<1> HIDE DEF mem
<1> QED BY <1>4, <1>5 DEF HeapRecord, Wrote

\* Tag writes two words.
LEMMA TagWords ==
  ASSUME NEW h \in HeapRecord, NEW bp \in Nat, NEW size \in Nat, NEW alloc \in {0, 1},
         bp - 1 \in Addr, bp + size - 2 \in Addr
  PROVE  LET g == Tag(h, bp, size, alloc)
         IN  /\ g \in HeapRecord /\ g.brk = h.brk
             /\ g.hd_free = h.hd_free /\ g.ft_free = h.ft_free
             /\ \A a \in Addr : g.mem[a] = IF a = bp - 1 \/ a = bp + size - 2 THEN size + alloc
                                           ELSE h.mem[a]
<1> DEFINE f == PUT(h, bp - 1, size + alloc)
           g == PUT(f, bp + size - 2, size + alloc)
<1>1. g = Tag(h, bp, size, alloc)
  BY DEF Tag, HDRP, PACK, DSIZE
<1>2. size + alloc \in Nat
  OBVIOUS
<1>3. Wrote(h, f, bp - 1, size + alloc)
  BY <1>2, PutWord
<1> HIDE DEF f
<1>4. Wrote(f, g, bp + size - 2, size + alloc)
  BY <1>2, <1>3, PutWord DEF Wrote
<1> HIDE DEF g
<1> QED BY <1>1, <1>3, <1>4 DEF Wrote

-----------------------------------------------------------------------------
(* The routines of the free list.                                          *)

\* Nothing but links of the blocks in X has changed.
OnlyLinks(h, g, X) ==
  \A a \in Addr : (\A x \in X : a # x /\ a # x + 1) => g.mem[a] = h.mem[a]

LEMMA LinkPlaces ==
  ASSUME NEW b \in LinkPlace
  PROVE  /\ b \in Addr /\ b + 1 \in Addr /\ b - 2 \in Nat /\ b - 2 # 0 /\ b \in Int
         /\ \A c \in LinkPlace : c # b + 1 /\ b # c + 1
BY HeapAssumption DEF LinkPlace, Addr

LEMMA InsertLinks ==
  ASSUME NEW h \in HeapRecord, NEW n, NEW L, List(n, L), Links(h, n, L),
         NEW b \in LinkPlace, b \notin Listed(n, L)
  PROVE  LET g == insert_free_block(h, b)
             M == Inserted(n, L, b)
         IN  /\ g \in HeapRecord /\ g.brk = h.brk
             /\ List(n + 1, M) /\ Links(g, n + 1, M)
             /\ Listed(n + 1, M) = Listed(n, L) \cup {b}
             /\ OnlyLinks(h, g, Listed(n + 1, M))
<1> DEFINE g == insert_free_block(h, b)
           M == Inserted(n, L, b)
<1>1. n \in Nat /\ L \in [1 .. n -> LinkPlace]
  BY DEF List
<1>2. M \in [1 .. (n + 1) -> LinkPlace] /\ M[n + 1] = b /\ \A k \in 1 .. n : M[k] = L[k]
  BY <1>1 DEF Inserted
<1>3. List(n + 1, M)
  BY <1>1, <1>2 DEF List, Listed
<1>4. Listed(n + 1, M) = Listed(n, L) \cup {b}
  BY <1>1, <1>2 DEF Listed
<1> HIDE DEF M
<1>5. h.mem \in [Addr -> Nat] /\ 0 \in Nat /\ b \in Addr /\ b + 1 \in Addr /\ b - 2 \in Nat
  BY LinkPlaces DEF HeapRecord
<1>6. CASE n = 0
  <2> DEFINE e == PUT(h, b + 1, 0)
             f == PUT(e, b, 0)
  <2>1. h.hd_free = NULL
    BY <1>6 DEF Links
  <2>2. g = [f EXCEPT !.hd_free = b, !.ft_free = b]
    BY <2>1 DEF insert_free_block, NEXT_FREE, PREV_FREE
  <2>3. Wrote(h, e, b + 1, 0)
    BY <1>5, PutWord
  <2> HIDE DEF e
  <2>4. Wrote(e, f, b, 0)
    <3>1. e \in HeapRecord
      BY <2>3 DEF Wrote
    <3> QED BY <1>5, <3>1, PutWord
  <2> HIDE DEF f
  <2>5. g \in HeapRecord /\ g.mem = f.mem /\ g.brk = f.brk /\ g.hd_free = b /\ g.ft_free = b
    BY <1>5, <2>2, <2>4 DEF HeapRecord, Wrote
  <2> HIDE DEF g
  <2>6. g.mem[b] = 0 /\ g.mem[b + 1] = 0 /\ \A a \in Addr : a # b /\ a # b + 1 => g.mem[a] = h.mem[a]
    BY <1>5, <2>3, <2>4, <2>5 DEF Wrote
  <2>7. Links(g, n + 1, M)
    BY <1>2, <1>6, <2>5, <2>6 DEF Links
  <2>8. OnlyLinks(h, g, Listed(n + 1, M))
    BY <1>4, <2>6 DEF OnlyLinks
  <2> QED BY <1>3, <1>4, <2>3, <2>4, <2>5, <2>7, <2>8 DEF g, M, Wrote
<1>7. CASE n # 0
  <2> DEFINE t == L[n]
             d == PUT(h, t + 1, b - 2)
             e == PUT(d, b, t - 2)
             f == PUT(e, b + 1, 0)
  <2>1. h.hd_free # NULL /\ h.ft_free = t /\ t \in LinkPlace /\ t # b
    <3>1. 1 \in 1 .. n /\ n \in 1 .. n
      BY <1>1, <1>7
    <3>2. h.hd_free = L[1] /\ h.ft_free = t
      BY <1>7 DEF Links
    <3>3. L[1] \in LinkPlace /\ t \in LinkPlace
      BY <1>1, <3>1
    <3>4. t \in Listed(n, L)
      BY <3>1 DEF Listed
    <3>5. L[1] # NULL
      BY <3>3 DEF LinkPlace, NULL
    <3> QED BY <3>2, <3>3, <3>4, <3>5
  <2>2. g = [f EXCEPT !.ft_free = b]
    BY <2>1 DEF insert_free_block, NEXT_FREE, PREV_FREE, SELF_INDEX, heap_listp, DSIZE
  <2>3. t \in Addr /\ t + 1 \in Addr /\ t - 2 \in Nat
    BY <2>1, LinkPlaces
  <2> HIDE DEF t
  <2>4. Wrote(h, d, t + 1, b - 2)
    BY <1>5, <2>3, PutWord
  <2> HIDE DEF d
  <2>5. Wrote(d, e, b, t - 2)
    <3>1. d \in HeapRecord
      BY <2>4 DEF Wrote
    <3> QED BY <1>5, <2>3, <3>1, PutWord
  <2> HIDE DEF e
  <2>6. Wrote(e, f, b + 1, 0)
    <3>1. e \in HeapRecord
      BY <2>5 DEF Wrote
    <3> QED BY <1>5, <2>3, <3>1, PutWord
  <2> HIDE DEF f
  <2>7. g \in HeapRecord /\ g.mem = f.mem /\ g.brk = f.brk /\ g.hd_free = f.hd_free /\ g.ft_free = b
    BY <1>5, <2>2, <2>6 DEF HeapRecord, Wrote
  <2> HIDE DEF g
  <2>8. /\ g.mem[b] = t - 2 /\ g.mem[b + 1] = 0 /\ g.mem[t + 1] = b - 2
        /\ \A a \in Addr : a # b /\ a # b + 1 /\ a # t + 1 => g.mem[a] = h.mem[a]
    BY <1>5, <2>1, <2>3, <2>4, <2>5, <2>6, <2>7, LinkPlaces DEF Wrote
  <2>9. Links(g, n + 1, M)
    <3>1. g.hd_free = M[1] /\ g.ft_free = M[n + 1]
      BY <1>1, <1>2, <1>7, <2>4, <2>5, <2>6, <2>7 DEF Links, Wrote
    <3>2. ASSUME NEW k \in 1 .. n
          PROVE  /\ g.mem[L[k]] = IF k = 1 THEN 0 ELSE L[k - 1] - 2
                 /\ g.mem[L[k] + 1] = IF k = n THEN b - 2 ELSE L[k + 1] - 2
      <4>1. L[k] \in LinkPlace /\ L[k] # b /\ (k # n => L[k] # t)
        BY <1>1, <1>7 DEF Listed, List, t
      <4>2. L[k] \in Addr /\ L[k] + 1 \in Addr /\ L[k] # b + 1 /\ L[k] + 1 # b /\ L[k] # t + 1
            /\ L[k] + 1 # b + 1 /\ (k # n => L[k] + 1 # t + 1)
        BY <2>1, <4>1, LinkPlaces
      <4>3. g.mem[L[k]] = h.mem[L[k]] /\ (k # n => g.mem[L[k] + 1] = h.mem[L[k] + 1])
        BY <2>8, <4>1, <4>2
      <4>4. k = n => g.mem[L[k] + 1] = b - 2
        BY <2>8 DEF t
      <4> QED BY <4>3, <4>4 DEF Links
    <3>3. /\ g.mem[M[n + 1]] = M[n] - 2 /\ g.mem[M[n + 1] + 1] = 0
      BY <1>1, <1>2, <1>7, <2>8 DEF t
    <3>4. ASSUME NEW k \in 1 .. (n + 1)
          PROVE  /\ g.mem[M[k]] = IF k = 1 THEN 0 ELSE M[k - 1] - 2
                 /\ g.mem[M[k] + 1] = IF k = n + 1 THEN 0 ELSE M[k + 1] - 2
      <4>1. CASE k = n + 1
        BY <1>1, <1>7, <3>3, <4>1
      <4>2. CASE k \in 1 .. n
        <5>1. M[k] = L[k] /\ (k # 1 => M[k - 1] = L[k - 1]) /\ M[k + 1] = IF k = n THEN b ELSE L[k + 1]
          BY <1>1, <1>2, <4>2
        <5> QED BY <1>1, <3>2, <4>2, <5>1
      <4> QED BY <1>1, <4>1, <4>2
    <3> QED BY <1>1, <3>1, <3>4 DEF Links
  <2>10. OnlyLinks(h, g, Listed(n + 1, M))
    <3>1. t \in Listed(n, L)
      BY <1>1, <1>7 DEF Listed, t
    <3> QED BY <1>4, <2>8, <3>1 DEF OnlyLinks
  <2> QED BY <1>3, <1>4, <2>4, <2>5, <2>6, <2>7, <2>9, <2>10 DEF g, M, Wrote
<1> QED BY <1>6, <1>7

LEMMA LinkReads ==
  ASSUME NEW h \in HeapRecord, NEW n, NEW L, List(n, L), Links(h, n, L), NEW k \in 1 .. n
  PROVE  /\ L[k] \in LinkPlace
         /\ prev_free_block(h, L[k]) = IF k = 1 THEN NULL ELSE L[k - 1]
         /\ next_free_block(h, L[k]) = IF k = n THEN NULL ELSE L[k + 1]
         /\ h.hd_free = L[k] <=> k = 1
         /\ h.ft_free = L[k] <=> k = n
<1>1. n \in Nat /\ L \in [1 .. n -> LinkPlace] /\ k \in Nat /\ 1 \in 1 .. n /\ n \in 1 .. n
  BY DEF List
<1>2. \A j \in 1 .. n : L[j] \in Nat /\ L[j] >= 4
  BY <1>1 DEF LinkPlace
<1>3. prev_free_block(h, L[k]) = IF k = 1 THEN NULL ELSE L[k - 1]
  <2>1. h.mem[L[k]] = IF k = 1 THEN 0 ELSE L[k - 1] - 2
    BY DEF Links
  <2>2. k # 1 => L[k - 1] - 2 # 0 /\ 2 + (L[k - 1] - 2) = L[k - 1]
    BY <1>1, <1>2
  <2> QED BY <2>1, <2>2 DEF prev_free_block, LinkedAt, PREV_FREE, heap_listp, DSIZE
<1>4. next_free_block(h, L[k]) = IF k = n THEN NULL ELSE L[k + 1]
  <2>1. h.mem[L[k] + 1] = IF k = n THEN 0 ELSE L[k + 1] - 2
    BY DEF Links
  <2>2. k # n => L[k + 1] - 2 # 0 /\ 2 + (L[k + 1] - 2) = L[k + 1]
    BY <1>1, <1>2
  <2> QED BY <2>1, <2>2 DEF next_free_block, LinkedAt, NEXT_FREE, heap_listp, DSIZE
<1>5. h.hd_free = L[1] /\ h.ft_free = L[n]
  BY <1>1 DEF Links
<1> QED BY <1>1, <1>3, <1>4, <1>5 DEF List

\* The links of two blocks are different words.
LEMMA LinksApart ==
  ASSUME NEW n, NEW L, List(n, L), NEW j \in 1 .. n, NEW k \in 1 .. n
  PROVE  /\ L[j] \in Addr /\ L[j] + 1 \in Addr /\ L[j] \in Nat
         /\ L[j] # L[k] + 1 /\ L[j] + 1 # L[k]
         /\ j # k => L[j] # L[k] /\ L[j] + 1 # L[k] + 1
<1>1. L[j] \in LinkPlace /\ L[k] \in LinkPlace
  BY DEF List
<1>2. j # k => L[j] # L[k]
  BY DEF List
<1> QED BY <1>1, <1>2, LinkPlaces

LEMMA RemovedList ==
  ASSUME NEW n, NEW L, List(n, L), NEW j \in 1 .. n
  PROVE  LET M == Removed(n, L, j)
         IN  /\ n - 1 \in Nat /\ List(n - 1, M) /\ Listed(n - 1, M) = Listed(n, L) \ {L[j]}
             /\ \A k \in 1 .. (n - 1) : M[k] = L[IF k < j THEN k ELSE k + 1]
<1> DEFINE M == Removed(n, L, j)
<1>1. n \in Nat /\ j \in Nat /\ n - 1 \in Nat /\ L \in [1 .. n -> LinkPlace]
      /\ \A i, k \in 1 .. n : L[i] = L[k] => i = k
  BY DEF List
<1>2. \A k \in 1 .. (n - 1) : M[k] = L[IF k < j THEN k ELSE k + 1] /\ k \in 1 .. n /\ k + 1 \in 1 .. n
  BY <1>1 DEF Removed
<1>3. M \in [1 .. (n - 1) -> LinkPlace]
  BY <1>1 DEF Removed
<1> HIDE DEF M
<1>4. List(n - 1, M)
  <2>1. ASSUME NEW i \in 1 .. (n - 1), NEW k \in 1 .. (n - 1), M[i] = M[k] PROVE i = k
    BY <1>1, <1>2, <2>1
  <2> QED BY <1>1, <1>3, <2>1 DEF List
<1>5. Listed(n - 1, M) = Listed(n, L) \ {L[j]}
  <2>1. ASSUME NEW k \in 1 .. (n - 1) PROVE M[k] \in Listed(n, L) \ {L[j]}
    BY <1>1, <1>2, <2>1 DEF Listed
  <2>2. ASSUME NEW k \in 1 .. n, k # j PROVE L[k] \in Listed(n - 1, M)
    <3>1. CASE k < j
      <4>1. k \in 1 .. (n - 1) /\ M[k] = L[k]
        BY <1>1, <1>2, <3>1
      <4> QED BY <4>1 DEF Listed
    <3>2. CASE k > j
      <4>1. k - 1 \in 1 .. (n - 1) /\ M[k - 1] = L[k]
        BY <1>1, <1>2, <3>2
      <4> QED BY <4>1 DEF Listed
    <3> QED BY <1>1, <2>2, <3>1, <3>2
  <2> QED BY <2>1, <2>2 DEF Listed
<1> QED BY <1>1, <1>2, <1>4, <1>5 DEF M

\* Heap g is h with the list M in place of another one.
Relinked(h, g, m, M) ==
  g \in HeapRecord /\ g.brk = h.brk /\ Links(g, m, M) /\ OnlyLinks(h, g, Listed(m, M))

LEMMA RemoveLinks ==
  ASSUME NEW h \in HeapRecord, NEW n, NEW L, List(n, L), Links(h, n, L), NEW j \in 1 .. n
  PROVE  Relinked(h, remove_free_block(h, L[j]), n - 1, Removed(n, L, j))
<1> DEFINE b == L[j]
           g == remove_free_block(h, b)
           M == Removed(n, L, j)
           prev == prev_free_block(h, b)
           next == next_free_block(h, b)
           e == IF prev # NULL THEN PUT(h, prev + 1, h.mem[b + 1]) ELSE [h EXCEPT !.hd_free = next]
           f == IF next # NULL THEN PUT(e, next, e.mem[b]) ELSE [e EXCEPT !.ft_free = prev]
           forth == IF j = n THEN 0 ELSE L[j + 1] - 2
           back == IF j = 1 THEN 0 ELSE L[j - 1] - 2
<1>1. g = f
  BY DEF remove_free_block, NEXT_FREE, PREV_FREE
<1>2. /\ n \in Nat /\ j \in Nat /\ j >= 1 /\ j <= n
      /\ \A k \in 1 .. n : L[k] \in Addr /\ L[k] + 1 \in Addr /\ L[k] \in LinkPlace /\ L[k] # NULL
  BY LinkPlaces, LinksApart DEF List, NULL
<1>3. prev = (IF j = 1 THEN NULL ELSE L[j - 1]) /\ next = IF j = n THEN NULL ELSE L[j + 1]
  BY LinkReads
<1>4. h.mem[b] = back /\ h.mem[b + 1] = forth /\ back \in Nat /\ forth \in Nat
  <2>1. h.mem[b] = back /\ h.mem[b + 1] = forth
    BY DEF Links
  <2>2. (j # 1 => L[j - 1] - 2 \in Nat) /\ (j # n => L[j + 1] - 2 \in Nat)
    BY <1>2, LinkPlaces
  <2> QED BY <2>1, <2>2
<1> HIDE DEF prev, next, forth, back
<1>5. /\ e \in HeapRecord /\ e.brk = h.brk /\ e.ft_free = h.ft_free
      /\ e.hd_free = IF j = 1 THEN next ELSE h.hd_free
      /\ \A a \in Addr : e.mem[a] = IF j # 1 /\ a = L[j - 1] + 1 THEN forth ELSE h.mem[a]
  <2>1. CASE j = 1
    <3>1. e = [h EXCEPT !.hd_free = next] /\ next \in Addr \cup {NULL}
      BY <1>2, <1>3, <2>1
    <3> QED BY <2>1, <3>1 DEF HeapRecord
  <2>2. CASE j # 1
    <3>1. e = PUT(h, L[j - 1] + 1, forth) /\ L[j - 1] + 1 \in Addr
      BY <1>2, <1>3, <1>4, <2>2
    <3> HIDE DEF e
    <3>2. Wrote(h, e, L[j - 1] + 1, forth)
      BY <1>4, <3>1, PutWord
    <3> QED BY <2>2, <3>2 DEF Wrote
  <2> QED BY <2>1, <2>2
<1> HIDE DEF e
<1>6. e.mem[b] = back
  BY <1>2, <1>4, <1>5, LinksApart
<1>7. /\ f \in HeapRecord /\ f.brk = e.brk /\ f.hd_free = e.hd_free
      /\ f.ft_free = IF j = n THEN prev ELSE e.ft_free
      /\ \A a \in Addr : f.mem[a] = IF j # n /\ a = L[j + 1] THEN back ELSE e.mem[a]
  <2>1. CASE j = n
    <3>1. f = [e EXCEPT !.ft_free = prev] /\ prev \in Addr \cup {NULL}
      BY <1>2, <1>3, <2>1
    <3> QED BY <1>5, <2>1, <3>1 DEF HeapRecord
  <2>2. CASE j # n
    <3>1. f = PUT(e, L[j + 1], back) /\ L[j + 1] \in Addr
      BY <1>2, <1>3, <1>6, <2>2
    <3> HIDE DEF f
    <3>2. Wrote(e, f, L[j + 1], back)
      BY <1>4, <1>5, <3>1, PutWord
    <3> QED BY <2>2, <3>2 DEF Wrote
  <2> QED BY <2>1, <2>2
<1> HIDE DEF f
<1>8. \A a \in Addr : f.mem[a] = IF j # n /\ a = L[j + 1] THEN back
                                 ELSE IF j # 1 /\ a = L[j - 1] + 1 THEN forth ELSE h.mem[a]
  BY <1>5, <1>7
<1>9. ASSUME NEW k \in 1 .. n, k # j
      PROVE  /\ f.mem[L[k]] = IF k = j + 1 THEN back ELSE h.mem[L[k]]
             /\ f.mem[L[k] + 1] = IF k = j - 1 THEN forth ELSE h.mem[L[k] + 1]
  <2>1. /\ j # n => L[k] + 1 # L[j + 1] /\ (k # j + 1 => L[k] # L[j + 1])
        /\ j # 1 => L[k] # L[j - 1] + 1 /\ (k # j - 1 => L[k] + 1 # L[j - 1] + 1)
    BY <1>2, LinksApart
  <2> QED BY <1>2, <1>8, <2>1
<1>10. n - 1 \in Nat /\ \A k \in 1 .. (n - 1) : M[k] = L[IF k < j THEN k ELSE k + 1]
  BY RemovedList
<1>11. Links(f, n - 1, M)
  <2> HIDE DEF M
  <2>1. f.hd_free = IF n - 1 = 0 THEN NULL ELSE M[1]
    <3>1. h.hd_free = L[1]
      BY <1>2 DEF Links
    <3> QED BY <1>2, <1>3, <1>5, <1>7, <1>10, <3>1
  <2>2. f.ft_free = IF n - 1 = 0 THEN NULL ELSE M[n - 1]
    <3>1. h.ft_free = L[n]
      BY <1>2 DEF Links
    <3> QED BY <1>2, <1>3, <1>5, <1>7, <1>10, <3>1
  <2>3. ASSUME NEW k \in 1 .. (n - 1)
        PROVE  /\ f.mem[M[k]] = IF k = 1 THEN 0 ELSE M[k - 1] - 2
               /\ f.mem[M[k] + 1] = IF k = n - 1 THEN 0 ELSE M[k + 1] - 2
    <3> DEFINE i == IF k < j THEN k ELSE k + 1
    <3>1. i \in 1 .. n /\ i # j /\ M[k] = L[i]
      BY <1>2, <1>10
    <3>2. /\ f.mem[L[i]] = IF i = j + 1 THEN back ELSE h.mem[L[i]]
          /\ f.mem[L[i] + 1] = IF i = j - 1 THEN forth ELSE h.mem[L[i] + 1]
      BY <1>9, <3>1
    <3>3. /\ h.mem[L[i]] = IF i = 1 THEN 0 ELSE L[i - 1] - 2
          /\ h.mem[L[i] + 1] = IF i = n THEN 0 ELSE L[i + 1] - 2
      BY <3>1 DEF Links
    <3>4. k # 1 => M[k - 1] = L[IF k - 1 < j THEN k - 1 ELSE k]
      BY <1>2, <1>10
    <3>5. k # n - 1 => M[k + 1] = L[IF k + 1 < j THEN k + 1 ELSE k + 2]
      BY <1>2, <1>10
    <3>6. f.mem[L[i]] = IF k = 1 THEN 0 ELSE M[k - 1] - 2
      BY <1>2, <3>1, <3>2, <3>3, <3>4 DEF back
    <3>7. f.mem[L[i] + 1] = IF k = n - 1 THEN 0 ELSE M[k + 1] - 2
      BY <1>2, <3>1, <3>2, <3>3, <3>5 DEF forth
    <3> QED BY <3>1, <3>6, <3>7
  <2> QED BY <2>1, <2>2, <2>3 DEF Links
<1>12. OnlyLinks(h, f, Listed(n - 1, M))
  <2>1. Listed(n - 1, M) = Listed(n, L) \ {L[j]}
    BY RemovedList
  <2>2. /\ j # n => L[j + 1] \in Listed(n - 1, M)
        /\ j # 1 => L[j - 1] \in Listed(n - 1, M)
    <3>1. \A k \in 1 .. n : k # j => L[k] \in Listed(n, L) \ {L[j]}
      BY DEF List, Listed
    <3> QED BY <1>2, <2>1, <3>1
  <2> HIDE DEF M
  <2> QED BY <1>8, <2>2 DEF OnlyLinks
<1> QED BY <1>1, <1>5, <1>7, <1>11, <1>12 DEF Relinked

LEMMA ReplacedList ==
  ASSUME NEW n, NEW L, List(n, L), NEW j \in 1 .. n, NEW new \in LinkPlace, new \notin Listed(n, L)
  PROVE  LET M == Replaced(L, j, new)
         IN  /\ List(n, M) /\ Listed(n, M) = (Listed(n, L) \ {L[j]}) \cup {new}
             /\ \A k \in 1 .. n : M[k] = IF k = j THEN new ELSE L[k]
<1> DEFINE M == Replaced(L, j, new)
<1>1. n \in Nat /\ L \in [1 .. n -> LinkPlace] /\ \A i, k \in 1 .. n : L[i] = L[k] => i = k
  BY DEF List
<1>2. M \in [1 .. n -> LinkPlace] /\ \A k \in 1 .. n : M[k] = IF k = j THEN new ELSE L[k]
  BY <1>1 DEF Replaced
<1> HIDE DEF M
<1>3. List(n, M)
  BY <1>1, <1>2 DEF List, Listed
<1>4. Listed(n, M) = (Listed(n, L) \ {L[j]}) \cup {new}
  BY <1>1, <1>2 DEF Listed
<1> QED BY <1>2, <1>3, <1>4 DEF M

LEMMA ReplaceLinks ==
  ASSUME NEW h \in HeapRecord, NEW n, NEW L, List(n, L), Links(h, n, L), NEW j \in 1 .. n,
         NEW new \in LinkPlace, new \notin Listed(n, L)
  PROVE  Relinked(h, replace_free_block(h, L[j], new), n, Replaced(L, j, new))
<1> DEFINE old == L[j]
           g == replace_free_block(h, old, new)
           M == Replaced(L, j, new)
           e == IF h.hd_free = old THEN [h EXCEPT !.hd_free = new]
                ELSE PUT(h, 2 + h.mem[old] + 1, new - 2)
           f == IF e.ft_free = old THEN [e EXCEPT !.ft_free = new]
                ELSE PUT(e, 2 + e.mem[old + 1], new - 2)
           forth == IF j = n THEN 0 ELSE L[j + 1] - 2
           back == IF j = 1 THEN 0 ELSE L[j - 1] - 2
<1>1. g = [f EXCEPT !.mem = Stored(f.mem, [p \in {new, new + 1} |-> f.mem[p - new + old]])]
  BY DEF replace_free_block, NEXT_FREE, PREV_FREE, SELF_INDEX, heap_listp, DSIZE
<1>2. /\ n \in Nat /\ j \in Nat /\ j >= 1 /\ j <= n /\ old \in Addr /\ old + 1 \in Addr
      /\ \A k \in 1 .. n : L[k] \in Addr /\ L[k] + 1 \in Addr /\ L[k] \in LinkPlace /\ L[k] \in Nat
  <2>1. n \in Nat /\ L \in [1 .. n -> LinkPlace]
    BY DEF List
  <2> QED BY <2>1, LinksApart
<1>3. (h.hd_free = old <=> j = 1) /\ (h.ft_free = old <=> j = n)
  BY LinkReads
<1>4. h.mem[old] = back /\ h.mem[old + 1] = forth /\ back \in Nat /\ forth \in Nat
      /\ new \in Addr /\ new + 1 \in Addr /\ new - 2 \in Nat /\ new \in Nat
  <2>1. h.mem[old] = back /\ h.mem[old + 1] = forth
    BY DEF Links
  <2>2. (j # 1 => L[j - 1] - 2 \in Nat) /\ (j # n => L[j + 1] - 2 \in Nat)
    BY <1>2, LinkPlaces
  <2>3. new \in Addr /\ new + 1 \in Addr /\ new - 2 \in Nat /\ new \in Nat
    BY LinkPlaces DEF LinkPlace
  <2> QED BY <2>1, <2>2, <2>3
<1>5. /\ e \in HeapRecord /\ e.brk = h.brk /\ e.ft_free = h.ft_free
      /\ e.hd_free = IF j = 1 THEN new ELSE h.hd_free
      /\ \A a \in Addr : e.mem[a] = IF j # 1 /\ a = L[j - 1] + 1 THEN new - 2 ELSE h.mem[a]
  <2>1. CASE j = 1
    <3>1. e = [h EXCEPT !.hd_free = new]
      BY <1>3, <2>1
    <3> QED BY <1>4, <2>1, <3>1 DEF HeapRecord
  <2>2. CASE j # 1
    <3>1. e = PUT(h, L[j - 1] + 1, new - 2) /\ L[j - 1] + 1 \in Addr
      <4>1. 2 + h.mem[old] + 1 = L[j - 1] + 1 /\ j - 1 \in 1 .. n
        BY <1>2, <1>4, <2>2
      <4> QED BY <1>2, <1>3, <2>2, <4>1
    <3> HIDE DEF e
    <3>2. Wrote(h, e, L[j - 1] + 1, new - 2)
      BY <1>4, <3>1, PutWord
    <3> QED BY <2>2, <3>2 DEF Wrote
  <2> QED BY <2>1, <2>2
<1> HIDE DEF e
<1>6. e.mem[old + 1] = forth /\ e.mem[old] = back
  <2>1. j # 1 => old # L[j - 1] + 1 /\ old + 1 # L[j - 1] + 1
    BY <1>2, LinksApart
  <2> HIDE DEF old, back, forth
  <2> QED BY <1>2, <1>4, <1>5, <2>1
<1>7. /\ f \in HeapRecord /\ f.brk = e.brk /\ f.hd_free = e.hd_free
      /\ f.ft_free = IF j = n THEN new ELSE e.ft_free
      /\ \A a \in Addr : f.mem[a] = IF j # n /\ a = L[j + 1] THEN new - 2 ELSE e.mem[a]
  <2>1. CASE j = n
    <3>1. f = [e EXCEPT !.ft_free = new]
      BY <1>3, <1>5, <2>1
    <3> QED BY <1>4, <1>5, <2>1, <3>1 DEF HeapRecord
  <2>2. CASE j # n
    <3>1. f = PUT(e, L[j + 1], new - 2) /\ L[j + 1] \in Addr
      <4>1. 2 + e.mem[old + 1] = L[j + 1] /\ j + 1 \in 1 .. n
        BY <1>2, <1>6, <2>2
      <4> QED BY <1>2, <1>3, <1>5, <2>2, <4>1
    <3> HIDE DEF f
    <3>2. Wrote(e, f, L[j + 1], new - 2)
      BY <1>4, <1>5, <3>1, PutWord
    <3> QED BY <2>2, <3>2 DEF Wrote
  <2> QED BY <2>1, <2>2
<1> HIDE DEF f
<1>8. f.mem[old] = back /\ f.mem[old + 1] = forth
  <2>1. j # n => old # L[j + 1] /\ old + 1 # L[j + 1]
    BY <1>2, LinksApart
  <2> HIDE DEF old, back, forth
  <2> QED BY <1>2, <1>6, <1>7, <2>1
<1> HIDE DEF back, forth
<1>9. /\ g \in HeapRecord /\ g.brk = f.brk /\ g.hd_free = f.hd_free /\ g.ft_free = f.ft_free
      /\ \A a \in Addr : g.mem[a] = IF a = new THEN back ELSE IF a = new + 1 THEN forth ELSE f.mem[a]
  <2> HIDE DEF g, old
  <2>1. f.mem \in [Addr -> Nat]
    BY <1>7 DEF HeapRecord
  <2> DEFINE words == [p \in {new, new + 1} |-> f.mem[p - new + old]]
             m == Stored(f.mem, words)
  <2>5. DOMAIN words = {new, new + 1} /\ words[new] = back /\ words[new + 1] = forth
    <3>1. old \in Int /\ new \in Int
      BY <1>2, <1>4 DEF Addr
    <3>2. new - new + old = old /\ new + 1 - new + old = old + 1
      BY <3>1
    <3>3. DOMAIN words = {new, new + 1} /\ \A p \in {new, new + 1} : words[p] = f.mem[p - new + old]
      OBVIOUS
    <3> HIDE DEF words
    <3> QED BY <1>8, <3>1, <3>2, <3>3
  <2> HIDE DEF words
  <2>6. m = [a \in Addr |-> IF a \in DOMAIN words THEN words[a] ELSE f.mem[a]]
    <3>1. DOMAIN words \subseteq Addr
      BY <1>4, <2>5
    <3>2. PICK mem \in [Addr -> Nat] : mem = f.mem
      BY <2>1
    <3> QED BY <3>1, <3>2, StoredWords
  <2>2. m \in [Addr -> Nat]
    BY <1>4, <2>1, <2>5, <2>6
  <2>3. \A a \in Addr : m[a] = IF a = new THEN back ELSE IF a = new + 1 THEN forth ELSE f.mem[a]
    BY <1>4, <2>1, <2>5, <2>6
  <2> HIDE DEF m
  <2>4. g = [f EXCEPT !.mem = m]
    BY <1>1 DEF m, words
  <2> QED BY <1>7, <2>2, <2>3, <2>4 DEF HeapRecord
<1> HIDE DEF g
<1>10. ASSUME NEW k \in 1 .. n, k # j
       PROVE  /\ g.mem[L[k]] = IF k = j + 1 THEN new - 2 ELSE h.mem[L[k]]
              /\ g.mem[L[k] + 1] = IF k = j - 1 THEN new - 2 ELSE h.mem[L[k] + 1]
  <2>1. /\ j # n => L[k] + 1 # L[j + 1] /\ (k # j + 1 => L[k] # L[j + 1])
        /\ j # 1 => L[k] # L[j - 1] + 1 /\ (k # j - 1 => L[k] + 1 # L[j - 1] + 1)
    BY <1>2, LinksApart
  <2>2. L[k] # new /\ L[k] # new + 1 /\ L[k] + 1 # new /\ L[k] + 1 # new + 1
    <3>1. L[k] # new
      BY <1>2, <1>10 DEF Listed
    <3> QED BY <1>2, <3>1, LinkPlaces
  <2>3. g.mem[L[k]] = f.mem[L[k]] /\ g.mem[L[k] + 1] = f.mem[L[k] + 1]
    BY <1>2, <1>9, <2>2
  <2> QED BY <1>2, <1>5, <1>7, <2>1, <2>3
<1>11. \A k \in 1 .. n : M[k] = IF k = j THEN new ELSE L[k]
  BY ReplacedList
<1>12. Links(g, n, M)
  <2> HIDE DEF M
  <2>1. g.hd_free = M[1] /\ g.ft_free = M[n]
    BY <1>2, <1>5, <1>7, <1>9, <1>11 DEF Links
  <2>2. ASSUME NEW k \in 1 .. n
        PROVE  /\ g.mem[M[k]] = IF k = 1 THEN 0 ELSE M[k - 1] - 2
               /\ g.mem[M[k] + 1] = IF k = n THEN 0 ELSE M[k + 1] - 2
    <3>1. CASE k = j
      <4>1. g.mem[M[k]] = back /\ g.mem[M[k] + 1] = forth
        BY <1>4, <1>9, <1>11, <3>1
      <4> QED BY <1>2, <1>11, <3>1, <4>1 DEF back, forth
    <3>2. CASE k # j
      <4>1. /\ h.mem[L[k]] = IF k = 1 THEN 0 ELSE L[k - 1] - 2
            /\ h.mem[L[k] + 1] = IF k = n THEN 0 ELSE L[k + 1] - 2
        BY DEF Links
      <4> QED BY <1>2, <1>10, <1>11, <3>2, <4>1
    <3> QED BY <3>1, <3>2
  <2> QED BY <1>2, <2>1, <2>2 DEF Links
<1>13. OnlyLinks(h, g, Listed(n, M))
  <2>1. Listed(n, M) = (Listed(n, L) \ {L[j]}) \cup {new}
    BY ReplacedList
  <2>2. /\ j # n => L[j + 1] \in Listed(n, M)
        /\ j # 1 => L[j - 1] \in Listed(n, M)
        /\ new \in Listed(n, M)
    <3>1. \A k \in 1 .. n : k # j => L[k] \in Listed(n, L) \ {L[j]}
      BY DEF List, Listed
    <3> QED BY <1>2, <2>1, <3>1
  <2> HIDE DEF M
  <2> QED BY <1>5, <1>7, <1>9, <2>2 DEF OnlyLinks
<1> QED BY <1>5, <1>7, <1>9, <1>12, <1>13 DEF g, Relinked

-----------------------------------------------------------------------------
(* The blocks: cutting one in two, joining two, adding one at the end.     *)

Cut(S, b, size) ==
  [x \in DOMAIN S \cup {b + size} |->
     IF x = b THEN size ELSE IF x = b + size THEN S[b] - size ELSE S[x]]
Joined(S, b) == [x \in DOMAIN S \ {b + S[b]} |-> IF x = b THEN S[b] + S[b + S[b]] ELSE S[x]]
Extended(S, brk, size) == [x \in DOMAIN S \cup {brk} |-> IF x = brk THEN size ELSE S[x]]

IsCut(R, S, brk, b, size) ==
  /\ Tiling(R, brk) /\ b + size \notin DOMAIN S
  /\ DOMAIN R = DOMAIN S \cup {b + size}
  /\ R[b] = size /\ R[b + size] = S[b] - size
  /\ \A x \in DOMAIN S : x # b => R[x] = S[x]

IsJoin(R, S, brk, b) ==
  /\ Tiling(R, brk) /\ b + S[b] # b
  /\ DOMAIN R = DOMAIN S \ {b + S[b]}
  /\ R[b] = S[b] + S[b + S[b]]
  /\ \A x \in DOMAIN S : x # b /\ x # b + S[b] => R[x] = S[x]

IsExtension(R, S, brk, size) ==
  /\ Tiling(R, brk + size) /\ brk \notin DOMAIN S /\ brk \in Nat /\ brk % 2 = 0 /\ brk >= 4
  /\ DOMAIN R = DOMAIN S \cup {brk} /\ R[brk] = size
  /\ \A x \in DOMAIN S : R[x] = S[x]

LEMMA Tile ==
  ASSUME NEW S, NEW brk, Tiling(S, brk), NEW b \in DOMAIN S
  PROVE  /\ b \in Nat /\ S[b] \in Nat /\ brk \in Nat /\ b % 2 = 0 /\ S[b] % 2 = 0
         /\ (b = 2 /\ S[b] = 2) \/ (b >= 4 /\ S[b] >= 4)
         /\ b >= 2 /\ S[b] >= 2
         /\ b + S[b] <= brk /\ b + S[b] \in DOMAIN S \cup {brk}
         /\ \A x \in DOMAIN S : (b < x => b + S[b] <= x) /\ (x < b => x + S[x] <= b)
         /\ b # 2 => \E a \in DOMAIN S : a + S[a] = b
BY DEF Tiling, heap_listp, DSIZE, MINBLOCK

LEMMA Even ==
  ASSUME NEW i \in Int, NEW j \in Int, i % 2 = 0, j % 2 = 0
  PROVE  (i + j) % 2 = 0 /\ (i - j) % 2 = 0
OBVIOUS

LEMMA CutTiling ==
  ASSUME NEW S, NEW brk, Tiling(S, brk), NEW b \in DOMAIN S, b # 2,
         NEW size \in Nat, size % 2 = 0, size >= 4, S[b] - size >= 4
  PROVE  IsCut(Cut(S, b, size), S, brk, b, size)
<1> DEFINE R == Cut(S, b, size)
           c == b + size
<1>1. /\ b \in Nat /\ S[b] \in Nat /\ brk \in Nat /\ b % 2 = 0 /\ S[b] % 2 = 0 /\ b >= 4
      /\ b + S[b] <= brk /\ b + S[b] \in DOMAIN S \cup {brk}
      /\ \A x \in DOMAIN S : (b < x => b + S[b] <= x) /\ (x < b => x + S[x] <= b)
  BY Tile
<1>2. c \in Nat /\ c > b /\ c < b + S[b] /\ S[b] - size \in Nat
      /\ c % 2 = 0 /\ (S[b] - size) % 2 = 0
  <2>1. S[b] \in Int /\ size \in Int /\ b \in Int
    BY <1>1
  <2>2. (S[b] - size) % 2 = 0 /\ (b + size) % 2 = 0
    BY <1>1, <2>1, Even
  <2> QED BY <1>1, <2>2
<1>3. c \notin DOMAIN S
  BY <1>1, <1>2
<1>4. /\ DOMAIN R = DOMAIN S \cup {c} /\ R[b] = size /\ R[c] = S[b] - size
      /\ \A x \in DOMAIN S : x # b => R[x] = S[x]
  BY <1>2, <1>3 DEF Cut
<1>5. R = [x \in DOMAIN R |-> R[x]]
  BY DEF Cut
<1> HIDE DEF R, c
<1>6. ASSUME NEW x \in DOMAIN R
      PROVE  /\ x \in Nat /\ R[x] \in Nat /\ x % 2 = 0 /\ R[x] % 2 = 0
             /\ x = heap_listp \/ (x >= 4 /\ R[x] >= MINBLOCK)
             /\ x + R[x] <= brk /\ x + R[x] \in DOMAIN R \cup {brk}
  <2>1. CASE x = b
    BY <1>1, <1>2, <1>4, <2>1 DEF c, MINBLOCK, DSIZE
  <2>2. CASE x = c
    <3>1. x + R[x] = b + S[b]
      BY <1>1, <1>4, <2>2 DEF c
    <3> QED BY <1>1, <1>2, <1>4, <2>2, <3>1 DEF MINBLOCK, DSIZE
  <2>3. CASE x \in DOMAIN S /\ x # b
    <3>1. R[x] = S[x]
      BY <1>4, <2>3
    <3> QED BY <1>4, <2>3, <3>1, Tile DEF heap_listp, MINBLOCK, DSIZE
  <2> QED BY <1>4, <2>1, <2>2, <2>3
<1>7. heap_listp \in DOMAIN R /\ R[heap_listp] = DSIZE
  BY <1>1, <1>4 DEF Tiling, heap_listp, DSIZE
<1>8. ASSUME NEW x \in DOMAIN R, NEW y \in DOMAIN R, x < y PROVE x + R[x] <= y
  <2>1. CASE x = c
    <3>1. y \in DOMAIN S /\ y \in Nat /\ b < y
      BY <1>1, <1>2, <1>4, <1>6, <1>8, <2>1
    <3>2. b + S[b] <= y /\ x + R[x] = b + S[b]
      BY <1>1, <1>4, <2>1, <3>1 DEF c
    <3> QED BY <3>2
  <2>2. CASE x = b
    <3>1. b + size <= y
      <4>1. CASE y = c
        BY <1>1, <4>1 DEF c
      <4>2. CASE y # c
        <5>1. y \in DOMAIN S /\ y \in Nat /\ b < y
          BY <1>4, <1>6, <1>8, <2>2, <4>2
        <5> QED BY <1>1, <1>2, <5>1 DEF c
      <4> QED BY <4>1, <4>2
    <3> QED BY <1>4, <2>2, <3>1
  <2>3. CASE x # b /\ x # c /\ y = c
    <3>1. x \in DOMAIN S /\ R[x] = S[x] /\ x \in Nat /\ S[x] \in Nat
      BY <1>4, <2>3, Tile
    <3>2. x < b
      BY <1>1, <1>2, <1>8, <2>3, <3>1
    <3> QED BY <1>1, <1>2, <2>3, <3>1, <3>2
  <2>4. CASE x # b /\ x # c /\ y # c
    BY <1>4, <1>8, <2>4, Tile
  <2> QED BY <2>1, <2>2, <2>3, <2>4
<1>9. ASSUME NEW x \in DOMAIN R \cup {brk}, x # heap_listp PROVE \E a \in DOMAIN R : a + R[a] = x
  <2>1. CASE x = c
    BY <1>4, <2>1 DEF c
  <2>2. CASE x # c
    <3>1. PICK a \in DOMAIN S : a + S[a] = x
      BY <1>4, <1>9, <2>2 DEF Tiling
    <3>2. CASE a = b
      <4>1. c + R[c] = x
        BY <1>1, <1>4, <3>1, <3>2 DEF c
      <4> QED BY <1>4, <4>1
    <3>3. CASE a # b
      BY <1>4, <3>1, <3>3
    <3> QED BY <3>2, <3>3
  <2> QED BY <2>1, <2>2
<1>10. R \in [DOMAIN R -> Nat] /\ DOMAIN R \subseteq Nat
  BY <1>5, <1>6
<1>11. Tiling(R, brk)
  BY <1>1, <1>6, <1>7, <1>8, <1>9, <1>10 DEF Tiling
<1> QED BY <1>3, <1>4, <1>11 DEF R, c, IsCut

LEMMA JoinTiling ==
  ASSUME NEW S, NEW brk, Tiling(S, brk), NEW b \in DOMAIN S, b # 2, b + S[b] \in DOMAIN S
  PROVE  IsJoin(Joined(S, b), S, brk, b)
<1> DEFINE R == Joined(S, b)
           c == b + S[b]
<1>1. /\ b \in Nat /\ S[b] \in Nat /\ brk \in Nat /\ b % 2 = 0 /\ S[b] % 2 = 0 /\ b >= 4 /\ S[b] >= 4
      /\ \A x \in DOMAIN S : (b < x => b + S[b] <= x) /\ (x < b => x + S[x] <= b)
  BY Tile
<1>2. /\ c \in Nat /\ S[c] \in Nat /\ c > b /\ S[c] % 2 = 0 /\ c >= 4 /\ S[c] >= 4
      /\ c + S[c] <= brk /\ c + S[c] \in DOMAIN S \cup {brk}
      /\ \A x \in DOMAIN S : (c < x => c + S[c] <= x) /\ (x < c => x + S[x] <= c)
  BY <1>1, Tile
<1>3. /\ DOMAIN R = DOMAIN S \ {c} /\ R[b] = S[b] + S[c]
      /\ \A x \in DOMAIN S : x # b /\ x # c => R[x] = S[x]
  BY <1>2 DEF Joined
<1>4. R = [x \in DOMAIN R |-> R[x]]
  BY DEF Joined
<1> HIDE DEF R
<1>5. b + R[b] = c + S[c] /\ (S[b] + S[c]) % 2 = 0 /\ S[b] + S[c] \in Nat
  BY <1>1, <1>2, <1>3, Even
<1> HIDE DEF c
<1>6. ASSUME NEW x \in DOMAIN R
      PROVE  /\ x \in Nat /\ R[x] \in Nat /\ x % 2 = 0 /\ R[x] % 2 = 0
             /\ x = heap_listp \/ (x >= 4 /\ R[x] >= MINBLOCK)
             /\ x + R[x] <= brk /\ x + R[x] \in DOMAIN R \cup {brk}
  <2>1. CASE x = b
    BY <1>1, <1>2, <1>3, <1>5, <2>1 DEF MINBLOCK, DSIZE
  <2>2. CASE x # b
    <3>1. R[x] = S[x] /\ x \in DOMAIN S /\ x \in Nat /\ S[x] \in Nat
      BY <1>3, <2>2, Tile
    <3>2. x + S[x] # c
      BY <1>1, <1>2, <2>2, <3>1 DEF c
    <3> QED BY <1>3, <3>1, <3>2, Tile DEF heap_listp, MINBLOCK, DSIZE
  <2> QED BY <2>1, <2>2
<1>7. heap_listp \in DOMAIN R /\ R[heap_listp] = DSIZE
  BY <1>1, <1>2, <1>3 DEF Tiling, heap_listp, DSIZE
<1>8. ASSUME NEW x \in DOMAIN R, NEW y \in DOMAIN R, x < y PROVE x + R[x] <= y
  <2>1. CASE x = b
    <3>1. y # c /\ y \in DOMAIN S /\ y \in Nat
      BY <1>3, Tile
    <3>2. c < y
      BY <1>1, <1>2, <1>8, <2>1, <3>1 DEF c
    <3> QED BY <1>2, <1>5, <2>1, <3>1, <3>2
  <2>2. CASE x # b
    BY <1>3, <1>8, <2>2, Tile
  <2> QED BY <2>1, <2>2
<1>9. ASSUME NEW x \in DOMAIN R \cup {brk}, x # heap_listp PROVE \E a \in DOMAIN R : a + R[a] = x
  <2>1. PICK a \in DOMAIN S : a + S[a] = x
    BY <1>3, <1>9 DEF Tiling
  <2>2. CASE a = c
    BY <1>2, <1>3, <1>5, <2>1, <2>2
  <2>3. CASE a # c
    <3>1. a # b
      <4>1. x # c
        BY <1>2, <1>3
      <4> QED BY <2>1, <4>1 DEF c
    <3> QED BY <1>3, <2>1, <2>3, <3>1
  <2> QED BY <2>2, <2>3
<1>10. R \in [DOMAIN R -> Nat] /\ DOMAIN R \subseteq Nat
  BY <1>4, <1>6
<1>11. Tiling(R, brk)
  BY <1>1, <1>6, <1>7, <1>8, <1>9, <1>10 DEF Tiling
<1> QED BY <1>1, <1>2, <1>3, <1>11 DEF R, c, IsJoin

LEMMA ExtendTiling ==
  ASSUME NEW S, NEW brk, Tiling(S, brk), NEW size \in Nat, size % 2 = 0, size >= 4
  PROVE  IsExtension(Extended(S, brk, size), S, brk, size)
<1> DEFINE R == Extended(S, brk, size)
<1>1. brk \in Nat /\ heap_listp \in DOMAIN S /\ S[heap_listp] = DSIZE
  BY DEF Tiling
<1>2. brk >= 4
  BY <1>1, Tile DEF heap_listp, DSIZE
<1>3. brk \notin DOMAIN S
  BY <1>1, <1>2, Tile
<1>4. brk % 2 = 0
  <2>1. PICK a \in DOMAIN S : a + S[a] = brk
    <3>1. brk # heap_listp
      BY <1>2 DEF heap_listp, DSIZE
    <3> QED BY <3>1 DEF Tiling
  <2> QED BY <2>1, Tile, Even
<1>5. DOMAIN R = DOMAIN S \cup {brk} /\ R[brk] = size /\ \A x \in DOMAIN S : R[x] = S[x]
  BY <1>3 DEF Extended
<1>6. R = [x \in DOMAIN R |-> R[x]]
  BY DEF Extended
<1> HIDE DEF R
<1>7. ASSUME NEW x \in DOMAIN R
      PROVE  /\ x \in Nat /\ R[x] \in Nat /\ x % 2 = 0 /\ R[x] % 2 = 0
             /\ x = heap_listp \/ (x >= 4 /\ R[x] >= MINBLOCK)
             /\ x + R[x] <= brk + size /\ x + R[x] \in DOMAIN R \cup {brk + size}
  <2>1. CASE x = brk
    BY <1>1, <1>2, <1>4, <1>5, <2>1 DEF MINBLOCK, DSIZE
  <2>2. CASE x \in DOMAIN S
    <3>1. R[x] = S[x] /\ x + S[x] <= brk /\ x \in Nat /\ S[x] \in Nat
      BY <1>5, <2>2, Tile
    <3>2. x + R[x] <= brk + size
      BY <1>1, <3>1
    <3> QED BY <1>5, <2>2, <3>1, <3>2, Tile DEF heap_listp, MINBLOCK, DSIZE
  <2> QED BY <1>5, <2>1, <2>2
<1>8. ASSUME NEW x \in DOMAIN R, NEW y \in DOMAIN R, x < y PROVE x + R[x] <= y
  <2>1. x # brk
    <3>1. ASSUME x = brk PROVE FALSE
      BY <1>1, <1>5, <1>8, <3>1, Tile
    <3> QED BY <3>1
  <2>2. x \in DOMAIN S /\ R[x] = S[x]
    BY <1>5, <2>1
  <2> QED BY <1>5, <1>8, <2>2, Tile
<1>9. ASSUME NEW x \in DOMAIN R \cup {brk + size}, x # heap_listp PROVE \E a \in DOMAIN R : a + R[a] = x
  <2>1. CASE x = brk + size
    BY <1>5, <2>1
  <2>2. CASE x # brk + size
    <3>1. PICK a \in DOMAIN S : a + S[a] = x
      BY <1>5, <1>9, <2>2 DEF Tiling
    <3> QED BY <1>5, <3>1
  <2> QED BY <2>1, <2>2
<1>10. R \in [DOMAIN R -> Nat] /\ DOMAIN R \subseteq Nat
  BY <1>6, <1>7
<1>11. heap_listp \in DOMAIN R /\ R[heap_listp] = DSIZE
  BY <1>1, <1>5
<1>12. Tiling(R, brk + size)
  <2>1. brk + size \in Nat
    BY <1>1
  <2> DEFINE top == brk + size
  <2> HIDE DEF top
  <2>2. Tiling(R, top)
    BY <1>7, <1>8, <1>9, <1>10, <1>11, <2>1 DEF Tiling, top
  <2> QED BY <2>2 DEF top
<1> QED BY <1>1, <1>2, <1>3, <1>4, <1>5, <1>12 DEF R, IsExtension

-----------------------------------------------------------------------------
(* Tags and links keep clear of each other.                                *)

\* The words of block x, its tags included, are the same.
Kept(h, g, S, x) == \A a \in (x - 1) .. (x + S[x] - 2) : g.mem[a] = h.mem[a]

LEMMA Inside ==
  ASSUME NEW b \in Nat, NEW size \in Nat, NEW brk \in Nat, NEW max \in Nat,
         b >= 2, size >= 2, b + size <= brk, brk <= max
  PROVE  /\ b - 1 \in 0 .. (max - 1) /\ b + size - 2 \in 0 .. (max - 1) /\ brk - 1 \in 0 .. (max - 1)
         /\ (b - 1) .. (b + size - 2) \subseteq 0 .. (max - 1)
OBVIOUS

LEMMA WordsOf ==
  ASSUME NEW h \in HeapRecord, NEW S, Tiling(S, h.brk), NEW b \in DOMAIN S
  PROVE  /\ b \in Nat /\ S[b] \in Nat /\ h.brk \in Nat
         /\ b - 1 \in Addr /\ b + S[b] - 2 \in Addr /\ h.brk - 1 \in Addr
         /\ (b - 1) .. (b + S[b] - 2) \subseteq Addr
         /\ b - 1 < h.brk - 1 /\ b + S[b] - 2 < h.brk - 1
         /\ b # 2 => b \in LinkPlace
<1>1. h.brk \in 0 .. MAX_HEAP /\ MAX_HEAP \in Nat
  BY HeapAssumption DEF HeapRecord
<1>2. b \in Nat /\ S[b] \in Nat /\ b % 2 = 0 /\ b + S[b] <= h.brk
      /\ ((b = 2 /\ S[b] = 2) \/ (b >= 4 /\ S[b] >= 4))
  BY Tile
<1>3. b >= 2 /\ S[b] >= 2 /\ h.brk \in Nat /\ h.brk <= MAX_HEAP
  BY <1>1, <1>2
<1>4. b - 1 \in Addr /\ b + S[b] - 2 \in Addr /\ h.brk - 1 \in Addr
  BY <1>1, <1>2, <1>3, Inside DEF Addr
<1>5. (b - 1) .. (b + S[b] - 2) \subseteq Addr
  BY <1>1, <1>2, <1>3, Inside DEF Addr
<1>6. b # 2 => b \in LinkPlace
  BY <1>1, <1>2, <1>3 DEF LinkPlace
<1>7. b - 1 < h.brk - 1 /\ b + S[b] - 2 < h.brk - 1
  BY <1>2, <1>3
<1> QED BY <1>2, <1>3, <1>4, <1>5, <1>6, <1>7

\* A word of one block is no word of another one.
LEMMA Apart ==
  ASSUME NEW S, NEW brk, Tiling(S, brk), NEW x \in DOMAIN S, NEW y \in DOMAIN S, x # y,
         NEW a \in (x - 1) .. (x + S[x] - 2)
  PROVE  a < y - 1 \/ a > y + S[y] - 2
<1>1. x \in Nat /\ y \in Nat /\ S[x] \in Nat /\ S[y] \in Nat
      /\ (x < y => x + S[x] <= y) /\ (y < x => y + S[y] <= x)
  BY Tile
<1> QED BY <1>1

\* The first word of a block and the next are no tags.
LEMMA LinksAreNoTags ==
  ASSUME NEW S, NEW brk, Tiling(S, brk), NEW x \in DOMAIN S, NEW y \in DOMAIN S, y # 2
  PROVE  /\ y # x - 1 /\ y + 1 # x - 1 /\ y # x + S[x] - 2 /\ y + 1 # x + S[x] - 2
         /\ y \in (y - 1) .. (y + S[y] - 2) /\ y + 1 \in (y - 1) .. (y + S[y] - 2)
<1>1. x \in Nat /\ y \in Nat /\ S[x] \in Nat /\ S[y] \in Nat /\ S[y] >= 4 /\ y >= 4
      /\ (x < y => x + S[x] <= y) /\ (y < x => y + S[y] <= x) /\ x % 2 = 0 /\ y % 2 = 0 /\ S[x] >= 2
  BY Tile
<1>2. y \in (y - 1) .. (y + S[y] - 2) /\ y + 1 \in (y - 1) .. (y + S[y] - 2)
  BY <1>1
<1>3. CASE x = y
  BY <1>1, <1>2, <1>3
<1>4. CASE x # y
  BY <1>1, <1>2, <1>4
<1> QED BY <1>2, <1>3, <1>4

\* Heap g is h after the tags of block b were written.
Retagged(h, g, S, F, X, b) ==
  /\ g \in HeapRecord /\ g.brk = h.brk /\ g.hd_free = h.hd_free /\ g.ft_free = h.ft_free
  /\ TagsBut(g, S, F, X \ {b})
  /\ Epilogue(h) => Epilogue(g)
  /\ \A x \in DOMAIN S : x # b => Kept(h, g, S, x)
  /\ \A a \in b .. (b + S[b] - 3) : g.mem[a] = h.mem[a]

LEMMA TagAt ==
  ASSUME NEW h \in HeapRecord, NEW S, Tiling(S, h.brk), NEW b \in DOMAIN S, NEW alloc \in {0, 1},
         NEW F, NEW X, TagsBut(h, S, F, X), b \in F <=> alloc = 0
  PROVE  Retagged(h, Tag(h, b, S[b], alloc), S, F, X, b)
<1> DEFINE g == Tag(h, b, S[b], alloc)
<1>1. /\ b \in Nat /\ S[b] \in Nat /\ h.brk \in Nat
      /\ b - 1 \in Addr /\ b + S[b] - 2 \in Addr /\ h.brk - 1 \in Addr
      /\ (b - 1) .. (b + S[b] - 2) \subseteq Addr
      /\ b - 1 < h.brk - 1 /\ b + S[b] - 2 < h.brk - 1
  BY WordsOf
<1>2. /\ g \in HeapRecord /\ g.brk = h.brk /\ g.hd_free = h.hd_free /\ g.ft_free = h.ft_free
      /\ \A a \in Addr : g.mem[a] = IF a = b - 1 \/ a = b + S[b] - 2 THEN S[b] + alloc ELSE h.mem[a]
  BY <1>1, TagWords
<1> HIDE DEF g
<1>3. Epilogue(h) => Epilogue(g)
  BY <1>1, <1>2 DEF Epilogue
<1>4. ASSUME NEW x \in DOMAIN S, x # b PROVE Kept(h, g, S, x)
  <2>1. ASSUME NEW a \in (x - 1) .. (x + S[x] - 2) PROVE g.mem[a] = h.mem[a]
    <3>1. a \in Addr
      BY WordsOf
    <3>2. a < b - 1 \/ a > b + S[b] - 2
      BY <1>4, Apart
    <3>3. b - 1 <= b + S[b] - 2
      <4>1. S[b] >= 2
        <5>1. (b = 2 /\ S[b] = 2) \/ (b >= 4 /\ S[b] >= 4)
          BY Tile
        <5> QED BY <1>1, <5>1
      <4> QED BY <1>1, <4>1
    <3> QED BY <1>1, <1>2, <3>1, <3>2, <3>3 DEF Addr
  <2> QED BY <2>1 DEF Kept
<1>5. TagsBut(g, S, F, X \ {b})
  <2>1. ASSUME NEW x \in DOMAIN S \ (X \ {b})
        PROVE  LET tag == IF x \in F THEN S[x] ELSE S[x] + 1
               IN  g.mem[x - 1] = tag /\ g.mem[x + S[x] - 2] = tag
    <3>1. CASE x = b
      BY <1>1, <1>2, <3>1
    <3>2. CASE x # b
      <4>1. x - 1 \in (x - 1) .. (x + S[x] - 2) /\ x + S[x] - 2 \in (x - 1) .. (x + S[x] - 2)
        <5>1. x \in Nat /\ S[x] \in Nat /\ S[x] >= 2
          BY Tile
        <5> QED BY <5>1
      <4>2. g.mem[x - 1] = h.mem[x - 1] /\ g.mem[x + S[x] - 2] = h.mem[x + S[x] - 2]
        BY <1>4, <3>2, <4>1 DEF Kept
      <4>3. x \in DOMAIN S \ X
        BY <3>2
      <4> QED BY <4>2, <4>3 DEF TagsBut
    <3> QED BY <3>1, <3>2
  <2> QED BY <2>1 DEF TagsBut
<1>6. \A a \in b .. (b + S[b] - 3) : g.mem[a] = h.mem[a]
  BY <1>1, <1>2 DEF Addr
<1> QED BY <1>2, <1>3, <1>4, <1>5, <1>6 DEF g, Retagged

\* Writing tags leaves the list alone.
LEMMA TagKeepsLinks ==
  ASSUME NEW h \in HeapRecord, NEW S, Tiling(S, h.brk), NEW n, NEW L, List(n, L), Links(h, n, L),
         Listed(n, L) \subseteq DOMAIN S,
         NEW x \in DOMAIN S, NEW y \in DOMAIN S, NEW g,
         g.hd_free = h.hd_free, g.ft_free = h.ft_free,
         \A a \in Addr : a # x - 1 /\ a # y + S[y] - 2 => g.mem[a] = h.mem[a]
  PROVE  Links(g, n, L)
<1>1. n \in Nat
  BY DEF List
<1>2. ASSUME NEW k \in 1 .. n PROVE g.mem[L[k]] = h.mem[L[k]] /\ g.mem[L[k] + 1] = h.mem[L[k] + 1]
  <2>1. L[k] \in DOMAIN S /\ L[k] \in LinkPlace
    BY DEF List, Listed
  <2>2. L[k] \in Addr /\ L[k] + 1 \in Addr /\ L[k] # 2
    BY <2>1, LinkPlaces DEF LinkPlace
  <2>3. L[k] # x - 1 /\ L[k] + 1 # x - 1 /\ L[k] # y + S[y] - 2 /\ L[k] + 1 # y + S[y] - 2
    BY <2>1, <2>2, LinksAreNoTags
  <2> QED BY <2>2, <2>3
<1> QED BY <1>1, <1>2 DEF Links

\* Writing links leaves the tags alone, and the blocks they are not in.
LEMMA LinkKeepsTags ==
  ASSUME NEW h \in HeapRecord, NEW g \in HeapRecord, g.brk = h.brk, NEW S, Tiling(S, h.brk),
         NEW Y, Y \subseteq DOMAIN S, 2 \notin Y, OnlyLinks(h, g, Y)
  PROVE  /\ \A F, X : TagsBut(h, S, F, X) => TagsBut(g, S, F, X)
         /\ Epilogue(h) => Epilogue(g)
         /\ \A x \in DOMAIN S \ Y : Kept(h, g, S, x)
<1>1. ASSUME NEW x \in DOMAIN S
      PROVE  /\ g.mem[x - 1] = h.mem[x - 1] /\ g.mem[x + S[x] - 2] = h.mem[x + S[x] - 2]
  <2>1. x - 1 \in Addr /\ x + S[x] - 2 \in Addr
    BY WordsOf
  <2>2. \A y \in Y : x - 1 # y /\ x - 1 # y + 1 /\ x + S[x] - 2 # y /\ x + S[x] - 2 # y + 1
    BY LinksAreNoTags
  <2> QED BY <2>1, <2>2 DEF OnlyLinks
<1>2. Epilogue(h) => Epilogue(g)
  <2>1. h.brk - 1 \in Addr
    BY WordsOf DEF Tiling
  <2>2. ASSUME NEW y \in Y PROVE h.brk - 1 # y /\ h.brk - 1 # y + 1
    <3>1. y \in DOMAIN S /\ y # 2
      OBVIOUS
    <3>2. y \in Nat /\ S[y] \in Nat /\ S[y] >= 4 /\ y + S[y] <= h.brk /\ h.brk \in Nat
      BY <3>1, Tile
    <3> QED BY <3>2
  <2> QED BY <2>1, <2>2 DEF OnlyLinks, Epilogue
<1>3. ASSUME NEW x \in DOMAIN S \ Y PROVE Kept(h, g, S, x)
  <2>1. ASSUME NEW a \in (x - 1) .. (x + S[x] - 2) PROVE g.mem[a] = h.mem[a]
    <3>1. a \in Addr
      BY WordsOf
    <3>2. ASSUME NEW y \in Y PROVE a # y /\ a # y + 1
      <4>1. y \in DOMAIN S /\ y # 2 /\ y # x
        BY <1>3
      <4>2. a < y - 1 \/ a > y + S[y] - 2
        BY <4>1, Apart
      <4>3. y \in Nat /\ S[y] \in Nat /\ S[y] >= 4
        BY <4>1, Tile
      <4>4. a \in Int
        BY <3>1 DEF Addr
      <4> QED BY <4>2, <4>3, <4>4
    <3> QED BY <3>1, <3>2 DEF OnlyLinks
  <2> QED BY <2>1 DEF Kept
<1> QED BY <1>1, <1>2, <1>3 DEF TagsBut

\* Other blocks keep their tags when some are cut or joined.
LEMMA TagsCarryOver ==
  ASSUME NEW h, NEW S, NEW F, TagsBut(h, S, F, {}), NEW R, NEW G, NEW X,
         \A x \in DOMAIN R \ X : x \in DOMAIN S /\ R[x] = S[x] /\ (x \in G <=> x \in F)
  PROVE  TagsBut(h, R, G, X)
BY DEF TagsBut

LEMMA TagKeepsList ==
  ASSUME NEW h \in HeapRecord, NEW S, Tiling(S, h.brk), NEW b \in DOMAIN S, NEW alloc \in {0, 1},
         NEW n, NEW L, List(n, L), Links(h, n, L), Listed(n, L) \subseteq DOMAIN S
  PROVE  Links(Tag(h, b, S[b], alloc), n, L)
<1> DEFINE g == Tag(h, b, S[b], alloc)
<1>1. b \in Nat /\ S[b] \in Nat /\ b - 1 \in Addr /\ b + S[b] - 2 \in Addr
  BY WordsOf
<1>2. /\ g.hd_free = h.hd_free /\ g.ft_free = h.ft_free
      /\ \A a \in Addr : a # b - 1 /\ a # b + S[b] - 2 => g.mem[a] = h.mem[a]
  BY <1>1, TagWords
<1> HIDE DEF g
<1>3. Links(g, n, L)
  BY <1>2, TagKeepsLinks
<1> QED BY <1>3 DEF g

-----------------------------------------------------------------------------
(***************************************************************************)
(* The description of a heap.  No two free blocks are neighbours.          *)
(***************************************************************************)
Apartness(S, F) == \A b \in F : b + S[b] \notin F

Described(h, S, n, L) ==
  /\ h \in HeapRecord /\ Tiling(S, h.brk)
  /\ List(n, L) /\ Listed(n, L) \subseteq DOMAIN S /\ Apartness(S, Listed(n, L))
  /\ TagsBut(h, S, Listed(n, L), {}) /\ Epilogue(h) /\ Links(h, n, L)

\* The blocks that are not free
Used(S, n, L) == DOMAIN S \ Listed(n, L)

\* From heap h to heap g: the blocks in gone are no longer in use, or not in the same
\* way, those in new are now.  The others have not changed in any of their words.
Leads(h, S, n, L, g, R, m, M, gone, new) ==
  /\ Described(g, R, m, M)
  /\ Used(R, m, M) = (Used(S, n, L) \ gone) \cup new
  /\ \A x \in Used(S, n, L) \ gone : R[x] = S[x] /\ Kept(h, g, S, x)

\* The block that was handed out is bp, with room for size words.
HandsOut(h, S, n, L, r, R, m, M, bp, size) ==
  /\ Leads(h, S, n, L, r.heap, R, m, M, {}, {bp})
  /\ r.bp = bp /\ bp \notin Used(S, n, L) /\ R[bp] >= size

LEMMA Reads ==
  ASSUME NEW h, NEW S, Tiling(S, h.brk), NEW F, TagsBut(h, S, F, {}), NEW b \in DOMAIN S
  PROVE  /\ SizeOf(h, b) = S[b] /\ (IsAlloc(h, b) <=> b \notin F)
         /\ NEXT_BLKP(h, b) = b + S[b] /\ FTRP(h, b) = b + S[b] - 2
         /\ PREV_BLKP(h, b + S[b]) = b
         /\ GET_ALLOC(h.mem[FTRP(h, b)]) = 1 <=> b \notin F
<1>1. b \in Nat /\ S[b] \in Nat /\ S[b] % 2 = 0
  BY Tile
<1> DEFINE tag == IF b \in F THEN S[b] ELSE S[b] + 1
<1>2. h.mem[b - 1] = tag /\ h.mem[b + S[b] - 2] = tag
  BY DEF TagsBut
<1>3. GET_SIZE(tag) = S[b] /\ GET_ALLOC(tag) = IF b \in F THEN 0 ELSE 1
  BY <1>1, Words
<1> HIDE DEF tag
<1>4. SizeOf(h, b) = S[b] /\ (IsAlloc(h, b) <=> b \notin F)
  BY <1>2, <1>3 DEF SizeOf, IsAlloc, HDRP
<1>5. NEXT_BLKP(h, b) = b + S[b] /\ FTRP(h, b) = b + S[b] - 2
  BY <1>4 DEF NEXT_BLKP, FTRP, DSIZE
<1>6. PREV_BLKP(h, b + S[b]) = b
  BY <1>1, <1>2, <1>3 DEF PREV_BLKP, DSIZE
<1> QED BY <1>2, <1>3, <1>4, <1>5, <1>6

LEMMA EndOfHeap ==
  ASSUME NEW h, Epilogue(h)
  PROVE  IsAlloc(h, h.brk)
BY DEF Epilogue, IsAlloc, HDRP, GET_ALLOC

LEMMA DescribedBlocks ==
  ASSUME NEW h, NEW S, NEW n, NEW L, Described(h, S, n, L)
  PROVE  /\ 2 \notin Listed(n, L) /\ 2 \in Used(S, n, L)
         /\ \A b \in DOMAIN S : b # 2 => b \in LinkPlace
         /\ \A b \in Listed(n, L) : b \in DOMAIN S /\ b # 2 /\ \E j \in 1 .. n : b = L[j]
         /\ \A b \in DOMAIN S :
              /\ SizeOf(h, b) = S[b] /\ (IsAlloc(h, b) <=> b \notin Listed(n, L))
              /\ NEXT_BLKP(h, b) = b + S[b] /\ FTRP(h, b) = b + S[b] - 2
              /\ PREV_BLKP(h, b + S[b]) = b
              /\ GET_ALLOC(h.mem[FTRP(h, b)]) = 1 <=> b \notin Listed(n, L)
<1>1. \A b \in Listed(n, L) : b \in LinkPlace /\ \E j \in 1 .. n : b = L[j]
  BY DEF Described, Listed, List
<1>2. 2 \notin Listed(n, L)
  BY <1>1 DEF LinkPlace
<1>3. 2 \in DOMAIN S
  BY DEF Described, Tiling, heap_listp, DSIZE
<1>4. \A b \in DOMAIN S : b # 2 => b \in LinkPlace
  BY WordsOf DEF Described
<1> QED BY <1>1, <1>2, <1>3, <1>4, Reads DEF Described, Used

-----------------------------------------------------------------------------
(* place                                                                   *)

LEMMA PlaceCuts ==
  ASSUME NEW h, NEW S, NEW n, NEW L, Described(h, S, n, L), NEW b \in Listed(n, L),
         NEW size \in Nat, size % 2 = 0, size >= 4, S[b] - size >= 4
  PROVE  LET rest == S[b] - size
             r == place(h, b, size)
             R == Cut(S, b, rest)
         IN  /\ Leads(h, S, n, L, r.heap, R, n, L, {}, {b + rest})
             /\ r.bp = b + rest /\ R[b + rest] = size /\ b + rest \notin DOMAIN S
<1> DEFINE rest == S[b] - size
           r == place(h, b, size)
           R == Cut(S, b, rest)
           F == Listed(n, L)
           c == b + rest
           e == Tag(h, b, rest, 0)
           g == Tag(e, c, size, 1)
<1>1. b \in DOMAIN S /\ b # 2 /\ SizeOf(h, b) = S[b]
  BY DescribedBlocks
<1>2. h \in HeapRecord /\ Tiling(S, h.brk) /\ TagsBut(h, S, F, {}) /\ List(n, L) /\ Links(h, n, L)
      /\ F \subseteq DOMAIN S /\ Epilogue(h) /\ Apartness(S, F)
  BY DEF Described
<1>3. b \in Nat /\ S[b] \in Nat /\ S[b] % 2 = 0
  BY <1>1, <1>2, Tile
<1>4. rest \in Nat /\ rest % 2 = 0 /\ rest >= 4 /\ S[b] - rest = size
  BY <1>3, Even
<1>5. r = [heap |-> g, bp |-> c]
  BY <1>1, <1>4 DEF place, MINBLOCK, DSIZE
<1> HIDE DEF rest
<1>6. /\ Tiling(R, h.brk) /\ c \notin DOMAIN S /\ DOMAIN R = DOMAIN S \cup {c}
      /\ R[b] = rest /\ R[c] = size /\ \A x \in DOMAIN S : x # b => R[x] = S[x]
  <2>1. S[b] - rest >= 4
    BY <1>4
  <2>2. IsCut(R, S, h.brk, b, rest)
    BY <1>1, <1>2, <1>4, <2>1, CutTiling
  <2> QED BY <1>4, <2>2 DEF IsCut
<1> HIDE DEF r, R, F, c
<1>7. c \notin F /\ c # b /\ b \in F
  BY <1>1, <1>2, <1>6 DEF F
<1>8. TagsBut(h, R, F, {b, c})
  BY <1>2, <1>6, TagsCarryOver
<1>9. /\ e \in HeapRecord /\ e.brk = h.brk /\ TagsBut(e, R, F, {b, c} \ {b}) /\ Epilogue(e)
      /\ \A x \in DOMAIN R : x # b => Kept(h, e, R, x)
  <2>1. Retagged(h, e, R, F, {b, c}, b)
    BY <1>1, <1>2, <1>6, <1>7, <1>8, TagAt
  <2> QED BY <1>2, <2>1 DEF Retagged
<1>10. Links(e, n, L)
  BY <1>1, <1>2, <1>6, TagKeepsList DEF F
<1> HIDE DEF e
<1>11. /\ g \in HeapRecord /\ g.brk = e.brk /\ TagsBut(g, R, F, ({b, c} \ {b}) \ {c}) /\ Epilogue(g)
       /\ \A x \in DOMAIN R : x # c => Kept(e, g, R, x)
  <2>1. Retagged(e, g, R, F, {b, c} \ {b}, c)
    BY <1>6, <1>7, <1>9, TagAt
  <2> QED BY <1>9, <2>1 DEF Retagged
<1>12. Links(g, n, L)
  BY <1>2, <1>6, <1>9, <1>10, TagKeepsList DEF F
<1> HIDE DEF g
<1>13. Apartness(R, F)
  <2>1. b + R[b] = c
    BY <1>6 DEF c
  <2> QED BY <1>2, <1>6, <1>7, <2>1 DEF Apartness
<1>14. ({b, c} \ {b}) \ {c} = {}
  OBVIOUS
<1>15. Described(g, R, n, L)
  BY <1>2, <1>6, <1>9, <1>11, <1>12, <1>13, <1>14 DEF Described, F
<1>16. Used(R, n, L) = (Used(S, n, L) \ {}) \cup {c}
  BY <1>6, <1>7 DEF Used, F
<1>17. ASSUME NEW x \in Used(S, n, L) PROVE R[x] = S[x] /\ Kept(h, g, S, x)
  <2>1. x \in DOMAIN S /\ x # b /\ x # c /\ R[x] = S[x]
    BY <1>6, <1>7 DEF Used, F
  <2> QED BY <1>6, <1>9, <1>11, <2>1 DEF Kept
<1>18. Leads(h, S, n, L, g, R, n, L, {}, {c})
  BY <1>15, <1>16, <1>17 DEF Leads
<1> QED BY <1>5, <1>6, <1>18 DEF r, R, c, rest

LEMMA PlaceTakes ==
  ASSUME NEW h, NEW S, NEW n, NEW L, Described(h, S, n, L), NEW j \in 1 .. n,
         NEW size \in Nat, size <= S[L[j]], S[L[j]] - size < 4
  PROVE  HandsOut(h, S, n, L, place(h, L[j], size), S, n - 1, Removed(n, L, j), L[j], size)
<1> DEFINE b == L[j]
           r == place(h, b, size)
           M == Removed(n, L, j)
           F == Listed(n, L)
           G == Listed(n - 1, M)
           e == Tag(h, b, S[b], 1)
           g == remove_free_block(e, b)
<1>1. b \in DOMAIN S /\ b \in F /\ b # 2 /\ SizeOf(h, b) = S[b]
  <2>1. b \in F
    BY DEF Listed
  <2> QED BY <2>1, DescribedBlocks
<1>2. h \in HeapRecord /\ Tiling(S, h.brk) /\ TagsBut(h, S, F, {}) /\ List(n, L) /\ Links(h, n, L)
      /\ F \subseteq DOMAIN S /\ Epilogue(h) /\ Apartness(S, F) /\ 2 \notin F
  BY DescribedBlocks DEF Described
<1>3. n - 1 \in Nat /\ List(n - 1, M) /\ G = F \ {b}
  BY <1>2, RemovedList
<1>4. r = [heap |-> g, bp |-> b]
  <2>1. S[b] \in Nat
    BY <1>1, <1>2, Tile
  <2>2. ~(S[b] - size >= 2 * 2)
    BY <2>1
  <2> HIDE DEF b
  <2> QED BY <1>1, <2>2 DEF place, MINBLOCK, DSIZE
<1>5. Links(e, n, L)
  BY <1>1, <1>2, TagKeepsList
<1> HIDE DEF r, M, F, G
<1>6. TagsBut(h, S, G, {b})
  BY <1>2, <1>3, TagsCarryOver
<1>7. /\ e \in HeapRecord /\ e.brk = h.brk /\ TagsBut(e, S, G, {b} \ {b}) /\ Epilogue(e)
      /\ \A x \in DOMAIN S : x # b => Kept(h, e, S, x)
  <2>1. Retagged(h, e, S, G, {b}, b)
    BY <1>1, <1>2, <1>3, <1>6, TagAt
  <2> QED BY <1>2, <2>1 DEF Retagged
<1> HIDE DEF e
<1>8. g \in HeapRecord /\ g.brk = e.brk /\ Links(g, n - 1, M) /\ OnlyLinks(e, g, G)
  <2>1. Relinked(e, g, n - 1, M)
    BY <1>2, <1>5, <1>7, RemoveLinks DEF M
  <2> QED BY <2>1 DEF Relinked, G
<1> HIDE DEF g
<1>9. /\ TagsBut(g, S, G, {b} \ {b}) /\ Epilogue(g)
      /\ \A x \in DOMAIN S \ G : Kept(e, g, S, x)
  <2>1. G \subseteq DOMAIN S /\ 2 \notin G
    BY <1>2, <1>3
  <2>2. Tiling(S, e.brk)
    BY <1>2, <1>7
  <2> QED BY <1>7, <1>8, <2>1, <2>2, LinkKeepsTags
<1>10. {b} \ {b} = {}
  OBVIOUS
<1>11. Described(g, S, n - 1, M)
  BY <1>2, <1>3, <1>7, <1>8, <1>9, <1>10 DEF Described, G, Apartness
<1>12. Used(S, n - 1, M) = (Used(S, n, L) \ {}) \cup {b}
  BY <1>1, <1>3 DEF Used, F, G
<1>13. ASSUME NEW x \in Used(S, n, L) PROVE Kept(h, g, S, x)
  <2>1. x \in DOMAIN S /\ x # b /\ x \notin G
    BY <1>1, <1>3 DEF Used, F
  <2> QED BY <1>7, <1>9, <2>1 DEF Kept
<1>14. Leads(h, S, n, L, g, S, n - 1, M, {}, {b})
  BY <1>11, <1>12, <1>13 DEF Leads
<1>15. b \notin Used(S, n, L) /\ S[b] >= size
  <2>1. S[b] \in Nat
    BY <1>1, <1>2, Tile
  <2> QED BY <1>1, <2>1 DEF Used, F
<1> QED BY <1>4, <1>14, <1>15 DEF HandsOut, r, M

-----------------------------------------------------------------------------
(* The free list takes in a block, gives one up, or has one for another.   *)

\* Block b is free by its tags but not in the list.
Loose(f, S, n, L, b) ==
  /\ f \in HeapRecord /\ Tiling(S, f.brk)
  /\ List(n, L) /\ Listed(n, L) \subseteq DOMAIN S /\ Apartness(S, Listed(n, L))
  /\ b \in Used(S, n, L) /\ b # 2
  /\ TagsBut(f, S, Listed(n, L) \cup {b}, {}) /\ Epilogue(f) /\ Links(f, n, L)

LEMMA NotListed ==
  ASSUME NEW n, NEW L, List(n, L)
  PROVE  2 \notin Listed(n, L)
BY DEF List, Listed, LinkPlace

\* Two blocks do not end at the same place.
LEMMA OneBefore ==
  ASSUME NEW S, NEW brk, Tiling(S, brk), NEW x \in DOMAIN S, NEW y \in DOMAIN S, x + S[x] = y + S[y]
  PROVE  x = y
<1>1. x \in Nat /\ S[x] \in Nat /\ S[x] >= 2 /\ (x < y => x + S[x] <= y)
  BY Tile
<1>2. y \in Nat /\ S[y] \in Nat /\ S[y] >= 2 /\ (y < x => y + S[y] <= x)
  BY Tile
<1> QED BY <1>1, <1>2

LEMMA InsertBlock ==
  ASSUME NEW f, NEW S, NEW n, NEW L, NEW b, Loose(f, S, n, L, b), b + S[b] \notin Listed(n, L),
         \A x \in Listed(n, L) : x + S[x] # b
  PROVE  LET g == insert_free_block(f, b)
             M == Inserted(n, L, b)
         IN  /\ Described(g, S, n + 1, M) /\ Listed(n + 1, M) = Listed(n, L) \cup {b}
             /\ \A x \in Used(S, n, L) \ {b} : Kept(f, g, S, x)
<1> DEFINE g == insert_free_block(f, b)
           M == Inserted(n, L, b)
           F == Listed(n, L)
           G == Listed(n + 1, M)
<1>1. /\ f \in HeapRecord /\ Tiling(S, f.brk) /\ List(n, L) /\ F \subseteq DOMAIN S /\ Apartness(S, F)
      /\ b \in DOMAIN S /\ b \notin F /\ b # 2 /\ TagsBut(f, S, F \cup {b}, {}) /\ Epilogue(f)
      /\ Links(f, n, L) /\ 2 \notin F
  BY NotListed DEF Loose, Used
<1>2. b \in LinkPlace
  BY <1>1, WordsOf
<1>3. /\ g \in HeapRecord /\ g.brk = f.brk /\ List(n + 1, M) /\ Links(g, n + 1, M)
      /\ G = F \cup {b} /\ OnlyLinks(f, g, G)
  BY <1>1, <1>2, InsertLinks
<1> HIDE DEF g, M, G, F
<1>4. /\ TagsBut(g, S, F \cup {b}, {}) /\ Epilogue(g)
      /\ \A x \in DOMAIN S \ G : Kept(f, g, S, x)
  <2>1. G \subseteq DOMAIN S /\ 2 \notin G
    BY <1>1, <1>3
  <2> QED BY <1>1, <1>3, <2>1, LinkKeepsTags
<1>5. Apartness(S, G)
  <2>1. b + S[b] # b
    <3>1. b \in Nat /\ S[b] \in Nat /\ S[b] >= 2
      BY <1>1, Tile
    <3> QED BY <3>1
  <2> QED BY <1>1, <1>3, <2>1 DEF Apartness, F
<1>6. Described(g, S, n + 1, M)
  BY <1>1, <1>3, <1>4, <1>5 DEF Described, G
<1>7. \A x \in Used(S, n, L) \ {b} : Kept(f, g, S, x)
  BY <1>3, <1>4 DEF Used, F
<1> QED BY <1>3, <1>6, <1>7 DEF g, M, F, G

LEMMA ReplaceBlock ==
  ASSUME NEW f \in HeapRecord, NEW R, Tiling(R, f.brk), NEW n, NEW L, List(n, L), Links(f, n, L),
         NEW j \in 1 .. n, NEW b \in DOMAIN R, b # 2, b \notin Listed(n, L),
         NEW G, G = (Listed(n, L) \ {L[j]}) \cup {b}, G \subseteq DOMAIN R,
         TagsBut(f, R, G, {}), Epilogue(f), Apartness(R, G)
  PROVE  LET g == replace_free_block(f, L[j], b)
             M == Replaced(L, j, b)
         IN  /\ Described(g, R, n, M) /\ Listed(n, M) = G
             /\ \A x \in DOMAIN R \ G : Kept(f, g, R, x)
<1> DEFINE g == replace_free_block(f, L[j], b)
           M == Replaced(L, j, b)
<1>1. b \in LinkPlace
  BY WordsOf
<1>2. List(n, M) /\ Listed(n, M) = G
  BY <1>1, ReplacedList
<1>3. g \in HeapRecord /\ g.brk = f.brk /\ Links(g, n, M) /\ OnlyLinks(f, g, G)
  <2>1. Relinked(f, g, n, M)
    BY <1>1, ReplaceLinks
  <2> QED BY <1>2, <2>1 DEF Relinked
<1> HIDE DEF g, M
<1>4. /\ TagsBut(g, R, G, {}) /\ Epilogue(g)
      /\ \A x \in DOMAIN R \ G : Kept(f, g, R, x)
  <2>1. 2 \notin G
    BY <1>2, NotListed
  <2> QED BY <1>3, <2>1, LinkKeepsTags
<1>5. Described(g, R, n, M)
  BY <1>2, <1>3, <1>4 DEF Described
<1> QED BY <1>2, <1>4, <1>5 DEF g, M

LEMMA RemoveBlock ==
  ASSUME NEW f \in HeapRecord, NEW R, Tiling(R, f.brk), NEW n, NEW L, List(n, L), Links(f, n, L),
         NEW j \in 1 .. n, NEW G, G = Listed(n, L) \ {L[j]}, G \subseteq DOMAIN R,
         TagsBut(f, R, G, {}), Epilogue(f), Apartness(R, G)
  PROVE  LET g == remove_free_block(f, L[j])
             M == Removed(n, L, j)
         IN  /\ Described(g, R, n - 1, M) /\ Listed(n - 1, M) = G
             /\ \A x \in DOMAIN R \ G : Kept(f, g, R, x)
<1> DEFINE g == remove_free_block(f, L[j])
           M == Removed(n, L, j)
<1>1. List(n - 1, M) /\ Listed(n - 1, M) = G
  BY RemovedList
<1>2. g \in HeapRecord /\ g.brk = f.brk /\ Links(g, n - 1, M) /\ OnlyLinks(f, g, G)
  <2>1. Relinked(f, g, n - 1, M)
    BY RemoveLinks
  <2> QED BY <1>1, <2>1 DEF Relinked
<1> HIDE DEF g, M
<1>3. /\ TagsBut(g, R, G, {}) /\ Epilogue(g)
      /\ \A x \in DOMAIN R \ G : Kept(f, g, R, x)
  <2>1. 2 \notin G
    BY <1>1, NotListed
  <2> QED BY <1>2, <2>1, LinkKeepsTags
<1>4. Described(g, R, n - 1, M)
  BY <1>1, <1>2, <1>3 DEF Described
<1> QED BY <1>1, <1>3, <1>4 DEF g, M

-----------------------------------------------------------------------------
(* mm_free and coalesce                                                    *)

\* The tags of a block that ends where block c does leave the list alone.
LEMMA WideTagKeepsList ==
  ASSUME NEW h \in HeapRecord, NEW S, Tiling(S, h.brk), NEW b \in DOMAIN S, NEW c \in DOMAIN S,
         NEW size \in Nat, b + size = c + S[c], NEW alloc \in {0, 1},
         NEW n, NEW L, List(n, L), Links(h, n, L), Listed(n, L) \subseteq DOMAIN S
  PROVE  Links(Tag(h, b, size, alloc), n, L)
<1> DEFINE g == Tag(h, b, size, alloc)
<1>1. b \in Nat /\ b - 1 \in Addr /\ b + size - 2 \in Addr /\ c \in Nat /\ S[c] \in Nat
  BY WordsOf
<1>2. /\ g.hd_free = h.hd_free /\ g.ft_free = h.ft_free
      /\ \A a \in Addr : a # b - 1 /\ a # b + size - 2 => g.mem[a] = h.mem[a]
  BY <1>1, TagWords
<1> HIDE DEF g
<1>3. \A a \in Addr : a # b - 1 /\ a # c + S[c] - 2 => g.mem[a] = h.mem[a]
  BY <1>1, <1>2
<1>4. g.hd_free = h.hd_free /\ g.ft_free = h.ft_free
  BY <1>2
<1>5. Links(g, n, L)
  BY <1>3, <1>4, TagKeepsLinks
<1> QED BY <1>5 DEF g

LEMMA FreeTag ==
  ASSUME NEW h, NEW S, NEW n, NEW L, Described(h, S, n, L), NEW b \in Used(S, n, L), b # 2
  PROVE  LET f == Tag(h, b, SizeOf(h, b), 0)
         IN  Loose(f, S, n, L, b) /\ \A x \in DOMAIN S : x # b => Kept(h, f, S, x)
<1> DEFINE f == Tag(h, b, S[b], 0)
           F == Listed(n, L)
<1>1. /\ h \in HeapRecord /\ Tiling(S, h.brk) /\ TagsBut(h, S, F, {}) /\ List(n, L) /\ Links(h, n, L)
      /\ F \subseteq DOMAIN S /\ Epilogue(h) /\ Apartness(S, F)
      /\ b \in DOMAIN S /\ b \notin F /\ SizeOf(h, b) = S[b]
  BY DescribedBlocks DEF Described, Used
<1>2. TagsBut(h, S, F \cup {b}, {b})
  BY <1>1, TagsCarryOver
<1>3. Retagged(h, f, S, F \cup {b}, {b}, b)
  BY <1>1, <1>2, TagAt
<1>4. Links(f, n, L)
  BY <1>1, TagKeepsList
<1>5. {b} \ {b} = {}
  OBVIOUS
<1> HIDE DEF f
<1>6. Loose(f, S, n, L, b)
  BY <1>1, <1>3, <1>4, <1>5 DEF Loose, Retagged
<1> QED BY <1>1, <1>3, <1>6 DEF f, Retagged

LEMMA LooseReads ==
  ASSUME NEW f, NEW S, NEW n, NEW L, NEW b, Loose(f, S, n, L, b), NEW p \in DOMAIN S, p + S[p] = b
  PROVE  LET F == Listed(n, L)
             c == b + S[b]
         IN  /\ PREV_BLKP(f, b) = p /\ SizeOf(f, p) = S[p] /\ SizeOf(f, b) = S[b]
             /\ GET_ALLOC(f.mem[FTRP(f, p)]) = 1 <=> p \notin F
             /\ NEXT_BLKP(f, b) = c /\ (IsAlloc(f, c) <=> c \notin F)
             /\ c \in F => c \in DOMAIN S /\ SizeOf(f, c) = S[c]
             /\ p # b /\ c # b /\ (p \in F => p # 2)
<1> DEFINE F == Listed(n, L)
           c == b + S[b]
<1>1. /\ f \in HeapRecord /\ Tiling(S, f.brk) /\ TagsBut(f, S, F \cup {b}, {}) /\ Epilogue(f)
      /\ b \in DOMAIN S /\ b \notin F /\ F \subseteq DOMAIN S /\ 2 \notin F
  BY NotListed DEF Loose, Used
<1>2. /\ p \in Nat /\ S[p] \in Nat /\ S[p] >= 2
  BY <1>1, Tile
<1>3. b \in Nat /\ S[b] \in Nat /\ S[b] >= 2 /\ c \in DOMAIN S \cup {f.brk}
  BY <1>1, Tile
<1>4. p # b /\ c # b
  BY <1>2, <1>3
<1> DEFINE E == F \cup {b}
<1>10. Tiling(S, f.brk) /\ TagsBut(f, S, E, {})
  BY <1>1
<1> HIDE DEF E
<1>5. PREV_BLKP(f, p + S[p]) = p /\ SizeOf(f, p) = S[p] /\ (GET_ALLOC(f.mem[FTRP(f, p)]) = 1 <=> p \notin E)
  BY <1>10, Reads
<1>6. SizeOf(f, b) = S[b] /\ NEXT_BLKP(f, b) = c
  BY <1>1, <1>10, Reads
<1>7. c \in DOMAIN S => SizeOf(f, c) = S[c] /\ (IsAlloc(f, c) <=> c \notin E)
  <2> HIDE DEF c
  <2> QED BY <1>10, Reads
<1>8. f.brk \notin DOMAIN S
  <2>1. ASSUME f.brk \in DOMAIN S PROVE FALSE
    <3>1. f.brk \in Nat /\ S[f.brk] \in Nat /\ S[f.brk] >= 2 /\ f.brk + S[f.brk] <= f.brk
      BY <1>1, <2>1, Tile
    <3> QED BY <3>1
  <2> QED BY <2>1
<1>9. c = f.brk => IsAlloc(f, c)
  BY <1>1, EndOfHeap
<1> QED BY <1>1, <1>3, <1>4, <1>5, <1>6, <1>7, <1>8, <1>9 DEF E

Coalesced(f, S, n, L, b, g, R, m, M) ==
  /\ Described(g, R, m, M)
  /\ Used(R, m, M) = Used(S, n, L) \ {b}
  /\ \A x \in Used(S, n, L) \ {b} : R[x] = S[x] /\ Kept(f, g, S, x)

LEMMA CoalesceNone ==
  ASSUME NEW f, NEW S, NEW n, NEW L, NEW b, Loose(f, S, n, L, b), NEW p \in DOMAIN S, p + S[p] = b,
         p \notin Listed(n, L), b + S[b] \notin Listed(n, L)
  PROVE  Coalesced(f, S, n, L, b, coalesce(f, b), S, n + 1, Inserted(n, L, b))
<1>1. coalesce(f, b) = insert_free_block(f, b)
  BY LooseReads DEF coalesce
<1>2. Tiling(S, f.brk) /\ Listed(n, L) \subseteq DOMAIN S
  BY DEF Loose
<1>3. \A x \in Listed(n, L) : x + S[x] # b
  BY <1>2, OneBefore
<1>4. LET g == insert_free_block(f, b)
          M == Inserted(n, L, b)
      IN  /\ Described(g, S, n + 1, M) /\ Listed(n + 1, M) = Listed(n, L) \cup {b}
          /\ \A x \in Used(S, n, L) \ {b} : Kept(f, g, S, x)
  BY <1>3, InsertBlock
<1> QED BY <1>1, <1>4 DEF Coalesced, Used

LEMMA CoalesceNext ==
  ASSUME NEW f, NEW S, NEW n, NEW L, NEW b, Loose(f, S, n, L, b), NEW p \in DOMAIN S, p + S[p] = b,
         p \notin Listed(n, L), NEW j \in 1 .. n, L[j] = b + S[b]
  PROVE  Coalesced(f, S, n, L, b, coalesce(f, b), Joined(S, b), n, Replaced(L, j, b))
<1> DEFINE F == Listed(n, L)
           c == b + S[b]
           R == Joined(S, b)
           M == Replaced(L, j, b)
           G == (F \ {c}) \cup {b}
           e == Tag(f, b, S[b] + S[c], 0)
           g == replace_free_block(e, c, b)
<1>1. /\ f \in HeapRecord /\ Tiling(S, f.brk) /\ TagsBut(f, S, F \cup {b}, {}) /\ Epilogue(f)
      /\ b \in DOMAIN S /\ b \notin F /\ b # 2 /\ F \subseteq DOMAIN S /\ Apartness(S, F)
      /\ List(n, L) /\ Links(f, n, L)
  BY DEF Loose, Used
<1>2. c \in F
  BY DEF Listed
<1>3. /\ PREV_BLKP(f, b) = p /\ SizeOf(f, b) = S[b] /\ GET_ALLOC(f.mem[FTRP(f, p)]) = 1
      /\ NEXT_BLKP(f, b) = c /\ ~IsAlloc(f, c)
      /\ c \in DOMAIN S /\ SizeOf(f, c) = S[c] /\ c # b
  BY <1>2, LooseReads
<1>4. coalesce(f, b) = g
  BY <1>3 DEF coalesce
<1>5. /\ Tiling(R, f.brk) /\ DOMAIN R = DOMAIN S \ {c} /\ R[b] = S[b] + S[c]
      /\ \A x \in DOMAIN S : x # b /\ x # c => R[x] = S[x]
  <2>1. IsJoin(R, S, f.brk, b)
    BY <1>1, <1>3, JoinTiling
  <2> QED BY <2>1 DEF IsJoin
<1>6. S[b] \in Nat /\ S[c] \in Nat /\ b \in Nat /\ S[b] + S[c] \in Nat /\ b + (S[b] + S[c]) = c + S[c]
  <2>1. S[b] \in Nat /\ b \in Nat
    BY <1>1, Tile
  <2>2. S[c] \in Nat
    BY <1>1, <1>3, Tile
  <2> QED BY <2>1, <2>2
<1>7. Links(e, n, L)
  BY <1>1, <1>3, <1>6, WideTagKeepsList
<1>8. c + S[c] \notin F /\ c + S[c] # b
  <2>1. c + S[c] \notin F
    BY <1>1, <1>2 DEF Apartness
  <2>2. c + S[c] # b
    <3>1. S[b] >= 2
      BY <1>1, Tile
    <3> QED BY <1>6, <3>1
  <2> QED BY <2>1, <2>2
<1>9. \A x \in F : x + S[x] # b
  BY <1>1, OneBefore
<1> HIDE DEF F, c, R, M
<1>10. Apartness(R, G)
  <2>1. b + R[b] = c + S[c]
    BY <1>5, <1>6
  <2>2. ASSUME NEW x \in F \ {c} PROVE x + R[x] \notin G
    <3>1. x + R[x] = x + S[x] /\ x + S[x] \notin F
      BY <1>1, <1>5 DEF Apartness
    <3> QED BY <1>9, <3>1
  <2> QED BY <1>8, <2>1, <2>2 DEF Apartness
<1>11. TagsBut(f, R, G, {b})
  BY <1>1, <1>5, TagsCarryOver
<1>12. Retagged(f, e, R, G, {b}, b)
  <2>1. e = Tag(f, b, R[b], 0)
    BY <1>5
  <2>2. b \in DOMAIN R
    BY <1>1, <1>3, <1>5
  <2> QED BY <1>1, <1>5, <1>11, <2>1, <2>2, TagAt
<1> HIDE DEF e
<1>13. e \in HeapRecord /\ e.brk = f.brk /\ TagsBut(e, R, G, {}) /\ Epilogue(e)
       /\ \A x \in DOMAIN R : x # b => Kept(f, e, R, x)
  <2>1. {b} \ {b} = {}
    OBVIOUS
  <2> QED BY <1>1, <1>12, <2>1 DEF Retagged
<1>14. b \in DOMAIN R /\ b # 2 /\ G \subseteq DOMAIN R
  BY <1>1, <1>3, <1>5
<1>15. /\ Described(g, R, n, M) /\ Listed(n, M) = G
       /\ \A x \in DOMAIN R \ G : Kept(e, g, R, x)
  <2>1. L[j] = c /\ G = (Listed(n, L) \ {L[j]}) \cup {b} /\ b \notin Listed(n, L) /\ Tiling(R, e.brk)
    BY <1>1, <1>5, <1>13 DEF c, F
  <2> HIDE DEF G
  <2> QED BY <1>1, <1>7, <1>10, <1>13, <1>14, <2>1, ReplaceBlock DEF M
<1> HIDE DEF g
<1>16. Used(R, n, M) = Used(S, n, L) \ {b}
  BY <1>2, <1>5, <1>15 DEF Used, F
<1>17. ASSUME NEW x \in Used(S, n, L) \ {b} PROVE R[x] = S[x] /\ Kept(f, g, S, x)
  <2>1. x \in DOMAIN R \ G /\ x # b /\ R[x] = S[x]
    BY <1>2, <1>5 DEF Used, F
  <2> QED BY <1>13, <1>15, <2>1 DEF Kept
<1> QED BY <1>4, <1>15, <1>16, <1>17 DEF Coalesced, R, M

LEMMA CoalescePrev ==
  ASSUME NEW f, NEW S, NEW n, NEW L, NEW b, Loose(f, S, n, L, b), NEW p \in DOMAIN S, p + S[p] = b,
         p \in Listed(n, L), b + S[b] \notin Listed(n, L)
  PROVE  Coalesced(f, S, n, L, b, coalesce(f, b), Joined(S, p), n, L)
<1> DEFINE F == Listed(n, L)
           c == b + S[b]
           R == Joined(S, p)
           g == Tag(f, p, S[p] + S[b], 0)
<1>1. /\ f \in HeapRecord /\ Tiling(S, f.brk) /\ TagsBut(f, S, F \cup {b}, {}) /\ Epilogue(f)
      /\ b \in DOMAIN S /\ b \notin F /\ b # 2 /\ F \subseteq DOMAIN S /\ Apartness(S, F)
      /\ List(n, L) /\ Links(f, n, L)
  BY DEF Loose, Used
<1>2. /\ PREV_BLKP(f, b) = p /\ SizeOf(f, p) = S[p] /\ SizeOf(f, b) = S[b]
      /\ GET_ALLOC(f.mem[FTRP(f, p)]) # 1
      /\ NEXT_BLKP(f, b) = c /\ IsAlloc(f, c) /\ p # b /\ c # b /\ p # 2
  BY LooseReads
<1>3. coalesce(f, b) = g
  BY <1>2 DEF coalesce
<1>4. /\ Tiling(R, f.brk) /\ DOMAIN R = DOMAIN S \ {b} /\ R[p] = S[p] + S[b]
      /\ \A x \in DOMAIN S : x # p /\ x # b => R[x] = S[x]
  <2>1. IsJoin(R, S, f.brk, p)
    BY <1>1, <1>2, JoinTiling
  <2> QED BY <2>1 DEF IsJoin
<1>5. S[p] \in Nat /\ S[b] \in Nat /\ p \in Nat /\ S[p] + S[b] \in Nat /\ p + (S[p] + S[b]) = b + S[b]
  <2>1. S[p] \in Nat /\ p \in Nat
    BY <1>1, Tile
  <2>2. S[b] \in Nat
    BY <1>1, Tile
  <2> QED BY <2>1, <2>2
<1>6. Links(g, n, L)
  BY <1>1, <1>5, WideTagKeepsList
<1> HIDE DEF F, c, R
<1>7. Apartness(R, F)
  <2>1. p + R[p] = c /\ c \notin F
    BY <1>4, <1>5 DEF c, F
  <2> QED BY <1>1, <1>4, <2>1 DEF Apartness
<1>8. TagsBut(f, R, F, {p})
  BY <1>1, <1>4, TagsCarryOver
<1>9. Retagged(f, g, R, F, {p}, p)
  <2>1. g = Tag(f, p, R[p], 0) /\ p \in DOMAIN R /\ p \in F
    BY <1>2, <1>4 DEF F
  <2> HIDE DEF g
  <2> QED BY <1>1, <1>4, <1>8, <2>1, TagAt
<1> HIDE DEF g
<1>10. Described(g, R, n, L)
  <2>1. {p} \ {p} = {}
    OBVIOUS
  <2> QED BY <1>1, <1>4, <1>6, <1>7, <1>9, <2>1 DEF Retagged, Described, F
<1>11. Used(R, n, L) = Used(S, n, L) \ {b}
  BY <1>4 DEF Used
<1>12. ASSUME NEW x \in Used(S, n, L) \ {b} PROVE R[x] = S[x] /\ Kept(f, g, S, x)
  <2>1. x \in DOMAIN R /\ x # p /\ R[x] = S[x]
    BY <1>4 DEF Used
  <2> QED BY <1>9, <2>1 DEF Kept, Retagged
<1> QED BY <1>3, <1>10, <1>11, <1>12 DEF Coalesced, R

LEMMA CoalesceBoth ==
  ASSUME NEW f, NEW S, NEW n, NEW L, NEW b, Loose(f, S, n, L, b), NEW p \in DOMAIN S, p + S[p] = b,
         p \in Listed(n, L), NEW j \in 1 .. n, L[j] = b + S[b]
  PROVE  Coalesced(f, S, n, L, b, coalesce(f, b), Joined(Joined(S, p), p), n - 1, Removed(n, L, j))
<1> DEFINE F == Listed(n, L)
           c == b + S[b]
           Q == Joined(S, p)
           R == Joined(Q, p)
           M == Removed(n, L, j)
           G == F \ {c}
           size == S[p] + S[b] + S[c]
           e == Tag(f, p, size, 0)
           g == remove_free_block(e, c)
<1>1. /\ f \in HeapRecord /\ Tiling(S, f.brk) /\ TagsBut(f, S, F \cup {b}, {}) /\ Epilogue(f)
      /\ b \in DOMAIN S /\ b \notin F /\ b # 2 /\ F \subseteq DOMAIN S /\ Apartness(S, F)
      /\ List(n, L) /\ Links(f, n, L)
  BY DEF Loose, Used
<1>2. c \in F
  BY DEF Listed
<1>3. /\ PREV_BLKP(f, b) = p /\ SizeOf(f, p) = S[p] /\ SizeOf(f, b) = S[b]
      /\ GET_ALLOC(f.mem[FTRP(f, p)]) # 1
      /\ NEXT_BLKP(f, b) = c /\ ~IsAlloc(f, c) /\ p # b /\ c # b /\ p # 2
      /\ c \in DOMAIN S /\ SizeOf(f, c) = S[c]
  BY <1>2, LooseReads
<1>4. coalesce(f, b) = g
  BY <1>3 DEF coalesce
<1>5. S[p] \in Nat /\ S[b] \in Nat /\ p \in Nat /\ S[c] \in Nat /\ size \in Nat /\ p + size = c + S[c]
      /\ p + (S[p] + S[b]) = c /\ p < b /\ b < c
  <2>1. S[p] \in Nat /\ p \in Nat /\ S[p] >= 2
    BY <1>1, Tile
  <2>2. S[b] \in Nat /\ S[b] >= 2
    BY <1>1, Tile
  <2>3. S[c] \in Nat
    BY <1>1, <1>3, Tile
  <2> QED BY <2>1, <2>2, <2>3
<1>6. /\ Tiling(Q, f.brk) /\ DOMAIN Q = DOMAIN S \ {b} /\ Q[p] = S[p] + S[b]
      /\ \A x \in DOMAIN S : x # p /\ x # b => Q[x] = S[x]
  <2>1. IsJoin(Q, S, f.brk, p)
    BY <1>1, <1>3, JoinTiling
  <2> QED BY <2>1 DEF IsJoin
<1> HIDE DEF Q, c
<1>7. /\ Tiling(R, f.brk) /\ DOMAIN R = DOMAIN S \ {b, c} /\ R[p] = size
      /\ \A x \in DOMAIN S : x # p /\ x # b /\ x # c => R[x] = S[x]
  <2>1. p + Q[p] = c /\ p \in DOMAIN Q /\ c \in DOMAIN Q /\ Q[c] = S[c]
    BY <1>3, <1>5, <1>6
  <2>2. IsJoin(R, Q, f.brk, p)
    BY <1>3, <1>6, <2>1, JoinTiling
  <2> QED BY <1>5, <1>6, <2>1, <2>2 DEF IsJoin
<1> HIDE DEF R
<1>8. Links(e, n, L)
  BY <1>1, <1>3, <1>5, WideTagKeepsList
<1> HIDE DEF F, M, size
<1>9. Apartness(R, G)
  <2>1. p + R[p] = c + S[c] /\ c + S[c] \notin F
    BY <1>1, <1>2, <1>5, <1>7 DEF Apartness
  <2>2. ASSUME NEW x \in G, x # p PROVE x + R[x] \notin G
    <3>1. x + R[x] = x + S[x] /\ x + S[x] \notin F
      BY <1>1, <1>7, <2>2 DEF Apartness
    <3> QED BY <3>1
  <2> QED BY <2>1, <2>2 DEF Apartness
<1>10. p \in DOMAIN R /\ p \in G /\ G \subseteq DOMAIN R
  <2>1. p # c /\ p # b
    BY <1>5, <1>3
  <2> QED BY <1>1, <1>7, <2>1 DEF F
<1>11. TagsBut(f, R, G, {p})
  BY <1>1, <1>7, TagsCarryOver
<1>12. Retagged(f, e, R, G, {p}, p)
  <2>1. e = Tag(f, p, R[p], 0)
    BY <1>7
  <2> HIDE DEF e, G
  <2> QED BY <1>1, <1>7, <1>10, <1>11, <2>1, TagAt
<1> HIDE DEF e
<1>13. e \in HeapRecord /\ e.brk = f.brk /\ TagsBut(e, R, G, {}) /\ Epilogue(e)
       /\ \A x \in DOMAIN R : x # p => Kept(f, e, R, x)
  <2>1. {p} \ {p} = {}
    OBVIOUS
  <2> QED BY <1>1, <1>12, <2>1 DEF Retagged
<1>14. /\ Described(g, R, n - 1, M) /\ Listed(n - 1, M) = G
       /\ \A x \in DOMAIN R \ G : Kept(e, g, R, x)
  <2>1. L[j] = c /\ G = Listed(n, L) \ {L[j]} /\ Tiling(R, e.brk)
    BY <1>7, <1>13 DEF c, F
  <2> HIDE DEF G
  <2> QED BY <1>1, <1>8, <1>9, <1>10, <1>13, <2>1, RemoveBlock DEF M
<1> HIDE DEF g
<1>15. Used(R, n - 1, M) = Used(S, n, L) \ {b}
  BY <1>2, <1>7, <1>14 DEF Used, F
<1>16. ASSUME NEW x \in Used(S, n, L) \ {b} PROVE R[x] = S[x] /\ Kept(f, g, S, x)
  <2>1. x \in DOMAIN R \ G /\ x # p /\ R[x] = S[x]
    BY <1>2, <1>7 DEF Used, F
  <2> QED BY <1>13, <1>14, <2>1 DEF Kept
<1> QED BY <1>4, <1>14, <1>15, <1>16 DEF Coalesced, R, Q, M

(***************************************************************************)
(* mm_free: the block is no longer in use, every other block in use stays  *)
(* as it was, and sizes and list do not depend on what else is in memory.  *)
(***************************************************************************)
LEMMA Frees ==
  ASSUME NEW S, NEW n, NEW L, NEW b \in Used(S, n, L), b # 2
  PROVE  \E R, m, M : \A h : Described(h, S, n, L) =>
           Leads(h, S, n, L, mm_free(h, b), R, m, M, {b}, {})
<1> DEFINE f(h) == Tag(h, b, SizeOf(h, b), 0)
           Result(R, m, M) == \A h : Described(h, S, n, L) =>
                                Coalesced(f(h), S, n, L, b, coalesce(f(h), b), R, m, M)
<1>1. ASSUME NEW R, NEW m, NEW M, Result(R, m, M)
      PROVE  \A h : Described(h, S, n, L) => Leads(h, S, n, L, mm_free(h, b), R, m, M, {b}, {})
  <2> SUFFICES ASSUME NEW h, Described(h, S, n, L)
               PROVE  Leads(h, S, n, L, mm_free(h, b), R, m, M, {b}, {})
    OBVIOUS
  <2> DEFINE e == Tag(h, b, SizeOf(h, b), 0)
             g == coalesce(e, b)
  <2>1. \A x \in DOMAIN S : x # b => Kept(h, e, S, x)
    BY FreeTag
  <2>2. Coalesced(e, S, n, L, b, g, R, m, M)
    BY <1>1
  <2>3. mm_free(h, b) = g
    BY DEF mm_free
  <2> HIDE DEF e, g
  <2>4. ASSUME NEW x \in Used(S, n, L) \ {b} PROVE Kept(h, g, S, x)
    BY <2>1, <2>2 DEF Coalesced, Kept, Used
  <2> QED BY <2>2, <2>3, <2>4 DEF Coalesced, Leads
<1>2. CASE ~ \E h : Described(h, S, n, L)
  BY <1>2
<1>3. CASE \E h : Described(h, S, n, L)
  <2>1. PICK k : Described(k, S, n, L)
    BY <1>3
  <2>2. PICK p \in DOMAIN S : p + S[p] = b
    BY <2>1 DEF Described, Tiling, Used, heap_listp, DSIZE
  <2>3. \A h : Described(h, S, n, L) => Loose(f(h), S, n, L, b)
    BY FreeTag
  <2> HIDE DEF f
  <2>4. b + S[b] \in Listed(n, L) => \E j \in 1 .. n : L[j] = b + S[b]
    BY DEF Listed
  <2>5. CASE p \notin Listed(n, L) /\ b + S[b] \notin Listed(n, L)
    <3>1. Result(S, n + 1, Inserted(n, L, b))
      BY <2>2, <2>3, <2>5, CoalesceNone
    <3> QED BY <1>1, <3>1
  <2>6. CASE p \notin Listed(n, L) /\ b + S[b] \in Listed(n, L)
    <3>1. PICK j \in 1 .. n : L[j] = b + S[b]
      BY <2>4, <2>6
    <3>2. Result(Joined(S, b), n, Replaced(L, j, b))
      BY <2>2, <2>3, <2>6, <3>1, CoalesceNext
    <3> QED BY <1>1, <3>2
  <2>7. CASE p \in Listed(n, L) /\ b + S[b] \notin Listed(n, L)
    <3>1. Result(Joined(S, p), n, L)
      BY <2>2, <2>3, <2>7, CoalescePrev
    <3> QED BY <1>1, <3>1
  <2>8. CASE p \in Listed(n, L) /\ b + S[b] \in Listed(n, L)
    <3>1. PICK j \in 1 .. n : L[j] = b + S[b]
      BY <2>4, <2>8
    <3>2. Result(Joined(Joined(S, p), p), n - 1, Removed(n, L, j))
      BY <2>2, <2>3, <2>8, <3>1, CoalesceBoth
    <3> QED BY <1>1, <3>2
  <2> QED BY <2>5, <2>6, <2>7, <2>8
<1> QED BY <1>2, <1>3

-----------------------------------------------------------------------------
(* find_fit                                                                *)

\* What nth of FreeBlocks is: the first block, then one after the other.
IsWalk(h, f) ==
  f = [k \in 0 .. MaxBlocks |->
         IF k = 0 THEN h.hd_free
         ELSE IF f[k - 1] = NULL THEN NULL ELSE next_free_block(h, f[k - 1])]

\* A nonempty set of naturals has a least element.
LEMMA Least ==
  ASSUME NEW T, T \subseteq Nat, T # {}
  PROVE  \E x \in T : \A y \in T : x <= y
<1>1. IsWellFoundedOn(OpToRel(<, Nat), Nat)
  BY NatLessThanWellFounded
<1>2. PICK x \in T : \A y \in T : ~(<<y, x>> \in OpToRel(<, Nat))
  BY <1>1, WFMin
<1>3. \A y \in T : ~(y < x)
  BY <1>2 DEF OpToRel
<1> QED BY <1>3

LEMMA MaxBlocksType == MaxBlocks \in Nat
BY HeapAssumption DEF MaxBlocks, MINBLOCK, DSIZE

LEMMA ListBound ==
  ASSUME NEW h, NEW S, NEW n, NEW L, Described(h, S, n, L)
  PROVE  n \in 0 .. MaxBlocks
<1> DEFINE f == [k \in 1 .. n |-> L[k] \div 4]
<1>1. n \in Nat /\ L \in [1 .. n -> LinkPlace] /\ \A j, k \in 1 .. n : L[j] = L[k] => j = k
  BY DEF Described, List
<1>2. MAX_HEAP \in Nat /\ MaxBlocks = MAX_HEAP \div 4 /\ h.brk \in 0 .. MAX_HEAP
  BY HeapAssumption DEF MaxBlocks, MINBLOCK, DSIZE, Described, HeapRecord
<1>3. \A k \in 1 .. n : L[k] \in DOMAIN S /\ L[k] # 2
  BY DescribedBlocks DEF Listed
<1>4. Tiling(S, h.brk)
  BY DEF Described
<1>5. ASSUME NEW k \in 1 .. n PROVE L[k] \in Nat /\ L[k] >= 4 /\ L[k] + 4 <= MAX_HEAP
  <2>1. L[k] \in Nat /\ S[L[k]] \in Nat /\ L[k] + S[L[k]] <= h.brk /\ L[k] >= 4 /\ S[L[k]] >= 4
    BY <1>3, <1>4, Tile
  <2> QED BY <1>2, <2>1
<1>6. \A k \in 1 .. n : f[k] \in 1 .. MaxBlocks
  BY <1>2, <1>5
<1>7. ASSUME NEW j \in 1 .. n, NEW k \in 1 .. n, f[j] = f[k] PROVE j = k
  <2>1. L[j] < L[k] => L[j] + 4 <= L[k]
    <3>1. S[L[j]] \in Nat /\ S[L[j]] >= 4 /\ (L[j] < L[k] => L[j] + S[L[j]] <= L[k])
      BY <1>3, <1>4, Tile
    <3> QED BY <1>5, <3>1
  <2>2. L[k] < L[j] => L[k] + 4 <= L[j]
    <3>1. S[L[k]] \in Nat /\ S[L[k]] >= 4 /\ (L[k] < L[j] => L[k] + S[L[k]] <= L[j])
      BY <1>3, <1>4, Tile
    <3> QED BY <1>5, <3>1
  <2>3. L[j] \div 4 = L[k] \div 4
    BY <1>7
  <2> QED BY <1>1, <1>5, <2>1, <2>2, <2>3
<1>8. f \in Injection(1 .. n, 1 .. MaxBlocks)
  BY <1>6, <1>7 DEF Injection, IsInjective
<1>9. MaxBlocks \in Nat
  BY <1>2
<1>10. IsFiniteSet(1 .. n) /\ Cardinality(1 .. n) = n /\ IsFiniteSet(1 .. MaxBlocks)
       /\ Cardinality(1 .. MaxBlocks) = MaxBlocks
  BY <1>1, <1>9, FS_Interval
<1>11. n <= MaxBlocks
  BY <1>8, <1>10, FS_Injection
<1> QED BY <1>1, <1>9, <1>11

LEMMA WalkUnique ==
  ASSUME NEW h, NEW f, NEW g, IsWalk(h, f), IsWalk(h, g)
  PROVE  f = g
<1> DEFINE T == {k \in 0 .. MaxBlocks : f[k] # g[k]}
<1>1. ASSUME T # {} PROVE FALSE
  <2>0. MaxBlocks \in Nat /\ T \subseteq Nat
    BY MaxBlocksType
  <2> HIDE DEF T
  <2>1. PICK k \in T : \A y \in T : k <= y
    BY <1>1, <2>0, Least
  <2> USE DEF T
  <2>2. k \in 0 .. MaxBlocks /\ k # 0 /\ f[k - 1] = g[k - 1]
    <3>1. k # 0
      BY DEF IsWalk
    <3>2. k - 1 \in 0 .. MaxBlocks /\ ~(k <= k - 1)
      BY <2>0, <3>1
    <3> QED BY <2>1, <3>1, <3>2
  <2>3. f[k] = g[k]
    <3>1. /\ f[k] = IF f[k - 1] = NULL THEN NULL ELSE next_free_block(h, f[k - 1])
          /\ g[k] = IF g[k - 1] = NULL THEN NULL ELSE next_free_block(h, g[k - 1])
      BY <2>2 DEF IsWalk
    <3> QED BY <2>2, <3>1
  <2> QED BY <2>3
<1> QED BY <1>1 DEF IsWalk

LEMMA WalksList ==
  ASSUME NEW h, NEW S, NEW n, NEW L, Described(h, S, n, L)
  PROVE  FreeBlocks(h) = [k \in 0 .. MaxBlocks |-> IF k < n THEN L[k + 1] ELSE NULL]
<1> DEFINE w == [k \in 0 .. MaxBlocks |-> IF k < n THEN L[k + 1] ELSE NULL]
<1>1. n \in Nat /\ n \in 0 .. MaxBlocks /\ MaxBlocks \in Nat /\ h \in HeapRecord /\ List(n, L) /\ Links(h, n, L)
  BY ListBound, MaxBlocksType DEF Described, List
<1>2. \A k \in 1 .. n : L[k] # NULL /\ next_free_block(h, L[k]) = IF k = n THEN NULL ELSE L[k + 1]
  BY <1>1, LinkReads DEF LinkPlace, NULL
<1>3. w[0] = h.hd_free
  <2>1. w[0] = IF 0 < n THEN L[1] ELSE NULL
    BY <1>1
  <2> QED BY <1>1, <2>1 DEF Links
<1>4. ASSUME NEW k \in 0 .. MaxBlocks, k # 0
      PROVE  w[k] = IF w[k - 1] = NULL THEN NULL ELSE next_free_block(h, w[k - 1])
  <2>1. w[k] = (IF k < n THEN L[k + 1] ELSE NULL) /\ w[k - 1] = IF k - 1 < n THEN L[k] ELSE NULL
    <3>1. k - 1 \in 0 .. MaxBlocks /\ (k - 1) + 1 = k
      BY <1>1, <1>4
    <3> QED BY <3>1
  <2>2. CASE k \in 1 .. n
    BY <1>1, <1>2, <2>1, <2>2
  <2>3. CASE ~(k \in 1 .. n)
    BY <1>1, <1>4, <2>1, <2>3
  <2> QED BY <2>2, <2>3
<1> w = [k \in 0 .. MaxBlocks |-> w[k]]
  OBVIOUS
<1> HIDE DEF w
<1>5. IsWalk(h, w)
  BY <1>3, <1>4 DEF IsWalk
<1>6. FreeBlocks(h) = CHOOSE f : IsWalk(h, f)
  BY DEF FreeBlocks, IsWalk
<1>7. IsWalk(h, CHOOSE f : IsWalk(h, f))
  BY <1>5
<1> QED BY <1>5, <1>6, <1>7, WalkUnique DEF w

\* The places in the list of the blocks that are large enough
Fitting(S, n, L, size) == {k \in 0 .. (n - 1) : size <= S[L[k + 1]]}

LEMMA FindsFit ==
  ASSUME NEW h, NEW S, NEW n, NEW L, Described(h, S, n, L), NEW size
  PROVE  LET fits == Fitting(S, n, L, size)
         IN  /\ find_fit(h, size) = IF fits = {} THEN NULL ELSE L[Min(fits) + 1]
             /\ fits # {} => Min(fits) + 1 \in 1 .. n /\ size <= S[L[Min(fits) + 1]]
<1> DEFINE fits == Fitting(S, n, L, size)
           nth == FreeBlocks(h)
           found == {k \in 0 .. MaxBlocks : nth[k] # NULL /\ size <= SizeOf(h, nth[k])}
<1>1. n \in Nat /\ n \in 0 .. MaxBlocks /\ MaxBlocks \in Nat /\ \A k \in 1 .. n : L[k] \in LinkPlace
  BY ListBound, MaxBlocksType DEF Described, List
<1>2. \A k \in 1 .. n : L[k] # NULL /\ SizeOf(h, L[k]) = S[L[k]]
  BY <1>1, DescribedBlocks DEF Listed, LinkPlace, NULL
<1>3. \A k \in 0 .. MaxBlocks : nth[k] = IF k < n THEN L[k + 1] ELSE NULL
  <2>1. nth = [k \in 0 .. MaxBlocks |-> IF k < n THEN L[k + 1] ELSE NULL]
    BY WalksList
  <2> HIDE DEF nth
  <2> QED BY <2>1
<1> HIDE DEF nth
<1>4. ASSUME NEW k \in 0 .. MaxBlocks, k < n
      PROVE  nth[k] # NULL /\ SizeOf(h, nth[k]) = S[L[k + 1]] /\ nth[k] = L[k + 1]
  <2>1. k + 1 \in 1 .. n
    BY <1>1, <1>4
  <2> QED BY <1>2, <1>3, <1>4, <2>1
<1>5. found = fits
  <2>1. fits \subseteq 0 .. MaxBlocks /\ \A k \in fits : k < n
    BY <1>1 DEF Fitting
  <2>2. ASSUME NEW k \in found PROVE k \in fits
    <3>1. k < n
      BY <1>3
    <3>2. k \in 0 .. (n - 1)
      BY <1>1, <3>1
    <3> QED BY <1>4, <3>1, <3>2 DEF Fitting
  <2>3. ASSUME NEW k \in fits PROVE k \in found
    BY <1>4, <2>1 DEF Fitting
  <2> QED BY <2>2, <2>3
<1>6. fits # {} => Min(fits) \in fits
  <2>1. fits \subseteq Nat
    BY DEF Fitting
  <2> HIDE DEF fits
  <2> QED BY <2>1, Least DEF Min
<1>7. find_fit(h, size) = IF found = {} THEN NULL ELSE nth[Min(found)]
  BY DEF find_fit, nth
<1>8. fits # {} => /\ Min(fits) \in 0 .. MaxBlocks /\ Min(fits) < n /\ Min(fits) + 1 \in 1 .. n
                   /\ size <= S[L[Min(fits) + 1]]
  BY <1>1, <1>6 DEF Fitting
<1> HIDE DEF found, fits
<1>9. find_fit(h, size) = IF fits = {} THEN NULL ELSE L[Min(fits) + 1]
  BY <1>4, <1>5, <1>7, <1>8
<1> QED BY <1>8, <1>9 DEF fits

LEMMA LeadsOn ==
  ASSUME NEW h, NEW S, NEW n, NEW L, NEW g, NEW R, NEW m, NEW M, NEW gone1, NEW new1,
         Leads(h, S, n, L, g, R, m, M, gone1, new1),
         NEW k, NEW Q, NEW o, NEW O, NEW gone2, NEW new2,
         Leads(g, R, m, M, k, Q, o, O, gone2, new2)
  PROVE  Leads(h, S, n, L, k, Q, o, O, gone1 \cup gone2, (new1 \ gone2) \cup new2)
<1>1. Described(k, Q, o, O)
  BY DEF Leads
<1>2. Used(Q, o, O) = (Used(S, n, L) \ (gone1 \cup gone2)) \cup ((new1 \ gone2) \cup new2)
  BY DEF Leads
<1>3. ASSUME NEW x \in Used(S, n, L) \ (gone1 \cup gone2)
      PROVE  Q[x] = S[x] /\ Kept(h, k, S, x)
  <2>1. R[x] = S[x] /\ Kept(h, g, S, x) /\ x \in Used(R, m, M) \ gone2
    BY DEF Leads
  <2>2. Q[x] = R[x] /\ Kept(g, k, R, x)
    BY <2>1 DEF Leads
  <2> QED BY <2>1, <2>2 DEF Kept
<1> QED BY <1>1, <1>2, <1>3 DEF Leads

LEMMA Places ==
  ASSUME NEW S, NEW n, NEW L, NEW j \in 1 .. n,
         NEW size \in Nat, size % 2 = 0, size >= 4, size <= S[L[j]]
  PROVE  \E R, m, M, bp : \A h : Described(h, S, n, L) =>
           HandsOut(h, S, n, L, place(h, L[j], size), R, m, M, bp, size)
<1>1. CASE ~ \E h : Described(h, S, n, L)
  BY <1>1
<1>2. CASE \E h : Described(h, S, n, L)
  <2>1. L[j] \in Listed(n, L) /\ L[j] \in DOMAIN S
    <3>1. L[j] \in Listed(n, L)
      BY DEF Listed
    <3> QED BY <1>2, <3>1, DescribedBlocks
  <2>2. S[L[j]] \in Nat
    BY <1>2, <2>1, Tile DEF Described
  <2>3. CASE S[L[j]] - size >= 4
    <3> DEFINE b == L[j]
               rest == S[b] - size
               R == Cut(S, b, rest)
    <3>1. ASSUME NEW h, Described(h, S, n, L)
          PROVE  HandsOut(h, S, n, L, place(h, b, size), R, n, L, b + rest, size)
      <4>1. /\ Leads(h, S, n, L, place(h, b, size).heap, R, n, L, {}, {b + rest})
            /\ place(h, b, size).bp = b + rest /\ R[b + rest] = size /\ b + rest \notin DOMAIN S
        BY <2>1, <2>3, <3>1, PlaceCuts
      <4> HIDE DEF b, rest, R
      <4> QED BY <4>1 DEF HandsOut, Used
    <3> QED BY <3>1
  <2>4. CASE S[L[j]] - size < 4
    <3>1. ASSUME NEW h, Described(h, S, n, L)
          PROVE  HandsOut(h, S, n, L, place(h, L[j], size), S, n - 1, Removed(n, L, j), L[j], size)
      BY <2>4, <3>1, PlaceTakes
    <3> QED BY <3>1
  <2> QED BY <2>2, <2>3, <2>4
<1> QED BY <1>1, <1>2

-----------------------------------------------------------------------------
(* Heaps of the same description                                           *)

\* The sizes of the blocks say where the break is.
LEMMA SameBreak ==
  ASSUME NEW S, NEW brk1, NEW brk2, Tiling(S, brk1), Tiling(S, brk2)
  PROVE  brk1 = brk2
<1>1. \A brk : Tiling(S, brk) => brk \in Nat /\ \E a \in DOMAIN S : a + S[a] = brk
  <2> SUFFICES ASSUME NEW brk, Tiling(S, brk) PROVE brk \in Nat /\ \E a \in DOMAIN S : a + S[a] = brk
    OBVIOUS
  <2>1. /\ brk \in Nat /\ 2 \in DOMAIN S /\ S[2] = 2 /\ 2 + S[2] <= brk
        /\ brk # 2 => \E a \in DOMAIN S : a + S[a] = brk
    BY DEF Tiling, heap_listp, DSIZE
  <2> QED BY <2>1
<1>2. \A brk : Tiling(S, brk) => \A a \in DOMAIN S : a + S[a] <= brk
  BY DEF Tiling
<1> QED BY <1>1, <1>2

\* Words besides the tags and the links do not count.
LEMMA SameDescription ==
  ASSUME NEW h, NEW S, NEW n, NEW L, Described(h, S, n, L), NEW g \in HeapRecord,
         g.brk = h.brk, g.hd_free = h.hd_free, g.ft_free = h.ft_free,
         g.mem[h.brk - 1] = h.mem[h.brk - 1],
         \A b \in DOMAIN S : /\ g.mem[b - 1] = h.mem[b - 1]
                             /\ g.mem[b + S[b] - 2] = h.mem[b + S[b] - 2],
         \A b \in Listed(n, L) : g.mem[b] = h.mem[b] /\ g.mem[b + 1] = h.mem[b + 1]
  PROVE  Described(g, S, n, L)
<1>1. TagsBut(g, S, Listed(n, L), {})
  BY DEF Described, TagsBut
<1>2. Links(g, n, L)
  <2>1. \A k \in 1 .. n : g.mem[L[k]] = h.mem[L[k]] /\ g.mem[L[k] + 1] = h.mem[L[k] + 1]
    BY DEF Listed
  <2> QED BY <2>1 DEF Described, Links
<1> QED BY <1>1, <1>2 DEF Described, Epilogue

\* Whoever holds a block may write into its payload.
LEMMA PayloadWrites ==
  ASSUME NEW h, NEW S, NEW n, NEW L, Described(h, S, n, L), NEW b \in Used(S, n, L),
         NEW g \in HeapRecord, g.brk = h.brk, g.hd_free = h.hd_free, g.ft_free = h.ft_free,
         \A a \in Addr : ~(a \in b .. (b + S[b] - 3)) => g.mem[a] = h.mem[a]
  PROVE  Leads(h, S, n, L, g, S, n, L, {b}, {b})
<1>1. h \in HeapRecord /\ Tiling(S, h.brk) /\ Listed(n, L) \subseteq DOMAIN S /\ b \in DOMAIN S
      /\ b \notin Listed(n, L) /\ 2 \notin Listed(n, L)
  BY DescribedBlocks DEF Described, Used
<1>2. b \in Nat /\ S[b] \in Nat /\ b - 1 \in Addr /\ b + S[b] - 2 \in Addr /\ h.brk - 1 \in Addr
      /\ h.brk \in Nat /\ b + S[b] - 2 < h.brk - 1
  BY <1>1, WordsOf
<1>3. ASSUME NEW x \in DOMAIN S, x # b PROVE Kept(h, g, S, x)
  <2> SUFFICES ASSUME NEW a \in (x - 1) .. (x + S[x] - 2) PROVE g.mem[a] = h.mem[a]
    BY DEF Kept
  <2>1. a \in Addr
    BY <1>1, WordsOf
  <2>2. a < b - 1 \/ a > b + S[b] - 2
    BY <1>1, <1>3, Apart
  <2>3. a \in Int
    BY <1>1, <1>2, Tile
  <2> QED BY <1>2, <2>1, <2>2, <2>3
<1>4. /\ g.mem[h.brk - 1] = h.mem[h.brk - 1]
      /\ g.mem[b - 1] = h.mem[b - 1] /\ g.mem[b + S[b] - 2] = h.mem[b + S[b] - 2]
  BY <1>2
<1>5. ASSUME NEW x \in DOMAIN S
      PROVE  g.mem[x - 1] = h.mem[x - 1] /\ g.mem[x + S[x] - 2] = h.mem[x + S[x] - 2]
  <2>1. CASE x = b
    BY <1>4, <2>1
  <2>2. CASE x # b
    <3>1. x - 1 \in (x - 1) .. (x + S[x] - 2) /\ x + S[x] - 2 \in (x - 1) .. (x + S[x] - 2)
      <4>1. x \in Nat /\ S[x] \in Nat /\ S[x] >= 2
        BY <1>1, Tile
      <4> QED BY <4>1
    <3> QED BY <1>3, <2>2, <3>1 DEF Kept
  <2> QED BY <2>1, <2>2
<1>6. ASSUME NEW x \in Listed(n, L) PROVE g.mem[x] = h.mem[x] /\ g.mem[x + 1] = h.mem[x + 1]
  <2>1. x \in DOMAIN S /\ x # 2 /\ x # b
    BY <1>1
  <2>2. x \in (x - 1) .. (x + S[x] - 2) /\ x + 1 \in (x - 1) .. (x + S[x] - 2)
    BY <1>1, <2>1, LinksAreNoTags
  <2> QED BY <1>3, <2>1, <2>2 DEF Kept
<1>7. Described(g, S, n, L)
  BY <1>4, <1>5, <1>6, SameDescription
<1> QED BY <1>1, <1>3, <1>7 DEF Leads, Used

-----------------------------------------------------------------------------
(* extend_heap and mm_init                                                 *)

\* Heap g is h with the epilogue written.
Ended(h, g, S, n, L) ==
  /\ g \in HeapRecord /\ g.brk = h.brk /\ Epilogue(g) /\ Links(g, n, L)
  /\ \A F, X : TagsBut(h, S, F, X) => TagsBut(g, S, F, X)
  /\ \A x \in DOMAIN S : Kept(h, g, S, x)

LEMMA WriteEpilogue ==
  ASSUME NEW h \in HeapRecord, NEW S, Tiling(S, h.brk), NEW n, NEW L, List(n, L), Links(h, n, L),
         Listed(n, L) \subseteq DOMAIN S, NEW p, p = h.brk - 1
  PROVE  Ended(h, PUT(h, p, 1), S, n, L)
<1> DEFINE g == PUT(h, p, 1)
<1>1. p \in Addr
  BY WordsOf DEF Tiling
<1>2. Wrote(h, g, p, 1)
  BY <1>1, PutWord
<1> HIDE DEF g
<1>3. Epilogue(g)
  BY <1>1, <1>2 DEF Wrote, Epilogue
<1>4. ASSUME NEW x \in DOMAIN S PROVE Kept(h, g, S, x)
  <2> SUFFICES ASSUME NEW a \in (x - 1) .. (x + S[x] - 2) PROVE g.mem[a] = h.mem[a]
    BY DEF Kept
  <2>1. x \in Nat /\ S[x] \in Nat /\ (x - 1) .. (x + S[x] - 2) \subseteq Addr
        /\ x + S[x] - 2 < p
    BY WordsOf
  <2>2. a \in Addr
    BY <2>1
  <2>3. a # p
    BY <2>1
  <2> QED BY <1>2, <2>2, <2>3 DEF Wrote
<1>5. ASSUME NEW x \in DOMAIN S
      PROVE  g.mem[x - 1] = h.mem[x - 1] /\ g.mem[x + S[x] - 2] = h.mem[x + S[x] - 2]
  <2>1. x \in Nat /\ S[x] \in Nat /\ S[x] >= 2
    BY Tile
  <2>2. x - 1 \in (x - 1) .. (x + S[x] - 2) /\ x + S[x] - 2 \in (x - 1) .. (x + S[x] - 2)
    BY <2>1
  <2> QED BY <1>4, <2>2 DEF Kept
<1>6. \A F, X : TagsBut(h, S, F, X) => TagsBut(g, S, F, X)
  BY <1>5 DEF TagsBut
<1>7. Links(g, n, L)
  <2>1. ASSUME NEW k \in 1 .. n PROVE g.mem[L[k]] = h.mem[L[k]] /\ g.mem[L[k] + 1] = h.mem[L[k] + 1]
    <3>1. L[k] \in DOMAIN S /\ L[k] # 2
      BY DEF List, Listed, LinkPlace
    <3>2. L[k] \in (L[k] - 1) .. (L[k] + S[L[k]] - 2) /\ L[k] + 1 \in (L[k] - 1) .. (L[k] + S[L[k]] - 2)
      BY <3>1, LinksAreNoTags
    <3> QED BY <1>4, <3>1, <3>2 DEF Kept
  <2> QED BY <1>2, <2>1 DEF Links, Wrote
<1> QED BY <1>2, <1>3, <1>4, <1>6, <1>7 DEF g, Wrote, Ended

\* The break has moved; the new words belong to a block that has no tags yet.
Opened(h, g, R, n, L, size) ==
  /\ g \in HeapRecord /\ g.mem = h.mem /\ g.brk = h.brk + size
  /\ g.hd_free = h.hd_free /\ g.ft_free = h.ft_free
  /\ TagsBut(g, R, Listed(n, L), {h.brk}) /\ Links(g, n, L)

LEMMA OpenHeap ==
  ASSUME NEW h, NEW S, NEW n, NEW L, Described(h, S, n, L),
         NEW size \in Nat, size % 2 = 0, size >= 4, h.brk + size <= MAX_HEAP
  PROVE  LET R == Extended(S, h.brk, size)
         IN  /\ IsExtension(R, S, h.brk, size)
             /\ Opened(h, [h EXCEPT !.brk = @ + size], R, n, L, size)
<1> DEFINE R == Extended(S, h.brk, size)
           g == [h EXCEPT !.brk = @ + size]
<1>1. h \in HeapRecord /\ Tiling(S, h.brk) /\ TagsBut(h, S, Listed(n, L), {}) /\ Links(h, n, L)
  BY DEF Described
<1>2. IsExtension(R, S, h.brk, size)
  BY <1>1, ExtendTiling
<1> HIDE DEF R
<1>3. /\ g.mem = h.mem /\ g.brk = h.brk + size /\ g.hd_free = h.hd_free /\ g.ft_free = h.ft_free
      /\ g = [mem |-> g.mem, brk |-> g.brk, hd_free |-> g.hd_free, ft_free |-> g.ft_free]
  BY <1>1 DEF HeapRecord
<1>4. g.brk \in 0 .. MAX_HEAP
  BY <1>1, <1>3, HeapAssumption DEF HeapRecord
<1> HIDE DEF g
<1>5. g \in HeapRecord
  BY <1>1, <1>3, <1>4 DEF HeapRecord
<1>6. TagsBut(g, R, Listed(n, L), {h.brk})
  BY <1>1, <1>2, <1>3 DEF TagsBut, IsExtension
<1>7. Links(g, n, L)
  BY <1>1, <1>3 DEF Links
<1> QED BY <1>2, <1>3, <1>5, <1>6, <1>7 DEF Opened, R, g

\* The heap has grown by size words at least in the free block bp.
Grown(h, S, n, L, r, R, m, M, bp, size) ==
  /\ Leads(h, S, n, L, r.heap, R, m, M, {}, {})
  /\ r.bp = bp /\ bp \in Listed(m, M) /\ R[bp] >= size

LEMMA ExtendInserts ==
  ASSUME NEW h, NEW S, NEW n, NEW L, Described(h, S, n, L),
         NEW size \in Nat, size % 2 = 0, size >= 4, h.brk + size <= MAX_HEAP,
         NEW p \in DOMAIN S, p + S[p] = h.brk, p \notin Listed(n, L)
  PROVE  Grown(h, S, n, L, extend_heap(h, size),
               Extended(S, h.brk, size), n + 1, Inserted(n, L, h.brk), h.brk, size)
<1> DEFINE top == h.brk
           R == Extended(S, top, size)
           M == Inserted(n, L, top)
           F == Listed(n, L)
           g == [h EXCEPT !.brk = @ + size]
           e == Tag(g, top, size, 0)
           f == PUT(e, top + size - 1, 1)
           k == insert_free_block(f, top)
<1>1. /\ h \in HeapRecord /\ Tiling(S, top) /\ TagsBut(h, S, F, {}) /\ List(n, L)
      /\ F \subseteq DOMAIN S /\ Apartness(S, F)
  BY DEF Described
<1>2. PREV_BLKP(h, top) = p /\ IsAlloc(h, p)
  BY DescribedBlocks
<1>3. extend_heap(h, size) = [heap |-> k, bp |-> top]
  <2>1. mem_sbrk(h, size) /\ PACK(0, 1) = 1 /\ HDRP(top + size) = top + size - 1
    <3>1. top \in Nat
      BY <1>1 DEF HeapRecord
    <3> QED BY <3>1 DEF mem_sbrk, PACK, HDRP
  <2>2. extend_heap(h, size) =
          [heap |-> insert_free_block(PUT(Tag(g, top, size, 0), HDRP(top + size), PACK(0, 1)), top),
           bp |-> top]
    BY <1>2, <2>1, Zenon DEF extend_heap
  <2> QED BY <2>1, <2>2, Zenon
<1>4. /\ Tiling(R, top + size) /\ top \notin DOMAIN S /\ top \in Nat /\ top # 2
      /\ DOMAIN R = DOMAIN S \cup {top} /\ R[top] = size /\ \A x \in DOMAIN S : R[x] = S[x]
      /\ g \in HeapRecord /\ g.mem = h.mem /\ g.brk = top + size
      /\ TagsBut(g, R, F, {top}) /\ Links(g, n, L)
  <2>1. IsExtension(R, S, top, size) /\ Opened(h, g, R, n, L, size)
    BY OpenHeap
  <2> HIDE DEF R, g, F
  <2> QED BY <2>1 DEF IsExtension, Opened, F
<1> HIDE DEF top, R, g, M
<1>5. /\ e \in HeapRecord /\ e.brk = g.brk /\ TagsBut(e, R, F \cup {top}, {})
      /\ \A x \in DOMAIN R : x # top => Kept(g, e, R, x)
  <2>1. TagsBut(g, R, F \cup {top}, {top})
    BY <1>4 DEF TagsBut
  <2>2. Tiling(R, g.brk) /\ top \in DOMAIN R /\ e = Tag(g, top, R[top], 0)
    BY <1>4
  <2> HIDE DEF e
  <2>3. Retagged(g, e, R, F \cup {top}, {top}, top)
    BY <1>4, <2>1, <2>2, TagAt
  <2>4. {top} \ {top} = {}
    OBVIOUS
  <2> QED BY <2>3, <2>4 DEF Retagged
<1>6. Links(e, n, L)
  <2>1. Tiling(R, g.brk) /\ top \in DOMAIN R /\ e = Tag(g, top, R[top], 0) /\ F \subseteq DOMAIN R
    BY <1>1, <1>4
  <2> HIDE DEF e
  <2> QED BY <1>1, <1>4, <2>1, TagKeepsList DEF F
<1> HIDE DEF e
<1>7. Ended(e, f, R, n, L)
  <2>1. Tiling(R, e.brk) /\ F \subseteq DOMAIN R /\ top + size - 1 = e.brk - 1
    BY <1>1, <1>4, <1>5
  <2> QED BY <1>1, <1>5, <1>6, <2>1, WriteEpilogue DEF F
<1> HIDE DEF f
<1>8. \A x \in F : R[x] = S[x] /\ x # top
  BY <1>1, <1>4
<1>9. Loose(f, R, n, L, top)
  <2>1. Apartness(R, F)
    BY <1>1, <1>8 DEF Apartness
  <2>2. top \in Used(R, n, L)
    BY <1>1, <1>4 DEF Used, F
  <2> QED BY <1>1, <1>4, <1>5, <1>7, <2>1, <2>2 DEF Loose, Ended, F
<1>10. top + R[top] \notin F
  <2>1. ASSUME top + R[top] \in F PROVE FALSE
    <3>1. top + size \in Nat /\ S[top + size] \in Nat /\ top + size + S[top + size] <= top
      BY <1>1, <1>4, <2>1, Tile
    <3> QED BY <1>4, <3>1
  <2> QED BY <2>1
<1>11. \A x \in F : x + R[x] # top
  BY <1>1, <1>8, OneBefore DEF F, top
<1>12. /\ Described(k, R, n + 1, M) /\ Listed(n + 1, M) = F \cup {top}
       /\ \A x \in Used(R, n, L) \ {top} : Kept(f, k, R, x)
  BY <1>9, <1>10, <1>11, InsertBlock DEF M, F
<1> HIDE DEF k
<1>13. Used(R, n + 1, M) = (Used(S, n, L) \ {}) \cup {}
  BY <1>1, <1>4, <1>12 DEF Used, F
<1>14. ASSUME NEW x \in Used(S, n, L) PROVE R[x] = S[x] /\ Kept(h, k, S, x)
  <2>1. x \in DOMAIN S /\ x \in DOMAIN R /\ x # top /\ R[x] = S[x] /\ x \in Used(R, n, L)
    BY <1>4 DEF Used
  <2>2. Kept(g, e, R, x) /\ Kept(e, f, R, x) /\ Kept(f, k, R, x)
    BY <1>5, <1>7, <1>12, <2>1 DEF Ended
  <2> QED BY <1>4, <2>1, <2>2 DEF Kept
<1>15. Leads(h, S, n, L, k, R, n + 1, M, {}, {})
  BY <1>12, <1>13, <1>14 DEF Leads
<1>16. [heap |-> k, bp |-> top].heap = k /\ [heap |-> k, bp |-> top].bp = top
  OBVIOUS
<1> QED BY <1>3, <1>4, <1>12, <1>15, <1>16 DEF Grown, R, M, top

LEMMA ExtendJoins ==
  ASSUME NEW h, NEW S, NEW n, NEW L, Described(h, S, n, L),
         NEW size \in Nat, size % 2 = 0, size >= 4, h.brk + size <= MAX_HEAP,
         NEW p \in DOMAIN S, p + S[p] = h.brk, p \in Listed(n, L)
  PROVE  Grown(h, S, n, L, extend_heap(h, size),
               Joined(Extended(S, h.brk, size), p), n, L, p, size)
<1> DEFINE top == h.brk
           R == Extended(S, top, size)
           Q == Joined(R, p)
           F == Listed(n, L)
           whole == S[p] + size
           g == [h EXCEPT !.brk = @ + size]
           e == Tag(g, p, whole, 0)
           f == PUT(e, p + whole - 1, 1)
<1>1. /\ h \in HeapRecord /\ Tiling(S, top) /\ TagsBut(h, S, F, {}) /\ List(n, L)
      /\ F \subseteq DOMAIN S /\ Apartness(S, F)
  BY DEF Described
<1>2. PREV_BLKP(h, top) = p /\ ~IsAlloc(h, p) /\ SizeOf(h, p) = S[p] /\ p # 2
  BY DescribedBlocks
<1>3. extend_heap(h, size) = [heap |-> f, bp |-> p]
  <2>1. mem_sbrk(h, size) /\ PACK(0, 1) = 1 /\ HDRP(p + whole) = p + whole - 1
    <3>1. p \in Nat /\ S[p] \in Nat
      BY <1>1, Tile
    <3> QED BY <3>1 DEF mem_sbrk, PACK, HDRP
  <2>2. extend_heap(h, size) =
          [heap |-> PUT(Tag(g, p, SizeOf(h, p) + size, 0), HDRP(p + (SizeOf(h, p) + size)), PACK(0, 1)),
           bp |-> p]
    BY <1>2, <2>1, Zenon DEF extend_heap
  <2>3. whole = SizeOf(h, p) + size
    BY <1>2
  <2> QED BY <2>1, <2>2, <2>3, Zenon
<1>4. /\ Tiling(R, top + size) /\ top \notin DOMAIN S /\ top \in Nat
      /\ DOMAIN R = DOMAIN S \cup {top} /\ R[top] = size /\ \A x \in DOMAIN S : R[x] = S[x]
      /\ g \in HeapRecord /\ g.mem = h.mem /\ g.brk = top + size
      /\ TagsBut(g, R, F, {top}) /\ Links(g, n, L)
  <2>1. IsExtension(R, S, top, size) /\ Opened(h, g, R, n, L, size)
    BY OpenHeap
  <2> HIDE DEF R, g, F
  <2> QED BY <2>1 DEF IsExtension, Opened, F
<1>5. p + R[p] = top /\ p \in DOMAIN R /\ R[p] = S[p] /\ p \in Nat /\ S[p] \in Nat /\ S[p] >= 4
      /\ whole \in Nat /\ p + whole = top + R[top]
  <2>1. p \in Nat /\ S[p] \in Nat /\ S[p] >= 4
    BY <1>1, <1>2, Tile
  <2> QED BY <1>4, <2>1
<1>6. /\ Tiling(Q, top + size) /\ DOMAIN Q = DOMAIN S /\ Q[p] = whole
      /\ \A x \in DOMAIN S : x # p => Q[x] = S[x]
  <2> HIDE DEF R, Q, top
  <2>1. p + R[p] \in DOMAIN R
    BY <1>4, <1>5
  <2>2. IsJoin(Q, R, top + size, p)
    BY <1>2, <1>4, <1>5, <2>1, JoinTiling DEF Q
  <2> QED BY <1>4, <1>5, <2>2 DEF IsJoin
<1> HIDE DEF top, R, Q, g
<1>7. Links(e, n, L)
  <2>1. Tiling(R, g.brk) /\ top \in DOMAIN R /\ F \subseteq DOMAIN R
    BY <1>1, <1>4
  <2> HIDE DEF whole
  <2> QED BY <1>1, <1>4, <1>5, <2>1, WideTagKeepsList DEF F
<1> HIDE DEF whole
<1>8. /\ e \in HeapRecord /\ e.brk = g.brk /\ TagsBut(e, Q, F, {})
      /\ \A x \in DOMAIN Q : x # p => Kept(g, e, Q, x)
  <2>1. TagsBut(g, Q, F, {p})
    <3>1. TagsBut(g, S, F, {})
      BY <1>1, <1>4 DEF TagsBut
    <3> QED BY <1>6, <3>1, TagsCarryOver
  <2>2. Tiling(Q, g.brk) /\ p \in DOMAIN Q /\ e = Tag(g, p, Q[p], 0)
    BY <1>4, <1>6
  <2> HIDE DEF e
  <2>3. Retagged(g, e, Q, F, {p}, p)
    BY <1>4, <2>1, <2>2, TagAt DEF F
  <2>4. {p} \ {p} = {}
    OBVIOUS
  <2> QED BY <2>3, <2>4 DEF Retagged
<1> HIDE DEF e
<1>9. Ended(e, f, Q, n, L)
  <2>1. Tiling(Q, e.brk) /\ F \subseteq DOMAIN Q /\ p + whole - 1 = e.brk - 1
    BY <1>1, <1>4, <1>5, <1>6, <1>8
  <2> QED BY <1>1, <1>7, <1>8, <2>1, WriteEpilogue DEF F
<1> HIDE DEF f
<1>10. Apartness(Q, F)
  <2>1. p + Q[p] \notin F
    <3>1. ASSUME p + Q[p] \in F PROVE FALSE
      <4>1. top + size \in DOMAIN S
        BY <1>1, <1>4, <1>5, <1>6, <3>1
      <4>2. S[top + size] \in Nat /\ top + size + S[top + size] <= top
        BY <1>1, <4>1, Tile
      <4> QED BY <1>4, <4>2
    <3> QED BY <3>1
  <2> QED BY <1>1, <1>6, <2>1 DEF Apartness
<1>11. Described(f, Q, n, L)
  BY <1>1, <1>4, <1>6, <1>8, <1>9, <1>10 DEF Described, Ended, F
<1>12. Used(Q, n, L) = (Used(S, n, L) \ {}) \cup {}
  BY <1>6 DEF Used
<1>13. ASSUME NEW x \in Used(S, n, L) PROVE Q[x] = S[x] /\ Kept(h, f, S, x)
  <2>1. x \in DOMAIN Q /\ x # p /\ Q[x] = S[x]
    BY <1>6 DEF Used
  <2>2. Kept(g, e, Q, x) /\ Kept(e, f, Q, x)
    BY <1>8, <1>9, <2>1 DEF Ended
  <2> QED BY <1>4, <2>1, <2>2 DEF Kept
<1>14. Leads(h, S, n, L, f, Q, n, L, {}, {})
  BY <1>11, <1>12, <1>13 DEF Leads
<1>15. Q[p] >= size
  BY <1>5, <1>6 DEF whole
<1>16. [heap |-> f, bp |-> p].heap = f /\ [heap |-> f, bp |-> p].bp = p
  OBVIOUS
<1> QED BY <1>3, <1>14, <1>15, <1>16 DEF Grown, R, Q, top

LEMMA Extends ==
  ASSUME NEW S, NEW n, NEW L, NEW size \in Nat, size % 2 = 0, size >= 4
  PROVE  \E R, m, M, bp : \A h : Described(h, S, n, L) /\ h.brk + size <= MAX_HEAP =>
           Grown(h, S, n, L, extend_heap(h, size), R, m, M, bp, size)
<1>1. CASE ~ \E h : Described(h, S, n, L)
  BY <1>1
<1>2. CASE \E h : Described(h, S, n, L)
  <2>1. PICK k : Described(k, S, n, L)
    BY <1>2
  <2>2. \A h : Described(h, S, n, L) => h.brk = k.brk
    BY <2>1, SameBreak DEF Described
  <2>3. PICK p \in DOMAIN S : p + S[p] = k.brk
    <3>1. Tiling(S, k.brk) /\ k.brk # 2
      BY <2>1 DEF Described, Tiling, heap_listp, DSIZE
    <3> QED BY <3>1 DEF Tiling, heap_listp, DSIZE
  <2>4. CASE p \in Listed(n, L)
    <3>1. ASSUME NEW h, Described(h, S, n, L), h.brk + size <= MAX_HEAP
          PROVE  Grown(h, S, n, L, extend_heap(h, size),
                       Joined(Extended(S, k.brk, size), p), n, L, p, size)
      <4>1. h.brk = k.brk /\ p + S[p] = h.brk
        BY <2>2, <2>3, <3>1
      <4>2. Grown(h, S, n, L, extend_heap(h, size),
                  Joined(Extended(S, h.brk, size), p), n, L, p, size)
        BY <2>4, <3>1, <4>1, ExtendJoins
      <4> QED BY <4>1, <4>2
    <3> QED BY <3>1
  <2>5. CASE p \notin Listed(n, L)
    <3>1. ASSUME NEW h, Described(h, S, n, L), h.brk + size <= MAX_HEAP
          PROVE  Grown(h, S, n, L, extend_heap(h, size),
                       Extended(S, k.brk, size), n + 1, Inserted(n, L, k.brk), k.brk, size)
      <4>1. h.brk = k.brk /\ p + S[p] = h.brk
        BY <2>2, <2>3, <3>1
      <4>2. Grown(h, S, n, L, extend_heap(h, size),
                  Extended(S, h.brk, size), n + 1, Inserted(n, L, h.brk), h.brk, size)
        BY <2>5, <3>1, <4>1, ExtendInserts
      <4> QED BY <4>1, <4>2
    <3> QED BY <3>1
  <2> QED BY <2>4, <2>5
<1> QED BY <1>1, <1>2

LEMMA ExtendFails ==
  ASSUME NEW h, NEW size, ~(h.brk + size <= MAX_HEAP)
  PROVE  extend_heap(h, size) = [heap |-> h, bp |-> NULL]
BY DEF extend_heap, mem_sbrk

\* A heap as mm_init leaves it, if it does not run out of memory
Started(r) ==
  /\ r.heap \in HeapRecord
  /\ r.ok => \E S, n, L : Described(r.heap, S, n, L) /\ Used(S, n, L) = {heap_listp}

LEMMA Prologued ==
  ASSUME NEW mem \in [Addr -> Nat], 4 <= MAX_HEAP
  PROVE  LET empty == [mem |-> mem, brk |-> 4, hd_free |-> NULL, ft_free |-> NULL]
             h == PUT(PUT(PUT(PUT(empty, 0, 0), 1, 3), 2, 3), 3, 1)
             S == [x \in {2} |-> 2]
         IN  Described(h, S, 0, <<>>) /\ Used(S, 0, <<>>) = {2} /\ h.brk = 4
<1> DEFINE empty == [mem |-> mem, brk |-> 4, hd_free |-> NULL, ft_free |-> NULL]
           a == PUT(empty, 0, 0)
           b == PUT(a, 1, 3)
           c == PUT(b, 2, 3)
           h == PUT(c, 3, 1)
           S == [x \in {2} |-> 2]
<1>1. MAX_HEAP \in Nat /\ 0 \in Addr /\ 1 \in Addr /\ 2 \in Addr /\ 3 \in Addr
  BY HeapAssumption DEF Addr
<1>2. empty \in HeapRecord
  BY <1>1 DEF HeapRecord
<1>3. Wrote(empty, a, 0, 0)
  BY <1>1, <1>2, PutWord
<1>4. empty.brk = 4 /\ empty.hd_free = NULL /\ empty.ft_free = NULL
  OBVIOUS
<1> HIDE DEF empty, a
<1>5. Wrote(a, b, 1, 3)
  BY <1>1, <1>3, PutWord DEF Wrote
<1> HIDE DEF b
<1>6. Wrote(b, c, 2, 3)
  BY <1>1, <1>5, PutWord DEF Wrote
<1> HIDE DEF c
<1>7. Wrote(c, h, 3, 1)
  BY <1>1, <1>6, PutWord DEF Wrote
<1> HIDE DEF h
<1>8. /\ h \in HeapRecord /\ h.brk = 4 /\ h.hd_free = NULL /\ h.ft_free = NULL
      /\ h.mem[1] = 3 /\ h.mem[2] = 3 /\ h.mem[3] = 1
  BY <1>1, <1>3, <1>4, <1>5, <1>6, <1>7 DEF Wrote
<1>9. DOMAIN S = {2} /\ S[2] = 2 /\ S \in [DOMAIN S -> Nat]
  OBVIOUS
<1> HIDE DEF S
<1>10. Tiling(S, 4)
  BY <1>9 DEF Tiling, heap_listp, DSIZE, MINBLOCK
<1>11. Listed(0, <<>>) = {} /\ List(0, <<>>)
  BY DEF Listed, List
<1>12. TagsBut(h, S, {}, {})
  BY <1>8, <1>9 DEF TagsBut
<1>13. Links(h, 0, <<>>) /\ Epilogue(h)
  BY <1>8 DEF Links, Epilogue
<1>14. Described(h, S, 0, <<>>)
  BY <1>8, <1>10, <1>11, <1>12, <1>13 DEF Described, Apartness
<1>15. Used(S, 0, <<>>) = {2}
  BY <1>9, <1>11 DEF Used
<1> QED BY <1>8, <1>14, <1>15 DEF empty, a, b, c, h, S

LEMMA Starts ==
  ASSUME NEW mem \in [Addr -> Nat]
  PROVE  Started(mm_init(mem))
<1> DEFINE empty == [mem |-> mem, brk |-> 4, hd_free |-> NULL, ft_free |-> NULL]
           h == PUT(PUT(PUT(PUT(empty, 0, 0), 1, 3), 2, 3), 3, 1)
           r == extend_heap(h, CHUNKSIZE)
           S == [x \in {2} |-> 2]
<1>1. mm_init(mem) = IF 4 > MAX_HEAP THEN [heap |-> [empty EXCEPT !.brk = 0], ok |-> FALSE]
                     ELSE [heap |-> r.heap, ok |-> r.bp # NULL]
  BY DEF mm_init, PACK, DSIZE
<1>2. CASE 4 > MAX_HEAP
  <2>1. [empty EXCEPT !.brk = 0] \in HeapRecord
    BY HeapAssumption DEF HeapRecord
  <2> QED BY <1>1, <1>2, <2>1 DEF Started
<1>3. CASE ~(4 > MAX_HEAP)
  <2>1. mm_init(mem) = [heap |-> r.heap, ok |-> r.bp # NULL]
    BY <1>1, <1>3
  <2>2. Described(h, S, 0, <<>>) /\ Used(S, 0, <<>>) = {2}
    BY <1>3, Prologued, HeapAssumption
  <2> HIDE DEF h, S
  <2>3. CASE h.brk + CHUNKSIZE <= MAX_HEAP
    <3>1. PICK R, m, M, bp : Grown(h, S, 0, <<>>, r, R, m, M, bp, CHUNKSIZE)
      BY <2>2, <2>3, Extends, HeapAssumption
    <3> HIDE DEF r
    <3>2. Described(r.heap, R, m, M) /\ Used(R, m, M) = {2} /\ r.heap \in HeapRecord
      BY <2>2, <3>1 DEF Grown, Leads, Described
    <3> QED BY <2>1, <3>2 DEF Started, heap_listp, DSIZE
  <2>4. CASE ~(h.brk + CHUNKSIZE <= MAX_HEAP)
    <3>1. r = [heap |-> h, bp |-> NULL]
      BY <2>4, ExtendFails
    <3> HIDE DEF r
    <3>2. mm_init(mem).heap = h /\ ~mm_init(mem).ok
      <4>1. r.heap = h /\ ~(r.bp # NULL)
        BY <3>1
      <4>2. mm_init(mem).heap = r.heap
        BY <2>1
      <4>3. mm_init(mem).ok = (r.bp # NULL)
        BY <2>1
      <4> QED BY <4>1, <4>2, <4>3
    <3>3. h \in HeapRecord
      BY <2>2 DEF Described
    <3> QED BY <3>2, <3>3 DEF Started
  <2> QED BY <2>3, <2>4
<1> QED BY <1>2, <1>3

-----------------------------------------------------------------------------
(* mm_malloc                                                               *)

LEMMA Aligns ==
  ASSUME NEW size \in Nat \ {0}
  PROVE  LET asize == AlignedSize(size)
         IN  asize \in Nat /\ asize % 2 = 0 /\ asize >= 4 /\ asize >= size + 2
<1>1. AlignedSize(size) = 2 * ((size + 3) \div 2)
  BY DEF AlignedSize, DSIZE
<1> DEFINE q == (size + 3) \div 2
<1>2. q \in Nat /\ 2 * q >= size + 2 /\ 2 * q >= 4
  OBVIOUS
<1> HIDE DEF q
<1>3. (2 * q) % 2 = 0
  BY <1>2
<1> QED BY <1>1, <1>2, <1>3 DEF q

\* What mm_malloc does first in every heap that is described this way: it finds no block and
\* no memory, or a block for size words.
LEMMA Mallocs ==
  ASSUME NEW S, NEW n, NEW L, NEW size \in Nat \ {0}
  PROVE  \/ \A h : Described(h, S, n, L) => mm_malloc(h, size) = [heap |-> h, bp |-> NULL]
         \/ \E R, m, M, bp : \A h : Described(h, S, n, L) =>
              HandsOut(h, S, n, L, mm_malloc(h, size), R, m, M, bp, size + 2)
<1> DEFINE want == IF size \in DOMAIN Padded THEN Padded[size] ELSE size
           asize == AlignedSize(want)
           more == IF asize > CHUNKSIZE THEN asize ELSE CHUNKSIZE
           fits == Fitting(S, n, L, asize)
<1>1. want \in Nat \ {0} /\ want >= size
  BY HeapAssumption
<1> HIDE DEF want
<1>2. asize \in Nat /\ asize % 2 = 0 /\ asize >= 4 /\ asize >= size + 2
  <2>1. asize \in Nat /\ asize % 2 = 0 /\ asize >= 4 /\ asize >= want + 2
    BY <1>1, Aligns
  <2> HIDE DEF asize
  <2> QED BY <1>1, <2>1
<1> HIDE DEF asize
<1>3. more \in Nat /\ more % 2 = 0 /\ more >= 4 /\ more >= asize
  BY <1>2, HeapAssumption
<1> HIDE DEF more
<1>4. ASSUME NEW h
      PROVE  LET bp == find_fit(h, asize)
                 r == extend_heap(h, more)
             IN  mm_malloc(h, size) =
                   IF bp # NULL THEN place(h, bp, asize)
                   ELSE IF r.bp # NULL THEN place(r.heap, r.bp, asize)
                   ELSE [heap |-> h, bp |-> NULL]
  BY DEF mm_malloc, want, asize, more
<1>5. CASE ~ \E h : Described(h, S, n, L)
  BY <1>5
<1>6. CASE (\E h : Described(h, S, n, L)) /\ fits # {}
  <2> DEFINE j == Min(fits) + 1
  <2>1. /\ j \in 1 .. n /\ asize <= S[L[j]] /\ L[j] # NULL
        /\ \A h : Described(h, S, n, L) => find_fit(h, asize) = L[j]
    <3>1. /\ j \in 1 .. n /\ asize <= S[L[j]]
          /\ \A h : Described(h, S, n, L) => find_fit(h, asize) = L[j]
      BY <1>6, FindsFit
    <3>2. L[j] \in LinkPlace
      BY <1>6, <3>1 DEF Described, List
    <3> QED BY <3>1, <3>2 DEF LinkPlace, NULL
  <2> HIDE DEF j, fits
  <2>2. PICK R, m, M, bp : \A h : Described(h, S, n, L) =>
               HandsOut(h, S, n, L, place(h, L[j], asize), R, m, M, bp, asize)
    BY <1>2, <2>1, Places
  <2>3. ASSUME NEW h, Described(h, S, n, L)
        PROVE  HandsOut(h, S, n, L, mm_malloc(h, size), R, m, M, bp, size + 2)
    <3>1. mm_malloc(h, size) = place(h, L[j], asize)
      BY <1>4, <2>1, <2>3
    <3>2. HandsOut(h, S, n, L, place(h, L[j], asize), R, m, M, bp, asize)
      BY <2>2, <2>3
    <3>3. R[bp] \in Nat
      BY <3>2, Tile DEF HandsOut, Leads, Described, Used
    <3> QED BY <1>2, <3>1, <3>2, <3>3 DEF HandsOut
  <2> QED BY <2>3
<1>7. CASE (\E h : Described(h, S, n, L)) /\ fits = {}
  <2>1. PICK k : Described(k, S, n, L)
    BY <1>7
  <2>2. \A h : Described(h, S, n, L) => h.brk = k.brk /\ find_fit(h, asize) = NULL
    BY <1>7, <2>1, SameBreak, FindsFit DEF Described
  <2>3. CASE ~(k.brk + more <= MAX_HEAP)
    <3>1. ASSUME NEW h, Described(h, S, n, L)
          PROVE  mm_malloc(h, size) = [heap |-> h, bp |-> NULL]
      <4>1. extend_heap(h, more) = [heap |-> h, bp |-> NULL]
        BY <2>2, <2>3, <3>1, ExtendFails
      <4> QED BY <1>4, <2>2, <3>1, <4>1
    <3> QED BY <3>1
  <2>4. CASE k.brk + more <= MAX_HEAP
    <3>1. PICK R, m, M, bp : \A h : Described(h, S, n, L) /\ h.brk + more <= MAX_HEAP =>
                 Grown(h, S, n, L, extend_heap(h, more), R, m, M, bp, more)
      BY <1>3, Extends
    <3>2. \A h : Described(h, S, n, L) => Grown(h, S, n, L, extend_heap(h, more), R, m, M, bp, more)
      BY <2>2, <2>4, <3>1
    <3>3. bp \in Listed(m, M) /\ bp # NULL /\ asize <= R[bp]
      <4>1. Grown(k, S, n, L, extend_heap(k, more), R, m, M, bp, more)
        BY <2>1, <3>2
      <4>2. Described(extend_heap(k, more).heap, R, m, M) /\ bp \in Listed(m, M) /\ R[bp] >= more
        BY <4>1 DEF Grown, Leads
      <4>3. bp \in DOMAIN R /\ R[bp] \in Nat /\ bp \in Nat
        BY <4>2, Tile, DescribedBlocks DEF Described
      <4> QED BY <1>2, <1>3, <4>2, <4>3 DEF NULL
    <3>4. PICK j \in 1 .. m : bp = M[j]
      BY <3>3 DEF Listed
    <3>5. PICK Q, o, O, new : \A g : Described(g, R, m, M) =>
                 HandsOut(g, R, m, M, place(g, M[j], asize), Q, o, O, new, asize)
      BY <1>2, <3>3, <3>4, Places
    <3>6. ASSUME NEW h, Described(h, S, n, L)
          PROVE  HandsOut(h, S, n, L, mm_malloc(h, size), Q, o, O, new, size + 2)
      <4> DEFINE r == extend_heap(h, more)
                 p == place(r.heap, bp, asize)
      <4>1. Leads(h, S, n, L, r.heap, R, m, M, {}, {}) /\ r.bp = bp
        BY <3>2, <3>6 DEF Grown
      <4>2. mm_malloc(h, size) = p
        BY <1>4, <2>2, <3>3, <3>6, <4>1
      <4> HIDE DEF r
      <4>3. HandsOut(r.heap, R, m, M, p, Q, o, O, new, asize)
        BY <3>4, <3>5, <4>1 DEF Leads
      <4> HIDE DEF p
      <4>4. Leads(h, S, n, L, p.heap, Q, o, O, {} \cup {}, ({} \ {}) \cup {new})
        BY <4>1, <4>3, LeadsOn DEF HandsOut
      <4>5. {} \cup {} = {} /\ ({} \ {}) \cup {new} = {new}
        OBVIOUS
      <4>6. new \notin Used(S, n, L)
        BY <4>1, <4>3 DEF HandsOut, Leads
      <4>7. Q[new] \in Nat
        BY <4>3, Tile DEF HandsOut, Leads, Described, Used
      <4> QED BY <1>2, <4>2, <4>3, <4>4, <4>5, <4>6, <4>7 DEF HandsOut
    <3> QED BY <3>6
  <2> QED BY <2>3, <2>4
<1> QED BY <1>5, <1>6, <1>7

-----------------------------------------------------------------------------
(* mm_realloc: making a block smaller                                      *)

\* Block ptr has become block bp, with room for size words and what fits of its payload.
Resized(h, S, n, L, g, R, m, M, ptr, bp, size) ==
  /\ Leads(h, S, n, L, g, R, m, M, {ptr}, {bp})
  /\ R[bp] >= size
  /\ \A i \in Nat : i < S[ptr] - 2 /\ i < R[bp] - 2 => g.mem[bp + i] = h.mem[ptr + i]

\* What a client's block and the block behind it look like.
LEMMA Neighbour ==
  ASSUME NEW h, NEW S, NEW n, NEW L, Described(h, S, n, L), NEW ptr \in Used(S, n, L), ptr # 2
  PROVE  LET F == Listed(n, L)
             next == ptr + S[ptr]
         IN  /\ h \in HeapRecord /\ Tiling(S, h.brk) /\ TagsBut(h, S, F, {}) /\ List(n, L)
             /\ Links(h, n, L) /\ F \subseteq DOMAIN S /\ Epilogue(h) /\ Apartness(S, F)
             /\ ptr \in DOMAIN S /\ ptr \notin F /\ 2 \notin F
             /\ SizeOf(h, ptr) = S[ptr] /\ NEXT_BLKP(h, ptr) = next
             /\ ptr \in Nat /\ S[ptr] \in Nat /\ S[ptr] % 2 = 0 /\ S[ptr] >= 4
             /\ IsAlloc(h, next) <=> next \notin F
             /\ next \in F => next \in DOMAIN S /\ SizeOf(h, next) = S[next] /\ S[next] \in Nat
                              /\ S[next] % 2 = 0 /\ S[next] >= 4 /\ next # ptr
                              /\ next + S[next] \notin F
<1> DEFINE F == Listed(n, L)
           next == ptr + S[ptr]
<1>1. /\ h \in HeapRecord /\ Tiling(S, h.brk) /\ TagsBut(h, S, F, {}) /\ List(n, L)
      /\ Links(h, n, L) /\ F \subseteq DOMAIN S /\ Epilogue(h) /\ Apartness(S, F)
      /\ ptr \in DOMAIN S /\ ptr \notin F /\ 2 \notin F
      /\ SizeOf(h, ptr) = S[ptr] /\ NEXT_BLKP(h, ptr) = next
  BY DescribedBlocks DEF Described, Used
<1>2. /\ ptr \in Nat /\ S[ptr] \in Nat /\ S[ptr] % 2 = 0 /\ S[ptr] >= 4
      /\ next \in DOMAIN S \cup {h.brk}
  BY <1>1, Tile
<1>3. h.brk \notin DOMAIN S
  <2>1. ASSUME h.brk \in DOMAIN S PROVE FALSE
    <3>1. h.brk \in Nat /\ S[h.brk] \in Nat /\ S[h.brk] >= 2 /\ h.brk + S[h.brk] <= h.brk
      BY <1>1, <2>1, Tile
    <3> QED BY <3>1
  <2> QED BY <2>1
<1>4. next # ptr
  BY <1>2
<1> HIDE DEF next
<1>5. IsAlloc(h, next) <=> next \notin F
  <2>1. CASE next = h.brk
    BY <1>1, <1>3, <2>1, EndOfHeap
  <2>2. CASE next \in DOMAIN S
    BY <2>2, DescribedBlocks
  <2> QED BY <1>2, <2>1, <2>2
<1>6. ASSUME next \in F
      PROVE  next \in DOMAIN S /\ SizeOf(h, next) = S[next] /\ S[next] \in Nat
             /\ S[next] % 2 = 0 /\ S[next] >= 4 /\ next + S[next] \notin F
  <2>1. next \in DOMAIN S /\ next # 2
    BY <1>1, <1>6
  <2>2. S[next] \in Nat /\ S[next] % 2 = 0 /\ S[next] >= 4
    BY <1>1, <2>1, Tile
  <2> QED BY <1>1, <1>6, <2>1, <2>2, DescribedBlocks DEF Apartness
<1> QED BY <1>1, <1>2, <1>4, <1>5, <1>6 DEF next

LEMMA ShrinkStays ==
  ASSUME NEW h, NEW S, NEW n, NEW L, Described(h, S, n, L), NEW ptr \in Used(S, n, L), ptr # 2,
         NEW asize \in Nat, asize <= S[ptr], S[ptr] - asize < 4
  PROVE  Resized(h, S, n, L, shrink(h, ptr, asize), S, n, L, ptr, ptr, asize)
<1>1. S[ptr] \in Nat /\ SizeOf(h, ptr) = S[ptr]
  BY Neighbour
<1>2. shrink(h, ptr, asize) = h
  BY <1>1 DEF shrink, MINBLOCK, DSIZE
<1>3. Leads(h, S, n, L, h, S, n, L, {ptr}, {ptr})
  BY DEF Leads, Kept
<1> QED BY <1>1, <1>2, <1>3 DEF Resized

\* The block is cut; the rest has its tags but is not in the list yet.
LEMMA ShrinkCuts ==
  ASSUME NEW h, NEW S, NEW n, NEW L, Described(h, S, n, L), NEW ptr \in Used(S, n, L), ptr # 2,
         NEW asize \in Nat, asize % 2 = 0, asize >= 4, S[ptr] - asize >= 4,
         ptr + S[ptr] \notin Listed(n, L)
  PROVE  Resized(h, S, n, L, shrink(h, ptr, asize),
                 Cut(S, ptr, asize), n + 1, Inserted(n, L, ptr + asize), ptr, ptr, asize)
<1> DEFINE F == Listed(n, L)
           new == ptr + asize
           rest == S[ptr] - asize
           R == Cut(S, ptr, asize)
           M == Inserted(n, L, new)
           G == F \cup {new}
           e == Tag(h, ptr, asize, 1)
           f == Tag(e, new, rest, 0)
           g == insert_free_block(f, new)
<1>1. /\ h \in HeapRecord /\ Tiling(S, h.brk) /\ TagsBut(h, S, F, {}) /\ List(n, L)
      /\ Links(h, n, L) /\ F \subseteq DOMAIN S /\ Epilogue(h) /\ Apartness(S, F)
      /\ ptr \in DOMAIN S /\ ptr \notin F /\ 2 \notin F
      /\ SizeOf(h, ptr) = S[ptr] /\ NEXT_BLKP(h, ptr) = ptr + S[ptr] /\ IsAlloc(h, ptr + S[ptr])
      /\ ptr \in Nat /\ S[ptr] \in Nat /\ S[ptr] >= 4
  BY Neighbour
<1>2. shrink(h, ptr, asize) = g
  <2>1. ~(S[ptr] - asize < MINBLOCK)
    BY <1>1 DEF MINBLOCK, DSIZE
  <2> QED BY <1>1, <2>1 DEF shrink
<1>3. /\ Tiling(R, h.brk) /\ new \notin DOMAIN S /\ DOMAIN R = DOMAIN S \cup {new}
      /\ R[ptr] = asize /\ R[new] = rest /\ \A x \in DOMAIN S : x # ptr => R[x] = S[x]
  <2>1. IsCut(R, S, h.brk, ptr, asize)
    BY <1>1, CutTiling
  <2> HIDE DEF R
  <2> QED BY <2>1 DEF IsCut
<1>4. new # ptr /\ new # 2 /\ new + R[new] = ptr + S[ptr] /\ new + R[new] # new /\ ptr + R[ptr] = new
  BY <1>1, <1>3
<1> HIDE DEF R, M, F, new, rest
<1>5. TagsBut(h, R, G, {ptr, new})
  BY <1>1, <1>3, TagsCarryOver
<1>6. /\ e \in HeapRecord /\ e.brk = h.brk /\ Epilogue(e) /\ TagsBut(e, R, G, {new})
      /\ \A x \in DOMAIN R : x # ptr => Kept(h, e, R, x)
      /\ \A a \in ptr .. (ptr + R[ptr] - 3) : e.mem[a] = h.mem[a]
      /\ Links(e, n, L)
  <2>1. e = Tag(h, ptr, R[ptr], 1) /\ ptr \in DOMAIN R /\ ptr \notin G /\ F \subseteq DOMAIN R
    BY <1>1, <1>3, <1>4
  <2> HIDE DEF e, G
  <2>2. Retagged(h, e, R, G, {ptr, new}, ptr)
    BY <1>1, <1>3, <1>5, <2>1, TagAt
  <2>3. Links(e, n, L)
    BY <1>1, <1>3, <2>1, TagKeepsList DEF F
  <2>4. {ptr, new} \ {ptr} = {new}
    BY <1>4
  <2> QED BY <1>1, <2>2, <2>3, <2>4 DEF Retagged
<1> HIDE DEF e
<1>7. /\ f \in HeapRecord /\ f.brk = h.brk /\ Epilogue(f) /\ TagsBut(f, R, G, {})
      /\ \A x \in DOMAIN R : x # new => Kept(e, f, R, x)
      /\ Links(f, n, L)
  <2>1. f = Tag(e, new, R[new], 0) /\ new \in DOMAIN R /\ new \in G /\ F \subseteq DOMAIN R
        /\ Tiling(R, e.brk)
    BY <1>1, <1>3, <1>6
  <2> HIDE DEF f, G
  <2>2. Retagged(e, f, R, G, {new}, new)
    BY <1>6, <2>1, TagAt
  <2>3. Links(f, n, L)
    BY <1>1, <1>6, <2>1, TagKeepsList DEF F
  <2>4. {new} \ {new} = {}
    OBVIOUS
  <2> QED BY <1>6, <2>2, <2>3, <2>4 DEF Retagged
<1> HIDE DEF f
<1>8. \A x \in F : x # ptr /\ x # new /\ R[x] = S[x]
  BY <1>1, <1>3
<1>9. Loose(f, R, n, L, new)
  <2>1. Apartness(R, F)
    BY <1>1, <1>8 DEF Apartness
  <2>2. new \in Used(R, n, L)
    BY <1>1, <1>3 DEF Used, F
  <2> QED BY <1>1, <1>3, <1>4, <1>7, <2>1, <2>2 DEF Loose, F
<1>10. new + R[new] \notin F
  BY <1>4 DEF F
<1>11. \A x \in F : x + R[x] # new
  <2>1. ASSUME NEW x \in F, x + R[x] = new PROVE FALSE
    <3>1. x \in DOMAIN R /\ ptr \in DOMAIN R /\ x + R[x] = ptr + R[ptr]
      BY <1>1, <1>3, <1>4, <2>1
    <3>2. x = ptr
      BY <1>3, <3>1, OneBefore
    <3> QED BY <1>8, <3>2
  <2> QED BY <2>1
<1>12. /\ Described(g, R, n + 1, M) /\ Listed(n + 1, M) = F \cup {new}
       /\ \A x \in Used(R, n, L) \ {new} : Kept(f, g, R, x)
  BY <1>9, <1>10, <1>11, InsertBlock DEF M, F
<1> HIDE DEF g
<1>13. Used(R, n + 1, M) = (Used(S, n, L) \ {ptr}) \cup {ptr}
  BY <1>1, <1>3, <1>12 DEF Used, F
<1>14. ASSUME NEW x \in Used(S, n, L) \ {ptr} PROVE R[x] = S[x] /\ Kept(h, g, S, x)
  <2>1. x \in DOMAIN R /\ x # ptr /\ x # new /\ R[x] = S[x] /\ x \in Used(R, n, L)
    BY <1>3 DEF Used
  <2> QED BY <1>6, <1>7, <1>12, <2>1 DEF Kept
<1>15. Leads(h, S, n, L, g, R, n + 1, M, {ptr}, {ptr})
  BY <1>12, <1>13, <1>14 DEF Leads
<1>16. ASSUME NEW i \in Nat, i < R[ptr] - 2 PROVE g.mem[ptr + i] = h.mem[ptr + i]
  <2>1. ptr + i \in ptr .. (ptr + R[ptr] - 3) /\ ptr + i \in (ptr - 1) .. (ptr + R[ptr] - 2)
    BY <1>1, <1>3, <1>16
  <2>2. Kept(e, f, R, ptr) /\ Kept(f, g, R, ptr)
    BY <1>1, <1>3, <1>4, <1>7, <1>12 DEF Used, F
  <2> QED BY <1>6, <2>1, <2>2 DEF Kept
<1> QED BY <1>2, <1>3, <1>15, <1>16 DEF Resized, R, M, new

\* The rest and the free block behind it become one free block.
LEMMA ShrinkJoins ==
  ASSUME NEW h, NEW S, NEW n, NEW L, Described(h, S, n, L), NEW ptr \in Used(S, n, L), ptr # 2,
         NEW asize \in Nat, asize % 2 = 0, asize >= 4, S[ptr] - asize >= 4,
         NEW j \in 1 .. n, L[j] = ptr + S[ptr]
  PROVE  Resized(h, S, n, L, shrink(h, ptr, asize),
                 Joined(Cut(S, ptr, asize), ptr + asize), n, Replaced(L, j, ptr + asize),
                 ptr, ptr, asize)
<1> DEFINE F == Listed(n, L)
           next == ptr + S[ptr]
           new == ptr + asize
           rest == S[ptr] - asize
           size == rest + S[next]
           R == Cut(S, ptr, asize)
           Q == Joined(R, new)
           M == Replaced(L, j, new)
           G == (F \ {next}) \cup {new}
           e == Tag(h, ptr, asize, 1)
           f == Tag(e, new, size, 0)
           g == replace_free_block(f, next, new)
<1>1. next \in F
  BY DEF Listed
<1>2. /\ h \in HeapRecord /\ Tiling(S, h.brk) /\ TagsBut(h, S, F, {}) /\ List(n, L)
      /\ Links(h, n, L) /\ F \subseteq DOMAIN S /\ Epilogue(h) /\ Apartness(S, F)
      /\ ptr \in DOMAIN S /\ ptr \notin F /\ 2 \notin F
      /\ SizeOf(h, ptr) = S[ptr] /\ NEXT_BLKP(h, ptr) = next /\ ~IsAlloc(h, next)
      /\ ptr \in Nat /\ S[ptr] \in Nat /\ S[ptr] >= 4
      /\ next \in DOMAIN S /\ SizeOf(h, next) = S[next] /\ S[next] \in Nat
      /\ next # ptr /\ next + S[next] \notin F
  BY <1>1, Neighbour
<1>3. shrink(h, ptr, asize) = g
  <2>1. ~(S[ptr] - asize < MINBLOCK)
    BY <1>2 DEF MINBLOCK, DSIZE
  <2> QED BY <1>2, <2>1 DEF shrink
<1>4. /\ Tiling(R, h.brk) /\ new \notin DOMAIN S /\ DOMAIN R = DOMAIN S \cup {new}
      /\ R[ptr] = asize /\ R[new] = rest /\ \A x \in DOMAIN S : x # ptr => R[x] = S[x]
  <2>1. IsCut(R, S, h.brk, ptr, asize)
    BY <1>2, CutTiling
  <2> HIDE DEF R
  <2> QED BY <2>1 DEF IsCut
<1>5. /\ new # ptr /\ new # 2 /\ new # next /\ new + R[new] = next /\ ptr + R[ptr] = new
      /\ new \in Nat /\ size \in Nat /\ new + size = next + R[next] /\ R[next] = S[next]
  <2>1. R[next] = S[next]
    BY <1>2, <1>4
  <2> QED BY <1>2, <1>4, <2>1
<1> HIDE DEF R
<1>6. /\ Tiling(Q, h.brk) /\ DOMAIN Q = (DOMAIN S \cup {new}) \ {next}
      /\ Q[new] = size /\ Q[ptr] = asize
      /\ \A x \in DOMAIN S : x # ptr /\ x # next => Q[x] = S[x]
  <2> HIDE DEF Q, new, next, rest
  <2>1. new + R[new] \in DOMAIN R /\ new \in DOMAIN R
    BY <1>2, <1>4, <1>5
  <2>2. IsJoin(Q, R, h.brk, new)
    BY <1>4, <1>5, <2>1, JoinTiling DEF Q
  <2> QED BY <1>2, <1>4, <1>5, <2>2 DEF IsJoin
<1> HIDE DEF Q, M, F, new, rest, next, size
<1>7. TagsBut(h, Q, G, {ptr, new})
  BY <1>2, <1>6, TagsCarryOver
<1>8. /\ e \in HeapRecord /\ e.brk = h.brk /\ Epilogue(e) /\ TagsBut(e, Q, G, {new})
      /\ \A x \in DOMAIN Q : x # ptr => Kept(h, e, Q, x)
      /\ \A a \in ptr .. (ptr + Q[ptr] - 3) : e.mem[a] = h.mem[a]
      /\ Links(e, n, L)
  <2>1. e = Tag(h, ptr, Q[ptr], 1) /\ e = Tag(h, ptr, R[ptr], 1) /\ ptr \in DOMAIN Q /\ ptr \notin G
        /\ ptr \in DOMAIN R /\ F \subseteq DOMAIN R
    BY <1>2, <1>4, <1>5, <1>6
  <2> HIDE DEF e, G
  <2>2. Retagged(h, e, Q, G, {ptr, new}, ptr)
    BY <1>2, <1>6, <1>7, <2>1, TagAt
  <2>3. Links(e, n, L)
    BY <1>2, <1>4, <2>1, TagKeepsList DEF F
  <2>4. {ptr, new} \ {ptr} = {new}
    BY <1>5
  <2> QED BY <1>2, <2>2, <2>3, <2>4 DEF Retagged
<1> HIDE DEF e
<1>9. /\ f \in HeapRecord /\ f.brk = h.brk /\ Epilogue(f) /\ TagsBut(f, Q, G, {})
      /\ \A x \in DOMAIN Q : x # new => Kept(e, f, Q, x)
      /\ Links(f, n, L)
  <2>1. f = Tag(e, new, Q[new], 0) /\ new \in DOMAIN Q /\ new \in G
        /\ Tiling(Q, e.brk) /\ Tiling(R, e.brk) /\ F \subseteq DOMAIN R
        /\ next \in DOMAIN R /\ new \in DOMAIN R
    BY <1>2, <1>4, <1>5, <1>6, <1>8
  <2>2. Links(f, n, L)
    BY <1>2, <1>5, <1>8, <2>1, WideTagKeepsList DEF F
  <2> HIDE DEF f, G
  <2>3. Retagged(e, f, Q, G, {new}, new)
    BY <1>8, <2>1, TagAt
  <2>4. {new} \ {new} = {}
    OBVIOUS
  <2> QED BY <1>8, <2>2, <2>3, <2>4 DEF Retagged
<1> HIDE DEF f
<1>10. \A x \in F : x # ptr /\ x # new /\ (x # next => Q[x] = S[x])
  BY <1>2, <1>4, <1>6
<1>11. \A x \in F : x # next => x + S[x] # new
  <2>1. ASSUME NEW x \in F, x # next, x + S[x] = new PROVE FALSE
    <3>1. x \in DOMAIN R /\ ptr \in DOMAIN R /\ x + R[x] = ptr + R[ptr]
      BY <1>2, <1>4, <1>5, <1>10, <2>1
    <3>2. x = ptr
      BY <1>4, <3>1, OneBefore
    <3> QED BY <1>10, <3>2
  <2> QED BY <2>1
<1>12. Apartness(Q, G)
  <2>1. new + Q[new] = next + S[next] /\ next + S[next] # new
    <3>1. next + S[next] # new
      BY <1>2, <1>4, <1>5 DEF next, new, rest, size
    <3> QED BY <1>5, <1>6, <3>1
  <2>2. \A x \in F \ {next} : x + Q[x] \notin G
    BY <1>2, <1>10, <1>11 DEF Apartness
  <2> QED BY <1>2, <2>1, <2>2 DEF Apartness
<1>13. /\ Described(g, Q, n, M) /\ Listed(n, M) = G
       /\ \A x \in DOMAIN Q \ G : Kept(f, g, Q, x)
  <2>1. L[j] = next /\ G = (Listed(n, L) \ {L[j]}) \cup {new} /\ new \notin Listed(n, L)
        /\ Tiling(Q, f.brk) /\ new \in DOMAIN Q /\ G \subseteq DOMAIN Q
    BY <1>2, <1>4, <1>5, <1>6, <1>9 DEF next, F
  <2> HIDE DEF G
  <2> QED BY <1>2, <1>5, <1>9, <1>12, <2>1, ReplaceBlock DEF M
<1> HIDE DEF g
<1>14. Used(Q, n, M) = (Used(S, n, L) \ {ptr}) \cup {ptr}
  BY <1>1, <1>2, <1>4, <1>6, <1>13 DEF Used, F
<1>15. ASSUME NEW x \in Used(S, n, L) \ {ptr} PROVE Q[x] = S[x] /\ Kept(h, g, S, x)
  <2>1. x \in DOMAIN Q /\ x # ptr /\ x # new /\ Q[x] = S[x] /\ x \in DOMAIN Q \ G
    BY <1>1, <1>4, <1>6 DEF Used, F
  <2> QED BY <1>8, <1>9, <1>13, <2>1 DEF Kept
<1>16. Leads(h, S, n, L, g, Q, n, M, {ptr}, {ptr})
  BY <1>13, <1>14, <1>15 DEF Leads
<1>17. ASSUME NEW i \in Nat, i < Q[ptr] - 2 PROVE g.mem[ptr + i] = h.mem[ptr + i]
  <2>1. ptr + i \in ptr .. (ptr + Q[ptr] - 3) /\ ptr + i \in (ptr - 1) .. (ptr + Q[ptr] - 2)
    BY <1>2, <1>6, <1>17
  <2>2. ptr \in DOMAIN Q \ G
    BY <1>2, <1>5, <1>6
  <2>3. Kept(e, f, Q, ptr) /\ Kept(f, g, Q, ptr)
    BY <1>5, <1>9, <1>13, <2>2
  <2> QED BY <1>8, <2>1, <2>3 DEF Kept
<1> QED BY <1>3, <1>6, <1>16, <1>17 DEF Resized, Q, R, M, new

-----------------------------------------------------------------------------
(* mm_realloc: making a block larger where it is                           *)

\* The free block behind it becomes smaller; its place in the list goes to the rest.
LEMMA GrowSplits ==
  ASSUME NEW h, NEW S, NEW n, NEW L, Described(h, S, n, L), NEW ptr \in Used(S, n, L), ptr # 2,
         NEW j \in 1 .. n, L[j] = ptr + S[ptr],
         NEW asize \in Nat, asize % 2 = 0, asize > S[ptr], S[ptr] + S[ptr + S[ptr]] - asize >= 4
  PROVE  Resized(h, S, n, L, grow(h, ptr, asize),
                 Cut(Joined(S, ptr), ptr, asize), n, Replaced(L, j, ptr + asize), ptr, ptr, asize)
<1> DEFINE F == Listed(n, L)
           next == ptr + S[ptr]
           new == ptr + asize
           both == S[ptr] + S[next]
           R == Joined(S, ptr)
           Q == Cut(R, ptr, asize)
           M == Replaced(L, j, new)
           G == (F \ {next}) \cup {new}
           e == replace_free_block(h, next, new)
           f == Tag(e, ptr, asize, 1)
           g == Tag(f, new, both - asize, 0)
<1>1. next \in F
  BY DEF Listed
<1>2. /\ h \in HeapRecord /\ Tiling(S, h.brk) /\ TagsBut(h, S, F, {}) /\ List(n, L)
      /\ Links(h, n, L) /\ F \subseteq DOMAIN S /\ Epilogue(h) /\ Apartness(S, F)
      /\ ptr \in DOMAIN S /\ ptr \notin F /\ 2 \notin F
      /\ SizeOf(h, ptr) = S[ptr] /\ NEXT_BLKP(h, ptr) = next
      /\ ptr \in Nat /\ S[ptr] \in Nat /\ S[ptr] >= 4
      /\ next \in DOMAIN S /\ SizeOf(h, next) = S[next] /\ S[next] \in Nat
      /\ next # ptr /\ next + S[next] \notin F
  BY <1>1, Neighbour
<1>3. grow(h, ptr, asize) = g
  <2>1. S[ptr] + S[next] >= asize + MINBLOCK
    BY <1>2 DEF MINBLOCK, DSIZE
  <2> HIDE DEF next
  <2> QED BY <1>2, <2>1 DEF grow
<1>4. /\ Tiling(R, h.brk) /\ DOMAIN R = DOMAIN S \ {next} /\ R[ptr] = both
      /\ \A x \in DOMAIN S : x # ptr /\ x # next => R[x] = S[x]
  <2>1. IsJoin(R, S, h.brk, ptr)
    BY <1>2, JoinTiling
  <2> HIDE DEF R
  <2> QED BY <2>1 DEF IsJoin
<1> HIDE DEF R
<1>5. /\ Tiling(Q, h.brk) /\ new \notin DOMAIN R /\ DOMAIN Q = DOMAIN R \cup {new}
      /\ Q[ptr] = asize /\ Q[new] = both - asize /\ \A x \in DOMAIN R : x # ptr => Q[x] = R[x]
  <2>1. ptr \in DOMAIN R /\ R[ptr] - asize >= 4 /\ asize >= 4
    BY <1>2, <1>4
  <2>2. IsCut(Q, R, h.brk, ptr, asize)
    BY <1>4, <2>1, CutTiling
  <2> HIDE DEF Q
  <2> QED BY <1>4, <2>2 DEF IsCut
<1>6. /\ new # ptr /\ new # 2 /\ new # next /\ new + Q[new] = next + S[next] /\ new + Q[new] # new
      /\ ptr + Q[ptr] = new /\ new \notin F
  <2>1. new # next /\ new # ptr /\ new # 2
    BY <1>2
  <2>2. new + (both - asize) = next + S[next] /\ new + (both - asize) # new
    BY <1>2
  <2> QED BY <1>2, <1>4, <1>5, <2>1, <2>2
<1> HIDE DEF Q, M, F, new, next, both
<1>7. new \in DOMAIN Q /\ ptr \in DOMAIN Q /\ G \subseteq DOMAIN Q /\ new \in LinkPlace
  <2>1. new \in DOMAIN Q
    BY <1>5
  <2> QED BY <1>2, <1>4, <1>5, <1>6, <2>1, WordsOf
<1>8. List(n, M) /\ Listed(n, M) = G
  BY <1>2, <1>6, <1>7, ReplacedList DEF M, F, next
<1>9. e \in HeapRecord /\ e.brk = h.brk /\ Links(e, n, M) /\ OnlyLinks(h, e, G)
  <2>1. Relinked(h, e, n, M)
    BY <1>2, <1>6, <1>7, ReplaceLinks DEF M, F, next
  <2> HIDE DEF e
  <2> QED BY <1>8, <2>1 DEF Relinked
<1> HIDE DEF e
<1>10. TagsBut(h, Q, G, {ptr, new})
  <2>1. \A x \in DOMAIN Q \ {ptr, new} : x \in DOMAIN S /\ Q[x] = S[x] /\ (x \in G <=> x \in F)
    BY <1>4, <1>5
  <2> QED BY <1>2, <2>1, TagsCarryOver
<1>11. /\ TagsBut(e, Q, G, {ptr, new}) /\ Epilogue(e)
       /\ \A x \in DOMAIN Q \ G : Kept(h, e, Q, x)
  <2>1. 2 \notin G
    BY <1>2, <1>6
  <2> HIDE DEF G
  <2> QED BY <1>2, <1>5, <1>7, <1>9, <1>10, <2>1, LinkKeepsTags
<1>12. /\ f \in HeapRecord /\ f.brk = h.brk /\ Epilogue(f) /\ TagsBut(f, Q, G, {new})
       /\ \A x \in DOMAIN Q : x # ptr => Kept(e, f, Q, x)
       /\ \A a \in ptr .. (ptr + Q[ptr] - 3) : f.mem[a] = e.mem[a]
       /\ Links(f, n, M)
  <2>1. f = Tag(e, ptr, Q[ptr], 1) /\ ptr \notin G /\ Tiling(Q, e.brk) /\ Listed(n, M) \subseteq DOMAIN Q
    BY <1>2, <1>5, <1>6, <1>7, <1>8, <1>9
  <2> HIDE DEF f, G
  <2>2. Retagged(e, f, Q, G, {ptr, new}, ptr)
    BY <1>7, <1>9, <1>11, <2>1, TagAt
  <2>3. Links(f, n, M)
    BY <1>7, <1>8, <1>9, <2>1, TagKeepsList
  <2>4. {ptr, new} \ {ptr} = {new}
    BY <1>6
  <2> QED BY <1>9, <1>11, <2>2, <2>3, <2>4 DEF Retagged
<1> HIDE DEF f
<1>13. /\ g \in HeapRecord /\ g.brk = h.brk /\ Epilogue(g) /\ TagsBut(g, Q, G, {})
       /\ \A x \in DOMAIN Q : x # new => Kept(f, g, Q, x)
       /\ Links(g, n, M)
  <2>1. g = Tag(f, new, Q[new], 0) /\ new \in G /\ Tiling(Q, f.brk) /\ Listed(n, M) \subseteq DOMAIN Q
    BY <1>5, <1>7, <1>8, <1>12
  <2> HIDE DEF g, G
  <2>2. Retagged(f, g, Q, G, {new}, new)
    BY <1>7, <1>12, <2>1, TagAt
  <2>3. Links(g, n, M)
    BY <1>7, <1>8, <1>12, <2>1, TagKeepsList
  <2>4. {new} \ {new} = {}
    OBVIOUS
  <2> QED BY <1>12, <2>2, <2>3, <2>4 DEF Retagged
<1> HIDE DEF g
<1>14. Apartness(Q, G)
  <2>1. new + Q[new] \notin G
    BY <1>2, <1>6
  <2>2. ASSUME NEW x \in F \ {next} PROVE x + Q[x] \notin G
    <3>1. x \in DOMAIN Q /\ x # ptr /\ Q[x] = S[x] /\ x + S[x] \notin F
      BY <1>2, <1>4, <1>5, <2>2 DEF Apartness
    <3>2. x + Q[x] # ptr + Q[ptr]
      BY <1>5, <1>7, <3>1, OneBefore
    <3> QED BY <1>6, <3>1, <3>2
  <2> QED BY <2>1, <2>2 DEF Apartness
<1>15. Described(g, Q, n, M)
  BY <1>5, <1>7, <1>8, <1>13, <1>14 DEF Described
<1>16. Used(Q, n, M) = (Used(S, n, L) \ {ptr}) \cup {ptr}
  BY <1>1, <1>2, <1>4, <1>5, <1>8 DEF Used, F
<1>17. ASSUME NEW x \in Used(S, n, L) \ {ptr} PROVE Q[x] = S[x] /\ Kept(h, g, S, x)
  <2>1. x \in DOMAIN Q /\ x # ptr /\ x # new /\ Q[x] = S[x] /\ x \in DOMAIN Q \ G
    BY <1>1, <1>4, <1>5 DEF Used, F
  <2> QED BY <1>11, <1>12, <1>13, <2>1 DEF Kept
<1>18. Leads(h, S, n, L, g, Q, n, M, {ptr}, {ptr})
  BY <1>15, <1>16, <1>17 DEF Leads
<1>19. ASSUME NEW i \in Nat, i < Q[ptr] - 2 PROVE g.mem[ptr + i] = h.mem[ptr + i]
  <2>1. ptr + i \in ptr .. (ptr + Q[ptr] - 3) /\ ptr + i \in (ptr - 1) .. (ptr + Q[ptr] - 2)
    BY <1>2, <1>5, <1>19
  <2>2. ptr \in DOMAIN Q \ G
    BY <1>2, <1>6, <1>7
  <2>3. Kept(h, e, Q, ptr) /\ Kept(f, g, Q, ptr)
    BY <1>6, <1>11, <1>13, <2>2
  <2> QED BY <1>12, <2>1, <2>3 DEF Kept
<1> QED BY <1>3, <1>5, <1>18, <1>19 DEF Resized, Q, R, M, new

\* The block takes the whole block behind it.
LEMMA GrowTakes ==
  ASSUME NEW h, NEW S, NEW n, NEW L, Described(h, S, n, L), NEW ptr \in Used(S, n, L), ptr # 2,
         NEW j \in 1 .. n, L[j] = ptr + S[ptr],
         NEW asize \in Nat, S[ptr] + S[ptr + S[ptr]] >= asize, S[ptr] + S[ptr + S[ptr]] - asize < 4
  PROVE  Resized(h, S, n, L, grow(h, ptr, asize),
                 Joined(S, ptr), n - 1, Removed(n, L, j), ptr, ptr, asize)
<1> DEFINE F == Listed(n, L)
           next == ptr + S[ptr]
           both == S[ptr] + S[next]
           R == Joined(S, ptr)
           M == Removed(n, L, j)
           G == F \ {next}
           f == Tag(h, ptr, both, 1)
           g == remove_free_block(f, next)
<1>1. next \in F
  BY DEF Listed
<1>2. /\ h \in HeapRecord /\ Tiling(S, h.brk) /\ TagsBut(h, S, F, {}) /\ List(n, L)
      /\ Links(h, n, L) /\ F \subseteq DOMAIN S /\ Epilogue(h) /\ Apartness(S, F)
      /\ ptr \in DOMAIN S /\ ptr \notin F /\ 2 \notin F
      /\ SizeOf(h, ptr) = S[ptr] /\ NEXT_BLKP(h, ptr) = next
      /\ ptr \in Nat /\ S[ptr] \in Nat /\ S[ptr] >= 4
      /\ next \in DOMAIN S /\ SizeOf(h, next) = S[next] /\ S[next] \in Nat
      /\ next # ptr /\ next + S[next] \notin F
  BY <1>1, Neighbour
<1>3. grow(h, ptr, asize) = g
  <2>1. ~(S[ptr] + S[next] >= asize + MINBLOCK)
    BY <1>2 DEF MINBLOCK, DSIZE
  <2> HIDE DEF next
  <2> QED BY <1>2, <2>1 DEF grow
<1>4. /\ Tiling(R, h.brk) /\ DOMAIN R = DOMAIN S \ {next} /\ R[ptr] = both
      /\ \A x \in DOMAIN S : x # ptr /\ x # next => R[x] = S[x]
  <2>1. IsJoin(R, S, h.brk, ptr)
    BY <1>2, JoinTiling
  <2> HIDE DEF R
  <2> QED BY <2>1 DEF IsJoin
<1>5. both \in Nat /\ ptr + both = next + S[next] /\ both >= asize
  BY <1>2
<1>6. Links(f, n, L)
  <2> HIDE DEF both, next
  <2> QED BY <1>2, <1>5, WideTagKeepsList
<1> HIDE DEF R, M, F, next, both
<1>7. /\ f \in HeapRecord /\ f.brk = h.brk /\ Epilogue(f) /\ TagsBut(f, R, G, {})
      /\ \A x \in DOMAIN R : x # ptr => Kept(h, f, R, x)
      /\ \A a \in ptr .. (ptr + R[ptr] - 3) : f.mem[a] = h.mem[a]
  <2>1. TagsBut(h, R, G, {ptr})
    BY <1>2, <1>4, TagsCarryOver
  <2>2. f = Tag(h, ptr, R[ptr], 1) /\ ptr \notin G /\ ptr \in DOMAIN R
    BY <1>2, <1>4
  <2> HIDE DEF f, G
  <2>3. Retagged(h, f, R, G, {ptr}, ptr)
    BY <1>2, <1>4, <2>1, <2>2, TagAt
  <2>4. {ptr} \ {ptr} = {}
    OBVIOUS
  <2> QED BY <1>2, <2>3, <2>4 DEF Retagged
<1> HIDE DEF f
<1>8. Apartness(R, G)
  <2>1. \A x \in G : R[x] = S[x] /\ x + S[x] \notin F
    BY <1>2, <1>4 DEF Apartness
  <2> QED BY <2>1 DEF Apartness
<1>9. /\ Described(g, R, n - 1, M) /\ Listed(n - 1, M) = G
      /\ \A x \in DOMAIN R \ G : Kept(f, g, R, x)
  <2>1. L[j] = next /\ G = Listed(n, L) \ {L[j]} /\ Tiling(R, f.brk) /\ G \subseteq DOMAIN R
    BY <1>2, <1>4, <1>7 DEF next, F
  <2> HIDE DEF G
  <2> QED BY <1>2, <1>6, <1>7, <1>8, <2>1, RemoveBlock DEF M
<1> HIDE DEF g
<1>10. Used(R, n - 1, M) = (Used(S, n, L) \ {ptr}) \cup {ptr}
  BY <1>1, <1>2, <1>4, <1>9 DEF Used, F
<1>11. ASSUME NEW x \in Used(S, n, L) \ {ptr} PROVE R[x] = S[x] /\ Kept(h, g, S, x)
  <2>1. x \in DOMAIN R /\ x # ptr /\ R[x] = S[x] /\ x \in DOMAIN R \ G
    BY <1>1, <1>4 DEF Used, F
  <2> QED BY <1>7, <1>9, <2>1 DEF Kept
<1>12. Leads(h, S, n, L, g, R, n - 1, M, {ptr}, {ptr})
  BY <1>9, <1>10, <1>11 DEF Leads
<1>13. ASSUME NEW i \in Nat, i < R[ptr] - 2 PROVE g.mem[ptr + i] = h.mem[ptr + i]
  <2>1. ptr + i \in ptr .. (ptr + R[ptr] - 3) /\ ptr + i \in (ptr - 1) .. (ptr + R[ptr] - 2)
    BY <1>2, <1>4, <1>5, <1>13
  <2>2. Kept(f, g, R, ptr)
    BY <1>2, <1>4, <1>9
  <2> QED BY <1>7, <2>1, <2>2 DEF Kept
<1> QED BY <1>3, <1>4, <1>5, <1>12, <1>13 DEF Resized, R, M

-----------------------------------------------------------------------------
(* mm_realloc: moving a block, and the whole of it                         *)

\* Heap g is h after k words were copied.
CopyOf(h, g, to, from, k) ==
  /\ g \in HeapRecord /\ g.brk = h.brk /\ g.hd_free = h.hd_free /\ g.ft_free = h.ft_free
  /\ \A a \in Addr : ~(a \in to .. (to + k - 1)) => g.mem[a] = h.mem[a]
  /\ \A i \in Nat : i < k => g.mem[to + i] = h.mem[from + i]

LEMMA CopyWords ==
  ASSUME NEW h \in HeapRecord, NEW to \in Nat, NEW from \in Nat, NEW k \in Nat,
         \A i \in Nat : i < k => from + i \in Addr /\ to + i \in Addr
  PROVE  CopyOf(h, Copied(h, to, from, k), to, from, k)
<1> DEFINE mem == [a \in Addr |-> IF a \in to .. (to + k - 1) THEN h.mem[a - to + from] ELSE h.mem[a]]
           g == [h EXCEPT !.mem = mem]
<1>7. h.mem \in [Addr -> Nat]
  BY DEF HeapRecord
<1>1. Copied(h, to, from, k) = g
  <2> DEFINE words == [a \in to .. (to + k - 1) |-> h.mem[a - to + from]]
  <2>1. DOMAIN words = to .. (to + k - 1) /\ \A a \in DOMAIN words : words[a] = h.mem[a - to + from]
    OBVIOUS
  <2>2. DOMAIN words \subseteq Addr
    <3> SUFFICES ASSUME NEW a \in to .. (to + k - 1) PROVE a \in Addr
      OBVIOUS
    <3>1. a - to \in Nat /\ a - to < k /\ to + (a - to) = a
      OBVIOUS
    <3> QED BY <3>1
  <2>3. Copied(h, to, from, k) = [h EXCEPT !.mem = Stored(h.mem, words)]
    BY DEF Copied
  <2> HIDE DEF words
  <2>4. Stored(h.mem, words) = [a \in Addr |-> IF a \in DOMAIN words THEN words[a] ELSE h.mem[a]]
    BY <1>7, <2>2, StoredWords
  <2>5. Stored(h.mem, words) = mem
    BY <2>1, <2>4
  <2> QED BY <2>3, <2>5
<1>2. ASSUME NEW a \in Addr, a \in to .. (to + k - 1)
      PROVE  a - to + from \in Addr
  <2>1. a - to \in Nat /\ a - to < k /\ from + (a - to) = a - to + from
    BY <1>2
  <2> QED BY <2>1
<1>3. mem \in [Addr -> Nat]
  BY <1>2 DEF HeapRecord
<1>4. \A a \in Addr : ~(a \in to .. (to + k - 1)) => mem[a] = h.mem[a]
  OBVIOUS
<1>5. ASSUME NEW i \in Nat, i < k PROVE mem[to + i] = h.mem[from + i]
  <2>1. to + i \in Addr /\ to + i \in to .. (to + k - 1) /\ (to + i) - to + from = from + i
    BY <1>5
  <2> QED BY <2>1
<1> HIDE DEF mem
<1>6. g \in HeapRecord /\ g.brk = h.brk /\ g.hd_free = h.hd_free /\ g.ft_free = h.ft_free /\ g.mem = mem
  BY <1>3 DEF HeapRecord
<1> HIDE DEF g
<1> QED BY <1>1, <1>4, <1>5, <1>6 DEF CopyOf

\* In heap c the payload of block ptr has been copied to block bp.
Transferred(h, S, n, L, c, R, m, M, ptr, bp) ==
  /\ Leads(h, S, n, L, c, R, m, M, {bp}, {bp}) /\ bp # ptr /\ bp \in Used(R, m, M)
  /\ ptr \in Used(R, m, M)
  /\ \A i \in Nat : i < S[ptr] - 2 => c.mem[bp + i] = h.mem[ptr + i]

LEMMA CopiesPayload ==
  ASSUME NEW h, NEW S, NEW n, NEW L, Described(h, S, n, L), NEW ptr \in Used(S, n, L), ptr # 2,
         NEW r, NEW R, NEW m, NEW M, NEW bp, NEW asize \in Nat, asize > S[ptr],
         HandsOut(h, S, n, L, r, R, m, M, bp, asize)
  PROVE  Transferred(h, S, n, L, Copied(r.heap, bp, ptr, S[ptr] - 2), R, m, M, ptr, bp)
<1> DEFINE g == r.heap
           k == S[ptr] - 2
           c == Copied(g, bp, ptr, k)
<1>1. Leads(h, S, n, L, g, R, m, M, {}, {bp}) /\ bp \notin Used(S, n, L) /\ R[bp] >= asize
  BY DEF HandsOut
<1>2. /\ h \in HeapRecord /\ Tiling(S, h.brk) /\ ptr \in DOMAIN S /\ ptr \in Nat /\ S[ptr] \in Nat /\ S[ptr] >= 4
  BY Neighbour
<1> HIDE DEF g
<1>3. Described(g, R, m, M) /\ bp \in Used(R, m, M) /\ ptr \in Used(R, m, M) /\ bp # ptr
      /\ R[ptr] = S[ptr] /\ Kept(h, g, S, ptr)
  BY <1>1 DEF Leads
<1>4. g \in HeapRecord /\ Tiling(R, g.brk) /\ bp \in DOMAIN R /\ ptr \in DOMAIN R
  BY <1>3 DEF Described, Used
<1>5. /\ bp \in Nat /\ R[bp] \in Nat
      /\ (bp - 1) .. (bp + R[bp] - 2) \subseteq Addr /\ (ptr - 1) .. (ptr + R[ptr] - 2) \subseteq Addr
  BY <1>4, WordsOf
<1>6. k \in Nat /\ k < S[ptr] - 1 /\ k <= R[bp] - 2
  BY <1>1, <1>2, <1>5
<1>7. ASSUME NEW i \in Nat, i < k
      PROVE  bp + i \in (bp - 1) .. (bp + R[bp] - 2) /\ ptr + i \in (ptr - 1) .. (ptr + R[ptr] - 2)
  BY <1>2, <1>3, <1>5, <1>6, <1>7
<1> HIDE DEF k
<1>8. /\ c \in HeapRecord /\ c.brk = g.brk /\ c.hd_free = g.hd_free /\ c.ft_free = g.ft_free
      /\ \A a \in Addr : ~(a \in bp .. (bp + k - 1)) => c.mem[a] = g.mem[a]
      /\ \A i \in Nat : i < k => c.mem[bp + i] = g.mem[ptr + i]
  <2>1. \A i \in Nat : i < k => ptr + i \in Addr /\ bp + i \in Addr
    BY <1>5, <1>7
  <2>2. CopyOf(g, c, bp, ptr, k)
    BY <1>2, <1>4, <1>5, <1>6, <2>1, CopyWords
  <2> HIDE DEF c
  <2> QED BY <2>2 DEF CopyOf
<1> HIDE DEF c
<1>9. \A a \in Addr : ~(a \in bp .. (bp + R[bp] - 3)) => c.mem[a] = g.mem[a]
  <2>1. bp .. (bp + k - 1) \subseteq bp .. (bp + R[bp] - 3)
    BY <1>5, <1>6
  <2> QED BY <1>8, <2>1
<1>10. Leads(g, R, m, M, c, R, m, M, {bp}, {bp})
  BY <1>3, <1>8, <1>9, PayloadWrites
<1>11. Leads(h, S, n, L, c, R, m, M, {} \cup {bp}, ({bp} \ {bp}) \cup {bp})
  BY <1>1, <1>10, LeadsOn
<1>12. {} \cup {bp} = {bp} /\ ({bp} \ {bp}) \cup {bp} = {bp}
  OBVIOUS
<1>13. \A i \in Nat : i < k => g.mem[ptr + i] = h.mem[ptr + i]
  BY <1>3, <1>7 DEF Kept
<1> QED BY <1>3, <1>8, <1>11, <1>12, <1>13 DEF g, c, k, Transferred

LEMMA Moves ==
  ASSUME NEW S, NEW n, NEW L, NEW ptr \in Used(S, n, L), ptr # 2,
         NEW R, NEW m, NEW M, NEW bp, NEW asize \in Nat, asize > S[ptr]
  PROVE  \E Q, o, O : \A h, r : Described(h, S, n, L) /\ HandsOut(h, S, n, L, r, R, m, M, bp, asize) =>
           Resized(h, S, n, L, Moved(r.heap, ptr, bp, S[ptr] - 2), Q, o, O, ptr, bp, asize)
<1>1. CASE ~ \E h, r : Described(h, S, n, L) /\ HandsOut(h, S, n, L, r, R, m, M, bp, asize)
  BY <1>1
<1>2. CASE \E h, r : Described(h, S, n, L) /\ HandsOut(h, S, n, L, r, R, m, M, bp, asize)
  <2>1. ptr \in Used(R, m, M)
    BY <1>2, CopiesPayload DEF Transferred
  <2>2. PICK Q, o, O : \A c : Described(c, R, m, M) =>
               Leads(c, R, m, M, mm_free(c, ptr), Q, o, O, {ptr}, {})
    BY <2>1, Frees
  <2>3. ASSUME NEW h, NEW r, Described(h, S, n, L), HandsOut(h, S, n, L, r, R, m, M, bp, asize)
        PROVE  Resized(h, S, n, L, Moved(r.heap, ptr, bp, S[ptr] - 2), Q, o, O, ptr, bp, asize)
    <3> DEFINE c == Copied(r.heap, bp, ptr, S[ptr] - 2)
               g == mm_free(c, ptr)
    <3>1. Transferred(h, S, n, L, c, R, m, M, ptr, bp)
      BY <2>3, CopiesPayload
    <3>2. Moved(r.heap, ptr, bp, S[ptr] - 2) = g
      BY DEF Moved
    <3> HIDE DEF c
    <3> USE DEF Transferred
    <3>3. Leads(c, R, m, M, g, Q, o, O, {ptr}, {})
      BY <2>2, <3>1 DEF Leads
    <3> HIDE DEF g
    <3>4. Leads(h, S, n, L, g, Q, o, O, {bp} \cup {ptr}, ({bp} \ {ptr}) \cup {})
      BY <3>1, <3>3, LeadsOn
    <3>5. Leads(h, S, n, L, g, Q, o, O, {ptr}, {bp})
      <4>1. Used(S, n, L) \ ({bp} \cup {ptr}) = Used(S, n, L) \ {ptr} /\ ({bp} \ {ptr}) \cup {} = {bp}
        BY <2>3, <3>1 DEF HandsOut
      <4> QED BY <3>4, <4>1 DEF Leads
    <3>6. Q[bp] = R[bp] /\ Kept(c, g, R, bp) /\ Q[bp] >= asize
      BY <2>3, <3>1, <3>3 DEF Leads, HandsOut
    <3>7. bp \in Nat /\ R[bp] \in Nat /\ R[bp] >= 2
      BY <3>1, Tile DEF Leads, Described, Used
    <3>8. ASSUME NEW i \in Nat, i < S[ptr] - 2, i < Q[bp] - 2 PROVE g.mem[bp + i] = h.mem[ptr + i]
      <4>1. bp + i \in (bp - 1) .. (bp + R[bp] - 2)
        BY <3>6, <3>7, <3>8
      <4> QED BY <3>1, <3>6, <3>8, <4>1 DEF Kept
    <3> QED BY <3>2, <3>5, <3>6, <3>8 DEF Resized
  <2> QED BY <2>3
<1> QED BY <1>1, <1>2

LEMMA ShrinksBlock ==
  ASSUME NEW S, NEW n, NEW L, NEW ptr \in Used(S, n, L), ptr # 2,
         NEW asize \in Nat, asize % 2 = 0, asize >= 4, asize <= S[ptr]
  PROVE  \E R, m, M : \A h : Described(h, S, n, L) =>
           Resized(h, S, n, L, shrink(h, ptr, asize), R, m, M, ptr, ptr, asize)
<1>1. CASE ~ \E h : Described(h, S, n, L)
  BY <1>1
<1>2. CASE \E h : Described(h, S, n, L)
  <2>1. S[ptr] \in Nat
    BY <1>2, Neighbour
  <2>2. CASE S[ptr] - asize < 4
    <3>1. \A h : Described(h, S, n, L) =>
            Resized(h, S, n, L, shrink(h, ptr, asize), S, n, L, ptr, ptr, asize)
      BY <2>2, ShrinkStays
    <3> QED BY <3>1
  <2>3. CASE S[ptr] - asize >= 4 /\ ptr + S[ptr] \notin Listed(n, L)
    <3>1. \A h : Described(h, S, n, L) =>
            Resized(h, S, n, L, shrink(h, ptr, asize),
                    Cut(S, ptr, asize), n + 1, Inserted(n, L, ptr + asize), ptr, ptr, asize)
      BY <2>3, ShrinkCuts
    <3> QED BY <3>1
  <2>4. CASE S[ptr] - asize >= 4 /\ ptr + S[ptr] \in Listed(n, L)
    <3>1. PICK j \in 1 .. n : L[j] = ptr + S[ptr]
      BY <2>4 DEF Listed
    <3>2. \A h : Described(h, S, n, L) =>
            Resized(h, S, n, L, shrink(h, ptr, asize),
                    Joined(Cut(S, ptr, asize), ptr + asize), n, Replaced(L, j, ptr + asize),
                    ptr, ptr, asize)
      BY <2>4, <3>1, ShrinkJoins
    <3> QED BY <3>2
  <2> QED BY <2>1, <2>2, <2>3, <2>4
<1> QED BY <1>1, <1>2

LEMMA GrowsBlock ==
  ASSUME NEW S, NEW n, NEW L, NEW ptr \in Used(S, n, L), ptr # 2, ptr + S[ptr] \in Listed(n, L),
         NEW asize \in Nat, asize % 2 = 0, asize > S[ptr], S[ptr] + S[ptr + S[ptr]] >= asize
  PROVE  \E R, m, M : \A h : Described(h, S, n, L) =>
           Resized(h, S, n, L, grow(h, ptr, asize), R, m, M, ptr, ptr, asize)
<1>1. CASE ~ \E h : Described(h, S, n, L)
  BY <1>1
<1>2. CASE \E h : Described(h, S, n, L)
  <2>1. S[ptr] \in Nat /\ S[ptr + S[ptr]] \in Nat
    BY <1>2, Neighbour
  <2>2. PICK j \in 1 .. n : L[j] = ptr + S[ptr]
    BY DEF Listed
  <2> DEFINE both == S[ptr] + S[ptr + S[ptr]]
  <2>3. CASE both - asize >= 4
    <3>1. S[ptr] + S[ptr + S[ptr]] - asize >= 4
      BY <2>1, <2>3
    <3>2. \A h : Described(h, S, n, L) =>
            Resized(h, S, n, L, grow(h, ptr, asize),
                    Cut(Joined(S, ptr), ptr, asize), n, Replaced(L, j, ptr + asize), ptr, ptr, asize)
      BY <2>2, <3>1, GrowSplits
    <3> QED BY <3>2
  <2>4. CASE both - asize < 4
    <3>1. S[ptr] + S[ptr + S[ptr]] - asize < 4
      BY <2>1, <2>4
    <3>2. \A h : Described(h, S, n, L) =>
            Resized(h, S, n, L, grow(h, ptr, asize),
                    Joined(S, ptr), n - 1, Removed(n, L, j), ptr, ptr, asize)
      BY <2>2, <3>1, GrowTakes
    <3> QED BY <3>2
  <2> QED BY <2>1, <2>3, <2>4
<1> QED BY <1>1, <1>2

\* mm_realloc answered with block bp.
Answered(h, S, n, L, r, R, m, M, ptr, bp, size) ==
  ~r.crash /\ r.bp = bp /\ Resized(h, S, n, L, r.heap, R, m, M, ptr, bp, size)

\* The call of mm_realloc, by what it finds in the heap
LEMMA ReallocCases ==
  ASSUME NEW h, NEW S, NEW n, NEW L, Described(h, S, n, L), NEW ptr \in Used(S, n, L), ptr # 2,
         NEW size \in Nat \ {0}
  PROVE  LET asize == AlignedSize(size)
             next == ptr + S[ptr]
             r == mm_malloc(h, asize)
             Done(heap, bp) == [heap |-> heap, bp |-> bp, crash |-> FALSE]
         IN  mm_realloc(h, ptr, size) =
               IF asize <= S[ptr] THEN Done(shrink(h, ptr, asize), ptr)
               ELSE IF next \in Listed(n, L) /\ S[ptr] + S[next] >= asize THEN Done(grow(h, ptr, asize), ptr)
               ELSE IF r.bp = NULL THEN [heap |-> h, bp |-> NULL, crash |-> TRUE]
               ELSE Done(Moved(r.heap, ptr, r.bp, S[ptr] - 2), r.bp)
<1> DEFINE asize == AlignedSize(size)
           next == ptr + S[ptr]
           r == mm_malloc(h, asize)
           Done(heap, bp) == [heap |-> heap, bp |-> bp, crash |-> FALSE]
           fits == ~IsAlloc(h, NEXT_BLKP(h, ptr))
                   /\ SizeOf(h, ptr) + SizeOf(h, NEXT_BLKP(h, ptr)) >= asize
<1>1. /\ SizeOf(h, ptr) = S[ptr] /\ NEXT_BLKP(h, ptr) = next /\ ptr \in Nat
      /\ IsAlloc(h, next) <=> next \notin Listed(n, L)
      /\ next \in Listed(n, L) => SizeOf(h, next) = S[next]
  BY Neighbour
<1>2. mm_realloc(h, ptr, size) =
        IF asize <= SizeOf(h, ptr) THEN Done(shrink(h, ptr, asize), ptr)
        ELSE IF fits THEN Done(grow(h, ptr, asize), ptr)
        ELSE IF r.bp = NULL THEN [heap |-> h, bp |-> NULL, crash |-> TRUE]
        ELSE Done(Moved(r.heap, ptr, r.bp, SizeOf(h, ptr) - 2), r.bp)
  <2>1. size # 0 /\ ptr # NULL
    BY <1>1 DEF NULL
  <2> HIDE DEF asize
  <2> QED BY <2>1 DEF mm_realloc, DSIZE, asize
<1>3. fits <=> next \in Listed(n, L) /\ S[ptr] + S[next] >= asize
  BY <1>1
<1> HIDE DEF asize, next, r, fits
<1>4. mm_realloc(h, ptr, size) =
        IF asize <= S[ptr] THEN Done(shrink(h, ptr, asize), ptr)
        ELSE IF next \in Listed(n, L) /\ S[ptr] + S[next] >= asize THEN Done(grow(h, ptr, asize), ptr)
        ELSE IF r.bp = NULL THEN [heap |-> h, bp |-> NULL, crash |-> TRUE]
        ELSE Done(Moved(r.heap, ptr, r.bp, S[ptr] - 2), r.bp)
  BY <1>1, <1>2, <1>3
<1> QED BY <1>4 DEF asize, next, r

(***************************************************************************)
(* mm_realloc of a block in use: either it runs out of memory in every     *)
(* heap that is described this way, or it answers in all of them with the  *)
(* same block, which is the old one or one that was free.                  *)
(***************************************************************************)
LEMMA Reallocs ==
  ASSUME NEW S, NEW n, NEW L, NEW ptr \in Used(S, n, L), ptr # 2, NEW size \in Nat \ {0}
  PROVE  \/ \A h : Described(h, S, n, L) =>
              mm_realloc(h, ptr, size) = [heap |-> h, bp |-> NULL, crash |-> TRUE]
         \/ \E R, m, M, bp :
              /\ bp = ptr \/ bp \notin Used(S, n, L)
              /\ \A h : Described(h, S, n, L) =>
                   Answered(h, S, n, L, mm_realloc(h, ptr, size), R, m, M, ptr, bp, size + 2)
<1> DEFINE asize == AlignedSize(size)
           next == ptr + S[ptr]
           Done(heap, bp) == [heap |-> heap, bp |-> bp, crash |-> FALSE]
<1>1. asize \in Nat \ {0} /\ asize % 2 = 0 /\ asize >= 4 /\ asize >= size + 2
  <2>1. asize \in Nat /\ asize % 2 = 0 /\ asize >= 4 /\ asize >= size + 2
    BY Aligns
  <2> HIDE DEF asize
  <2> QED BY <2>1
<1>2. ASSUME NEW h, Described(h, S, n, L)
      PROVE  LET r == mm_malloc(h, asize)
             IN  mm_realloc(h, ptr, size) =
                   IF asize <= S[ptr] THEN Done(shrink(h, ptr, asize), ptr)
                   ELSE IF next \in Listed(n, L) /\ S[ptr] + S[next] >= asize
                   THEN Done(grow(h, ptr, asize), ptr)
                   ELSE IF r.bp = NULL THEN [heap |-> h, bp |-> NULL, crash |-> TRUE]
                   ELSE Done(Moved(r.heap, ptr, r.bp, S[ptr] - 2), r.bp)
  BY <1>2, ReallocCases
<1> HIDE DEF asize
<1>3. ASSUME NEW h, NEW g, NEW R, NEW m, NEW M, NEW bp, Resized(h, S, n, L, g, R, m, M, ptr, bp, asize)
      PROVE  Answered(h, S, n, L, Done(g, bp), R, m, M, ptr, bp, size + 2)
  <2>1. R[bp] \in Nat
    BY <1>3, Tile DEF Resized, Leads, Described, Used
  <2> QED BY <1>1, <1>3, <2>1 DEF Resized, Answered
<1>4. CASE ~ \E h : Described(h, S, n, L)
  BY <1>4
<1>5. CASE (\E h : Described(h, S, n, L)) /\ asize <= S[ptr]
  <2>1. PICK R, m, M : \A h : Described(h, S, n, L) =>
               Resized(h, S, n, L, shrink(h, ptr, asize), R, m, M, ptr, ptr, asize)
    BY <1>1, <1>5, ShrinksBlock
  <2>2. ASSUME NEW h, Described(h, S, n, L)
        PROVE  Answered(h, S, n, L, mm_realloc(h, ptr, size), R, m, M, ptr, ptr, size + 2)
    <3>1. mm_realloc(h, ptr, size) = Done(shrink(h, ptr, asize), ptr)
      BY <1>2, <1>5, <2>2
    <3> HIDE DEF Done
    <3> QED BY <1>3, <2>1, <2>2, <3>1
  <2> QED BY <2>2
<1>6. CASE /\ \E h : Described(h, S, n, L)
           /\ ~(asize <= S[ptr]) /\ next \in Listed(n, L) /\ S[ptr] + S[next] >= asize
  <2>1. asize > S[ptr]
    BY <1>1, <1>6, Neighbour
  <2>2. PICK R, m, M : \A h : Described(h, S, n, L) =>
               Resized(h, S, n, L, grow(h, ptr, asize), R, m, M, ptr, ptr, asize)
    BY <1>1, <1>6, <2>1, GrowsBlock
  <2>3. ASSUME NEW h, Described(h, S, n, L)
        PROVE  Answered(h, S, n, L, mm_realloc(h, ptr, size), R, m, M, ptr, ptr, size + 2)
    <3>1. mm_realloc(h, ptr, size) = Done(grow(h, ptr, asize), ptr)
      BY <1>2, <1>6, <2>3
    <3> HIDE DEF Done
    <3> QED BY <1>3, <2>2, <2>3, <3>1
  <2> QED BY <2>3
<1>7. CASE /\ \E h : Described(h, S, n, L)
           /\ ~(asize <= S[ptr]) /\ ~(next \in Listed(n, L) /\ S[ptr] + S[next] >= asize)
  <2>1. asize > S[ptr]
    BY <1>1, <1>7, Neighbour
  <2>2. ASSUME NEW h, Described(h, S, n, L)
        PROVE  LET r == mm_malloc(h, asize)
               IN  mm_realloc(h, ptr, size) =
                     IF r.bp = NULL THEN [heap |-> h, bp |-> NULL, crash |-> TRUE]
                     ELSE Done(Moved(r.heap, ptr, r.bp, S[ptr] - 2), r.bp)
    BY <1>2, <1>7, <2>2
  <2>3. CASE \A h : Described(h, S, n, L) => mm_malloc(h, asize) = [heap |-> h, bp |-> NULL]
    <3>1. ASSUME NEW h, Described(h, S, n, L)
          PROVE  mm_realloc(h, ptr, size) = [heap |-> h, bp |-> NULL, crash |-> TRUE]
      <4>1. mm_malloc(h, asize).bp = NULL
        BY <2>3, <3>1
      <4> QED BY <2>2, <3>1, <4>1
    <3> QED BY <3>1
  <2>4. ASSUME NEW R, NEW m, NEW M, NEW bp,
               \A h : Described(h, S, n, L) =>
                 HandsOut(h, S, n, L, mm_malloc(h, asize), R, m, M, bp, asize + 2)
        PROVE  \E Q, o, O : \A h : Described(h, S, n, L) =>
                 Answered(h, S, n, L, mm_realloc(h, ptr, size), Q, o, O, ptr, bp, size + 2)
    <3>1. ASSUME NEW h, Described(h, S, n, L)
          PROVE  /\ HandsOut(h, S, n, L, mm_malloc(h, asize), R, m, M, bp, asize)
                 /\ bp # NULL /\ mm_malloc(h, asize).bp = bp
      <4>1. HandsOut(h, S, n, L, mm_malloc(h, asize), R, m, M, bp, asize + 2)
        BY <2>4, <3>1
      <4>2. Tiling(R, mm_malloc(h, asize).heap.brk) /\ bp \in DOMAIN R
        BY <4>1 DEF HandsOut, Leads, Described, Used
      <4>3. bp \in Nat /\ R[bp] \in Nat
        BY <4>2, Tile
      <4> QED BY <1>1, <4>1, <4>3 DEF HandsOut, NULL
    <3>2. PICK Q, o, O : \A h, r : Described(h, S, n, L) /\ HandsOut(h, S, n, L, r, R, m, M, bp, asize) =>
                 Resized(h, S, n, L, Moved(r.heap, ptr, bp, S[ptr] - 2), Q, o, O, ptr, bp, asize)
      BY <1>1, <2>1, Moves
    <3>3. ASSUME NEW h, Described(h, S, n, L)
          PROVE  Answered(h, S, n, L, mm_realloc(h, ptr, size), Q, o, O, ptr, bp, size + 2)
      <4> DEFINE g == Moved(mm_malloc(h, asize).heap, ptr, bp, S[ptr] - 2)
      <4>1. mm_realloc(h, ptr, size) = Done(g, bp)
        BY <2>2, <3>1, <3>3
      <4>2. Resized(h, S, n, L, g, Q, o, O, ptr, bp, asize)
        BY <3>1, <3>2, <3>3
      <4> HIDE DEF g, Done
      <4> QED BY <1>3, <4>1, <4>2
    <3> QED BY <3>3
  <2>5. ASSUME NEW R, NEW m, NEW M, NEW bp,
               \A h : Described(h, S, n, L) =>
                 HandsOut(h, S, n, L, mm_malloc(h, asize), R, m, M, bp, asize + 2)
        PROVE  bp \notin Used(S, n, L)
    BY <1>7, <2>5 DEF HandsOut
  <2> QED BY <1>1, <2>3, <2>4, <2>5, Mallocs
<1> QED BY <1>4, <1>5, <1>6, <1>7

=============================================================================
