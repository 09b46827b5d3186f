------------------------------ MODULE CsimProofs ------------------------------
(***************************************************************************)
(* Proofs about the cache simulator, for every geometry and every trace.   *)
(***************************************************************************)
EXTENDS CsimProps, FiniteSetTheorems, TLAPS

\* What every set satisfies between two accesses: the invariant, line by line
SetOK(set) ==
  /\ set \in [Line -> CacheLine]
  /\ \A i, j \in Line :
       set[i].age # 0 /\ set[j].age # 0 /\ set[i].tag = set[j].tag => i = j
  /\ \A i \in Line : set[i].age = 0 => set[i].tag = 0
  /\ \A i \in Line : set[i].age # 0 => \A k \in 1 .. i : set[k].age # 0
  /\ \A i, j \in Line :
       set[i].age # 0 /\ set[j].age # 0 /\ set[i].age = set[j].age => i = j

CountsOK == hitCount \in Nat /\ missCount \in Nat /\ evictionCount \in Nat
LineOK == line \in [action : Action, address : Addresses] \cup {NoLine}

Inv ==
  /\ cache \in [SetIndex -> [Line -> CacheLine]]
  /\ \A s \in SetIndex : SetOK(cache[s])
  /\ CountsOK /\ LineOK

-----------------------------------------------------------------------------
\* The set and the tag of an address are in range.
LEMMA AddressParts ==
  ASSUME NEW a \in Addresses
  PROVE  Index(a) \in SetIndex /\ Tag(a) \in Nat
<1>1. a \in Nat /\ S \in Nat \ {0} /\ B \in Nat \ {0}
  BY TraceAssumption, GeometryAssumption
<1>2. (a \div B) \in Nat
  BY <1>1
<1>3. (a \div B) % S \in 0 .. (S - 1)
  BY <1>1, <1>2
<1>4. B * S \in Nat \ {0}
  BY <1>1
<1>5. a \div (B * S) \in Nat
  BY <1>1, <1>4
<1> QED BY <1>3, <1>5 DEF Index, Tag, SetIndex

\* The fields of a line are numbers.
LEMMA LineFields ==
  ASSUME NEW set, SetOK(set), NEW i \in Line
  PROVE  set[i] \in CacheLine /\ set[i].tag \in Nat /\ set[i].age \in Nat
<1>1. set[i] \in CacheLine
  BY DEF SetOK
<1> QED BY <1>1 DEF CacheLine

\* A set is known by its tags and ages.
LEMMA FromFields ==
  ASSUME NEW new, new = [i \in Line |-> new[i]],
         NEW tags \in [Line -> Nat], NEW ages \in [Line -> Nat],
         \A i \in Line : new[i] = [tag |-> tags[i], age |-> ages[i]],
         \A i, k \in Line : ages[i] # 0 /\ ages[k] # 0 /\ tags[i] = tags[k] => i = k,
         \A i \in Line : ages[i] = 0 => tags[i] = 0,
         \A i \in Line : ages[i] # 0 => \A k \in 1 .. i : ages[k] # 0,
         \A i, k \in Line : ages[i] # 0 /\ ages[k] # 0 /\ ages[i] = ages[k] => i = k
  PROVE  SetOK(new)
<1>1. \A i \in Line : new[i].tag = tags[i] /\ new[i].age = ages[i]
  OBVIOUS
<1>2. \A i \in Line : new[i] \in CacheLine
  BY DEF CacheLine
<1>3. new \in [Line -> CacheLine]
  BY <1>2
<1>4. \A i \in Line : \A k \in 1 .. i : k \in Line
  BY GeometryAssumption DEF Line
<1>5. \A i \in Line : new[i].age # 0 => \A k \in 1 .. i : new[k].age # 0
  BY <1>1, <1>4
<1> QED BY <1>1, <1>3, <1>5 DEF SetOK

\* A hit leaves a good set.
LEMMA RehitKeepsSet ==
  ASSUME NEW set, SetOK(set), NEW tag \in Nat, NEW j \in HitLines(set, tag)
  PROVE  SetOK(Rehit(set, j))
<1> DEFINE new == Rehit(set, j)
           tags == [i \in Line |-> set[i].tag]
           ages == [i \in Line |-> IF i = j THEN 1
                                   ELSE IF set[i].age # 0 THEN set[i].age + 1 ELSE 0]
<1>1. j \in Line /\ set[j].age # 0
  BY DEF HitLines
<1>2. ASSUME NEW i \in Line PROVE InUseUpTo(set, i) <=> set[i].age # 0
  BY DEF InUseUpTo, SetOK, Line
<1>3. ASSUME NEW i \in Line PROVE new[i] = [tag |-> tags[i], age |-> ages[i]]
  <2>1. set[i] = [tag |-> set[i].tag, age |-> set[i].age]
    BY LineFields DEF CacheLine
  <2> QED BY <1>1, <1>2, <2>1 DEF Rehit, Fresh, Older
<1>4. new = [i \in Line |-> new[i]]
  BY DEF Rehit
<1>5. tags \in [Line -> Nat] /\ ages \in [Line -> Nat]
  BY LineFields
<1>6. \A i, k \in Line : ages[i] # 0 /\ ages[k] # 0 /\ tags[i] = tags[k] => i = k
  BY <1>1, LineFields DEF SetOK
<1>7. \A i \in Line : ages[i] = 0 => tags[i] = 0
  BY <1>1, LineFields DEF SetOK
<1>8. \A i \in Line : ages[i] # 0 => \A k \in 1 .. i : ages[k] # 0
  <2>1. \A i \in Line : \A k \in 1 .. i : k \in Line
    BY GeometryAssumption DEF Line
  <2> QED BY <1>1, <2>1, LineFields DEF SetOK
<1>9. \A i, k \in Line : ages[i] # 0 /\ ages[k] # 0 /\ ages[i] = ages[k] => i = k
  BY <1>1, LineFields DEF SetOK
<1> HIDE DEF new, tags, ages
<1> QED
  <2>1. SetOK(new)
    BY <1>3, <1>4, <1>5, <1>6, <1>7, <1>8, <1>9, FromFields
  <2> QED BY <2>1 DEF new

\* Putting a block into a line not in use leaves a good set.
LEMMA FilledKeepsSet ==
  ASSUME NEW set, SetOK(set), NEW tag \in Nat, HitLines(set, tag) = {},
         NEW j \in EmptyLines(set), \A i \in EmptyLines(set) : j <= i
  PROVE  SetOK(Filled(set, j, tag))
<1> DEFINE new == Filled(set, j, tag)
           tags == [i \in Line |-> IF i = j THEN tag ELSE set[i].tag]
           ages == [i \in Line |-> IF i = j THEN 1 ELSE IF i < j THEN set[i].age + 1 ELSE 0]
<1>1. j \in Line /\ set[j].age = 0
  BY DEF EmptyLines
<1>2. \A i \in Line : i < j => set[i].age # 0
  BY <1>1, LineFields DEF EmptyLines, SetOK, Line
<1>3. \A i \in Line : i > j => set[i].age = 0
  BY <1>1, GeometryAssumption DEF SetOK, Line
<1>4. ASSUME NEW i \in Line PROVE new[i] = [tag |-> tags[i], age |-> ages[i]]
  <2>1. set[i] = [tag |-> set[i].tag, age |-> set[i].age]
    BY LineFields DEF CacheLine
  <2>2. i = j \/ i < j \/ i > j
    BY <1>1 DEF Line
  <2> QED BY <1>1, <1>3, <2>1, <2>2 DEF Filled, Fresh, Older, Line
<1>5. new = [i \in Line |-> new[i]]
  BY DEF Filled
<1>6. tags \in [Line -> Nat] /\ ages \in [Line -> Nat]
  BY LineFields
<1>7. \A i, k \in Line : ages[i] # 0 /\ ages[k] # 0 /\ tags[i] = tags[k] => i = k
  BY <1>1, <1>2, <1>3, LineFields DEF SetOK, HitLines
<1>8. ASSUME NEW i \in Line, ages[i] = 0 PROVE tags[i] = 0
  <2>1. set[i].age \in Nat
    BY LineFields
  <2>2. i # j /\ ~(i < j)
    BY <1>8, <2>1
  <2>3. i > j
    BY <1>1, <2>2 DEF Line
  <2> QED BY <1>3, <2>2, <2>3 DEF SetOK
<1>9. \A i \in Line : ages[i] # 0 => \A k \in 1 .. i : ages[k] # 0
  <2>1. \A i \in Line : \A k \in 1 .. i : k \in Line
    BY GeometryAssumption DEF Line
  <2>2. \A i \in Line : ages[i] # 0 <=> i <= j
    BY <1>1, LineFields DEF Line
  <2> HIDE DEF ages
  <2> QED BY <1>1, <2>1, <2>2 DEF Line
<1>10. \A i, k \in Line : ages[i] # 0 /\ ages[k] # 0 /\ ages[i] = ages[k] => i = k
  BY <1>1, <1>2, <1>3, LineFields DEF SetOK
<1> HIDE DEF new, tags, ages
<1>11. SetOK(new)
  BY <1>4, <1>5, <1>6, <1>7, <1>8, <1>9, <1>10, FromFields
<1> QED BY <1>11 DEF new

\* Putting a block in the place of another leaves a good set.
LEMMA ReplacedKeepsSet ==
  ASSUME NEW set, SetOK(set), NEW tag \in Nat, HitLines(set, tag) = {}, EmptyLines(set) = {},
         NEW j \in Line
  PROVE  SetOK(Replaced(set, j, tag))
<1> DEFINE new == Replaced(set, j, tag)
           tags == [i \in Line |-> IF i = j THEN tag ELSE set[i].tag]
           ages == [i \in Line |-> IF i = j THEN 1 ELSE set[i].age + 1]
<1>1. \A i \in Line : set[i].age # 0
  BY DEF EmptyLines, SetOK
<1>2. ASSUME NEW i \in Line PROVE new[i] = [tag |-> tags[i], age |-> ages[i]]
  BY DEF Replaced, Fresh, Older
<1>3. new = [i \in Line |-> new[i]]
  BY DEF Replaced
<1>4. tags \in [Line -> Nat] /\ ages \in [Line -> Nat]
  BY LineFields
<1>5. \A i, k \in Line : ages[i] # 0 /\ ages[k] # 0 /\ tags[i] = tags[k] => i = k
  BY <1>1, LineFields DEF SetOK, HitLines
<1>6. \A i \in Line : ages[i] # 0
  BY LineFields
<1>7. \A i \in Line : ages[i] # 0 => \A k \in 1 .. i : ages[k] # 0
  <2>1. \A i \in Line : \A k \in 1 .. i : k \in Line
    BY GeometryAssumption DEF Line
  <2> QED BY <1>6, <2>1
<1>8. ASSUME NEW i \in Line, NEW k \in Line, ages[i] = ages[k] PROVE i = k
  <2>1. set[i].age \in Nat \ {0} /\ set[k].age \in Nat \ {0}
    BY <1>1, LineFields
  <2>2. i # j /\ k # j => set[i].age = set[k].age
    BY <1>8, <2>1
  <2>3. i = j <=> k = j
    BY <1>8, <2>1
  <2> QED BY <1>1, <2>2, <2>3 DEF SetOK
<1> HIDE DEF new, tags, ages
<1>9. SetOK(new)
  BY <1>2, <1>3, <1>4, <1>5, <1>6, <1>7, <1>8, FromFields
<1> QED BY <1>9 DEF new

-----------------------------------------------------------------------------
(***************************************************************************)
(* The invariant: between two accesses every set is good.                  *)
(***************************************************************************)
THEOREM Invariance == Spec => []Inv
<1>1. Init => Inv
  BY GeometryAssumption DEF Init, Inv, SetOK, CountsOK, LineOK, CacheLine
<1>2. Inv /\ [Next]_vars => Inv'
  <2> SUFFICES ASSUME Inv, Next PROVE Inv'
    BY DEF Inv, SetOK, CountsOK, LineOK, vars, counts
  <2>1. PICK action \in Action, address \in Addresses :
          /\ line' = [action |-> action, address |-> address]
          /\ addressCache(action, address)
    BY DEF Next
  <2> DEFINE s == Index(address)
             tag == Tag(address)
             extra == Extra(action)
  <2>2. s \in SetIndex /\ tag \in Nat /\ extra \in Nat
    BY AddressParts DEF Extra
  <2>3. LineOK'
    BY <2>1 DEF LineOK
  <2>4. Hit(s, tag, extra) \/ FillEmpty(s, tag, extra) \/ Evict(s, tag, extra)
    BY <2>1 DEF addressCache
  <2> HIDE DEF s, tag, extra
  <2>5. CountsOK'
    BY <2>2, <2>4 DEF Inv, CountsOK, Hit, FillEmpty, Evict
  <2>6. \E set : SetOK(set) /\ Store(s, set)
    <3>1. SetOK(cache[s])
      BY <2>2 DEF Inv
    <3>2. CASE Hit(s, tag, extra)
      BY <2>2, <3>1, <3>2, RehitKeepsSet DEF Hit
    <3>3. CASE FillEmpty(s, tag, extra)
      BY <2>2, <3>1, <3>3, FilledKeepsSet DEF FillEmpty
    <3>4. CASE Evict(s, tag, extra)
      BY <2>2, <3>1, <3>4, ReplacedKeepsSet DEF Evict, OldestLines
    <3> QED BY <2>4, <3>2, <3>3, <3>4
  <2>7. PICK set : SetOK(set) /\ cache' = [cache EXCEPT ![s] = set]
    BY <2>6 DEF Store
  <2>8. set \in [Line -> CacheLine]
    BY <2>7 DEF SetOK
  <2>9. cache' \in [SetIndex -> [Line -> CacheLine]]
    BY <2>2, <2>7, <2>8 DEF Inv
  <2>10. \A u \in SetIndex : SetOK(cache'[u])
    <3> SUFFICES ASSUME NEW u \in SetIndex PROVE SetOK(cache'[u])
      OBVIOUS
    <3>1. CASE u = s
      BY <2>2, <2>7, <3>1 DEF Inv
    <3>2. CASE u # s
      <4>1. cache'[u] = cache[u]
        BY <2>7, <3>2 DEF Inv
      <4> QED BY <4>1 DEF Inv
    <3> QED BY <3>1, <3>2
  <2> QED BY <2>3, <2>5, <2>9, <2>10 DEF Inv, SetOK
<1> QED BY <1>1, <1>2, PTL DEF Spec

(***************************************************************************)
(* The variables keep their types.                                         *)
(***************************************************************************)
THEOREM TypeCorrectness == Spec => []TypeOK
<1>1. Inv => TypeOK
  BY DEF Inv, CountsOK, LineOK, TypeOK
<1> QED BY <1>1, Invariance, PTL

(***************************************************************************)
(* A block is in at most one line, and a free line has tag 0.              *)
(***************************************************************************)
THEOREM LinesStayConsistent == Spec => []LinesConsistent
<1>1. Inv => LinesConsistent
  BY DEF Inv, SetOK, LinesConsistent, InUse
<1> QED BY <1>1, Invariance, PTL

(***************************************************************************)
(* The lines in use come first, and no two have the same age.              *)
(***************************************************************************)
THEOREM AgesStayOrdered == Spec => []AgesOrderLines
<1>1. Inv => AgesOrderLines
  BY GeometryAssumption DEF Inv, SetOK, AgesOrderLines, InUse, Line
<1> QED BY <1>1, Invariance, PTL

-----------------------------------------------------------------------------
(* The simulator implements the cache that replaces the least recently    *)
(* used block.                                                             *)

UsedLines(set) == {i \in Line : set[i].age # 0}
SetTags(set) == {set[i].tag : i \in UsedLines(set)}
SetOrder(set) ==
  {p \in SetTags(set) \X SetTags(set) : \E i, j \in UsedLines(set) :
     set[i].tag = p[1] /\ set[j].tag = p[2] /\ set[i].age > set[j].age}

\* The blocks of the lines other than j
Stay(set, j) == {set[i].tag : i \in UsedLines(set) \ {j}}

\* new comes from set by an access to the block with this tag, in line j.
Touched(set, new, j, tag) ==
  /\ new[j].tag = tag /\ new[j].age = 1
  /\ \A i \in Line \ {j} :
       /\ new[i].tag = set[i].tag
       /\ new[i].age = IF set[i].age = 0 THEN 0 ELSE set[i].age + 1

\* After an access its block is in the set, with those of the other lines.
LEMMA TouchedTags ==
  ASSUME NEW set, SetOK(set), NEW new, NEW j \in Line, NEW tag, Touched(set, new, j, tag)
  PROVE  /\ UsedLines(new) = UsedLines(set) \cup {j}
         /\ SetTags(new) = Stay(set, j) \cup {tag}
<1>1. \A i \in Line \ {j} : new[i].age # 0 <=> set[i].age # 0
  BY LineFields DEF Touched
<1>2. UsedLines(new) = UsedLines(set) \cup {j}
  BY <1>1 DEF Touched, UsedLines
<1>3. UsedLines(new) = (UsedLines(set) \ {j}) \cup {j}
  BY <1>2
<1>4. \A i \in UsedLines(set) \ {j} : new[i].tag = set[i].tag
  BY DEF Touched, UsedLines
<1>5. new[j].tag = tag
  BY DEF Touched
<1> QED BY <1>2, <1>3, <1>4, <1>5 DEF SetTags, Stay

\* The others keep their order, and the accessed block comes last.
LEMMA TouchedOrder ==
  ASSUME NEW set, SetOK(set), NEW new, SetOK(new), NEW j \in Line, NEW tag,
         Touched(set, new, j, tag), tag \notin Stay(set, j)
  PROVE  SetOrder(new) = (SetOrder(set) \cap (Stay(set, j) \X Stay(set, j)))
                           \cup (Stay(set, j) \X {tag})
<1> DEFINE stay == Stay(set, j)
           other == UsedLines(set) \ {j}
<1>1. /\ UsedLines(new) = other \cup {j}
      /\ SetTags(new) = stay \cup {tag}
  BY TouchedTags
<1>2. \A i \in other : /\ new[i].tag = set[i].tag /\ new[i].age = set[i].age + 1
                       /\ new[i].tag \in stay /\ set[i].age \in Nat \ {0}
  BY LineFields DEF Touched, UsedLines, Stay
<1>3. new[j].tag = tag /\ new[j].age = 1
  BY DEF Touched
<1>4. \A a \in stay : \E i \in other : set[i].tag = a
  BY DEF Stay
<1>5. stay \subseteq SetTags(set)
  BY DEF Stay, SetTags
<1>6. \A i, k \in UsedLines(set) : set[i].tag = set[k].tag => i = k
  BY DEF SetOK, UsedLines
<1>7. other \subseteq UsedLines(set) /\ j \notin other /\ tag \notin stay
  OBVIOUS
<1> HIDE DEF stay, other
<1>8. ASSUME NEW a, NEW b
      PROVE  <<a, b>> \in SetOrder(new) <=>
               /\ a \in stay /\ b \in stay \cup {tag}
               /\ b \in stay => <<a, b>> \in SetOrder(set)
  <2>1. ASSUME <<a, b>> \in SetOrder(new)
        PROVE  /\ a \in stay /\ b \in stay \cup {tag}
               /\ b \in stay => <<a, b>> \in SetOrder(set)
    <3>1. PICK i \in other \cup {j}, k \in other \cup {j} :
            new[i].tag = a /\ new[k].tag = b /\ new[i].age > new[k].age
      BY <1>1, <2>1 DEF SetOrder
    <3>2. i # j
      BY <1>2, <1>3, <3>1
    <3>3. a \in stay
      BY <1>2, <3>1, <3>2
    <3>4. b \in stay \cup {tag}
      BY <1>2, <1>3, <3>1
    <3>5. ASSUME b \in stay PROVE <<a, b>> \in SetOrder(set)
      <4>1. k # j
        BY <1>3, <1>7, <3>1, <3>5
      <4>2. set[i].tag = a /\ set[k].tag = b /\ set[i].age > set[k].age
        BY <1>2, <3>1, <3>2, <4>1
      <4> QED BY <1>5, <1>7, <3>1, <3>2, <3>3, <3>5, <4>1, <4>2 DEF SetOrder
    <3> QED BY <3>3, <3>4, <3>5
  <2>2. ASSUME a \in stay, b \in stay, <<a, b>> \in SetOrder(set)
        PROVE  <<a, b>> \in SetOrder(new)
    <3>1. PICK i \in UsedLines(set), k \in UsedLines(set) :
            set[i].tag = a /\ set[k].tag = b /\ set[i].age > set[k].age
      BY <2>2 DEF SetOrder
    <3>2. i \in other /\ k \in other
      BY <1>4, <1>6, <1>7, <2>2, <3>1
    <3>3. new[i].tag = a /\ new[k].tag = b /\ new[i].age > new[k].age
      BY <1>2, <3>1, <3>2
    <3> QED BY <1>1, <2>2, <3>2, <3>3 DEF SetOrder
  <2>3. ASSUME a \in stay, b = tag PROVE <<a, b>> \in SetOrder(new)
    <3>1. PICK i \in other : set[i].tag = a
      BY <1>4, <2>3
    <3>2. new[i].tag = a /\ new[j].tag = b /\ new[i].age > new[j].age
      BY <1>2, <1>3, <2>3, <3>1
    <3> QED BY <1>1, <2>3, <3>1, <3>2 DEF SetOrder
  <2> QED BY <2>1, <2>2, <2>3
<1>9. \A p \in SetOrder(new) : p = <<p[1], p[2]>>
  BY DEF SetOrder
<1>10. SetOrder(new) \subseteq (SetOrder(set) \cap (stay \X stay)) \cup (stay \X {tag})
  BY <1>8, <1>9
<1>11. (SetOrder(set) \cap (stay \X stay)) \cup (stay \X {tag}) \subseteq SetOrder(new)
  <2>1. ASSUME NEW p \in SetOrder(set) \cap (stay \X stay) PROVE p \in SetOrder(new)
    <3>1. p = <<p[1], p[2]>> /\ p[1] \in stay /\ p[2] \in stay
      BY <2>1
    <3>2. <<p[1], p[2]>> \in SetOrder(set)
      BY <2>1, <3>1
    <3>3. <<p[1], p[2]>> \in SetOrder(new)
      BY <1>8, <3>1, <3>2
    <3> QED BY <3>1, <3>3
  <2>2. ASSUME NEW p \in stay \X {tag} PROVE p \in SetOrder(new)
    <3>1. p = <<p[1], tag>> /\ p[1] \in stay
      BY <2>2
    <3>2. <<p[1], tag>> \in SetOrder(new)
      BY <1>7, <1>8, <3>1
    <3> QED BY <3>1, <3>2
  <2> QED BY <2>1, <2>2
<1> QED BY <1>10, <1>11 DEF stay

\* A set is full exactly when no line is free.
LEMMA FullSet ==
  ASSUME NEW set, SetOK(set)
  PROVE  /\ EmptyLines(set) # {} => Cardinality(SetTags(set)) < E
         /\ EmptyLines(set) = {} => Cardinality(SetTags(set)) = E
<1> DEFINE U == UsedLines(set)
           f == [i \in U |-> set[i].tag]
<1>1. IsFiniteSet(Line) /\ Cardinality(Line) = E
  BY GeometryAssumption, FS_Interval DEF Line
<1>2. U \subseteq Line
  BY DEF UsedLines
<1>3. IsFiniteSet(U) /\ Cardinality(U) <= E /\ (Cardinality(U) = E => U = Line)
  BY <1>1, <1>2, FS_Subset
<1>4. f \in Bijection(U, SetTags(set))
  BY DEF Bijection, Injection, Surjection, IsInjective, SetTags, SetOK, UsedLines
<1>5. Cardinality(SetTags(set)) = Cardinality(U)
  BY <1>3, <1>4, FS_Bijection DEF ExistsBijection
<1>6. Cardinality(U) \in Nat
  BY <1>3, FS_CardinalityType
<1>7. EmptyLines(set) = Line \ U
  BY DEF EmptyLines, SetOK, UsedLines
<1> QED BY <1>1, <1>2, <1>3, <1>5, <1>6, <1>7, GeometryAssumption

resident == [s \in SetIndex |-> TagsOf(s)]
before == [s \in SetIndex |-> UsedBefore(s)]
request == IF line = NoLine THEN <<>>
           ELSE <<Index(line.address), Tag(line.address), Extra(line.action)>>

\* The mapping, set by set
LEMMA Mapping ==
  ASSUME NEW s \in SetIndex
  PROVE  resident[s] = SetTags(cache[s]) /\ before[s] = SetOrder(cache[s])
BY DEF resident, before, TagsOf, UsedBefore, InUse, SetTags, SetOrder, UsedLines

\* An access changes the set of its block as LRUCache!Use does.
LEMMA AccessIsUse ==
  ASSUME Inv, Inv', NEW s \in SetIndex, NEW tag \in Nat, NEW j \in Line, NEW victims,
         cache' = [cache EXCEPT ![s] = cache'[s]],
         Touched(cache[s], cache'[s], j, tag), tag \notin Stay(cache[s], j),
         SetTags(cache[s]) \ (victims \cup {tag}) = Stay(cache[s], j)
  PROVE  LRU!Use(s, tag, victims)
<1> DEFINE stay == Stay(cache[s], j)
<1>1. SetOK(cache[s]) /\ SetOK(cache'[s])
  BY DEF Inv, SetOK
<1>2. \A u \in SetIndex \ {s} : cache'[u] = cache[u]
  BY DEF Inv
<1>3. SetTags(cache'[s]) = stay \cup {tag}
  BY <1>1, TouchedTags
<1>4. SetOrder(cache'[s]) = (SetOrder(cache[s]) \cap (stay \X stay)) \cup (stay \X {tag})
  BY <1>1, TouchedOrder
<1>5. resident[s] = SetTags(cache[s]) /\ before[s] = SetOrder(cache[s])
  BY Mapping
<1>6. \A u \in SetIndex : resident'[u] = SetTags(cache'[u]) /\ before'[u] = SetOrder(cache'[u])
  BY DEF resident, before, TagsOf, UsedBefore, InUse, SetTags, SetOrder, UsedLines
<1>7. \A u \in SetIndex : resident[u] = SetTags(cache[u]) /\ before[u] = SetOrder(cache[u])
  BY Mapping
<1>8. resident[s] \ (victims \cup {tag}) = stay
  BY <1>5
<1> HIDE DEF stay
<1>9. resident = [u \in SetIndex |-> resident[u]] /\ resident' = [u \in SetIndex |-> resident'[u]]
  BY DEF resident
<1>10. before = [u \in SetIndex |-> before[u]] /\ before' = [u \in SetIndex |-> before'[u]]
  BY DEF before
<1>11. resident' = [resident EXCEPT ![s] = stay \cup {tag}]
  BY <1>2, <1>3, <1>6, <1>7, <1>9
<1>12. before' = [before EXCEPT ![s] = (before[s] \cap (stay \X stay)) \cup (stay \X {tag})]
  BY <1>2, <1>4, <1>6, <1>7, <1>10
<1> QED BY <1>8, <1>11, <1>12 DEF LRU!Use, resident, before

\* A hit touches its line and drops no block.
LEMMA HitTouches ==
  ASSUME NEW set, SetOK(set), NEW tag \in Nat, NEW j \in HitLines(set, tag)
  PROVE  /\ j \in Line /\ Touched(set, Rehit(set, j), j, tag)
         /\ tag \in SetTags(set) /\ tag \notin Stay(set, j)
         /\ SetTags(set) \ ({} \cup {tag}) = Stay(set, j)
<1>1. j \in Line /\ set[j].tag = tag /\ set[j].age # 0
  BY DEF HitLines
<1>2. \A i \in Line : InUseUpTo(set, i) <=> set[i].age # 0
  BY DEF InUseUpTo, SetOK, Line
<1>3. Touched(set, Rehit(set, j), j, tag)
  BY <1>1, <1>2 DEF Touched, Rehit, Fresh, Older
<1>4. tag \in SetTags(set)
  BY <1>1 DEF SetTags, UsedLines
<1>5. \A i \in UsedLines(set) : set[i].tag = tag <=> i = j
  BY <1>1 DEF SetOK, UsedLines
<1>6. tag \notin Stay(set, j) /\ SetTags(set) \ ({} \cup {tag}) = Stay(set, j)
  BY <1>5 DEF Stay, SetTags
<1> QED BY <1>1, <1>3, <1>4, <1>6

\* A miss leaves the tag unknown.
LEMMA MissMeans ==
  ASSUME NEW set, NEW tag, HitLines(set, tag) = {}
  PROVE  tag \notin SetTags(set) /\ \A j \in Line : tag \notin Stay(set, j)
BY DEF HitLines, SetTags, Stay, UsedLines

\* Filling a free line touches it and drops no block.
LEMMA FillTouches ==
  ASSUME NEW set, SetOK(set), NEW tag \in Nat, HitLines(set, tag) = {},
         NEW j \in EmptyLines(set), \A i \in EmptyLines(set) : j <= i
  PROVE  /\ j \in Line /\ Touched(set, Filled(set, j, tag), j, tag)
         /\ SetTags(set) \ ({} \cup {tag}) = Stay(set, j)
<1>1. j \in Line /\ set[j].age = 0
  BY DEF EmptyLines
<1>2. \A i \in Line : i < j => set[i].age # 0
  BY <1>1, LineFields DEF EmptyLines, SetOK, Line
<1>3. \A i \in Line : i > j => set[i].age = 0
  BY <1>1, GeometryAssumption DEF SetOK, Line
<1>4. \A i \in Line \ {j} : i < j \/ i > j
  BY <1>1 DEF Line
<1>5. Touched(set, Filled(set, j, tag), j, tag)
  BY <1>1, <1>2, <1>3, <1>4 DEF Touched, Filled, Fresh, Older, Line
<1>6. UsedLines(set) \ {j} = UsedLines(set)
  BY <1>1 DEF UsedLines
<1>7. SetTags(set) = Stay(set, j)
  BY <1>6 DEF SetTags, Stay
<1> QED BY <1>1, <1>5, <1>7, MissMeans

\* Replacing the oldest line touches it and drops its block, which all others follow.
LEMMA EvictTouches ==
  ASSUME NEW set, SetOK(set), NEW tag \in Nat, HitLines(set, tag) = {},
         EmptyLines(set) = {}, NEW j \in OldestLines(set)
  PROVE  /\ j \in Line /\ Touched(set, Replaced(set, j, tag), j, tag)
         /\ set[j].tag \in SetTags(set)
         /\ SetTags(set) \ ({set[j].tag} \cup {tag}) = Stay(set, j)
         /\ \A b \in SetTags(set) \ {set[j].tag} : <<set[j].tag, b>> \in SetOrder(set)
<1>1. j \in Line /\ \A i \in Line : set[i].age <= set[j].age
  BY DEF OldestLines
<1>2. UsedLines(set) = Line
  BY DEF EmptyLines, SetOK, UsedLines
<1>3. Touched(set, Replaced(set, j, tag), j, tag)
  BY <1>1, <1>2 DEF Touched, Replaced, Fresh, Older, UsedLines
<1>4. set[j].tag \in SetTags(set)
  BY <1>1, <1>2 DEF SetTags
<1>5. \A i \in Line : set[i].tag = set[j].tag <=> i = j
  BY <1>1, <1>2 DEF SetOK, UsedLines
<1>6. SetTags(set) \ {set[j].tag} = Stay(set, j)
  BY <1>2, <1>5 DEF SetTags, Stay
<1>7. ASSUME NEW b \in SetTags(set) \ {set[j].tag} PROVE <<set[j].tag, b>> \in SetOrder(set)
  <2>1. PICK k \in Line : set[k].tag = b
    BY <1>2, <1>7 DEF SetTags
  <2>2. k # j
    BY <1>7, <2>1
  <2>3. set[k].age # set[j].age
    BY <1>1, <1>2, <2>2 DEF SetOK, UsedLines
  <2>4. set[k].age \in Nat /\ set[j].age \in Nat /\ set[k].age <= set[j].age
    BY <1>1, LineFields
  <2>5. set[j].age > set[k].age
    BY <2>3, <2>4
  <2> QED BY <1>1, <1>2, <1>4, <1>7, <2>1, <2>5 DEF SetOrder
<1> QED BY <1>1, <1>3, <1>4, <1>6, <1>7, MissMeans

(* The two names of one operator of FiniteSets *)
LEMMA SameCardinality == \A X : LRU!Cardinality(X) = Cardinality(X)
BY DEF Cardinality, LRU!Cardinality

(***************************************************************************)
(* The simulator implements the least-recently-used cache: every access is *)
(* a hit, a fill or a replacement of the abstract cache, with its counts.  *)
(***************************************************************************)
THEOREM ImplementsLRU == Spec => IsLRU
<1>1. Init => LRU!Init
  BY DEF Init, LRU!Init, SetIndex, TagsOf, UsedBefore, InUse, NoLine, Line
<1>2. Inv /\ Inv' /\ [Next]_vars => [LRU!Next]_<<request, resident, before, hitCount, missCount, evictionCount>>
  <2>1. ASSUME UNCHANGED vars
        PROVE  UNCHANGED <<request, resident, before, hitCount, missCount, evictionCount>>
    BY <2>1 DEF vars, counts, request, resident, before, TagsOf, UsedBefore, InUse
  <2>2. ASSUME Inv, Inv', Next PROVE LRU!Next
    <3>1. PICK action \in Action, address \in Addresses :
            /\ line' = [action |-> action, address |-> address]
            /\ addressCache(action, address)
      BY <2>2 DEF Next
    <3> DEFINE s == Index(address)
               tag == Tag(address)
               extra == Extra(action)
    <3>2. s \in SetIndex /\ tag \in Nat /\ extra \in {0, 1}
      BY AddressParts DEF Extra
    <3>3. tag \in {Tag(a) : a \in Addresses}
      OBVIOUS
    <3>4. request' = <<s, tag, extra>>
      BY <3>1 DEF request, NoLine, Action
    <3>5. Hit(s, tag, extra) \/ FillEmpty(s, tag, extra) \/ Evict(s, tag, extra)
      BY <3>1 DEF addressCache
    <3> HIDE DEF s, tag, extra
    <3>6. SetOK(cache[s]) /\ SetOK(cache'[s])
      BY <2>2, <3>2 DEF Inv, SetOK
    <3>7. resident[s] = SetTags(cache[s]) /\ before[s] = SetOrder(cache[s])
      BY <3>2, Mapping
    <3>8. cache \in [SetIndex -> [Line -> CacheLine]]
      BY <2>2 DEF Inv
    <3>9. CASE Hit(s, tag, extra)
      <4>1. PICK j \in HitLines(cache[s], tag) : cache' = [cache EXCEPT ![s] = Rehit(cache[s], j)]
        BY <3>9 DEF Hit, Store
      <4>2. cache'[s] = Rehit(cache[s], j) /\ cache' = [cache EXCEPT ![s] = cache'[s]]
        BY <3>2, <3>8, <4>1
      <4>3. /\ j \in Line /\ Touched(cache[s], cache'[s], j, tag)
            /\ tag \in SetTags(cache[s]) /\ tag \notin Stay(cache[s], j)
            /\ SetTags(cache[s]) \ ({} \cup {tag}) = Stay(cache[s], j)
        BY <3>2, <3>6, <4>2, HitTouches
      <4>4. LRU!Use(s, tag, {})
        BY <2>2, <3>2, <4>2, <4>3, AccessIsUse
      <4>5. LRU!Hit(s, tag, extra)
        BY <3>7, <3>9, <4>3, <4>4 DEF LRU!Hit, Hit, resident
      <4> QED BY <3>2, <3>3, <3>4, <4>5 DEF LRU!Next, SetIndex, request
    <3>10. CASE FillEmpty(s, tag, extra)
      <4>1. PICK j \in EmptyLines(cache[s]) :
              /\ \A i \in EmptyLines(cache[s]) : j <= i
              /\ cache' = [cache EXCEPT ![s] = Filled(cache[s], j, tag)]
        BY <3>10 DEF FillEmpty, Store
      <4>2. cache'[s] = Filled(cache[s], j, tag) /\ cache' = [cache EXCEPT ![s] = cache'[s]]
        BY <3>2, <3>8, <4>1
      <4>3. HitLines(cache[s], tag) = {}
        BY <3>10 DEF FillEmpty
      <4>4. /\ j \in Line /\ Touched(cache[s], cache'[s], j, tag)
            /\ SetTags(cache[s]) \ ({} \cup {tag}) = Stay(cache[s], j)
        BY <3>2, <3>6, <4>1, <4>2, <4>3, FillTouches
      <4>5. LRU!Use(s, tag, {})
        BY <2>2, <3>2, <4>2, <4>3, <4>4, AccessIsUse, MissMeans
      <4>6. tag \notin resident[s] /\ Cardinality(resident[s]) < E
        BY <3>6, <3>7, <4>1, <4>3, MissMeans, FullSet
      <4>7. LRU!Fill(s, tag, extra)
        BY <3>10, <4>5, <4>6, SameCardinality DEF LRU!Fill, FillEmpty, resident
      <4> QED BY <3>2, <3>3, <3>4, <4>7 DEF LRU!Next, SetIndex, request
    <3>11. CASE Evict(s, tag, extra)
      <4>1. PICK j \in OldestLines(cache[s]) : cache' = [cache EXCEPT ![s] = Replaced(cache[s], j, tag)]
        BY <3>11 DEF Evict, Store
      <4>2. cache'[s] = Replaced(cache[s], j, tag) /\ cache' = [cache EXCEPT ![s] = cache'[s]]
        BY <3>2, <3>8, <4>1
      <4>3. HitLines(cache[s], tag) = {} /\ EmptyLines(cache[s]) = {}
        BY <3>11 DEF Evict
      <4> DEFINE v == cache[s][j].tag
      <4>4. /\ j \in Line /\ Touched(cache[s], cache'[s], j, tag)
            /\ v \in SetTags(cache[s])
            /\ SetTags(cache[s]) \ ({v} \cup {tag}) = Stay(cache[s], j)
            /\ \A b \in SetTags(cache[s]) \ {v} : <<v, b>> \in SetOrder(cache[s])
        BY <3>2, <3>6, <4>1, <4>2, <4>3, EvictTouches
      <4> HIDE DEF v
      <4>5. LRU!Use(s, tag, {v})
        BY <2>2, <3>2, <4>2, <4>3, <4>4, AccessIsUse, MissMeans
      <4>6. tag \notin resident[s] /\ Cardinality(resident[s]) = E
        BY <3>6, <3>7, <4>3, MissMeans, FullSet
      <4>7. v \in resident[s] /\ \A b \in resident[s] \ {v} : <<v, b>> \in before[s]
        BY <3>7, <4>4
      <4>8. LRU!Replace(s, tag, extra)
        BY <3>11, <4>5, <4>6, <4>7, SameCardinality DEF LRU!Replace, Evict, resident, before
      <4> QED BY <3>2, <3>3, <3>4, <4>8 DEF LRU!Next, SetIndex, request
    <3> QED BY <3>5, <3>9, <3>10, <3>11
  <2> QED BY <2>1, <2>2
<1> QED BY <1>1, <1>2, Invariance, PTL DEF Spec, IsLRU, LRU!Spec, request, resident, before
=============================================================================
