----------------------- MODULE BattlegroupOpsProofs -----------------------
(***************************************************************************)
(* Proofs about BattlegroupDoc and BattlegroupOps: for any clients and     *)
(* requests, any number of operations and faults, and any resource that    *)
(* WorldAssumption admits.                                                 *)
(***************************************************************************)
EXTENDS BattlegroupOps, FiniteSetTheorems, SequenceTheorems,
        WellFoundedInduction, TLAPS

\* The ids of the partitions of the maps other than Survival.
OtherIds(d) == UNION {IdSet(d[<<"partitions", m>>]) : m \in Maps \ {Survival}}

\* Survival's partitions when an operation has counted them: in order, and with
\* ids that no other map has.
SurvivalList(others, q) ==
    /\ q \in Partitions /\ q # <<>>
    /\ InOrder(q)
    /\ \A i, j \in DOMAIN q : i # j => q[i].id # q[j].id
    /\ IdSet(q) \cap others = {}

\* The members of Survival that are only changed together.
World == {<<"partitions", Survival>>, <<"replicas", Survival>>, <<"set", Survival>>}
Agrees(d) ==
    /\ d[<<"set", Survival>>] = Ids(d[<<"partitions", Survival>>])
    /\ d[<<"replicas", Survival>>] = Len(d[<<"partitions", Survival>>])

\* The one instance of Deep Desert that is kept.
Kept == ByDimension(InitialDoc[<<"partitions", DeepDesert>>])[1]

\* The resource: Deep Desert is as it was or cut to one instance, the maps
\* besides are as they were, and Survival follows them.
WorldInv(d) ==
    /\ DOMAIN d = Fields
    /\ SurvivalList(OtherIds(d), d[<<"partitions", Survival>>])
    /\ Agrees(d)
    /\ d[<<"partitions", DeepDesert>>] \in {InitialDoc[<<"partitions", DeepDesert>>], <<Kept>>}
    /\ \A m \in Maps \ {Survival, DeepDesert} :
            d[<<"partitions", m>>] = InitialDoc[<<"partitions", m>>]

\* A patch, whenever its copy was read: it has all of Survival's world or none
\* of it, a whole one that is still free of the other maps' ids.
SoundPatch(others, patch) ==
    /\ DOMAIN patch \subseteq Fields
    /\ World \cap DOMAIN patch = {}
       \/ (World \subseteq DOMAIN patch /\ Agrees(patch)
            /\ SurvivalList(others, patch[<<"partitions", Survival>>]))
    /\ <<"partitions", DeepDesert>> \in DOMAIN patch
            => patch[<<"partitions", DeepDesert>>] = <<Kept>>
    /\ \A m \in Maps \ {Survival, DeepDesert} : <<"partitions", m>> \notin DOMAIN patch

Elements(s) == {s[i] : i \in DOMAIN s}

\* What is left of a command or script: patches of that kind, and after an
\* allocation the rest of its script.
SoundProcess(others, left) ==
    /\ left \in Seq(Elements(left))
    /\ \A i \in DOMAIN left :
        /\ left[i].do = "patch" => SoundPatch(others, left[i].fields)
        /\ left[i].do = "allocate" => i < Len(left)

Reading == {"instances", "name", "region", "swap"}
StepsOf(r) ==
    {"patch", "config", "enable swap", "restart", "await", "check", "start", "stop", "verify"}
        \cup (IF r.kind \in Reading THEN {"read"} ELSE {})

SoundOp(others, o) ==
    /\ DOMAIN o = DOMAIN Idle
    /\ o.request = NoRequest \/ (o.request \in Requests /\ Valid(o.request))
    /\ o.todo \in Seq(StepsOf(o.request))
    /\ \A i \in DOMAIN o.todo : o.todo[i] = "read" => i < Len(o.todo)
    /\ SoundPatch(others, o.fields)
    /\ o.process # Absent => SoundProcess(others, o.process)

\* What a client waits for is the script of its next step.
Sent(o) == o.process # Absent => o.todo # <<>> /\ Head(o.todo) \in ScriptSteps

SoundOrphan(others, o) ==
    /\ DOMAIN o = {"request", "left"}
    /\ o.left # <<>>
    /\ SoundProcess(others, o.left)

\* What every step keeps: the resource is whole, and whatever is computed, sent
\* or abandoned will leave it whole.
OpsInv ==
    /\ WorldInv(doc)
    /\ DOMAIN op = Clients
    /\ \A c \in Clients : SoundOp(OtherIds(doc), op[c]) /\ Sent(op[c])
    /\ \A o \in orphans : SoundOrphan(OtherIds(doc), o)
-----------------------------------------------------------------------------
\* Numbers: the least and the greatest of a set.

\* A set of naturals that is not empty has a least element.
LEMMA LeastNatural ==
    ASSUME NEW S, S \subseteq Nat, S # {}
    PROVE  \E x \in S : \A y \in S : x <= y
<1>1. PICK x \in S : \A y \in S : <<y, x>> \notin OpToRel(<, Nat)
  BY NatLessThanWellFounded, WFMin, Zenon
<1>2. \A y \in S : ~(y < x)
  BY <1>1 DEF OpToRel
<1> QED BY <1>2

\* A finite set has a greatest number: otherwise the step to the next greater
\* one maps the set into the set without its least, one to one.
LEMMA GreatestNatural ==
    ASSUME NEW S, S \subseteq Nat, S # {}, IsFiniteSet(S)
    PROVE  /\ Largest(S) \in S
           /\ \A k \in S : k <= Largest(S)
<1> DEFINE Above(x) == {y \in S : x < y}
           Successor(x) == CHOOSE y \in Above(x) : \A z \in Above(x) : y <= z
           f == [x \in S |-> Successor(x)]
<1>1. \E n \in S : \A k \in S : k <= n
  <2> SUFFICES ASSUME \A n \in S : Above(n) # {} PROVE FALSE
    OBVIOUS
  <2>1. ASSUME NEW x \in S
        PROVE  f[x] \in Above(x) /\ \A z \in Above(x) : f[x] <= z
    <3> DEFINE A == Above(x)
    <3>1. A \subseteq Nat /\ A # {}
      OBVIOUS
    <3> HIDE DEF A
    <3>2. \E y \in A : \A z \in A : y <= z
      BY <3>1, LeastNatural
    <3> QED BY <3>2 DEF A
  <2> HIDE DEF f
  <2>2. f \in [S -> S]
    BY <2>1 DEF f
  <2>3. \A x, y \in S : f[x] = f[y] => x = y
    <3> SUFFICES ASSUME NEW x \in S, NEW y \in S, x < y PROVE f[x] # f[y]
      OBVIOUS
    <3>1. f[x] <= y /\ y < f[y] /\ f[x] \in Nat /\ f[y] \in Nat
      BY <2>1
    <3> QED BY <3>1
  <2>4. f \in Injection(S, S)
    BY <2>2, <2>3 DEF Injection, IsInjective
  <2>5. f \in Surjection(S, S)
    BY <2>4, FS_Injection
  <2>6. PICK x \in S : \A y \in S : x <= y
    BY LeastNatural
  <2>7. PICK y \in S : f[y] = x
    BY <2>5 DEF Surjection
  <2> QED BY <2>1, <2>6, <2>7
<1> QED BY <1>1 DEF Largest

\* The first n naturals are n.
LEMMA CountTo ==
    ASSUME NEW n \in Nat
    PROVE  IsFiniteSet(1 .. n) /\ Cardinality(1 .. n) = n
BY FS_Interval
-----------------------------------------------------------------------------
\* Lists of partitions.

\* A list of partitions is a function on its positions.
LEMMA Listed ==
    ASSUME NEW q, q \in Partitions
    PROVE  /\ Len(q) \in Nat /\ DOMAIN q = 1 .. Len(q)
           /\ q = [i \in 1 .. Len(q) |-> q[i]]
           /\ \A i \in DOMAIN q :
                /\ i \in Nat /\ 1 <= i /\ i <= Len(q)
                /\ q[i] \in [id: Nat, dimension: Nat]
                /\ q[i].id \in Nat /\ q[i].dimension \in Nat
           /\ q # <<>> => 1 \in DOMAIN q /\ Len(q) >= 1
<1> DEFINE R == [id: Nat, dimension: Nat]
<1>1. /\ Len(q) \in Nat /\ q \in [1 .. Len(q) -> R]
      /\ q # <<>> => Len(q) >= 1
  <2>1. q \in Seq(R)
    BY DEF Partitions
  <2> HIDE DEF R
  <2>2. q # <<>> => Len(q) # 0
    BY <2>1, EmptySeq
  <2> QED BY <2>1, <2>2, LenProperties
<1>2. \A r \in R : r.id \in Nat /\ r.dimension \in Nat
  OBVIOUS
<1> HIDE DEF R
<1>3. DOMAIN q = 1 .. Len(q) /\ q = [i \in 1 .. Len(q) |-> q[i]]
  BY <1>1
<1>4. \A i \in DOMAIN q : i \in Nat /\ 1 <= i /\ i <= Len(q) /\ q[i] \in R
  BY <1>1
<1> QED BY <1>1, <1>2, <1>3, <1>4 DEF R

\* In a list in order, each partition has its position as its rank.
LEMMA InOrderRank ==
    ASSUME NEW q, q \in Partitions, InOrder(q), NEW i \in DOMAIN q
    PROVE  Rank(q, i) = i
<1>1. {j \in DOMAIN q : j = i \/ Before(q, j, i)} = 1 .. i
  <2>1. \A j \in DOMAIN q : q[j].dimension \in Nat /\ q[j].id \in Nat /\ j \in Nat
    BY Listed
  <2>2. ASSUME NEW j \in DOMAIN q, Before(q, j, i) PROVE j < i
    <3>1. ~(i < j)
      BY <2>1, <2>2 DEF Before, InOrder
    <3> QED BY <2>1, <2>2, <3>1 DEF Before
  <2>3. \A j \in DOMAIN q : j < i => Before(q, j, i)
    BY DEF InOrder
  <2>4. DOMAIN q = 1 .. Len(q) /\ Len(q) \in Nat
    BY Listed
  <2> QED BY <2>2, <2>3, <2>4
<1>2. i \in Nat /\ 1 <= i
  BY Listed
<1>3. Cardinality(1 .. i) = i
  BY <1>2, CountTo
<1> QED BY <1>1, <1>3 DEF Rank

\* What is in order stays as it is.
LEMMA InOrderStays ==
    ASSUME NEW q, q \in Partitions, InOrder(q)
    PROVE  ByDimension(q) = q
<1> DEFINE at(n) == CHOOSE i \in DOMAIN q : Rank(q, i) = n
<1>1. \A n \in DOMAIN q : at(n) = n
  BY InOrderRank
<1>2. q = [n \in DOMAIN q |-> q[n]]
  BY Listed
<1>3. ByDimension(q) = [n \in DOMAIN q |-> q[at(n)]]
  BY DEF ByDimension
<1> HIDE DEF at
<1> QED BY <1>1, <1>2, <1>3

\* Some partition comes first.
LEMMA FirstExists ==
    ASSUME NEW q, q \in Partitions, q # <<>>
    PROVE  ByDimension(q)[1] \in Elements(q)
<1> DEFINE D == DOMAIN q
           lowest == {q[i].dimension : i \in D}
<1>1. /\ D \subseteq Nat /\ 1 \in D
      /\ \A i \in D : q[i].dimension \in Nat /\ q[i].id \in Nat
  BY Listed
<1>2. PICK d \in lowest : \A e \in lowest : d <= e
  <2>1. lowest \subseteq Nat /\ lowest # {}
    BY <1>1
  <2> QED BY <2>1, LeastNatural
<1> DEFINE ids == {q[i].id : i \in {j \in D : q[j].dimension = d}}
<1>3. PICK n \in ids : \A e \in ids : n <= e
  <2>1. ids \subseteq Nat /\ ids # {}
    BY <1>1, <1>2
  <2> QED BY <2>1, LeastNatural
<1> DEFINE I == {j \in D : q[j].dimension = d /\ q[j].id = n}
<1>4. PICK i \in I : \A j \in I : i <= j
  <2>1. I \subseteq Nat /\ I # {}
    BY <1>1, <1>3
  <2> QED BY <2>1, LeastNatural
<1>5. \A j \in D : ~Before(q, j, i)
  <2> SUFFICES ASSUME NEW j \in D, Before(q, j, i) PROVE FALSE
    OBVIOUS
  <2>1. d <= q[j].dimension
    BY <1>2
  <2>2. q[j].dimension = d => n <= q[j].id
    BY <1>3
  <2>3. j \in I => i <= j
    BY <1>4
  <2>4. i \in D /\ q[i].dimension = d /\ q[i].id = n
    BY <1>4
  <2> QED BY <1>1, <2>1, <2>2, <2>3, <2>4 DEF Before
<1>6. i \in D
  BY <1>4
<1>7. Rank(q, i) = 1
  <2>1. {j \in DOMAIN q : j = i \/ Before(q, j, i)} = {i}
    BY <1>5, <1>6
  <2> QED BY <2>1, FS_Singleton DEF Rank
<1>8. (CHOOSE j \in DOMAIN q : Rank(q, j) = 1) \in DOMAIN q
  BY <1>6, <1>7
<1> QED BY <1>1, <1>8 DEF ByDimension, Elements

\* The instance of Deep Desert that is kept is one of the initial ones.
LEMMA KeptIsThere ==
    /\ Kept \in Elements(InitialDoc[<<"partitions", DeepDesert>>])
    /\ Kept \in [id: Nat, dimension: Nat]
    /\ ByDimension(<<Kept>>) = <<Kept>>
<1> DEFINE D == InitialDoc[<<"partitions", DeepDesert>>]
<1>1. D \in Partitions /\ D # <<>>
  BY WorldAssumption DEF Maps
<1>2. Kept \in Elements(D)
  BY <1>1, FirstExists DEF Kept
<1>3. Kept \in [id: Nat, dimension: Nat]
  BY <1>1, <1>2, Listed DEF Elements
<1>4. <<Kept>> \in Partitions /\ InOrder(<<Kept>>)
  BY <1>3 DEF Partitions, InOrder
<1> QED BY <1>2, <1>3, <1>4, InOrderStays

\* In each map as many ids as partitions, if no two have the same.
LEMMA DistinctIds ==
    ASSUME NEW q, q \in Partitions,
           \A i, j \in DOMAIN q : i # j => q[i].id # q[j].id
    PROVE  Cardinality(IdSet(q)) = Len(q)
<1> DEFINE f == [i \in 1 .. Len(q) |-> q[i].id]
<1>1. Len(q) \in Nat /\ DOMAIN q = 1 .. Len(q)
  BY Listed
<1>2. f \in Bijection(1 .. Len(q), IdSet(q))
  BY <1>1 DEF Bijection, Injection, Surjection, IsInjective, IdSet
<1>3. IsFiniteSet(1 .. Len(q)) /\ Cardinality(1 .. Len(q)) = Len(q)
  BY <1>1, CountTo
<1> QED BY <1>2, <1>3, FS_Bijection DEF ExistsBijection

\* Ids that are as many as the partitions are distinct.
LEMMA DistinctIfCounted ==
    ASSUME NEW q, q \in Partitions, Cardinality(IdSet(q)) = Len(q)
    PROVE  \A i, j \in DOMAIN q : i # j => q[i].id # q[j].id
<1> DEFINE f == [i \in 1 .. Len(q) |-> q[i].id]
<1>1. Len(q) \in Nat /\ DOMAIN q = 1 .. Len(q)
  BY Listed
<1>2. f \in Surjection(1 .. Len(q), IdSet(q))
  BY <1>1 DEF Surjection, IdSet
<1>3. IsFiniteSet(1 .. Len(q)) /\ Cardinality(1 .. Len(q)) = Len(q)
  BY <1>1, CountTo
<1>4. f \in Injection(1 .. Len(q), IdSet(q))
  BY <1>2, <1>3, FS_Surjection
<1> QED BY <1>1, <1>4 DEF Injection, IsInjective
-----------------------------------------------------------------------------
\* Instance counts.

\* What the initial resource is made of.
LEMMA InitialPartitions ==
    ASSUME NEW m \in Maps
    PROVE  /\ InitialDoc[<<"partitions", m>>] \in Partitions
           /\ IdSet(InitialDoc[<<"partitions", m>>]) \subseteq Nat
<1>1. InitialDoc[<<"partitions", m>>] \in Partitions
  BY WorldAssumption
<1> DEFINE q == InitialDoc[<<"partitions", m>>]
<1> HIDE DEF q
<1>2. q \in Partitions => IdSet(q) \subseteq Nat
  BY Listed DEF IdSet
<1> QED BY <1>1, <1>2 DEF q

\* Every map has a list of partitions.
LEMMA DocTypes ==
    ASSUME NEW d, WorldInv(d), NEW m \in Maps
    PROVE  d[<<"partitions", m>>] \in Partitions
<1>1. CASE m = Survival
  BY <1>1 DEF WorldInv, SurvivalList
<1>2. CASE m = DeepDesert
  <2>1. InitialDoc[<<"partitions", DeepDesert>>] \in Partitions
    BY InitialPartitions DEF Maps
  <2>2. <<Kept>> \in Partitions
    BY KeptIsThere DEF Partitions
  <2> QED BY <1>2, <2>1, <2>2 DEF WorldInv
<1>3. CASE m \notin {Survival, DeepDesert}
  BY <1>3, InitialPartitions DEF WorldInv
<1> QED BY <1>1, <1>2, <1>3

\* The ids of a list are finitely many naturals.
LEMMA IdSetFinite ==
    ASSUME NEW q, q \in Partitions
    PROVE  /\ IsFiniteSet(IdSet(q)) /\ IdSet(q) \subseteq Nat
           /\ q # <<>> => IdSet(q) # {}
<1> DEFINE f == [i \in 1 .. Len(q) |-> q[i].id]
<1>1. Len(q) \in Nat /\ DOMAIN q = 1 .. Len(q)
  BY Listed
<1>2. f \in Surjection(1 .. Len(q), IdSet(q))
  BY <1>1 DEF Surjection, IdSet
<1>3. IsFiniteSet(1 .. Len(q))
  BY <1>1, CountTo
<1>4. IsFiniteSet(IdSet(q))
  BY <1>2, <1>3, FS_Surjection
<1> QED BY <1>4, Listed DEF IdSet

\* There are finitely many maps.
LEMMA MapsFinite == IsFiniteSet(Maps)
<1>1. IsFiniteSet({Survival, DeepDesert} \cup OtherMaps)
  <2>1. IsFiniteSet({Survival}) /\ IsFiniteSet({DeepDesert})
    BY FS_Singleton
  <2>2. IsFiniteSet({Survival} \cup {DeepDesert})
    BY <2>1, FS_Union
  <2>3. {Survival, DeepDesert} = {Survival} \cup {DeepDesert}
    OBVIOUS
  <2> QED BY <2>2, <2>3, FS_Union, WorldAssumption
<1> QED BY <1>1 DEF Maps

\* More than the largest is more than each.
LEMMA Added ==
    ASSUME NEW S, S \subseteq Nat, NEW max \in S, \A n \in S : n <= max,
           NEW k \in Nat, k >= 1
    PROVE  max + k \in Nat /\ \A n \in S : n < max + k
OBVIOUS

\* A new partition's id is larger than those of all partitions of all maps, so no
\* partition of the copy has it (next_free_partition_id).
THEOREM NewIdsAreFree ==
    ASSUME NEW d, WorldInv(d), NEW k \in Nat, k >= 1
    PROVE  /\ NextId(d, k) \in Nat /\ Largest(UsedIds(d)) \in Nat
           /\ \A id \in UsedIds(d) : id < NextId(d, k)
<1> DEFINE sets == {IdSet(d[<<"partitions", m>>]) : m \in Maps}
<1>1. \A s \in sets : IsFiniteSet(s) /\ s \subseteq Nat
  BY DocTypes, IdSetFinite
<1>2. IsFiniteSet(sets)
  <2> DEFINE f == [m \in Maps |-> IdSet(d[<<"partitions", m>>])]
  <2>1. f \in Surjection(Maps, sets)
    BY DEF Surjection
  <2> HIDE DEF f, sets
  <2> QED BY <2>1, MapsFinite, FS_Surjection
<1>3. UNION sets = UsedIds(d)
  BY DEF UsedIds
<1> HIDE DEF sets
<1>4. IsFiniteSet(UNION sets)
  BY <1>1, <1>2, FS_UNION
<1>5. UsedIds(d) \subseteq Nat
  BY <1>1, <1>3
<1>6. UsedIds(d) # {}
  <2>1. d[<<"partitions", Survival>>] \in Partitions /\ d[<<"partitions", Survival>>] # <<>>
    BY DEF WorldInv, SurvivalList
  <2>2. IdSet(d[<<"partitions", Survival>>]) # {}
    BY <2>1, IdSetFinite
  <2> QED BY <2>2 DEF UsedIds, Maps
<1>7. Largest(UsedIds(d)) \in UsedIds(d) /\ \A id \in UsedIds(d) : id <= Largest(UsedIds(d))
  BY <1>3, <1>4, <1>5, <1>6, GreatestNatural
<1> QED BY <1>5, <1>7 DEF NextId

\* Dimensions have a largest one (next_partition_dimension).
LEMMA LargestDimension ==
    ASSUME NEW q, q \in Partitions, q # <<>>
    PROVE  LET dimensions == {q[i].dimension : i \in DOMAIN q}
           IN  /\ dimensions \subseteq Nat
               /\ Largest(dimensions) \in dimensions /\ Largest(dimensions) \in Nat
               /\ \A n \in dimensions : n <= Largest(dimensions)
<1> DEFINE dimensions == {q[i].dimension : i \in DOMAIN q}
           f == [i \in 1 .. Len(q) |-> q[i].dimension]
<1>1. Len(q) \in Nat /\ DOMAIN q = 1 .. Len(q)
  BY Listed
<1>2. f \in Surjection(1 .. Len(q), dimensions)
  BY <1>1 DEF Surjection
<1>3. IsFiniteSet(1 .. Len(q))
  BY <1>1, CountTo
<1>4. dimensions \subseteq Nat /\ dimensions # {}
  BY Listed
<1> HIDE DEF f, dimensions
<1>6. IsFiniteSet(dimensions)
  BY <1>2, <1>3, FS_Surjection
<1>7. Largest(dimensions) \in dimensions /\ \A n \in dimensions : n <= Largest(dimensions)
  BY <1>4, <1>6, GreatestNatural
<1> QED BY <1>4, <1>7 DEF dimensions

\* The dimension of a new instance of Survival lies above all the others.
LEMMA NewDimensionsAreLast ==
    ASSUME NEW q, q \in Partitions, q # <<>>, NEW k \in Nat, k >= 1
    PROVE  /\ NextDimension(Survival, q, k) \in Nat
           /\ \A i \in DOMAIN q : q[i].dimension < NextDimension(Survival, q, k)
<1> DEFINE dimensions == {q[i].dimension : i \in DOMAIN q}
<1>1. /\ dimensions \subseteq Nat /\ Largest(dimensions) \in dimensions
      /\ \A n \in dimensions : n <= Largest(dimensions)
  BY LargestDimension
<1>2. NextDimension(Survival, q, k) = Largest(dimensions) + k
  BY WorldAssumption DEF NextDimension
<1>3. \A i \in DOMAIN q : q[i].dimension \in dimensions
  OBVIOUS
<1> HIDE DEF dimensions
<1> QED BY <1>1, <1>2, <1>3, Added

\* An interval determines its length.
LEMMA SameInterval ==
    ASSUME NEW a \in Nat, NEW b \in Nat, 1 .. a = 1 .. b
    PROVE  a = b
<1>1. a <= b
  BY \A i \in 1 .. a : i \in 1 .. b
<1>2. b <= a
  BY \A i \in 1 .. b : i \in 1 .. a
<1> QED BY <1>1, <1>2

\* What appending and cutting leaves at each position.
LEMMA AddedAndCut ==
    ASSUME NEW R, NEW q \in Seq(R), NEW n \in Nat,
           NEW added \in [1 .. n - Len(q) -> R]
    PROVE  /\ SubSeq(q \o added, 1, n) \in Seq(R) /\ Len(SubSeq(q \o added, 1, n)) = n
           /\ \A i \in 1 .. n :
                SubSeq(q \o added, 1, n)[i] = IF i <= Len(q) THEN q[i] ELSE added[i - Len(q)]
<1> DEFINE size == n - Len(q)
           all == q \o added
           lenQ == Len(q)
           lenA == Len(added)
<1>1. lenQ \in Nat /\ size = n - lenQ
  BY LenProperties
<1> HIDE DEF size
<1> added \in [1 .. size -> R]
  BY DEF size
<1>2. added \in Seq(R) /\ lenA \in Nat /\ (size \in Nat => lenA = size)
  <2>1. CASE size \in Nat
    <3>1. added \in Seq(R)
      BY <2>1, SeqDef
    <3>2. lenA \in Nat /\ DOMAIN added = 1 .. lenA
      BY <3>1, LenProperties
    <3>3. DOMAIN added = 1 .. size
      BY Zenon
    <3> HIDE DEF lenA
    <3>4. lenA = size
      BY <2>1, <3>2, <3>3, SameInterval
    <3> QED BY <3>1, <3>2, <3>4
  <2>2. CASE size \notin Nat
    <3>1. 1 .. size = {}
      BY <1>1, <2>2
    <3>2. added = <<>>
      <4>1. added = [k \in {} |-> added[k]]
        BY <3>1
      <4> QED BY <4>1
    <3> QED BY <2>2, <3>2, EmptySeq
  <2> QED BY <2>1, <2>2
<1>3. all \in Seq(R) /\ Len(all) = lenQ + lenA
      /\ \A i \in 1 .. lenQ + lenA : all[i] = IF i <= lenQ THEN q[i] ELSE added[i - lenQ]
  BY <1>2, ConcatProperties
<1> HIDE DEF all, lenQ, lenA
<1>4. \A i \in 1 .. n : i \in 1 .. lenQ + lenA
  BY <1>1, <1>2
<1>5. \A i \in 1 .. n : all[i] \in R
  BY <1>3, <1>4, ElementOfSeq
<1>6. \A i \in 1 .. n : all[i] = IF i <= lenQ THEN q[i] ELSE added[i - lenQ]
  BY <1>3, <1>4
<1>7. SubSeq(all, 1, n) \in Seq(R) /\ Len(SubSeq(all, 1, n)) = n
      /\ \A i \in 1 .. n : SubSeq(all, 1, n)[i] = all[i]
  <2>1. \A m \in Int : \A k \in Int :
            (\A i \in m .. k : all[i] \in R) =>
                /\ SubSeq(all, m, k) \in Seq(R)
                /\ Len(SubSeq(all, m, k)) = IF m <= k THEN k - m + 1 ELSE 0
                /\ \A i \in 1 .. k - m + 1 : SubSeq(all, m, k)[i] = all[m + i - 1]
    BY SubSeqProperties
  <2>2. n - 1 + 1 = n /\ 1 \in Int /\ n \in Int /\ (n = 0 \/ 1 <= n)
        /\ \A i \in 1 .. n : 1 + i - 1 = i
    OBVIOUS
  <2> QED BY <1>5, <2>1, <2>2
<1> QED BY <1>6, <1>7 DEF all, lenQ

\* Survival with count instances: the first ones kept or new ones after them,
\* as many as asked for, in order, with ids that no other map has; a list that is as
\* long already is left as it is (build_world_partition_update).
THEOREM SurvivalCounted ==
    ASSUME NEW d, WorldInv(d), NEW count \in Nat, count >= 1
    PROVE  /\ SurvivalList(OtherIds(d), Resized(d, Survival, count))
           /\ Len(Resized(d, Survival, count)) = count
           /\ count = Len(d[<<"partitions", Survival>>])
                => Resized(d, Survival, count) = d[<<"partitions", Survival>>]
<1> DEFINE R == [id: Nat, dimension: Nat]
           q == d[<<"partitions", Survival>>]
           last == Len(q)
           added == [k \in 1 .. (count - last) |->
                        [id |-> NextId(d, k), dimension |-> NextDimension(Survival, q, k)]]
           all == q \o added
           p == Resized(d, Survival, count)
<1>1. q \in Partitions /\ q # <<>> /\ InOrder(q)
  BY DEF WorldInv, SurvivalList
<1>2. p = SubSeq(all, 1, count)
  BY <1>1, InOrderStays DEF Resized
<1>3. last \in Nat /\ last >= 1 /\ DOMAIN q = 1 .. last
  BY <1>1, Listed
<1>4. \A k \in Nat : k >= 1 =>
        /\ NextId(d, k) \in Nat /\ \A id \in UsedIds(d) : id < NextId(d, k)
        /\ NextDimension(Survival, q, k) \in Nat
        /\ \A i \in DOMAIN q : q[i].dimension < NextDimension(Survival, q, k)
  BY <1>1, NewIdsAreFree, NewDimensionsAreLast
<1>5. \A j, k \in Nat : j < k => NextId(d, j) < NextId(d, k)
  <2>1. Largest(UsedIds(d)) \in Nat
    BY NewIdsAreFree
  <2> QED BY <2>1 DEF NextId
<1>6. \A j, k \in Nat : j < k => NextDimension(Survival, q, j) < NextDimension(Survival, q, k)
  <2> DEFINE max == Largest({q[i].dimension : i \in DOMAIN q})
  <2>1. \A k : NextDimension(Survival, q, k) = max + k
    BY WorldAssumption DEF NextDimension
  <2>2. max \in Nat
    BY <1>1, LargestDimension
  <2> HIDE DEF max
  <2> QED BY <2>1, <2>2
<1> HIDE DEF q
<1>7. \A k \in 1 .. (count - last) :
        /\ added[k] = [id |-> NextId(d, k), dimension |-> NextDimension(Survival, q, k)]
        /\ added[k] \in R
  <2> SUFFICES ASSUME NEW k \in 1 .. (count - last)
               PROVE  /\ added[k] = [id |-> NextId(d, k), dimension |-> NextDimension(Survival, q, k)]
                      /\ added[k] \in R
    OBVIOUS
  <2>1. k \in Nat /\ k >= 1
    BY <1>3
  <2> QED BY <1>4, <2>1
<1>8. added = [k \in 1 .. (count - Len(q)) |-> added[k]]
  OBVIOUS
<1> HIDE DEF added
<1>9. /\ p \in Seq(R) /\ Len(p) = count
      /\ \A i \in 1 .. count : p[i] = IF i <= Len(q) THEN q[i] ELSE added[i - Len(q)]
  <2>1. q \in Seq(R)
    BY <1>1 DEF Partitions
  <2>2. added \in [1 .. count - Len(q) -> R]
    BY <1>7, <1>8
  <2>3. p = SubSeq(q \o added, 1, count)
    BY <1>2
  <2> HIDE DEF R, p, last, all
  <2>4. /\ SubSeq(q \o added, 1, count) \in Seq(R) /\ Len(SubSeq(q \o added, 1, count)) = count
        /\ \A i \in 1 .. count : SubSeq(q \o added, 1, count)[i] =
                                    IF i <= Len(q) THEN q[i] ELSE added[i - Len(q)]
    BY <2>1, <2>2, AddedAndCut
  <2> QED BY <2>3, <2>4
<1> HIDE DEF p
<1>10. p \in Partitions /\ Len(p) = count /\ DOMAIN p = 1 .. count
  BY <1>9, Listed DEF Partitions
<1> HIDE DEF last
<1>11. \A i \in 1 .. count : i <= last => p[i] = q[i] /\ i \in DOMAIN q
  BY <1>3, <1>9 DEF last
<1>12. \A i \in 1 .. count : i > last =>
        /\ i - last \in Nat /\ i - last >= 1
        /\ p[i].id = NextId(d, i - last)
        /\ p[i].dimension = NextDimension(Survival, q, i - last)
  <2> SUFFICES ASSUME NEW i \in 1 .. count, i > last
               PROVE  /\ i - last \in Nat /\ i - last >= 1
                      /\ p[i].id = NextId(d, i - last)
                      /\ p[i].dimension = NextDimension(Survival, q, i - last)
    OBVIOUS
  <2>1. i - last \in 1 .. (count - last)
    BY <1>3
  <2>2. p[i] = added[i - last]
    <3>1. ~(i <= last)
      BY <1>3
    <3>2. p[i] = IF i <= last THEN q[i] ELSE added[i - last]
      BY <1>9 DEF last
    <3> QED BY <3>1, <3>2
  <2>3. added[i - last] = [id |-> NextId(d, i - last),
                           dimension |-> NextDimension(Survival, q, i - last)]
    BY <1>7, <2>1
  <2>4. i - last \in Nat /\ i - last >= 1
    BY <1>3
  <2> QED BY <2>2, <2>3, <2>4
<1>13. InOrder(p)
  <2> SUFFICES ASSUME NEW i \in 1 .. count, NEW j \in 1 .. count, i < j PROVE Before(p, i, j)
    BY <1>10 DEF InOrder
  <2>1. CASE j <= last
    <3>1. i <= last
      BY <1>3, <2>1
    <3> QED BY <1>1, <1>11, <2>1, <3>1 DEF InOrder, Before
  <2>2. CASE j > last
    <3>1. p[i].dimension < p[j].dimension
      <4>1. CASE i <= last
        BY <1>4, <1>11, <1>12, <2>2, <4>1
      <4>2. CASE i > last
        <5>1. i - last < j - last
          BY <1>3
        <5> QED BY <1>6, <1>12, <2>2, <4>2, <5>1
      <4> QED BY <1>3, <4>1, <4>2
    <3> QED BY <3>1 DEF Before
  <2> QED BY <1>3, <2>1, <2>2
<1>14. \A i \in 1 .. count : i > last => \A id \in UsedIds(d) : id < p[i].id
  BY <1>4, <1>12
<1>15. \A i \in DOMAIN q : q[i].id \in UsedIds(d)
  <2>1. IdSet(q) \subseteq UsedIds(d)
    BY DEF q, UsedIds, Maps
  <2> QED BY <2>1 DEF IdSet
<1>16. \A i, j \in 1 .. count : i < j => p[i].id # p[j].id
  <2> SUFFICES ASSUME NEW i \in 1 .. count, NEW j \in 1 .. count, i < j PROVE p[i].id # p[j].id
    OBVIOUS
  <2>1. CASE j <= last
    <3>1. i <= last
      BY <1>3, <2>1
    <3>2. \A k, l \in DOMAIN q : k # l => q[k].id # q[l].id
      BY DEF q, WorldInv, SurvivalList
    <3> QED BY <1>11, <2>1, <3>1, <3>2
  <2>2. CASE j > last /\ i <= last
    <3>1. p[i].id < p[j].id /\ p[i].id \in Nat
      BY <1>1, <1>11, <1>14, <1>15, <2>2, Listed
    <3> QED BY <3>1
  <2>3. CASE j > last /\ i > last
    <3>1. i - last < j - last
      BY <1>3
    <3>2. NextId(d, i - last) < NextId(d, j - last) /\ NextId(d, i - last) \in Nat
      BY <1>4, <1>5, <1>12, <2>3, <3>1
    <3> QED BY <1>12, <2>3, <3>2
  <2> QED BY <1>3, <2>1, <2>2, <2>3
<1>17. \A i, j \in DOMAIN p : i # j => p[i].id # p[j].id
  BY <1>10, <1>16
<1>18. IdSet(p) \cap OtherIds(d) = {}
  <2>1. OtherIds(d) \subseteq UsedIds(d) /\ OtherIds(d) \subseteq Nat
    <3>1. \A m \in Maps : IdSet(d[<<"partitions", m>>]) \subseteq Nat
      BY DocTypes, IdSetFinite
    <3> QED BY <3>1 DEF OtherIds, UsedIds
  <2>2. \A i \in DOMAIN q : q[i].id \notin OtherIds(d)
    BY DEF q, WorldInv, SurvivalList, IdSet
  <2>3. ASSUME NEW i \in 1 .. count PROVE p[i].id \notin OtherIds(d)
    <3>1. CASE i <= last
      BY <1>11, <2>2, <3>1
    <3>2. CASE i > last
      BY <1>14, <2>1, <3>2
    <3> QED BY <1>3, <3>1, <3>2
  <2> QED BY <1>10, <2>3 DEF IdSet
<1>19. p # <<>>
  BY <1>10
<1>20. count = last => p = q
  <2> SUFFICES ASSUME count = last PROVE p = q
    OBVIOUS
  <2>1. \A i \in 1 .. count : p[i] = q[i]
    BY <1>3, <1>11
  <2>2. Len(p) = Len(q) /\ q \in Seq(R)
    BY <1>1, <1>9 DEF last, Partitions
  <2> HIDE DEF R
  <2> QED BY <1>9, <2>1, <2>2, SeqEqual
<1> QED BY <1>10, <1>13, <1>17, <1>18, <1>19, <1>20 DEF SurvivalList, p, q, last

\* Deep Desert is cut to its first instance.
LEMMA DeepDesertCounted ==
    ASSUME NEW d, WorldInv(d)
    PROVE  Resized(d, DeepDesert, 1) = <<Kept>>
<1> DEFINE q == d[<<"partitions", DeepDesert>>]
           b == ByDimension(q)
           R == Elements(b)
           added == [k \in 1 .. (1 - Len(q)) |->
                        [id |-> NextId(d, k), dimension |-> NextDimension(DeepDesert, q, k)]]
<1>1. Resized(d, DeepDesert, 1) = SubSeq(b \o added, 1, 1)
  BY DEF Resized
<1>2. q \in Partitions /\ Len(q) \in Nat /\ Len(q) >= 1 /\ DOMAIN q = 1 .. Len(q) /\ b[1] = Kept
  <2>1. CASE q = InitialDoc[<<"partitions", DeepDesert>>]
    <3>1. q \in Partitions /\ q # <<>>
      BY <2>1, WorldAssumption DEF Maps
    <3>2. b[1] = Kept
      BY <2>1 DEF Kept
    <3> HIDE DEF q
    <3>3. Len(q) \in Nat /\ Len(q) >= 1 /\ DOMAIN q = 1 .. Len(q)
      BY <3>1, Listed
    <3> QED BY <3>1, <3>2, <3>3
  <2>2. CASE q = <<Kept>>
    <3>1. q \in Partitions /\ b = <<Kept>>
      BY <2>2, KeptIsThere DEF Partitions
    <3>2. Len(q) = 1 /\ DOMAIN q = 1 .. 1
      BY <2>2
    <3> QED BY <3>1, <3>2
  <2> QED BY <2>1, <2>2 DEF WorldInv
<1>3. DOMAIN b = 1 .. Len(q) /\ b = [n \in 1 .. Len(q) |-> b[n]]
  BY <1>2 DEF ByDimension
<1> HIDE DEF q, b
<1>4. b \in Seq(R)
  <2>1. \A n \in 1 .. Len(q) : b[n] \in R
    BY <1>3 DEF Elements
  <2>2. b \in [1 .. Len(q) -> R]
    BY <1>3, <2>1
  <2> HIDE DEF R
  <2> QED BY <1>2, <2>2, SeqDef
<1>5. Len(b) = Len(q)
  <2>1. Len(b) \in Nat /\ DOMAIN b = 1 .. Len(b)
    BY <1>4, LenProperties
  <2> QED BY <1>2, <1>3, <2>1, SameInterval
<1>6. added \in [1 .. 1 - Len(b) -> R]
  <2>1. 1 .. 1 - Len(b) = {}
    BY <1>2, <1>5
  <2> QED BY <1>5, <2>1
<1> HIDE DEF added, R
<1>7. /\ SubSeq(b \o added, 1, 1) \in Seq(R) /\ Len(SubSeq(b \o added, 1, 1)) = 1
      /\ \A i \in 1 .. 1 :
            SubSeq(b \o added, 1, 1)[i] = IF i <= Len(b) THEN b[i] ELSE added[i - Len(b)]
  BY <1>4, <1>6, 1 \in Nat, AddedAndCut
<1> DEFINE p == SubSeq(b \o added, 1, 1)
<1>8. p \in Seq(R) /\ Len(p) = 1 /\ p[1] = b[1]
  BY <1>2, <1>5, <1>7
<1> HIDE DEF p
<1>9. p = <<Kept>>
  <2>1. p[1] \in R
    BY <1>8, ElementOfSeq
  <2>2. <<Kept>> \in Seq(R) /\ Len(<<Kept>>) = 1
    BY <1>2, <1>8, <2>1
  <2> QED BY <1>2, <1>8, <2>2, SeqEqual
<1> QED BY <1>1, <1>9 DEF p

-----------------------------------------------------------------------------
\* The patches that the operations compute.

\* A patch of other members leaves the world alone.
LEMMA OtherMembers ==
    ASSUME NEW others, NEW patch, DOMAIN patch \subseteq Fields,
           \A f \in DOMAIN patch : f[1] \in {"limits", "requests", "region"}
    PROVE  SoundPatch(others, patch)
<1>1. \A m : <<"partitions", m>> \notin DOMAIN patch
  BY DEF SoundPatch
<1>2. World \cap DOMAIN patch = {}
  BY DEF World
<1> QED BY <1>1, <1>2 DEF SoundPatch

\* set_instances of Survival: all of its world or nothing.
LEMMA SurvivalPatchSound ==
    ASSUME NEW d, WorldInv(d), NEW count \in Nat, count >= 1
    PROVE  SoundPatch(OtherIds(d), InstancePatch(d, Survival, count))
<1> DEFINE r == Resized(d, Survival, count)
           q == d[<<"partitions", Survival>>]
           desired == [f \in {<<"partitions", Survival>>} \cup Following(Survival) |->
                        IF f[1] = "partitions" THEN r ELSE SetValue(f, r)]
           patch == InstancePatch(d, Survival, count)
<1>1. /\ SurvivalList(OtherIds(d), r) /\ Len(r) = count
      /\ count = Len(q) => r = q
  BY SurvivalCounted
<1>2. patch = Changes(d, desired)
  BY DEF InstancePatch
<1> HIDE DEF r, patch
<1>3. /\ DOMAIN desired = World
      /\ desired[<<"partitions", Survival>>] = r
      /\ desired[<<"replicas", Survival>>] = Len(r)
      /\ desired[<<"set", Survival>>] = Ids(r)
  BY DEF World, Following, SetValue
<1> HIDE DEF desired
<1>4. /\ DOMAIN patch = {f \in World : desired[f] # d[f]}
      /\ \A f \in DOMAIN patch : patch[f] = desired[f]
  BY <1>2, <1>3 DEF Changes
<1>5. World \subseteq Fields /\ \A m : m # Survival => <<"partitions", m>> \notin World
  BY DEF World, Fields, Maps
<1>6. Agrees(d)
  BY DEF WorldInv
<1>7. CASE count = Len(q)
  <2>1. r = q /\ Len(q) = d[<<"replicas", Survival>>] /\ Ids(q) = d[<<"set", Survival>>]
    BY <1>1, <1>6, <1>7 DEF Agrees
  <2>2. \A f \in World : desired[f] = d[f]
    BY <1>3, <2>1 DEF World
  <2>3. DOMAIN patch = {}
    BY <1>4, <2>2
  <2> QED BY <2>3, OtherMembers DEF patch
<1>8. CASE count # Len(q)
  <2>1. q \in Partitions /\ r \in Partitions
    BY <1>1 DEF WorldInv, SurvivalList
  <2>2. Ids(r) # Ids(q)
    <3>1. DOMAIN Ids(r) = 1 .. count /\ DOMAIN Ids(q) = 1 .. Len(q) /\ Len(q) \in Nat
      BY <1>1, <2>1, Listed DEF Ids
    <3> QED BY <1>8, <3>1, SameInterval
  <2>3. DOMAIN patch = World
    BY <1>1, <1>3, <1>4, <1>6, <1>8, <2>2 DEF Agrees, World
  <2>4. Agrees(patch) /\ patch[<<"partitions", Survival>>] = r
    BY <1>3, <1>4, <2>3 DEF Agrees, World
  <2>5. World \subseteq DOMAIN patch
    BY <2>3
  <2>6. \A m \in Maps : m # Survival => <<"partitions", m>> \notin DOMAIN patch
    BY <1>5, <2>3
  <2>7. DeepDesert \in Maps /\ DeepDesert # Survival
    BY WorldAssumption DEF Maps
  <2>8. SoundPatch(OtherIds(d), patch)
    BY <1>1, <1>5, <2>3, <2>4, <2>5, <2>6, <2>7 DEF SoundPatch
  <2> QED BY <2>8 DEF patch
<1> QED BY <1>7, <1>8

\* set_instances of Deep Desert touches only its own partitions.
LEMMA DeepDesertPatchSound ==
    ASSUME NEW d, WorldInv(d)
    PROVE  SoundPatch(OtherIds(d), InstancePatch(d, DeepDesert, 1))
<1> DEFINE desired == [f \in {<<"partitions", DeepDesert>>} \cup Following(DeepDesert) |->
                        IF f[1] = "partitions" THEN <<Kept>> ELSE SetValue(f, <<Kept>>)]
           patch == InstancePatch(d, DeepDesert, 1)
<1>1. patch = Changes(d, desired)
  BY DeepDesertCounted DEF InstancePatch
<1>2. DOMAIN desired = {<<"partitions", DeepDesert>>}
      /\ desired[<<"partitions", DeepDesert>>] = <<Kept>>
  BY WorldAssumption DEF Following
<1> HIDE DEF desired
<1>3. /\ DOMAIN patch \subseteq {<<"partitions", DeepDesert>>}
      /\ \A f \in DOMAIN patch : patch[f] = <<Kept>>
  BY <1>1, <1>2 DEF Changes
<1>4. {<<"partitions", DeepDesert>>} \subseteq Fields
  BY DEF Fields, Maps
<1>5. World \cap DOMAIN patch = {}
  BY <1>3, WorldAssumption DEF World
<1>6. \A m \in Maps \ {Survival, DeepDesert} : <<"partitions", m>> \notin DOMAIN patch
  BY <1>3
<1> HIDE DEF patch
<1> QED BY <1>3, <1>4, <1>5, <1>6 DEF SoundPatch, patch

\* The memory profile leaves partitions alone (experimental_swap/patch.rs).
LEMMA MemoryPatchSound ==
    ASSUME NEW others, NEW d, NEW size
    PROVE  SoundPatch(others, MemoryPatch(d, size))
<1> DEFINE patch == MemoryPatch(d, size)
           desired == [f \in {"limits", "requests"} \X Maps |-> MemoryProfile(f[2], size)[f[1]]]
<1>1. DOMAIN patch \subseteq {"limits", "requests"} \X Maps
  <2>1. patch = Changes(d, desired) /\ DOMAIN desired = {"limits", "requests"} \X Maps
    BY DEF MemoryPatch
  <2> HIDE DEF patch, desired
  <2> QED BY <2>1 DEF Changes
<1> HIDE DEF patch
<1>2. DOMAIN patch \subseteq Fields
  BY <1>1 DEF Fields
<1>3. \A f \in DOMAIN patch : f[1] \in {"limits", "requests", "region"}
  BY <1>1
<1> QED BY <1>2, <1>3, OtherMembers DEF patch

\* So does the region (region_patch.rs).
LEMMA RegionFieldsSound ==
    ASSUME NEW others, NEW region
    PROVE  SoundPatch(others, RegionFields(region))
<1>1. DOMAIN RegionFields(region) = {<<"region", Survival>>}
  BY DEF RegionFields
<1>2. DOMAIN RegionFields(region) \subseteq Fields
  BY <1>1 DEF Fields
<1> QED BY <1>1, <1>2, OtherMembers

\* And a patch of nothing.
LEMMA NoFieldsSound ==
    ASSUME NEW others
    PROVE  SoundPatch(others, <<>>)
<1>1. DOMAIN <<>> = {}
  OBVIOUS
<1> QED BY <1>1, OtherMembers

-----------------------------------------------------------------------------
\* What a patch does to the resource.

\* What is free of some ids is free of fewer.
LEMMA FewerIds ==
    ASSUME NEW others, NEW fewer, fewer \subseteq others
    PROVE  /\ \A patch : SoundPatch(others, patch) => SoundPatch(fewer, patch)
           /\ \A q : SurvivalList(others, q) => SurvivalList(fewer, q)
BY DEF SoundPatch, SurvivalList

\* A patched resource, member by member.
LEMMA PatchedMembers ==
    ASSUME NEW d, NEW patch, DOMAIN d = Fields, DOMAIN patch \subseteq Fields
    PROVE  /\ DOMAIN Patched(d, patch) = Fields
           /\ \A f \in Fields :
                Patched(d, patch)[f] = IF f \in DOMAIN patch THEN patch[f] ELSE d[f]
BY DEF Patched

\* A whole world that a patch of the kind above is applied to stays whole, and
\* the other maps get no new id.
LEMMA PatchedWorld ==
    ASSUME NEW d, WorldInv(d), NEW patch, SoundPatch(OtherIds(d), patch)
    PROVE  /\ WorldInv(Patched(d, patch))
           /\ OtherIds(Patched(d, patch)) \subseteq OtherIds(d)
<1> DEFINE e == Patched(d, patch)
<1>1. /\ DOMAIN e = Fields
      /\ \A f \in Fields : e[f] = IF f \in DOMAIN patch THEN patch[f] ELSE d[f]
  <2>1. DOMAIN d = Fields /\ DOMAIN patch \subseteq Fields
    BY DEF WorldInv, SoundPatch
  <2> QED BY <2>1, PatchedMembers
<1> HIDE DEF e
<1>2. /\ World \subseteq Fields
      /\ \A m \in Maps : <<"partitions", m>> \in Fields
      /\ Survival \in Maps /\ DeepDesert \in Maps /\ DeepDesert # Survival
  BY WorldAssumption DEF World, Fields, Maps
<1>3. e[<<"partitions", DeepDesert>>] \in {d[<<"partitions", DeepDesert>>], <<Kept>>}
  BY <1>1, <1>2 DEF SoundPatch
<1>4. \A m \in Maps \ {Survival, DeepDesert} : e[<<"partitions", m>>] = d[<<"partitions", m>>]
  BY <1>1, <1>2 DEF SoundPatch
<1>5. IdSet(<<Kept>>) \subseteq IdSet(d[<<"partitions", DeepDesert>>])
  <2>1. IdSet(<<Kept>>) = {Kept.id}
    BY DEF IdSet
  <2>2. Kept.id \in IdSet(InitialDoc[<<"partitions", DeepDesert>>])
    BY KeptIsThere DEF Elements, IdSet
  <2> QED BY <2>1, <2>2 DEF WorldInv
<1>6. \A m \in Maps \ {Survival} :
        IdSet(e[<<"partitions", m>>]) \subseteq IdSet(d[<<"partitions", m>>])
  BY <1>3, <1>4, <1>5
<1>7. OtherIds(e) \subseteq OtherIds(d)
  BY <1>6 DEF OtherIds
<1>8. SurvivalList(OtherIds(d), e[<<"partitions", Survival>>]) /\ Agrees(e)
  <2>1. CASE World \cap DOMAIN patch = {}
    <3>1. \A f \in World : e[f] = d[f]
      BY <1>1, <1>2, <2>1
    <3> QED BY <3>1 DEF WorldInv, Agrees, World
  <2>2. CASE World \subseteq DOMAIN patch /\ Agrees(patch)
                /\ SurvivalList(OtherIds(d), patch[<<"partitions", Survival>>])
    <3>1. \A f \in World : e[f] = patch[f]
      BY <1>1, <1>2, <2>2
    <3> QED BY <2>2, <3>1 DEF Agrees, World
  <2> QED BY <2>1, <2>2 DEF SoundPatch
<1>9. SurvivalList(OtherIds(e), e[<<"partitions", Survival>>])
  BY <1>7, <1>8, FewerIds
<1>10. WorldInv(e)
  BY <1>1, <1>3, <1>4, <1>8, <1>9 DEF WorldInv
<1> QED BY <1>7, <1>10 DEF e

\* A whole world in the sense of the invariant is one in the sense of the property.
LEMMA WorldIsWhole ==
    ASSUME NEW d, WorldInv(d)
    PROVE  Whole(d)
<1>1. ASSUME NEW m \in Maps
      PROVE  Cardinality(IdSet(d[<<"partitions", m>>])) = Len(d[<<"partitions", m>>])
  <2>1. CASE m = Survival
    BY <2>1, DistinctIds DEF WorldInv, SurvivalList
  <2>2. CASE d[<<"partitions", m>>] = InitialDoc[<<"partitions", m>>]
    BY <2>2, WorldAssumption DEF Whole
  <2>3. CASE d[<<"partitions", m>>] = <<Kept>>
    <3>1. <<Kept>> \in Partitions /\ \A i, j \in DOMAIN <<Kept>> : i = j
      BY KeptIsThere DEF Partitions
    <3> QED BY <2>3, <3>1, DistinctIds
  <2> QED BY <2>1, <2>2, <2>3 DEF WorldInv
<1>2. \A m \in Maps \ {Survival} :
        IdSet(d[<<"partitions", m>>]) \subseteq IdSet(InitialDoc[<<"partitions", m>>])
  <2>1. IdSet(<<Kept>>) \subseteq IdSet(InitialDoc[<<"partitions", DeepDesert>>])
    BY KeptIsThere DEF Elements, IdSet
  <2> QED BY <2>1 DEF WorldInv
<1>3. ASSUME NEW m \in Maps, NEW n \in Maps, m # n
      PROVE  IdSet(d[<<"partitions", m>>]) \cap IdSet(d[<<"partitions", n>>]) = {}
  <2>1. \A k \in Maps \ {Survival} :
            IdSet(d[<<"partitions", Survival>>]) \cap IdSet(d[<<"partitions", k>>]) = {}
    BY DEF WorldInv, SurvivalList, OtherIds
  <2>2. CASE m # Survival /\ n # Survival
    <3>1. IdSet(InitialDoc[<<"partitions", m>>]) \cap IdSet(InitialDoc[<<"partitions", n>>]) = {}
      BY <1>3, WorldAssumption DEF Whole
    <3> QED BY <1>2, <2>2, <3>1
  <2> QED BY <1>3, <2>1, <2>2
<1> QED BY <1>1, <1>3 DEF Whole, WorldInv, Agrees

\* The invariant holds of the resource at the start.
LEMMA InitialWorld == WorldInv(InitialDoc)
<1> DEFINE q == InitialDoc[<<"partitions", Survival>>]
<1>1. q \in Partitions /\ q # <<>> /\ InOrder(q) /\ Cardinality(IdSet(q)) = Len(q)
  BY WorldAssumption DEF Whole, Maps
<1>2. IdSet(q) \cap OtherIds(InitialDoc) = {}
  BY WorldAssumption DEF Whole, Maps, OtherIds
<1>3. \A i, j \in DOMAIN q : i # j => q[i].id # q[j].id
  BY <1>1, DistinctIfCounted
<1>4. SurvivalList(OtherIds(InitialDoc), q)
  BY <1>1, <1>2, <1>3 DEF SurvivalList
<1> QED BY <1>4, WorldAssumption DEF WorldInv, Agrees, Whole

-----------------------------------------------------------------------------
\* The processes on the guest.

\* The tail of a script, position by position.
LEMMA TailElements ==
    ASSUME NEW s, s \in Seq(Elements(s)), s # <<>>
    PROVE  /\ Tail(s) \in Seq(Elements(Tail(s)))
           /\ Len(s) \in Nat /\ Len(Tail(s)) = Len(s) - 1
           /\ DOMAIN s = 1 .. Len(s) /\ DOMAIN Tail(s) = 1 .. Len(Tail(s))
           /\ \A i \in DOMAIN Tail(s) : i + 1 \in DOMAIN s /\ Tail(s)[i] = s[i + 1]
<1> DEFINE S == Elements(s)
           T == Elements(Tail(s))
<1>1. s \in Seq(S)
  OBVIOUS
<1> HIDE DEF S
<1>2. /\ Tail(s) \in Seq(S) /\ Len(Tail(s)) = Len(s) - 1
      /\ \A i \in 1 .. Len(Tail(s)) : Tail(s)[i] = s[i + 1]
  BY <1>1, HeadTailProperties
<1>3. /\ Len(s) \in Nat /\ DOMAIN s = 1 .. Len(s)
      /\ Len(Tail(s)) \in Nat /\ Tail(s) \in [1 .. Len(Tail(s)) -> S]
  BY <1>1, <1>2, LenProperties
<1>4. DOMAIN Tail(s) = 1 .. Len(Tail(s))
  BY <1>3
<1>5. \A i \in 1 .. Len(Tail(s)) : Tail(s)[i] \in T
  BY <1>4 DEF Elements
<1> HIDE DEF T
<1>6. Tail(s) \in [1 .. Len(Tail(s)) -> T]
  BY <1>3, <1>5
<1>7. Tail(s) \in Seq(T)
  BY <1>3, <1>6, SeqDef
<1>8. \A i \in 1 .. Len(Tail(s)) : i + 1 \in 1 .. Len(s)
  BY <1>2, <1>3
<1> QED BY <1>2, <1>3, <1>4, <1>7, <1>8 DEF T

\* A script without its first effect.
LEMMA TailSound ==
    ASSUME NEW others, NEW left, SoundProcess(others, left), left # <<>>
    PROVE  SoundProcess(others, Tail(left))
<1>1. /\ Tail(left) \in Seq(Elements(Tail(left)))
      /\ Len(left) \in Nat /\ Len(Tail(left)) = Len(left) - 1
      /\ \A i \in DOMAIN Tail(left) : i + 1 \in DOMAIN left /\ Tail(left)[i] = left[i + 1]
      /\ DOMAIN Tail(left) = 1 .. Len(Tail(left))
  BY TailElements DEF SoundProcess
<1>2. ASSUME NEW i \in DOMAIN Tail(left)
      PROVE  /\ Tail(left)[i].do = "patch" => SoundPatch(others, Tail(left)[i].fields)
             /\ Tail(left)[i].do = "allocate" => i < Len(Tail(left))
  <2>1. i + 1 \in DOMAIN left /\ Tail(left)[i] = left[i + 1] /\ i \in Int
    BY <1>1
  <2>2. /\ left[i + 1].do = "patch" => SoundPatch(others, left[i + 1].fields)
        /\ left[i + 1].do = "allocate" => i + 1 < Len(left)
    BY <2>1 DEF SoundProcess
  <2>3. i + 1 < Len(left) => i < Len(Tail(left))
    BY <1>1, <2>1
  <2> QED BY <2>1, <2>2, <2>3
<1> QED BY <1>1, <1>2 DEF SoundProcess

\* The rest of a script after its first effect.
LEMMA RestSound ==
    ASSUME NEW others, NEW left, SoundProcess(others, left), left # <<>>
    PROVE  SoundProcess(others, Rest(left))
<1>1. SoundProcess(others, Tail(left))
  BY TailSound
<1>2. CASE left[1].do = "allocate"
  <2>1. Len(Tail(left)) = Len(left) - 1 /\ Len(left) \in Nat /\ DOMAIN left = 1 .. Len(left)
    BY TailElements DEF SoundProcess
  <2>2. Len(left) # 0
    BY EmptySeq DEF SoundProcess
  <2>3. Len(left) > 1
    BY <1>2, <2>1, <2>2 DEF SoundProcess
  <2>4. Tail(left) # <<>>
    <3>1. Len(<<>>) = 0 /\ Len(Tail(left)) # 0
      BY <2>1, <2>3
    <3> QED BY <3>1, Zenon
  <2>5. SoundProcess(others, Tail(Tail(left)))
    BY <1>1, <2>4, TailSound
  <2> QED BY <1>1, <2>5 DEF Rest
<1>3. CASE left[1].do # "allocate"
  BY <1>1, <1>3 DEF Rest
<1> QED BY <1>2, <1>3

\* Scripts of one effect,
LEMMA OneEffect ==
    ASSUME NEW others, NEW a, a.do # "allocate", a.do = "patch" => SoundPatch(others, a.fields)
    PROVE  SoundProcess(others, <<a>>)
BY DEF SoundProcess, Elements

\* of two,
LEMMA TwoEffects ==
    ASSUME NEW others, NEW a, NEW b,
           a.do \notin {"allocate", "patch"}, b.do \notin {"allocate", "patch"}
    PROVE  SoundProcess(others, <<a, b>>)
BY DEF SoundProcess, Elements

\* and of three.
LEMMA ThreeEffects ==
    ASSUME NEW others, NEW a, NEW b, NEW e, a.do # "patch",
           b.do \notin {"allocate", "patch"}, e.do \notin {"allocate", "patch"}
    PROVE  SoundProcess(others, <<a, b, e>>)
BY DEF SoundProcess, Elements

\* Whatever an operation sends leaves the world whole.
LEMMA ScriptSound ==
    ASSUME NEW others, NEW o, SoundOp(others, o), Head(o.todo) \in ScriptSteps
    PROVE  SoundProcess(others, Script(o))
<1> DEFINE step == Head(o.todo)
<1>1. CASE step = "config"
  <2>1. Script(o) = <<WriteIni("UserGame", WantedPvp(o)), WriteIni("Game", WantedPvp(o))>>
    BY <1>1 DEF Script, WritePvpConfig
  <2>2. \A f, ids : WriteIni(f, ids).do = "write ini"
    BY DEF WriteIni
  <2> QED BY <2>1, <2>2, TwoEffects
<1>2. CASE step = "patch"
  <2>1. Script(o) = <<PatchEffect(o.fields, o.edits)>>
    BY <1>2 DEF Script
  <2>2. PatchEffect(o.fields, o.edits).do = "patch"
        /\ PatchEffect(o.fields, o.edits).fields = o.fields
    BY DEF PatchEffect
  <2>3. SoundPatch(others, o.fields)
    BY DEF SoundOp
  <2> QED BY <2>1, <2>2, <2>3, OneEffect
<1>3. CASE step = "enable swap"
  <2>1. Script(o) = EnableSwap(o.request.size)
    BY <1>3 DEF Script
  <2> QED BY <2>1, ThreeEffects DEF EnableSwap
<1>4. CASE step \in {"start", "stop", "restart"}
  <2>1. Script(o) = Wrapper(step)
    BY <1>4 DEF Script
  <2>2. \A b : SetStop(b).do = "set stop"
    BY DEF SetStop
  <2>3. CASE step = "start"
    BY <2>1, <2>2, <2>3, OneEffect DEF Wrapper
  <2>4. CASE step = "stop"
    BY <2>1, <2>2, <2>4, OneEffect DEF Wrapper
  <2>5. CASE step = "restart"
    BY <2>1, <2>2, <2>5, TwoEffects DEF Wrapper
  <2> QED BY <1>4, <2>3, <2>4, <2>5
<1> QED BY <1>1, <1>2, <1>3, <1>4 DEF ScriptSteps

-----------------------------------------------------------------------------
\* The operations on the client's side.

OpNames == {"request", "todo", "partitions", "fields", "edits", "process", "failed",
            "answer", "undisturbed", "unfinished"}

\* The members of an operation.
LEMMA IdleNames == DOMAIN Idle = OpNames
BY DEF Idle, OpNames

\* The invariant speaks of four members of an operation.
LEMMA SameMembers ==
    ASSUME NEW others, NEW o, NEW p, SoundOp(others, o),
           DOMAIN p = DOMAIN o, p.request = o.request, p.todo = o.todo, p.fields = o.fields,
           p.process # Absent => SoundProcess(others, p.process)
    PROVE  SoundOp(others, p)
BY DEF SoundOp

\* An operation that ends,
LEMMA FinishSound ==
    ASSUME NEW others, NEW o, SoundOp(others, o), NEW answer
    PROVE  SoundOp(others, Finish(o, answer)) /\ Finish(o, answer).process = Absent
<1> DEFINE p == Finish(o, answer)
<1>1. DOMAIN o = OpNames
  BY IdleNames DEF SoundOp
<1>2. DOMAIN p = DOMAIN o /\ p.request = o.request /\ p.todo = <<>> /\ p.fields = o.fields
      /\ p.process = Absent
  BY <1>1 DEF Finish, OpNames
<1>3. <<>> \in Seq(StepsOf(o.request)) /\ DOMAIN <<>> = {}
  BY EmptySeq
<1> HIDE DEF p
<1>4. SoundOp(others, p)
  BY <1>2, <1>3 DEF SoundOp
<1> QED BY <1>2, <1>4 DEF p

\* one that goes on with its next step,
LEMMA ProceedSound ==
    ASSUME NEW others, NEW o, SoundOp(others, o), o.todo # <<>>
    PROVE  /\ SoundOp(others, Proceed(o)) /\ Proceed(o).process = Absent
           /\ Tail(o.todo) # <<>> => Proceed(o).todo = Tail(o.todo)
<1> DEFINE p == [o EXCEPT !.todo = Tail(@), !.process = Absent]
           S == StepsOf(o.request)
<1>1. DOMAIN o = OpNames
  BY IdleNames DEF SoundOp
<1>2. DOMAIN p = DOMAIN o /\ p.request = o.request /\ p.todo = Tail(o.todo)
      /\ p.fields = o.fields /\ p.process = Absent
  BY <1>1 DEF OpNames
<1>3. o.todo \in Seq(S) /\ \A i \in DOMAIN o.todo : o.todo[i] = "read" => i < Len(o.todo)
  BY DEF SoundOp
<1> HIDE DEF S
<1>4. /\ Tail(o.todo) \in Seq(S) /\ Len(o.todo) \in Nat
      /\ Len(Tail(o.todo)) = Len(o.todo) - 1
      /\ DOMAIN o.todo = 1 .. Len(o.todo) /\ DOMAIN Tail(o.todo) = 1 .. Len(Tail(o.todo))
      /\ \A i \in 1 .. Len(Tail(o.todo)) : Tail(o.todo)[i] = o.todo[i + 1]
  BY <1>3, HeadTailProperties, LenProperties
<1>5. \A i \in DOMAIN Tail(o.todo) : Tail(o.todo)[i] = "read" => i < Len(Tail(o.todo))
  <2> SUFFICES ASSUME NEW i \in 1 .. Len(Tail(o.todo)), Tail(o.todo)[i] = "read"
               PROVE  i < Len(Tail(o.todo))
    BY <1>4
  <2>1. i + 1 \in DOMAIN o.todo /\ o.todo[i + 1] = "read"
    BY <1>4
  <2>2. i + 1 < Len(o.todo)
    BY <1>3, <2>1
  <2> QED BY <1>4, <2>2
<1> HIDE DEF p
<1>6. SoundOp(others, p)
  BY <1>2, <1>4, <1>5 DEF SoundOp, S
<1>7. CASE Tail(o.todo) = <<>>
  BY <1>7, FinishSound DEF Proceed
<1>8. CASE Tail(o.todo) # <<>>
  <2>1. Proceed(o) = p
    BY <1>8 DEF Proceed, p
  <2> QED BY <1>2, <1>6, <2>1
<1> QED BY <1>7, <1>8

Reads(o) == o.todo # <<>> /\ Head(o.todo) = "read"

\* and one that has read the resource and has a patch, or has nothing to send.
LEMMA WithPatchSound ==
    ASSUME NEW others, NEW o, SoundOp(others, o), Reads(o),
           NEW partitions, NEW fields, SoundPatch(others, fields), NEW edits
    PROVE  /\ SoundOp(others, WithPatch(o, partitions, fields, edits))
           /\ WithPatch(o, partitions, fields, edits).process = Absent
<1> DEFINE p == [o EXCEPT !.partitions = partitions, !.fields = fields, !.edits = edits]
<1>1. DOMAIN o = OpNames
  BY IdleNames DEF SoundOp
<1>2. DOMAIN p = DOMAIN o /\ p.request = o.request /\ p.todo = o.todo
      /\ p.fields = fields /\ p.process = o.process
  BY <1>1 DEF OpNames
<1> HIDE DEF p
<1>3. SoundOp(others, p)
  BY <1>2 DEF SoundOp
<1>4. o.todo # <<>> /\ Tail(o.todo) # <<>>
  <2> DEFINE S == StepsOf(o.request)
  <2>1. o.todo \in Seq(S) /\ \A i \in DOMAIN o.todo : o.todo[i] = "read" => i < Len(o.todo)
    BY DEF SoundOp
  <2> HIDE DEF S
  <2>2. o.todo # <<>>
    BY DEF Reads
  <2>3. o.todo[1] = "read"
    BY <2>1, <2>2 DEF Reads
  <2>4. /\ Len(Tail(o.todo)) = Len(o.todo) - 1
        /\ Len(o.todo) \in Nat /\ Len(o.todo) # 0
        /\ DOMAIN o.todo = 1 .. Len(o.todo)
    BY <2>1, <2>2, HeadTailProperties, LenProperties, EmptySeq
  <2>5. 1 < Len(o.todo)
    BY <2>1, <2>3, <2>4
  <2>6. Len(Tail(o.todo)) # 0
    <3> DEFINE n == Len(o.todo) t == Len(Tail(o.todo))
    <3>1. n \in Nat /\ 1 < n /\ t = n - 1
      BY <2>4, <2>5
    <3> HIDE DEF n, t
    <3>2. t # 0
      BY <3>1
    <3> QED BY <3>2 DEF t
  <2>7. Len(<<>>) = 0
    OBVIOUS
  <2> QED BY <2>2, <2>6, <2>7, Zenon
<1>5. SoundOp(others, Proceed(p)) /\ Proceed(p).process = Absent /\ Proceed(p).todo # <<>>
  BY <1>2, <1>3, <1>4, ProceedSound
<1>6. SoundOp(others, Proceed(Proceed(p))) /\ Proceed(Proceed(p)).process = Absent
  BY <1>5, ProceedSound
<1>7. WithPatch(o, partitions, fields, edits) \in {Proceed(p), Proceed(Proceed(p))}
  BY DEF WithPatch, p
<1> QED BY <1>5, <1>6, <1>7

\* An operation that reads the resource computes a patch that leaves it whole.
LEMMA ComputedSound ==
    ASSUME NEW o, WorldInv(doc), SoundOp(OtherIds(doc), o), Reads(o)
    PROVE  SoundOp(OtherIds(doc), Computed(o)) /\ Computed(o).process = Absent
<1> DEFINE r == o.request
<1>1. r.kind \in Reading
  <2> DEFINE S == StepsOf(r)
  <2>1. o.todo \in Seq(S)
    BY DEF SoundOp
  <2> HIDE DEF S
  <2>2. Head(o.todo) \in S
    BY <2>1, HeadTailProperties DEF Reads
  <2>3. "read" \in S
    BY <2>2, Zenon DEF Reads
  <2> QED BY <2>3 DEF S, StepsOf
<1>2. r \in Requests /\ Valid(r)
  BY <1>1 DEF SoundOp, NoRequest, Reading
<1> HIDE DEF r
<1>3. CASE r.kind = "instances"
  <2>1. r.count \in 1 .. 64 /\ (r.map = DeepDesert => r.count = 1)
    <3>1. r.count \in 1 .. 64 /\ (r.map = DeepDesert => r.count <= 1)
      BY <1>2, <1>3, Zenon DEF Valid
    <3> QED BY <3>1
  <2>2. r.count \in Nat /\ r.count >= 1
    <3>1. \A n \in 1 .. 64 : n \in Nat /\ n >= 1
      OBVIOUS
    <3> QED BY <2>1, <3>1, Zenon
  <2>3. r.map \in {Survival, DeepDesert}
    BY <1>2, <1>3, RequestAssumption DEF RequestAssumption
  <2>4. SoundPatch(OtherIds(doc), InstancePatch(doc, r.map, r.count))
    BY <2>1, <2>2, <2>3, SurvivalPatchSound, DeepDesertPatchSound
  <2>5. Computed(o) = WithPatch(o, Resized(doc, r.map, r.count),
                                InstancePatch(doc, r.map, r.count), <<>>)
    BY <1>3, Zenon DEF Computed, r
  <2> QED BY <2>4, <2>5, WithPatchSound
<1>4. CASE r.kind = "swap"
  <2>1. Computed(o) = WithPatch(o, <<>>, MemoryPatch(doc, r.size), <<>>)
    BY <1>4 DEF Computed, r
  <2> QED BY <2>1, MemoryPatchSound, WithPatchSound
<1>5. CASE r.kind = "region"
  <2>1. Computed(o) = WithPatch(o, <<>>, RegionFields(r.region), RegionEdits(pods, r.region))
    BY <1>5 DEF Computed, r
  <2> QED BY <2>1, RegionFieldsSound, WithPatchSound
<1>6. CASE r.kind = "name"
  <2>1. CASE PartitionsAt(doc, r.dimension) = {}
    <3>1. Computed(o) = Finish(o, "error")
      BY <1>6, <2>1 DEF Computed, r
    <3> QED BY <3>1, FinishSound
  <2>2. CASE PartitionsAt(doc, r.dimension) # {}
    <3>1. PICK edits : Computed(o) = WithPatch(o, <<>>, <<>>, edits)
      BY <1>6, <2>2 DEF Computed, r
    <3> QED BY <3>1, NoFieldsSound, WithPatchSound
  <2> QED BY <2>1, <2>2
<1> QED BY <1>1, <1>3, <1>4, <1>5, <1>6 DEF Reading

\* What a valid request begins with: reading comes first, and something follows.
LEMMA ReadFirst ==
    ASSUME NEW S, NEW rest \in Seq(S), "read" \notin S, "patch" \in S
    PROVE  /\ <<"read", "patch">> \o rest \in Seq(S \cup {"read"})
           /\ \A i \in DOMAIN (<<"read", "patch">> \o rest) :
                (<<"read", "patch">> \o rest)[i] = "read"
                    => i < Len(<<"read", "patch">> \o rest)
<1> DEFINE T == S \cup {"read"}
           s == <<"read", "patch">>
           all == s \o rest
<1>1. s \in Seq(T) /\ Len(s) = 2 /\ s[1] = "read" /\ s[2] = "patch"
  OBVIOUS
<1>2. rest \in Seq(T) /\ Len(rest) \in Nat /\ \A i \in 1 .. Len(rest) : rest[i] \in S
  <2>1. S \subseteq T
    OBVIOUS
  <2> HIDE DEF T
  <2> QED BY <2>1, SeqMonotonic, LenProperties
<1> HIDE DEF T, s
<1>3. all \in Seq(T) /\ Len(all) = Len(s) + Len(rest)
      /\ \A i \in 1 .. Len(s) + Len(rest) :
            all[i] = IF i <= Len(s) THEN s[i] ELSE rest[i - Len(s)]
  BY <1>1, <1>2, ConcatProperties
<1>4. DOMAIN all = 1 .. Len(all)
  BY <1>3, LenProperties
<1> DEFINE n == Len(rest)
<1>5. /\ n \in Nat /\ Len(all) = 2 + n /\ DOMAIN all = 1 .. 2 + n
      /\ \A i \in 1 .. n : rest[i] \in S
      /\ \A i \in 1 .. 2 + n : all[i] = IF i <= 2 THEN s[i] ELSE rest[i - 2]
  BY <1>1, <1>2, <1>3, <1>4
<1>6. \A i \in 1 .. 2 + n : i <= 2 => all[i] = s[i]
  BY <1>1, <1>3
<1> HIDE DEF all, n
<1>7. ASSUME NEW i \in DOMAIN all, all[i] = "read" PROVE i < Len(all)
  <2>1. CASE i <= 2
    <3>1. i = 1 \/ i = 2
      BY <1>5, <2>1
    <3>2. i # 2
      <4>1. all[i] = s[i]
        BY <1>5, <1>6, <2>1
      <4> QED BY <1>1, <1>7, <4>1
    <3> QED BY <1>5, <3>1, <3>2
  <2>2. CASE ~(i <= 2)
    <3>1. i - 2 \in 1 .. n
      BY <1>5, <2>2
    <3>2. all[i] \in S
      BY <1>5, <2>2, <3>1
    <3> QED BY <1>7, <3>2
  <2> QED BY <2>1, <2>2
<1> QED BY <1>3, <1>7 DEF all, s, T

NoRead == StepsOf(NoRequest)

\* The steps besides reading.
LEMMA NoReadSteps ==
    /\ "read" \notin NoRead
    /\ "patch" \in NoRead /\ "config" \in NoRead /\ "enable swap" \in NoRead
    /\ "restart" \in NoRead /\ "await" \in NoRead /\ "check" \in NoRead
    /\ "start" \in NoRead /\ "stop" \in NoRead /\ "verify" \in NoRead
BY DEF NoRead, StepsOf, NoRequest, Reading

\* Every request may take these, and some read as well.
LEMMA MoreSteps ==
    ASSUME NEW r
    PROVE  /\ NoRead \subseteq StepsOf(r)
           /\ r.kind \in Reading => StepsOf(r) = NoRead \cup {"read"}
BY DEF NoRead, StepsOf, NoRequest, Reading

\* Lists of up to four steps.
LEMMA ShortLists ==
    ASSUME NEW S, NEW a \in S, NEW b \in S, NEW e \in S, NEW f \in S
    PROVE  /\ <<>> \in Seq(S) /\ <<a>> \in Seq(S) /\ <<a, b>> \in Seq(S)
           /\ <<a, b, e>> \in Seq(S) /\ <<a, b, e, f>> \in Seq(S)
OBVIOUS

\* A list of four.
LEMMA FourSteps ==
    ASSUME NEW a, NEW b, NEW e, NEW f
    PROVE  /\ DOMAIN <<a, b, e, f>> = 1 .. 4 /\ Len(<<a, b, e, f>>) = 4
           /\ <<a, b, e, f>>[4] = f
OBVIOUS

\* The restart that may follow has no reading.
LEMMA RestartStepsTyped ==
    ASSUME NEW r
    PROVE  RestartSteps(r) \in Seq(NoRead)
<1>1. <<"restart", "await">> \in Seq(NoRead)
  BY NoReadSteps, ShortLists, Zenon
<1>2. <<>> \in Seq(NoRead)
  BY EmptySeq
<1> QED BY <1>1, <1>2 DEF RestartSteps

\* The steps of a request, for each of its kinds: none ends with reading.
LEMMA StepsSound ==
    ASSUME NEW r \in Requests
    PROVE  /\ Steps(r) \in Seq(StepsOf(r))
           /\ \A i \in DOMAIN Steps(r) : Steps(r)[i] = "read" => i < Len(Steps(r))
<1> DEFINE Later == RestartSteps(r)
           Pvp == IF PvpGiven(r) THEN <<"config">> ELSE <<>>
<1>1. Later \in Seq(NoRead) /\ Pvp \in Seq(NoRead) /\ <<>> \in Seq(NoRead)
  <2>1. <<>> \in Seq(NoRead)
    BY EmptySeq
  <2>2. <<"config">> \in Seq(NoRead)
    BY NoReadSteps, ShortLists, Zenon
  <2> QED BY <2>1, <2>2, RestartStepsTyped
<1>2. Pvp \o Later \in Seq(NoRead)
  <2> HIDE DEF Pvp, Later
  <2> QED BY <1>1, ConcatProperties
<1>3. CASE r.kind = "instances"
  <2>1. Steps(r) = (<<"read", "patch">> \o Pvp) \o Later
    BY <1>3 DEF Steps, InstanceSteps
  <2>2. <<"read", "patch">> \in Seq(StepsOf(r))
        /\ Pvp \in Seq(StepsOf(r)) /\ Later \in Seq(StepsOf(r))
    <3>1. <<"read", "patch">> \in Seq(StepsOf(r))
      BY <1>3 DEF StepsOf, Reading
    <3> HIDE DEF Pvp, Later
    <3> QED BY <1>1, <3>1, MoreSteps, SeqMonotonic
  <2>3. (<<"read", "patch">> \o Pvp) \o Later = <<"read", "patch">> \o (Pvp \o Later)
    <3> HIDE DEF Pvp, Later
    <3> QED BY <2>2, ConcatAssociative
  <2>4. StepsOf(r) = NoRead \cup {"read"}
    <3>1. r.kind \in Reading
      BY <1>3 DEF Reading
    <3> QED BY <3>1, MoreSteps
  <2> DEFINE more == Pvp \o Later
  <2>5. more \in Seq(NoRead) /\ Steps(r) = <<"read", "patch">> \o more
    BY <1>2, <2>1, <2>3
  <2> HIDE DEF more
  <2> QED BY <2>4, <2>5, NoReadSteps, ReadFirst
<1>4. CASE r.kind = "name"
  <2>1. Steps(r) = <<"read", "patch">> \o Later
    BY <1>4 DEF Steps
  <2>2. StepsOf(r) = NoRead \cup {"read"}
    <3>1. r.kind \in Reading
      BY <1>4 DEF Reading
    <3> QED BY <3>1, MoreSteps
  <2> HIDE DEF Later
  <2> QED BY <1>1, <2>1, <2>2, NoReadSteps, ReadFirst
<1>5. CASE r.kind = "region"
  <2>1. Steps(r) = <<"read", "patch">>
    BY <1>5 DEF Steps
  <2> QED BY <1>5, <2>1 DEF StepsOf, Reading
<1>6. CASE r.kind = "swap"
  <2>1. Steps(r) = <<"enable swap", "read", "patch", "verify">>
    BY <1>6 DEF Steps, SwapSteps
  <2>2. {"enable swap", "read", "patch", "verify"} \subseteq StepsOf(r)
    BY <1>6 DEF StepsOf, Reading
  <2>3. Steps(r) \in Seq(StepsOf(r))
    <3> DEFINE S == StepsOf(r)
    <3> HIDE DEF S
    <3>1. "enable swap" \in S /\ "read" \in S /\ "patch" \in S /\ "verify" \in S
      BY <2>2 DEF S
    <3>2. <<"enable swap", "read", "patch", "verify">> \in Seq(S)
      BY <3>1, ShortLists, Zenon
    <3> QED BY <2>1, <3>2 DEF S
  <2>4. DOMAIN Steps(r) = 1 .. 4 /\ Len(Steps(r)) = 4 /\ Steps(r)[4] = "verify"
    <3> DEFINE t == <<"enable swap", "read", "patch", "verify">>
    <3>1. DOMAIN t = 1 .. 4 /\ Len(t) = 4 /\ t[4] = "verify"
      BY FourSteps
    <3> QED BY <2>1, <3>1, Zenon
  <2>5. \A i \in 1 .. 4 : i = 4 \/ i < 4
    OBVIOUS
  <2> QED BY <2>3, <2>4, <2>5
<1>7. CASE r.kind \in {"start", "stop", "restart"}
  <2>1. Steps(r) \in {DesktopSteps(r), CommandLineSteps(r)}
    BY <1>7, Zenon DEF Steps
  <2>2. Steps(r) \in {<<"check", "start", "await", "verify">>, <<"check", "stop", "verify">>,
                      <<"restart", "await", "verify">>, <<"start", "await">>, <<"stop">>,
                      <<"restart", "await">>}
    <3>1. CASE r.kind = "start"
      BY <2>1, <3>1 DEF DesktopSteps, CommandLineSteps
    <3>2. CASE r.kind = "stop"
      BY <2>1, <3>2 DEF DesktopSteps, CommandLineSteps
    <3>3. CASE r.kind = "restart"
      BY <2>1, <3>3 DEF DesktopSteps, CommandLineSteps
    <3> QED BY <1>7, <3>1, <3>2, <3>3
  <2>3. Steps(r) \in Seq(NoRead)
    <3>1. /\ <<"check", "start", "await", "verify">> \in Seq(NoRead)
          /\ <<"check", "stop", "verify">> \in Seq(NoRead)
          /\ <<"restart", "await", "verify">> \in Seq(NoRead)
          /\ <<"start", "await">> \in Seq(NoRead) /\ <<"stop">> \in Seq(NoRead)
          /\ <<"restart", "await">> \in Seq(NoRead)
      BY NoReadSteps, ShortLists, Zenon
    <3> QED BY <2>2, <3>1
  <2>4. Steps(r) \in Seq(StepsOf(r))
    BY <2>3, MoreSteps, SeqMonotonic
  <2>5. \A i \in DOMAIN Steps(r) : Steps(r)[i] # "read"
    BY <2>3, NoReadSteps, LenProperties
  <2> QED BY <2>4, <2>5
<1> QED BY <1>3, <1>4, <1>5, <1>6, <1>7, RequestAssumption DEF RequestAssumption, Kinds

\* An operation that begins.
LEMMA BegunSound ==
    ASSUME NEW others, NEW r \in Requests, Valid(r), NEW b
    PROVE  SoundOp(others, [Idle EXCEPT !.request = r, !.todo = Steps(r), !.undisturbed = b])
<1> DEFINE p == [Idle EXCEPT !.request = r, !.todo = Steps(r), !.undisturbed = b]
<1>1. DOMAIN p = DOMAIN Idle /\ p.request = r /\ p.todo = Steps(r) /\ p.fields = <<>>
      /\ p.process = Absent
  BY DEF Idle
<1> HIDE DEF p
<1>2. SoundOp(others, p)
  BY <1>1, StepsSound, NoFieldsSound DEF SoundOp
<1> QED BY <1>2 DEF p

\* A client that does nothing, or was refused.
LEMMA IdleSound ==
    ASSUME NEW others, NEW a
    PROVE  SoundOp(others, Idle) /\ SoundOp(others, [Idle EXCEPT !.answer = a])
<1>1. /\ Idle.request = NoRequest /\ Idle.todo = <<>> /\ Idle.fields = <<>>
      /\ Idle.process = Absent
  BY DEF Idle
<1>2. <<>> \in Seq(StepsOf(NoRequest)) /\ DOMAIN <<>> = {}
  BY EmptySeq
<1>3. SoundOp(others, Idle)
  BY <1>1, <1>2, NoFieldsSound DEF SoundOp
<1> DEFINE p == [Idle EXCEPT !.answer = a]
<1>4. DOMAIN p = DOMAIN Idle /\ p.request = Idle.request /\ p.todo = Idle.todo
      /\ p.fields = Idle.fields /\ p.process = Absent
  BY <1>1 DEF Idle
<1> HIDE DEF p
<1>5. SoundOp(others, p)
  BY <1>3, <1>4, SameMembers
<1> QED BY <1>3, <1>5 DEF p

-----------------------------------------------------------------------------
\* The steps.

\* When the other maps lose ids, a script sent before stays sound,
LEMMA FewerProcess ==
    ASSUME NEW others, NEW fewer, fewer \subseteq others,
           NEW left, SoundProcess(others, left)
    PROVE  SoundProcess(fewer, left)
BY FewerIds DEF SoundProcess

\* and so do operations and abandoned processes.
LEMMA FewerOps ==
    ASSUME NEW others, NEW fewer, fewer \subseteq others
    PROVE  /\ \A o : SoundOp(others, o) => SoundOp(fewer, o)
           /\ \A o : SoundOrphan(others, o) => SoundOrphan(fewer, o)
<1>1. ASSUME NEW o, SoundOp(others, o) PROVE SoundOp(fewer, o)
  <2>1. SoundPatch(fewer, o.fields)
    BY <1>1, FewerIds DEF SoundOp
  <2>2. o.process # Absent => SoundProcess(fewer, o.process)
    BY <1>1, FewerProcess DEF SoundOp
  <2> QED BY <1>1, <2>1, <2>2 DEF SoundOp
<1>2. ASSUME NEW o, SoundOrphan(others, o) PROVE SoundOrphan(fewer, o)
  BY <1>2, FewerProcess DEF SoundOrphan
<1> QED BY <1>1, <1>2

\* An effect leaves the resource whole, and no new id is in the other maps.
LEMMA PerformKeeps ==
    ASSUME WorldInv(doc), NEW e,
           e.do = "patch" => SoundPatch(OtherIds(doc), e.fields), Perform(e)
    PROVE  WorldInv(doc') /\ OtherIds(doc') \subseteq OtherIds(doc)
<1>1. CASE e.do = "patch" /\ ~Rejected(e)
  <2>1. doc' = Patched(doc, e.fields)
    BY <1>1 DEF Perform
  <2> QED BY <1>1, <2>1, PatchedWorld
<1>2. CASE ~(e.do = "patch" /\ ~Rejected(e))
  <2>1. doc' = doc
    BY <1>2 DEF Perform
  <2> QED BY <2>1
<1> QED BY <1>1, <1>2

\* A step that changes neither an operation's patch nor its next steps.
LEMMA ProcessSound ==
    ASSUME NEW others, NEW o, SoundOp(others, o),
           NEW process, SoundProcess(others, process), NEW b
    PROVE  /\ SoundOp(others, [o EXCEPT !.process = process])
           /\ SoundOp(others, [o EXCEPT !.process = process, !.failed = b])
           /\ SoundOp(others, [o EXCEPT !.process = process, !.undisturbed = b])
<1>1. DOMAIN o = OpNames
  BY IdleNames DEF SoundOp
<1>2. ASSUME NEW p, DOMAIN p = OpNames, p.request = o.request, p.todo = o.todo,
             p.fields = o.fields, p.process = process
      PROVE  SoundOp(others, p)
  BY <1>1, <1>2, SameMembers
<1>3. SoundOp(others, [o EXCEPT !.process = process])
  <2> DEFINE p == [o EXCEPT !.process = process]
  <2>1. DOMAIN p = OpNames /\ p.request = o.request /\ p.todo = o.todo
        /\ p.fields = o.fields /\ p.process = process
    BY <1>1 DEF OpNames
  <2> HIDE DEF p
  <2> QED BY <1>2, <2>1 DEF p
<1>4. SoundOp(others, [o EXCEPT !.process = process, !.failed = b])
  <2> DEFINE p == [o EXCEPT !.process = process, !.failed = b]
  <2>1. DOMAIN p = OpNames /\ p.request = o.request /\ p.todo = o.todo
        /\ p.fields = o.fields /\ p.process = process
    BY <1>1 DEF OpNames
  <2> HIDE DEF p
  <2> QED BY <1>2, <2>1 DEF p
<1>5. SoundOp(others, [o EXCEPT !.process = process, !.undisturbed = b])
  <2> DEFINE p == [o EXCEPT !.process = process, !.undisturbed = b]
  <2>1. DOMAIN p = OpNames /\ p.request = o.request /\ p.todo = o.todo
        /\ p.fields = o.fields /\ p.process = process
    BY <1>1 DEF OpNames
  <2> HIDE DEF p
  <2> QED BY <1>2, <2>1 DEF p
<1> QED BY <1>3, <1>4, <1>5

\* A step that only marks the operation.
LEMMA MarkedSound ==
    ASSUME NEW others, NEW o, SoundOp(others, o), NEW b
    PROVE  /\ SoundOp(others, [o EXCEPT !.undisturbed = b])
           /\ Sent(o) => Sent([o EXCEPT !.undisturbed = b])
           /\ SoundOp(others, [o EXCEPT !.unfinished = b])
           /\ [o EXCEPT !.unfinished = b].todo = o.todo
<1>1. DOMAIN o = OpNames
  BY IdleNames DEF SoundOp
<1>2. ASSUME NEW p, DOMAIN p = OpNames, p.request = o.request, p.todo = o.todo,
             p.fields = o.fields, p.process = o.process
      PROVE  SoundOp(others, p) /\ (Sent(o) => Sent(p))
  <2>1. o.process # Absent => SoundProcess(others, o.process)
    BY DEF SoundOp
  <2> QED BY <1>1, <1>2, <2>1, SameMembers DEF Sent
<1> DEFINE p == [o EXCEPT !.undisturbed = b]
           q == [o EXCEPT !.unfinished = b]
<1>3. DOMAIN p = OpNames /\ p.request = o.request /\ p.todo = o.todo
      /\ p.fields = o.fields /\ p.process = o.process
  BY <1>1 DEF OpNames
<1>4. DOMAIN q = OpNames /\ q.request = o.request /\ q.todo = o.todo
      /\ q.fields = o.fields /\ q.process = o.process
  BY <1>1 DEF OpNames
<1> HIDE DEF p, q
<1> QED BY <1>2, <1>3, <1>4 DEF p, q

\* A client's step that leaves the resource alone.
LEMMA ClientStep ==
    ASSUME OpsInv, NEW c \in Clients, NEW o, Become(c, o), doc' = doc,
           SoundOp(OtherIds(doc), o), Sent(o),
           \A a \in orphans' : SoundOrphan(OtherIds(doc), a)
    PROVE  OpsInv'
<1>1. DOMAIN op = Clients /\ \A d \in Clients : SoundOp(OtherIds(doc), op[d]) /\ Sent(op[d])
  BY DEF OpsInv
<1>2. DOMAIN op' = Clients /\ \A d \in Clients : op'[d] = IF d = c THEN o ELSE op[d]
  BY <1>1 DEF Become
<1>3. \A d \in Clients : SoundOp(OtherIds(doc), op'[d]) /\ Sent(op'[d])
  BY <1>1, <1>2
<1>4. OtherIds(doc)' = OtherIds(doc) /\ WorldInv(doc)' /\ \A d : Sent(op[d])' = Sent(op'[d])
  BY DEF OpsInv, OtherIds, WorldInv, Agrees, Sent
<1> QED BY <1>2, <1>3, <1>4 DEF OpsInv

\* The actions of a client that leave the guest alone.

\* A request begins; the others may be disturbed by it.
LEMMA BeginKeeps ==
    ASSUME OpsInv, NEW c \in Clients, NEW r \in Requests, Begin(c, r)
    PROVE  OpsInv'
<1>1. doc' = doc /\ orphans' = orphans
  BY DEF Begin, guest
<1>2. DOMAIN op = Clients /\ \A d \in Clients : SoundOp(OtherIds(doc), op[d]) /\ Sent(op[d])
  BY DEF OpsInv
<1>3. ASSUME NEW d \in Clients
      PROVE  SoundOp(OtherIds(doc), op'[d]) /\ Sent(op'[d])
  <2>1. CASE d # c
    <3> DEFINE b == op[d].undisturbed /\ ~Interferes(op[d].request, r)
               p == [op[d] EXCEPT !.undisturbed = b]
    <3>1. op'[d] = p
      BY <2>1 DEF Begin
    <3>2. SoundOp(OtherIds(doc), p) /\ Sent(p)
      <4> HIDE DEF b
      <4> QED BY <1>2, MarkedSound
    <3> QED BY <3>1, <3>2, Zenon
  <2>2. CASE d = c /\ Valid(r)
    <3> DEFINE b == \A q \in Beside(c) : ~Interferes(q, r)
               p == [Idle EXCEPT !.request = r, !.todo = Steps(r), !.undisturbed = b]
    <3>1. op'[d] = p
      BY <2>2 DEF Begin
    <3>2. SoundOp(OtherIds(doc), op'[d])
      <4>1. SoundOp(OtherIds(doc), p)
        <5> HIDE DEF b
        <5> QED BY <2>2, BegunSound
      <4> QED BY <3>1, <4>1, Zenon
    <3>3. op'[d].process = Absent
      BY <3>1 DEF Idle
    <3> QED BY <3>2, <3>3 DEF Sent
  <2>3. CASE d = c /\ ~Valid(r)
    <3>1. op'[d] = [Idle EXCEPT !.answer = "error"]
      BY <2>3 DEF Begin
    <3>2. SoundOp(OtherIds(doc), op'[d])
      BY <3>1, IdleSound
    <3>3. op'[d].process = Absent
      BY <3>1 DEF Idle
    <3> QED BY <3>2, <3>3 DEF Sent
  <2> QED BY <2>1, <2>2, <2>3
<1>4. DOMAIN op' = Clients
  BY DEF Begin
<1>5. OtherIds(doc)' = OtherIds(doc) /\ WorldInv(doc)' /\ \A d : Sent(op[d])' = Sent(op'[d])
  BY <1>1 DEF OpsInv, OtherIds, WorldInv, Agrees, Sent
<1> QED BY <1>1, <1>3, <1>4, <1>5 DEF OpsInv

\* What the invariant says of one client, and of what it would abandon.
LEMMA ClientSound ==
    ASSUME OpsInv, NEW c \in Clients
    PROVE  /\ SoundOp(OtherIds(doc), op[c]) /\ Sent(op[c])
           /\ \A a \in orphans : SoundOrphan(OtherIds(doc), a)
           /\ Waiting(c) => /\ SoundProcess(OtherIds(doc), op[c].process)
                            /\ op[c].todo # <<>>
                            /\ Head(op[c].todo) \in ScriptSteps
                            /\ \A a \in Abandoned(c) : SoundOrphan(OtherIds(doc), a)
<1>1. /\ SoundOp(OtherIds(doc), op[c]) /\ Sent(op[c])
      /\ \A a \in orphans : SoundOrphan(OtherIds(doc), a)
  BY DEF OpsInv
<1>2. ASSUME Waiting(c)
      PROVE  /\ SoundProcess(OtherIds(doc), op[c].process)
             /\ op[c].todo # <<>>
             /\ Head(op[c].todo) \in ScriptSteps
  BY <1>1, <1>2 DEF Waiting, Sent, SoundOp
<1>3. ASSUME Waiting(c), NEW a \in Abandoned(c)
      PROVE  SoundOrphan(OtherIds(doc), a)
  <2>1. CASE a \in orphans
    BY <1>1, <2>1
  <2>2. CASE op[c].process # <<>> /\ a = [request |-> op[c].request, left |-> op[c].process]
    BY <1>2, <1>3, <2>2 DEF SoundOrphan
  <2> QED BY <1>3, <2>1, <2>2 DEF Abandoned
<1> QED BY <1>1, <1>2, <1>3

\* A step after which the client waits for nothing.
LEMMA StepDone ==
    ASSUME OpsInv, NEW c \in Clients, NEW o, Become(c, o), doc' = doc,
           SoundOp(OtherIds(doc), o), o.process = Absent,
           orphans' = orphans \/ (Waiting(c) /\ orphans' = Abandoned(c))
    PROVE  OpsInv'
<1>1. \A a \in orphans' : SoundOrphan(OtherIds(doc), a)
  BY ClientSound
<1> QED BY <1>1, ClientStep DEF Sent

\* The desktop's guard.
LEMMA CheckKeeps == ASSUME OpsInv, NEW c \in Clients, Check(c) PROVE OpsInv'
<1>1. doc' = doc /\ orphans' = orphans /\ op[c].todo # <<>>
  BY DEF Check, guest, At, Busy
<1>2. \/ Become(c, Finish(op[c], "error"))
      \/ Become(c, Proceed(op[c]))
  BY DEF Check
<1> QED BY <1>1, <1>2, ClientSound, FinishSound, ProceedSound, StepDone

\* The copy is read and the patch computed.
LEMMA ReadKeeps == ASSUME OpsInv, NEW c \in Clients, Read(c) PROVE OpsInv'
<1>1. doc' = doc /\ orphans' = orphans /\ Reads(op[c])
  BY DEF Read, guest, At, Busy, Reads
<1>2. Become(c, Computed(op[c])) /\ WorldInv(doc)
  BY DEF Read, OpsInv
<1> QED BY <1>1, <1>2, ClientSound, ComputedSound, StepDone

\* A command has ended.
LEMMA AnsweredKeeps == ASSUME OpsInv, NEW c \in Clients, Answered(c) PROVE OpsInv'
<1>1. doc' = doc /\ orphans' = orphans /\ op[c].todo # <<>>
  BY ClientSound DEF Answered, guest
<1>2. \/ Become(c, Finish(op[c], "error"))
      \/ Become(c, Proceed(op[c]))
  BY DEF Answered
<1> QED BY <1>1, <1>2, ClientSound, FinishSound, ProceedSound, StepDone

\* The wait for the start.
LEMMA AwaitStartedKeeps == ASSUME OpsInv, NEW c \in Clients, AwaitStarted(c) PROVE OpsInv'
<1>1. doc' = doc /\ orphans' = orphans /\ op[c].todo # <<>>
  BY DEF AwaitStarted, guest, At, Busy
<1>2. \/ Become(c, Finish(op[c], "error"))
      \/ Become(c, Proceed(op[c]))
  BY DEF AwaitStarted
<1> QED BY <1>1, <1>2, ClientSound, FinishSound, ProceedSound, StepDone

\* The status read at the end.
LEMMA VerifyKeeps == ASSUME OpsInv, NEW c \in Clients, Verify(c) PROVE OpsInv'
<1>1. doc' = doc /\ orphans' = orphans /\ op[c].todo # <<>>
  BY DEF Verify, guest, At, Busy
<1>2. Become(c, Proceed(op[c]))
  BY DEF Verify
<1> QED BY <1>1, <1>2, ClientSound, ProceedSound, StepDone

\* A step fails.
LEMMA StepFailsKeeps == ASSUME OpsInv, NEW c \in Clients, StepFails(c) PROVE OpsInv'
<1>1. doc' = doc /\ orphans' = orphans /\ Become(c, Finish(op[c], "error"))
  BY DEF StepFails, guest
<1> QED BY <1>1, ClientSound, FinishSound, StepDone

\* The deadline passes: the process is abandoned with what is left of it.
LEMMA TimesOutKeeps == ASSUME OpsInv, NEW c \in Clients, TimesOut(c) PROVE OpsInv'
<1>1. /\ doc' = doc /\ Waiting(c) /\ orphans' = Abandoned(c)
      /\ Become(c, Finish(op[c], "error"))
  BY DEF TimesOut, guest
<1> QED BY <1>1, ClientSound, FinishSound, StepDone

\* So it is when the connection ends, and the operation goes on.
LEMMA ConnectionLostKeeps == ASSUME OpsInv, NEW c \in Clients, ConnectionLost(c) PROVE OpsInv'
<1>1. doc' = doc /\ Waiting(c) /\ orphans' = Abandoned(c)
  BY DEF ConnectionLost, guest
<1>2. SoundOp(OtherIds(doc), op[c]) /\ op[c].todo # <<>>
  BY <1>1, ClientSound
<1>3. CASE Become(c, Finish(op[c], "error"))
  BY <1>1, <1>2, <1>3, FinishSound, StepDone
<1>4. ASSUME NEW b, Become(c, Proceed([op[c] EXCEPT !.unfinished = b])) PROVE OpsInv'
  <2> DEFINE p == [op[c] EXCEPT !.unfinished = b]
  <2>1. SoundOp(OtherIds(doc), p) /\ p.todo # <<>>
    BY <1>2, MarkedSound
  <2>2. Become(c, Proceed(p))
    BY <1>4
  <2> HIDE DEF p
  <2> QED BY <1>1, <2>1, <2>2, ProceedSound, StepDone
<1> QED BY <1>3, <1>4 DEF ConnectionLost

\* The actions that send a script.

\* A script is sent: it is one that leaves the world whole.
LEMMA SendKeeps == ASSUME OpsInv, NEW c \in Clients, Send(c) PROVE OpsInv'
<1> DEFINE p == [op[c] EXCEPT !.process = Script(op[c])]
<1>1. /\ doc' = doc /\ orphans' = orphans /\ Become(c, p)
      /\ op[c].todo # <<>> /\ Head(op[c].todo) \in ScriptSteps
  BY DEF Send, guest, Busy
<1>2. SoundOp(OtherIds(doc), op[c]) /\ \A a \in orphans' : SoundOrphan(OtherIds(doc), a)
  BY <1>1, ClientSound
<1>3. SoundOp(OtherIds(doc), p)
  BY <1>1, <1>2, ScriptSound, ProcessSound
<1>4. p.todo = op[c].todo
  BY <1>2, IdleNames DEF SoundOp, OpNames
<1>5. Sent(p)
  BY <1>1, <1>4 DEF Sent
<1> HIDE DEF p
<1> QED BY <1>1, <1>2, <1>3, <1>5, ClientStep

\* It is sent again, and its first copy abandoned.
LEMMA ScriptResentKeeps == ASSUME OpsInv, NEW c \in Clients, ScriptResent(c) PROVE OpsInv'
<1> DEFINE p == [op[c] EXCEPT !.process = Script(op[c]), !.undisturbed = FALSE]
<1>1. doc' = doc /\ Waiting(c) /\ orphans' = Abandoned(c) /\ Become(c, p)
  BY DEF ScriptResent, guest
<1>2. /\ SoundOp(OtherIds(doc), op[c]) /\ \A a \in orphans' : SoundOrphan(OtherIds(doc), a)
      /\ op[c].todo # <<>> /\ Head(op[c].todo) \in ScriptSteps
  BY <1>1, ClientSound
<1>3. SoundOp(OtherIds(doc), p)
  BY <1>2, ScriptSound, ProcessSound
<1>4. p.todo = op[c].todo
  BY <1>2, IdleNames DEF SoundOp, OpNames
<1>5. Sent(p)
  BY <1>2, <1>4 DEF Sent
<1> HIDE DEF p
<1> QED BY <1>1, <1>2, <1>3, <1>5, ClientStep

\* The guest's actions.

\* The first effect of a sound script.
LEMMA FirstEffect ==
    ASSUME NEW others, NEW left, SoundProcess(others, left), left # <<>>
    PROVE  Head(left).do = "patch" => SoundPatch(others, Head(left).fields)
<1>1. left \in Seq(Elements(left)) /\ left[1] = Head(left)
  BY DEF SoundProcess
<1>2. 1 \in DOMAIN left
  <2> DEFINE S == Elements(left)
  <2>1. left \in Seq(S)
    BY <1>1
  <2> HIDE DEF S
  <2>2. Len(left) \in Nat /\ Len(left) # 0 /\ DOMAIN left = 1 .. Len(left)
    BY <2>1, LenProperties, EmptySeq
  <2> QED BY <2>2
<1> QED BY <1>1, <1>2, Zenon DEF SoundProcess

\* An effect of a client's process.
LEMMA ExecuteKeeps == ASSUME OpsInv, NEW c \in Clients, Execute(c) PROVE OpsInv'
<1> DEFINE e == Head(op[c].process)
           b == Rejected(e)
           p == [op[c] EXCEPT !.process = Rest(op[c].process), !.failed = b]
           now == OtherIds(doc')
<1>1. Waiting(c) /\ op[c].process # <<>> /\ Perform(e) /\ Become(c, p) /\ orphans' = orphans
  BY DEF Execute
<1>2. SoundOp(OtherIds(doc), op[c]) /\ SoundProcess(OtherIds(doc), op[c].process)
      /\ op[c].todo # <<>> /\ Head(op[c].todo) \in ScriptSteps
  BY <1>1, ClientSound
<1>3. e.do = "patch" => SoundPatch(OtherIds(doc), e.fields)
  BY <1>1, <1>2, FirstEffect
<1>4. /\ WorldInv(doc) /\ DOMAIN op = Clients
      /\ \A d \in Clients : SoundOp(OtherIds(doc), op[d]) /\ Sent(op[d])
      /\ \A a \in orphans : SoundOrphan(OtherIds(doc), a)
  BY DEF OpsInv
<1>5. WorldInv(doc') /\ now \subseteq OtherIds(doc)
  <2> HIDE DEF e
  <2> QED BY <1>1, <1>3, <1>4, PerformKeeps
<1>6. SoundOp(OtherIds(doc), p)
  <2>1. SoundProcess(OtherIds(doc), Rest(op[c].process))
    BY <1>1, <1>2, RestSound
  <2> HIDE DEF b
  <2> QED BY <1>2, <2>1, ProcessSound
<1>7. Sent(p)
  <2>1. p.todo = op[c].todo
    BY <1>2, IdleNames DEF SoundOp, OpNames
  <2> HIDE DEF p
  <2> QED BY <1>2, <2>1 DEF Sent
<1> HIDE DEF p, e, b
<1>8. DOMAIN op' = Clients /\ \A d \in Clients : op'[d] = IF d = c THEN p ELSE op[d]
  BY <1>1, <1>4 DEF Become
<1>9. \A d \in Clients : SoundOp(OtherIds(doc), op'[d]) /\ Sent(op'[d])
  BY <1>4, <1>6, <1>7, <1>8
<1> HIDE DEF now
<1>10. /\ \A d \in Clients : SoundOp(now, op'[d]) /\ Sent(op'[d])
       /\ \A a \in orphans' : SoundOrphan(now, a)
  BY <1>1, <1>4, <1>5, <1>9, FewerOps
<1> QED BY <1>5, <1>8, <1>10 DEF OpsInv, now, Sent, OtherIds, WorldInv, Agrees

\* An effect of an abandoned one, whatever happened since its patch was computed.
LEMMA OrphanExecutesKeeps == ASSUME OpsInv, NEW o \in orphans, OrphanExecutes(o) PROVE OpsInv'
<1> DEFINE e == Head(o.left)
           rest == [o EXCEPT !.left = Rest(o.left)]
           now == OtherIds(doc')
<1>1. /\ Perform(e) /\ op' = op
      /\ \A a \in orphans' : a \in orphans \/ (a = rest /\ Rest(o.left) # <<>>)
  BY DEF OrphanExecutes
<1>2. /\ WorldInv(doc) /\ DOMAIN op = Clients
      /\ \A d \in Clients : SoundOp(OtherIds(doc), op[d]) /\ Sent(op[d])
      /\ \A a \in orphans : SoundOrphan(OtherIds(doc), a)
  BY DEF OpsInv
<1>3. o.left # <<>> /\ SoundProcess(OtherIds(doc), o.left) /\ DOMAIN o = {"request", "left"}
  <2>1. SoundOrphan(OtherIds(doc), o)
    BY <1>2
  <2> QED BY <2>1 DEF SoundOrphan
<1>4. e.do = "patch" => SoundPatch(OtherIds(doc), e.fields)
  BY <1>3, FirstEffect
<1>5. WorldInv(doc') /\ now \subseteq OtherIds(doc)
  <2> HIDE DEF e
  <2> QED BY <1>1, <1>2, <1>4, PerformKeeps
<1>6. Rest(o.left) # <<>> => SoundOrphan(OtherIds(doc), rest)
  <2>1. SoundProcess(OtherIds(doc), Rest(o.left))
    BY <1>3, RestSound
  <2>2. DOMAIN rest = {"request", "left"} /\ rest.left = Rest(o.left)
    BY <1>3
  <2> HIDE DEF rest
  <2> QED BY <2>1, <2>2 DEF SoundOrphan
<1> HIDE DEF e, rest, now
<1>7. /\ \A d \in Clients : SoundOp(now, op[d]) /\ Sent(op[d])
      /\ \A a \in orphans' : SoundOrphan(now, a)
  <2>1. \A a \in orphans' : SoundOrphan(OtherIds(doc), a)
    BY <1>1, <1>2, <1>6, Zenon
  <2> QED BY <1>2, <1>5, <2>1, FewerOps
<1> QED BY <1>1, <1>2, <1>5, <1>7 DEF OpsInv, now, Sent, OtherIds, WorldInv, Agrees

\* What leaves the resource and the operations alone.
LEMMA OthersKeep ==
    ASSUME OpsInv, doc' = doc, op' = op, orphans' \subseteq orphans
    PROVE  OpsInv'
BY DEF OpsInv, Sent, OtherIds, WorldInv, Agrees

\* The invariant holds at the start.
LEMMA InitSound == Init => OpsInv
<1> SUFFICES ASSUME Init PROVE OpsInv
  OBVIOUS
<1>1. doc = InitialDoc /\ orphans = {} /\ DOMAIN op = Clients /\ \A c \in Clients : op[c] = Idle
  BY DEF Init
<1>2. WorldInv(doc)
  BY <1>1, InitialWorld
<1>3. \A c \in Clients : SoundOp(OtherIds(doc), op[c]) /\ Sent(op[c])
  <2>1. SoundOp(OtherIds(doc), Idle)
    BY IdleSound
  <2>2. Idle.process = Absent
    BY DEF Idle
  <2>3. Sent(Idle)
    BY <2>2 DEF Sent
  <2> QED BY <1>1, <2>1, <2>3, Zenon
<1> QED BY <1>1, <1>2, <1>3 DEF OpsInv

\* Every step keeps the invariant.
LEMMA NextSound == OpsInv /\ [Next]_vars => OpsInv'
<1> SUFFICES ASSUME OpsInv, [Next]_vars PROVE OpsInv'
  OBVIOUS
<1>1. ASSUME NEW c \in Clients, NEW r \in Requests, Begin(c, r) PROVE OpsInv'
  BY <1>1, BeginKeeps
<1>2. ASSUME NEW c \in Clients, Check(c) \/ Read(c) \/ Send(c) \/ Answered(c)
      PROVE  OpsInv'
  BY <1>2, CheckKeeps, ReadKeeps, SendKeeps, AnsweredKeeps
<1>3. ASSUME NEW c \in Clients, AwaitStarted(c) \/ Verify(c) \/ Execute(c)
      PROVE  OpsInv'
  BY <1>3, AwaitStartedKeeps, VerifyKeeps, ExecuteKeeps
<1>4. ASSUME NEW c \in Clients,
             StepFails(c) \/ TimesOut(c) \/ ConnectionLost(c) \/ ScriptResent(c)
      PROVE  OpsInv'
  BY <1>4, StepFailsKeeps, TimesOutKeeps, ConnectionLostKeeps, ScriptResentKeeps
<1>5. ASSUME NEW o \in orphans, OrphanExecutes(o) PROVE OpsInv'
  BY <1>5, OrphanExecutesKeeps
<1>6. ASSUME NEW o \in orphans, OrphanEnds(o) PROVE OpsInv'
  BY <1>6, OthersKeep DEF OrphanEnds, guest
<1>7. CASE Reconcile
  BY <1>7, OthersKeep DEF Reconcile, guest
<1>8. CASE UNCHANGED vars
  BY <1>8, OthersKeep DEF vars
<1> QED BY <1>1, <1>2, <1>3, <1>4, <1>5, <1>6, <1>7, <1>8, Zenon DEF Next

\* However many operations overlap, are lost, time out or are sent twice, and
\* whatever the copies they compute their patches from: no two partitions of
\* the battlegroup ever share an id, and Survival's server group set has a
\* replica for each of its partitions and names them in order
\* (build_world_partition_update, next_free_partition_id and
\* append_server_group_set_patch of instances).
THEOREM WorldConsistentHolds == Spec => []WorldConsistent
<1>1. OpsInv => WorldConsistent
  BY WorldIsWhole DEF OpsInv, WorldConsistent
<1> QED BY <1>1, InitSound, NextSound, PTL DEF Spec
=============================================================================
