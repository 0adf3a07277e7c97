--------------------------- MODULE BattlegroupDoc ---------------------------
(***************************************************************************)
(* The parts of the BattleGroup resource that the manager edits, and the   *)
(* JSON patches it computes from a copy it has read.  The replaced members *)
(* are a function of fields, and a patch of them a function of some of the *)
(* fields; the launch arguments of the pods are sequences, and a patch of  *)
(* them names positions in the copy that was read.                         *)
(***************************************************************************)
EXTENDS Naturals, Sequences, FiniteSets, SequencesExt

CONSTANTS
    Survival,      \* the map whose dimensions can be added and removed
    DeepDesert,    \* the map of which one instance is supported
    OtherMaps,     \* maps that only the memory profile touches
    Absent         \* a member that the resource does not have

Maps == {Survival, DeepDesert} \cup OtherMaps

Fields ==
    ({"partitions", "limits", "requests"} \X Maps)
        \cup ({"replicas", "set", "region"} \X {Survival})

Partitions == Seq([id: Nat, dimension: Nat])
Ids(partitions) == [i \in DOMAIN partitions |-> partitions[i].id]
IdSet(partitions) == {partitions[i].id : i \in DOMAIN partitions}

-----------------------------------------------------------------------------
\* Instance counts.

Largest(S) == CHOOSE n \in S : \A k \in S : k <= n

UsedIds(doc) == UNION {IdSet(doc[<<"partitions", m>>]) : m \in Maps}

\* The mutant looks at the ids of the one map.
NextIdOfMap(doc, k) == Largest(IdSet(doc[<<"partitions", Survival>>])) + k

\* The k-th partition added on top of the ones in use.
NextId(doc, k) == Largest(UsedIds(doc)) + k

NextDimension(m, partitions, k) ==
    IF m = DeepDesert
    THEN 0
    ELSE Largest({partitions[i].dimension : i \in DOMAIN partitions}) + k

\* The stable order of the partitions: by dimension, then by id.
Before(partitions, i, j) ==
    LET p == partitions[i] q == partitions[j] IN
    \/ p.dimension < q.dimension
    \/ /\ p.dimension = q.dimension
       /\ p.id < q.id \/ (p.id = q.id /\ i < j)

Rank(partitions, i) ==
    Cardinality({j \in DOMAIN partitions : j = i \/ Before(partitions, j, i)})

ByDimension(partitions) ==
    [n \in DOMAIN partitions |->
        partitions[CHOOSE i \in DOMAIN partitions : Rank(partitions, i) = n]]

\* The partitions of m when it is to have count of them: the first ones are
\* kept, new ones are copies of the first with an id and a dimension.
Resized(doc, m, count) ==
    LET current == doc[<<"partitions", m>>]
        added == [k \in 1..(count - Len(current)) |->
                    [id |-> NextId(doc, k),
                     dimension |-> NextDimension(m, current, k)]]
    IN SubSeq(ByDimension(current) \o added, 1, count)

\* The members that follow the partitions: Survival's server group set.
Following(m) == IF m = Survival THEN {<<"replicas", m>>, <<"set", m>>} ELSE {}
SetValue(field, partitions) == IF field[1] = "set" THEN Ids(partitions) ELSE Len(partitions)

\* What of the desired values differs from the copy that was read.
Changes(doc, desired) ==
    [f \in {g \in DOMAIN desired : desired[g] # doc[g]} |-> desired[f]]

InstancePatch(doc, m, count) ==
    LET resized == Resized(doc, m, count) IN
    Changes(doc, [f \in {<<"partitions", m>>} \cup Following(m) |->
                    IF f[1] = "partitions" THEN resized ELSE SetValue(f, resized)])

\* The last count of the map's partitions have PvP.
PvpIds(partitions, count) ==
    IF count = 0
    THEN {}
    ELSE {partitions[i].id : i \in {j \in DOMAIN partitions : j + count > Len(partitions)}}

-----------------------------------------------------------------------------
\* The memory profile that goes with a swap file of some GiB.

CeilDiv(a, b) == (a + b - 1) \div b
AtMost(a, b) == IF a <= b THEN a ELSE b

Scaled(noSwap, vendorSwap, swap) ==
    noSwap - CeilDiv((noSwap - vendorSwap) * AtMost(swap, 30), 30)

MemoryProfile(m, swap) ==
    CASE m = Survival -> [limits |-> Scaled(20, 12, swap), requests |-> Scaled(20, 5, swap)]
      [] m = DeepDesert -> [limits |-> 10, requests |-> Scaled(10, 3, swap)]
      [] OTHER -> [limits |-> 1, requests |-> 0]

MemoryPatch(doc, swap) ==
    Changes(doc, [f \in {"limits", "requests"} \X Maps |-> MemoryProfile(f[2], swap)[f[1]]])

-----------------------------------------------------------------------------
\* Display names: an argument of the pod whose index is the partition's id.

NameArg(name) == [kind |-> "name", value |-> name]

PartitionsAt(doc, dimension) ==
    {p \in {doc[<<"partitions", Survival>>][i] : i \in DOMAIN doc[<<"partitions", Survival>>]} :
        p.dimension = dimension}

PositionOf(seq, Test(_)) ==
    IF \E i \in DOMAIN seq : Test(seq[i])
    THEN CHOOSE i \in DOMAIN seq :
            Test(seq[i]) /\ \A j \in DOMAIN seq : Test(seq[j]) => i <= j
    ELSE 0

\* Where the name is among the arguments; the mutant takes it for the first.
FirstIfNamed(arguments) == IF \E i \in DOMAIN arguments : arguments[i].kind = "name" THEN 1 ELSE 0
NameAt(arguments) == PositionOf(arguments, LAMBDA a : a.kind = "name")

Edit(op, pod, at, value) == [op |-> op, pod |-> pod, at |-> at, value |-> value]
AddUnlessCleared(name, edit) == IF name = Absent THEN <<>> ELSE <<edit>>

\* The edit that gives the pod of a partition a name, or clears it.
NameEdits(pods, partition, name) ==
    LET wanted == IF name = Absent THEN Absent ELSE NameArg(name)
        pod == IF pods = Absent
               THEN 0
               ELSE PositionOf(pods, LAMBDA p : p.index = partition)
    IN IF pods = Absent
       THEN AddUnlessCleared(name,
                Edit("add pods", 0, 0, [index |-> partition, arguments |-> <<wanted>>]))
       ELSE IF pod = 0
       THEN AddUnlessCleared(name,
                Edit("append pod", 0, 0, [index |-> partition, arguments |-> <<wanted>>]))
       ELSE IF pods[pod].arguments = Absent
       THEN AddUnlessCleared(name, Edit("add arguments", pod, 0, wanted))
       ELSE LET at == NameAt(pods[pod].arguments)
            IN IF at = 0
               THEN AddUnlessCleared(name, Edit("append argument", pod, 0, wanted))
               ELSE IF name = Absent
               THEN <<Edit("remove argument", pod, at, Absent)>>
               ELSE IF pods[pod].arguments[at] = wanted
               THEN <<>>
               ELSE <<Edit("replace argument", pod, at, wanted)>>

-----------------------------------------------------------------------------
\* The region: a member, and an argument wherever one names it.  What is there
\* is replaced, whatever it says.

RegionArg(region) == [kind |-> "region", value |-> region]

RegionEdits(pods, region) ==
    IF pods = Absent
    THEN <<>>
    ELSE SetToSeq({Edit("replace argument", at[1], at[2], RegionArg(region)) :
            at \in UNION {
                {<<i, j>> : j \in {k \in DOMAIN pods[i].arguments : pods[i].arguments[k].kind = "region"}} :
                i \in {k \in DOMAIN pods : pods[k].arguments # Absent}}})

RegionFields(region) == [f \in {<<"region", Survival>>} |-> region]

-----------------------------------------------------------------------------
\* What the API server does with a patch: all of it or nothing.

Patched(doc, patch) ==
    [f \in DOMAIN doc \cup DOMAIN patch |-> IF f \in DOMAIN patch THEN patch[f] ELSE doc[f]]

Without(seq, i) == SubSeq(seq, 1, i - 1) \o SubSeq(seq, i + 1, Len(seq))

\* A position that the resource no longer has is an error.
PodPatchApplies(pods, e) ==
    \/ e.op = "add pods"
    \/ /\ pods # Absent
       /\ \/ e.op = "append pod"
          \/ /\ e.pod \in DOMAIN pods
             /\ \/ e.op = "add arguments"
                \/ /\ pods[e.pod].arguments # Absent
                   /\ e.op = "append argument" \/ e.at \in DOMAIN pods[e.pod].arguments

PodsPatched(pods, e) ==
    CASE e.op = "add pods" -> <<e.value>>
      [] e.op = "append pod" -> Append(pods, e.value)
      [] e.op = "add arguments" -> [pods EXCEPT ![e.pod].arguments = <<e.value>>]
      [] e.op = "append argument" -> [pods EXCEPT ![e.pod].arguments = Append(@, e.value)]
      [] e.op = "replace argument" -> [pods EXCEPT ![e.pod].arguments[e.at] = e.value]
      [] e.op = "remove argument" -> [pods EXCEPT ![e.pod].arguments = Without(@, e.at)]

AllApply(pods, edits) == \A i \in DOMAIN edits : PodPatchApplies(pods, edits[i])
AllPatched(pods, edits) == FoldLeft(PodsPatched, pods, edits)
=============================================================================
