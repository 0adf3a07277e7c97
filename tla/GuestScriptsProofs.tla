------------------------- MODULE GuestScriptsProofs -------------------------
(***************************************************************************)
(* Proofs about GuestScripts, for any worlds, requests and releases. An    *)
(* effect of a script writes some items, leaves some there, and needs some *)
(* to be there (Writes, Makes, Needs), and the effects it stands for write *)
(* and leave the same (Substitutes). So a script whose needs are met when  *)
(* it starts has them met after each effect (ScriptStep), creates nothing  *)
(* that is there (FreshStep) and does not fail (NothingFails); and the     *)
(* script of every step is such a script and leaves what the step promises *)
(* (GoodScript).                                                           *)
(***************************************************************************)
EXTENDS HostSetupInvariant, SequenceTheorems, TLAPS

-----------------------------------------------------------------------------
\* Items, steps and their order.

\* Absent is none of the values that are put somewhere.
LEMMA Present ==
  /\ TRUE # Absent /\ FALSE # Absent /\ \A n \in Nat : n # Absent
  /\ "alpine" # Absent /\ "ubuntu" # Absent
  /\ \A m \in Machines : m # Absent
<1>1. \A m \in Machines : m # Absent
  BY AbsentAssumption, Zenon
<1>2. "alpine" # Absent /\ "ubuntu" # Absent
  BY AbsentAssumption, Zenon
<1>3. TRUE # Absent /\ FALSE # Absent /\ \A n \in Nat : n # Absent
  BY AbsentAssumption, Zenon
<1> QED BY <1>1, <1>2, <1>3

\* Every item is one of the host, of an operator or of a world.
LEMMA ItemsAre ==
  /\ \A i \in HostItems : <<i>> \in Items
  /\ \A i \in OperatorItems, o \in Range(Operators) : <<i, o>> \in Items
  /\ \A i \in WorldItems, w \in Worlds : <<i, w>> \in Items
BY DEF Items

LEMMA OperatorRange == Range(Operators) = {"battlegroup", "database", "server", "utilities"}
BY DEF Range, Operators

LEMMA ItemOfName ==
  ASSUME NEW x \in Items
  PROVE  /\ x[1] \in WorldItems => x[2] \in Worlds /\ x = <<x[1], x[2]>>
         /\ x[1] \in OperatorItems => x[2] \in Range(Operators) /\ x = <<x[1], x[2]>>
<1>0. HostItems \cap WorldItems = {} /\ HostItems \cap OperatorItems = {}
          /\ OperatorItems \cap WorldItems = {}
  BY DEF HostItems, OperatorItems, Rights, WorldItems
<1>1. CASE \E i \in HostItems : x = <<i>>
  BY <1>0, <1>1
<1>2. CASE \E i \in OperatorItems, o \in Range(Operators) : x = <<i, o>>
  BY <1>0, <1>2
<1>3. CASE \E i \in WorldItems, w \in Worlds : x = <<i, w>>
  BY <1>0, <1>3
<1> QED BY <1>1, <1>2, <1>3 DEF Items

LEMMA RangeOfTuple ==
  /\ Range(<<>>) = {}
  /\ \A e : Range(<<e>>) = {e}
  /\ \A e, f : Range(<<e, f>>) = {e, f}
  /\ \A e, f, h : Range(<<e, f, h>>) = {e, f, h}
  /\ \A e, f, h, i : Range(<<e, f, h, i>>) = {e, f, h, i}
BY DEF Range

\* A sequence of steps whose ranks count up from n + 1.
RankedFrom(s, n) == \A k \in 1 .. Len(s) : Rank(s[k]) = k + n

LEMMA RankedConcat ==
  ASSUME NEW s \in Seq(StepNames), NEW t \in Seq(StepNames), NEW n \in Nat,
         RankedFrom(s, n), RankedFrom(t, n + Len(s))
  PROVE  /\ s \o t \in Seq(StepNames) /\ Len(s \o t) = Len(s) + Len(t)
         /\ RankedFrom(s \o t, n)
         /\ Range(s \o t) = Range(s) \cup Range(t)
<1>1. s \o t \in Seq(StepNames) /\ Len(s \o t) = Len(s) + Len(t)
  OBVIOUS
<1>2. ASSUME NEW k \in 1 .. Len(s \o t) PROVE Rank((s \o t)[k]) = k + n
  <2>1. CASE k \leq Len(s)
    <3>1. k \in 1 .. Len(s) /\ (s \o t)[k] = s[k]
      BY <2>1
    <3> QED BY <3>1 DEF RankedFrom
  <2>2. CASE k > Len(s)
    <3>1. k - Len(s) \in 1 .. Len(t) /\ (s \o t)[k] = t[k - Len(s)]
      BY <1>1, <2>2
    <3> QED BY <3>1, <1>1 DEF RankedFrom
  <2> QED BY <1>1, <2>1, <2>2
<1> QED BY <1>1, <1>2, RangeConcatenation DEF RankedFrom

LEMMA Fifteen == 1 .. 15 = {1, 2, 3, 4, 5, 6, 7, 8, 9, 10, 11, 12, 13, 14, 15}
OBVIOUS

LEMMA PartsRanked ==
  /\ HostSteps \in Seq(StepNames) /\ Len(HostSteps) = 5 /\ RankedFrom(HostSteps, 4)
  /\ SettingSteps \in Seq(StepNames) /\ Len(SettingSteps) = 5 /\ RankedFrom(SettingSteps, 9)
  /\ GuestSteps \in Seq(StepNames) /\ Len(GuestSteps) = 15 /\ RankedFrom(GuestSteps, 17)
<1>1. /\ HostSteps \in Seq(StepNames) /\ Len(HostSteps) = 5
      /\ SettingSteps \in Seq(StepNames) /\ Len(SettingSteps) = 5
      /\ GuestSteps \in Seq(StepNames) /\ Len(GuestSteps) = 15
  BY DEF HostSteps, SettingSteps, GuestSteps, StepNames
<1>2. RankedFrom(HostSteps, 4)
  <2>1. /\ Rank(HostSteps[1]) = 5 /\ Rank(HostSteps[2]) = 6 /\ Rank(HostSteps[3]) = 7
        /\ Rank(HostSteps[4]) = 8 /\ Rank(HostSteps[5]) = 9
    BY DEF HostSteps, Rank
  <2> QED BY <1>1, <2>1 DEF RankedFrom
<1>3. RankedFrom(SettingSteps, 9)
  <2>1. /\ Rank(SettingSteps[1]) = 10 /\ Rank(SettingSteps[2]) = 11 /\ Rank(SettingSteps[3]) = 12
        /\ Rank(SettingSteps[4]) = 13 /\ Rank(SettingSteps[5]) = 14
    BY DEF SettingSteps, Rank
  <2> QED BY <1>1, <2>1 DEF RankedFrom
<1>4. RankedFrom(GuestSteps, 17)
  <2>1. /\ Rank(GuestSteps[1]) = 18 /\ Rank(GuestSteps[2]) = 19 /\ Rank(GuestSteps[3]) = 20
        /\ Rank(GuestSteps[4]) = 21 /\ Rank(GuestSteps[5]) = 22 /\ Rank(GuestSteps[6]) = 23
        /\ Rank(GuestSteps[7]) = 24 /\ Rank(GuestSteps[8]) = 25 /\ Rank(GuestSteps[9]) = 26
    BY DEF GuestSteps, Rank
  <2>2. /\ Rank(GuestSteps[10]) = 27 /\ Rank(GuestSteps[11]) = 28 /\ Rank(GuestSteps[12]) = 29
        /\ Rank(GuestSteps[13]) = 30 /\ Rank(GuestSteps[14]) = 31 /\ Rank(GuestSteps[15]) = 32
    BY DEF GuestSteps, Rank
  <2>3. \A k \in {1, 2, 3, 4, 5, 6, 7, 8, 9, 10, 11, 12, 13, 14, 15} :
            Rank(GuestSteps[k]) = k + 17
    BY <2>1, <2>2
  <2>4. \A k \in 1 .. 15 : Rank(GuestSteps[k]) = k + 17
    BY <2>3, Fifteen, Zenon
  <2>5. 1 .. Len(GuestSteps) = 1 .. 15
    BY <1>1
  <2> QED BY <2>4, <2>5, Zenon DEF RankedFrom
<1> QED BY <1>1, <1>2, <1>3, <1>4

LEMMA PartRanges ==
  /\ Range(HostSteps) = {"readiness", "existing", "clear", "compare", "import"}
  /\ Range(SettingSteps) = Settings
  /\ Range(GuestSteps) = {"root_disk", "download", "start_k3s", "core_images", "scale_core",
        "update_crds", "operator_images", "scale_operators", "helper", "create_world",
        "world_images", "version", "sync", "patch_images", "defaults"}
  /\ Range(UbuntuSteps) = {"prepare_host", "install_k3s", "payload", "kubernetes",
        "player_settings", "create_world", "world_images", "version", "sync", "patch_images",
        "defaults", "scheduler"}
  /\ Range(SwapSteps) = {"ubuntu_swap"}
<1>1. Range(HostSteps) = {"readiness", "existing", "clear", "compare", "import"}
  <2>1. Range(HostSteps) = {HostSteps[k] : k \in 1 .. 5}
    BY PartsRanked DEF Range
  <2>2. 1 .. 5 = {1, 2, 3, 4, 5}
    OBVIOUS
  <2> QED BY <2>1, <2>2 DEF HostSteps
<1>2. Range(SettingSteps) = Settings
  <2>1. Range(SettingSteps) = {SettingSteps[k] : k \in 1 .. 5}
    BY PartsRanked DEF Range
  <2>2. 1 .. 5 = {1, 2, 3, 4, 5}
    OBVIOUS
  <2> QED BY <2>1, <2>2 DEF SettingSteps, Settings
<1>3. Range(GuestSteps) = {"root_disk", "download", "start_k3s", "core_images", "scale_core",
        "update_crds", "operator_images", "scale_operators", "helper", "create_world",
        "world_images", "version", "sync", "patch_images", "defaults"}
  <2>1. Range(GuestSteps) = {GuestSteps[k] : k \in 1 .. 15}
    BY PartsRanked DEF Range
  <2>2. Range(GuestSteps) =
            {GuestSteps[1], GuestSteps[2], GuestSteps[3], GuestSteps[4], GuestSteps[5],
             GuestSteps[6], GuestSteps[7], GuestSteps[8], GuestSteps[9], GuestSteps[10],
             GuestSteps[11], GuestSteps[12], GuestSteps[13], GuestSteps[14], GuestSteps[15]}
    BY <2>1, Fifteen
  <2> QED BY <2>2 DEF GuestSteps
<1>4. Range(UbuntuSteps) = {"prepare_host", "install_k3s", "payload", "kubernetes",
        "player_settings", "create_world", "world_images", "version", "sync", "patch_images",
        "defaults", "scheduler"}
  <2>1. Len(UbuntuSteps) = 12 /\ UbuntuSteps \in Seq(StepNames)
    BY DEF UbuntuSteps, StepNames
  <2>2. Range(UbuntuSteps) = {UbuntuSteps[k] : k \in 1 .. 12}
    BY <2>1 DEF Range
  <2>3. 1 .. 12 = {1, 2, 3, 4, 5, 6, 7, 8, 9, 10, 11, 12}
    OBVIOUS
  <2>4. Range(UbuntuSteps) =
            {UbuntuSteps[1], UbuntuSteps[2], UbuntuSteps[3], UbuntuSteps[4], UbuntuSteps[5],
             UbuntuSteps[6], UbuntuSteps[7], UbuntuSteps[8], UbuntuSteps[9], UbuntuSteps[10],
             UbuntuSteps[11], UbuntuSteps[12]}
    BY <2>2, <2>3
  <2> QED BY <2>4 DEF UbuntuSteps
<1>5. Range(SwapSteps) = {"ubuntu_swap"}
  BY RangeOfTuple DEF SwapSteps
<1> QED BY <1>1, <1>2, <1>3, <1>4, <1>5

LEMMA HyperVRanked ==
  /\ HyperVSteps \in Seq(StepNames) /\ Len(HyperVSteps) = 28
  /\ RankedFrom(HyperVSteps, 4)
  /\ Range(HyperVSteps) = Range(HostSteps) \cup Settings
        \cup {"start", "address", "player_settings"} \cup Range(GuestSteps)
<1> DEFINE T == <<"start", "address", "player_settings">>
           U == HostSteps \o SettingSteps
           V == U \o T
<1>1. /\ T \in Seq(StepNames) /\ Len(T) = 3 /\ RankedFrom(T, 14)
      /\ Range(T) = {"start", "address", "player_settings"}
  <2>1. T \in Seq(StepNames) /\ Len(T) = 3
    BY DEF StepNames
  <2>3. Range(T) = {"start", "address", "player_settings"}
    <3>1. Range(<<"start", "address", "player_settings">>) = {"start", "address", "player_settings"}
      BY DEF Range
    <3> QED BY <3>1 DEF T
  <2>2. Rank(T[1]) = 1 + 14 /\ Rank(T[2]) = 2 + 14 /\ Rank(T[3]) = 3 + 14
    BY DEF Rank
  <2> HIDE DEF T
  <2>4. \A k \in 1 .. 3 : Rank(T[k]) = k + 14
    BY <2>2
  <2> QED BY <2>1, <2>3, <2>4 DEF RankedFrom
<1> HIDE DEF T
<1>2. /\ U \in Seq(StepNames) /\ Len(U) = 10 /\ RankedFrom(U, 4)
      /\ Range(U) = Range(HostSteps) \cup Settings
  <2>1. RankedFrom(SettingSteps, 4 + Len(HostSteps))
    BY PartsRanked
  <2>2. /\ U \in Seq(StepNames) /\ Len(U) = Len(HostSteps) + Len(SettingSteps)
        /\ RankedFrom(U, 4) /\ Range(U) = Range(HostSteps) \cup Range(SettingSteps)
    BY <2>1, PartsRanked, RankedConcat
  <2> HIDE DEF U
  <2>3. Range(SettingSteps) = Settings
    BY PartRanges
  <2> QED BY <2>2, <2>3, PartsRanked
<1> HIDE DEF U
<1>3. /\ V \in Seq(StepNames) /\ Len(V) = 13 /\ RankedFrom(V, 4)
      /\ Range(V) = Range(U) \cup Range(T)
  <2>0. 4 + Len(U) = 14
    BY <1>2
  <2>1. RankedFrom(T, 4 + Len(U))
    BY <1>1, <2>0
  <2>2. /\ V \in Seq(StepNames) /\ Len(V) = Len(U) + Len(T)
        /\ RankedFrom(V, 4) /\ Range(V) = Range(U) \cup Range(T)
    BY <2>1, <1>1, <1>2, RankedConcat
  <2> HIDE DEF V
  <2>3. Len(V) = 13
    <3>1. Len(T) = 3 /\ Len(U) = 10 /\ Len(V) = Len(U) + Len(T)
      BY <2>2, <1>1, <1>2, Zenon
    <3> QED BY <3>1
  <2> QED BY <2>2, <2>3
<1> HIDE DEF V
<1>4. /\ V \o GuestSteps \in Seq(StepNames) /\ Len(V \o GuestSteps) = 28
      /\ RankedFrom(V \o GuestSteps, 4)
      /\ Range(V \o GuestSteps) = Range(V) \cup Range(GuestSteps)
  <2>0. 4 + Len(V) = 17
    BY <1>3
  <2>1. RankedFrom(GuestSteps, 4 + Len(V))
    BY <2>0, PartsRanked
  <2>2. /\ V \o GuestSteps \in Seq(StepNames)
        /\ Len(V \o GuestSteps) = Len(V) + Len(GuestSteps)
        /\ RankedFrom(V \o GuestSteps, 4)
        /\ Range(V \o GuestSteps) = Range(V) \cup Range(GuestSteps)
    BY <2>1, <1>3, PartsRanked, RankedConcat
  <2> QED BY <2>2, <1>3, PartsRanked
<1> QED BY <1>1, <1>2, <1>3, <1>4 DEF HyperVSteps, V, U, T

-----------------------------------------------------------------------------
\* The attributes of the effects.

LEMMA SimplesAre ==
  /\ Simples \subseteq Effects
  /\ \A x \in Items, v \in Values : Put(x, v) \in Simples
  /\ \A x, y \in Items : Copy(y, x) \in Simples
  /\ \A x \in Items : Create(x) \in Simples
BY DEF Simples, Effects, Put, Copy, Create

LEMMA EffectsAre ==
  /\ \A x \in Items : Require(x) \in Effects
  /\ \A x \in Items, s \in Seq(Simples) : Unless(x, s) \in Effects
  /\ \A of \in {"crds", "operators", "deployments", "swap"} : Branch(of) \in Effects
  /\ \A of \in {"sync", "world"}, w \in Worlds : BranchFor(of, w) \in Effects
BY DEF Effects, Require, Unless, Branch, BranchFor

LEMMA EffectKinds ==
  ASSUME NEW e \in Effects
  PROVE  /\ e.do \in {"put", "copy", "create", "require", "unless", "branch"}
         /\ IsSimple(e) => e \in Simples
         /\ e.do \in {"put", "copy", "create", "require", "unless"} => e.item \in Items
         /\ e.do = "put" => e.value \in Values
         /\ e.do = "copy" => e.from \in Items
         /\ e.do = "unless" => e.then \in Seq(Simples)
         /\ e.do = "branch" =>
              /\ e.of \in {"crds", "operators", "deployments", "swap", "sync", "world"}
              /\ e.of \in {"sync", "world"} => e.world \in Worlds
BY DEF Effects, Simples, IsSimple

LEMMA EffectOnGuest ==
  ASSUME NEW g \in [Items -> Values], NEW e \in Effects
  PROVE  /\ Effect(g, e) \in [Items -> Values]
         /\ ~IsSimple(e) => Effect(g, e) = g
         /\ IsSimple(e) =>
              /\ \A x \in Items \ {e.item} : Effect(g, e)[x] = g[x]
              /\ e.do = "put" => Effect(g, e)[e.item] = e.value
              /\ e.do = "copy" => Effect(g, e)[e.item] = g[e.from]
              /\ e.do = "create" => Effect(g, e)[e.item] = TRUE
         /\ \A x \in Items \ Writes(e) : Effect(g, e)[x] = g[x]
<1> USE EffectKinds
<1>1. CASE e.do = "put"
  BY <1>1 DEF Effect, IsSimple, Writes
<1>2. CASE e.do = "copy"
  BY <1>2 DEF Effect, IsSimple, Writes
<1>3. CASE e.do = "create"
  <2>1. TRUE \in Values
    BY DEF Values
  <2>2. Effect(g, e) = [g EXCEPT ![e.item] = TRUE]
    BY <1>3 DEF Effect
  <2>3. e.item \in Items /\ IsSimple(e) /\ Writes(e) = {e.item}
    BY <1>3 DEF IsSimple, Writes
  <2> QED BY <1>3, <2>1, <2>2, <2>3
<1>4. CASE e.do \in {"require", "unless", "branch"}
  BY <1>4 DEF Effect, IsSimple
<1> QED BY <1>1, <1>2, <1>3, <1>4

LEMMA AttributesOfSimple ==
  ASSUME NEW x, NEW y, NEW v, NEW need
  PROVE  /\ Writes(Put(x, v)) = {x} /\ Makes(Put(x, v)) = {x} \ {<<"legacy">>}
         /\ Needs(need, Put(x, v)) = Before(x)
         /\ Writes(Copy(y, x)) = {x} /\ Makes(Copy(y, x)) = {x, y}
         /\ Needs(need, Copy(y, x)) = Before(x) \cup (IF need = "all" THEN {y} ELSE {})
         /\ Writes(Create(x)) = {x} /\ Makes(Create(x)) = {x}
         /\ Needs(need, Create(x)) = Before(x)
         /\ Writes(Require(x)) = {} /\ Makes(Require(x)) = {x}
         /\ Needs(need, Require(x)) = (IF need = "all" THEN {x} ELSE {})
<1>1. /\ Writes(Put(x, v)) = {x} /\ Makes(Put(x, v)) = {x} \ {<<"legacy">>}
      /\ Writes(Copy(y, x)) = {x} /\ Makes(Copy(y, x)) = {x, y}
      /\ Writes(Create(x)) = {x} /\ Makes(Create(x)) = {x}
      /\ Writes(Require(x)) = {} /\ Makes(Require(x)) = {x}
  BY DEF Put, Copy, Create, Require, Writes, Makes, IsSimple
<1>2. Needs(need, Put(x, v)) = Before(x)
  BY DEF Put, Needs, IsSimple
<1>3. Needs(need, Copy(y, x)) = Before(x) \cup (IF need = "all" THEN {y} ELSE {})
  <2>1. CASE need = "all"
    BY <2>1 DEF Copy, Needs, IsSimple
  <2>2. CASE need # "all"
    BY <2>2 DEF Copy, Needs, IsSimple
  <2> QED BY <2>1, <2>2
<1>4. Needs(need, Create(x)) = Before(x)
  BY DEF Create, Needs, IsSimple
<1>5. Needs(need, Require(x)) = (IF need = "all" THEN {x} ELSE {})
  <2>1. CASE need = "all"
    BY <2>1 DEF Require, Needs, IsSimple
  <2>2. CASE need # "all"
    BY <2>2 DEF Require, Needs, IsSimple
  <2> QED BY <2>1, <2>2
<1> QED BY <1>1, <1>2, <1>3, <1>4, <1>5

LEMMA AttributesOfUnless ==
  ASSUME NEW x, NEW s, NEW need
  PROVE  /\ Writes(Unless(x, s)) = {t.item : t \in Range(s)} /\ Makes(Unless(x, s)) = {x}
         /\ Needs(need, Unless(x, s)) = {}
BY DEF Unless, Writes, Makes, Needs, IsSimple

LEMMA AttributesOfBranch ==
  ASSUME NEW w, NEW need
  PROVE  /\ Writes(Branch("crds")) = {<<"crds">>}
         /\ Writes(Branch("operators")) =
              {<<"operator_images">>} \cup {<<"operator", o>> : o \in Range(Operators)}
         /\ Writes(Branch("deployments")) = {<<"operator", o>> : o \in Range(Operators)}
         /\ Writes(Branch("swap")) = {<<"swap">>}
         /\ Writes(BranchFor("sync", w)) = {<<"database", w>>}
         /\ Writes(BranchFor("world", w)) =
              {<<i, w>> : i \in {"manifest", "namespace", "secrets", "world", "title"}}
         /\ Makes(Branch("crds")) = {} /\ Makes(Branch("operators")) = {}
         /\ Makes(Branch("swap")) = {} /\ Makes(BranchFor("sync", w)) = {}
         /\ Makes(Branch("deployments")) = {<<"operator", o>> : o \in Range(Operators)}
         /\ Makes(BranchFor("world", w)) =
              {<<i, w>> : i \in {"namespace", "secrets", "world", "title"}}
         /\ Needs(need, Branch("crds")) = {} /\ Needs(need, Branch("swap")) = {}
         /\ Needs(need, BranchFor("sync", w)) = {}
         /\ Needs(need, Branch("deployments")) = {<<"payload">>}
         /\ Needs(need, Branch("operators")) =
              (IF need = "all" THEN {<<"operator", o>> : o \in Range(Operators)} ELSE {})
         /\ Needs(need, BranchFor("world", w)) =
              (IF need = "all" THEN {<<"payload">>}
                  \cup {<<"scaled", o>> : o \in Range(Operators)} ELSE {})
<1>1. /\ Writes(Branch("crds")) = {<<"crds">>}
      /\ Writes(Branch("operators")) =
              {<<"operator_images">>} \cup {<<"operator", o>> : o \in Range(Operators)}
      /\ Writes(Branch("deployments")) = {<<"operator", o>> : o \in Range(Operators)}
      /\ Writes(Branch("swap")) = {<<"swap">>}
      /\ Writes(BranchFor("sync", w)) = {<<"database", w>>}
      /\ Writes(BranchFor("world", w)) =
              {<<i, w>> : i \in {"manifest", "namespace", "secrets", "world", "title"}}
  BY DEF Branch, BranchFor, Writes, IsSimple
<1>2. /\ Makes(Branch("crds")) = {} /\ Makes(Branch("operators")) = {}
      /\ Makes(Branch("swap")) = {} /\ Makes(BranchFor("sync", w)) = {}
      /\ Makes(Branch("deployments")) = {<<"operator", o>> : o \in Range(Operators)}
      /\ Makes(BranchFor("world", w)) =
              {<<i, w>> : i \in {"namespace", "secrets", "world", "title"}}
  BY DEF Branch, BranchFor, Makes
<1>3. /\ Needs(need, Branch("crds")) = {} /\ Needs(need, Branch("swap")) = {}
      /\ Needs(need, BranchFor("sync", w)) = {}
      /\ Needs(need, Branch("deployments")) = {<<"payload">>}
  BY DEF Branch, BranchFor, Needs, IsSimple
<1>4. Needs(need, Branch("operators")) =
              (IF need = "all" THEN {<<"operator", o>> : o \in Range(Operators)} ELSE {})
  <2>1. CASE need = "all"
    BY <2>1 DEF Branch, Needs, IsSimple
  <2>2. CASE need # "all"
    BY <2>2 DEF Branch, Needs, IsSimple
  <2> QED BY <2>1, <2>2
<1>5. Needs(need, BranchFor("world", w)) =
              (IF need = "all" THEN {<<"payload">>}
                  \cup {<<"scaled", o>> : o \in Range(Operators)} ELSE {})
  <2>1. CASE need = "all"
    BY <2>1 DEF BranchFor, Needs, IsSimple
  <2>2. CASE need # "all"
    BY <2>2 DEF BranchFor, Needs, IsSimple
  <2> QED BY <2>1, <2>2
<1> QED BY <1>1, <1>2, <1>3, <1>4, <1>5

LEMMA ProperSimple ==
  ASSUME NEW x, NEW y, NEW v, x[1] \notin Fixed
  PROVE  /\ v # Absent => Proper(Put(x, v))
         /\ Proper(Copy(y, x)) /\ Proper(Create(x))
<1>1. Writes(Put(x, v)) = {x} /\ Writes(Copy(y, x)) = {x} /\ Writes(Create(x)) = {x}
  BY AttributesOfSimple
<1> QED BY <1>1 DEF Proper, Put, Copy, Create

LEMMA ProperOther ==
  /\ \A x : Proper(Require(x))
  /\ \A of \in {"crds", "operators", "deployments", "swap"} : Proper(Branch(of))
  /\ \A of \in {"sync", "world"} : \A w : Proper(BranchFor(of, w))
<1>1. ASSUME NEW x PROVE Proper(Require(x))
  <2>1. Writes(Require(x)) = {}
    BY AttributesOfSimple
  <2> QED BY <2>1 DEF Proper, Require
<1>2. ASSUME NEW of \in {"crds", "operators", "deployments", "swap"} PROVE Proper(Branch(of))
  <2>1. \A x \in Writes(Branch(of)) : x[1] \notin Fixed
    BY DEF Branch, Writes, IsSimple, Fixed
  <2> QED BY <2>1 DEF Proper, Branch
<1>3. ASSUME NEW of \in {"sync", "world"}, NEW w PROVE Proper(BranchFor(of, w))
  <2>1. \A x \in Writes(BranchFor(of, w)) : x[1] \notin Fixed
    BY DEF BranchFor, Writes, IsSimple, Fixed
  <2> QED BY <2>1 DEF Proper, BranchFor
<1> QED BY <1>1, <1>2, <1>3

-----------------------------------------------------------------------------
\* Scripts that may run, put together from effects and from other scripts.

\* A script whose needs are met in the order of its effects.
Fit(need, g, made, s) ==
    /\ s \in Seq(Effects)
    /\ \A e \in Range(s) : Proper(e)
    /\ ReadyAfter(need, g, made, s)

\* A script that is another and one more after it.
Joins(r, s, t) ==
    /\ Range(r) = Range(s) \cup Range(t)
    /\ Made(r) = Made(s) \cup Made(t)
    /\ Written(r) = Written(s) \cup Written(t)

LEMMA RangeOfConcat ==
  ASSUME NEW S, NEW s \in Seq(S), NEW t \in Seq(S)
  PROVE  s \o t \in Seq(S) /\ Range(s \o t) = Range(s) \cup Range(t)
<1>1. s \o t \in Seq(S) /\ Len(s \o t) = Len(s) + Len(t)
  OBVIOUS
<1>2. ASSUME NEW k \in 1 .. Len(s \o t) PROVE (s \o t)[k] \in Range(s) \cup Range(t)
  <2>1. k \leq Len(s) \/ k - Len(s) \in 1 .. Len(t)
    BY <1>1
  <2> QED BY <1>1, <2>1 DEF Range
<1>3. ASSUME NEW k \in 1 .. Len(s) PROVE s[k] \in Range(s \o t)
  BY <1>1 DEF Range
<1>4. ASSUME NEW k \in 1 .. Len(t) PROVE t[k] \in Range(s \o t)
  <2>1. k + Len(s) \in 1 .. Len(s \o t) /\ (s \o t)[k + Len(s)] = t[k]
    BY <1>1
  <2> QED BY <1>1, <2>1 DEF Range
<1>5. Range(s \o t) \subseteq Range(s) \cup Range(t)
  BY <1>2 DEF Range
<1>6. Range(s) \subseteq Range(s \o t) /\ Range(t) \subseteq Range(s \o t)
  <2>1. Range(s) = {s[k] : k \in 1 .. Len(s)} /\ Range(t) = {t[k] : k \in 1 .. Len(t)}
    BY DEF Range
  <2> QED BY <1>3, <1>4, <2>1
<1> QED BY <1>1, <1>5, <1>6, Zenon

LEMMA FitConcat ==
  ASSUME NEW need, NEW g, NEW made, NEW more, NEW s, NEW t,
         Fit(need, g, made, s), Fit(need, g, more, t), more \subseteq made \cup Made(s)
  PROVE  Fit(need, g, made, s \o t) /\ Joins(s \o t, s, t)
<1>1. s \in Seq(Effects) /\ t \in Seq(Effects)
  BY DEF Fit
<1>2. s \o t \in Seq(Effects) /\ Range(s \o t) = Range(s) \cup Range(t)
  BY <1>1, RangeOfConcat
<1>3. Len(s \o t) = Len(s) + Len(t) /\ Len(s) \in Nat /\ Len(t) \in Nat
  BY <1>1
<1>4. ASSUME NEW k \in 1 .. Len(s \o t), NEW x \in Needs(need, (s \o t)[k])
      PROVE  There(g, x) \/ x \in made \/ \E j \in 1 .. k - 1 : x \in Makes((s \o t)[j])
  <2>1. CASE k \leq Len(s)
    <3>1. k \in 1 .. Len(s) /\ (s \o t)[k] = s[k] /\ \A j \in 1 .. k - 1 : (s \o t)[j] = s[j]
      BY <1>1, <1>3, <2>1
    <3> QED BY <3>1, <1>4 DEF Fit, ReadyAfter
  <2>2. CASE k > Len(s)
    <3>1. k - Len(s) \in 1 .. Len(t) /\ (s \o t)[k] = t[k - Len(s)]
      BY <1>1, <1>3, <2>2
    <3>2. There(g, x) \/ x \in more
            \/ \E j \in 1 .. (k - Len(s)) - 1 : x \in Makes(t[j])
      BY <3>1, <1>4 DEF Fit, ReadyAfter
    <3>3. ASSUME x \in Made(s) PROVE \E j \in 1 .. k - 1 : x \in Makes((s \o t)[j])
      <4>1. PICK j \in 1 .. Len(s) : x \in Makes(s[j])
        BY <3>3, <1>1 DEF Made, Range
      <4>2. j \in 1 .. k - 1 /\ (s \o t)[j] = s[j]
        BY <4>1, <2>2, <1>1, <1>3
      <4> QED BY <4>1, <4>2
    <3>4. ASSUME NEW j \in 1 .. (k - Len(s)) - 1, x \in Makes(t[j])
          PROVE  \E i \in 1 .. k - 1 : x \in Makes((s \o t)[i])
      <4>1. j + Len(s) \in 1 .. k - 1 /\ (s \o t)[j + Len(s)] = t[j]
        BY <2>2, <1>1, <1>3
      <4> QED BY <4>1, <3>4
    <3>5. x \in more => x \in made \/ x \in Made(s)
      OBVIOUS
    <3> QED BY <3>2, <3>3, <3>4, <3>5
  <2> QED BY <2>1, <2>2, <1>3
<1>5. ReadyAfter(need, g, made, s \o t)
  BY <1>4 DEF ReadyAfter
<1>6. \A e \in Range(s \o t) : Proper(e)
  BY <1>2 DEF Fit
<1>7. Made(s \o t) = Made(s) \cup Made(t) /\ Written(s \o t) = Written(s) \cup Written(t)
  BY <1>2 DEF Made, Written
<1> QED BY <1>2, <1>5, <1>6, <1>7 DEF Fit, Joins

\* An effect that a script may go on with.
Ok(need, g, made, e) ==
    /\ e \in Effects
    /\ Proper(e)
    /\ \A x \in Needs(need, e) : There(g, x) \/ x \in made

LEMMA FitNone ==
  ASSUME NEW need, NEW g, NEW made
  PROVE  Fit(need, g, made, <<>>) /\ Range(<<>>) = {}
<1>1. Range(<<>>) = {}
  BY RangeOfTuple
<1>2. ReadyAfter(need, g, made, <<>>)
  BY DEF ReadyAfter
<1> QED BY <1>1, <1>2 DEF Fit

LEMMA FitOne ==
  ASSUME NEW need, NEW g, NEW made, NEW e, Ok(need, g, made, e)
  PROVE  Fit(need, g, made, <<e>>)
<1>1. Range(<<e>>) = {e}
  BY RangeOfTuple
<1>2. ReadyAfter(need, g, made, <<e>>)
  BY DEF ReadyAfter, Ok
<1> QED BY <1>1, <1>2 DEF Fit, Ok

LEMMA FitAppend ==
  ASSUME NEW need, NEW g, NEW made, NEW more, NEW s, Fit(need, g, made, s),
         NEW e, Ok(need, g, more, e), more \subseteq made \cup Made(s)
  PROVE  Fit(need, g, made, Append(s, e))
<1>1. Fit(need, g, more, <<e>>)
  BY FitOne
<1>2. Append(s, e) = s \o <<e>>
  BY DEF Fit, Ok
<1>3. Fit(need, g, made, s \o <<e>>)
  BY <1>1, FitConcat
<1> QED BY <1>2, <1>3

LEMMA FitTwo ==
  ASSUME NEW need, NEW g, NEW made, NEW more, NEW a, NEW b,
         Ok(need, g, made, a), Ok(need, g, more, b), more \subseteq made \cup Makes(a)
  PROVE  Fit(need, g, made, <<a, b>>)
<1>1. Fit(need, g, made, <<a>>) /\ Range(<<a>>) = {a}
  BY FitOne, RangeOfTuple
<1>2. Made(<<a>>) = Makes(a)
  BY <1>1 DEF Made
<1>3. <<a, b>> = Append(<<a>>, b)
  OBVIOUS
<1>4. more \subseteq made \cup Made(<<a>>)
  BY <1>2
<1> HIDE <1>2
<1>5. Fit(need, g, made, Append(<<a>>, b))
  BY <1>1, <1>4, FitAppend
<1> QED BY <1>3, <1>5

LEMMA FitThree ==
  ASSUME NEW need, NEW g, NEW made, NEW more, NEW most, NEW a, NEW b, NEW c,
         Ok(need, g, made, a), Ok(need, g, more, b), Ok(need, g, most, c),
         more \subseteq made \cup Makes(a), most \subseteq made \cup Makes(a) \cup Makes(b)
  PROVE  Fit(need, g, made, <<a, b, c>>)
<1>1. Fit(need, g, made, <<a, b>>) /\ Range(<<a, b>>) = {a, b}
  BY FitTwo, RangeOfTuple
<1>2. most \subseteq made \cup Made(<<a, b>>)
  BY <1>1 DEF Made
<1>3. <<a, b, c>> = Append(<<a, b>>, c)
  OBVIOUS
<1>4. Fit(need, g, made, Append(<<a, b>>, c))
  BY <1>1, <1>2, FitAppend
<1> QED BY <1>3, <1>4

LEMMA FitFour ==
  ASSUME NEW need, NEW g, NEW made, NEW more, NEW most, NEW last, NEW a, NEW b, NEW c, NEW d,
         Ok(need, g, made, a), Ok(need, g, more, b), Ok(need, g, most, c), Ok(need, g, last, d),
         more \subseteq made \cup Makes(a), most \subseteq made \cup Makes(a) \cup Makes(b),
         last \subseteq made \cup Makes(a) \cup Makes(b) \cup Makes(c)
  PROVE  Fit(need, g, made, <<a, b, c, d>>)
<1>1. Fit(need, g, made, <<a, b, c>>) /\ Range(<<a, b, c>>) = {a, b, c}
  BY FitThree, RangeOfTuple
<1>2. last \subseteq made \cup Made(<<a, b, c>>)
  BY <1>1 DEF Made
<1>3. <<a, b, c, d>> = Append(<<a, b, c>>, d)
  OBVIOUS
<1>4. Fit(need, g, made, Append(<<a, b, c>>, d))
  BY <1>1, <1>2, FitAppend
<1> QED BY <1>3, <1>4

\* A script that is four others one after the other.
JoinsFour(r, a, b, c, d) == Range(r) = Range(a) \cup Range(b) \cup Range(c) \cup Range(d)

LEMMA FitParts ==
  ASSUME NEW need, NEW g, NEW made, NEW a, NEW b, NEW c, NEW d,
         Fit(need, g, made, a), Fit(need, g, made, b), Fit(need, g, made, c), Fit(need, g, made, d)
  PROVE  Fit(need, g, made, a \o b \o c \o d) /\ JoinsFour(a \o b \o c \o d, a, b, c, d)
<1>1. ASSUME NEW s, NEW t, Fit(need, g, made, s), Fit(need, g, made, t)
      PROVE  Fit(need, g, made, s \o t) /\ Joins(s \o t, s, t)
  <2>1. made \subseteq made \cup Made(s)
    OBVIOUS
  <2> QED BY <1>1, <2>1, FitConcat
<1>2. Fit(need, g, made, a \o b) /\ Joins(a \o b, a, b)
  BY <1>1
<1>3. Fit(need, g, made, (a \o b) \o c) /\ Joins((a \o b) \o c, a \o b, c)
  BY <1>1, <1>2
<1>4. Fit(need, g, made, ((a \o b) \o c) \o d) /\ Joins(((a \o b) \o c) \o d, (a \o b) \o c, d)
  BY <1>1, <1>3
<1> QED BY <1>2, <1>3, <1>4 DEF Joins, JoinsFour

\* An item that any effect may write: nothing has to be there before it.
Plain(x) ==
    x \in Items /\ x[1] \notin Fixed /\ x[1] \notin {"world", "role_binding", "legacy", "database"}

LEMMA PlainItems ==
  /\ \A i \in HostItems \ {"os", "release", "legacy"} : Plain(<<i>>)
  /\ \A i \in OperatorItems \ {"role_binding"}, o \in Range(Operators) : Plain(<<i, o>>)
  /\ \A i \in WorldItems \ {"world", "pod", "database"}, w \in Worlds : Plain(<<i, w>>)
<1>1. ASSUME NEW i \in HostItems \ {"os", "release", "legacy"} PROVE Plain(<<i>>)
  BY ItemsAre DEF HostItems, Plain, Fixed
<1>2. ASSUME NEW i \in OperatorItems \ {"role_binding"}, NEW o \in Range(Operators)
      PROVE  Plain(<<i, o>>)
  BY ItemsAre DEF OperatorItems, Rights, Plain, Fixed
<1>3. ASSUME NEW i \in WorldItems \ {"world", "pod", "database"},
             NEW w \in Worlds PROVE Plain(<<i, w>>)
  BY ItemsAre DEF WorldItems, Plain, Fixed
<1> QED BY <1>1, <1>2, <1>3

LEMMA PlainIs ==
  ASSUME NEW x, Plain(x)
  PROVE  /\ x \in Items /\ x[1] \notin Fixed /\ Before(x) = {} /\ x # <<"legacy">>
         /\ x[1] # "database"
BY DEF Plain, Before

LEMMA OkPut ==
  ASSUME NEW need, NEW g, NEW made, NEW x, Plain(x), NEW v \in Values, v # Absent
  PROVE  Ok(need, g, made, Put(x, v))
<1>1. x \in Items /\ x[1] \notin Fixed /\ Before(x) = {}
  BY PlainIs
<1>2. Needs(need, Put(x, v)) = {}
  BY <1>1, AttributesOfSimple
<1> QED BY <1>1, <1>2, SimplesAre, ProperSimple DEF Ok

LEMMA OkRequire ==
  ASSUME NEW need, NEW g, NEW made, NEW x \in Items, need = "all" => There(g, x) \/ x \in made
  PROVE  Ok(need, g, made, Require(x))
<1>1. Needs(need, Require(x)) = (IF need = "all" THEN {x} ELSE {})
  BY AttributesOfSimple
<1>2. \A y \in Needs(need, Require(x)) : There(g, y) \/ y \in made
  BY <1>1
<1> QED BY <1>2, EffectsAre, ProperOther DEF Ok

LEMMA OkCopy ==
  ASSUME NEW need, NEW g, NEW made, NEW x \in Items, x[1] \notin Fixed, NEW y \in Items,
         need = "all" => There(g, y) \/ y \in made,
         \A z \in Before(x) : There(g, z) \/ z \in made
  PROVE  Ok(need, g, made, Copy(y, x))
<1>1. Needs(need, Copy(y, x)) = Before(x) \cup (IF need = "all" THEN {y} ELSE {})
  BY AttributesOfSimple
<1>2. \A z \in Needs(need, Copy(y, x)) : There(g, z) \/ z \in made
  BY <1>1
<1> QED BY <1>2, SimplesAre, ProperSimple DEF Ok

LEMMA OkPlainCopy ==
  ASSUME NEW need, NEW g, NEW made, NEW x, Plain(x), NEW y \in Items,
         need = "all" => There(g, y) \/ y \in made
  PROVE  Ok(need, g, made, Copy(y, x))
<1>1. x \in Items /\ x[1] \notin Fixed /\ Before(x) = {}
  BY PlainIs
<1> QED BY <1>1, OkCopy

LEMMA OkUnless ==
  ASSUME NEW need, NEW g, NEW made, NEW x, Plain(x), NEW s \in Seq(Simples),
         Len(s) \in {1, 2}, s[1].item = x,
         \A k \in 1 .. Len(s) :
            /\ s[k].do \in {"put", "create"} /\ s[k].item[1] \notin Fixed \cup {"database"}
            /\ s[k].do = "put" => s[k].value # Absent,
         Len(s) = 2 => /\ s[1].do = "create"
                       /\ Before(s[2].item) \subseteq {x} /\ s[2].item # x
                       /\ s[2].do = "create" => Before(s[2].item) = {x}
  PROVE  Ok(need, g, made, Unless(x, s))
<1>1. x \in Items /\ x[1] \notin Fixed /\ Before(x) = {} /\ x # <<"legacy">>
  BY PlainIs
<1>2. Unless(x, s) \in Effects
  BY <1>1, EffectsAre
<1>3. /\ Unless(x, s).do = "unless" /\ Unless(x, s).item = x /\ Unless(x, s).then = s
      /\ Writes(Unless(x, s)) = {t.item : t \in Range(s)} /\ Needs(need, Unless(x, s)) = {}
  BY AttributesOfUnless DEF Unless
<1>4. \A y \in Writes(Unless(x, s)) : y[1] \notin Fixed
  BY <1>3 DEF Range
<1>5. s # <<>> /\ Len(s) <= 2
  OBVIOUS
<1>6. ASSUME NEW k \in 1 .. Len(s)
      PROVE  /\ s[k].do \in {"put", "create"} /\ s[k].item[1] # "database"
             /\ s[k].do = "put" => s[k].value # Absent
             /\ k = 2 => /\ s[1].do = "create"
                         /\ Before(s[2].item) \subseteq {x} /\ s[2].item # x
                         /\ s[2].do = "create" => Before(s[2].item) = {x}
  OBVIOUS
<1>7. Proper(Unless(x, s))
  BY <1>1, <1>3, <1>4, <1>5, <1>6 DEF Proper
<1> QED BY <1>2, <1>3, <1>7 DEF Ok

LEMMA OkUnlessOne ==
  ASSUME NEW need, NEW g, NEW made, NEW x, Plain(x)
  PROVE  /\ Ok(need, g, made, Unless(x, <<Create(x)>>))
         /\ \A v \in Values \ {Absent} : Ok(need, g, made, Unless(x, <<Put(x, v)>>))
<1>1. x \in Items /\ x[1] \notin Fixed \cup {"database"} /\ Create(x) \in Simples
  BY PlainIs, SimplesAre
<1>2. ASSUME NEW t \in Simples, t.do \in {"put", "create"}, t.item = x,
             t.do = "put" => t.value # Absent
      PROVE  Ok(need, g, made, Unless(x, <<t>>))
  <2> DEFINE s == <<t>>
  <2>1. s \in Seq(Simples) /\ Len(s) = 1 /\ s[1] = t
    OBVIOUS
  <2> HIDE DEF s
  <2>2. \A k \in 1 .. Len(s) : s[k] = t
    BY <2>1
  <2>3. Ok(need, g, made, Unless(x, s))
    BY <1>1, <1>2, <2>1, <2>2, OkUnless
  <2> QED BY <2>3 DEF s
<1>3. Create(x).do = "create" /\ Create(x).item = x
  BY DEF Create
<1>4. ASSUME NEW v \in Values \ {Absent}
      PROVE  Put(x, v).do = "put" /\ Put(x, v).item = x /\ Put(x, v).value = v
             /\ Put(x, v) \in Simples
  BY <1>1, SimplesAre DEF Put
<1> QED BY <1>1, <1>2, <1>3, <1>4

LEMMA OkUnlessTwo ==
  ASSUME NEW need, NEW g, NEW made, NEW x, Plain(x), NEW t \in Simples,
         t.do \in {"put", "create"}, t.do = "put" => t.value # Absent,
         t.item[1] \notin Fixed \cup {"database"}, t.item # x, Before(t.item) \subseteq {x},
         t.do = "create" => Before(t.item) = {x}
  PROVE  Ok(need, g, made, Unless(x, <<Create(x), t>>))
<1> DEFINE s == <<Create(x), t>>
<1>1. Create(x) \in Simples /\ Create(x).do = "create" /\ Create(x).item = x
      /\ x[1] \notin Fixed \cup {"database"}
  BY PlainIs, SimplesAre DEF Create
<1>2. s \in Seq(Simples) /\ Len(s) = 2 /\ s[1] = Create(x) /\ s[2] = t
  BY <1>1
<1> HIDE DEF s
<1>3. ASSUME NEW k \in 1 .. Len(s)
      PROVE  /\ s[k].do \in {"put", "create"} /\ s[k].item[1] \notin Fixed \cup {"database"}
             /\ s[k].do = "put" => s[k].value # Absent
  <2>1. k = 1 \/ k = 2
    BY <1>2
  <2> QED BY <1>1, <1>2, <2>1
<1>4. Ok(need, g, made, Unless(x, s))
  BY <1>1, <1>2, <1>3, OkUnless
<1> QED BY <1>4 DEF s

LEMMA OkBranch ==
  ASSUME NEW need, NEW g, NEW made
  PROVE  /\ Ok(need, g, made, Branch("crds")) /\ Ok(need, g, made, Branch("swap"))
         /\ There(g, <<"payload">>) \/ <<"payload">> \in made =>
              Ok(need, g, made, Branch("deployments"))
         /\ (need = "all" => \A o \in Range(Operators) :
                There(g, <<"operator", o>>) \/ <<"operator", o>> \in made) =>
              Ok(need, g, made, Branch("operators"))
<1>1. /\ Branch("crds") \in Effects /\ Branch("swap") \in Effects
      /\ Branch("deployments") \in Effects /\ Branch("operators") \in Effects
  BY EffectsAre
<1>2. /\ Proper(Branch("crds")) /\ Proper(Branch("swap"))
      /\ Proper(Branch("deployments")) /\ Proper(Branch("operators"))
  BY ProperOther
<1>3. /\ Needs(need, Branch("crds")) = {} /\ Needs(need, Branch("swap")) = {}
      /\ Needs(need, Branch("deployments")) = {<<"payload">>}
  BY AttributesOfBranch
<1>4. Needs(need, Branch("operators")) =
              (IF need = "all" THEN {<<"operator", o>> : o \in Range(Operators)} ELSE {})
  BY AttributesOfBranch
<1>5. ASSUME need = "all" => \A o \in Range(Operators) :
                There(g, <<"operator", o>>) \/ <<"operator", o>> \in made
      PROVE  \A x \in Needs(need, Branch("operators")) : There(g, x) \/ x \in made
  BY <1>4, <1>5
<1>6. Ok(need, g, made, Branch("crds")) /\ Ok(need, g, made, Branch("swap"))
  BY <1>1, <1>2, <1>3 DEF Ok
<1>7. There(g, <<"payload">>) \/ <<"payload">> \in made => Ok(need, g, made, Branch("deployments"))
  BY <1>1, <1>2, <1>3 DEF Ok
<1> QED BY <1>1, <1>2, <1>5, <1>6, <1>7 DEF Ok

LEMMA OkBranchFor ==
  ASSUME NEW need, NEW g, NEW made, NEW w \in Worlds
  PROVE  /\ Ok(need, g, made, BranchFor("sync", w))
         /\ (need = "all" =>
                /\ There(g, <<"payload">>) \/ <<"payload">> \in made
                /\ \A o \in Range(Operators) :
                    There(g, <<"scaled", o>>) \/ <<"scaled", o>> \in made) =>
              Ok(need, g, made, BranchFor("world", w))
<1>1. BranchFor("sync", w) \in Effects /\ BranchFor("world", w) \in Effects
  BY EffectsAre
<1>2. Proper(BranchFor("sync", w)) /\ Proper(BranchFor("world", w))
  BY ProperOther
<1>3. Needs(need, BranchFor("sync", w)) = {}
  BY AttributesOfBranch
<1>4. Needs(need, BranchFor("world", w)) =
              (IF need = "all" THEN {<<"payload">>}
                  \cup {<<"scaled", o>> : o \in Range(Operators)} ELSE {})
  BY AttributesOfBranch
<1>5. ASSUME need = "all" =>
                /\ There(g, <<"payload">>) \/ <<"payload">> \in made
                /\ \A o \in Range(Operators) :
                    There(g, <<"scaled", o>>) \/ <<"scaled", o>> \in made
      PROVE  \A x \in Needs(need, BranchFor("world", w)) : There(g, x) \/ x \in made
  BY <1>4, <1>5
<1> QED BY <1>1, <1>2, <1>3, <1>5 DEF Ok

-----------------------------------------------------------------------------
\* What is executed in the place of an effect does what the effect was to do.

\* What is executed in the place of an effect does what the effect was to do.
Substitutes(need, g, e, s) ==
    /\ Fit(need, g, {}, s)
    /\ \A f \in Range(s) : Writes(f) \subseteq Writes(e) /\ f.do # "create"
    /\ \A x \in Makes(e) : There(g, x) \/ \E f \in Range(s) : x \in Makes(f)

LEMMA Wrote ==
  ASSUME NEW x, NEW y, NEW v, NEW s
  PROVE  /\ Writes(Put(x, v)) = {x} /\ Put(x, v).do = "put"
         /\ Writes(Copy(y, x)) = {x} /\ Copy(y, x).do = "copy"
         /\ Writes(Require(x)) = {} /\ Require(x).do = "require"
         /\ Unless(x, s).do = "unless" /\ Create(x).do = "create"
BY AttributesOfSimple DEF Put, Copy, Require, Unless, Create

LEMMA NoneSubstitutes ==
  ASSUME NEW need, NEW g, NEW e, \A x \in Makes(e) : There(g, x)
  PROVE  Substitutes(need, g, e, <<>>)
<1>1. Fit(need, g, {}, <<>>) /\ Range(<<>>) = {}
  BY FitNone
<1> QED BY <1>1 DEF Substitutes

LEMMA PayloadValue ==
  ASSUME NEW g \in [Items -> Values], There(g, <<"payload">>)
  PROVE  g[<<"payload">>] \in Values /\ g[<<"payload">>] # Absent
BY ItemsAre DEF There, HostItems

LEMMA CrdsSubstitute ==
  ASSUME NEW need, NEW g \in [Items -> Values]
  PROVE  Substitutes(need, g, Branch("crds"), OperatorCrds(g))
<1> DEFINE v == g[<<"payload">>]
           e == Branch("crds")
           f == Put(<<"crds">>, v)
<1>0. Makes(e) = {} /\ Writes(e) = {<<"crds">>}
  BY AttributesOfBranch
<1>1. CASE OperatorVersionsDiffer(g)
  <2>1. OperatorCrds(g) = <<f>>
    BY <1>1 DEF OperatorCrds
  <2>2. v \in Values /\ v # Absent
    BY <1>1, PayloadValue DEF OperatorVersionsDiffer
  <2>3. Plain(<<"crds">>)
    BY PlainItems DEF HostItems
  <2> HIDE DEF v
  <2>4. Ok(need, g, {}, f)
    BY <2>2, <2>3, OkPut
  <2>5. Writes(f) = {<<"crds">>} /\ f.do # "create"
    BY Wrote
  <2> HIDE DEF f
  <2>6. Fit(need, g, {}, <<f>>) /\ Range(<<f>>) = {f}
    BY <2>4, FitOne, RangeOfTuple
  <2> QED BY <1>0, <2>1, <2>5, <2>6 DEF Substitutes
<1>2. CASE ~OperatorVersionsDiffer(g)
  <2>1. OperatorCrds(g) = <<>>
    BY <1>2 DEF OperatorCrds
  <2> QED BY <1>0, <2>1, NoneSubstitutes
<1> QED BY <1>1, <1>2

LEMMA SwapSubstitutes ==
  ASSUME NEW need, NEW g
  PROVE  Substitutes(need, g, Branch("swap"), SwapOn(g))
<1> DEFINE e == Branch("swap")
           f == Put(<<"swap">>, TRUE)
<1>0. Makes(e) = {} /\ Writes(e) = {<<"swap">>}
  BY AttributesOfBranch
<1>1. CASE There(g, <<"formatted">>)
  <2>1. SwapOn(g) = <<f>>
    BY <1>1 DEF SwapOn
  <2>2. TRUE \in Values /\ TRUE # Absent
    BY Present DEF Values
  <2>3. Plain(<<"swap">>)
    BY PlainItems DEF HostItems
  <2>4. Ok(need, g, {}, f)
    BY <2>2, <2>3, OkPut
  <2>5. Writes(f) = {<<"swap">>} /\ f.do # "create"
    BY Wrote
  <2> HIDE DEF f
  <2>6. Fit(need, g, {}, <<f>>) /\ Range(<<f>>) = {f}
    BY <2>4, FitOne, RangeOfTuple
  <2> QED BY <1>0, <2>1, <2>5, <2>6 DEF Substitutes
<1>2. CASE ~There(g, <<"formatted">>)
  <2>1. SwapOn(g) = <<>>
    BY <1>2 DEF SwapOn
  <2> QED BY <1>0, <2>1, NoneSubstitutes
<1> QED BY <1>1, <1>2

LEMMA SyncSubstitutes ==
  ASSUME NEW need, NEW g, NEW w \in Worlds, DatabasesSound(g)
  PROVE  Substitutes(need, g, BranchFor("sync", w), SyncEffects(g, w))
<1> DEFINE e == BranchFor("sync", w)
           f == Copy(<<"world", w>>, <<"database", w>>)
<1>0. Makes(e) = {} /\ Writes(e) = {<<"database", w>>}
  BY AttributesOfBranch
<1>1. CASE There(g, <<"pod", w>>)
  <2>1. SyncEffects(g, w) = <<f>>
    BY <1>1 DEF SyncEffects
  <2>2. <<"world", w>> \in Items /\ There(g, <<"world", w>>)
    BY <1>1, ItemsAre DEF DatabasesSound, WorldItems
  <2>3. <<"database", w>> \in Items /\ <<"database", w>>[1] \notin Fixed
            /\ Before(<<"database", w>>) = {}
    BY ItemsAre DEF WorldItems, Fixed, Before
  <2>4. Ok(need, g, {}, f)
    BY <2>2, <2>3, OkCopy
  <2>5. Writes(f) = {<<"database", w>>} /\ f.do # "create"
    BY Wrote
  <2> HIDE DEF f
  <2>6. Fit(need, g, {}, <<f>>) /\ Range(<<f>>) = {f}
    BY <2>4, FitOne, RangeOfTuple
  <2> QED BY <1>0, <2>1, <2>5, <2>6 DEF Substitutes
<1>2. CASE ~There(g, <<"pod", w>>)
  <2>1. SyncEffects(g, w) = <<>>
    BY <1>2 DEF SyncEffects
  <2> QED BY <1>0, <2>1, NoneSubstitutes
<1> QED BY <1>1, <1>2

LEMMA OperatorsNamed ==
  \A k \in 1 .. 4 : /\ Operators[k] \in Range(Operators)
                    /\ Plain(<<"operator", Operators[k]>>) /\ Plain(<<"scaled", Operators[k]>>)
<1>1. \A k \in 1 .. 4 : Operators[k] \in Range(Operators)
  BY OperatorRange DEF Operators
<1>2. "operator" \in OperatorItems \ {"role_binding"}
          /\ "scaled" \in OperatorItems \ {"role_binding"}
  BY DEF OperatorItems
<1> QED BY <1>1, <1>2, PlainItems

LEMMA FourOperators ==
  ASSUME NEW o \in Range(Operators)
  PROVE  o \in {Operators[1], Operators[2], Operators[3], Operators[4]}
BY OperatorRange DEF Operators

LEMMA OperatorIs ==
  ASSUME NEW o \in Range(Operators)
  PROVE  /\ Plain(<<"operator", o>>) /\ Plain(<<"scaled", o>>)
         /\ <<"operator", o>> \in Items /\ <<"scaled", o>> \in Items
<1>1. "operator" \in OperatorItems \ {"role_binding"}
          /\ "scaled" \in OperatorItems \ {"role_binding"}
  BY DEF OperatorItems
<1> QED BY <1>1, PlainItems, ItemsAre

LEMMA SetImageFits ==
  ASSUME NEW need, NEW g \in [Items -> Values], NEW made, NEW o \in Range(Operators),
         There(g, <<"payload">>), need = "all" => There(g, <<"operator", o>>)
  PROVE  /\ Fit(need, g, made, SetImage(g, o))
         /\ Range(SetImage(g, o)) = {Require(<<"operator", o>>),
            Put(<<"operator", o>>, g[<<"payload">>])}
<1> DEFINE x == <<"operator", o>>
           v == g[<<"payload">>]
<1>1. Plain(x) /\ x \in Items
  BY OperatorIs
<1>2. v \in Values /\ v # Absent
  BY PayloadValue
<1>3. Ok(need, g, made, Require(x)) /\ Ok(need, g, made, Put(x, v))
  BY <1>1, <1>2, OkRequire, OkPut
<1> HIDE DEF x, v
<1>4. Fit(need, g, made, <<Require(x), Put(x, v)>>)
  <2>1. made \subseteq made \cup Makes(Require(x))
    OBVIOUS
  <2> QED BY <1>3, <2>1, FitTwo
<1> QED BY <1>4, RangeOfTuple DEF SetImage, x, v

LEMMA ScaleOperatorFits ==
  ASSUME NEW need, NEW g, NEW made, NEW o \in Range(Operators),
         need = "all" => There(g, <<"operator", o>>) \/ <<"operator", o>> \in made
  PROVE  /\ Fit(need, g, made, ScaleOperator(o))
         /\ Range(ScaleOperator(o)) = {Require(<<"operator", o>>), Put(<<"scaled", o>>, TRUE)}
<1> DEFINE x == <<"operator", o>>
           y == <<"scaled", o>>
<1>1. Plain(y) /\ x \in Items /\ TRUE \in Values /\ TRUE # Absent
  BY OperatorIs, Present DEF Values
<1>3. Ok(need, g, made, Require(x)) /\ Ok(need, g, made, Put(y, TRUE))
  BY <1>1, OkRequire, OkPut
<1> HIDE DEF x, y
<1>4. Fit(need, g, made, <<Require(x), Put(y, TRUE)>>)
  <2>1. made \subseteq made \cup Makes(Require(x))
    OBVIOUS
  <2> QED BY <1>3, <2>1, FitTwo
<1> QED BY <1>4, RangeOfTuple DEF ScaleOperator, x, y

\* Effects that give the battlegroup operator a version, and no other.
Sets(e, x, v) == e.do = "put" /\ e.item = x /\ e.value = v

\* A script that gives it one version, and no other.
Patched(v, p) ==
    LET x == <<"operator", "battlegroup">>
    IN /\ \E e \in Range(p) : Sets(e, x, v)
       /\ \A e \in Range(p) : x \in Writes(e) => Sets(e, x, v)

LEMMA PutSets == \A x, v : Sets(Put(x, v), x, v)
BY DEF Sets, Put

LEMMA OperatorsSubstitute ==
  ASSUME NEW need, NEW g \in [Items -> Values],
         need = "all" => \A o \in Range(Operators) : There(g, <<"operator", o>>)
  PROVE  /\ Substitutes(need, g, Branch("operators"), OperatorImages(g))
         /\ OperatorVersionsDiffer(g) => Patched(g[<<"payload">>], OperatorImages(g))
<1> DEFINE v == g[<<"payload">>]
           e == Branch("operators")
           f == Put(<<"operator_images">>, v)
           S(k) == SetImage(g, Operators[k])
           t == S(1) \o S(2) \o S(3) \o S(4)
<1>0. Makes(e) = {} /\ Writes(e) =
              {<<"operator_images">>} \cup {<<"operator", o>> : o \in Range(Operators)}
  BY AttributesOfBranch
<1>1. CASE OperatorVersionsDiffer(g)
  <2>1. OperatorImages(g) = <<f>> \o t
    BY <1>1 DEF OperatorImages, ForOperators
  <2>2. There(g, <<"payload">>) /\ v \in Values /\ v # Absent
    BY <1>1, PayloadValue DEF OperatorVersionsDiffer
  <2>3. Plain(<<"operator_images">>)
    BY PlainItems DEF HostItems
  <2>4. Ok(need, g, {}, f)
    <3> HIDE DEF v
    <3> QED BY <2>2, <2>3, OkPut
  <2>5. Fit(need, g, {}, <<f>>) /\ Range(<<f>>) = {f}
    BY <2>4, FitOne, RangeOfTuple
  <2>6. \A k \in 1 .. 4 : /\ Fit(need, g, {}, S(k))
                          /\ Range(S(k)) = {Require(<<"operator", Operators[k]>>),
                             Put(<<"operator", Operators[k]>>, v)}
    BY <2>2, OperatorsNamed, SetImageFits
  <2>7. Fit(need, g, {}, t) /\ Range(t) = Range(S(1)) \cup Range(S(2)) \cup Range(S(3))
            \cup Range(S(4))
    <3>1. Fit(need, g, {}, S(1)) /\ Fit(need, g, {}, S(2)) /\ Fit(need, g, {}, S(3))
              /\ Fit(need, g, {}, S(4))
      BY <2>6
    <3> HIDE DEF S
    <3>2. Fit(need, g, {}, t) /\ JoinsFour(t, S(1), S(2), S(3), S(4))
      BY <3>1, FitParts
    <3> QED BY <3>2 DEF JoinsFour
  <2>8. Fit(need, g, {}, <<f>> \o t) /\ Range(<<f>> \o t) = Range(<<f>>) \cup Range(t)
    <3> HIDE DEF t, f
    <3>1. {} \subseteq {} \cup Made(<<f>>)
      OBVIOUS
    <3>2. Fit(need, g, {}, <<f>> \o t) /\ Joins(<<f>> \o t, <<f>>, t)
      BY <2>5, <2>7, <3>1, FitConcat
    <3> QED BY <3>2 DEF Joins
  <2>9. ASSUME NEW k \in 1 .. 4, NEW h \in Range(S(k))
        PROVE  Writes(h) \subseteq {<<"operator", o>> : o \in Range(Operators)} /\ h.do # "create"
    <3>1. \/ h = Require(<<"operator", Operators[k]>>)
          \/ h = Put(<<"operator", Operators[k]>>, v)
      BY <2>6, <2>9
    <3>4. \A x : /\ Writes(Require(x)) = {} /\ Require(x).do = "require"
                 /\ Writes(Put(x, v)) = {x} /\ Put(x, v).do = "put"
      <4> HIDE DEF v
      <4> TAKE x
      <4> QED BY Wrote
    <3>2. Writes(h) \subseteq {<<"operator", Operators[k]>>} /\ h.do # "create"
      <4> HIDE DEF v
      <4> QED BY <3>1, <3>4
    <3> QED BY <3>2, OperatorsNamed
  <2>10. Writes(f) = {<<"operator_images">>} /\ f.do # "create"
    BY Wrote
  <2>11. ASSUME NEW h \in Range(<<f>> \o t)
         PROVE  Writes(h) \subseteq Writes(e) /\ h.do # "create"
    <3>1. CASE h = f
      BY <3>1, <2>10, <1>0
    <3>2. CASE \E k \in 1 .. 4 : h \in Range(S(k))
      BY <3>2, <2>9, <1>0
    <3>3. h = f \/ \E k \in 1 .. 4 : h \in Range(S(k))
      <4> HIDE DEF f, t, S
      <4> QED BY <2>5, <2>7, <2>8, <2>11
    <3> QED BY <3>1, <3>2, <3>3
  <2>12. Patched(v, <<f>> \o t)
    <3> DEFINE x == <<"operator", "battlegroup">>
    <3>1. x = <<"operator", Operators[1]>>
      BY DEF Operators
    <3>2. ASSUME NEW k \in 1 .. 4, NEW h \in Range(S(k)), x \in Writes(h)
          PROVE  Sets(h, x, v)
      <4> DEFINE y == <<"operator", Operators[k]>>
      <4>1. h = Require(y) \/ h = Put(y, v)
        BY <2>6, <3>2
      <4> HIDE DEF v, x, y
      <4>3. Writes(Require(y)) = {} /\ Writes(Put(y, v)) = {y}
        BY Wrote
      <4>2. h = Put(y, v) /\ y = x
        BY <3>2, <4>1, <4>3
      <4> QED BY <4>2, PutSets
    <3>3. ASSUME NEW h \in Range(<<f>> \o t), x \in Writes(h)
          PROVE  Sets(h, x, v)
      <4>1. h # f
        BY <2>10, <3>3
      <4>2. \E k \in 1 .. 4 : h \in Range(S(k))
        <5> HIDE DEF f, t, S
        <5> QED BY <2>5, <2>7, <2>8, <3>3, <4>1
      <4> QED BY <3>2, <3>3, <4>2
    <3>4. \E h \in Range(<<f>> \o t) : Sets(h, x, v)
      <4>1. Put(x, v) \in Range(S(1))
        BY <2>6, <3>1
      <4>2. Put(x, v) \in Range(<<f>> \o t)
        <5> HIDE DEF f, t, S, x, v
        <5> QED BY <2>7, <2>8, <4>1
      <4>3. Sets(Put(x, v), x, v)
        BY PutSets
      <4> QED BY <4>2, <4>3
    <3> HIDE DEF f, t, v
    <3> QED BY <3>3, <3>4 DEF Patched
  <2> QED BY <1>0, <2>1, <2>8, <2>11, <2>12 DEF Substitutes
<1>2. CASE ~OperatorVersionsDiffer(g)
  <2>1. OperatorImages(g) = <<>>
    BY <1>2 DEF OperatorImages
  <2> QED BY <1>0, <1>2, <2>1, NoneSubstitutes
<1> QED BY <1>1, <1>2

LEMMA DeploymentsSubstitute ==
  ASSUME NEW need, NEW g \in [Items -> Values], There(g, <<"payload">>)
  PROVE  /\ Substitutes(need, g, Branch("deployments"), OperatorDeployments(g))
         /\ Patched(g[<<"payload">>], OperatorDeployments(g))
<1> DEFINE v == g[<<"payload">>]
           e == Branch("deployments")
           D(k) == Put(<<"operator", Operators[k]>>, v)
           t == <<D(1)>> \o <<D(2)>> \o <<D(3)>> \o <<D(4)>>
<1>0. /\ Makes(e) = {<<"operator", o>> : o \in Range(Operators)}
      /\ Writes(e) = {<<"operator", o>> : o \in Range(Operators)}
  BY AttributesOfBranch
<1>1. OperatorDeployments(g) = t
  BY DEF OperatorDeployments, ForOperators
<1>2. v \in Values /\ v # Absent
  BY PayloadValue
<1>3. \A k \in 1 .. 4 : /\ Fit(need, g, {}, <<D(k)>>) /\ D(k).do # "create"
                        /\ Writes(D(k)) = {<<"operator", Operators[k]>>}
                        /\ Makes(D(k)) = {<<"operator", Operators[k]>>}
  <2> HIDE DEF v
  <2> TAKE k \in 1 .. 4
  <2>1. Ok(need, g, {}, D(k))
    BY <1>2, OperatorsNamed, OkPut
  <2>2. Fit(need, g, {}, <<D(k)>>)
    BY <2>1, FitOne
  <2>3. Makes(D(k)) = {<<"operator", Operators[k]>>} \ {<<"legacy">>}
    BY AttributesOfSimple
  <2>4. Writes(D(k)) = {<<"operator", Operators[k]>>} /\ D(k).do = "put"
    BY Wrote
  <2>5. Makes(D(k)) = {<<"operator", Operators[k]>>}
    <3>1. <<"operator", Operators[k]>> # <<"legacy">>
      OBVIOUS
    <3> HIDE DEF D
    <3> QED BY <2>3, <3>1
  <2> HIDE DEF D
  <2> QED BY <2>2, <2>4, <2>5
<1>4. Fit(need, g, {}, t) /\ Range(t) = Range(<<D(1)>>) \cup Range(<<D(2)>>) \cup Range(<<D(3)>>)
          \cup Range(<<D(4)>>)
  <2>1. Fit(need, g, {}, <<D(1)>>) /\ Fit(need, g, {}, <<D(2)>>) /\ Fit(need, g, {}, <<D(3)>>)
            /\ Fit(need, g, {}, <<D(4)>>)
    BY <1>3
  <2> HIDE DEF D
  <2>2. Fit(need, g, {}, t) /\ JoinsFour(t, <<D(1)>>, <<D(2)>>, <<D(3)>>, <<D(4)>>)
    BY <2>1, FitParts
  <2> QED BY <2>2 DEF JoinsFour
<1>5. Range(t) = {D(1), D(2), D(3), D(4)}
  <2> HIDE DEF D, t
  <2> QED BY <1>4, RangeOfTuple
<1>6. ASSUME NEW f \in Range(t) PROVE Writes(f) \subseteq Writes(e) /\ f.do # "create"
  <2>1. PICK k \in 1 .. 4 : f = D(k)
    <3> HIDE DEF D, t
    <3> QED BY <1>5, <1>6
  <2> QED BY <2>1, <1>0, <1>3, OperatorsNamed
<1>7. ASSUME NEW x \in Makes(e) PROVE \E f \in Range(t) : x \in Makes(f)
  <2>1. PICK o \in Range(Operators) : x = <<"operator", o>>
    BY <1>0, <1>7
  <2>2. PICK k \in 1 .. 4 : o = Operators[k]
    BY FourOperators
  <2>3. x \in Makes(D(k))
    BY <1>3, <2>1, <2>2
  <2>4. D(k) \in Range(t)
    <3> HIDE DEF D, t
    <3> QED BY <1>5
  <2> QED BY <2>3, <2>4
<1>9. Patched(v, t)
  <2> DEFINE x == <<"operator", "battlegroup">>
  <2>1. x = <<"operator", Operators[1]>>
    BY DEF Operators
  <2>2. ASSUME NEW f \in Range(t), x \in Writes(f)
        PROVE  Sets(f, x, v)
    <3>1. PICK k \in 1 .. 4 : f = D(k)
      <4> HIDE DEF D, t
      <4> QED BY <1>5, <2>2
    <3>2. x = <<"operator", Operators[k]>>
      BY <1>3, <2>2, <3>1
    <3> HIDE DEF x, v
    <3> QED BY <3>1, <3>2, PutSets
  <2>3. D(1) \in Range(t)
    <3> HIDE DEF D, t
    <3> QED BY <1>5
  <2>4. Sets(D(1), x, v)
    <3> HIDE DEF x, v
    <3> QED BY <2>1, PutSets
  <2> HIDE DEF D, t, v
  <2> QED BY <2>2, <2>3, <2>4 DEF Patched
<1> HIDE DEF t, e
<1>8. Substitutes(need, g, e, t)
  BY <1>4, <1>6, <1>7 DEF Substitutes
<1> QED BY <1>1, <1>8, <1>9 DEF e

LEMMA WorldNamed ==
  ASSUME NEW w \in Worlds
  PROVE  /\ \A i \in {"manifest", "namespace", "secrets", "title", "revision", "settings",
            "scheduler"} :
                Plain(<<i, w>>) /\ <<i, w>> \in Items
         /\ <<"world", w>> \in Items /\ <<"world", w>>[1] \notin Fixed
         /\ Before(<<"world", w>>) = {<<"namespace", w>>, <<"secrets", w>>}
         /\ <<"payload">> \in Items
<1>1. \A i \in {"manifest", "namespace", "secrets", "title", "revision", "settings", "scheduler"} :
         i \in WorldItems \ {"world", "pod"}
  BY DEF WorldItems
<1>2. <<"world", w>> \in Items /\ <<"payload">> \in Items
  BY ItemsAre DEF WorldItems, HostItems
<1>3. <<"world", w>>[1] \notin Fixed /\ Before(<<"world", w>>)
          = {<<"namespace", w>>, <<"secrets", w>>}
  BY DEF Fixed, Before
<1> QED BY <1>1, <1>2, <1>3, PlainItems, PlainIs

LEMMA NewWorldFits ==
  ASSUME NEW need, NEW g, NEW w \in Worlds, NEW pw \in Nat,
         need = "all" => /\ There(g, <<"payload">>)
                         /\ \A o \in Range(Operators) : There(g, <<"scaled", o>>)
  PROVE  /\ Fit(need, g, {}, NewWorld(w, pw))
         /\ Range(NewWorld(w, pw)) =
              {Require(<<"payload">>), Put(<<"manifest", w>>, pw)}
                \cup {Require(<<"scaled", o>>) : o \in Range(Operators)}
                \cup {Unless(<<"namespace", w>>, <<Create(<<"namespace", w>>)>>),
                      Put(<<"secrets", w>>, TRUE), Copy(<<"manifest", w>>, <<"world", w>>),
                      Put(<<"title", w>>, TRUE)}
<1> DEFINE a1 == Require(<<"payload">>)
           a2 == Put(<<"manifest", w>>, pw)
           R(k) == Require(<<"scaled", Operators[k]>>)
           c1 == Unless(<<"namespace", w>>, <<Create(<<"namespace", w>>)>>)
           c2 == Put(<<"secrets", w>>, TRUE)
           c3 == Copy(<<"manifest", w>>, <<"world", w>>)
           c4 == Put(<<"title", w>>, TRUE)
           a == <<a1, a2>>
           b == <<R(1)>> \o <<R(2)>> \o <<R(3)>> \o <<R(4)>>
           c == <<c1, c2, c3, c4>>
           m == <<"manifest", w>>
<1>1. NewWorld(w, pw) = (a \o b) \o c
  BY DEF NewWorld, ForOperators, OperatorReady
<1>2. TRUE \in Values /\ TRUE # Absent /\ pw \in Values /\ pw # Absent
  BY Present DEF Values
<1>3. Fit(need, g, {}, a) /\ Range(a) = {a1, a2}
  <2>1. Ok(need, g, {}, a1)
    BY WorldNamed, OkRequire
  <2>2. Ok(need, g, {}, a2)
    BY <1>2, WorldNamed, OkPut
  <2> HIDE DEF a1, a2
  <2>3. {} \subseteq {} \cup Makes(a1)
    OBVIOUS
  <2> QED BY <2>1, <2>2, <2>3, FitTwo, RangeOfTuple
<1>4. Fit(need, g, {}, b) /\ Range(b) = {R(1), R(2), R(3), R(4)}
  <2>1. \A k \in 1 .. 4 : Fit(need, g, {}, <<R(k)>>)
    <3> TAKE k \in 1 .. 4
    <3>1. Operators[k] \in Range(Operators) /\ <<"scaled", Operators[k]>> \in Items
      BY OperatorsNamed, PlainIs
    <3>2. Ok(need, g, {}, R(k))
      BY <3>1, OkRequire
    <3> HIDE DEF R
    <3> QED BY <3>2, FitOne
  <2>2. Fit(need, g, {}, <<R(1)>>) /\ Fit(need, g, {}, <<R(2)>>) /\ Fit(need, g, {}, <<R(3)>>)
            /\ Fit(need, g, {}, <<R(4)>>)
    BY <2>1
  <2> HIDE DEF R
  <2>3. Fit(need, g, {}, b) /\ JoinsFour(b, <<R(1)>>, <<R(2)>>, <<R(3)>>, <<R(4)>>)
    BY <2>2, FitParts
  <2> QED BY <2>3, RangeOfTuple DEF JoinsFour
<1>5. Fit(need, g, {m}, c) /\ Range(c) = {c1, c2, c3, c4}
  <2> DEFINE most == {m, <<"namespace", w>>, <<"secrets", w>>}
  <2>1. Ok(need, g, {m}, c1)
    BY WorldNamed, OkUnlessOne
  <2>2. Ok(need, g, {m}, c2) /\ Ok(need, g, {m}, c4)
    BY <1>2, WorldNamed, OkPut
  <2>3. Ok(need, g, most, c3)
    <3>1. \A z \in Before(<<"world", w>>) : There(g, z) \/ z \in most
      BY WorldNamed
    <3>2. m \in most /\ m \in Items
      BY WorldNamed
    <3>3. <<"world", w>> \in Items /\ <<"world", w>>[1] \notin Fixed
      BY WorldNamed
    <3> HIDE DEF most, m
    <3>4. Ok(need, g, most, Copy(m, <<"world", w>>))
      BY <3>1, <3>2, <3>3, OkCopy
    <3> QED BY <3>4 DEF m
  <2>4. Makes(c1) = {<<"namespace", w>>} /\ Makes(c2) = {<<"secrets", w>>}
    <3>1. Makes(c1) = {<<"namespace", w>>}
      BY AttributesOfUnless
    <3>2. Makes(c2) = {<<"secrets", w>>} \ {<<"legacy">>}
      BY AttributesOfSimple
    <3>3. <<"secrets", w>> # <<"legacy">>
      OBVIOUS
    <3> QED BY <3>1, <3>2, <3>3
  <2>5. /\ {m} \subseteq {m} \cup Makes(c1)
        /\ most \subseteq {m} \cup Makes(c1) \cup Makes(c2)
        /\ {m} \subseteq {m} \cup Makes(c1) \cup Makes(c2) \cup Makes(c3)
    BY <2>4
  <2> HIDE DEF c1, c2, c3, c4, most, m
  <2> QED BY <2>1, <2>2, <2>3, <2>5, FitFour, RangeOfTuple
<1>6. {m} \subseteq {} \cup Made(a \o b)
  <2>1. Makes(a2) = {m} \ {<<"legacy">>} /\ m # <<"legacy">>
    BY AttributesOfSimple
  <2>2. a2 \in Range(a)
    BY <1>3
  <2>3. Fit(need, g, {}, a \o b) /\ Joins(a \o b, a, b)
    <3> HIDE DEF a, b
    <3>1. {} \subseteq {} \cup Made(a)
      OBVIOUS
    <3> QED BY <1>3, <1>4, <3>1, FitConcat
  <2> HIDE DEF a, b, a2, m
  <2> QED BY <2>1, <2>2, <2>3 DEF Joins, Made
<1>7. Fit(need, g, {}, a \o b) /\ Joins(a \o b, a, b)
  <2> HIDE DEF a, b
  <2>1. {} \subseteq {} \cup Made(a)
    OBVIOUS
  <2> QED BY <1>3, <1>4, <2>1, FitConcat
<1>8. Fit(need, g, {}, (a \o b) \o c) /\ Joins((a \o b) \o c, a \o b, c)
  <2> HIDE DEF a, b, c, m
  <2> QED BY <1>5, <1>6, <1>7, FitConcat
<1>9. Range((a \o b) \o c) = {a1, a2} \cup {R(1), R(2), R(3), R(4)} \cup {c1, c2, c3, c4}
  <2> HIDE DEF a, b, c, a1, a2, c1, c2, c3, c4, R
  <2> QED BY <1>3, <1>4, <1>5, <1>7, <1>8 DEF Joins
<1>10. {R(1), R(2), R(3), R(4)} = {Require(<<"scaled", o>>) : o \in Range(Operators)}
  <2>1. Range(Operators) = {Operators[1], Operators[2], Operators[3], Operators[4]}
    BY OperatorRange DEF Operators
  <2> QED BY <2>1
<1> QED BY <1>1, <1>8, <1>9, <1>10

-----------------------------------------------------------------------------
\* The script that creates a world.

LEMMA WorldSubstitutes ==
  ASSUME NEW need, NEW g, NEW w \in Worlds, NEW pw \in Nat, WorldsSound(g),
         need = "all" => /\ There(g, <<"payload">>)
                         /\ \A o \in Range(Operators) : There(g, <<"scaled", o>>)
  PROVE  Substitutes(need, g, BranchFor("world", w), WorldEffects(g, w, pw))
<1> DEFINE e == BranchFor("world", w)
           f == Put(<<"title", w>>, TRUE)
           ns == Unless(<<"namespace", w>>, <<Create(<<"namespace", w>>)>>)
           s == Put(<<"secrets", w>>, TRUE)
           c == Copy(<<"manifest", w>>, <<"world", w>>)
           m == Put(<<"manifest", w>>, pw)
<1>0. /\ Makes(e) = {<<"namespace", w>>, <<"secrets", w>>, <<"world", w>>, <<"title", w>>}
      /\ Writes(e) = {<<"manifest", w>>, <<"namespace", w>>, <<"secrets", w>>, <<"world", w>>,
         <<"title", w>>}
  <2>1. /\ Writes(e) = {<<i, w>> : i \in {"manifest", "namespace", "secrets", "world", "title"}}
        /\ Makes(e) = {<<i, w>> : i \in {"namespace", "secrets", "world", "title"}}
    BY AttributesOfBranch
  <2> HIDE DEF e
  <2> QED BY <2>1
<1>1. /\ Writes(f) = {<<"title", w>>} /\ f.do = "put" /\ Makes(f) = {<<"title", w>>}
      /\ Writes(s) = {<<"secrets", w>>} /\ s.do = "put" /\ Makes(s) = {<<"secrets", w>>}
      /\ Writes(m) = {<<"manifest", w>>} /\ m.do = "put"
      /\ Writes(c) = {<<"world", w>>} /\ c.do = "copy" /\ <<"world", w>> \in Makes(c)
      /\ Writes(ns) = {<<"namespace", w>>} /\ ns.do = "unless" /\ Makes(ns) = {<<"namespace", w>>}
  <2>1. /\ Writes(f) = {<<"title", w>>} /\ f.do = "put"
        /\ Writes(s) = {<<"secrets", w>>} /\ s.do = "put"
        /\ Writes(m) = {<<"manifest", w>>} /\ m.do = "put"
        /\ Writes(c) = {<<"world", w>>} /\ c.do = "copy" /\ ns.do = "unless"
    <3>1. Writes(f) = {<<"title", w>>} /\ f.do = "put"
      BY Wrote
    <3>2. Writes(s) = {<<"secrets", w>>} /\ s.do = "put"
      BY Wrote
    <3>3. Writes(m) = {<<"manifest", w>>} /\ m.do = "put"
      BY Wrote
    <3>4. Writes(c) = {<<"world", w>>} /\ c.do = "copy" /\ ns.do = "unless"
      BY Wrote
    <3> HIDE DEF f, s, m, c, ns
    <3> QED BY <3>1, <3>2, <3>3, <3>4
  <2>2. Makes(f) = {<<"title", w>>} \ {<<"legacy">>}
    BY AttributesOfSimple
  <2>3. Makes(s) = {<<"secrets", w>>} \ {<<"legacy">>}
    BY AttributesOfSimple
  <2>4. Makes(c) = {<<"world", w>>, <<"manifest", w>>}
    BY AttributesOfSimple
  <2>5. <<"title", w>> # <<"legacy">> /\ <<"secrets", w>> # <<"legacy">>
    OBVIOUS
  <2>6. Makes(ns) = {<<"namespace", w>>} /\
        Writes(ns) = {t.item : t \in Range(<<Create(<<"namespace", w>>)>>)}
    BY AttributesOfUnless
  <2>7. Writes(ns) = {<<"namespace", w>>}
    <3>1. Range(<<Create(<<"namespace", w>>)>>) = {Create(<<"namespace", w>>)}
      BY RangeOfTuple
    <3>2. Create(<<"namespace", w>>).item = <<"namespace", w>>
      BY DEF Create
    <3> HIDE DEF ns
    <3> QED BY <2>6, <3>1, <3>2
  <2> HIDE DEF f, s, m, c, ns
  <2> QED BY <2>1, <2>2, <2>3, <2>4, <2>5, <2>6, <2>7
<1>2. CASE There(g, <<"world", w>>)
  <2>1. WorldEffects(g, w, pw) = <<f>>
    BY <1>2 DEF WorldEffects
  <2>2. TRUE \in Values /\ TRUE # Absent
    BY Present DEF Values
  <2>3. Ok(need, g, {}, f)
    BY <2>2, WorldNamed, OkPut
  <2>4. There(g, <<"namespace", w>>) /\ There(g, <<"secrets", w>>)
    BY <1>2 DEF WorldsSound
  <2> HIDE DEF f
  <2>6. Fit(need, g, {}, <<f>>) /\ Range(<<f>>) = {f}
    BY <2>3, FitOne, RangeOfTuple
  <2>7. \A h \in Range(<<f>>) : Writes(h) \subseteq Writes(e) /\ h.do # "create"
    BY <1>0, <1>1, <2>6
  <2>8. \A x \in Makes(e) : There(g, x) \/ \E h \in Range(<<f>>) : x \in Makes(h)
    BY <1>0, <1>1, <1>2, <2>4, <2>6
  <2> QED BY <2>1, <2>6, <2>7, <2>8 DEF Substitutes
<1>3. CASE ~There(g, <<"world", w>>)
  <2> DEFINE t == NewWorld(w, pw)
  <2>1. WorldEffects(g, w, pw) = t
    BY <1>3 DEF WorldEffects
  <2>2. /\ Fit(need, g, {}, t)
        /\ Range(t) = {Require(<<"payload">>), m}
                \cup {Require(<<"scaled", o>>) : o \in Range(Operators)}
                \cup {ns, s, c, f}
    BY NewWorldFits
  <2>3. \A x : Writes(Require(x)) = {} /\ Require(x).do = "require"
    <3> TAKE x
    <3> QED BY Wrote
  <2> HIDE DEF f, s, m, c, ns, t
  <2>4. \A h \in Range(t) : Writes(h) \subseteq Writes(e) /\ h.do # "create"
    <3> TAKE h \in Range(t)
    <3>1. h \in {m, ns, s, c, f} \/ \E x : h = Require(x)
      BY <2>2
    <3> HIDE DEF e
    <3> QED BY <1>0, <1>1, <2>3, <3>1
  <2>5. \A x \in Makes(e) : There(g, x) \/ \E h \in Range(t) : x \in Makes(h)
    <3> HIDE DEF e
    <3> QED BY <1>0, <1>1, <2>2
  <2> QED BY <2>1, <2>2, <2>4, <2>5 DEF Substitutes
<1> QED BY <1>2, <1>3

\* The scripts that are executed where an item is missing.
LEMMA ThenFits ==
  ASSUME NEW need, NEW g, NEW e \in Effects, e.do = "unless", Proper(e)
  PROVE  /\ Fit(need, g, {}, e.then)
         /\ \A f \in Range(e.then) : Writes(f) \subseteq Writes(e)
         /\ \A x \in Makes(e) : There(g, x) \/ \E f \in Range(e.then) : x \in Makes(f)
<1>1. e.then \in Seq(Simples) /\ e.item \in Items /\ Simples \subseteq Effects
  BY EffectKinds, SimplesAre
<1>0. e # Put(<<"legacy">>, Absent)
  BY DEF Put
<1>2. /\ e.then # <<>> /\ Len(e.then) <= 2 /\ Len(e.then) \in Nat
      /\ e.item = e.then[1].item /\ Before(e.item) = {}
  BY <1>0, <1>1 DEF Proper
<1>3. \A k \in 1 .. Len(e.then) :
        /\ e.then[k] \in Simples
        /\ e.then[k].do \in {"put", "create"}
        /\ e.then[k].do = "put" => e.then[k].value # Absent
        /\ k = 2 => Before(e.then[2].item) \subseteq {e.item}
  BY <1>0, <1>1 DEF Proper
<1>4. 1 \in 1 .. Len(e.then)
  BY <1>1, <1>2
<1>5. ASSUME NEW t \in Simples, t.do \in {"put", "create"}
      PROVE  /\ Needs(need, t) = Before(t.item) /\ Writes(t) = {t.item}
             /\ t.item # <<"legacy">> => Makes(t) = {t.item}
  <2>1. \/ t = Put(t.item, t.value)
        \/ t = Create(t.item)
    BY <1>5 DEF Simples, Put, Create
  <2>2. ASSUME NEW x, NEW v
        PROVE  /\ Needs(need, Put(x, v)) = Before(x) /\ Writes(Put(x, v)) = {x}
               /\ Makes(Put(x, v)) = {x} \ {<<"legacy">>}
               /\ Needs(need, Create(x)) = Before(x) /\ Writes(Create(x)) = {x}
               /\ Makes(Create(x)) = {x}
    BY AttributesOfSimple
  <2> QED BY <2>1, <2>2
<1>6. \A f \in Range(e.then) : f \in Simples /\ f.do \in {"put", "create"} /\ f.item \in Writes(e)
  <2>1. Writes(e) = {t.item : t \in Range(e.then)}
    BY DEF Writes, IsSimple
  <2> QED BY <1>3, <2>1 DEF Range
<1>13. e.item # <<"legacy">>
  <2>1. e.then[1] \in Range(e.then)
    BY <1>4 DEF Range
  <2>2. e.item \in Writes(e)
    BY <1>2, <1>6, <2>1
  <2>3. e.item[1] \notin Fixed
    BY <1>0, <2>2 DEF Proper
  <2> QED BY <2>3 DEF Fixed
<1>7. \A f \in Range(e.then) : Writes(f) \subseteq Writes(e)
  BY <1>5, <1>6
<1>8. ASSUME NEW f \in Range(e.then) PROVE Proper(f)
  <2>1. PICK k \in 1 .. Len(e.then) : f = e.then[k]
    BY DEF Range
  <2>2. f.do = "put" => f.value # Absent
    BY <1>3, <2>1
  <2>3. \A x \in Writes(f) : x[1] \notin Fixed
    BY <1>0, <1>7, <1>8 DEF Proper
  <2> QED BY <1>6, <2>2, <2>3 DEF Proper
<1>9. ReadyAfter(need, g, {}, e.then)
  <2> SUFFICES ASSUME NEW k \in 1 .. Len(e.then), NEW x \in Needs(need, e.then[k])
               PROVE  \E j \in 1 .. k - 1 : x \in Makes(e.then[j])
    BY DEF ReadyAfter
  <2>1. k = 1 \/ k = 2
    BY <1>2
  <2>2. x \in Before(e.then[k].item)
    BY <1>3, <1>5
  <2>3. CASE k = 1
    BY <2>2, <2>3, <1>2
  <2>4. CASE k = 2
    <3>1. x = e.item
      BY <2>2, <2>4, <1>3
    <3>2. x \in Makes(e.then[1]) /\ 1 \in 1 .. k - 1
      BY <3>1, <2>4, <1>2, <1>3, <1>4, <1>5, <1>13
    <3> QED BY <3>2
  <2> QED BY <2>1, <2>3, <2>4
<1>10. Makes(e) = {e.item}
  BY DEF Makes
<1>11. e.then[1] \in Range(e.then) /\ e.item \in Makes(e.then[1])
  <2>1. e.then[1] \in Range(e.then)
    BY <1>4 DEF Range
  <2> QED BY <2>1, <1>2, <1>3, <1>4, <1>5, <1>13
<1>12. e.then \in Seq(Effects)
  BY <1>1
<1> QED BY <1>7, <1>8, <1>9, <1>10, <1>11, <1>12 DEF Fit

-----------------------------------------------------------------------------
\* Every effect that stands for others.

LEMMA BranchIs ==
  ASSUME NEW e \in Effects, e.do = "branch"
  PROVE  \/ e.of \in {"crds", "operators", "deployments", "swap"} /\ e = Branch(e.of)
         \/ e.of \in {"sync", "world"} /\ e.world \in Worlds /\ e = BranchFor(e.of, e.world)
<1>1. \/ e \in [do : {"branch"}, of : {"crds", "operators", "deployments", "swap"}]
      \/ e \in [do : {"branch"}, of : {"sync", "world"}, world : Worlds]
  BY DEF Effects, Simples
<1> QED BY <1>1 DEF Branch, BranchFor

LEMMA BranchSubstitutes ==
  ASSUME NEW need, NEW g \in [Items -> Values], NEW e \in Effects, e.do = "branch",
         NEW pw \in Nat, GuestSound(g), \A x \in Needs(need, e) : There(g, x)
  PROVE  Substitutes(need, g, e, Expanded(g, e, pw))
<1>1. CASE e.of = "crds" /\ e = Branch("crds")
  <2>1. Expanded(g, e, pw) = OperatorCrds(g)
    BY <1>1 DEF Expanded, Branch
  <2> QED BY <1>1, <2>1, CrdsSubstitute
<1>2. CASE e.of = "operators" /\ e = Branch("operators")
  <2>1. Expanded(g, e, pw) = OperatorImages(g)
    BY <1>2 DEF Expanded, Branch
  <2>2. Needs(need, e) = (IF need = "all" THEN {<<"operator", o>> : o \in Range(Operators)} ELSE {})
    BY <1>2, AttributesOfBranch
  <2>3. need = "all" => \A o \in Range(Operators) : There(g, <<"operator", o>>)
    BY <2>2
  <2> QED BY <1>2, <2>1, <2>3, OperatorsSubstitute
<1>3. CASE e.of = "deployments" /\ e = Branch("deployments")
  <2>1. Expanded(g, e, pw) = OperatorDeployments(g)
    BY <1>3 DEF Expanded, Branch
  <2>2. Needs(need, e) = {<<"payload">>}
    BY <1>3, AttributesOfBranch
  <2>3. There(g, <<"payload">>)
    BY <2>2
  <2> QED BY <1>3, <2>1, <2>3, DeploymentsSubstitute
<1>4. CASE e.of = "swap" /\ e = Branch("swap")
  <2>1. Expanded(g, e, pw) = SwapOn(g)
    BY <1>4 DEF Expanded, Branch
  <2> QED BY <1>4, <2>1, SwapSubstitutes
<1>5. CASE e.of = "sync" /\ e.world \in Worlds /\ e = BranchFor("sync", e.world)
  <2>1. Expanded(g, e, pw) = SyncEffects(g, e.world)
    BY <1>5 DEF Expanded, BranchFor
  <2> QED BY <1>5, <2>1, SyncSubstitutes DEF GuestSound
<1>6. CASE e.of = "world" /\ e.world \in Worlds /\ e = BranchFor("world", e.world)
  <2>1. Expanded(g, e, pw) = WorldEffects(g, e.world, pw)
    BY <1>6 DEF Expanded, BranchFor
  <2>2. Needs(need, BranchFor("world", e.world)) =
          (IF need = "all" THEN {<<"payload">>}
              \cup {<<"scaled", o>> : o \in Range(Operators)} ELSE {})
    BY AttributesOfBranch
  <2>3. need = "all" => There(g, <<"payload">>)
            /\ \A o \in Range(Operators) : There(g, <<"scaled", o>>)
    BY <1>6, <2>2
  <2> QED BY <1>6, <2>1, <2>3, WorldSubstitutes DEF GuestSound
<1> QED BY <1>1, <1>2, <1>3, <1>4, <1>5, <1>6, BranchIs

\* A script whose first effect is executed.
LEMMA Expansion ==
  ASSUME NEW need, NEW g \in [Items -> Values], NEW e \in Effects, Proper(e), ~Fails(g, e),
         NEW pw \in Nat, GuestSound(g), \A x \in Needs(need, e) : There(g, x)
  PROVE  LET s == Expanded(g, e, pw)
             h == Effect(g, e)
         IN /\ Fit(need, h, {}, s)
            /\ \A f \in Range(s) : Writes(f) \subseteq Writes(e)
            /\ \A x \in Makes(e) : There(h, x) \/ \E f \in Range(s) : x \in Makes(f)
            /\ e.do = "branch" => \A f \in Range(s) : f.do # "create"
            /\ IsSimple(e) \/ e.do = "require" => s = <<>>
<1> DEFINE s == Expanded(g, e, pw)
           h == Effect(g, e)
<1>0. Fit(need, h, {}, <<>>) /\ Range(<<>>) = {}
  BY FitNone
<1>1. CASE e.do = "branch"
  <2>1. h = g
    BY <1>1 DEF Effect
  <2>2. Substitutes(need, g, e, s)
    BY <1>1, BranchSubstitutes
  <2> QED BY <1>1, <2>1, <2>2 DEF Substitutes, IsSimple
<1>2. CASE e.do = "unless"
  <2>1. h = g /\ Makes(e) = {e.item}
    BY <1>2 DEF Effect, Makes
  <2>2. CASE There(g, e.item)
    <3>1. s = <<>>
      BY <1>2, <2>2 DEF Expanded
    <3> QED BY <1>0, <1>2, <2>1, <2>2, <3>1
  <2>3. CASE ~There(g, e.item)
    <3>1. s = e.then
      BY <1>2, <2>3 DEF Expanded
    <3>2. /\ Fit(need, g, {}, e.then)
          /\ \A f \in Range(e.then) : Writes(f) \subseteq Writes(e)
          /\ \A x \in Makes(e) : There(g, x) \/ \E f \in Range(e.then) : x \in Makes(f)
      BY <1>2, ThenFits
    <3>3. /\ Fit(need, h, {}, s)
          /\ \A f \in Range(s) : Writes(f) \subseteq Writes(e)
          /\ \A x \in Makes(e) : There(h, x) \/ \E f \in Range(s) : x \in Makes(f)
      <4> HIDE DEF s, h
      <4> QED BY <2>1, <3>1, <3>2
    <3> QED BY <1>2, <3>3 DEF IsSimple
  <2> QED BY <2>2, <2>3
<1>3. CASE IsSimple(e) \/ e.do = "require"
  <2>1. s = <<>>
    BY <1>3 DEF Expanded, IsSimple
  <2>2. \A x \in Makes(e) : There(h, x)
    <3>1. CASE e.do = "put"
      <4>1. Makes(e) = {e.item} \ {<<"legacy">>}
        BY <3>1 DEF Makes
      <4>2. e.item # <<"legacy">> => h[e.item] # Absent
        <5>1. h[e.item] = e.value
          BY <3>1, EffectOnGuest DEF IsSimple
        <5>2. e = Put(<<"legacy">>, Absent) \/ e.value # Absent
          BY <3>1 DEF Proper
        <5>3. Put(<<"legacy">>, Absent).item = <<"legacy">>
          BY DEF Put
        <5> HIDE DEF h
        <5> QED BY <5>1, <5>2, <5>3
      <4> QED BY <4>1, <4>2 DEF There
    <3>2. CASE e.do = "copy"
      <4>1. Makes(e) = {e.item, e.from} /\ There(g, e.from)
        BY <3>2 DEF Makes, Fails
      <4>2. h[e.item] = g[e.from] /\ \A x \in Items \ {e.item} : h[x] = g[x]
        BY <3>2, EffectOnGuest DEF IsSimple
      <4>3. e.from \in Items
        BY <3>2, EffectKinds
      <4> QED BY <4>1, <4>2, <4>3 DEF There
    <3>3. CASE e.do = "create"
      <4>1. Makes(e) = {e.item} /\ h[e.item] = TRUE
        BY <3>3, EffectOnGuest DEF Makes, IsSimple
      <4> QED BY <4>1, Present DEF There
    <3>4. CASE e.do = "require"
      <4>1. Makes(e) = {e.item} /\ There(g, e.item) /\ h = g
        BY <3>4 DEF Makes, Fails, Effect
      <4> QED BY <4>1
    <3> QED BY <1>3, <3>1, <3>2, <3>3, <3>4 DEF IsSimple
  <2>3. e.do # "branch"
    BY <1>3 DEF IsSimple
  <2> QED BY <1>0, <2>1, <2>2, <2>3
<1> QED BY <1>1, <1>2, <1>3, EffectKinds DEF IsSimple

-----------------------------------------------------------------------------
\* One effect, the guest, and the script it is from.

\* What an effect needs and makes are items.
LEMMA NeedsAreItems ==
  ASSUME NEW need, NEW e \in Effects
  PROVE  Needs(need, e) \subseteq Items
<1>0. /\ <<"payload">> \in Items
      /\ \A o \in Range(Operators) : <<"operator", o>> \in Items /\ <<"scaled", o>> \in Items
  BY ItemsAre, OperatorIs DEF HostItems
<1>1. ASSUME NEW x \in Items PROVE Before(x) \subseteq Items
  <2>1. CASE x[1] = "world"
    <3>1. x[2] \in Worlds
      BY <2>1, ItemOfName DEF WorldItems
    <3>2. <<"namespace", x[2]>> \in Items /\ <<"secrets", x[2]>> \in Items
      BY <3>1, WorldNamed
    <3> QED BY <2>1, <3>2 DEF Before
  <2>2. CASE x[1] = "role_binding"
    <3>1. "role" \in OperatorItems /\ "role_binding" \in OperatorItems
      BY DEF OperatorItems, Rights
    <3>2. x[2] \in Range(Operators)
      BY <2>2, <3>1, ItemOfName
    <3>3. <<"role", x[2]>> \in Items
      BY <3>1, <3>2, ItemsAre
    <3> QED BY <2>2, <3>3 DEF Before
  <2> QED BY <2>1, <2>2 DEF Before
<1>2. CASE IsSimple(e)
  <2>1. e.item \in Items /\ e.do \in {"put", "copy", "create"}
    BY <1>2, EffectKinds DEF IsSimple
  <2>2. Needs(need, e) \subseteq Before(e.item) \cup (IF e.do = "copy" THEN {e.from} ELSE {})
    BY <1>2, <2>1 DEF Needs
  <2>3. e.do = "copy" => e.from \in Items
    BY EffectKinds
  <2>4. Before(e.item) \subseteq Items
    BY <1>1, <2>1
  <2> QED BY <2>2, <2>3, <2>4
<1>3. CASE e.do \in {"require", "unless"}
  <2>1. Needs(need, e) \subseteq {e.item} /\ e.item \in Items
    BY <1>3, EffectKinds DEF Needs, IsSimple
  <2> QED BY <2>1
<1>4. CASE e.do = "branch"
  <2>1. Needs(need, e) \subseteq {<<"payload">>} \cup {<<"operator", o>> : o \in Range(Operators)}
                                   \cup {<<"scaled", o>> : o \in Range(Operators)}
    BY <1>4 DEF Needs, IsSimple
  <2> QED BY <1>0, <2>1
<1> QED BY <1>2, <1>3, <1>4, EffectKinds DEF IsSimple

\* What is there stays there.
Grows(g, h) == \A x \in Items : There(g, x) => There(h, x)

\* The items that no script writes.
KeepsFixed(g, h) == \A x \in Items : x[1] \in Fixed => h[x] = g[x]

\* An effect that does not fail leaves what it makes, keeps what was there, writes
\* nothing else, and leaves a sound guest.
LEMMA GuestStep ==
  ASSUME NEW g \in [Items -> Values], NEW e \in Effects, Proper(e), ~Fails(g, e), GuestSound(g),
         \A x \in Needs("order", e) : There(g, x)
  PROVE  LET h == Effect(g, e)
         IN h \in [Items -> Values] /\ Grows(g, h) /\ KeepsFixed(g, h) /\ GuestSound(h)
<1> DEFINE h == Effect(g, e)
<1>0. h \in [Items -> Values]
  BY EffectOnGuest
<1>1. CASE ~IsSimple(e)
  BY <1>0, <1>1, EffectOnGuest DEF Grows, KeepsFixed
<1>2. CASE e = Put(<<"legacy">>, Absent)
  <2>1. <<"legacy">> \in Items
    BY ItemsAre DEF HostItems
  <2>2. g[<<"legacy">>] = Absent
    BY DEF GuestSound, There
  <2>3. h = [g EXCEPT ![<<"legacy">>] = Absent]
    BY <1>2 DEF Effect, Put
  <2>4. h = g
    BY <2>1, <2>2, <2>3
  <2> QED BY <1>0, <2>4 DEF Grows, KeepsFixed
<1>3. CASE IsSimple(e) /\ e # Put(<<"legacy">>, Absent)
  <2>1. e.item \in Items /\ Writes(e) = {e.item}
    BY <1>3, EffectKinds DEF IsSimple, Writes
  <2>2. e.item[1] \notin Fixed /\ (e.do = "put" => e.value # Absent)
    BY <1>3, <2>1 DEF Proper
  <2>3. \A x \in Items \ {e.item} : h[x] = g[x]
    BY <1>3, EffectOnGuest
  <2>4. There(h, e.item)
    <3>1. CASE e.do = "put"
      BY <1>3, <2>2, <3>1, EffectOnGuest DEF There
    <3>2. CASE e.do = "copy"
      BY <1>3, <3>2, EffectOnGuest DEF There, Fails
    <3>3. CASE e.do = "create"
      BY <1>3, <3>3, EffectOnGuest, Present DEF There
    <3> QED BY <1>3, <3>1, <3>2, <3>3 DEF IsSimple
  <2>5. Grows(g, h)
    BY <2>3, <2>4 DEF Grows, There
  <2>6. KeepsFixed(g, h)
    BY <2>2, <2>3 DEF KeepsFixed
  <2>7. Needs("order", e) = Before(e.item)
    BY <1>3 DEF Needs, IsSimple
  <2>8. \A x \in Items : There(h, x) => There(g, x) \/ x = e.item
    BY <2>3 DEF There
  <2>9. WorldsSound(h)
    <3> SUFFICES ASSUME NEW w \in Worlds, There(h, <<"world", w>>)
                 PROVE  There(h, <<"namespace", w>>) /\ There(h, <<"secrets", w>>)
      BY DEF WorldsSound
    <3>1. /\ <<"world", w>> \in Items /\ <<"namespace", w>> \in Items /\ <<"secrets", w>> \in Items
          /\ Before(<<"world", w>>) = {<<"namespace", w>>, <<"secrets", w>>}
      BY WorldNamed
    <3>2. There(g, <<"namespace", w>>) /\ There(g, <<"secrets", w>>)
      <4>1. CASE e.item = <<"world", w>>
        BY <4>1, <3>1, <2>7
      <4>2. CASE e.item # <<"world", w>>
        <5>1. There(g, <<"world", w>>)
          BY <4>2, <3>1, <2>8
        <5> QED BY <5>1 DEF GuestSound, WorldsSound
      <4> QED BY <4>1, <4>2
    <3> HIDE DEF h
    <3> QED BY <3>1, <3>2, <2>5 DEF Grows
  <2>10. RightsSound(h)
    <3> SUFFICES ASSUME NEW o \in Range(Operators), There(h, <<"role_binding", o>>)
                 PROVE  There(h, <<"role", o>>)
      BY DEF RightsSound
    <3>1. <<"role_binding", o>> \in Items /\ <<"role", o>> \in Items
      BY ItemsAre DEF OperatorItems, Rights
    <3>2. Before(<<"role_binding", o>>) = {<<"role", o>>}
      BY DEF Before
    <3>3. There(g, <<"role", o>>)
      <4>1. CASE e.item = <<"role_binding", o>>
        BY <4>1, <3>2, <2>7
      <4>2. CASE e.item # <<"role_binding", o>>
        <5>1. There(g, <<"role_binding", o>>)
          BY <4>2, <3>1, <2>8
        <5> QED BY <5>1 DEF GuestSound, RightsSound
      <4> QED BY <4>1, <4>2
    <3> HIDE DEF h
    <3> QED BY <3>1, <3>3, <2>5 DEF Grows
  <2>11. DatabasesSound(h)
    <3> SUFFICES ASSUME NEW w \in Worlds, There(h, <<"pod", w>>)
                 PROVE  There(h, <<"world", w>>)
      BY DEF DatabasesSound
    <3>1. <<"world", w>> \in Items /\ <<"pod", w>> \in Items /\ <<"pod", w>>[1] \in Fixed
      BY ItemsAre DEF WorldItems, Fixed
    <3>2. There(g, <<"pod", w>>)
      BY <3>1, <2>6 DEF KeepsFixed, There
    <3>3. There(g, <<"world", w>>)
      BY <3>2 DEF GuestSound, DatabasesSound
    <3> HIDE DEF h
    <3> QED BY <3>1, <3>3, <2>5 DEF Grows
  <2>12. ~There(h, <<"legacy">>)
    <3>1. <<"legacy">> \in Items /\ <<"legacy">>[1] \in Fixed
      BY ItemsAre DEF HostItems, Fixed
    <3> QED BY <3>1, <2>6 DEF KeepsFixed, There, GuestSound
  <2> QED BY <1>0, <2>5, <2>6, <2>9, <2>10, <2>11, <2>12 DEF GuestSound
<1> QED BY <1>1, <1>2, <1>3

LEMMA HeadTail ==
  ASSUME NEW S, NEW p \in Seq(S), p # <<>>
  PROVE  /\ Head(p) \in S /\ Tail(p) \in Seq(S) /\ p = <<Head(p)>> \o Tail(p)
         /\ Len(p) \in Nat \ {0} /\ Len(Tail(p)) = Len(p) - 1 /\ p[1] = Head(p)
         /\ \A k \in 1 .. Len(p) - 1 : Tail(p)[k] = p[k + 1]
         /\ Range(p) = {Head(p)} \cup Range(Tail(p))
<1>1. /\ Head(p) \in S /\ Tail(p) \in Seq(S) /\ p = <<Head(p)>> \o Tail(p)
      /\ Len(p) \in Nat \ {0} /\ Len(Tail(p)) = Len(p) - 1 /\ p[1] = Head(p)
      /\ \A k \in 1 .. Len(p) - 1 : Tail(p)[k] = p[k + 1]
  OBVIOUS
<1>2. ASSUME NEW k \in 1 .. Len(p) PROVE p[k] \in {Head(p)} \cup Range(Tail(p))
  <2>1. CASE k = 1
    BY <1>1, <2>1
  <2>2. CASE k # 1
    <3>1. k - 1 \in 1 .. Len(Tail(p)) /\ Tail(p)[k - 1] = p[k]
      BY <1>1, <2>2
    <3>2. \A t : k - 1 \in 1 .. Len(t) => t[k - 1] \in Range(t)
      BY DEF Range
    <3> QED BY <3>1, <3>2, Zenon
  <2> QED BY <2>1, <2>2
<1>3. ASSUME NEW k \in 1 .. Len(Tail(p)) PROVE Tail(p)[k] \in Range(p)
  <2>1. k + 1 \in 1 .. Len(p) /\ Tail(p)[k] = p[k + 1]
    BY <1>1
  <2> QED BY <2>1 DEF Range
<1>4. 1 \in 1 .. Len(p)
  BY <1>1
<1>5. Head(p) \in Range(p)
  BY <1>1, <1>4 DEF Range
<1>6. Range(p) = {Head(p)} \cup Range(Tail(p))
  <2>1. \A x \in Range(p) : x \in {Head(p)} \cup Range(Tail(p))
    BY <1>2 DEF Range
  <2>2. \A x \in Range(Tail(p)) : x \in Range(p)
    BY <1>3 DEF Range
  <2> QED BY <1>5, <2>1, <2>2
<1> QED BY <1>1, <1>6

\* A script that fits is an effect whose needs are met, and a script after it.
LEMMA FitHeadTail ==
  ASSUME NEW need, NEW g, NEW p, Fit(need, g, {}, p), p # <<>>
  PROVE  /\ Ok(need, g, {}, Head(p)) /\ Fit(need, g, Makes(Head(p)), Tail(p))
<1> DEFINE e == Head(p)
           t == Tail(p)
<1>0. p \in Seq(Effects)
  BY DEF Fit
<1>1. /\ e \in Effects /\ t \in Seq(Effects) /\ Len(p) \in Nat \ {0} /\ Len(t) = Len(p) - 1
      /\ p[1] = e /\ (\A k \in 1 .. Len(p) - 1 : t[k] = p[k + 1])
      /\ Range(p) = {e} \cup Range(t)
  BY <1>0, HeadTail
<1>2. /\ \A f \in Range(p) : Proper(f)
      /\ \A k \in 1 .. Len(p) : \A x \in Needs(need, p[k]) :
            There(g, x) \/ \E j \in 1 .. k - 1 : x \in Makes(p[j])
  BY DEF Fit, ReadyAfter
<1> HIDE DEF e, t
<1>3. Ok(need, g, {}, e)
  <2>1. 1 \in 1 .. Len(p) /\ 1 .. 1 - 1 = {}
    BY <1>1
  <2>2. \A x \in Needs(need, e) : There(g, x)
    BY <1>1, <1>2, <2>1
  <2> QED BY <1>1, <1>2, <2>2 DEF Ok
<1>4. ASSUME NEW k \in 1 .. Len(t), NEW x \in Needs(need, t[k])
      PROVE  There(g, x) \/ x \in Makes(e) \/ \E j \in 1 .. k - 1 : x \in Makes(t[j])
  <2>1. k + 1 \in 1 .. Len(p) /\ t[k] = p[k + 1]
    BY <1>1
  <2>2. There(g, x) \/ \E j \in 1 .. (k + 1) - 1 : x \in Makes(p[j])
    BY <1>2, <1>4, <2>1
  <2>3. ASSUME NEW j \in 1 .. (k + 1) - 1, x \in Makes(p[j]), j # 1
        PROVE  \E i \in 1 .. k - 1 : x \in Makes(t[i])
    <3>1. j - 1 \in 1 .. k - 1 /\ j - 1 \in 1 .. Len(p) - 1 /\ (j - 1) + 1 = j
      BY <1>1, <2>3
    <3>2. t[j - 1] = p[j]
      BY <1>1, <3>1
    <3> QED BY <2>3, <3>1, <3>2
  <2> QED BY <1>1, <2>2, <2>3
<1>5. Fit(need, g, Makes(e), t)
  BY <1>1, <1>2, <1>4 DEF Fit, ReadyAfter
<1> QED BY <1>3, <1>5 DEF e, t

-----------------------------------------------------------------------------
\* A script while its effects are executed.

LEMMA FitGrown ==
  ASSUME NEW need, NEW g, NEW h, NEW made, NEW more, NEW s, Fit(need, g, made, s),
         \A x \in Items : There(g, x) \/ x \in made => There(h, x) \/ x \in more
  PROVE  Fit(need, h, more, s)
<1>1. s \in Seq(Effects) /\ \A e \in Range(s) : Proper(e)
  BY DEF Fit
<1>2. ASSUME NEW k \in 1 .. Len(s), NEW x \in Needs(need, s[k])
      PROVE  There(h, x) \/ x \in more \/ \E j \in 1 .. k - 1 : x \in Makes(s[j])
  <2>1. There(g, x) \/ x \in made \/ \E j \in 1 .. k - 1 : x \in Makes(s[j])
    BY <1>2 DEF Fit, ReadyAfter
  <2>2. x \in Items
    <3>1. s[k] \in Effects
      BY <1>1
    <3> QED BY <1>2, <3>1, NeedsAreItems
  <2> QED BY <2>1, <2>2
<1> QED BY <1>1, <1>2 DEF Fit, ReadyAfter

LEMMA SoundFits ==
  ASSUME NEW g, NEW p \in Seq(Effects)
  PROVE  Sound(g, p) <=> Fit("order", g, {}, p)
BY DEF Sound, Fit, Ready

LEMMA ReadyFits ==
  ASSUME NEW g, NEW p \in Seq(Effects), Sound(g, p)
  PROVE  Ready("all", g, p) <=> Fit("all", g, {}, p)
BY DEF Sound, Fit, Ready

LEMMA HeadFacts ==
  ASSUME NEW g, NEW p, Fit("order", g, {}, p), p # <<>>
  PROVE  /\ Head(p) \in Effects /\ Proper(Head(p))
         /\ \A x \in Needs("order", Head(p)) : There(g, x)
<1>1. Ok("order", g, {}, Head(p))
  BY FitHeadTail
<1> QED BY <1>1 DEF Ok

\* The effects that are executed in the place of the first one, and then the others,
\* are a script that fits the guest that comes next.
LEMMA ScriptStep ==
  ASSUME NEW need, NEW g \in [Items -> Values], GuestSound(g),
         NEW p, p # <<>>, Fit("order", g, {}, p), Fit(need, g, {}, p),
         ~Fails(g, Head(p)), NEW pw \in Nat
  PROVE  LET e == Head(p)
             h == Effect(g, e)
             q == Expanded(g, e, pw) \o Tail(p)
         IN /\ Fit(need, h, {}, q)
            /\ Range(q) = Range(Expanded(g, e, pw)) \cup Range(Tail(p))
            /\ Written(q) \subseteq Written(p)
            /\ \A x \in Items : There(g, x) \/ x \in Made(p) => There(h, x) \/ x \in Made(q)
<1> DEFINE e == Head(p)
           h == Effect(g, e)
           s == Expanded(g, e, pw)
           t == Tail(p)
<1>0. p \in Seq(Effects)
  BY DEF Fit
<1>1. /\ e \in Effects /\ Proper(e) /\ \A x \in Needs("order", e) : There(g, x)
  BY HeadFacts
<1>2. Ok(need, g, {}, e) /\ Fit(need, g, Makes(e), t)
  BY FitHeadTail
<1>3. Range(p) = {e} \cup Range(t)
  BY <1>0, HeadTail
<1>4. Grows(g, h)
  BY <1>1, GuestStep
<1>5. /\ Fit(need, h, {}, s)
      /\ \A f \in Range(s) : Writes(f) \subseteq Writes(e)
      /\ \A x \in Makes(e) : There(h, x) \/ \E f \in Range(s) : x \in Makes(f)
  <2>1. \A x \in Needs(need, e) : There(g, x)
    BY <1>2 DEF Ok
  <2> QED BY <1>1, <2>1, Expansion
<1> HIDE DEF e, h, s, t
<1>6. \A x \in Items : There(g, x) \/ x \in Makes(e) => There(h, x) \/ x \in Made(s)
  BY <1>4, <1>5 DEF Grows, Made
<1>7. Fit(need, h, Made(s), t)
  <2> DEFINE more == Made(s)
             made == Makes(e)
  <2>1. \A x \in Items : There(g, x) \/ x \in made => There(h, x) \/ x \in more
    BY <1>6
  <2>2. Fit(need, g, made, t)
    BY <1>2
  <2> HIDE DEF more, made
  <2>3. Fit(need, h, more, t)
    BY <2>1, <2>2, FitGrown
  <2> QED BY <2>3 DEF more
<1>8. Fit(need, h, {}, s \o t) /\ Joins(s \o t, s, t)
  <2>1. Made(s) \subseteq {} \cup Made(s)
    OBVIOUS
  <2> QED BY <1>5, <1>7, <2>1, FitConcat
<1>9. Written(s \o t) \subseteq Written(p)
  BY <1>3, <1>5, <1>8 DEF Joins, Written
<1>10. ASSUME NEW x \in Items, There(g, x) \/ x \in Made(p)
       PROVE  There(h, x) \/ x \in Made(s \o t)
  <2>1. x \in Made(p) => x \in Makes(e) \/ x \in Made(t)
    BY <1>3 DEF Made
  <2>2. Made(s \o t) = Made(s) \cup Made(t)
    BY <1>8 DEF Joins
  <2> QED BY <1>6, <1>10, <2>1, <2>2
<1> QED BY <1>8, <1>9, <1>10 DEF Joins, e, h, s, t

\* An item that is created is not there yet.
LEMMA ThenFresh ==
  ASSUME NEW g, NEW e \in Effects, e.do = "unless", Proper(e), GuestSound(g), ~There(g, e.item)
  PROVE  Fresh(g, e.then)
<1>0. e # Put(<<"legacy">>, Absent)
  BY DEF Put
<1>1. e.then \in Seq(Simples) /\ e.item \in Items
  BY EffectKinds
<1>2. /\ Len(e.then) <= 2 /\ Len(e.then) \in Nat /\ e.then # <<>>
      /\ e.item = e.then[1].item
  BY <1>0, <1>1 DEF Proper
<1>3. ASSUME NEW k \in 1 .. Len(e.then), e.then[k].do = "create"
      PROVE  /\ k <= 2 /\ ~There(g, e.then[k].item)
             /\ k = 2 => e.then[2].item # e.item
             /\ e.then[k].item[1] # "database"
  <2>1. k = 1 \/ k = 2
    BY <1>2
  <2>2. e.then[k].item[1] # "database"
    BY <1>0 DEF Proper
  <2>3. CASE k = 1
    BY <1>2, <2>2, <2>3
  <2>4. CASE k = 2
    <3> DEFINE x == e.then[2].item
    <3>1. Before(x) = {e.item} /\ x # e.item
      BY <1>0, <1>3, <2>4 DEF Proper
    <3>2. e.then[2] \in Simples
      BY <1>1, <1>3, <2>4
    <3>3. x \in Items
      BY <3>2 DEF Simples
    <3>4. ~There(g, x)
      <4>1. CASE x[1] = "world"
        <5>1. Before(x) = {<<"namespace", x[2]>>, <<"secrets", x[2]>>}
          BY <4>1 DEF Before
        <5>2. <<"namespace", x[2]>> # <<"secrets", x[2]>>
          OBVIOUS
        <5>3. <<"namespace", x[2]>> \in {e.item} /\ <<"secrets", x[2]>> \in {e.item}
          <6> HIDE DEF x
          <6> QED BY <3>1, <5>1, Zenon
        <5> HIDE DEF x
        <5> QED BY <5>2, <5>3, Zenon
      <4>2. CASE x[1] = "role_binding"
        <5>1. x[2] \in Range(Operators) /\ x = <<"role_binding", x[2]>>
          BY <3>3, <4>2, ItemOfName DEF OperatorItems, Rights
        <5>2. Before(x) = {<<"role", x[2]>>}
          BY <4>2 DEF Before
        <5>3. There(g, <<"role_binding", x[2]>>) => There(g, <<"role", x[2]>>)
          BY <5>1 DEF GuestSound, RightsSound
        <5>4. e.item = <<"role", x[2]>>
          BY <3>1, <5>2
        <5> HIDE DEF x
        <5> QED BY <5>1, <5>3, <5>4
      <4>3. CASE x[1] \notin {"world", "role_binding"}
        <5>1. Before(x) = {}
          BY <4>3 DEF Before
        <5> QED BY <3>1, <5>1
      <4> QED BY <4>1, <4>2, <4>3
    <3>5. x[1] # "database"
      BY <2>2, <2>4
    <3> QED BY <2>4, <3>1, <3>4, <3>5
  <2> QED BY <2>1, <2>2, <2>3, <2>4
<1>4. ASSUME NEW k \in 1 .. Len(e.then), e.then[k].do = "create", k = 2
      PROVE  e.then[1].do = "create"
  BY <1>0, <1>4 DEF Proper
<1> QED BY <1>2, <1>3, <1>4 DEF Fresh

LEMMA ConcatAt ==
  ASSUME NEW S, NEW s \in Seq(S), NEW t \in Seq(S), NEW k \in 1 .. Len(s \o t)
  PROVE  \/ k \in 1 .. Len(s) /\ (s \o t)[k] = s[k]
         \/ k > Len(s) /\ k - Len(s) \in 1 .. Len(t) /\ (s \o t)[k] = t[k - Len(s)]
OBVIOUS

\* A script whose created items are not there yet stays one.
LEMMA FreshStep ==
  ASSUME NEW g \in [Items -> Values], GuestSound(g),
         NEW p, p # <<>>, Fit("order", g, {}, p), ~Fails(g, Head(p)), Fresh(g, p), NEW pw \in Nat
  PROVE  Fresh(Effect(g, Head(p)), Expanded(g, Head(p), pw) \o Tail(p))
<1> DEFINE e == Head(p)
           h == Effect(g, e)
           s == Expanded(g, e, pw)
           t == Tail(p)
<1>0. p \in Seq(Effects)
  BY DEF Fit
<1>1. /\ e \in Effects /\ Proper(e) /\ \A x \in Needs("order", e) : There(g, x)
  BY HeadFacts
<1>2. /\ t \in Seq(Effects) /\ Len(p) \in Nat \ {0} /\ Len(t) = Len(p) - 1
      /\ p[1] = e /\ (\A k \in 1 .. Len(p) - 1 : t[k] = p[k + 1])
  BY <1>0, HeadTail
<1>3. /\ Fit("order", h, {}, s)
      /\ e.do = "branch" => \A f \in Range(s) : f.do # "create"
      /\ IsSimple(e) \/ e.do = "require" => s = <<>>
  BY <1>1, Expansion
<1>4. s \in Seq(Effects)
  BY <1>3 DEF Fit
<1>5. ASSUME NEW k \in 1 .. Len(t), t[k].do = "create"
      PROVE  /\ k = 1 /\ e.do = "create" /\ t[1].item # e.item /\ ~There(g, t[1].item)
                /\ t[1] \in Effects
             /\ t[1].item[1] # "database"
  <2>1. k + 1 \in 1 .. Len(p) /\ p[k + 1].do = "create"
    BY <1>2, <1>5
  <2>2. k + 1 <= 2 /\ ~There(g, p[k + 1].item) /\ p[k + 1].item[1] # "database"
        /\ (k + 1 = 2 => p[1].do = "create" /\ p[1].item # p[2].item)
    BY <2>1 DEF Fresh
  <2>3. k = 1
    BY <2>2
  <2>4. t[1] = p[2] /\ t[1] \in Effects
    BY <1>2, <1>5, <2>3
  <2> QED BY <1>2, <2>2, <2>3, <2>4
<1>6. CASE e.do = "create"
  <2>1. s = <<>>
    BY <1>3, <1>6 DEF IsSimple
  <2>2. s \o t = t
    <3>1. \A r \in Seq(Effects) : <<>> \o r = r
      OBVIOUS
    <3> HIDE DEF s, t
    <3> QED BY <1>2, <2>1, <3>1
  <2>3. \A x \in Items \ {e.item} : h[x] = g[x]
    BY <1>1, <1>6, EffectOnGuest DEF IsSimple
  <2>4. ASSUME NEW k \in 1 .. Len(t), t[k].do = "create"
        PROVE  k = 1 /\ ~There(h, t[1].item) /\ t[1].item[1] # "database"
    <3>1. /\ k = 1 /\ t[1].item # e.item /\ ~There(g, t[1].item) /\ t[1] \in Effects
             /\ t[1].do = "create"
          /\ t[1].item[1] # "database"
      BY <1>5, <2>4
    <3>2. t[1].item \in Items
      BY <3>1, EffectKinds
    <3> HIDE DEF h, t, e
    <3> QED BY <2>3, <3>1, <3>2 DEF There
  <2>5. Fresh(h, t)
    <3> HIDE DEF h, t, e
    <3> QED BY <2>4 DEF Fresh
  <2> QED BY <2>2, <2>5
<1>7. CASE e.do # "create"
  <2>1. \A k \in 1 .. Len(t) : t[k].do # "create"
    BY <1>5, <1>7
  <2>2. CASE \A f \in Range(s) : f.do # "create"
    <3>1. \A k \in 1 .. Len(s) : s[k].do # "create"
      BY <2>2 DEF Range
    <3> HIDE DEF s, t, h
    <3>2. \A k \in 1 .. Len(s \o t) : (s \o t)[k].do # "create"
      BY <1>2, <1>4, <2>1, <3>1, ConcatAt
    <3>3. Fresh(h, s \o t)
      BY <3>2 DEF Fresh
    <3> QED BY <3>3 DEF s, t, h
  <2>3. CASE e.do = "unless" /\ ~There(g, e.item)
    <3>1. s = e.then /\ h = g
      BY <2>3 DEF Expanded, Effect
    <3>2. Fresh(g, e.then)
      BY <1>1, <2>3, ThenFresh
    <3>3. Fresh(h, s)
      BY <3>1, <3>2
    <3> HIDE DEF s, t, h, e
    <3>4. ASSUME NEW k \in 1 .. Len(s \o t), (s \o t)[k].do = "create"
          PROVE  k \in 1 .. Len(s) /\ (s \o t)[k] = s[k]
      BY <1>2, <1>4, <2>1, <3>4, ConcatAt
    <3>5. \A k \in 1 .. Len(s) : (s \o t)[k] = s[k]
      BY <1>2, <1>4
    <3>6. ASSUME NEW k \in 1 .. Len(s \o t), (s \o t)[k].do = "create"
          PROVE  /\ k <= 2 /\ ~There(h, (s \o t)[k].item) /\ (s \o t)[k].item[1] # "database"
                 /\ k = 2 => (s \o t)[1].do = "create" /\ (s \o t)[1].item # (s \o t)[2].item
      <4>1. k \in 1 .. Len(s) /\ (s \o t)[k] = s[k] /\ s[k].do = "create"
        BY <3>4, <3>6
      <4>2. /\ k <= 2 /\ ~There(h, s[k].item) /\ s[k].item[1] # "database"
            /\ k = 2 => s[1].do = "create" /\ s[1].item # s[2].item
        BY <3>3, <4>1 DEF Fresh
      <4>3. Len(s) \in Nat
        BY <1>4
      <4>4. 1 \in 1 .. Len(s)
        BY <4>1, <4>3
      <4>5. (s \o t)[1] = s[1]
        BY <3>5, <4>4
      <4> QED BY <4>1, <4>2, <4>5
    <3>7. Fresh(h, s \o t)
      BY <3>6 DEF Fresh
    <3> QED BY <3>7 DEF s, t, h, e
  <2>4. \/ \A f \in Range(s) : f.do # "create"
        \/ e.do = "unless" /\ ~There(g, e.item)
    <3>1. Range(<<>>) = {}
      BY RangeOfTuple
    <3>2. e.do = "unless" /\ There(g, e.item) => s = <<>>
      BY DEF Expanded
    <3> HIDE DEF s, e
    <3> QED BY <1>1, <1>3, <3>1, <3>2, EffectKinds DEF IsSimple
  <2> QED BY <2>2, <2>3, <2>4
<1> QED BY <1>6, <1>7

\* No effect of a script fails whose needs are met and whose items are not there.
LEMMA NothingFails ==
  ASSUME NEW g, NEW p, p # <<>>, Fit("all", g, {}, p), Fresh(g, p)
  PROVE  ~Fails(g, Head(p))
<1> DEFINE e == Head(p)
<1>0. p \in Seq(Effects)
  BY DEF Fit
<1>1. e \in Effects /\ p[1] = e /\ Len(p) \in Nat \ {0}
  BY <1>0, HeadTail
<1>2. Ok("all", g, {}, e)
  BY FitHeadTail
<1>3. \A x \in Needs("all", e) : There(g, x)
  BY <1>2 DEF Ok
<1>4. CASE e.do = "require"
  <2>1. Needs("all", e) = {e.item}
    BY <1>4 DEF Needs, IsSimple
  <2> QED BY <1>3, <1>4, <2>1 DEF Fails
<1>5. CASE e.do = "copy"
  <2>1. e.from \in Needs("all", e)
    BY <1>5 DEF Needs
  <2> QED BY <1>3, <1>5, <2>1 DEF Fails
<1>6. CASE e.do = "create"
  <2>1. 1 \in 1 .. Len(p) /\ p[1].do = "create"
    BY <1>1, <1>6
  <2>2. ~There(g, e.item)
    BY <1>1, <2>1 DEF Fresh
  <2> QED BY <1>6, <2>2 DEF Fails
<1>7. CASE e.do \notin {"require", "copy", "create"}
  BY <1>7 DEF Fails
<1> QED BY <1>4, <1>5, <1>6, <1>7

LEMMA OthersGoOn ==
  ASSUME NEW g, NEW h, Grows(g, h), NEW p \in Seq(Effects), Sound(g, p)
  PROVE  Sound(h, p) /\ (Ready("all", g, p) => Ready("all", h, p))
<1>1. Fit("order", g, {}, p)
  BY SoundFits
<1>2. \A x \in Items : There(g, x) \/ x \in {} => There(h, x) \/ x \in {}
  BY DEF Grows
<1>3. ASSUME NEW need, Fit(need, g, {}, p) PROVE Fit(need, h, {}, p)
  BY <1>2, <1>3, FitGrown
<1>4. Sound(h, p)
  BY <1>1, <1>3, SoundFits
<1> QED BY <1>3, <1>4, ReadyFits

\* All that a script keeps while its effects are executed.
LEMMA Executes ==
  ASSUME NEW g \in [Items -> Values], GuestSound(g), NEW p \in Seq(Effects), p # <<>>,
         Sound(g, p), ~Fails(g, Head(p)), NEW pw \in Nat
  PROVE  LET h == Effect(g, Head(p))
             q == Expanded(g, Head(p), pw) \o Tail(p)
         IN /\ h \in [Items -> Values] /\ Grows(g, h) /\ KeepsFixed(g, h) /\ GuestSound(h)
            /\ q \in Seq(Effects) /\ Sound(h, q)
            /\ Range(q) = Range(Expanded(g, Head(p), pw)) \cup Range(Tail(p))
            /\ Written(q) \subseteq Written(p)
            /\ \A x \in Items : There(g, x) \/ x \in Made(p) => There(h, x) \/ x \in Made(q)
            /\ Ready("all", g, p) => Ready("all", h, q)
            /\ Fresh(g, p) => Fresh(h, q)
<1> DEFINE h == Effect(g, Head(p))
           q == Expanded(g, Head(p), pw) \o Tail(p)
<1>1. Fit("order", g, {}, p)
  BY SoundFits
<1>2. Head(p) \in Effects /\ Proper(Head(p)) /\ \A x \in Needs("order", Head(p)) : There(g, x)
  BY <1>1, HeadFacts
<1>3. h \in [Items -> Values] /\ Grows(g, h) /\ KeepsFixed(g, h) /\ GuestSound(h)
  BY <1>2, GuestStep
<1>4. ASSUME NEW need, Fit(need, g, {}, p)
      PROVE  /\ Fit(need, h, {}, q)
             /\ Range(q) = Range(Expanded(g, Head(p), pw)) \cup Range(Tail(p))
             /\ Written(q) \subseteq Written(p)
             /\ \A x \in Items : There(g, x) \/ x \in Made(p) => There(h, x) \/ x \in Made(q)
  BY <1>1, <1>4, ScriptStep
<1>5. q \in Seq(Effects)
  BY <1>1, <1>4 DEF Fit
<1>6. Fresh(g, p) => Fresh(h, q)
  BY <1>1, FreshStep
<1> HIDE DEF h, q
<1>7. Sound(h, q)
  BY <1>1, <1>4, <1>5, SoundFits
<1>8. Ready("all", g, p) => Ready("all", h, q)
  BY <1>4, <1>5, <1>7, ReadyFits
<1> QED BY <1>1, <1>3, <1>4, <1>5, <1>6, <1>7, <1>8 DEF h, q

-----------------------------------------------------------------------------
\* The scripts of the steps.

\* What a script of a step is known to do.
Suits(s, w, p) ==
    /\ \A f \in Range(p) : f.do # "create"
    /\ Promised(s, w) \subseteq Made(p)
    /\ Written(p) \cap Watched(w) \subseteq MayWrite(s, w)

LEMMA Does ==
  ASSUME NEW x, NEW y, NEW v
  PROVE  /\ Put(x, v).do = "put" /\ Writes(Put(x, v)) = {x}
         /\ x # <<"legacy">> => Makes(Put(x, v)) = {x}
         /\ Copy(y, x).do = "copy" /\ Writes(Copy(y, x)) = {x} /\ Makes(Copy(y, x)) = {x, y}
         /\ Require(x).do = "require" /\ Writes(Require(x)) = {} /\ Makes(Require(x)) = {x}
<1>1. Makes(Put(x, v)) = {x} \ {<<"legacy">>}
  BY AttributesOfSimple
<1>2. x # <<"legacy">> => Makes(Put(x, v)) = {x}
  BY <1>1
<1>3. /\ Writes(Put(x, v)) = {x}
      /\ Writes(Copy(y, x)) = {x} /\ Makes(Copy(y, x)) = {x, y}
      /\ Writes(Require(x)) = {} /\ Makes(Require(x)) = {x}
  BY AttributesOfSimple
<1>4. Put(x, v).do = "put" /\ Copy(y, x).do = "copy" /\ Require(x).do = "require"
  BY DEF Put, Copy, Require
<1> QED BY <1>2, <1>3, <1>4

LEMMA DoesUnless ==
  ASSUME NEW x
  PROVE  /\ Unless(x, <<Create(x)>>).do = "unless" /\ Makes(Unless(x, <<Create(x)>>)) = {x}
         /\ Writes(Unless(x, <<Create(x)>>)) = {x}
         /\ \A v : /\ Unless(x, <<Put(x, v)>>).do = "unless"
                      /\ Makes(Unless(x, <<Put(x, v)>>)) = {x}
                   /\ Writes(Unless(x, <<Put(x, v)>>)) = {x}
<1>1. ASSUME NEW t, t.item = x
      PROVE  /\ Unless(x, <<t>>).do = "unless" /\ Makes(Unless(x, <<t>>)) = {x}
             /\ Writes(Unless(x, <<t>>)) = {x}
  <2> DEFINE s == <<t>>
  <2>1. Range(s) = {t}
    BY RangeOfTuple
  <2> HIDE DEF s
  <2>2. Makes(Unless(x, s)) = {x} /\ Writes(Unless(x, s)) = {u.item : u \in Range(s)}
    BY AttributesOfUnless
  <2>3. Unless(x, s).do = "unless"
    BY DEF Unless
  <2>4. Writes(Unless(x, s)) = {x}
    BY <1>1, <2>1, <2>2
  <2> QED BY <2>2, <2>3, <2>4 DEF s
<1>2. Create(x).item = x /\ \A v : Put(x, v).item = x
  BY DEF Create, Put
<1> QED BY <1>1, <1>2

LEMMA True == TRUE \in Values /\ TRUE # Absent
BY Present DEF Values

\* The items of the host.
LEMMA HostNamed ==
  /\ \A i \in {"payload", "user", "steamcmd", "disk", "k3s", "running", "enabled", "core_images",
               "cert-manager", "core", "operator_images", "crds", "helper", "world_images",
               "address", "swap_file", "formatted", "fstab", "swap", "kubelet"} :
        Plain(<<i>>) /\ <<i>> \in Items
  /\ <<"release">> \in Items
<1>1. \A i \in {"payload", "user", "steamcmd", "disk", "k3s", "running", "enabled", "core_images",
               "cert-manager", "core", "operator_images", "crds", "helper", "world_images",
               "address", "swap_file", "formatted", "fstab", "swap", "kubelet"} :
         i \in HostItems \ {"os", "release", "legacy"}
  BY DEF HostItems
<1>2. "release" \in HostItems
  BY DEF HostItems
<1> QED BY <1>1, <1>2, PlainItems, ItemsAre

LEMMA OneEffect ==
  ASSUME NEW need, NEW g, NEW e, Ok(need, g, {}, e)
  PROVE  /\ Fit(need, g, {}, <<e>>) /\ Range(<<e>>) = {e}
         /\ Made(<<e>>) = Makes(e) /\ Written(<<e>>) = Writes(e)
<1>1. Fit(need, g, {}, <<e>>) /\ Range(<<e>>) = {e}
  BY FitOne, RangeOfTuple
<1> QED BY <1>1 DEF Made, Written

LEMMA TwoEffects ==
  ASSUME NEW need, NEW g, NEW a, NEW b, Ok(need, g, {}, a), Ok(need, g, {}, b)
  PROVE  /\ Fit(need, g, {}, <<a, b>>) /\ Range(<<a, b>>) = {a, b}
         /\ Made(<<a, b>>) = Makes(a) \cup Makes(b) /\ Written(<<a, b>>) = Writes(a) \cup Writes(b)
<1>1. {} \subseteq {} \cup Makes(a)
  OBVIOUS
<1>2. Fit(need, g, {}, <<a, b>>) /\ Range(<<a, b>>) = {a, b}
  BY <1>1, FitTwo, RangeOfTuple
<1> QED BY <1>2 DEF Made, Written

LEMMA ThreeEffects ==
  ASSUME NEW need, NEW g, NEW a, NEW b, NEW c,
         Ok(need, g, {}, a), Ok(need, g, {}, b), Ok(need, g, {}, c)
  PROVE  /\ Fit(need, g, {}, <<a, b, c>>) /\ Range(<<a, b, c>>) = {a, b, c}
         /\ Made(<<a, b, c>>) = Makes(a) \cup Makes(b) \cup Makes(c)
         /\ Written(<<a, b, c>>) = Writes(a) \cup Writes(b) \cup Writes(c)
<1>1. {} \subseteq {} \cup Makes(a) /\ {} \subseteq {} \cup Makes(a) \cup Makes(b)
  OBVIOUS
<1>2. Fit(need, g, {}, <<a, b, c>>) /\ Range(<<a, b, c>>) = {a, b, c}
  BY <1>1, FitThree, RangeOfTuple
<1> QED BY <1>2 DEF Made, Written

LEMMA DiskFits ==
  ASSUME NEW need, NEW g, NEW w
  PROVE  Fit(need, g, {}, DiskScript) /\ Suits("root_disk", w, DiskScript)
<1> DEFINE e == Put(<<"disk">>, TRUE)
<1>1. Ok(need, g, {}, e)
  BY True, HostNamed, OkPut
<1>2. e.do = "put" /\ Writes(e) = {<<"disk">>} /\ Makes(e) = {<<"disk">>}
  BY Does
<1> HIDE DEF e
<1>3. /\ Fit(need, g, {}, <<e>>) /\ Range(<<e>>) = {e}
      /\ Made(<<e>>) = Makes(e) /\ Written(<<e>>) = Writes(e)
  BY <1>1, OneEffect
<1>4. Suits("root_disk", w, <<e>>)
  BY <1>2, <1>3 DEF Suits, Promised, Watched, MayWrite
<1> QED BY <1>3, <1>4 DEF DiskScript, e

LEMMA DownloadFits ==
  ASSUME NEW need, NEW g, NEW w, need = "all" => There(g, <<"release">>)
  PROVE  Fit(need, g, {}, DownloadScript) /\ Suits("download", w, DownloadScript)
<1> DEFINE e == Copy(<<"release">>, <<"payload">>)
<1>1. Ok(need, g, {}, e)
  BY HostNamed, OkPlainCopy
<1>2. e.do = "copy" /\ Writes(e) = {<<"payload">>} /\ Makes(e) = {<<"payload">>, <<"release">>}
  BY Does
<1> HIDE DEF e
<1>3. /\ Fit(need, g, {}, <<e>>) /\ Range(<<e>>) = {e}
      /\ Made(<<e>>) = Makes(e) /\ Written(<<e>>) = Writes(e)
  BY <1>1, OneEffect
<1>4. Suits("download", w, <<e>>)
  BY <1>2, <1>3 DEF Suits, Promised, Watched, MayWrite
<1> QED BY <1>3, <1>4 DEF DownloadScript, e

LEMMA StartK3sFits ==
  ASSUME NEW need, NEW g, NEW w, need = "all" => There(g, <<"k3s">>)
  PROVE  Fit(need, g, {}, StartK3sScript) /\ Suits("start_k3s", w, StartK3sScript)
<1> DEFINE a == Require(<<"k3s">>)
           b == Put(<<"running">>, TRUE)
           c == Put(<<"enabled">>, TRUE)
<1>1. Ok(need, g, {}, a)
  BY HostNamed, OkRequire
<1>2. Ok(need, g, {}, b) /\ Ok(need, g, {}, c)
  BY True, HostNamed, OkPut
<1>3. /\ a.do = "require" /\ Writes(a) = {} /\ Makes(a) = {<<"k3s">>}
      /\ b.do = "put" /\ Writes(b) = {<<"running">>} /\ Makes(b) = {<<"running">>}
      /\ c.do = "put" /\ Writes(c) = {<<"enabled">>} /\ Makes(c) = {<<"enabled">>}
  BY Does
<1> HIDE DEF a, b, c
<1>4. /\ Fit(need, g, {}, <<a, b, c>>) /\ Range(<<a, b, c>>) = {a, b, c}
      /\ Made(<<a, b, c>>) = Makes(a) \cup Makes(b) \cup Makes(c)
      /\ Written(<<a, b, c>>) = Writes(a) \cup Writes(b) \cup Writes(c)
  BY <1>1, <1>2, ThreeEffects
<1>5. Suits("start_k3s", w, <<a, b, c>>)
  BY <1>3, <1>4 DEF Suits, Promised, Watched, MayWrite
<1> QED BY <1>4, <1>5 DEF StartK3sScript, a, b, c

LEMMA CoreImagesFit ==
  ASSUME NEW need, NEW g, NEW w,
         need = "all" => There(g, <<"payload">>)
  PROVE  Fit(need, g, {}, ImportCoreImagesScript) /\ Suits("core_images", w, ImportCoreImagesScript)
<1> DEFINE a == Copy(<<"payload">>, <<"core_images">>)
<1>1. Ok(need, g, {}, a)
  BY HostNamed, OkPlainCopy
<1>2. a.do = "copy" /\ Writes(a) = {<<"core_images">>}
          /\ Makes(a) = {<<"core_images">>, <<"payload">>}
  BY Does
<1> HIDE DEF a
<1>3. /\ Fit(need, g, {}, <<a>>) /\ Range(<<a>>) = {a}
      /\ Made(<<a>>) = Makes(a)
      /\ Written(<<a>>) = Writes(a)
  BY <1>1, OneEffect
<1>4. Suits("core_images", w, <<a>>)
  BY <1>2, <1>3 DEF Suits, Promised, Watched, MayWrite
<1> QED BY <1>3, <1>4 DEF ImportCoreImagesScript, a

LEMMA ScaleCoreFits ==
  ASSUME NEW need, NEW g, NEW w,
         need = "all" => There(g, <<"running">>) /\ There(g, <<"cert-manager">>)
  PROVE  Fit(need, g, {}, ScaleCoreScript) /\ Suits("scale_core", w, ScaleCoreScript)
<1> DEFINE a == Require(<<"running">>)
           b == Require(<<"cert-manager">>)
           c == Put(<<"core">>, TRUE)
<1>1. Ok(need, g, {}, a)
  BY HostNamed, OkRequire
<1>2. Ok(need, g, {}, b)
  BY HostNamed, OkRequire
<1>3. Ok(need, g, {}, c)
  BY True, HostNamed, OkPut
<1>4. a.do = "require" /\ Writes(a) = {} /\ Makes(a) = {<<"running">>}
  BY Does
<1>5. b.do = "require" /\ Writes(b) = {} /\ Makes(b) = {<<"cert-manager">>}
  BY Does
<1>6. c.do = "put" /\ Writes(c) = {<<"core">>} /\ Makes(c) = {<<"core">>}
  BY Does
<1> HIDE DEF a, b, c
<1>7. /\ Fit(need, g, {}, <<a, b, c>>) /\ Range(<<a, b, c>>) = {a, b, c}
      /\ Made(<<a, b, c>>) = Makes(a) \cup Makes(b) \cup Makes(c)
      /\ Written(<<a, b, c>>) = Writes(a) \cup Writes(b) \cup Writes(c)
  BY <1>1, <1>2, <1>3, ThreeEffects
<1>8. Suits("scale_core", w, <<a, b, c>>)
  BY <1>4, <1>5, <1>6, <1>7 DEF Suits, Promised, Watched, MayWrite
<1> QED BY <1>7, <1>8 DEF ScaleCoreScript, a, b, c

LEMMA UpdateCrdsFit ==
  ASSUME NEW need, NEW g, NEW w,
         need = "all" => There(g, <<"running">>)
  PROVE  Fit(need, g, {}, UpdateOperatorCrdsScript)
         /\ Suits("update_crds", w, UpdateOperatorCrdsScript)
<1> DEFINE a == Require(<<"running">>)
           b == Branch("crds")
<1>1. Ok(need, g, {}, a)
  BY HostNamed, OkRequire
<1>2. Ok(need, g, {}, b)
  BY OkBranch
<1>3. a.do = "require" /\ Writes(a) = {} /\ Makes(a) = {<<"running">>}
  BY Does
<1>4. b.do = "branch" /\ Writes(b) = {<<"crds">>} /\ Makes(b) = {}
  <2>1. b.do = "branch"
    BY DEF Branch
  <2> QED BY <2>1, AttributesOfBranch
<1> HIDE DEF a, b
<1>5. /\ Fit(need, g, {}, <<a, b>>) /\ Range(<<a, b>>) = {a, b}
      /\ Made(<<a, b>>) = Makes(a) \cup Makes(b)
      /\ Written(<<a, b>>) = Writes(a) \cup Writes(b)
  BY <1>1, <1>2, TwoEffects
<1>6. Suits("update_crds", w, <<a, b>>)
  BY <1>3, <1>4, <1>5 DEF Suits, Promised, Watched, MayWrite
<1> QED BY <1>5, <1>6 DEF UpdateOperatorCrdsScript, a, b

LEMMA PatchOperatorsFit ==
  ASSUME NEW need, NEW g, NEW w,
         need = "all" => There(g, <<"running">>)
            /\ \A o \in Range(Operators) : There(g, <<"operator", o>>)
  PROVE  Fit(need, g, {}, PatchOperatorImagesScript)
         /\ Suits("operator_images", w, PatchOperatorImagesScript)
<1> DEFINE a == Require(<<"running">>)
           b == Branch("operators")
<1>1. Ok(need, g, {}, a)
  BY HostNamed, OkRequire
<1>2. Ok(need, g, {}, b)
  BY OkBranch
<1>3. a.do = "require" /\ Writes(a) = {} /\ Makes(a) = {<<"running">>}
  BY Does
<1>4. b.do = "branch" /\ Writes(b) = {<<"operator_images">>}
          \cup {<<"operator", o>> : o \in Range(Operators)} /\ Makes(b) = {}
  <2>1. b.do = "branch"
    BY DEF Branch
  <2> QED BY <2>1, AttributesOfBranch
<1> HIDE DEF a, b
<1>5. /\ Fit(need, g, {}, <<a, b>>) /\ Range(<<a, b>>) = {a, b}
      /\ Made(<<a, b>>) = Makes(a) \cup Makes(b)
      /\ Written(<<a, b>>) = Writes(a) \cup Writes(b)
  BY <1>1, <1>2, TwoEffects
<1>6. Suits("operator_images", w, <<a, b>>)
  BY <1>3, <1>4, <1>5 DEF Suits, Promised, Watched, MayWrite
<1> QED BY <1>5, <1>6 DEF PatchOperatorImagesScript, a, b

LEMMA HelperFits ==
  ASSUME NEW need, NEW g, NEW w,
         need = "all" => There(g, <<"payload">>)
  PROVE  Fit(need, g, {}, InstallHelperScript) /\ Suits("helper", w, InstallHelperScript)
<1> DEFINE a == Require(<<"payload">>)
           b == Put(<<"helper">>, TRUE)
<1>1. Ok(need, g, {}, a)
  BY HostNamed, OkRequire
<1>2. Ok(need, g, {}, b)
  BY True, HostNamed, OkPut
<1>3. a.do = "require" /\ Writes(a) = {} /\ Makes(a) = {<<"payload">>}
  BY Does
<1>4. b.do = "put" /\ Writes(b) = {<<"helper">>} /\ Makes(b) = {<<"helper">>}
  BY Does
<1> HIDE DEF a, b
<1>5. /\ Fit(need, g, {}, <<a, b>>) /\ Range(<<a, b>>) = {a, b}
      /\ Made(<<a, b>>) = Makes(a) \cup Makes(b)
      /\ Written(<<a, b>>) = Writes(a) \cup Writes(b)
  BY <1>1, <1>2, TwoEffects
<1>6. Suits("helper", w, <<a, b>>)
  BY <1>3, <1>4, <1>5 DEF Suits, Promised, Watched, MayWrite
<1> QED BY <1>5, <1>6 DEF InstallHelperScript, a, b

LEMMA CreateWorldFits ==
  ASSUME NEW need, NEW g, NEW w \in Worlds,
         need = "all" => There(g, <<"running">>) /\ There(g, <<"payload">>)
            /\ \A o \in Range(Operators) : There(g, <<"scaled", o>>)
  PROVE  Fit(need, g, {}, CreateWorldScript(w)) /\ Suits("create_world", w, CreateWorldScript(w))
<1> DEFINE a == Require(<<"running">>)
           b == BranchFor("world", w)
<1>1. Ok(need, g, {}, a)
  BY HostNamed, OkRequire
<1>2. Ok(need, g, {}, b)
  BY OkBranchFor
<1>3. a.do = "require" /\ Writes(a) = {} /\ Makes(a) = {<<"running">>}
  BY Does
<1>4. b.do = "branch"
          /\ Writes(b) = {<<i, w>> : i \in {"manifest", "namespace", "secrets", "world", "title"}}
             /\ Makes(b) = {<<i, w>> : i \in {"namespace", "secrets", "world", "title"}}
  <2>1. b.do = "branch"
    BY DEF BranchFor
  <2> QED BY <2>1, AttributesOfBranch
<1> HIDE DEF a, b
<1>5. /\ Fit(need, g, {}, <<a, b>>) /\ Range(<<a, b>>) = {a, b}
      /\ Made(<<a, b>>) = Makes(a) \cup Makes(b)
      /\ Written(<<a, b>>) = Writes(a) \cup Writes(b)
  BY <1>1, <1>2, TwoEffects
<1>6. Suits("create_world", w, <<a, b>>)
  BY <1>3, <1>4, <1>5 DEF Suits, Promised, Watched, MayWrite
<1> QED BY <1>5, <1>6 DEF CreateWorldScript, a, b

LEMMA WorldImagesFit ==
  ASSUME NEW need, NEW g, NEW w,
         need = "all" => There(g, <<"payload">>)
  PROVE  Fit(need, g, {}, ImportBattlegroupImagesScript)
         /\ Suits("world_images", w, ImportBattlegroupImagesScript)
<1> DEFINE a == Copy(<<"payload">>, <<"world_images">>)
<1>1. Ok(need, g, {}, a)
  BY HostNamed, OkPlainCopy
<1>2. a.do = "copy" /\ Writes(a) = {<<"world_images">>}
          /\ Makes(a) = {<<"world_images">>, <<"payload">>}
  BY Does
<1> HIDE DEF a
<1>3. /\ Fit(need, g, {}, <<a>>) /\ Range(<<a>>) = {a}
      /\ Made(<<a>>) = Makes(a)
      /\ Written(<<a>>) = Writes(a)
  BY <1>1, OneEffect
<1>4. Suits("world_images", w, <<a>>)
  BY <1>2, <1>3 DEF Suits, Promised, Watched, MayWrite
<1> QED BY <1>3, <1>4 DEF ImportBattlegroupImagesScript, a

LEMMA SyncFits ==
  ASSUME NEW need, NEW g, NEW w \in Worlds
  PROVE  Fit(need, g, {}, SyncScript(w)) /\ Suits("sync", w, SyncScript(w))
<1> DEFINE a == BranchFor("sync", w)
<1>1. Ok(need, g, {}, a)
  BY OkBranchFor
<1>2. a.do = "branch" /\ Writes(a) = {<<"database", w>>} /\ Makes(a) = {}
  <2>1. a.do = "branch"
    BY DEF BranchFor
  <2> QED BY <2>1, AttributesOfBranch
<1> HIDE DEF a
<1>3. /\ Fit(need, g, {}, <<a>>) /\ Range(<<a>>) = {a}
      /\ Made(<<a>>) = Makes(a)
      /\ Written(<<a>>) = Writes(a)
  BY <1>1, OneEffect
<1>4. Suits("sync", w, <<a>>)
  BY <1>2, <1>3 DEF Suits, Promised, Watched, MayWrite
<1> QED BY <1>3, <1>4 DEF SyncScript, a

LEMMA PatchImagesFit ==
  ASSUME NEW need, NEW g, NEW w \in Worlds, NEW v \in Values, v # Absent,
         need = "all" => There(g, <<"world", w>>)
  PROVE  Fit(need, g, {}, PatchImages(w, v)) /\ Suits("patch_images", w, PatchImages(w, v))
<1> DEFINE a == Require(<<"world", w>>)
           b == Put(<<"revision", w>>, v)
<1>1. Ok(need, g, {}, a)
  BY WorldNamed, OkRequire
<1>2. Ok(need, g, {}, b)
  BY WorldNamed, OkPut
<1>3. a.do = "require" /\ Writes(a) = {} /\ Makes(a) = {<<"world", w>>}
  BY Does
<1>4. b.do = "put" /\ Writes(b) = {<<"revision", w>>} /\ Makes(b) = {<<"revision", w>>}
  BY Does
<1> HIDE DEF a, b
<1>5. /\ Fit(need, g, {}, <<a, b>>) /\ Range(<<a, b>>) = {a, b}
      /\ Made(<<a, b>>) = Makes(a) \cup Makes(b)
      /\ Written(<<a, b>>) = Writes(a) \cup Writes(b)
  BY <1>1, <1>2, TwoEffects
<1>6. Suits("patch_images", w, <<a, b>>)
  BY <1>3, <1>4, <1>5 DEF Suits, Promised, Watched, MayWrite
<1> QED BY <1>5, <1>6 DEF PatchImages, a, b

LEMMA DefaultSettingsFit ==
  ASSUME NEW need, NEW g, NEW w \in Worlds,
         need = "all" => There(g, <<"payload">>) /\ There(g, <<"world", w>>)
  PROVE  Fit(need, g, {}, DefaultSettingsScript(w))
         /\ Suits("defaults", w, DefaultSettingsScript(w))
<1> DEFINE a == Require(<<"payload">>)
           b == Require(<<"world", w>>)
           c == Put(<<"settings", w>>, TRUE)
<1>1. Ok(need, g, {}, a)
  BY HostNamed, OkRequire
<1>2. Ok(need, g, {}, b)
  BY WorldNamed, OkRequire
<1>3. Ok(need, g, {}, c)
  BY True, WorldNamed, OkPut
<1>4. a.do = "require" /\ Writes(a) = {} /\ Makes(a) = {<<"payload">>}
  BY Does
<1>5. b.do = "require" /\ Writes(b) = {} /\ Makes(b) = {<<"world", w>>}
  BY Does
<1>6. c.do = "put" /\ Writes(c) = {<<"settings", w>>} /\ Makes(c) = {<<"settings", w>>}
  BY Does
<1> HIDE DEF a, b, c
<1>7. /\ Fit(need, g, {}, <<a, b, c>>) /\ Range(<<a, b, c>>) = {a, b, c}
      /\ Made(<<a, b, c>>) = Makes(a) \cup Makes(b) \cup Makes(c)
      /\ Written(<<a, b, c>>) = Writes(a) \cup Writes(b) \cup Writes(c)
  BY <1>1, <1>2, <1>3, ThreeEffects
<1>8. Suits("defaults", w, <<a, b, c>>)
  BY <1>4, <1>5, <1>6, <1>7 DEF Suits, Promised, Watched, MayWrite
<1> QED BY <1>7, <1>8 DEF DefaultSettingsScript, a, b, c

LEMMA PlayerSettingsFit ==
  ASSUME NEW need, NEW g, NEW w
  PROVE  Fit(need, g, {}, PlayerSettingsScript) /\ Suits("player_settings", w, PlayerSettingsScript)
<1> DEFINE a == Put(<<"address">>, TRUE)
<1>1. Ok(need, g, {}, a)
  BY True, HostNamed, OkPut
<1>2. a.do = "put" /\ Writes(a) = {<<"address">>} /\ Makes(a) = {<<"address">>}
  BY Does
<1> HIDE DEF a
<1>3. /\ Fit(need, g, {}, <<a>>) /\ Range(<<a>>) = {a}
      /\ Made(<<a>>) = Makes(a)
      /\ Written(<<a>>) = Writes(a)
  BY <1>1, OneEffect
<1>4. Suits("player_settings", w, <<a>>)
  BY <1>2, <1>3 DEF Suits, Promised, Watched, MayWrite
<1> QED BY <1>3, <1>4 DEF PlayerSettingsScript, a

LEMMA PrepareHostFits ==
  ASSUME NEW need, NEW g, NEW w
  PROVE  Fit(need, g, {}, PrepareHostScript) /\ Suits("prepare_host", w, PrepareHostScript)
<1> DEFINE a == Unless(<<"user">>, <<Create(<<"user">>)>>)
           b == Unless(<<"steamcmd">>, <<Put(<<"steamcmd">>, TRUE)>>)
<1>1. Ok(need, g, {}, a)
  BY HostNamed, OkUnlessOne
<1>2. Ok(need, g, {}, b)
  BY HostNamed, OkUnlessOne, True
<1>3. a.do = "unless" /\ Writes(a) = {<<"user">>} /\ Makes(a) = {<<"user">>}
  BY DoesUnless
<1>4. b.do = "unless" /\ Writes(b) = {<<"steamcmd">>} /\ Makes(b) = {<<"steamcmd">>}
  BY DoesUnless
<1> HIDE DEF a, b
<1>5. /\ Fit(need, g, {}, <<a, b>>) /\ Range(<<a, b>>) = {a, b}
      /\ Made(<<a, b>>) = Makes(a) \cup Makes(b)
      /\ Written(<<a, b>>) = Writes(a) \cup Writes(b)
  BY <1>1, <1>2, TwoEffects
<1>6. Suits("prepare_host", w, <<a, b>>)
  BY <1>3, <1>4, <1>5 DEF Suits, Promised, Watched, MayWrite
<1> QED BY <1>5, <1>6 DEF PrepareHostScript, InstallSteamCmd, a, b

LEMMA K3sInstallFits ==
  ASSUME NEW need, NEW g, NEW w
  PROVE  Fit(need, g, {}, K3sInstallScript) /\ Suits("install_k3s", w, K3sInstallScript)
<1> DEFINE a == Unless(<<"k3s">>, <<Put(<<"k3s">>, TRUE)>>)
           b == Put(<<"enabled">>, TRUE)
           c == Put(<<"running">>, TRUE)
<1>1. Ok(need, g, {}, a)
  BY HostNamed, OkUnlessOne, True
<1>2. Ok(need, g, {}, b)
  BY True, HostNamed, OkPut
<1>3. Ok(need, g, {}, c)
  BY True, HostNamed, OkPut
<1>4. a.do = "unless" /\ Writes(a) = {<<"k3s">>} /\ Makes(a) = {<<"k3s">>}
  BY DoesUnless
<1>5. b.do = "put" /\ Writes(b) = {<<"enabled">>} /\ Makes(b) = {<<"enabled">>}
  BY Does
<1>6. c.do = "put" /\ Writes(c) = {<<"running">>} /\ Makes(c) = {<<"running">>}
  BY Does
<1> HIDE DEF a, b, c
<1>7. /\ Fit(need, g, {}, <<a, b, c>>) /\ Range(<<a, b, c>>) = {a, b, c}
      /\ Made(<<a, b, c>>) = Makes(a) \cup Makes(b) \cup Makes(c)
      /\ Written(<<a, b, c>>) = Writes(a) \cup Writes(b) \cup Writes(c)
  BY <1>1, <1>2, <1>3, ThreeEffects
<1>8. Suits("install_k3s", w, <<a, b, c>>)
  BY <1>4, <1>5, <1>6, <1>7 DEF Suits, Promised, Watched, MayWrite
<1> QED BY <1>7, <1>8 DEF K3sInstallScript, a, b, c

LEMMA SchedulerFits ==
  ASSUME NEW need, NEW g, NEW w \in Worlds,
         need = "all" => There(g, <<"world", w>>)
  PROVE  Fit(need, g, {}, SchedulerScript(w)) /\ Suits("scheduler", w, SchedulerScript(w))
<1> DEFINE a == Require(<<"world", w>>)
           b == Put(<<"scheduler", w>>, TRUE)
<1>1. Ok(need, g, {}, a)
  BY WorldNamed, OkRequire
<1>2. Ok(need, g, {}, b)
  BY True, WorldNamed, OkPut
<1>3. a.do = "require" /\ Writes(a) = {} /\ Makes(a) = {<<"world", w>>}
  BY Does
<1>4. b.do = "put" /\ Writes(b) = {<<"scheduler", w>>} /\ Makes(b) = {<<"scheduler", w>>}
  BY Does
<1> HIDE DEF a, b
<1>5. /\ Fit(need, g, {}, <<a, b>>) /\ Range(<<a, b>>) = {a, b}
      /\ Made(<<a, b>>) = Makes(a) \cup Makes(b)
      /\ Written(<<a, b>>) = Writes(a) \cup Writes(b)
  BY <1>1, <1>2, TwoEffects
<1>6. Suits("scheduler", w, <<a, b>>)
  BY <1>3, <1>4, <1>5 DEF Suits, Promised, Watched, MayWrite
<1> QED BY <1>5, <1>6 DEF SchedulerScript, a, b

-----------------------------------------------------------------------------
\* The scripts of a setup on Ubuntu.

LEMMA FourEffects ==
  ASSUME NEW need, NEW g, NEW made, NEW a, NEW b, NEW c, NEW d,
         Ok(need, g, made, a), Ok(need, g, made, b), Ok(need, g, made, c), Ok(need, g, made, d)
  PROVE  /\ Fit(need, g, made, <<a, b, c, d>>) /\ Range(<<a, b, c, d>>) = {a, b, c, d}
         /\ Made(<<a, b, c, d>>) = Makes(a) \cup Makes(b) \cup Makes(c) \cup Makes(d)
         /\ Written(<<a, b, c, d>>) = Writes(a) \cup Writes(b) \cup Writes(c) \cup Writes(d)
<1>1. /\ made \subseteq made \cup Makes(a) /\ made \subseteq made \cup Makes(a) \cup Makes(b)
      /\ made \subseteq made \cup Makes(a) \cup Makes(b) \cup Makes(c)
  OBVIOUS
<1>2. Fit(need, g, made, <<a, b, c, d>>) /\ Range(<<a, b, c, d>>) = {a, b, c, d}
  BY <1>1, FitFour, RangeOfTuple
<1> QED BY <1>2 DEF Made, Written

LEMMA OkLegacy ==
  ASSUME NEW need, NEW g, NEW made
  PROVE  /\ Ok(need, g, made, Put(<<"legacy">>, Absent))
         /\ Put(<<"legacy">>, Absent).do = "put"
            /\ Writes(Put(<<"legacy">>, Absent)) = {<<"legacy">>}
<1>1. <<"legacy">> \in Items
  BY ItemsAre DEF HostItems
<1>2. Absent \in Values
  BY DEF Values
<1>3. Before(<<"legacy">>) = {}
  BY DEF Before
<1>4. Needs(need, Put(<<"legacy">>, Absent)) = {}
  BY <1>3, AttributesOfSimple
<1>5. Put(<<"legacy">>, Absent) \in Effects
  BY <1>1, <1>2, SimplesAre
<1> QED BY <1>4, <1>5, Does DEF Ok, Proper

LEMMA PayloadFits ==
  ASSUME NEW need, NEW g, NEW w,
         need = "all" => There(g, <<"user">>) /\ There(g, <<"release">>)
  PROVE  Fit(need, g, {}, InstallPayloadScript) /\ Suits("payload", w, InstallPayloadScript)
<1> DEFINE a == Require(<<"user">>)
           b == Unless(<<"steamcmd">>, <<Put(<<"steamcmd">>, TRUE)>>)
           c == Put(<<"legacy">>, Absent)
           d == Copy(<<"release">>, <<"payload">>)
<1>1. Ok(need, g, {}, a)
  BY HostNamed, OkRequire
<1>2. Ok(need, g, {}, b)
  BY HostNamed, OkUnlessOne, True
<1>3. Ok(need, g, {}, c) /\ c.do = "put" /\ Writes(c) = {<<"legacy">>}
  BY OkLegacy
<1>4. Ok(need, g, {}, d)
  BY HostNamed, OkPlainCopy
<1>5. a.do = "require" /\ Writes(a) = {}
  BY Does
<1>6. b.do = "unless" /\ Writes(b) = {<<"steamcmd">>}
  BY DoesUnless
<1>7. d.do = "copy" /\ Writes(d) = {<<"payload">>} /\ Makes(d) = {<<"payload">>, <<"release">>}
  BY Does
<1> HIDE DEF a, b, c, d
<1>8. /\ Fit(need, g, {}, <<a, b, c, d>>) /\ Range(<<a, b, c, d>>) = {a, b, c, d}
      /\ Made(<<a, b, c, d>>) = Makes(a) \cup Makes(b) \cup Makes(c) \cup Makes(d)
      /\ Written(<<a, b, c, d>>) = Writes(a) \cup Writes(b) \cup Writes(c) \cup Writes(d)
  BY <1>1, <1>2, <1>3, <1>4, FourEffects
<1>9. Suits("payload", w, <<a, b, c, d>>)
  BY <1>3, <1>5, <1>6, <1>7, <1>8 DEF Suits, Promised, Watched, MayWrite
<1> QED BY <1>8, <1>9 DEF InstallPayloadScript, InstallSteamCmd, a, b, c, d

\* Two items that are missing one after the other.
LEMMA DoesUnlessTwo ==
  ASSUME NEW x, NEW t
  PROVE  LET e == Unless(x, <<Create(x), t>>)
         IN e.do = "unless" /\ Makes(e) = {x} /\ Writes(e) = {x, t.item}
<1> DEFINE s == <<Create(x), t>>
<1>1. Range(s) = {Create(x), t}
  BY RangeOfTuple
<1>2. Create(x).item = x
  BY DEF Create
<1> HIDE DEF s
<1>3. Makes(Unless(x, s)) = {x} /\ Writes(Unless(x, s)) = {u.item : u \in Range(s)}
  BY AttributesOfUnless
<1>4. Unless(x, s).do = "unless"
  BY DEF Unless
<1>5. Writes(Unless(x, s)) = {x, t.item}
  BY <1>1, <1>2, <1>3
<1> QED BY <1>3, <1>4, <1>5 DEF s

LEMMA UbuntuSwapFits ==
  ASSUME NEW need, NEW g, NEW w
  PROVE  Fit(need, g, {}, UbuntuSwapScript) /\ Suits("ubuntu_swap", w, UbuntuSwapScript)
<1> DEFINE t == Put(<<"formatted">>, TRUE)
           a == Unless(<<"swap_file">>, <<Create(<<"swap_file">>), t>>)
           b == Unless(<<"fstab">>, <<Create(<<"fstab">>)>>)
           c == Branch("swap")
           d == Unless(<<"kubelet">>, <<Create(<<"kubelet">>)>>)
<1>1. Ok(need, g, {}, a)
  <2>1. t \in Simples
    BY SimplesAre, HostNamed, True
  <2>2. t.do = "put" /\ t.value = TRUE /\ t.item = <<"formatted">>
    BY DEF Put
  <2>3. <<"formatted">>[1] \notin Fixed \cup {"database"} /\ Before(<<"formatted">>) = {}
            /\ <<"formatted">> # <<"swap_file">>
    BY DEF Fixed, Before
  <2>4. Plain(<<"swap_file">>)
    BY HostNamed
  <2> HIDE DEF t
  <2> QED BY <2>1, <2>2, <2>3, <2>4, True, OkUnlessTwo
<1>2. Ok(need, g, {}, b) /\ Ok(need, g, {}, d)
  BY HostNamed, OkUnlessOne
<1>3. Ok(need, g, {}, c)
  BY OkBranch
<1>4. a.do = "unless" /\ Makes(a) = {<<"swap_file">>}
          /\ Writes(a) = {<<"swap_file">>, <<"formatted">>}
  <2>1. t.item = <<"formatted">>
    BY DEF Put
  <2> HIDE DEF t
  <2> QED BY <2>1, DoesUnlessTwo
<1>5. b.do = "unless" /\ Writes(b) = {<<"fstab">>} /\ Makes(b) = {<<"fstab">>}
  BY DoesUnless
<1>6. d.do = "unless" /\ Writes(d) = {<<"kubelet">>} /\ Makes(d) = {<<"kubelet">>}
  BY DoesUnless
<1>7. c.do = "branch" /\ Writes(c) = {<<"swap">>}
  <2>1. c.do = "branch"
    BY DEF Branch
  <2> QED BY <2>1, AttributesOfBranch
<1> HIDE DEF a, b, c, d
<1>8. /\ Fit(need, g, {}, <<a, b, c, d>>) /\ Range(<<a, b, c, d>>) = {a, b, c, d}
      /\ Made(<<a, b, c, d>>) = Makes(a) \cup Makes(b) \cup Makes(c) \cup Makes(d)
      /\ Written(<<a, b, c, d>>) = Writes(a) \cup Writes(b) \cup Writes(c) \cup Writes(d)
  BY <1>1, <1>2, <1>3, FourEffects
<1>9. Suits("ubuntu_swap", w, <<a, b, c, d>>)
  BY <1>4, <1>5, <1>6, <1>7, <1>8 DEF Suits, Promised, Watched, MayWrite
<1> QED BY <1>8, <1>9 DEF UbuntuSwapScript, a, b, c, d, t

\* The rights of one operator.
LEMMA RightsFit ==
  ASSUME NEW need, NEW g, NEW made, NEW o \in Range(Operators)
  PROVE  /\ Fit(need, g, made, OperatorRights(o))
         /\ \A f \in Range(OperatorRights(o)) :
              /\ f.do = "unless"
              /\ Writes(f) \subseteq {<<i, o>> : i \in Rights}
<1> DEFINE t == Create(<<"role_binding", o>>)
           a == Unless(<<"secret", o>>, <<Create(<<"secret", o>>)>>)
           b == Unless(<<"cluster_role_binding", o>>, <<Create(<<"cluster_role_binding", o>>)>>)
           c == Unless(<<"role", o>>, <<Create(<<"role", o>>), t>>)
<1>1. /\ Plain(<<"secret", o>>) /\ Plain(<<"cluster_role_binding", o>>) /\ Plain(<<"role", o>>)
      /\ <<"role_binding", o>> \in Items
  <2>1. /\ \A i \in {"secret", "cluster_role_binding",
           "role"} : i \in OperatorItems \ {"role_binding"}
        /\ "role_binding" \in OperatorItems
    BY DEF OperatorItems, Rights
  <2> QED BY <2>1, PlainItems, ItemsAre
<1>2. Ok(need, g, made, a) /\ Ok(need, g, made, b)
  BY <1>1, OkUnlessOne
<1>3. t.item = <<"role_binding", o>> /\ t.do = "create" /\ t \in Simples
  BY <1>1, SimplesAre DEF Create
<1>4. Ok(need, g, made, c)
  <2>1. /\ <<"role_binding", o>>[1] \notin Fixed /\ Before(<<"role_binding", o>>) = {<<"role", o>>}
        /\ <<"role_binding", o>> # <<"role", o>>
    BY DEF Fixed, Before
  <2> HIDE DEF t
  <2> QED BY <1>1, <1>3, <2>1, OkUnlessTwo
<1>5. /\ a.do = "unless" /\ Writes(a) = {<<"secret", o>>}
      /\ b.do = "unless" /\ Writes(b) = {<<"cluster_role_binding", o>>}
  BY DoesUnless
<1>6. c.do = "unless" /\ Writes(c) = {<<"role", o>>, <<"role_binding", o>>}
  <2> HIDE DEF t
  <2> QED BY <1>3, DoesUnlessTwo
<1>7. {<<"secret", o>>, <<"cluster_role_binding", o>>, <<"role", o>>, <<"role_binding", o>>}
        = {<<i, o>> : i \in Rights}
  BY DEF Rights
<1> HIDE DEF a, b, c
<1>8. Fit(need, g, made, <<a, b, c>>) /\ Range(<<a, b, c>>) = {a, b, c}
  <2>1. made \subseteq made \cup Makes(a) /\ made \subseteq made \cup Makes(a) \cup Makes(b)
    OBVIOUS
  <2> QED BY <1>2, <1>4, <2>1, FitThree, RangeOfTuple
<1>9. \A f \in Range(<<a, b, c>>) : f.do = "unless" /\ Writes(f) \subseteq {<<i, o>> : i \in Rights}
  BY <1>5, <1>6, <1>7, <1>8
<1> QED BY <1>8, <1>9 DEF OperatorRights, a, b, c, t

LEMMA ScaledFits ==
  ASSUME NEW need, NEW g, NEW made,
         need = "all" => \A o \in Range(Operators) :
            There(g, <<"operator", o>>) \/ <<"operator", o>> \in made
  PROVE  LET t == ForOperators(ScaleOperator)
         IN /\ Fit(need, g, made, t)
            /\ \A f \in Range(t) :
                f.do # "create" /\ Writes(f) \subseteq {<<"scaled", o>> : o \in Range(Operators)}
            /\ \A o \in Range(Operators) : <<"scaled", o>> \in Made(t)
<1> DEFINE S(k) == ScaleOperator(Operators[k])
           t == S(1) \o S(2) \o S(3) \o S(4)
<1>1. ForOperators(ScaleOperator) = t
  BY DEF ForOperators
<1>2. \A k \in 1 .. 4 :
        /\ Fit(need, g, made, S(k))
        /\ Range(S(k)) = {Require(<<"operator", Operators[k]>>),
           Put(<<"scaled", Operators[k]>>, TRUE)}
  BY OperatorsNamed, ScaleOperatorFits
<1>3. ASSUME NEW k \in 1 .. 4
      PROVE  /\ \A f \in Range(S(k)) :
                  f.do # "create" /\ Writes(f) \subseteq {<<"scaled", o>> : o \in Range(Operators)}
             /\ \E f \in Range(S(k)) : <<"scaled", Operators[k]>> \in Makes(f)
  <2> DEFINE a == Require(<<"operator", Operators[k]>>)
             b == Put(<<"scaled", Operators[k]>>, TRUE)
  <2>1. a.do = "require" /\ Writes(a) = {}
    BY Does
  <2>2. b.do = "put" /\ Writes(b) = {<<"scaled", Operators[k]>>}
            /\ Makes(b) = {<<"scaled", Operators[k]>>}
    BY Does
  <2>3. Range(S(k)) = {a, b}
    BY <1>2
  <2>4. Operators[k] \in Range(Operators)
    BY OperatorsNamed
  <2> HIDE DEF a, b, S
  <2> QED BY <2>1, <2>2, <2>3, <2>4
<1>4. Fit(need, g, made, t) /\ Range(t) = Range(S(1)) \cup Range(S(2)) \cup Range(S(3))
          \cup Range(S(4))
  <2>1. Fit(need, g, made, S(1)) /\ Fit(need, g, made, S(2)) /\ Fit(need, g, made, S(3))
            /\ Fit(need, g, made, S(4))
    BY <1>2
  <2> HIDE DEF S
  <2>2. Fit(need, g, made, t) /\ JoinsFour(t, S(1), S(2), S(3), S(4))
    BY <2>1, FitParts
  <2> QED BY <2>2 DEF JoinsFour
<1> HIDE DEF t, S
<1>5. \A f \in Range(t) : \E k \in 1 .. 4 : f \in Range(S(k))
  BY <1>4
<1>6. \A f \in Range(t) :
        f.do # "create" /\ Writes(f) \subseteq {<<"scaled", o>> : o \in Range(Operators)}
  BY <1>3, <1>5
<1>7. ASSUME NEW o \in Range(Operators) PROVE <<"scaled", o>> \in Made(t)
  <2>1. PICK k \in 1 .. 4 : o = Operators[k]
    BY FourOperators
  <2>2. PICK f \in Range(S(k)) : <<"scaled", o>> \in Makes(f)
    BY <1>3, <2>1
  <2>3. f \in Range(t)
    BY <1>4, <2>2
  <2> QED BY <2>2, <2>3 DEF Made
<1> QED BY <1>1, <1>4, <1>6, <1>7

LEMMA AllRightsFit ==
  ASSUME NEW need, NEW g, NEW made
  PROVE  LET t == ForOperators(OperatorRights)
         IN /\ Fit(need, g, made, t)
            /\ \A f \in Range(t) : /\ f.do = "unless"
                                   /\ Writes(f)
                                      \subseteq {<<i, o>> : i \in Rights, o \in Range(Operators)}
<1> DEFINE S(k) == OperatorRights(Operators[k])
           t == S(1) \o S(2) \o S(3) \o S(4)
<1>1. ForOperators(OperatorRights) = t
  BY DEF ForOperators
<1>2. \A k \in 1 .. 4 :
        /\ Fit(need, g, made, S(k))
        /\ \A f \in Range(S(k)) : f.do = "unless"
           /\ Writes(f) \subseteq {<<i, Operators[k]>> : i \in Rights}
  BY OperatorsNamed, RightsFit
<1>4. Fit(need, g, made, t) /\ Range(t) = Range(S(1)) \cup Range(S(2)) \cup Range(S(3))
          \cup Range(S(4))
  <2>1. Fit(need, g, made, S(1)) /\ Fit(need, g, made, S(2)) /\ Fit(need, g, made, S(3))
            /\ Fit(need, g, made, S(4))
    BY <1>2
  <2> HIDE DEF S
  <2>2. Fit(need, g, made, t) /\ JoinsFour(t, S(1), S(2), S(3), S(4))
    BY <2>1, FitParts
  <2> QED BY <2>2 DEF JoinsFour
<1> HIDE DEF t, S
<1>5. ASSUME NEW f \in Range(t)
      PROVE  f.do = "unless" /\ Writes(f) \subseteq {<<i, o>> : i \in Rights,
             o \in Range(Operators)}
  <2>1. PICK k \in 1 .. 4 : f \in Range(S(k))
    BY <1>4, <1>5
  <2>2. Operators[k] \in Range(Operators)
    BY OperatorsNamed
  <2>3. f.do = "unless" /\ Writes(f) \subseteq {<<i, Operators[k]>> : i \in Rights}
    BY <1>2, <2>1
  <2> QED BY <2>2, <2>3
<1> QED BY <1>1, <1>4, <1>5

LEMMA ScaleOperatorsFit ==
  ASSUME NEW need, NEW g, NEW w,
         need = "all" => There(g, <<"running">>)
            /\ \A o \in Range(Operators) : There(g, <<"operator", o>>)
  PROVE  Fit(need, g, {}, ScaleOperatorScript) /\ Suits("scale_operators", w, ScaleOperatorScript)
<1> DEFINE a == Require(<<"running">>)
           t == ForOperators(ScaleOperator)
<1>1. Ok(need, g, {}, a)
  BY HostNamed, OkRequire
<1>2. a.do = "require" /\ Writes(a) = {}
  BY Does
<1>3. /\ Fit(need, g, {}, t)
      /\ \A f \in Range(t) :
                f.do # "create" /\ Writes(f) \subseteq {<<"scaled", o>> : o \in Range(Operators)}
      /\ \A o \in Range(Operators) : <<"scaled", o>> \in Made(t)
  BY ScaledFits
<1> HIDE DEF a, t
<1>4. Fit(need, g, {}, <<a>>) /\ Range(<<a>>) = {a}
  BY <1>1, OneEffect
<1>5. Fit(need, g, {}, <<a>> \o t) /\ Joins(<<a>> \o t, <<a>>, t)
  <2>1. {} \subseteq {} \cup Made(<<a>>)
    OBVIOUS
  <2> QED BY <1>3, <1>4, <2>1, FitConcat
<1>6. Promised("scale_operators", w) \subseteq Made(<<a>> \o t)
  BY <1>3, <1>5 DEF Joins, Promised
<1>7. ASSUME NEW x \in Written(<<a>> \o t) PROVE x \notin Watched(w)
  <2>1. PICK f \in Range(<<a>> \o t) : x \in Writes(f)
    BY <1>7 DEF Written
  <2>2. f \in Range(t)
    BY <1>2, <1>4, <1>5, <2>1 DEF Joins
  <2>3. PICK o \in Range(Operators) : x = <<"scaled", o>>
    BY <1>3, <2>1, <2>2
  <2> QED BY <2>3 DEF Watched
<1>8. \A f \in Range(<<a>> \o t) : f.do # "create"
  BY <1>2, <1>3, <1>4, <1>5 DEF Joins
<1> QED BY <1>5, <1>6, <1>7, <1>8 DEF Suits, ScaleOperatorScript, a, t

LEMMA FourAndFour ==
  ASSUME NEW S, NEW p \in Seq(S), NEW q \in Seq(S), Len(p) = 4, Len(q) = 4, NEW k \in 1 .. 4
  PROVE  (p \o q)[k] = p[k] /\ (p \o q)[k + 4] = q[k]
<1>1. /\ Len(p \o q) = Len(p) + Len(q)
      /\ \A i \in 1 .. Len(p) + Len(q) :
            (p \o q)[i] = IF i <= Len(p) THEN p[i] ELSE q[i - Len(p)]
  BY ConcatProperties
<1>2. /\ k \in 1 .. Len(p) + Len(q) /\ k + 4 \in 1 .. Len(p) + Len(q)
      /\ k <= Len(p) /\ ~(k + 4 <= Len(p)) /\ (k + 4) - Len(p) = k
  OBVIOUS
<1> QED BY <1>1, <1>2

LEMMA Eight ==
  ASSUME NEW a, NEW b, NEW c, NEW d, NEW e, NEW f, NEW h, NEW i
  PROVE  <<a, b, c, d, e, f, h, i>> = <<a, b, c, d>> \o <<e, f, h, i>>
<1> DEFINE S == {a, b, c, d, e, f, h, i}
           p == <<a, b, c, d>>
           q == <<e, f, h, i>>
           r == <<a, b, c, d, e, f, h, i>>
<1>1. /\ p \in Seq(S) /\ Len(p) = 4 /\ p[1] = a /\ p[2] = b /\ p[3] = c /\ p[4] = d
      /\ q \in Seq(S) /\ Len(q) = 4 /\ q[1] = e /\ q[2] = f /\ q[3] = h /\ q[4] = i
  OBVIOUS
<1>2. /\ r \in Seq(S) /\ Len(r) = 8 /\ r[1] = a /\ r[2] = b /\ r[3] = c /\ r[4] = d
      /\ r[5] = e /\ r[6] = f /\ r[7] = h /\ r[8] = i
  OBVIOUS
<1> HIDE DEF p, q, r, S
<1>3. p \o q \in Seq(S) /\ Len(p \o q) = Len(p) + Len(q)
  BY <1>1, ConcatProperties
<1>4. Len(p) + Len(q) = 8
  BY <1>1
<1>5. \A k \in 1 .. 4 : (p \o q)[k] = p[k] /\ (p \o q)[k + 4] = q[k]
  BY <1>1, FourAndFour
<1>6. /\ (p \o q)[1] = a /\ (p \o q)[2] = b /\ (p \o q)[3] = c /\ (p \o q)[4] = d
  <2>1. 1 \in 1 .. 4 /\ 2 \in 1 .. 4 /\ 3 \in 1 .. 4 /\ 4 \in 1 .. 4
    OBVIOUS
  <2> QED BY <1>1, <1>5, <2>1
<1>7. /\ (p \o q)[5] = e /\ (p \o q)[6] = f /\ (p \o q)[7] = h /\ (p \o q)[8] = i
  <2>1. 1 + 4 = 5 /\ 2 + 4 = 6 /\ 3 + 4 = 7 /\ 4 + 4 = 8
    OBVIOUS
  <2>2. 1 \in 1 .. 4 /\ 2 \in 1 .. 4 /\ 3 \in 1 .. 4 /\ 4 \in 1 .. 4
    OBVIOUS
  <2>3. (p \o q)[1 + 4] = q[1] /\ (p \o q)[2 + 4] = q[2] /\ (p \o q)[3 + 4] = q[3]
            /\ (p \o q)[4 + 4] = q[4]
    BY <1>5, <2>2
  <2> QED BY <1>1, <2>1, <2>3
<1>8. \A k \in 1 .. 8 : k = 1 \/ k = 2 \/ k = 3 \/ k = 4 \/ k = 5 \/ k = 6 \/ k = 7 \/ k = 8
  OBVIOUS
<1>9. \A k \in 1 .. 8 : (p \o q)[k] = r[k]
  BY <1>2, <1>6, <1>7, <1>8
<1>10. r = p \o q
  <2>1. Len(p \o q) = 8
    BY <1>3, <1>4
  <2>2. \A t, u \in Seq(S) : Len(t) = Len(u) /\ (\A k \in 1 .. Len(t) : t[k] = u[k]) => t = u
    BY SeqEqual
  <2> QED BY <1>2, <1>3, <1>9, <2>1, <2>2
<1> QED BY <1>10 DEF p, q, r

-----------------------------------------------------------------------------
\* The scripts that align versions.

\* A script that brings items to the version of the payload, and does not write
\* them otherwise.
Aligns(xs, p) ==
    \A x \in xs : /\ \E e \in Range(p) : Carries(e, x)
                  /\ \A e \in Range(p) : x \in Writes(e) => Carries(e, x)

LEMMA OperatorBattlegroup == "battlegroup" \in Range(Operators)
BY OperatorRange

\* The script that sets Kubernetes up.
LEMMA KubernetesFits ==
  ASSUME NEW need, NEW g, NEW w,
         need = "all" => There(g, <<"payload">>) /\ There(g, <<"running">>)
  PROVE  /\ Fit(need, g, {}, BootstrapKubernetesScript)
         /\ Suits("kubernetes", w, BootstrapKubernetesScript)
         /\ Aligns({<<"core_images">>, <<"crds">>, <<"operator", "battlegroup">>},
            BootstrapKubernetesScript)
         /\ Deploys(BootstrapKubernetesScript)
<1> DEFINE a == Require(<<"payload">>)
           b == Require(<<"running">>)
           c == Copy(<<"payload">>, <<"core_images">>)
           d == Unless(<<"cert-manager">>, <<Put(<<"cert-manager">>, 1)>>)
           e == Put(<<"core">>, TRUE)
           f == Copy(<<"payload">>, <<"operator_images">>)
           h == Copy(<<"payload">>, <<"crds">>)
           i == Branch("deployments")
           A == <<a, b, c, d>>
           B == <<e, f, h, i>>
           P == {<<"payload">>}
           O == {<<"operator", o>> : o \in Range(Operators)}
           R == ForOperators(OperatorRights)
           S == ForOperators(ScaleOperator)
<1>1. Ok(need, g, {}, a) /\ Ok(need, g, {}, b)
  BY HostNamed, OkRequire
<1>2. Ok(need, g, {}, c)
  BY HostNamed, OkPlainCopy
<1>3. Ok(need, g, {}, d)
  <2>1. 1 \in Values /\ 1 # Absent
    BY Present DEF Values
  <2> QED BY <2>1, HostNamed, OkUnlessOne
<1>4. Ok(need, g, P, e)
  BY HostNamed, OkPut, True
<1>5. Ok(need, g, P, f) /\ Ok(need, g, P, h)
  BY HostNamed, OkPlainCopy
<1>6. Ok(need, g, P, i)
  BY OkBranch
<1>7. /\ a.do = "require" /\ Writes(a) = {} /\ Makes(a) = {<<"payload">>}
      /\ b.do = "require" /\ Writes(b) = {} /\ Makes(b) = {<<"running">>}
  BY Does
<1>8. c.do = "copy" /\ Writes(c) = {<<"core_images">>}
          /\ Makes(c) = {<<"core_images">>, <<"payload">>}
  BY Does
<1>9. d.do = "unless" /\ Writes(d) = {<<"cert-manager">>} /\ Makes(d) = {<<"cert-manager">>}
  BY DoesUnless
<1>10. e.do = "put" /\ Writes(e) = {<<"core">>} /\ Makes(e) = {<<"core">>}
  BY Does
<1>11. f.do = "copy" /\ Writes(f) = {<<"operator_images">>}
  BY Does
<1>12. h.do = "copy" /\ Writes(h) = {<<"crds">>}
  BY Does
<1>13. i.do = "branch" /\ Writes(i) = O /\ Makes(i) = O
  <2>1. i.do = "branch"
    BY DEF Branch
  <2> QED BY <2>1, AttributesOfBranch
<1>14. /\ Carries(c, <<"core_images">>) /\ Carries(h, <<"crds">>)
       /\ Carries(i, <<"operator", "battlegroup">>)
       /\ i.of = "deployments"
  BY DEF Carries, Copy, Branch
<1> HIDE DEF a, b, c, d, e, f, h, i
<1>15. /\ Fit(need, g, {}, A) /\ Range(A) = {a, b, c, d}
       /\ Made(A) = Makes(a) \cup Makes(b) \cup Makes(c) \cup Makes(d)
  BY <1>1, <1>2, <1>3, FourEffects
<1>16. /\ Fit(need, g, P, B) /\ Range(B) = {e, f, h, i}
       /\ Made(B) = Makes(e) \cup Makes(f) \cup Makes(h) \cup Makes(i)
  BY <1>4, <1>5, <1>6, FourEffects
<1> HIDE DEF A, B, P
<1>17. Fit(need, g, {}, A \o B) /\ Joins(A \o B, A, B)
  <2>1. P \subseteq {} \cup Made(A)
    BY <1>7, <1>15 DEF P
  <2> QED BY <1>15, <1>16, <2>1, FitConcat
<1>18. /\ Fit(need, g, {}, R)
       /\ \A r \in Range(R) : /\ r.do = "unless"
                              /\ Writes(r) \subseteq {<<j, o>> : j \in Rights,
                                 o \in Range(Operators)}
  BY AllRightsFit
<1>19. /\ Fit(need, g, O, S)
       /\ \A r \in Range(S) :
            r.do # "create" /\ Writes(r) \subseteq {<<"scaled", o>> : o \in Range(Operators)}
       /\ \A o \in Range(Operators) : <<"scaled", o>> \in Made(S)
  <2>1. \A o \in Range(Operators) : <<"operator", o>> \in O
    OBVIOUS
  <2> HIDE DEF O
  <2> QED BY <2>1, ScaledFits
<1> DEFINE K == A \o B
           L == K \o R
           M == L \o S
<1>20. Made(K) = Made(A) \cup Made(B) /\ Range(K) = Range(A) \cup Range(B)
  BY <1>17 DEF Joins
<1> HIDE DEF R, S, K
<1>21. Fit(need, g, {}, L) /\ Joins(L, K, R)
  <2>1. {} \subseteq {} \cup Made(K)
    OBVIOUS
  <2>2. Fit(need, g, {}, K)
    BY <1>17 DEF K
  <2> QED BY <1>18, <2>1, <2>2, FitConcat
<1> HIDE DEF L, O
<1>22. Fit(need, g, {}, M) /\ Joins(M, L, S)
  <2>1. O \subseteq {} \cup Made(L)
    <3>1. O \subseteq Made(B)
      BY <1>13, <1>16
    <3>2. Made(L) = Made(K) \cup Made(R)
      BY <1>21 DEF Joins
    <3> QED BY <3>1, <3>2, <1>20
  <2> QED BY <1>19, <1>21, <2>1, FitConcat
<1> HIDE DEF M
<1>23. Range(M) = {a, b, c, d} \cup {e, f, h, i} \cup Range(R) \cup Range(S)
  <2>1. Range(M) = Range(L) \cup Range(S) /\ Range(L) = Range(K) \cup Range(R)
    BY <1>21, <1>22 DEF Joins
  <2> QED BY <1>15, <1>16, <1>20, <2>1
<1>24. Made(A) \subseteq Made(M) /\ Made(B) \subseteq Made(M) /\ Made(S) \subseteq Made(M)
  <2>1. Made(M) = Made(L) \cup Made(S) /\ Made(L) = Made(K) \cup Made(R)
    BY <1>21, <1>22 DEF Joins
  <2> QED BY <1>20, <2>1
<1>25. M = BootstrapKubernetesScript
  <2>1. <<a, b, c, d, e, f, h, i>> = <<a, b, c, d>> \o <<e, f, h, i>>
    BY ONLY Eight, SMT
  <2> QED BY <2>1 DEF A, B, M, L, K, R, S, BootstrapKubernetesScript, a, b, c, d, e, f, h, i
<1>26. \A r \in Range(M) : r.do # "create"
  BY <1>7, <1>8, <1>9, <1>10, <1>11, <1>12, <1>13, <1>18, <1>19, <1>23
<1>27. Promised("kubernetes", w) \subseteq Made(M)
  <2>1. /\ <<"payload">> \in Made(M) /\ <<"core_images">> \in Made(M)
           /\ <<"cert-manager">> \in Made(M)
        /\ <<"core">> \in Made(M)
    BY <1>7, <1>8, <1>9, <1>10, <1>15, <1>16, <1>24
  <2>2. O \subseteq Made(M)
    BY <1>13, <1>16, <1>24
  <2>3. \A o \in Range(Operators) : <<"scaled", o>> \in Made(M)
    BY <1>19, <1>24
  <2> QED BY <2>1, <2>2, <2>3 DEF Promised, O
<1>28. ASSUME NEW r \in Range(M), NEW x \in Writes(r),
              x \in Watched(w)
       PROVE  \/ x = <<"core_images">> /\ r = c
              \/ x = <<"crds">> /\ r = h
              \/ x = <<"operator", "battlegroup">> /\ r = i
  <2>1. CASE r \in Range(R)
    <3>1. PICK j \in Rights, o \in Range(Operators) : x = <<j, o>>
      BY <1>18, <1>28, <2>1
    <3> QED BY <3>1, <1>28 DEF Watched, Rights
  <2>2. CASE r \in Range(S)
    <3>1. PICK o \in Range(Operators) : x = <<"scaled", o>>
      BY <1>19, <1>28, <2>2
    <3> QED BY <3>1, <1>28 DEF Watched
  <2>3. CASE r = i
    <3>1. PICK o \in Range(Operators) : x = <<"operator", o>>
      BY <1>13, <1>28, <2>3 DEF O
    <3> QED BY <3>1, <1>28, <2>3 DEF Watched
  <2>4. CASE r \in {a, b}
    BY <1>7, <1>28, <2>4
  <2>5. CASE r \in {d, e, f}
    BY <1>9, <1>10, <1>11, <1>28, <2>5 DEF Watched
  <2>6. CASE r \in {c, h}
    BY <1>8, <1>12, <1>28, <2>6
  <2> QED BY <1>23, <1>28, <2>1, <2>2, <2>3, <2>4, <2>5, <2>6
<1>29. Suits("kubernetes", w, M)
  <2>1. Written(M) \cap Watched(w) \subseteq {<<"core_images">>, <<"crds">>,
            <<"operator", "battlegroup">>}
    BY <1>28 DEF Written
  <2> QED BY <1>26, <1>27, <2>1 DEF Suits, MayWrite
<1>30. Aligns({<<"core_images">>, <<"crds">>, <<"operator", "battlegroup">>}, M)
  <2>1. {<<"core_images">>, <<"crds">>, <<"operator", "battlegroup">>} \subseteq Watched(w)
    BY DEF Watched
  <2>2. c \in Range(M) /\ h \in Range(M) /\ i \in Range(M)
    BY <1>23
  <2>3. ASSUME NEW x \in {<<"core_images">>, <<"crds">>, <<"operator", "battlegroup">>},
               NEW r \in Range(M), x \in Writes(r)
        PROVE  Carries(r, x)
    <3>1. \/ x = <<"core_images">> /\ r = c
          \/ x = <<"crds">> /\ r = h
          \/ x = <<"operator", "battlegroup">> /\ r = i
      BY <1>28, <2>1, <2>3
    <3> QED BY <1>14, <3>1
  <2>4. \A x \in {<<"core_images">>, <<"crds">>, <<"operator", "battlegroup">>} :
          \E r \in Range(M) : Carries(r, x)
    BY <1>14, <2>2
  <2> QED BY <2>3, <2>4 DEF Aligns
<1>31. Deploys(M)
  <2> SUFFICES ASSUME NEW r \in Range(M), r.do = "branch", r.of \in {"crds", "operators"}
               PROVE  FALSE
    BY DEF Deploys
  <2>1. r \in Range(S)
    BY <1>7, <1>8, <1>9, <1>10, <1>11, <1>12, <1>14, <1>18, <1>23
  <2>2. <<"crds">> \in Writes(r) \/ <<"operator_images">> \in Writes(r)
    BY DEF Writes, IsSimple
  <2>3. Writes(r) \subseteq {<<"scaled", o>> : o \in Range(Operators)}
    BY <1>19, <2>1
  <2> QED BY <2>2, <2>3
<1> QED BY <1>22, <1>25, <1>29, <1>30, <1>31

LEMMA CarriesFacts ==
  /\ \A x : Carries(Copy(<<"payload">>, x), x)
  /\ Carries(Branch("crds"), <<"crds">>)
  /\ Carries(Branch("operators"), <<"operator", "battlegroup">>)
BY DEF Carries, Copy, Branch

LEMMA CoreImagesAlign == Aligns({<<"core_images">>}, ImportCoreImagesScript)
<1> DEFINE a == Copy(<<"payload">>, <<"core_images">>)
<1>1. Carries(a, <<"core_images">>)
  BY CarriesFacts
<1> HIDE DEF a
<1>2. Range(<<a>>) = {a}
  BY RangeOfTuple
<1> QED BY <1>1, <1>2 DEF Aligns, ImportCoreImagesScript, a

LEMMA WorldImagesAlign == Aligns({<<"world_images">>}, ImportBattlegroupImagesScript)
<1> DEFINE a == Copy(<<"payload">>, <<"world_images">>)
<1>1. Carries(a, <<"world_images">>)
  BY CarriesFacts
<1> HIDE DEF a
<1>2. Range(<<a>>) = {a}
  BY RangeOfTuple
<1> QED BY <1>1, <1>2 DEF Aligns, ImportBattlegroupImagesScript, a

LEMMA UpdateCrdsAligns == Aligns({<<"crds">>}, UpdateOperatorCrdsScript)
<1> DEFINE a == Require(<<"running">>)
           b == Branch("crds")
<1>1. Carries(b, <<"crds">>)
  BY CarriesFacts
<1>2. Writes(a) = {}
  BY Does
<1> HIDE DEF a, b
<1>3. Range(<<a, b>>) = {a, b}
  BY RangeOfTuple
<1>4. Aligns({<<"crds">>}, <<a, b>>)
  BY <1>1, <1>2, <1>3 DEF Aligns
<1> QED BY <1>4 DEF UpdateOperatorCrdsScript, a, b

LEMMA PatchOperatorsAligns ==
  Aligns({<<"operator", "battlegroup">>}, PatchOperatorImagesScript)
<1> DEFINE a == Require(<<"running">>)
           b == Branch("operators")
<1>1. Carries(b, <<"operator", "battlegroup">>)
  BY CarriesFacts
<1>2. Writes(a) = {}
  BY Does
<1> HIDE DEF a, b
<1>3. Range(<<a, b>>) = {a, b}
  BY RangeOfTuple
<1>4. Aligns({<<"operator", "battlegroup">>}, <<a, b>>)
  BY <1>1, <1>2, <1>3 DEF Aligns
<1> QED BY <1>4 DEF PatchOperatorImagesScript, a, b

\* The images of a world are patched to the version that was read.
Patches(v, x, p) ==
    /\ x \in Written(p)
    /\ \A e \in Range(p) : x \in Writes(e) => e.do = "put" /\ e.value = v

LEMMA PatchImagesPatches ==
  ASSUME NEW v, NEW w
  PROVE  Patches(v, <<"revision", w>>, PatchImages(w, v))
<1> DEFINE a == Require(<<"world", w>>)
           b == Put(<<"revision", w>>, v)
<1>1. Writes(a) = {} /\ Writes(b) = {<<"revision", w>>} /\ b.do = "put"
  BY Does
<1>2. b.value = v
  BY DEF Put
<1> HIDE DEF a, b
<1>3. Range(<<a, b>>) = {a, b}
  BY RangeOfTuple
<1>4. Patches(v, <<"revision", w>>, <<a, b>>)
  BY <1>1, <1>2, <1>3 DEF Patches, Written
<1> QED BY <1>4 DEF PatchImages, a, b

\* What a script finds there if no fault befell the operation.
Wants(s, w) ==
    CASE s = "download" -> {<<"release">>}
      [] s = "start_k3s" -> {<<"k3s">>}
      [] s = "core_images" -> {<<"payload">>}
      [] s = "scale_core" -> {<<"running">>, <<"cert-manager">>}
      [] s = "update_crds" -> {<<"running">>}
      [] s \in {"operator_images", "scale_operators"} ->
            {<<"running">>} \cup {<<"operator", o>> : o \in Range(Operators)}
      [] s = "helper" -> {<<"payload">>}
      [] s = "create_world" ->
            {<<"running">>, <<"payload">>} \cup {<<"scaled", o>> : o \in Range(Operators)}
      [] s = "world_images" -> {<<"payload">>}
      [] s = "patch_images" -> {<<"world", w>>}
      [] s = "defaults" -> {<<"payload">>, <<"world", w>>}
      [] s = "payload" -> {<<"user">>, <<"release">>}
      [] s = "kubernetes" -> {<<"payload">>, <<"running">>}
      [] s = "scheduler" -> {<<"world", w>>}
      [] OTHER -> {}

\* The items that the script of a step brings to the version of the payload.
AlignedBy(s) ==
    CASE s = "core_images" -> {<<"core_images">>}
      [] s = "update_crds" -> {<<"crds">>}
      [] s = "operator_images" -> {<<"operator", "battlegroup">>}
      [] s = "kubernetes" -> {<<"core_images">>, <<"crds">>, <<"operator", "battlegroup">>}
      [] s = "world_images" -> {<<"world_images">>}
      [] OTHER -> {}

\* All that is known of the script of a step.
Good(need, g, s, w, v, p) ==
    /\ Fit(need, g, {}, p)
    /\ Suits(s, w, p)
    /\ Aligns(AlignedBy(s), p)
    /\ s = "patch_images" => Patches(v, <<"revision", w>>, p)
    /\ s = "sync" => p = SyncScript(w)
    /\ s = "kubernetes" => Deploys(p)

\* The script of every step is a good one, in the order its operation needs.
LEMMA GoodScript ==
  ASSUME NEW o, NEW need, NEW g, NEW s \in ScriptSteps, s = Head(o.todo),
         o.request.world \in Worlds,
         s = "patch_images" => o.version \in Values /\ o.version # Absent,
         need = "all" => \A x \in Wants(s, o.request.world) : There(g, x)
  PROVE  Good(need, g, s, o.request.world, o.version, Script(o))
<1> DEFINE w == o.request.world
           v == o.version
           p == Script(o)
<1>0. \A q : Aligns({}, q)
  BY DEF Aligns
<1>1. CASE s = "root_disk"
  <2>1. p = DiskScript
    BY <1>1 DEF Script
  <2>2. AlignedBy(s) = {}
    BY <1>1 DEF AlignedBy
  <2> QED BY <1>0, <1>1, <2>1, <2>2, DiskFits DEF Good
<1>2. CASE s = "download"
  <2>1. p = DownloadScript
    BY <1>2 DEF Script
  <2>2. AlignedBy(s) = {} /\ Wants(s, w) = {<<"release">>}
    BY <1>2 DEF AlignedBy, Wants
  <2> QED BY <1>0, <1>2, <2>1, <2>2, DownloadFits DEF Good
<1>3. CASE s = "start_k3s"
  <2>1. p = StartK3sScript
    BY <1>3 DEF Script
  <2>2. AlignedBy(s) = {} /\ Wants(s, w) = {<<"k3s">>}
    BY <1>3 DEF AlignedBy, Wants
  <2> QED BY <1>0, <1>3, <2>1, <2>2, StartK3sFits DEF Good
<1>4. CASE s = "core_images"
  <2>1. p = ImportCoreImagesScript
    BY <1>4 DEF Script
  <2>2. AlignedBy(s) = {<<"core_images">>} /\ Wants(s, w) = {<<"payload">>}
    BY <1>4 DEF AlignedBy, Wants
  <2> QED BY <1>4, <2>1, <2>2, CoreImagesFit, CoreImagesAlign DEF Good
<1>5. CASE s = "scale_core"
  <2>1. p = ScaleCoreScript
    BY <1>5 DEF Script
  <2>2. AlignedBy(s) = {} /\ Wants(s, w) = {<<"running">>, <<"cert-manager">>}
    BY <1>5 DEF AlignedBy, Wants
  <2> QED BY <1>0, <1>5, <2>1, <2>2, ScaleCoreFits DEF Good
<1>6. CASE s = "update_crds"
  <2>1. p = UpdateOperatorCrdsScript
    BY <1>6 DEF Script
  <2>2. AlignedBy(s) = {<<"crds">>} /\ Wants(s, w) = {<<"running">>}
    BY <1>6 DEF AlignedBy, Wants
  <2> QED BY <1>6, <2>1, <2>2, UpdateCrdsFit, UpdateCrdsAligns DEF Good
<1>7. CASE s = "operator_images"
  <2>1. p = PatchOperatorImagesScript
    BY <1>7 DEF Script
  <2>2. /\ AlignedBy(s) = {<<"operator", "battlegroup">>}
        /\ Wants(s, w) = {<<"running">>} \cup {<<"operator", oo>> : oo \in Range(Operators)}
    BY <1>7 DEF AlignedBy, Wants
  <2>3. need = "all" => There(g, <<"running">>)
            /\ \A oo \in Range(Operators) : There(g, <<"operator", oo>>)
    BY <2>2
  <2> QED BY <1>7, <2>1, <2>2, <2>3, PatchOperatorsFit, PatchOperatorsAligns DEF Good
<1>8. CASE s = "scale_operators"
  <2>1. p = ScaleOperatorScript
    BY <1>8 DEF Script
  <2>2. /\ AlignedBy(s) = {}
        /\ Wants(s, w) = {<<"running">>} \cup {<<"operator", oo>> : oo \in Range(Operators)}
    BY <1>8 DEF AlignedBy, Wants
  <2>3. need = "all" => There(g, <<"running">>)
            /\ \A oo \in Range(Operators) : There(g, <<"operator", oo>>)
    BY <2>2
  <2> QED BY <1>0, <1>8, <2>1, <2>2, <2>3, ScaleOperatorsFit DEF Good
<1>9. CASE s = "helper"
  <2>1. p = InstallHelperScript
    BY <1>9 DEF Script
  <2>2. AlignedBy(s) = {} /\ Wants(s, w) = {<<"payload">>}
    BY <1>9 DEF AlignedBy, Wants
  <2> QED BY <1>0, <1>9, <2>1, <2>2, HelperFits DEF Good
<1>10. CASE s = "create_world"
  <2>1. p = CreateWorldScript(w)
    BY <1>10 DEF Script
  <2>2. /\ AlignedBy(s) = {}
        /\ Wants(s, w) = {<<"running">>, <<"payload">>}
           \cup {<<"scaled", oo>> : oo \in Range(Operators)}
    BY <1>10 DEF AlignedBy, Wants
  <2>3. need = "all" => There(g, <<"running">>) /\ There(g, <<"payload">>)
            /\ \A oo \in Range(Operators) : There(g, <<"scaled", oo>>)
    BY <2>2
  <2>4. Fit(need, g, {}, CreateWorldScript(w)) /\ Suits("create_world", w, CreateWorldScript(w))
    BY <2>3, CreateWorldFits
  <2> QED BY <1>0, <1>10, <2>1, <2>2, <2>4 DEF Good
<1>11. CASE s = "world_images"
  <2>1. p = ImportBattlegroupImagesScript
    BY <1>11 DEF Script
  <2>2. AlignedBy(s) = {<<"world_images">>} /\ Wants(s, w) = {<<"payload">>}
    BY <1>11 DEF AlignedBy, Wants
  <2> QED BY <1>11, <2>1, <2>2, WorldImagesFit, WorldImagesAlign DEF Good
<1>12. CASE s = "sync"
  <2>1. p = SyncScript(w)
    BY <1>12 DEF Script
  <2>2. AlignedBy(s) = {}
    BY <1>12 DEF AlignedBy
  <2> QED BY <1>0, <1>12, <2>1, <2>2, SyncFits DEF Good
<1>13. CASE s = "patch_images"
  <2>1. p = PatchImages(w, v)
    BY <1>13 DEF Script
  <2>2. AlignedBy(s) = {} /\ Wants(s, w) = {<<"world", w>>}
    BY <1>13 DEF AlignedBy, Wants
  <2> QED BY <1>0, <1>13, <2>1, <2>2, PatchImagesFit, PatchImagesPatches DEF Good
<1>14. CASE s = "defaults"
  <2>1. p = DefaultSettingsScript(w)
    BY <1>14 DEF Script
  <2>2. AlignedBy(s) = {} /\ Wants(s, w) = {<<"payload">>, <<"world", w>>}
    BY <1>14 DEF AlignedBy, Wants
  <2> QED BY <1>0, <1>14, <2>1, <2>2, DefaultSettingsFit DEF Good
<1>15. CASE s = "player_settings"
  <2>1. p = PlayerSettingsScript
    BY <1>15 DEF Script
  <2>2. AlignedBy(s) = {}
    BY <1>15 DEF AlignedBy
  <2> QED BY <1>0, <1>15, <2>1, <2>2, PlayerSettingsFit DEF Good
<1>16. CASE s = "prepare_host"
  <2>1. p = PrepareHostScript
    BY <1>16 DEF Script
  <2>2. AlignedBy(s) = {}
    BY <1>16 DEF AlignedBy
  <2> QED BY <1>0, <1>16, <2>1, <2>2, PrepareHostFits DEF Good
<1>17. CASE s = "install_k3s"
  <2>1. p = K3sInstallScript
    BY <1>17 DEF Script
  <2>2. AlignedBy(s) = {}
    BY <1>17 DEF AlignedBy
  <2> QED BY <1>0, <1>17, <2>1, <2>2, K3sInstallFits DEF Good
<1>18. CASE s = "payload"
  <2>1. p = InstallPayloadScript
    BY <1>18 DEF Script
  <2>2. AlignedBy(s) = {} /\ Wants(s, w) = {<<"user">>, <<"release">>}
    BY <1>18 DEF AlignedBy, Wants
  <2> QED BY <1>0, <1>18, <2>1, <2>2, PayloadFits DEF Good
<1>19. CASE s = "ubuntu_swap"
  <2>1. p = UbuntuSwapScript
    BY <1>19 DEF Script
  <2>2. AlignedBy(s) = {}
    BY <1>19 DEF AlignedBy
  <2> QED BY <1>0, <1>19, <2>1, <2>2, UbuntuSwapFits DEF Good
<1>20. CASE s = "kubernetes"
  <2>1. p = BootstrapKubernetesScript
    BY <1>20 DEF Script
  <2>2. /\ AlignedBy(s) = {<<"core_images">>, <<"crds">>, <<"operator", "battlegroup">>}
        /\ Wants(s, w) = {<<"payload">>, <<"running">>}
    BY <1>20 DEF AlignedBy, Wants
  <2> QED BY <1>20, <2>1, <2>2, KubernetesFits DEF Good
<1>21. CASE s = "scheduler"
  <2>1. p = SchedulerScript(w)
    BY <1>21 DEF Script
  <2>2. AlignedBy(s) = {} /\ Wants(s, w) = {<<"world", w>>}
    BY <1>21 DEF AlignedBy, Wants
  <2> QED BY <1>0, <1>21, <2>1, <2>2, SchedulerFits DEF Good
<1>22. s # "version"
  BY PartRanges DEF ScriptSteps
<1>23. s \in Range(GuestSteps) \cup {"player_settings", "prepare_host", "install_k3s", "payload",
           "ubuntu_swap",
              "kubernetes", "scheduler"}
  BY DEF ScriptSteps
<1> QED BY <1>1, <1>2, <1>3, <1>4, <1>5, <1>6, <1>7, <1>8, <1>9, <1>10, <1>11, <1>12, <1>13, <1>14,
           <1>15, <1>16, <1>17, <1>18, <1>19, <1>20, <1>21, <1>22, <1>23, PartRanges
=============================================================================
