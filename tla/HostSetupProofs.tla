-------------------------- MODULE HostSetupProofs ---------------------------
(***************************************************************************)
(* Proofs about HostSetup, for any worlds, requests and releases, and any  *)
(* number of operations and faults. The actions of Next are gone through   *)
(* three times: for Basic, which holds of every behaviour; for Orderly, of *)
(* an operation that nothing runs beside; and for Easy, of one that no     *)
(* fault befell. For Orderly, Classes first sorts the steps that such an   *)
(* operation goes through: it passes a step, sends a script, performs an   *)
(* effect, loses a download, rests, or is at a step of the host.           *)
(***************************************************************************)
EXTENDS GuestScriptsProofs

-----------------------------------------------------------------------------
\* The order of the steps.

LEMMA Ranks ==
  /\ Rank("prepare_host") = 1 /\ Rank("install_k3s") = 2 /\ Rank("payload") = 3
  /\ Rank("kubernetes") = 4 /\ Rank("readiness") = 5 /\ Rank("existing") = 6
  /\ Rank("clear") = 7 /\ Rank("compare") = 8 /\ Rank("import") = 9 /\ Rank("switch") = 10
  /\ Rank("disk") = 11 /\ Rank("boot") = 12 /\ Rank("memory") = 13 /\ Rank("processors") = 14
  /\ Rank("start") = 15 /\ Rank("address") = 16 /\ Rank("player_settings") = 17
  /\ Rank("root_disk") = 18 /\ Rank("download") = 19 /\ Rank("start_k3s") = 20
  /\ Rank("core_images") = 21 /\ Rank("scale_core") = 22 /\ Rank("update_crds") = 23
  /\ Rank("operator_images") = 24 /\ Rank("scale_operators") = 25 /\ Rank("helper") = 26
  /\ Rank("create_world") = 27 /\ Rank("world_images") = 28 /\ Rank("version") = 29
  /\ Rank("sync") = 30 /\ Rank("patch_images") = 31 /\ Rank("defaults") = 32
  /\ Rank("scheduler") = 33 /\ Rank("ubuntu_swap") = 34
<1>1. /\ Rank("prepare_host") = 1 /\ Rank("install_k3s") = 2 /\ Rank("payload") = 3
      /\ Rank("kubernetes") = 4 /\ Rank("readiness") = 5 /\ Rank("existing") = 6
      /\ Rank("clear") = 7 /\ Rank("compare") = 8 /\ Rank("import") = 9 /\ Rank("switch") = 10
  BY DEF Rank
<1>2. /\ Rank("disk") = 11 /\ Rank("boot") = 12 /\ Rank("memory") = 13 /\ Rank("processors") = 14
      /\ Rank("start") = 15 /\ Rank("address") = 16 /\ Rank("player_settings") = 17
      /\ Rank("root_disk") = 18 /\ Rank("download") = 19 /\ Rank("start_k3s") = 20
  BY DEF Rank
<1>3. /\ Rank("core_images") = 21 /\ Rank("scale_core") = 22 /\ Rank("update_crds") = 23
      /\ Rank("operator_images") = 24 /\ Rank("scale_operators") = 25 /\ Rank("helper") = 26
      /\ Rank("create_world") = 27
  BY DEF Rank
<1>4. /\ Rank("world_images") = 28 /\ Rank("version") = 29
      /\ Rank("sync") = 30 /\ Rank("patch_images") = 31 /\ Rank("defaults") = 32
      /\ Rank("scheduler") = 33 /\ Rank("ubuntu_swap") = 34
  BY DEF Rank
<1> QED BY <1>1, <1>2, <1>3, <1>4

LEMMA RankIsNat == \A s \in StepNames : Rank(s) \in Nat
<1>1. \A n \in {1, 2, 3, 4, 5, 6, 7, 8, 9, 10, 11, 12, 13, 14, 15, 16, 17, 18, 19, 20, 21, 22,
                23, 24, 25, 26, 27, 28, 29, 30, 31, 32, 33, 34} : n \in Nat
  OBVIOUS
<1>2. \A s \in StepNames :
        Rank(s) \in {1, 2, 3, 4, 5, 6, 7, 8, 9, 10, 11, 12, 13, 14, 15, 16, 17, 18, 19, 20, 21, 22,
                23, 24, 25, 26, 27, 28, 29, 30, 31, 32, 33, 34}
  <2> TAKE s \in StepNames
  <2>1. CASE s \in {"readiness", "existing", "clear", "compare", "import", "switch", "disk", "boot",
                    "memory", "processors", "start", "address"}
    BY <2>1, Ranks
  <2>2. CASE s \in {"player_settings", "root_disk", "download", "start_k3s",
     "core_images", "scale_core", "update_crds", "operator_images", "scale_operators", "helper"}
    BY <2>2, Ranks
  <2>3. CASE s \in {"create_world", "world_images", "version", "sync", "patch_images", "defaults",
     "prepare_host", "install_k3s", "payload", "kubernetes", "scheduler", "ubuntu_swap"}
    BY <2>3, Ranks
  <2> QED BY <2>1, <2>2, <2>3 DEF StepNames
<1> QED BY <1>1, <1>2

LEMMA RankedOrdered ==
  ASSUME NEW s \in Seq(StepNames), NEW n \in Nat, RankedFrom(s, n)
  PROVE  Ordered(s)
BY DEF RankedFrom, Ordered

LEMMA UbuntuOrdered == UbuntuSteps \in Seq(StepNames) /\ Len(UbuntuSteps) = 12
    /\ Ordered(UbuntuSteps)
<1> DEFINE f(k) == IF k <= 4 THEN k ELSE IF k = 5 THEN 17 ELSE k + 21
<1>1. UbuntuSteps \in Seq(StepNames) /\ Len(UbuntuSteps) = 12
  BY DEF UbuntuSteps, StepNames
<1>2. /\ UbuntuSteps[1] = "prepare_host" /\ UbuntuSteps[2] = "install_k3s"
         /\ UbuntuSteps[3] = "payload"
      /\ UbuntuSteps[4] = "kubernetes" /\ UbuntuSteps[5] = "player_settings"
      /\ UbuntuSteps[6] = "create_world" /\ UbuntuSteps[7] = "world_images"
         /\ UbuntuSteps[8] = "version"
      /\ UbuntuSteps[9] = "sync" /\ UbuntuSteps[10] = "patch_images" /\ UbuntuSteps[11] = "defaults"
      /\ UbuntuSteps[12] = "scheduler"
  BY DEF UbuntuSteps
<1>3. \A k \in {1, 2, 3, 4, 5, 6, 7, 8, 9, 10, 11, 12} : Rank(UbuntuSteps[k]) = f(k)
  BY <1>2, Ranks
<1>4. 1 .. 12 = {1, 2, 3, 4, 5, 6, 7, 8, 9, 10, 11, 12}
  OBVIOUS
<1>5. \A k \in 1 .. Len(UbuntuSteps) : Rank(UbuntuSteps[k]) = f(k) /\ k \in Nat
  BY <1>1, <1>3, <1>4
<1>6. \A i, j \in Nat : i < j => f(i) < f(j)
  OBVIOUS
<1> HIDE DEF f
<1>7. Ordered(UbuntuSteps)
  BY <1>5, <1>6 DEF Ordered
<1> QED BY <1>1, <1>7

LEMMA SwapOrdered == SwapSteps \in Seq(StepNames) /\ Len(SwapSteps) = 1 /\ Ordered(SwapSteps)
BY DEF SwapSteps, StepNames, Ordered

\* The steps of every request are in the order of their ranks.
LEMMA StepsOrdered ==
  ASSUME NEW r \in Requests
  PROVE  /\ Steps(r) \in Seq(StepNames) /\ Steps(r) # <<>> /\ Ordered(Steps(r))
         /\ r.world \in Worlds /\ r.kind \in {"hyperv", "guest", "ubuntu"}
         /\ r.kind = "hyperv" => Steps(r) = HyperVSteps
         /\ r.kind = "guest" => Steps(r) = GuestSteps
         /\ r.kind = "ubuntu" => Steps(r) \in {UbuntuSteps, SwapSteps}
<1>1. /\ r.world \in Worlds /\ r.kind \in {"hyperv", "guest", "ubuntu"}
      /\ r.kind = "ubuntu" => r.steps \in {UbuntuSteps, SwapSteps}
  BY RequestsAssumption
<1>2. /\ r.kind = "hyperv" => Steps(r) = HyperVSteps
      /\ r.kind = "guest" => Steps(r) = GuestSteps
      /\ r.kind = "ubuntu" => Steps(r) = r.steps
  BY DEF Steps
<1>0. \A s \in Seq(StepNames) : Len(s) # 0 => s # <<>>
  OBVIOUS
<1>3. HyperVSteps \in Seq(StepNames) /\ HyperVSteps # <<>> /\ Ordered(HyperVSteps)
  <2>0. HyperVSteps \in Seq(StepNames) /\ Len(HyperVSteps) = 28
    BY HyperVRanked, Zenon
  <2>1. HyperVSteps # <<>>
    BY <1>0, <2>0
  <2> QED BY <2>1, HyperVRanked, RankedOrdered
<1>4. GuestSteps \in Seq(StepNames) /\ GuestSteps # <<>> /\ Ordered(GuestSteps)
  <2>0. GuestSteps \in Seq(StepNames) /\ Len(GuestSteps) = 15
    BY PartsRanked, Zenon
  <2>1. GuestSteps # <<>>
    BY <1>0, <2>0
  <2> QED BY <2>1, PartsRanked, RankedOrdered
<1>5. /\ UbuntuSteps \in Seq(StepNames) /\ UbuntuSteps # <<>> /\ Ordered(UbuntuSteps)
      /\ SwapSteps \in Seq(StepNames) /\ SwapSteps # <<>> /\ Ordered(SwapSteps)
  <2>0. /\ UbuntuSteps \in Seq(StepNames) /\ Len(UbuntuSteps) = 12
        /\ SwapSteps \in Seq(StepNames) /\ Len(SwapSteps) = 1
    BY UbuntuOrdered, SwapOrdered, Zenon

  <2>2. UbuntuSteps # <<>>
    <3>1. Len(UbuntuSteps) # 0
      BY <2>0
    <3> QED BY <1>0, <2>0, <3>1, Zenon
  <2>3. SwapSteps # <<>>
    BY <1>0, <2>0
  <2> QED BY <2>2, <2>3, UbuntuOrdered, SwapOrdered
<1> HIDE DEF Ordered
<1> QED BY <1>1, <1>2, <1>3, <1>4, <1>5, Zenon

\* The operation goes on to the next step.
LEMMA OrderedTail ==
  ASSUME NEW s \in Seq(StepNames), s # <<>>, Ordered(s)
  PROVE  /\ Ordered(Tail(s)) /\ Tail(s) \in Seq(StepNames) /\ Range(Tail(s)) \subseteq Range(s)
         /\ Head(s) \in Range(s) /\ Range(s) = {Head(s)} \cup Range(Tail(s))
         /\ \A x \in Range(Tail(s)) : Rank(Head(s)) < Rank(x)
         /\ Tail(s) # <<>> => /\ Head(Tail(s)) \in Range(Tail(s))
                              /\ \A x \in Range(Tail(s)) : Rank(Head(Tail(s))) <= Rank(x)
<1> DEFINE t == Tail(s)
<1>1. /\ Head(s) \in StepNames /\ t \in Seq(StepNames) /\ Len(s) \in Nat \ {0}
         /\ Len(t) = Len(s) - 1
      /\ s[1] = Head(s) /\ (\A k \in 1 .. Len(s) - 1 : t[k] = s[k + 1])
      /\ Range(s) = {Head(s)} \cup Range(t)
  BY HeadTail
<1> HIDE DEF t
<1>2. Ordered(t)
  <2> SUFFICES ASSUME NEW i \in 1 .. Len(t), NEW j \in 1 .. Len(t), i < j
               PROVE  Rank(t[i]) < Rank(t[j])
    BY DEF Ordered
  <2>1. i + 1 \in 1 .. Len(s) /\ j + 1 \in 1 .. Len(s) /\ i + 1 < j + 1
    BY <1>1
  <2>2. t[i] = s[i + 1] /\ t[j] = s[j + 1]
    BY <1>1
  <2> QED BY <2>1, <2>2 DEF Ordered
<1>3. ASSUME NEW x \in Range(t) PROVE Rank(Head(s)) < Rank(x)
  <2>1. PICK k \in 1 .. Len(t) : x = t[k]
    BY DEF Range
  <2>2. k + 1 \in 1 .. Len(s) /\ 1 \in 1 .. Len(s) /\ 1 < k + 1 /\ x = s[k + 1]
    BY <1>1, <2>1
  <2> QED BY <1>1, <2>2 DEF Ordered
<1>4. ASSUME t # <<>>
      PROVE  Head(t) \in Range(t) /\ \A x \in Range(t) : Rank(Head(t)) <= Rank(x)
  <2>1. Head(t) \in StepNames /\ Len(t) \in Nat \ {0} /\ t[1] = Head(t)
            /\ Range(t) = {Head(t)} \cup Range(Tail(t))
    BY <1>1, <1>4, HeadTail
  <2>2. Head(t) \in Range(t)
    BY <2>1
  <2>3. ASSUME NEW x \in Range(t) PROVE Rank(Head(t)) <= Rank(x)
    <3>1. PICK k \in 1 .. Len(t) : x = t[k]
      BY DEF Range
    <3>2. t[k] \in StepNames
      BY <1>1
    <3>3. Rank(x) \in Nat /\ Rank(Head(t)) \in Nat
      BY <2>1, <3>1, <3>2, RankIsNat
    <3>4. k = 1 \/ Rank(t[1]) < Rank(t[k])
      <4>1. k # 1 => 1 < k /\ 1 \in 1 .. Len(t)
        BY <2>1
      <4> QED BY <1>2, <4>1 DEF Ordered
    <3> QED BY <2>1, <3>1, <3>3, <3>4
  <2> QED BY <2>2, <2>3
<1> QED BY <1>1, <1>2, <1>3, <1>4 DEF t

-----------------------------------------------------------------------------
\* The operation of the client.

LEMMA ProceedIs ==
  ASSUME NEW o, Shaped(o)
  PROVE  LET n == Proceed(o)
         IN /\ Shaped(n)
            /\ n.request = o.request /\ n.todo
               = (IF Tail(o.todo) = <<>> THEN <<>> ELSE Tail(o.todo))
            /\ n.process = Absent /\ n.version = o.version /\ n.faulted = o.faulted
            /\ n.lost = o.lost /\ n.alone = o.alone /\ n.skipped = o.skipped /\ n.since = o.since
            /\ n.answer = (IF Tail(o.todo) = <<>> THEN "ok" ELSE o.answer)
<1>1. CASE Tail(o.todo) = <<>>
  <2>1. Proceed(o) = [request |-> o.request, todo |-> <<>>, process |-> Absent,
                      version |-> o.version, answer |-> "ok", faulted |-> o.faulted,
                      lost |-> o.lost, alone |-> o.alone, skipped |-> o.skipped, since |-> o.since]
    BY <1>1 DEF Shaped, Proceed, Finish
  <2> QED BY <1>1, <2>1 DEF Shaped
<1>2. CASE Tail(o.todo) # <<>>
  <2>1. Proceed(o) = [request |-> o.request, todo |-> Tail(o.todo), process |-> Absent,
                      version |-> o.version, answer |-> o.answer, faulted |-> o.faulted,
                      lost |-> o.lost, alone |-> o.alone, skipped |-> o.skipped, since |-> o.since]
    BY <1>2 DEF Shaped, Proceed
  <2> QED BY <1>2, <2>1 DEF Shaped
<1> QED BY <1>1, <1>2

LEMMA FinishIs ==
  ASSUME NEW o, NEW answer, Shaped(o)
  PROVE  LET n == Finish(o, answer)
         IN /\ Shaped(n)
            /\ n.request = o.request /\ n.todo = <<>> /\ n.process = Absent
            /\ n.version = o.version /\ n.faulted = o.faulted
            /\ n.lost = o.lost /\ n.alone = o.alone /\ n.skipped = o.skipped /\ n.since = o.since
            /\ n.answer = answer
<1>1. Finish(o, answer) =
         [request |-> o.request, todo |-> <<>>, process |-> Absent,
                      version |-> o.version, answer |-> answer, faulted |-> o.faulted,
                      lost |-> o.lost, alone |-> o.alone, skipped |-> o.skipped, since |-> o.since]
  <2> DEFINE r == o
  <2>1. /\ DOMAIN o = {"request", "todo", "process", "version", "answer", "faulted", "lost",
           "alone",
                      "skipped", "since"}
    BY DEF Shaped
  <2>2. Finish(o, answer) = [o EXCEPT !.todo = <<>>, !.process = Absent, !.answer = answer]
    BY DEF Finish
  <2>3. o = [request |-> o.request, todo |-> o.todo, process |-> o.process, version |-> o.version,
         answer |-> o.answer, faulted |-> o.faulted, lost |-> o.lost, alone |-> o.alone,
         skipped |-> o.skipped, since |-> o.since]
    BY DEF Shaped
  <2> QED BY <2>2, <2>3
<1> QED BY <1>1 DEF Shaped

LEMMA AskedFacts ==
  ASSUME Typed, Kind # "none"
  PROVE  /\ op.request \in Requests /\ op.request.world \in Worlds
         /\ Kind \in {"hyperv", "guest", "ubuntu"}
         /\ All \subseteq StepNames
         /\ Kind = "hyperv" => All = Range(HyperVSteps)
         /\ Kind = "guest" => All = Range(GuestSteps)
         /\ Kind = "ubuntu" => All \in {Range(UbuntuSteps), Range(SwapSteps)}
<1>1. op.request \in Requests
  BY DEF Typed, OpTyped, Kind
<1>2. /\ Steps(op.request) \in Seq(StepNames)
      /\ op.request.world \in Worlds /\ op.request.kind \in {"hyperv", "guest", "ubuntu"}
      /\ op.request.kind = "hyperv" => Steps(op.request) = HyperVSteps
      /\ op.request.kind = "guest" => Steps(op.request) = GuestSteps
      /\ op.request.kind = "ubuntu" => Steps(op.request) \in {UbuntuSteps, SwapSteps}
  BY <1>1, StepsOrdered
<1>3. \A s \in Seq(StepNames) : Range(s) \subseteq StepNames
  BY DEF Range
<1> QED BY <1>1, <1>2, <1>3 DEF All, Kind

LEMMA BusyFacts ==
  ASSUME Typed, TodoInv, Busy
  PROVE  /\ Kind # "none" /\ op.todo \in Seq(StepNames) /\ op.todo # <<>>
         /\ Head(op.todo) \in All /\ Head(op.todo) \in StepNames /\ Rank(Head(op.todo)) \in Nat
         /\ \A s \in StepNames : Past(s) <=> s \in All /\ Rank(s) < Rank(Head(op.todo))
         /\ ~Past(Head(op.todo))
<1>1. Kind # "none" /\ op.todo # <<>> /\ op.todo \in Seq(StepNames)
  BY DEF Typed, OpTyped, Kind, Busy, TodoInv
<1>2. Ordered(op.todo) /\ Range(op.todo) \subseteq All
  BY DEF TodoInv
<1>3. Head(op.todo) \in Range(op.todo)
  BY <1>1, <1>2, OrderedTail
<1>4. Head(op.todo) \in All /\ Head(op.todo) \in StepNames
  BY <1>1, <1>2, <1>3, AskedFacts
<1>5. Rank(Head(op.todo)) \in Nat
  BY <1>4, RankIsNat
<1>6. \A s \in StepNames : Past(s) <=> s \in All /\ Rank(s) < Rank(Head(op.todo))
  BY <1>1 DEF Past, Has
<1>7. ~(Rank(Head(op.todo)) < Rank(Head(op.todo)))
  BY <1>5
<1> QED BY <1>1, <1>4, <1>5, <1>6, <1>7

\* What comes before the step at hand is past.
LEMMA NextPast ==
  ASSUME Typed, TodoInv, Busy, op'.request = op.request, op'.todo = Tail(op.todo)
  PROVE  /\ TodoInv'
         /\ \A s \in StepNames : Past(s)' <=> Past(s) \/ At(s)
         /\ Busy' => /\ Head(op'.todo) \in All /\ Head(op'.todo) # Head(op.todo)
                     /\ Rank(Head(op.todo)) < Rank(Head(op'.todo))
<1> DEFINE todo == op.todo
           t == Tail(todo)
<1>1. /\ Kind # "none" /\ todo \in Seq(StepNames) /\ todo # <<>> /\ Rank(Head(todo)) \in Nat
      /\ Head(todo) \in All /\ Head(todo) \in StepNames
      /\ \A s \in StepNames : Past(s) <=> s \in All /\ Rank(s) < Rank(Head(todo))
  BY BusyFacts
<1>2. /\ Ordered(todo) /\ Range(todo) \subseteq All
      /\ \A s \in All : s \in Range(todo) \/ Rank(s) < Rank(Head(todo))
  BY DEF TodoInv
<1>3. All \subseteq StepNames
  BY <1>1, AskedFacts
<1>4. /\ Ordered(t) /\ t \in Seq(StepNames) /\ Range(t) \subseteq Range(todo)
      /\ Range(todo) = {Head(todo)} \cup Range(t)
      /\ \A x \in Range(t) : Rank(Head(todo)) < Rank(x)
      /\ t # <<>> => /\ Head(t) \in Range(t)
                     /\ \A x \in Range(t) : Rank(Head(t)) <= Rank(x)
  BY <1>1, <1>2, OrderedTail
<1>5. All' = All /\ Kind' = Kind /\ (Busy' <=> t # <<>>) /\ op'.todo = t
  BY DEF All, Kind, Busy
<1>6. \A s \in StepNames : At(s) <=> s = Head(todo)
  BY DEF At
<1>7. \A s \in StepNames : Rank(s) \in Nat
  BY RankIsNat
<1> HIDE DEF todo, t
<1>8. t # <<>> => Head(t) \in All /\ Head(t) \in StepNames /\ Rank(Head(todo)) < Rank(Head(t))
          /\ Rank(Head(t)) \in Nat
  BY <1>2, <1>3, <1>4, <1>7
<1>9. ASSUME t # <<>>, NEW s \in All
      PROVE  s \in Range(t) \/ Rank(s) < Rank(Head(t))
  <2>1. CASE s = Head(todo)
    BY <1>8, <1>9, <2>1
  <2>2. CASE Rank(s) < Rank(Head(todo))
    BY <1>1, <1>3, <1>7, <1>8, <1>9, <2>2
  <2> QED BY <1>2, <1>4, <2>1, <2>2
<1>10. TodoInv'
  <2>1. op'.todo \in Seq(StepNames)
    BY <1>4, <1>5
  <2>2. Busy' => /\ Range(op'.todo) \subseteq All'
                 /\ Ordered(op'.todo)
                 /\ \A s \in All' : s \in Range(op'.todo) \/ Rank(s) < Rank(Head(op'.todo))
    BY <1>2, <1>4, <1>5, <1>9
  <2> QED BY <2>1, <2>2 DEF TodoInv
<1>11. ASSUME NEW s \in StepNames
       PROVE  Past(s)' <=> Past(s) \/ At(s)
  <2>1. Past(s)' <=> s \in All /\ (t # <<>> => Rank(s) < Rank(Head(t)))
    BY <1>1, <1>5 DEF Past, Has
  <2>2. Past(s) \/ At(s) => Past(s)'
    <3>1. CASE s = Head(todo)
      BY <1>1, <1>8, <2>1, <3>1
    <3>2. CASE s \in All /\ Rank(s) < Rank(Head(todo))
      BY <1>1, <1>7, <1>8, <2>1, <3>2
    <3> QED BY <1>1, <1>6, <3>1, <3>2
  <2>3. Past(s)' => Past(s) \/ At(s)
    <3>1. CASE t # <<>> /\ s \in Range(t)
      <4>1. ~(Rank(s) < Rank(Head(t)))
        BY <1>4, <1>7, <1>8, <3>1
      <4> QED BY <2>1, <3>1, <4>1
    <3>2. CASE t = <<>>
      <4>1. Range(t) = {}
        BY <3>2, RangeOfTuple
      <4> QED BY <1>1, <1>2, <1>4, <1>6, <2>1, <4>1
    <3>3. CASE s \notin Range(t)
      BY <1>1, <1>2, <1>4, <1>6, <2>1, <3>3
    <3> QED BY <3>1, <3>2, <3>3
  <2> QED BY <2>2, <2>3
<1>12. Busy' => /\ Head(op'.todo) \in All /\ Head(op'.todo) # Head(todo)
                /\ Rank(Head(todo)) < Rank(Head(op'.todo))
  <2>1. ~(Rank(Head(todo)) < Rank(Head(todo)))
    BY <1>1
  <2> QED BY <1>5, <1>8, <2>1
<1> QED BY <1>10, <1>11, <1>12 DEF todo

-----------------------------------------------------------------------------
\* What each action has to see to for Basic.

\* The items that the guest changes by itself, and that a power cut clears.
Volatile == Pods \cup {<<"running">>}

\* What has to be there in every order has to be there in any.
LEMMA OrderNeeds ==
  ASSUME NEW e \in Effects
  PROVE  Needs("order", e) \subseteq Items \ Volatile
<1>1. Needs("order", e) \subseteq Items
  BY NeedsAreItems
<1>2. ASSUME NEW x \in Needs("order", e)
      PROVE  x[1] \in {"namespace", "secrets", "role", "payload"}
  <2>1. Needs("order", e) \subseteq Before(e.item) \cup {<<"payload">>}
    BY DEF Needs
  <2>2. CASE x = <<"payload">>
    BY <2>2
  <2>3. CASE x \in Before(e.item)
    BY <2>3 DEF Before
  <2> QED BY <1>2, <2>1, <2>2, <2>3
<1>3. \A x \in Volatile : x[1] \in {"pod", "running"}
  BY DEF Volatile, Pods
<1> QED BY <1>1, <1>2, <1>3

LEMMA SoundKept ==
  ASSUME NEW g, NEW h, NEW p \in Seq(Effects), Sound(g, p),
         \A x \in Items \ Volatile : There(g, x) => There(h, x)
  PROVE  Sound(h, p)
<1>1. ASSUME NEW k \in 1 .. Len(p), NEW x \in Needs("order", p[k])
      PROVE  There(h, x) \/ x \in {} \/ \E j \in 1 .. k - 1 : x \in Makes(p[j])
  <2>1. p[k] \in Effects
    OBVIOUS
  <2>2. x \in Items \ Volatile
    BY <1>1, <2>1, OrderNeeds
  <2>3. There(g, x) \/ x \in {} \/ \E j \in 1 .. k - 1 : x \in Makes(p[j])
    BY <1>1 DEF Sound, Ready, ReadyAfter
  <2> QED BY <2>2, <2>3
<1> QED BY <1>1 DEF Sound, Ready, ReadyAfter

\* The items that hold whatever stops.
LEMMA BaseItems ==
  /\ Base \subseteq Items \ Volatile
  /\ <<"os">> \in Items \ Volatile /\ <<"release">> \in Items \ Volatile
  /\ <<"payload">> \in Items \ Volatile /\ <<"running">> \in Items
  /\ Volatile \subseteq Items
<1>1. \A i \in {"k3s", "crds", "cert-manager", "os", "release", "payload",
          "running"} : <<i>> \in Items
  BY ItemsAre DEF HostItems
<1>2. \A o \in Range(Operators) : <<"operator", o>> \in Items
  BY OperatorIs
<1>3. Pods \subseteq Items
  BY ItemsAre DEF Pods, WorldItems
<1>4. \A x \in Volatile : x[1] \in {"pod", "running"}
  BY DEF Volatile, Pods
<1>5. Base \subseteq Items
  BY <1>1, <1>2 DEF Base
<1>6. \A x \in Base \cup {<<"os">>, <<"release">>, <<"payload">>} :
          x[1] \in {"k3s", "crds", "cert-manager", "operator", "os", "release", "payload"}
  BY DEF Base
<1> QED BY <1>1, <1>3, <1>4, <1>5, <1>6 DEF Volatile

LEMMA GuestMoves ==
  ASSUME Typed, GuestInv, GuestSound(guest'), OnUbuntu' <=> OnUbuntu,
         \A x \in Items \ Volatile : There(guest, x) => There(guest', x),
         vm' # Absent => vm # Absent,
         \A p \in Running' : p \in Running \/ Sound(guest', p)
  PROVE  GuestInv'
<1>1. ASSUME NEW p \in Running' PROVE Sound(guest', p)
  <2>1. CASE p \in Running
    <3>1. p \in Seq(Effects)
      BY <2>1 DEF Typed, OpTyped, Running, Waiting
    <3>2. Sound(guest, p)
      BY <2>1 DEF GuestInv
    <3> QED BY <3>1, <3>2, SoundKept
  <2> QED BY <1>1, <2>1
<1>2. ~OnUbuntu' /\ vm' # Absent => \A x \in Base : There(guest', x)
  <2>1. ~OnUbuntu' /\ vm' # Absent => \A x \in Base : There(guest, x)
    BY DEF GuestInv
  <2> QED BY <2>1, BaseItems
<1>3. GuestSound(guest)'
  BY DEF GuestSound, WorldsSound, RightsSound, DatabasesSound, There
<1>4. (\A x \in Base : There(guest, x))' <=> \A x \in Base : There(guest', x)
  BY DEF There
<1>5. (\A p \in Running : Sound(guest, p))' <=> \A p \in Running' : Sound(guest', p)
  BY DEF Sound, Ready, ReadyAfter, There
<1> QED BY <1>1, <1>2, <1>3, <1>4, <1>5 DEF GuestInv

LEMMA ClientFinishes ==
  ASSUME Typed, ClientInv, Busy, op'.request = op.request, op'.todo = <<>>, op'.process = Absent,
         op'.lost => op'.faulted, OnUbuntu' <=> OnUbuntu, Reachable' \/ orphans' = {}
  PROVE  ClientInv'
<1>1. ~Busy' /\ ~Waiting' /\ Kind' = Kind
  BY DEF Busy, Waiting, Kind
<1>2. TodoInv'
  <2>1. op'.todo \in Seq(StepNames)
    OBVIOUS
  <2> QED BY <1>1, <2>1 DEF TodoInv
<1>3. Kind # "none"
  BY BusyFacts DEF ClientInv
<1> QED BY <1>1, <1>2, <1>3 DEF ClientInv

LEMMA ClientSame ==
  ASSUME Typed, ClientInv, op'.request = op.request, op'.todo = op.todo, op'.version = op.version,
         op'.answer = op.answer, op'.lost => op'.faulted, OnUbuntu' <=> OnUbuntu,
         Waiting' => Busy /\ Head(op.todo) \in ScriptSteps,
         Reachable' \/ (orphans' = {} /\ ~Waiting'),
         vm' = Absent <=> vm = Absent
  PROVE  ClientInv'
<1>1. /\ Busy' <=> Busy
      /\ Kind' = Kind /\ All' = All
      /\ \A s : Past(s)' <=> Past(s)
  BY DEF Busy, Kind, All, Past, Has
<1>2. TodoInv'
  BY <1>1 DEF TodoInv, ClientInv
<1>3. /\ Busy' /\ Kind' = "hyperv" /\ 6 < Rank(Head(op'.todo)) /\ Rank(Head(op'.todo)) <= 9
         => vm' = Absent
      /\ Busy' /\ Kind' = "hyperv" /\ 9 < Rank(Head(op'.todo)) => vm' # Absent
      /\ Busy' /\ Past("version")' => op'.version # Absent
  BY <1>1 DEF ClientInv
<1>4. /\ Kind' = "ubuntu" => OnUbuntu'
      /\ Kind' \in {"hyperv", "guest"} => ~OnUbuntu'
  BY <1>1 DEF ClientInv
<1>5. Waiting' => Busy' /\ Head(op'.todo) \in ScriptSteps
  BY <1>1
<1>6. Busy' \/ Kind' = "none" => op'.answer = "none"
  BY <1>1 DEF ClientInv
<1> QED BY <1>2, <1>3, <1>4, <1>5, <1>6 DEF ClientInv

LEMMA Between ==
  ASSUME NEW a \in Nat, NEW b \in Nat, a < b, b <= 9
  PROVE  a # 9 /\ a <= 9
OBVIOUS

LEMMA ClientProceeds ==
  ASSUME Typed, ClientInv, Busy, op'.request = op.request, op'.todo = Tail(op.todo),
         op'.process = Absent, op'.lost => op'.faulted, OnUbuntu' <=> OnUbuntu,
         Tail(op.todo) # <<>> => op'.answer = op.answer,
         Reachable' \/ orphans' = {},
         op'.version = op.version \/ op'.version # Absent,
         At("version") => op'.version # Absent,
         \/ (vm' = Absent <=> vm = Absent) /\ ~At("existing") /\ ~At("import")
         \/ At("existing") /\ vm' = Absent
         \/ At("import") /\ vm' # Absent
  PROVE  ClientInv'
<1>1. /\ TodoInv'
      /\ \A s \in StepNames : Past(s)' <=> Past(s) \/ At(s)
      /\ Busy' => /\ Head(op'.todo) \in All /\ Head(op'.todo) # Head(op.todo)
                  /\ Rank(Head(op.todo)) < Rank(Head(op'.todo))
  BY NextPast DEF ClientInv
<1>2. ~Waiting' /\ Kind' = Kind /\ All' = All
  BY DEF Waiting, Kind, All
<1>3. /\ Kind # "none" /\ Head(op.todo) \in StepNames /\ Rank(Head(op.todo)) \in Nat
      /\ \A s \in StepNames : Past(s) <=> s \in All /\ Rank(s) < Rank(Head(op.todo))
  BY BusyFacts DEF ClientInv
<1>4. Busy' => \A s \in StepNames : Past(s)' <=> s \in All /\ Rank(s) < Rank(Head(op'.todo))
  BY <1>2, <1>3 DEF Past, Has
<1>5. {"existing", "import", "version"} \subseteq StepNames
  BY DEF StepNames
<1>6. Busy' => Rank(Head(op'.todo)) \in Nat
  <2>1. All \subseteq StepNames
    BY <1>3, AskedFacts
  <2> QED BY <1>1, <2>1, RankIsNat
<1>7. Kind = "hyperv" => "existing" \in All /\ "import" \in All
  <2>1. Kind = "hyperv" => All = Range(HyperVSteps)
    BY <1>3, AskedFacts
  <2> QED BY <2>1, HyperVRanked, PartRanges
<1>r. Rank("existing") = 6 /\ Rank("import") = 9
  BY Ranks, Zenon
<1>8. Busy' /\ Kind' = "hyperv" /\ 6 < Rank(Head(op'.todo)) /\ Rank(Head(op'.todo)) <= 9
          => vm' = Absent
  <2> SUFFICES ASSUME Busy', Kind' = "hyperv", 6 < Rank(Head(op'.todo)), Rank(Head(op'.todo)) <= 9
               PROVE  vm' = Absent
    OBVIOUS
  <2>1. Past("existing") \/ At("existing")
    BY <1>1, <1>2, <1>4, <1>5, <1>7, Ranks
  <2>0. /\ Rank(Head(op.todo)) \in Nat /\ Rank(Head(op'.todo)) \in Nat
        /\ Rank(Head(op.todo)) < Rank(Head(op'.todo))
    BY <1>1, <1>3, <1>6
  <2>2. ~At("import")
    <3>1. Rank(Head(op.todo)) # 9
      BY <2>0, Between
    <3> QED BY <1>r, <3>1 DEF At
  <2>3. CASE At("existing")
    BY <2>2, <2>3
  <2>4. CASE Past("existing")
    <3>1. 6 < Rank(Head(op.todo)) /\ Rank(Head(op.todo)) <= 9
      <4>1. Rank("existing") < Rank(Head(op.todo))
        BY <1>3, <1>5, <2>4
      <4> QED BY <1>r, <2>0, <4>1, Between
    <3>2. vm = Absent
      BY <1>2, <3>1 DEF ClientInv
    <3> QED BY <2>2, <3>2
  <2> QED BY <2>1, <2>3, <2>4
<1>9. Busy' /\ Kind' = "hyperv" /\ 9 < Rank(Head(op'.todo)) => vm' # Absent
  <2> SUFFICES ASSUME Busy', Kind' = "hyperv", 9 < Rank(Head(op'.todo))
               PROVE  vm' # Absent
    OBVIOUS
  <2>1. Past("import") \/ At("import")
    BY <1>1, <1>2, <1>4, <1>5, <1>7, Ranks
  <2>2. CASE At("import")
    <3>1. ~At("existing")
      BY <2>2 DEF At
    <3> QED BY <2>2, <3>1
  <2>3. CASE Past("import")
    <3>1. 9 < Rank(Head(op.todo))
      BY <1>3, <1>5, <2>3, Ranks
    <3>2. vm # Absent
      BY <1>2, <3>1 DEF ClientInv
    <3>3. ~At("existing") /\ ~At("import")
      <4>1. Rank(Head(op.todo)) # 6 /\ Rank(Head(op.todo)) # 9
        BY <1>3, <3>1
      <4> QED BY <1>r, <4>1 DEF At
    <3> QED BY <3>2, <3>3
  <2> QED BY <2>1, <2>2, <2>3
<1>10. Busy' /\ Past("version")' => op'.version # Absent
  <2>1. Past("version")' => Past("version") \/ At("version")
    BY <1>1, <1>5
  <2>2. Past("version") => op.version # Absent
    BY DEF ClientInv
  <2> QED BY <2>1, <2>2
<1>11. /\ Kind' = "ubuntu" => OnUbuntu'
       /\ Kind' \in {"hyperv", "guest"} => ~OnUbuntu'
  BY <1>2 DEF ClientInv
<1>12. Busy' \/ Kind' = "none" => op'.answer = "none"
  BY <1>2, <1>3 DEF ClientInv, Busy
<1> QED BY <1>1, <1>2, <1>8, <1>9, <1>10, <1>11, <1>12 DEF ClientInv

-----------------------------------------------------------------------------
\* The types, and what every step does to the operation.

\* Typed, but for the operation.
HostTyped ==
    /\ GuestTyped(guest)
    /\ vm \in Machines \cup {Absent}
    /\ begun \in Nat /\ generated \in Nat /\ faults \in Nat
    /\ orphans \subseteq Seq(Effects) \ {<<>>}

LEMMA TypedParts == (Typed <=> HostTyped /\ OpTyped(op)) /\ (Typed' <=> HostTyped' /\ OpTyped(op'))
BY DEF Typed, HostTyped

LEMMA ProceedTyped ==
  ASSUME NEW o, OpTyped(o), o.todo # <<>>
  PROVE  OpTyped(Proceed(o))
<1>1. Shaped(o)
  BY DEF OpTyped
<1> DEFINE n == Proceed(o)
<1>2. /\ Shaped(n)
      /\ n.request = o.request
      /\ n.process = Absent /\ n.version = o.version /\ n.faulted = o.faulted
      /\ n.lost = o.lost /\ n.alone = o.alone /\ n.skipped = o.skipped
  BY <1>1, ProceedIs
<1>3. o.request.kind # "none"
  BY DEF OpTyped
<1> HIDE DEF n
<1>4. OpTyped(n)
  BY <1>2, <1>3 DEF OpTyped
<1> QED BY <1>4 DEF n

LEMMA FinishTyped ==
  ASSUME NEW o, NEW answer, OpTyped(o)
  PROVE  OpTyped(Finish(o, answer))
<1>1. Shaped(o)
  BY DEF OpTyped
<1> DEFINE n == Finish(o, answer)
<1>2. /\ Shaped(n)
      /\ n.request = o.request /\ n.todo = <<>>
      /\ n.process = Absent /\ n.version = o.version /\ n.faulted = o.faulted
      /\ n.lost = o.lost /\ n.alone = o.alone /\ n.skipped = o.skipped
  BY <1>1, FinishIs
<1> HIDE DEF n
<1>3. OpTyped(n)
  BY <1>2 DEF OpTyped
<1> QED BY <1>3 DEF n

\* A record of the operation with other fields.
Changed(o, n, process, version, faulted, lost, alone, skipped) ==
    /\ Shaped(n)
    /\ n.request = o.request /\ n.todo = o.todo /\ n.answer = o.answer /\ n.since = o.since
    /\ n.process = process /\ n.version = version /\ n.faulted = faulted
    /\ n.lost = lost /\ n.alone = alone /\ n.skipped = skipped

LEMMA Except ==
  ASSUME NEW o, Shaped(o), NEW p, NEW v, NEW f, NEW k
  PROVE  /\ Changed(o, [o EXCEPT !.process = p], p, o.version, o.faulted, o.lost, o.alone,
            o.skipped)
         /\ Changed(o, [o EXCEPT !.version = v], o.process, v, o.faulted, o.lost, o.alone,
            o.skipped)
         /\ Changed(o, [o EXCEPT !.faulted = f], o.process, o.version, f, o.lost, o.alone,
            o.skipped)
         /\ Changed(o, [o EXCEPT !.faulted = TRUE], o.process, o.version, TRUE, o.lost, o.alone,
            o.skipped)
         /\ Changed(o, [o EXCEPT !.faulted = TRUE, !.lost = TRUE],
                    o.process, o.version, TRUE, TRUE, o.alone, o.skipped)
         /\ Changed(o, [o EXCEPT !.process = p, !.skipped = k],
                    p, o.version, o.faulted, o.lost, o.alone, k)
         /\ Changed(o, [o EXCEPT !.process = p, !.faulted = TRUE],
                    p, o.version, TRUE, o.lost, o.alone, o.skipped)
         /\ Changed(o, [o EXCEPT !.process = p, !.faulted = TRUE, !.alone = FALSE],
                    p, o.version, TRUE, o.lost, FALSE, o.skipped)
<1>1. ASSUME NEW n, Shaped(n), NEW x
      PROVE  /\ Changed(n, [n EXCEPT !.process = x], x, n.version, n.faulted, n.lost, n.alone,
                n.skipped)
             /\ Changed(n, [n EXCEPT !.version = x], n.process, x, n.faulted, n.lost, n.alone,
                n.skipped)
             /\ Changed(n, [n EXCEPT !.faulted = x], n.process, n.version, x, n.lost, n.alone,
                n.skipped)
             /\ Changed(n, [n EXCEPT !.lost = x], n.process, n.version, n.faulted, x, n.alone,
                n.skipped)
             /\ Changed(n, [n EXCEPT !.alone = x], n.process, n.version, n.faulted, n.lost, x,
                n.skipped)
             /\ Changed(n, [n EXCEPT !.skipped = x], n.process, n.version, n.faulted, n.lost,
                n.alone, x)
  <2>1. Changed(n, [n EXCEPT !.process = x], x, n.version, n.faulted, n.lost, n.alone, n.skipped)
    BY <1>1, SMT DEF Changed, Shaped
  <2>2. Changed(n, [n EXCEPT !.version = x], n.process, x, n.faulted, n.lost, n.alone, n.skipped)
    BY <1>1, SMT DEF Changed, Shaped
  <2>3. Changed(n, [n EXCEPT !.faulted = x], n.process, n.version, x, n.lost, n.alone, n.skipped)
    BY <1>1, SMT DEF Changed, Shaped
  <2>4. Changed(n, [n EXCEPT !.lost = x], n.process, n.version, n.faulted, x, n.alone, n.skipped)
    BY <1>1, SMT DEF Changed, Shaped
  <2>5. Changed(n, [n EXCEPT !.alone = x], n.process, n.version, n.faulted, n.lost, x, n.skipped)
    BY <1>1, SMT DEF Changed, Shaped
  <2>6. Changed(n, [n EXCEPT !.skipped = x], n.process, n.version, n.faulted, n.lost, n.alone, x)
    BY <1>1, SMT DEF Changed, Shaped
  <2> QED BY <2>1, <2>2, <2>3, <2>4, <2>5, <2>6
<1>2. ASSUME NEW n, NEW m, NEW p1, NEW v1, NEW f1, NEW l1, NEW a1, NEW k1,
             NEW p2, NEW v2, NEW f2, NEW l2, NEW a2, NEW k2,
             Changed(o, n, p1, v1, f1, l1, a1, k1), Changed(n, m, p2, v2, f2, l2, a2, k2)
      PROVE  Changed(o, m, p2, v2, f2, l2, a2, k2)
  BY <1>2, Zenon DEF Changed
<1> DEFINE P == [o EXCEPT !.process = p]
           F == [o EXCEPT !.faulted = TRUE]
           Q == [P EXCEPT !.faulted = TRUE]
<1>3. /\ [o EXCEPT !.faulted = TRUE, !.lost = TRUE] = [F EXCEPT !.lost = TRUE]
      /\ [o EXCEPT !.process = p, !.skipped = k] = [P EXCEPT !.skipped = k]
      /\ [o EXCEPT !.process = p, !.faulted = TRUE] = Q
      /\ [o EXCEPT !.process = p, !.faulted = TRUE, !.alone = FALSE] = [Q EXCEPT !.alone = FALSE]
  OBVIOUS
<1>4. /\ Changed(o, P, p, o.version, o.faulted, o.lost, o.alone, o.skipped)
      /\ Changed(o, F, o.process, o.version, TRUE, o.lost, o.alone, o.skipped)
  BY <1>1
<1>5. Changed(o, Q, p, o.version, TRUE, o.lost, o.alone, o.skipped)
  <2> HIDE DEF P
  <2>1. Shaped(P) /\ P.process = p /\ P.version = o.version /\ P.lost = o.lost
        /\ P.alone = o.alone /\ P.skipped = o.skipped
    BY <1>4 DEF Changed
  <2>2. Changed(P, Q, P.process, P.version, TRUE, P.lost, P.alone, P.skipped)
    BY <1>1, <2>1
  <2> HIDE DEF Q
  <2>3. Changed(P, Q, p, o.version, TRUE, o.lost, o.alone, o.skipped)
    BY <2>1, <2>2
  <2> QED BY <1>2, <1>4, <2>3, Zenon
<1>6. Changed(o, [F EXCEPT !.lost = TRUE], o.process, o.version, TRUE, TRUE, o.alone, o.skipped)
  <2> HIDE DEF F
  <2>1. Shaped(F) /\ F.process = o.process /\ F.version = o.version /\ F.faulted = TRUE
        /\ F.alone = o.alone /\ F.skipped = o.skipped
    BY <1>4 DEF Changed
  <2> DEFINE m == [F EXCEPT !.lost = TRUE]
  <2>2. Changed(F, m, F.process, F.version, F.faulted, TRUE, F.alone, F.skipped)
    BY <1>1, <2>1
  <2> HIDE DEF m
  <2>3. Changed(F, m, o.process, o.version, TRUE, TRUE, o.alone, o.skipped)
    BY <2>1, <2>2
  <2>4. Changed(o, m, o.process, o.version, TRUE, TRUE, o.alone, o.skipped)
    BY <1>2, <1>4, <2>3, Zenon
  <2> QED BY <2>4 DEF m
<1>7. Changed(o, [P EXCEPT !.skipped = k], p, o.version, o.faulted, o.lost, o.alone, k)
  <2> HIDE DEF P
  <2>1. Shaped(P) /\ P.process = p /\ P.version = o.version /\ P.faulted = o.faulted
        /\ P.lost = o.lost /\ P.alone = o.alone
    BY <1>4 DEF Changed
  <2> DEFINE m == [P EXCEPT !.skipped = k]
  <2>2. Changed(P, m, P.process, P.version, P.faulted, P.lost, P.alone, k)
    BY <1>1, <2>1
  <2> HIDE DEF m
  <2>3. Changed(P, m, p, o.version, o.faulted, o.lost, o.alone, k)
    BY <2>1, <2>2
  <2>4. Changed(o, m, p, o.version, o.faulted, o.lost, o.alone, k)
    BY <1>2, <1>4, <2>3, Zenon
  <2> QED BY <2>4 DEF m
<1>8. Changed(o, [Q EXCEPT !.alone = FALSE], p, o.version, TRUE, o.lost, FALSE, o.skipped)
  <2> HIDE DEF Q
  <2>1. Shaped(Q) /\ Q.process = p /\ Q.version = o.version /\ Q.faulted = TRUE
        /\ Q.lost = o.lost /\ Q.skipped = o.skipped
    BY <1>5 DEF Changed
  <2> DEFINE m == [Q EXCEPT !.alone = FALSE]
  <2>2. Changed(Q, m, Q.process, Q.version, Q.faulted, Q.lost, FALSE, Q.skipped)
    BY <1>1, <2>1
  <2> HIDE DEF m
  <2>3. Changed(Q, m, p, o.version, TRUE, o.lost, FALSE, o.skipped)
    BY <2>1, <2>2
  <2>4. Changed(o, m, p, o.version, TRUE, o.lost, FALSE, o.skipped)
    BY <1>2, <1>5, <2>3, Zenon
  <2> QED BY <2>4 DEF m
<1>9. /\ Changed(o, [o EXCEPT !.version = v], o.process, v, o.faulted, o.lost, o.alone, o.skipped)
      /\ Changed(o, [o EXCEPT !.faulted = f], o.process, o.version, f, o.lost, o.alone, o.skipped)
  BY <1>1
<1> QED
  BY <1>3, <1>4, <1>5, <1>6, <1>7, <1>8, <1>9, Zenon DEF P, F

LEMMA ChangedTyped ==
  ASSUME NEW o, NEW n, OpTyped(o), NEW p, NEW v, NEW f, NEW l, NEW a, NEW k,
         Changed(o, n, p, v, f, l, a, k),
         p \in Seq(Effects) \cup {Absent}, v \in Values,
         f \in BOOLEAN, l \in BOOLEAN, a \in BOOLEAN, k \in BOOLEAN
  PROVE  OpTyped(n)
BY DEF Changed, OpTyped

\* The operation goes on to its next step.
Proceeds ==
    /\ Busy
    /\ OpTyped(op')
    /\ op'.request = op.request /\ op'.todo = Tail(op.todo) /\ op'.process = Absent
    /\ op'.answer = (IF Tail(op.todo) = <<>> THEN "ok" ELSE op.answer)
    /\ op'.alone = op.alone /\ op'.skipped = op.skipped

\* The operation ends with an answer.
Ends(answer) ==
    /\ Busy
    /\ OpTyped(op')
    /\ op'.request = op.request /\ op'.todo = <<>> /\ op'.process = Absent
    /\ op'.answer = answer
    /\ op'.alone = op.alone /\ op'.skipped = op.skipped
    /\ op'.version = op.version

\* No fault is noted.
Keeps == op'.lost = op.lost /\ op'.faulted = op.faulted

\* What Proceed, Finish, Fail and Unanswered do to an operation.
LEMMA ProceedDoes ==
  ASSUME Typed, Busy, op' = Proceed(op)
  PROVE  Proceeds /\ Keeps /\ op'.version = op.version
<1>1. OpTyped(op) /\ Shaped(op) /\ op.todo # <<>>
  BY DEF Typed, OpTyped, Busy
<1>2. OpTyped(op')
  BY <1>1, ProceedTyped
<1>3. /\ op'.request = op.request /\ op'.todo
         = (IF Tail(op.todo) = <<>> THEN <<>> ELSE Tail(op.todo))
      /\ op'.process = Absent /\ op'.version = op.version /\ op'.faulted = op.faulted
      /\ op'.lost = op.lost /\ op'.alone = op.alone /\ op'.skipped = op.skipped
      /\ op'.answer = (IF Tail(op.todo) = <<>> THEN "ok" ELSE op.answer)
  BY <1>1, ProceedIs
<1>4. op'.todo = Tail(op.todo)
  BY <1>3
<1> QED BY <1>2, <1>3, <1>4 DEF Proceeds, Keeps

LEMMA FinishDoes ==
  ASSUME Typed, Busy, NEW answer, op' = Finish(op, answer)
  PROVE  Ends(answer) /\ Keeps
<1>1. OpTyped(op) /\ Shaped(op)
  BY DEF Typed, OpTyped
<1>2. OpTyped(op')
  BY <1>1, FinishTyped
<1>3. /\ op'.request = op.request /\ op'.todo = <<>>
      /\ op'.process = Absent /\ op'.version = op.version /\ op'.faulted = op.faulted
      /\ op'.lost = op.lost /\ op'.alone = op.alone /\ op'.skipped = op.skipped
      /\ op'.answer = answer
  BY <1>1, FinishIs
<1> QED BY <1>2, <1>3 DEF Ends, Keeps

LEMMA FailDoes ==
  ASSUME Typed, Busy, op' = [Finish(op, "error") EXCEPT !.faulted = TRUE]
  PROVE  Ends("error") /\ op'.lost = op.lost /\ op'.faulted
<1> DEFINE f == Finish(op, "error")
<1>1. OpTyped(op) /\ Shaped(op)
  BY DEF Typed, OpTyped
<1>2. OpTyped(f)
  BY <1>1, FinishTyped
<1>3. /\ Shaped(f)
      /\ f.request = op.request /\ f.todo = <<>>
      /\ f.process = Absent /\ f.version = op.version
      /\ f.lost = op.lost /\ f.alone = op.alone /\ f.skipped = op.skipped
      /\ f.answer = "error"
  BY <1>1, FinishIs
<1> HIDE DEF f
<1>4. Changed(f, op', f.process, f.version, TRUE, f.lost, f.alone, f.skipped)
  <2>1. op' = [f EXCEPT !.faulted = TRUE]
    BY DEF f
  <2> QED BY <1>3, <2>1, Except
<1>5. OpTyped(op')
  <2>1. /\ f.process \in Seq(Effects) \cup {Absent} /\ f.version \in Values /\ TRUE \in BOOLEAN
        /\ f.lost \in BOOLEAN /\ f.alone \in BOOLEAN /\ f.skipped \in BOOLEAN
    BY <1>2 DEF OpTyped
  <2> QED BY <1>2, <1>4, <2>1, ChangedTyped
<1> QED BY <1>3, <1>4, <1>5 DEF Ends, Changed

LEMMA UnansweredDoes ==
  ASSUME Typed, Busy, op' = Unanswered(op)
  PROVE  /\ op'.lost /\ op'.faulted /\ op'.version = op.version
         /\ Proceeds \/ Ends("error")
<1> DEFINE m == [op EXCEPT !.faulted = TRUE, !.lost = TRUE]
<1>1. OpTyped(op) /\ Shaped(op)
  BY DEF Typed, OpTyped
<1>2. Changed(op, m, op.process, op.version, TRUE, TRUE, op.alone, op.skipped)
  BY <1>1, Except
<1>3. op' = IF Head(op.todo) \in ParsedSteps THEN Finish(m, "error") ELSE Proceed(m)
  BY DEF Unanswered
<1> HIDE DEF m
<1>4. OpTyped(m)
  <2>1. /\ op.process \in Seq(Effects) \cup {Absent} /\ op.version \in Values /\ TRUE \in BOOLEAN
        /\ op.alone \in BOOLEAN /\ op.skipped \in BOOLEAN
    BY <1>1 DEF OpTyped
  <2> QED BY <1>1, <1>2, <2>1, ChangedTyped
<1>5. /\ Shaped(m) /\ m.todo = op.todo /\ m.request = op.request /\ m.version = op.version
      /\ m.faulted = TRUE /\ m.lost = TRUE /\ m.alone = op.alone /\ m.skipped = op.skipped
      /\ m.answer = op.answer
  BY <1>2 DEF Changed
<1>6. CASE Head(op.todo) \in ParsedSteps
  <2>1. OpTyped(op')
    BY <1>3, <1>4, <1>6, FinishTyped
  <2>2. /\ op'.request = m.request /\ op'.todo = <<>> /\ op'.process = Absent
        /\ op'.version = m.version /\ op'.faulted = m.faulted
        /\ op'.lost = m.lost /\ op'.alone = m.alone /\ op'.skipped = m.skipped
        /\ op'.answer = "error"
    BY <1>3, <1>5, <1>6, FinishIs
  <2> QED BY <1>5, <2>1, <2>2 DEF Ends
<1>7. CASE Head(op.todo) \notin ParsedSteps
  <2>0. m.todo # <<>>
    BY <1>5 DEF Busy
  <2>1. OpTyped(op')
    BY <1>3, <1>4, <1>7, <2>0, ProceedTyped
  <2>2. /\ op'.request = m.request /\ op'.todo
           = (IF Tail(m.todo) = <<>> THEN <<>> ELSE Tail(m.todo))
        /\ op'.process = Absent /\ op'.version = m.version /\ op'.faulted = m.faulted
        /\ op'.lost = m.lost /\ op'.alone = m.alone /\ op'.skipped = m.skipped
        /\ op'.answer = (IF Tail(m.todo) = <<>> THEN "ok" ELSE m.answer)
    BY <1>3, <1>5, <1>7, ProceedIs
  <2>3. op'.todo = Tail(op.todo)
    BY <1>5, <2>2
  <2> QED BY <1>5, <2>1, <2>2, <2>3 DEF Proceeds
<1> QED BY <1>6, <1>7

LEMMA BasicEnds ==
  ASSUME Basic, HostTyped', GuestInv', NEW answer, Ends(answer), op'.lost => op'.faulted,
         OnUbuntu' <=> OnUbuntu, Reachable' \/ orphans' = {}
  PROVE  Basic'
<1>1. Typed'
  BY TypedParts DEF Ends
<1>2. ClientInv'
  BY ClientFinishes DEF Basic, Ends
<1> QED BY <1>1, <1>2 DEF Basic

LEMMA BasicProceeds ==
  ASSUME Basic, HostTyped', GuestInv', Proceeds, op'.lost => op'.faulted,
         OnUbuntu' <=> OnUbuntu, Reachable' \/ orphans' = {},
         op'.version = op.version \/ op'.version # Absent,
         At("version") => op'.version # Absent,
         \/ (vm' = Absent <=> vm = Absent) /\ ~At("existing") /\ ~At("import")
         \/ At("existing") /\ vm' = Absent
         \/ At("import") /\ vm' # Absent
  PROVE  Basic'
<1>1. Typed'
  BY TypedParts DEF Proceeds
<1>2. ClientInv'
  BY ClientProceeds DEF Basic, Proceeds
<1> QED BY <1>1, <1>2 DEF Basic

\* A step that leaves the guest alone and whose scripts were running, or are sound.
LEMMA GuestStays ==
  ASSUME Basic, guest' = guest, vm' = Absent <=> vm = Absent,
         \A p \in Running' : p \in Running \/ Sound(guest, p)
  PROVE  GuestInv' /\ (OnUbuntu' <=> OnUbuntu)
<1>1. OnUbuntu' <=> OnUbuntu
  BY DEF OnUbuntu
<1>2. GuestSound(guest')
  BY DEF Basic, GuestInv
<1>3. \A p \in Running' : p \in Running \/ Sound(guest', p)
  OBVIOUS
<1>4. \A x \in Items \ Volatile : There(guest, x) => There(guest', x)
  OBVIOUS
<1> QED BY <1>1, <1>2, <1>3, <1>4, GuestMoves DEF Basic

\* The scripts that run are sound while no other one begins to.
LEMMA RunningLess ==
  ASSUME orphans' \subseteq orphans, op'.process = Absent
  PROVE  Running' \subseteq Running
BY DEF Running, Waiting

LEMMA ReachableStays ==
  ASSUME Typed, guest' = guest, vm' = vm \/ (vm # Absent /\ vm' # Absent /\ vm'.on = vm.on)
  PROVE  Reachable' <=> Reachable
BY DEF Reachable, OnUbuntu

-----------------------------------------------------------------------------
\* Basic: the steps of the client and of the host.

LEMMA NotThese == 
  /\ \A s \in {"readiness", "clear", "compare", "start", "address", "version"} \cup Settings :
        At(s) => ~At("existing") /\ ~At("import") /\ (s # "version" => ~At("version"))
  /\ Waiting /\ ClientInv => ~At("existing") /\ ~At("import") /\ ~At("version") /\ Busy
<1>1. {"existing", "import", "version"} \cap ScriptSteps = {}
  BY PartRanges DEF ScriptSteps
<1> QED BY <1>1 DEF At, Settings, ClientInv

\* Steps that change the operation alone.
LEMMA QuietEnd ==
  ASSUME Basic, HostTyped', guest' = guest, orphans' \subseteq orphans,
         vm' = vm \/ (vm # Absent /\ vm' # Absent /\ vm'.on = vm.on),
         NEW answer, Ends(answer), op'.lost => op'.faulted
  PROVE  Basic'
<1>1. Running' \subseteq Running
  BY RunningLess DEF Ends
<1>2. GuestInv' /\ (OnUbuntu' <=> OnUbuntu)
  BY <1>1, GuestStays
<1>3. Reachable' <=> Reachable
  BY ReachableStays DEF Basic
<1>4. Reachable' \/ orphans' = {}
  BY <1>3 DEF Basic, ClientInv
<1> QED BY <1>2, <1>4, BasicEnds

LEMMA QuietProceed ==
  ASSUME Basic, HostTyped', guest' = guest, orphans' \subseteq orphans,
         vm' = vm \/ (vm # Absent /\ vm' # Absent /\ vm'.on = vm.on),
         Proceeds, op'.lost => op'.faulted,
         op'.version = op.version \/ op'.version # Absent,
         At("version") => op'.version # Absent, ~At("existing"), ~At("import")
  PROVE  Basic'
<1>1. Running' \subseteq Running
  BY RunningLess DEF Proceeds
<1>2. GuestInv' /\ (OnUbuntu' <=> OnUbuntu)
  BY <1>1, GuestStays
<1>3. Reachable' <=> Reachable
  BY ReachableStays DEF Basic
<1>4. Reachable' \/ orphans' = {}
  BY <1>3 DEF Basic, ClientInv
<1> QED BY <1>2, <1>4, BasicProceeds

LEMMA LostKept ==
  ASSUME Basic, Keeps
  PROVE  op'.lost => op'.faulted
BY DEF Basic, ClientInv, Keeps

LEMMA HostTypedStays ==
  ASSUME Typed, UNCHANGED <<vm, guest, orphans, begun, generated>>, faults' \in Nat
  PROVE  HostTyped'
BY DEF Typed, HostTyped

LEMMA BasicReadiness ==
  ASSUME Basic, Readiness
  PROVE  Basic'
<1>1. Busy /\ Typed
  BY DEF Readiness, At, Basic
<1>2. Proceeds /\ Keeps /\ op'.version = op.version
  BY <1>1, ProceedDoes DEF Readiness
<1>3. HostTyped'
  BY HostTypedStays DEF Readiness, host, Basic, Typed
<1>4. ~At("existing") /\ ~At("import") /\ ~At("version")
  BY NotThese DEF Readiness
<1> QED BY <1>2, <1>3, <1>4, LostKept, QuietProceed DEF Readiness, host

LEMMA BasicClear ==
  ASSUME Basic, Clear
  PROVE  Basic'
<1>1. Busy /\ Typed
  BY DEF Clear, At, Basic
<1>2. HostTyped'
  BY HostTypedStays DEF Clear, Basic, Typed
<1>3. ~At("existing") /\ ~At("import") /\ ~At("version")
  BY NotThese DEF Clear
<1>4. CASE op' = Proceed(op)
  <2>1. Proceeds /\ Keeps /\ op'.version = op.version
    BY <1>1, <1>4, ProceedDoes
  <2> QED BY <1>2, <1>3, <2>1, LostKept, QuietProceed DEF Clear
<1>5. CASE op' = Finish(op, "occupied")
  <2>1. Ends("occupied") /\ Keeps
    BY <1>1, <1>5, FinishDoes
  <2> QED BY <1>2, <1>3, <2>1, LostKept, QuietEnd DEF Clear
<1> QED BY <1>4, <1>5 DEF Clear

LEMMA BasicCompare ==
  ASSUME Basic, Compare
  PROVE  Basic'
<1>1. Busy /\ Typed
  BY DEF Compare, At, Basic
<1>2. HostTyped'
  BY HostTypedStays DEF Compare, host, Basic, Typed
<1>3. ~At("existing") /\ ~At("import") /\ ~At("version")
  BY NotThese DEF Compare
<1>4. CASE op' = Proceed(op)
  <2>1. Proceeds /\ Keeps /\ op'.version = op.version
    BY <1>1, <1>4, ProceedDoes
  <2> QED BY <1>2, <1>3, <2>1, LostKept, QuietProceed DEF Compare, host
<1>5. CASE op' = Finish(op, "incompatible")
  <2>1. Ends("incompatible") /\ Keeps
    BY <1>1, <1>5, FinishDoes
  <2> QED BY <1>2, <1>3, <2>1, LostKept, QuietEnd DEF Compare, host
<1> QED BY <1>4, <1>5 DEF Compare

LEMMA SettingAdded ==
  ASSUME NEW m \in Machines, NEW step \in Settings
  PROVE  LET n == [m EXCEPT !.set = @ \cup {step}]
         IN n \in Machines /\ n.on = m.on /\ n.files = m.files /\ n.here = m.here
            /\ n.set = m.set \cup {step}
BY DEF Machines

LEMMA BasicConfigure ==
  ASSUME Basic, NEW step \in Settings, Configure(step)
  PROVE  Basic'
<1>1. Busy /\ Typed
  BY DEF Configure, At, Basic
<1>2. ~At("existing") /\ ~At("import") /\ ~At("version")
  BY DEF Configure, At, Settings
<1>3. CASE op' = Finish(op, "error") /\ UNCHANGED vm
  <2>1. Ends("error") /\ Keeps
    BY <1>1, <1>3, FinishDoes
  <2>2. HostTyped'
    BY <1>3, HostTypedStays DEF Configure, Basic, Typed
  <2> QED BY <1>2, <1>3, <2>1, <2>2, LostKept, QuietEnd DEF Configure
<1>4. CASE vm # Absent /\ op' = Proceed(op) /\ vm' = [vm EXCEPT !.set = @ \cup {step}]
  <2>1. Proceeds /\ Keeps /\ op'.version = op.version
    BY <1>1, <1>4, ProceedDoes
  <2>2. vm \in Machines
    BY <1>4 DEF Basic, Typed
  <2>3. vm' \in Machines /\ vm'.on = vm.on
    BY <1>4, <2>2, SettingAdded
  <2>4. vm' # Absent
    BY <2>3, Present
  <2>5. HostTyped'
    BY <2>3 DEF Configure, Basic, Typed, HostTyped
  <2> QED BY <1>2, <1>4, <2>1, <2>3, <2>4, <2>5, LostKept, QuietProceed DEF Configure
<1> QED BY <1>3, <1>4 DEF Configure

LEMMA BasicAddress ==
  ASSUME Basic, Address
  PROVE  Basic'
<1>1. Busy /\ Typed
  BY DEF Address, At, Basic
<1>2. HostTyped'
  BY HostTypedStays DEF Address, host, Basic, Typed
<1>3. ~At("existing") /\ ~At("import") /\ ~At("version")
  BY NotThese DEF Address
<1>4. CASE op' = Proceed(op)
  <2>1. Proceeds /\ Keeps /\ op'.version = op.version
    BY <1>1, <1>4, ProceedDoes
  <2> QED BY <1>2, <1>3, <2>1, LostKept, QuietProceed DEF Address, host
<1>5. CASE op' = Finish(op, "error")
  <2>1. Ends("error") /\ Keeps
    BY <1>1, <1>5, FinishDoes
  <2> QED BY <1>2, <1>3, <2>1, LostKept, QuietEnd DEF Address, host
<1> QED BY <1>4, <1>5 DEF Address

LEMMA VersionDoes ==
  ASSUME Typed, NEW v \in Values, Busy, op' = Proceed([op EXCEPT !.version = v])
  PROVE  Proceeds /\ Keeps /\ op'.version = v
<1> DEFINE m == [op EXCEPT !.version = v]
<1>1. OpTyped(op) /\ Shaped(op)
  BY DEF Typed, OpTyped
<1>2. Changed(op, m, op.process, v, op.faulted, op.lost, op.alone, op.skipped)
  BY <1>1, Except
<1>3. op' = Proceed(m)
  OBVIOUS
<1> HIDE DEF m
<1>4. OpTyped(m)
  <2>1. /\ op.process \in Seq(Effects) \cup {Absent} /\ op.faulted \in BOOLEAN
           /\ op.lost \in BOOLEAN
        /\ op.alone \in BOOLEAN /\ op.skipped \in BOOLEAN
    BY <1>1 DEF OpTyped
  <2> QED BY <1>1, <1>2, <2>1, ChangedTyped
<1>5. /\ Shaped(m) /\ m.todo = op.todo /\ m.request = op.request /\ m.version = v
      /\ m.faulted = op.faulted /\ m.lost = op.lost /\ m.alone = op.alone /\ m.skipped = op.skipped
      /\ m.answer = op.answer
  BY <1>2 DEF Changed
<1>6. m.todo # <<>>
  BY <1>5 DEF Busy
<1>7. OpTyped(op')
  BY <1>3, <1>4, <1>6, ProceedTyped
<1>8. /\ op'.request = m.request /\ op'.todo = (IF Tail(m.todo) = <<>> THEN <<>> ELSE Tail(m.todo))
      /\ op'.process = Absent /\ op'.version = m.version /\ op'.faulted = m.faulted
      /\ op'.lost = m.lost /\ op'.alone = m.alone /\ op'.skipped = m.skipped
      /\ op'.answer = (IF Tail(m.todo) = <<>> THEN "ok" ELSE m.answer)
  BY <1>3, <1>5, ProceedIs
<1>9. op'.todo = Tail(op.todo)
  BY <1>5, <1>8
<1> QED BY <1>5, <1>7, <1>8, <1>9 DEF Proceeds, Keeps

LEMMA BasicReadVersion ==
  ASSUME Basic, ReadVersion
  PROVE  Basic'
<1>1. Busy /\ Typed
  BY DEF ReadVersion, At, Basic
<1>2. HostTyped'
  BY HostTypedStays DEF ReadVersion, host, Basic, Typed
<1>3. ~At("existing") /\ ~At("import")
  BY DEF ReadVersion, At
<1>4. CASE There(guest, <<"payload">>) /\ op'
           = Proceed([op EXCEPT !.version = guest[<<"payload">>]])
  <2>1. guest[<<"payload">>] \in Values /\ guest[<<"payload">>] # Absent
    BY <1>1, <1>4, PayloadValue DEF Typed, GuestTyped
  <2>2. Proceeds /\ Keeps /\ op'.version = guest[<<"payload">>]
    BY <1>1, <1>4, <2>1, VersionDoes
  <2> QED BY <1>2, <1>3, <2>1, <2>2, LostKept, QuietProceed DEF ReadVersion, host
<1>5. CASE op' = Finish(op, "error")
  <2>1. Ends("error") /\ Keeps
    BY <1>1, <1>5, FinishDoes
  <2> QED BY <1>2, <1>3, <2>1, LostKept, QuietEnd DEF ReadVersion, host
<1> QED BY <1>4, <1>5 DEF ReadVersion

LEMMA BasicAnswered ==
  ASSUME Basic, Answered
  PROVE  Basic'
<1>1. ~At("existing") /\ ~At("import") /\ ~At("version") /\ Busy /\ Typed
  BY NotThese DEF Answered, Basic
<1>2. HostTyped'
  BY HostTypedStays DEF Answered, host, Basic, Typed
<1>3. Proceeds /\ Keeps /\ op'.version = op.version
  BY <1>1, ProceedDoes DEF Answered
<1> QED BY <1>1, <1>2, <1>3, LostKept, QuietProceed DEF Answered, host

LEMMA BasicOrphanEnds ==
  ASSUME Basic, NEW o \in orphans, OrphanEnds(o)
  PROVE  Basic'
<1>1. Running' \subseteq Running
  BY DEF OrphanEnds, Running, Waiting
<1>2. guest' = guest /\ vm' = vm /\ op' = op /\ orphans' \subseteq orphans
  BY DEF OrphanEnds, host
<1>3. GuestInv' /\ (OnUbuntu' <=> OnUbuntu)
  BY <1>1, <1>2, GuestStays
<1>4. Typed'
  BY <1>2 DEF Basic, Typed, OrphanEnds
<1>5. Reachable' <=> Reachable
  BY <1>2 DEF Reachable, OnUbuntu
<1>6. Waiting' <=> Waiting
  BY <1>2 DEF Waiting
<1>7. ClientInv'
  <2>1. op'.lost => op'.faulted
    BY <1>2 DEF Basic, ClientInv
  <2>2. Waiting' => Busy /\ Head(op.todo) \in ScriptSteps
    BY <1>6 DEF Basic, ClientInv
  <2>3. Reachable' \/ (orphans' = {} /\ ~Waiting')
    BY <1>2, <1>5, <1>6 DEF Basic, ClientInv
  <2> QED BY <1>2, <1>3, <2>1, <2>2, <2>3, ClientSame DEF Basic
<1> QED BY <1>3, <1>4, <1>7 DEF Basic

-----------------------------------------------------------------------------
\* Basic: scripts that nobody waits for, and scripts that are sent.

LEMMA EmptySound == \A g : Sound(g, <<>>) /\ <<>> \in Seq(Effects)
BY RangeOfTuple DEF Sound, Ready, ReadyAfter

\* A connection is lost, or the client gives up: what ran goes on.
LEMMA AbandonedRuns ==
  ASSUME Typed, Waiting
  PROVE  /\ Abandoned \subseteq Running \cup {<<>>}
         /\ Abandoned \subseteq Seq(Effects) \ {<<>>}
BY EmptySound DEF Abandoned, Running, Typed, OpTyped, Waiting

LEMMA AbandonedGuest ==
  ASSUME Basic, Waiting, guest' = guest, vm' = vm, orphans' = Abandoned, op'.process = Absent
  PROVE  GuestInv' /\ (OnUbuntu' <=> OnUbuntu) /\ Reachable'
<1>1. Running' \subseteq Running
  BY DEF Running, Waiting, Abandoned
<1>2. Reachable' <=> Reachable
  BY DEF Reachable, OnUbuntu
<1>3. Reachable
  BY DEF Basic, ClientInv
<1> QED BY <1>1, <1>2, <1>3, GuestStays

LEMMA BasicStepFails ==
  ASSUME Basic, StepFails
  PROVE  Basic'
<1>1. HostTyped'
  BY HostTypedStays DEF StepFails, Fault, Basic, Typed
<1>2. Ends("error") /\ op'.faulted
  BY FailDoes DEF StepFails, Basic
<1> QED BY <1>1, <1>2, QuietEnd DEF StepFails

LEMMA AbandonedTyped ==
  ASSUME Typed, Waiting, orphans' = Abandoned, UNCHANGED <<host, guest, begun, generated>>, Fault
  PROVE  HostTyped'
BY AbandonedRuns DEF Typed, HostTyped, host, Fault

LEMMA BasicTimesOut ==
  ASSUME Basic, TimesOut
  PROVE  Basic'
<1>1. HostTyped'
  BY AbandonedTyped DEF TimesOut, Basic
<1>2. Ends("error") /\ op'.faulted
  BY FailDoes DEF TimesOut, Basic, ClientInv
<1>3. GuestInv' /\ (OnUbuntu' <=> OnUbuntu) /\ Reachable'
  BY <1>2, AbandonedGuest DEF TimesOut, host, Ends
<1> QED BY <1>1, <1>2, <1>3, BasicEnds

LEMMA BasicConnectionLost ==
  ASSUME Basic, ConnectionLost
  PROVE  Basic'
<1>1. HostTyped'
  BY AbandonedTyped DEF ConnectionLost, Basic
<1>2. ~At("existing") /\ ~At("import") /\ ~At("version") /\ Busy
  BY NotThese DEF ConnectionLost, Basic
<1>3. /\ op'.lost /\ op'.faulted /\ op'.version = op.version
      /\ Proceeds \/ Ends("error")
  BY <1>2, UnansweredDoes DEF ConnectionLost, Basic
<1>4. op'.process = Absent
  BY <1>3 DEF Proceeds, Ends
<1>5. GuestInv' /\ (OnUbuntu' <=> OnUbuntu) /\ Reachable'
  BY <1>4, AbandonedGuest DEF ConnectionLost, host
<1>6. vm' = Absent <=> vm = Absent
  BY DEF ConnectionLost, host
<1>7. CASE Proceeds
  BY <1>1, <1>2, <1>3, <1>5, <1>6, <1>7, BasicProceeds
<1>8. CASE Ends("error")
  BY <1>1, <1>3, <1>5, <1>8, BasicEnds
<1> QED BY <1>3, <1>7, <1>8

\* The operation stays where it is, with another script.
LEMMA QuietSame ==
  ASSUME Basic, guest' = guest, HostTyped', vm' = vm, OpTyped(op'),
         op'.request = op.request, op'.todo = op.todo, op'.version = op.version,
         op'.answer = op.answer,
         op'.lost => op'.faulted, Busy, Head(op.todo) \in ScriptSteps, Reachable,
         \A p \in Running' : p \in Running \/ Sound(guest, p)
  PROVE  Basic'
<1>1. GuestInv' /\ (OnUbuntu' <=> OnUbuntu)
  BY GuestStays
<1>2. Reachable'
  BY DEF Reachable, OnUbuntu
<1>3. Typed'
  BY TypedParts
<1>4. ClientInv'
  BY <1>1, <1>2, ClientSame DEF Basic
<1> QED BY <1>1, <1>3, <1>4 DEF Basic

LEMMA BusyWorld ==
  ASSUME Basic, Busy
  PROVE  op.request.world \in Worlds /\ Kind # "none"
BY BusyFacts, AskedFacts DEF Basic, ClientInv

LEMMA PatchVersion ==
  ASSUME Basic, Busy, Head(op.todo) = "patch_images"
  PROVE  op.version \in Values /\ op.version # Absent /\ Past("version")
<1>1. Past("version")
  <2>1. /\ Kind # "none" /\ Head(op.todo) \in All
        /\ \A s \in StepNames : Past(s) <=> s \in All /\ Rank(s) < Rank(Head(op.todo))
    BY BusyFacts DEF Basic, ClientInv
  <2>2. "version" \in StepNames
    BY DEF StepNames
  <2>3. "version" \in All
    BY <2>1, AskedFacts, HyperVRanked, PartRanges DEF Basic
  <2>4. Rank("version") = 29 /\ Rank("patch_images") = 31
    BY Ranks, Zenon
  <2> QED BY <2>1, <2>2, <2>3, <2>4
<1> QED BY <1>1 DEF Basic, Typed, OpTyped, ClientInv

\* The script of the step at hand.
LEMMA ScriptSound ==
  ASSUME Basic, Busy, Head(op.todo) \in ScriptSteps
  PROVE  Script(op) \in Seq(Effects) /\ Sound(guest, Script(op))
<1>1. op.request.world \in Worlds
  BY BusyWorld
<1>2. Head(op.todo) = "patch_images" => op.version \in Values /\ op.version # Absent
  BY PatchVersion
<1>3. Good("order", guest, Head(op.todo), op.request.world, op.version, Script(op))
  <2> DEFINE s == Head(op.todo)
  <2>1. s \in ScriptSteps /\ s = Head(op.todo)
    OBVIOUS
  <2> HIDE DEF s
  <2>2. s = "patch_images" => op.version \in Values /\ op.version # Absent
    BY <1>2, <2>1
  <2>3. Good("order", guest, s, op.request.world, op.version, Script(op))
    BY <1>1, <2>1, <2>2, GoodScript
  <2> QED BY <2>1, <2>3
<1>4. Fit("order", guest, {}, Script(op))
  BY <1>3 DEF Good
<1>5. Script(op) \in Seq(Effects)
  BY <1>4 DEF Fit
<1> QED BY <1>4, <1>5, SoundFits

LEMMA BasicSend ==
  ASSUME Basic, Send
  PROVE  Basic'
<1>1. Busy /\ Typed /\ Head(op.todo) \in ScriptSteps
  BY DEF Send, Basic
<1>2. HostTyped'
  BY HostTypedStays DEF Send, host, Basic, Typed
<1>3. CASE ~Reachable
  <2>1. Ends("error") /\ Keeps
    BY <1>1, <1>3, FinishDoes DEF Send
  <2> QED BY <1>2, <2>1, LostKept, QuietEnd DEF Send, host
<1>4. CASE Reachable
  <2> DEFINE p == Script(op)
  <2>1. p \in Seq(Effects) /\ Sound(guest, p)
    BY <1>1, ScriptSound
  <2>2. Changed(op, op', p, op.version, op.faulted, op.lost, op.alone, op.skipped)
    <3>1. op' = [op EXCEPT !.process = p]
      BY <1>4 DEF Send
    <3> QED BY <1>1, <3>1, Except DEF Typed, OpTyped
  <2> HIDE DEF p
  <2>3. OpTyped(op')
    <3>1. /\ OpTyped(op) /\ op.version \in Values /\ op.faulted \in BOOLEAN /\ op.lost \in BOOLEAN
          /\ op.alone \in BOOLEAN /\ op.skipped \in BOOLEAN
      BY <1>1 DEF Typed, OpTyped
    <3> QED BY <2>1, <2>2, <3>1, ChangedTyped
  <2>4. Running' \subseteq Running \cup {p}
    BY <2>2 DEF Running, Waiting, Send, Changed
  <2>5. op'.lost => op'.faulted
    BY <2>2 DEF Changed, Basic, ClientInv
  <2>6. op'.request = op.request /\ op'.todo = op.todo /\ op'.version = op.version
        /\ op'.answer = op.answer
    BY <2>2 DEF Changed
  <2>7. guest' = guest /\ vm' = vm
    BY DEF Send, host
  <2> QED BY <1>1, <1>2, <1>4, <2>1, <2>3, <2>4, <2>5, <2>6, <2>7, QuietSame
<1> QED BY <1>3, <1>4

LEMMA BasicScriptResent ==
  ASSUME Basic, ScriptResent
  PROVE  Basic'
<1>1. Busy /\ Typed /\ Head(op.todo) \in ScriptSteps /\ Reachable /\ Waiting
  BY DEF ScriptResent, Basic, ClientInv
<1>2. HostTyped'
  BY AbandonedTyped DEF ScriptResent, Basic
<1> DEFINE p == Script(op)
<1>3. p \in Seq(Effects) /\ Sound(guest, p)
  BY <1>1, ScriptSound
<1>4. Changed(op, op', p, op.version, TRUE, op.lost, FALSE, op.skipped)
  <2>1. op' = [op EXCEPT !.process = p, !.faulted = TRUE, !.alone = FALSE]
    BY DEF ScriptResent
  <2> QED BY <1>1, <2>1, Except DEF Typed, OpTyped
<1> HIDE DEF p
<1>5. OpTyped(op')
  BY <1>1, <1>3, <1>4, ChangedTyped DEF Typed, OpTyped
<1>6. Running' \subseteq Running \cup {<<>>, p}
  BY <1>1, <1>4, AbandonedRuns DEF Running, Waiting, ScriptResent, Changed
<1>7. \A q \in Running' : q \in Running \/ Sound(guest, q)
  BY <1>3, <1>6, EmptySound
<1>8. op'.lost => op'.faulted
  BY <1>4 DEF Changed
<1>9. op'.request = op.request /\ op'.todo = op.todo /\ op'.version = op.version
      /\ op'.answer = op.answer
  BY <1>4 DEF Changed
<1>10. guest' = guest /\ vm' = vm
  BY DEF ScriptResent, host
<1> QED BY <1>1, <1>2, <1>5, <1>7, <1>8, <1>9, <1>10, QuietSame

LEMMA DownloadRuns ==
  ASSUME ClientInv, Downloads(op.process)
  PROVE  Waiting /\ op.process # <<>> /\ Busy /\ Reachable /\ Head(op.todo) \in ScriptSteps
BY DEF Downloads, Waiting, ClientInv

LEMMA BasicDownloadFails ==
  ASSUME Basic, DownloadFails
  PROVE  Basic'
<1>1. Waiting /\ op.process # <<>> /\ Busy /\ Reachable /\ Head(op.todo) \in ScriptSteps /\ Typed
  BY DownloadRuns DEF DownloadFails, Basic
<1>2. HostTyped'
  BY HostTypedStays DEF DownloadFails, host, Fault, Basic, Typed
<1>3. CASE op' = [Finish(op, "error") EXCEPT !.faulted = TRUE]
  <2>1. Ends("error") /\ op'.faulted
    BY <1>1, <1>3, FailDoes
  <2> QED BY <1>2, <2>1, QuietEnd DEF DownloadFails, host
<1>4. CASE op' = [op EXCEPT !.process = <<>>, !.faulted = TRUE]
  <2>2. Changed(op, op', <<>>, op.version, TRUE, op.lost, op.alone, op.skipped)
    BY <1>1, <1>4, Except DEF Typed, OpTyped
  <2>3. OpTyped(op')
    BY <1>1, <2>2, EmptySound, ChangedTyped DEF Typed, OpTyped
  <2>4. Running' \subseteq Running \cup {<<>>}
    BY <2>2 DEF Running, Waiting, DownloadFails, Changed
  <2>5. \A q \in Running' : q \in Running \/ Sound(guest, q)
    BY <2>4, EmptySound
  <2>6. op'.request = op.request /\ op'.todo = op.todo /\ op'.version = op.version /\ op'.faulted
        /\ op'.answer = op.answer
    BY <2>2 DEF Changed
  <2>7. guest' = guest /\ vm' = vm
    BY DEF DownloadFails, host
  <2> QED BY <1>1, <1>2, <2>3, <2>5, <2>6, <2>7, QuietSame
<1> QED BY <1>3, <1>4 DEF DownloadFails

-----------------------------------------------------------------------------
\* Basic: one effect of a script.

LEMMA FixedItems ==
  /\ <<"os">> \in Items /\ <<"os">>[1] \in Fixed
  /\ <<"release">> \in Items /\ <<"release">>[1] \in Fixed
  /\ \A w \in Worlds : <<"pod", w>> \in Items /\ <<"pod", w>>[1] \in Fixed
BY ItemsAre DEF HostItems, WorldItems, Fixed

LEMMA KeptFixed ==
  ASSUME NEW g, NEW h \in [Items -> Values], KeepsFixed(g, h)
  PROVE  /\ h[<<"os">>] = g[<<"os">>] /\ h[<<"release">>] = g[<<"release">>]
         /\ \A w \in Worlds : h[<<"pod", w>>] = g[<<"pod", w>>]
         /\ GuestTyped(g) => GuestTyped(h)
BY FixedItems DEF KeepsFixed, GuestTyped

\* One effect of a script, whoever waits for it.
ScriptMoves(p) ==
    /\ guest' \in [Items -> Values] /\ Grows(guest, guest') /\ KeepsFixed(guest, guest')
    /\ GuestSound(guest')
    /\ GuestTyped(guest') /\ (OnUbuntu' <=> OnUbuntu)
    /\ generated' \in Nat
    /\ After(p) \in Seq(Effects) /\ Sound(guest', After(p))

LEMMA RunningFacts ==
  ASSUME Basic, NEW p \in Running
  PROVE  p \in Seq(Effects) /\ Sound(guest, p)
BY DEF Basic, GuestInv, Typed, OpTyped, Running, Waiting

LEMMA EffectStep ==
  ASSUME Basic, NEW p \in Running, p # <<>>, ~Fails(guest, Head(p)), Perform(Head(p))
  PROVE  ScriptMoves(p)
<1>1. p \in Seq(Effects) /\ Sound(guest, p)
  BY RunningFacts
<1>2. guest \in [Items -> Values] /\ GuestTyped(guest) /\ GuestSound(guest) /\ generated \in Nat
  BY DEF Basic, Typed, GuestTyped, GuestInv
<1>3. guest' = Effect(guest, Head(p)) /\ generated' \in Nat /\ generated + 1 \in Nat
  BY <1>2 DEF Perform
<1>4. /\ guest' \in [Items -> Values] /\ Grows(guest, guest') /\ KeepsFixed(guest, guest')
         /\ GuestSound(guest')
      /\ After(p) \in Seq(Effects) /\ Sound(guest', After(p))
  <2> DEFINE pw == generated + 1
             h == Effect(guest, Head(p))
             q == Expanded(guest, Head(p), pw) \o Tail(p)
  <2>1. pw \in Nat
    BY <1>3
  <2> HIDE DEF pw
  <2>2. /\ h \in [Items -> Values] /\ Grows(guest, h) /\ KeepsFixed(guest, h) /\ GuestSound(h)
        /\ q \in Seq(Effects) /\ Sound(h, q)
    BY <1>1, <1>2, <2>1, Executes
  <2>3. h = guest' /\ q = After(p)
    BY <1>3 DEF After, pw
  <2> HIDE DEF h, q
  <2> QED BY <2>2, <2>3
<1>5. GuestTyped(guest') /\ guest'[<<"os">>] = guest[<<"os">>]
  BY <1>2, <1>4, KeptFixed
<1> QED BY <1>3, <1>4, <1>5 DEF ScriptMoves, OnUbuntu

LEMMA EffectGuestInv ==
  ASSUME Basic, NEW p, ScriptMoves(p), vm' = vm, Running' \subseteq Running \cup {After(p)}
  PROVE  GuestInv'
<1>1. \A x \in Items \ Volatile : There(guest, x) => There(guest', x)
  BY DEF ScriptMoves, Grows
<1>2. \A q \in Running' : q \in Running \/ Sound(guest', q)
  BY DEF ScriptMoves
<1> QED BY <1>1, <1>2, GuestMoves DEF ScriptMoves, Basic

\* What a script that is waited for does with one effect.
LEMMA ExecuteDoes ==
  ASSUME Basic, Execute, ~Fails(guest, Head(op.process))
  PROVE  /\ ScriptMoves(op.process)
         /\ Changed(op, op', After(op.process), op.version, op.faulted, op.lost, op.alone,
                    op.skipped \/ Skips(guest, Head(op.process)))
         /\ OpTyped(op')
<1>1. Waiting /\ op.process # <<>> /\ Perform(Head(op.process)) /\ op.process \in Running
  BY DEF Execute, Running
<1>2. ScriptMoves(op.process)
  BY <1>1, EffectStep
<1> DEFINE q == After(op.process)
           k == op.skipped \/ Skips(guest, Head(op.process))
<1>3. OpTyped(op) /\ Shaped(op)
  BY DEF Basic, Typed, OpTyped
<1>4. k \in BOOLEAN
  OBVIOUS
<1>5. op' = [op EXCEPT !.process = q, !.skipped = k]
  BY DEF Execute
<1>6. q \in Seq(Effects)
  BY <1>2 DEF ScriptMoves
<1> HIDE DEF q, k
<1>7. Changed(op, op', q, op.version, op.faulted, op.lost, op.alone, k)
  BY <1>3, <1>5, Except
<1>8. OpTyped(op')
  <2>1. /\ op.version \in Values /\ op.faulted \in BOOLEAN /\ op.lost \in BOOLEAN
        /\ op.alone \in BOOLEAN
    BY <1>3 DEF OpTyped
  <2> QED BY <1>3, <1>4, <1>6, <1>7, <2>1, ChangedTyped
<1> QED BY <1>2, <1>7, <1>8 DEF q, k

LEMMA BasicExecute ==
  ASSUME Basic, Execute
  PROVE  Basic'
<1>1. Waiting /\ Typed /\ ClientInv /\ Busy
  BY DEF Execute, Basic, ClientInv
<1>2. CASE Fails(guest, Head(op.process))
  <2>1. Ends("error") /\ Keeps
    BY <1>1, <1>2, FinishDoes DEF Execute
  <2>2. HostTyped'
    BY <1>2, HostTypedStays DEF Execute, host, Basic, Typed
  <2> QED BY <1>2, <2>1, <2>2, LostKept, QuietEnd DEF Execute, host
<1>3. CASE ~Fails(guest, Head(op.process))
  <2> DEFINE k == op.skipped \/ Skips(guest, Head(op.process))
  <2>1. /\ ScriptMoves(op.process)
        /\ Changed(op, op', After(op.process), op.version, op.faulted, op.lost, op.alone, k)
        /\ OpTyped(op')
    BY <1>3, ExecuteDoes
  <2> HIDE DEF k
  <2>2. op'.process = After(op.process) /\ op'.request = op.request /\ op'.todo = op.todo
        /\ op'.version = op.version /\ op'.lost = op.lost /\ op'.faulted = op.faulted
        /\ op'.answer = op.answer
    BY <2>1 DEF Changed
  <2>3. Running' \subseteq Running \cup {After(op.process)}
    BY <2>2 DEF Running, Waiting, Execute
  <2>4. vm' = vm /\ orphans' = orphans /\ begun' = begun /\ faults' = faults
    BY DEF Execute, host
  <2>5. GuestInv'
    BY <2>1, <2>3, <2>4, EffectGuestInv
  <2>6. HostTyped'
    BY <1>1, <2>1, <2>4 DEF Typed, HostTyped, ScriptMoves
  <2>7. Typed'
    BY <2>1, <2>6, TypedParts
  <2>8. OnUbuntu' <=> OnUbuntu
    BY <2>1 DEF ScriptMoves
  <2>9. Reachable'
    BY <1>1, <2>4, <2>8 DEF Reachable, ClientInv
  <2>10. Busy /\ Head(op.todo) \in ScriptSteps
    BY <1>1 DEF ClientInv
  <2>11. ClientInv'
    BY <1>1, <2>2, <2>4, <2>8, <2>9, <2>10, LostKept, ClientSame DEF Keeps
  <2> QED BY <2>5, <2>7, <2>11 DEF Basic
<1> QED BY <1>2, <1>3

LEMMA OrphanDoes ==
  ASSUME Basic, NEW o \in orphans, OrphanExecutes(o)
  PROVE  ScriptMoves(o)
<1>1. o # <<>> /\ o \in Running
  BY DEF Basic, Typed, Running
<1> QED BY <1>1, EffectStep DEF OrphanExecutes

LEMMA BasicOrphanExecutes ==
  ASSUME Basic, NEW o \in orphans, OrphanExecutes(o)
  PROVE  Basic'
<1>1. ScriptMoves(o)
  BY OrphanDoes
<1>2. vm' = vm /\ op' = op /\ begun' = begun /\ faults' = faults /\ Typed /\ ClientInv
  BY DEF OrphanExecutes, host, Basic
<1>3. orphans' \subseteq (orphans \cup {After(o)}) \ {<<>>}
  BY <1>2 DEF OrphanExecutes, Typed
<1>4. Running' \subseteq Running \cup {After(o)}
  BY <1>2, <1>3 DEF Running, Waiting
<1>5. GuestInv'
  BY <1>1, <1>2, <1>4, EffectGuestInv
<1>6. HostTyped'
  BY <1>1, <1>2, <1>3 DEF Typed, HostTyped, ScriptMoves
<1>7. OpTyped(op')
  BY <1>2 DEF Typed
<1>8. Typed'
  BY <1>6, <1>7, TypedParts
<1>9. OnUbuntu' <=> OnUbuntu
  BY <1>1 DEF ScriptMoves
<1>10. Reachable' /\ (Waiting' <=> Waiting)
  BY <1>2, <1>9 DEF Reachable, ClientInv, Waiting
<1>11. ClientInv'
  <2>1. op'.lost => op'.faulted
    BY <1>2 DEF ClientInv
  <2>2. Waiting' => Busy /\ Head(op.todo) \in ScriptSteps
    BY <1>2, <1>10 DEF ClientInv
  <2> QED BY <1>2, <1>9, <1>10, <2>1, <2>2, ClientSame
<1> QED BY <1>5, <1>8, <1>11 DEF Basic

-----------------------------------------------------------------------------
\* Basic: the guest beside the operation.

\* A change of the guest beside the operation.
LEMMA BesideStep ==
  ASSUME Basic, GuestTyped(guest'), GuestSound(guest'), OnUbuntu' <=> OnUbuntu,
         \A x \in Items \ Volatile : There(guest, x) => There(guest', x),
         vm' \in Machines \cup {Absent}, vm' = Absent <=> vm = Absent,
         begun' = begun, generated' = generated, faults' \in Nat, orphans' \subseteq orphans,
         OpTyped(op'), op'.request = op.request, op'.todo = op.todo, op'.version = op.version,
         op'.answer = op.answer,
         op'.lost => op'.faulted, op'.process = op.process,
         Reachable' \/ (orphans' = {} /\ ~Waiting)
  PROVE  Basic'
<1>1. Running' \subseteq Running /\ (Waiting' <=> Waiting)
  BY DEF Running, Waiting
<1>2. GuestInv'
  BY <1>1, GuestMoves DEF Basic
<1>3. HostTyped'
  BY DEF Basic, Typed, HostTyped
<1>4. Typed'
  BY <1>3, TypedParts
<1>5. ClientInv'
  <2>1. Waiting' => Busy /\ Head(op.todo) \in ScriptSteps
    BY <1>1 DEF Basic, ClientInv
  <2>2. Reachable' \/ (orphans' = {} /\ ~Waiting')
    BY <1>1
  <2> QED BY <2>1, <2>2, ClientSame DEF Basic
<1> QED BY <1>2, <1>4, <1>5 DEF Basic

LEMMA DatabaseGuest ==
  ASSUME Basic, NEW w \in Worlds, DatabaseStarts(w)
  PROVE  /\ guest' \in [Items -> Values]
         /\ <<"pod", w>> \in Items /\ <<"database", w>> \in Items
            /\ <<"pod", w>> # <<"database", w>>
         /\ guest'[<<"pod", w>>] = TRUE
         /\ guest'[<<"database", w>>] =
              (IF guest[<<"database", w>>] = Absent THEN guest[<<"world",
                  w>>] ELSE guest[<<"database", w>>])
         /\ \A x \in Items \ {<<"pod", w>>, <<"database", w>>} : guest'[x] = guest[x]
         /\ Grows(guest, guest')
<1>1. guest \in [Items -> Values]
  BY DEF Basic, Typed, GuestTyped
<1>2. /\ <<"pod", w>> \in Items /\ <<"database", w>> \in Items /\ <<"world", w>> \in Items
      /\ <<"pod", w>> # <<"database", w>>
  BY ItemsAre DEF WorldItems
<1> DEFINE d == IF guest[<<"database", w>>] = Absent THEN guest[<<"world",
           w>>] ELSE guest[<<"database", w>>]
           pod == <<"pod", w>>
           db == <<"database", w>>
<1>3. d \in Values /\ TRUE \in Values
  BY <1>1, <1>2, True
<1>4. guest' = [guest EXCEPT ![pod] = TRUE, ![db] = d]
  BY DEF DatabaseStarts
<1>5. guest[<<"world", w>>] # Absent
  BY DEF DatabaseStarts, There
<1>6. d # Absent
  BY <1>5
<1>7. pod \in Items /\ db \in Items /\ pod # db
  BY <1>2
<1> HIDE DEF pod, db, d
<1>8. /\ guest' \in [Items -> Values] /\ guest'[pod] = TRUE /\ guest'[db] = d
      /\ \A x \in Items \ {pod, db} : guest'[x] = guest[x]
  BY <1>1, <1>3, <1>4, <1>7
<1>9. Grows(guest, guest')
  BY <1>6, <1>7, <1>8, True DEF Grows, There
<1> QED BY <1>7, <1>8, <1>9 DEF pod, db, d

LEMMA BasicDatabaseStarts ==
  ASSUME Basic, NEW w \in Worlds, DatabaseStarts(w)
  PROVE  Basic'
<1>1. /\ guest' \in [Items -> Values]
      /\ \A x \in Items \ {<<"pod", w>>, <<"database", w>>} : guest'[x] = guest[x]
      /\ Grows(guest, guest')
  BY DatabaseGuest
<1>2. guest'[<<"os">>] = guest[<<"os">>] /\ guest'[<<"release">>] = guest[<<"release">>]
      /\ guest'[<<"legacy">>] = guest[<<"legacy">>]
  <2>1. \A i \in {"os", "release", "legacy"} : <<i>> \in Items
    BY ItemsAre DEF HostItems
  <2> QED BY <1>1, <2>1
<1>3. GuestTyped(guest') /\ (OnUbuntu' <=> OnUbuntu)
  BY <1>1, <1>2 DEF Basic, Typed, GuestTyped, OnUbuntu
<1>4. GuestSound(guest')
  <2>1. GuestSound(guest)
    BY DEF Basic, GuestInv
  <2>2. \A v \in Worlds : /\ <<"world", v>> \in Items /\ <<"namespace", v>> \in Items
                          /\ <<"secrets", v>> \in Items /\ <<"pod", v>> \in Items
    BY ItemsAre DEF WorldItems
  <2>3. WorldsSound(guest')
    BY <1>1, <2>1, <2>2 DEF GuestSound, WorldsSound, Grows, There
  <2>4. RightsSound(guest')
    <3>1. \A o \in Range(Operators) : <<"role", o>> \in Items /\ <<"role_binding", o>> \in Items
      BY ItemsAre DEF OperatorItems, Rights
    <3> QED BY <1>1, <2>1, <3>1 DEF GuestSound, RightsSound, Grows, There
  <2>5. DatabasesSound(guest')
    <3>1. ASSUME NEW v \in Worlds, There(guest', <<"pod", v>>) PROVE There(guest', <<"world", v>>)
      <4>1. CASE v = w
        BY <1>1, <2>2, <4>1 DEF DatabaseStarts, There
      <4>2. CASE v # w
        BY <1>1, <2>1, <2>2, <3>1, <4>2 DEF GuestSound, DatabasesSound, There
      <4> QED BY <4>1, <4>2
    <3> QED BY <3>1 DEF DatabasesSound
  <2>6. ~There(guest', <<"legacy">>)
    BY <1>2, <2>1 DEF GuestSound, There
  <2> QED BY <2>3, <2>4, <2>5, <2>6 DEF GuestSound
<1>5. vm' = vm /\ op' = op /\ orphans' = orphans /\ begun' = begun /\ generated' = generated
          /\ faults' = faults
  BY DEF DatabaseStarts, host
<1>6. vm' \in Machines \cup {Absent} /\ OpTyped(op') /\ faults' \in Nat
  BY <1>5 DEF Basic, Typed
<1>7. Reachable' \/ (orphans' = {} /\ ~Waiting)
  BY <1>3, <1>5 DEF Reachable, Basic, ClientInv
<1>8. \A x \in Items \ Volatile : There(guest, x) => There(guest', x)
  BY <1>1 DEF Grows
<1>9. op'.lost => op'.faulted
  BY <1>5 DEF Basic, ClientInv
<1> QED BY <1>3, <1>4, <1>5, <1>6, <1>7, <1>8, <1>9, BesideStep

\* Guests with the same items outside Volatile.
LEMMA SoundAlike ==
  ASSUME GuestSound(guest), \A x \in Items \ Volatile : guest'[x] = guest[x],
         \A w \in Worlds : There(guest', <<"pod", w>>) => There(guest, <<"pod", w>>)
  PROVE  GuestSound(guest') /\ (OnUbuntu' <=> OnUbuntu)
<1>1. /\ \A w \in Worlds : /\ <<"world", w>> \in Items \ Volatile
                              /\ <<"namespace", w>> \in Items \ Volatile
                           /\ <<"secrets", w>> \in Items \ Volatile
      /\ \A o \in Range(Operators) : <<"role", o>> \in Items \ Volatile
         /\ <<"role_binding", o>> \in Items \ Volatile
      /\ <<"legacy">> \in Items \ Volatile
  <2>1. \A x \in Volatile : x[1] \in {"pod", "running"}
    BY DEF Volatile, Pods
  <2>2. \A w \in Worlds : /\ <<"world", w>> \in Items /\ <<"namespace", w>> \in Items
                           /\ <<"secrets", w>> \in Items
    BY ItemsAre DEF WorldItems
  <2>3. \A o \in Range(Operators) : <<"role", o>> \in Items /\ <<"role_binding", o>> \in Items
    BY ItemsAre DEF OperatorItems, Rights
  <2>4. <<"legacy">> \in Items
    BY ItemsAre DEF HostItems
  <2> QED BY <2>1, <2>2, <2>3, <2>4
<1>2. WorldsSound(guest')
  BY <1>1 DEF GuestSound, WorldsSound, There
<1>3. RightsSound(guest')
  BY <1>1 DEF GuestSound, RightsSound, There
<1>4. DatabasesSound(guest')
  BY <1>1 DEF GuestSound, DatabasesSound, There
<1>5. ~There(guest', <<"legacy">>)
  BY <1>1 DEF GuestSound, There
<1>6. OnUbuntu' <=> OnUbuntu
  BY BaseItems DEF OnUbuntu
<1> QED BY <1>2, <1>3, <1>4, <1>5, <1>6 DEF GuestSound

LEMMA BootedIs ==
  ASSUME Typed
  PROVE  /\ Booted(guest) \in [Items -> Values]
         /\ \A x \in Items \ {<<"running">>} : Booted(guest)[x] = guest[x]
         /\ Booted(guest)[<<"running">>] = guest[<<"enabled">>]
         /\ GuestTyped(Booted(guest))
<1>1. guest \in [Items -> Values] /\ guest[<<"release">>] \in Nat
  BY DEF Typed, GuestTyped
<1>2. <<"running">> \in Items /\ <<"enabled">> \in Items /\ <<"release">> \in Items
  BY ItemsAre DEF HostItems
<1>3. /\ Booted(guest) \in [Items -> Values]
      /\ \A x \in Items \ {<<"running">>} : Booted(guest)[x] = guest[x]
      /\ Booted(guest)[<<"running">>] = guest[<<"enabled">>]
  BY <1>1, <1>2 DEF Booted
<1> QED BY <1>1, <1>2, <1>3 DEF GuestTyped

LEMMA StoppedIs ==
  ASSUME Typed
  PROVE  /\ Stopped(guest) \in [Items -> Values]
         /\ \A x \in Items \ Volatile : Stopped(guest)[x] = guest[x]
         /\ \A x \in Volatile : Stopped(guest)[x] = Absent
         /\ GuestTyped(Stopped(guest))
<1>1. guest \in [Items -> Values] /\ guest[<<"release">>] \in Nat
  BY DEF Typed, GuestTyped
<1>2. /\ Stopped(guest) \in [Items -> Values]
      /\ \A x \in Items \ Volatile : Stopped(guest)[x] = guest[x]
      /\ \A x \in Volatile : Stopped(guest)[x] = Absent
  BY <1>1, BaseItems DEF Stopped, Volatile, Values
<1> QED BY <1>1, <1>2, BaseItems DEF GuestTyped

LEMMA GuestBoots ==
  ASSUME Basic, guest' = Booted(guest)
  PROVE  /\ GuestTyped(guest') /\ GuestSound(guest') /\ (OnUbuntu' <=> OnUbuntu)
         /\ \A x \in Items \ Volatile : guest'[x] = guest[x]
         /\ \A w \in Worlds : guest'[<<"pod", w>>] = guest[<<"pod", w>>]
<1>1. /\ \A x \in Items \ {<<"running">>} : guest'[x] = guest[x]
      /\ GuestTyped(guest')
  BY BootedIs DEF Basic
<1>2. \A w \in Worlds : <<"pod", w>> \in Items \ {<<"running">>}
  BY ItemsAre DEF WorldItems
<1>3. \A x \in Items \ Volatile : guest'[x] = guest[x]
  BY <1>1 DEF Volatile
<1>4. \A w \in Worlds : guest'[<<"pod", w>>] = guest[<<"pod", w>>]
  BY <1>1, <1>2
<1> QED BY <1>1, <1>3, <1>4, SoundAlike DEF Basic, GuestInv, There

LEMMA GuestStops ==
  ASSUME Basic, guest' = Stopped(guest)
  PROVE  /\ GuestTyped(guest') /\ GuestSound(guest') /\ (OnUbuntu' <=> OnUbuntu)
         /\ \A x \in Items \ Volatile : guest'[x] = guest[x]
         /\ \A x \in Volatile : guest'[x] = Absent
<1>1. /\ \A x \in Items \ Volatile : guest'[x] = guest[x]
      /\ \A x \in Volatile : guest'[x] = Absent
      /\ GuestTyped(guest')
  BY StoppedIs DEF Basic
<1>2. \A w \in Worlds : ~There(guest', <<"pod", w>>)
  BY <1>1 DEF Volatile, Pods, There
<1> QED BY <1>1, <1>2, SoundAlike DEF Basic, GuestInv

LEMMA BasicRelease ==
  ASSUME Basic, Release
  PROVE  Basic'
<1>1. guest \in [Items -> Values] /\ guest[<<"release">>] \in Nat
  BY DEF Basic, Typed, GuestTyped
<1>2. <<"release">> \in Items \ Volatile /\ \A w \in Worlds : <<"pod",
          w>> \in Items \ {<<"release">>}
  BY BaseItems, ItemsAre DEF WorldItems
<1>3. /\ guest' \in [Items -> Values]
      /\ \A x \in Items \ {<<"release">>} : guest'[x] = guest[x]
      /\ guest'[<<"release">>] = guest[<<"release">>] + 1
      /\ guest[<<"release">>] + 1 \in Values /\ guest[<<"release">>] + 1 \in Nat
  BY <1>1, <1>2 DEF Release, Values
<1>4. GuestTyped(guest')
  BY <1>3 DEF GuestTyped
<1>5. \A x \in Items : There(guest, x) => There(guest', x)
  BY <1>3, Present DEF There
<1>6. GuestSound(guest')
  <2>1. GuestSound(guest)
    BY DEF Basic, GuestInv
  <2>2. /\ \A w \in Worlds : /\ <<"world", w>> \in Items /\ <<"namespace", w>> \in Items
                             /\ <<"secrets", w>> \in Items
        /\ \A w \in Worlds : <<"world", w>> # <<"release">> /\ <<"pod", w>> # <<"release">>
    BY ItemsAre DEF WorldItems
  <2>3. \A o \in Range(Operators) : /\ <<"role", o>> \in Items /\ <<"role_binding", o>> \in Items
                                    /\ <<"role_binding", o>> # <<"release">>
    BY ItemsAre DEF OperatorItems, Rights
  <2>4. <<"legacy">> \in Items /\ <<"legacy">> # <<"release">>
    BY ItemsAre DEF HostItems
  <2>5. WorldsSound(guest')
    BY <1>3, <1>5, <2>1, <2>2 DEF GuestSound, WorldsSound, There
  <2>6. RightsSound(guest')
    BY <1>3, <1>5, <2>1, <2>3 DEF GuestSound, RightsSound, There
  <2>7. DatabasesSound(guest')
    BY <1>2, <1>3, <1>5, <2>1, <2>2 DEF GuestSound, DatabasesSound, There
  <2>8. ~There(guest', <<"legacy">>)
    BY <1>3, <2>1, <2>4 DEF GuestSound, There
  <2> QED BY <2>5, <2>6, <2>7, <2>8 DEF GuestSound
<1>7. vm' = vm /\ op' = op /\ orphans' = orphans /\ begun' = begun /\ generated' = generated
          /\ faults' = faults
  BY DEF Release, host
<1>8. vm' \in Machines \cup {Absent} /\ OpTyped(op') /\ faults' \in Nat
  BY <1>7 DEF Basic, Typed
<1>9. op'.lost => op'.faulted
  BY <1>7 DEF Basic, ClientInv
<1>10. OnUbuntu' <=> OnUbuntu
  <2>1. <<"os">> \in Items /\ <<"os">> # <<"release">>
    BY BaseItems
  <2> QED BY <1>3, <2>1 DEF OnUbuntu
<1>11. Reachable' \/ (orphans' = {} /\ ~Waiting)
  BY <1>7, <1>10 DEF Reachable, Basic, ClientInv
<1> QED BY <1>4, <1>5, <1>6, <1>7, <1>8, <1>9, <1>10, <1>11, BesideStep

LEMMA Switched ==
  ASSUME NEW m \in Machines, NEW on \in BOOLEAN
  PROVE  LET n == [m EXCEPT !.on = on]
         IN n \in Machines /\ n.on = on /\ n.files = m.files /\ n.here = m.here /\ n.set = m.set
            /\ n # Absent
<1>1. LET n == [m EXCEPT !.on = on]
         IN n \in Machines /\ n.on = on /\ n.files = m.files /\ n.here = m.here /\ n.set = m.set
  BY DEF Machines
<1> QED BY <1>1, Present

LEMMA NotedFault ==
  ASSUME Typed, NEW f \in BOOLEAN, op' = [op EXCEPT !.faulted = f]
  PROVE  OpTyped(op') /\ Changed(op, op', op.process, op.version, f, op.lost, op.alone, op.skipped)
<1>1. OpTyped(op) /\ Shaped(op)
  BY DEF Typed, OpTyped
<1>2. Changed(op, op', op.process, op.version, f, op.lost, op.alone, op.skipped)
  BY <1>1, Except
<1>3. /\ op.process \in Seq(Effects) \cup {Absent} /\ op.version \in Values /\ op.lost \in BOOLEAN
      /\ op.alone \in BOOLEAN /\ op.skipped \in BOOLEAN
  BY <1>1 DEF OpTyped
<1> QED BY <1>1, <1>2, <1>3, ChangedTyped

LEMMA FaultNoted ==
  ASSUME Basic, op' = [op EXCEPT !.faulted = @ \/ Busy]
  PROVE  /\ OpTyped(op') /\ op'.request = op.request /\ op'.todo = op.todo
            /\ op'.version = op.version
         /\ op'.process = op.process /\ op'.answer = op.answer /\ op'.lost = op.lost
         /\ op'.alone = op.alone /\ op'.skipped = op.skipped
         /\ op'.faulted <=> op.faulted \/ Busy
         /\ op'.lost => op'.faulted
<1> DEFINE f == op.faulted \/ Busy
<1>1. f \in BOOLEAN /\ op' = [op EXCEPT !.faulted = f]
  OBVIOUS
<1> HIDE DEF f
<1>2. OpTyped(op') /\ Changed(op, op', op.process, op.version, f, op.lost, op.alone, op.skipped)
  BY <1>1, NotedFault DEF Basic
<1>3. op'.faulted = f
  BY <1>2 DEF Changed
<1>4. op.lost => f
  BY DEF Basic, ClientInv, f
<1> QED BY <1>2, <1>3, <1>4 DEF Changed, f

LEMMA BasicPowerOn ==
  ASSUME Basic, PowerOn
  PROVE  Basic'
<1>1. /\ GuestTyped(guest') /\ GuestSound(guest') /\ (OnUbuntu' <=> OnUbuntu)
      /\ \A x \in Items \ Volatile : guest'[x] = guest[x]
  BY GuestBoots DEF PowerOn
<1>2. vm' \in Machines /\ vm'.on /\ vm' # Absent /\ vm # Absent
  BY Switched DEF PowerOn, Basic, Typed
<1>3. /\ OpTyped(op') /\ op'.request = op.request /\ op'.todo = op.todo /\ op'.version = op.version
      /\ op'.process = op.process /\ op'.answer = op.answer
  BY FaultNoted DEF PowerOn
<1>4. op'.lost => op'.faulted
  BY FaultNoted DEF PowerOn
<1>5. orphans' \subseteq orphans /\ begun' = begun /\ generated' = generated /\ faults' \in Nat
  BY DEF PowerOn, Fault, Basic, Typed
<1>6. Reachable'
  BY <1>2 DEF Reachable
<1>7. \A x \in Items \ Volatile : There(guest, x) => There(guest', x)
  BY <1>1 DEF There
<1> QED BY <1>1, <1>2, <1>3, <1>4, <1>5, <1>6, <1>7, BesideStep

LEMMA BasicPowerOff ==
  ASSUME Basic, PowerOff
  PROVE  Basic'
<1>1. /\ GuestTyped(guest') /\ GuestSound(guest') /\ (OnUbuntu' <=> OnUbuntu)
      /\ \A x \in Items \ Volatile : guest'[x] = guest[x]
  BY GuestStops DEF PowerOff
<1>2. vm' \in Machines /\ vm' # Absent /\ vm # Absent
  BY Switched DEF PowerOff, Basic, Typed
<1>3. orphans' = {} /\ begun' = begun /\ generated' = generated /\ faults' \in Nat
  BY DEF PowerOff, Fault, Basic, Typed
<1>4. \A x \in Items \ Volatile : There(guest, x) => There(guest', x)
  BY <1>1 DEF There
<1>5. HostTyped'
  BY <1>1, <1>2, <1>3 DEF HostTyped, Basic, Typed
<1>6. CASE Waiting
  <2>1. ~At("existing") /\ ~At("import") /\ ~At("version") /\ Busy
    BY <1>6, NotThese DEF Basic
  <2>2. /\ op'.lost /\ op'.faulted /\ op'.version = op.version
        /\ Proceeds \/ Ends("error")
    BY <1>6, <2>1, UnansweredDoes DEF PowerOff, Basic
  <2>3. Running' = {}
    BY <1>3, <2>2 DEF Running, Waiting, Proceeds, Ends
  <2>4. GuestInv'
    BY <1>1, <1>2, <1>4, <2>3, GuestMoves DEF Basic
  <2>5. CASE Proceeds
    BY <1>1, <1>2, <1>3, <1>5, <2>1, <2>2, <2>4, <2>5, BasicProceeds
  <2>6. CASE Ends("error")
    BY <1>1, <1>3, <1>5, <2>2, <2>4, <2>6, BasicEnds
  <2> QED BY <2>2, <2>5, <2>6
<1>7. CASE ~Waiting
  <2>1. op' = [op EXCEPT !.faulted = @ \/ Busy]
    BY <1>7 DEF PowerOff
  <2>2. /\ OpTyped(op') /\ op'.request = op.request /\ op'.todo = op.todo
           /\ op'.version = op.version
        /\ op'.process = op.process /\ op'.answer = op.answer
    BY <2>1, FaultNoted
  <2>3. op'.lost => op'.faulted
    BY <2>1, FaultNoted
  <2>4. orphans' \subseteq orphans
    BY <1>3
  <2> QED BY <1>1, <1>2, <1>3, <1>4, <1>7, <2>2, <2>3, <2>4, BesideStep
<1> QED BY <1>6, <1>7

-----------------------------------------------------------------------------
\* Basic: the machine.

\* Steps of the host belong to an operation on Hyper-V.
LEMMA HostStepFacts ==
  ASSUME Basic, NEW s \in {"readiness", "existing", "clear", "compare", "import", "start",
         "address"} \cup Settings,
         At(s)
  PROVE  Kind = "hyperv" /\ ~OnUbuntu /\ Busy /\ ~Waiting /\ Typed
<1>1. Busy /\ Kind # "none" /\ s \in All
  BY BusyFacts DEF Basic, ClientInv, At
<1>2. s \notin Range(GuestSteps) \cup Range(UbuntuSteps) \cup Range(SwapSteps)
  BY PartRanges DEF Settings
<1>3. Kind = "hyperv"
  BY <1>1, <1>2, AskedFacts DEF Basic
<1>4. s \notin ScriptSteps
  BY <1>2, PartRanges DEF Settings, ScriptSteps
<1> QED BY <1>1, <1>3, <1>4 DEF Basic, ClientInv, At

\* Nothing of the guest is left once its machine is removed.
LEMMA NothingIs ==
  ASSUME Typed, guest' = [Nothing EXCEPT ![<<"release">>] = guest[<<"release">>]]
  PROVE  /\ GuestTyped(guest') /\ GuestSound(guest')
         /\ \A x \in Items \ {<<"release">>} : guest'[x] = Absent
         /\ guest'[<<"release">>] = guest[<<"release">>]
         /\ ~OnUbuntu'
<1>1. guest \in [Items -> Values] /\ guest[<<"release">>] \in Nat /\ Absent \in Values
  BY DEF Typed, GuestTyped, Values
<1>2. <<"release">> \in Items /\ <<"os">> \in Items \ {<<"release">>}
  BY BaseItems
<1>3. /\ guest' \in [Items -> Values]
      /\ \A x \in Items \ {<<"release">>} : guest'[x] = Absent
      /\ guest'[<<"release">>] = guest[<<"release">>]
  BY <1>1, <1>2 DEF Nothing
<1>4. GuestTyped(guest')
  BY <1>1, <1>3 DEF GuestTyped
<1>5. ~OnUbuntu'
  BY <1>2, <1>3, Present DEF OnUbuntu
<1>6. GuestSound(guest')
  <2>1. \A w \in Worlds : <<"world", w>> \in Items \ {<<"release">>}
            /\ <<"pod", w>> \in Items \ {<<"release">>}
    BY ItemsAre DEF WorldItems
  <2>2. \A o \in Range(Operators) : <<"role_binding", o>> \in Items \ {<<"release">>}
    BY ItemsAre DEF OperatorItems, Rights
  <2>3. <<"legacy">> \in Items \ {<<"release">>}
    BY ItemsAre DEF HostItems
  <2> QED BY <1>3, <2>1, <2>2, <2>3 DEF GuestSound, WorldsSound, RightsSound, DatabasesSound, There
<1> QED BY <1>3, <1>4, <1>5, <1>6

LEMMA BasicExisting ==
  ASSUME Basic, Existing
  PROVE  Basic'
<1>0. Kind = "hyperv" /\ ~OnUbuntu /\ Busy /\ ~Waiting /\ At("existing") /\ ~At("import")
          /\ ~At("version") /\ Typed
  <2>1. At("existing") /\ ~At("import") /\ ~At("version")
    BY DEF Existing, At
  <2> QED BY <2>1, HostStepFacts
<1>1. CASE vm = Absent /\ op' = Proceed(op) /\ UNCHANGED <<vm, guest, orphans>>
  <2>1. Proceeds /\ Keeps /\ op'.version = op.version
    BY <1>0, <1>1, ProceedDoes
  <2>2. HostTyped'
    BY <1>1, HostTypedStays DEF Existing, Basic, Typed
  <2>3. Running' \subseteq Running
    BY <1>1, <2>1, RunningLess DEF Proceeds
  <2>4. GuestInv' /\ (OnUbuntu' <=> OnUbuntu)
    BY <1>1, <2>3, GuestStays
  <2>5. orphans' = {}
    BY <1>0, <1>1 DEF Basic, ClientInv, Reachable
  <2> QED BY <1>0, <1>1, <2>1, <2>2, <2>4, <2>5, LostKept, BasicProceeds
<1>2. CASE op' = Finish(op, "exists") /\ UNCHANGED <<vm, guest, orphans>>
  <2>1. Ends("exists") /\ Keeps
    BY <1>0, <1>2, FinishDoes
  <2>2. HostTyped'
    BY <1>2, HostTypedStays DEF Existing, Basic, Typed
  <2> QED BY <1>2, <2>1, <2>2, LostKept, QuietEnd
<1>3. CASE vm # Absent /\ vm.on /\ vm' = [vm EXCEPT !.on = FALSE] /\ guest' = Stopped(guest)
           /\ orphans' = {} /\ UNCHANGED op
  <2>1. /\ GuestTyped(guest') /\ GuestSound(guest') /\ (OnUbuntu' <=> OnUbuntu)
        /\ \A x \in Items \ Volatile : guest'[x] = guest[x]
    BY <1>3, GuestStops
  <2>2. vm' \in Machines /\ vm' # Absent
    BY <1>0, <1>3, Switched DEF Typed
  <2>3. \A x \in Items \ Volatile : There(guest, x) => There(guest', x)
    BY <2>1 DEF There
  <2>4. op' = op /\ begun' = begun /\ generated' = generated /\ faults' \in Nat
            /\ orphans' \subseteq orphans
    BY <1>3 DEF Existing, Basic, Typed
  <2>5. OpTyped(op')
    BY <1>0, <2>4 DEF Typed
  <2>6. op'.lost => op'.faulted
    BY <2>4 DEF Basic, ClientInv
  <2> QED BY <1>0, <1>3, <2>1, <2>2, <2>3, <2>4, <2>5, <2>6, BesideStep
<1>4. CASE /\ vm # Absent /\ ~vm.on /\ vm' = Absent /\ op' = Proceed(op) /\ UNCHANGED orphans
           /\ guest' = [Nothing EXCEPT ![<<"release">>] = guest[<<"release">>]]
  <2>1. Proceeds /\ Keeps /\ op'.version = op.version
    BY <1>0, <1>4, ProceedDoes
  <2>2. orphans' = {}
    BY <1>0, <1>4 DEF Basic, ClientInv, Reachable
  <2>3. GuestTyped(guest') /\ GuestSound(guest') /\ ~OnUbuntu'
    BY <1>0, <1>4, NothingIs
  <2>4. Running' = {}
    BY <2>1, <2>2 DEF Running, Waiting, Proceeds
  <2>5. GuestInv'
    BY <1>4, <2>3, <2>4 DEF GuestInv, GuestSound, WorldsSound, RightsSound, DatabasesSound, There
  <2>6. HostTyped'
    BY <1>4, <2>2, <2>3 DEF HostTyped, Existing, Basic, Typed
  <2> QED BY <1>0, <1>4, <2>1, <2>2, <2>3, <2>5, <2>6, LostKept, BasicProceeds
<1> QED BY <1>1, <1>2, <1>3, <1>4 DEF Existing

LEMMA BasicStart ==
  ASSUME Basic, Start
  PROVE  Basic'
<1>0. Kind = "hyperv" /\ ~OnUbuntu /\ Busy /\ ~Waiting /\ At("start") /\ Typed
  <2>1. At("start")
    BY DEF Start
  <2> QED BY <2>1, HostStepFacts
<1>1. ~At("existing") /\ ~At("import") /\ ~At("version")
  BY <1>0 DEF At
<1>2. vm # Absent
  <2>1. Rank("start") = 15
    BY Ranks, Zenon
  <2>2. Rank(Head(op.todo)) = 15
    BY <1>0, <2>1 DEF At
  <2> QED BY <1>0, <2>2 DEF Basic, ClientInv
<1>3. vm \in Machines
  BY <1>0, <1>2 DEF Typed
<1>4. vm' \in Machines /\ vm'.on /\ vm' # Absent
  BY <1>3, Switched DEF Start
<1>5. /\ GuestTyped(guest') /\ GuestSound(guest') /\ (OnUbuntu' <=> OnUbuntu)
      /\ \A x \in Items \ Volatile : guest'[x] = guest[x]
  BY GuestBoots DEF Start
<1>6. Proceeds /\ Keeps /\ op'.version = op.version
  BY <1>0, ProceedDoes DEF Start
<1>7. Running' \subseteq Running
  BY <1>6, RunningLess DEF Proceeds, Start
<1>8. \A x \in Items \ Volatile : There(guest, x) => There(guest', x)
  BY <1>5 DEF There
<1>9. GuestInv'
  BY <1>2, <1>5, <1>7, <1>8, GuestMoves DEF Basic
<1>10. HostTyped'
  BY <1>0, <1>4, <1>5 DEF HostTyped, Start, Typed
<1>11. Reachable'
  BY <1>4 DEF Reachable
<1> QED BY <1>1, <1>2, <1>4, <1>5, <1>6, <1>9, <1>10, <1>11, LostKept, BasicProceeds

\* What is there in the vendor's image.
LEMMA VendorIs ==
  /\ VendorGuest \in [Items -> Values] /\ VendorGuest[<<"release">>] = 2
  /\ VendorGuest[<<"os">>] = "alpine"
  /\ \A x \in Base : VendorGuest[x] # Absent
  /\ VendorGuest[<<"crds">>] = 1 /\ VendorGuest[<<"operator", "battlegroup">>] = 1
  /\ VendorGuest[<<"k3s">>] = TRUE
  /\ GuestSound(VendorGuest)
<1>1. VendorGuest \in [Items -> Values]
  BY DEF VendorGuest, Values
<1>2. \A i \in HostItems : <<i>> \in Items
  BY ItemsAre
<1>3. \A i \in {"os", "release", "crds", "k3s", "cert-manager", "legacy"} : <<i>> \in Items
  BY <1>2 DEF HostItems
<1>4. VendorGuest[<<"release">>] = 2
  <2>1. <<"release">> \in Items /\ <<"release">>[1] = "release"
    BY <1>3
  <2> QED BY <2>1 DEF VendorGuest, Rights
<1>5. VendorGuest[<<"os">>] = "alpine"
  BY <1>3 DEF VendorGuest, Rights
<1>6. VendorGuest[<<"crds">>] = 1 /\ VendorGuest[<<"cert-manager">>] = 1
  BY <1>3 DEF VendorGuest, Rights
<1>7. VendorGuest[<<"k3s">>] = TRUE
  BY <1>3 DEF VendorGuest, Rights
<1>8. ASSUME NEW x \in Items, x[1] \in {"operator"} \cup Rights
      PROVE  VendorGuest[x] = 1
  <2>1. x # <<"os">> /\ x # <<"k3s">> /\ x # <<"release">>
    BY <1>8 DEF Rights
  <2>2. x[1] = "operator" \/ x[1] \in Rights
    BY <1>8
  <2> QED BY <2>1, <2>2 DEF VendorGuest
<1>9. ASSUME NEW x \in Items, x[1] \in WorldItems \cup {"legacy"}
      PROVE  VendorGuest[x] = Absent
  <2>1. x # <<"os">> /\ x # <<"k3s">> /\ x # <<"crds">> /\ x # <<"cert-manager">>
            /\ x # <<"release">>
        /\ x[1] # "operator" /\ x[1] \notin Rights
    BY <1>9 DEF WorldItems, Rights
  <2> QED BY <2>1 DEF VendorGuest
<1>10. ASSUME NEW o \in Range(Operators)
       PROVE  VendorGuest[<<"operator", o>>] = 1 /\ VendorGuest[<<"role", o>>] = 1
              /\ VendorGuest[<<"role_binding", o>>] = 1
  <2>1. <<"operator", o>> \in Items /\ <<"role", o>> \in Items /\ <<"role_binding", o>> \in Items
    BY ItemsAre DEF OperatorItems, Rights
  <2> QED BY <1>8, <2>1 DEF Rights
<1>11. "battlegroup" \in Range(Operators)
  BY OperatorRange
<1>12. \A x \in Base : VendorGuest[x] # Absent
  BY <1>6, <1>7, <1>10, Present DEF Base
<1>13. GuestSound(VendorGuest)
  <2>1. \A w \in Worlds : VendorGuest[<<"world", w>>] = Absent /\ VendorGuest[<<"pod", w>>] = Absent
    <3>1. \A w \in Worlds : <<"world", w>> \in Items /\ <<"pod", w>> \in Items
      BY ItemsAre DEF WorldItems
    <3> QED BY <1>9, <3>1 DEF WorldItems
  <2>2. VendorGuest[<<"legacy">>] = Absent
    BY <1>3, <1>9
  <2>3. \A o \in Range(Operators) : VendorGuest[<<"role", o>>] # Absent
    BY <1>10, Present
  <2> QED BY <2>1, <2>2, <2>3 DEF GuestSound, WorldsSound, RightsSound, DatabasesSound, There
<1> QED BY <1>1, <1>4, <1>5, <1>6, <1>7, <1>10, <1>11, <1>12, <1>13

LEMMA ImportedGuest ==
  ASSUME Typed, guest' = [VendorGuest EXCEPT ![<<"release">>] = guest[<<"release">>]]
  PROVE  /\ GuestTyped(guest') /\ GuestSound(guest') /\ ~OnUbuntu'
         /\ \A x \in Items \ {<<"release">>} : guest'[x] = VendorGuest[x]
         /\ guest'[<<"release">>] = guest[<<"release">>]
         /\ \A x \in Base : There(guest', x)
<1>1. guest \in [Items -> Values] /\ guest[<<"release">>] \in Nat /\ guest[<<"release">>] \in Values
  BY BaseItems DEF Typed, GuestTyped
<1>2. <<"release">> \in Items /\ <<"os">> \in Items \ {<<"release">>}
  BY BaseItems
<1>3. /\ guest' \in [Items -> Values]
      /\ \A x \in Items \ {<<"release">>} : guest'[x] = VendorGuest[x]
      /\ guest'[<<"release">>] = guest[<<"release">>]
  BY <1>1, <1>2, VendorIs
<1>4. GuestTyped(guest')
  BY <1>1, <1>3 DEF GuestTyped
<1>5. ~OnUbuntu'
  BY <1>2, <1>3, VendorIs DEF OnUbuntu
<1>6. GuestSound(guest')
  <2>0. GuestSound(VendorGuest)
    BY VendorIs
  <2>1. \A w \in Worlds : \A i \in {"world", "pod", "namespace", "secrets"} : <<i,
            w>> \in Items \ {<<"release">>}
    BY ItemsAre DEF WorldItems
  <2>2. \A o \in Range(Operators) : \A i \in {"role", "role_binding"} : <<i,
            o>> \in Items \ {<<"release">>}
    BY ItemsAre DEF OperatorItems, Rights
  <2>3. <<"legacy">> \in Items \ {<<"release">>}
    BY ItemsAre DEF HostItems
  <2>4. WorldsSound(guest')
    BY <1>3, <2>0, <2>1 DEF GuestSound, WorldsSound, There
  <2>5. RightsSound(guest')
    BY <1>3, <2>0, <2>2 DEF GuestSound, RightsSound, There
  <2>6. DatabasesSound(guest')
    BY <1>3, <2>0, <2>1 DEF GuestSound, DatabasesSound, There
  <2>7. ~There(guest', <<"legacy">>)
    BY <1>3, <2>0, <2>3 DEF GuestSound, There
  <2> QED BY <2>4, <2>5, <2>6, <2>7 DEF GuestSound
<1>7. \A x \in Base : There(guest', x)
  <2>1. Base \subseteq Items \ {<<"release">>}
    BY BaseItems DEF Base
  <2> QED BY <1>3, <2>1, VendorIs DEF There
<1> QED BY <1>3, <1>4, <1>5, <1>6, <1>7

LEMMA BasicImport ==
  ASSUME Basic, Import
  PROVE  Basic' /\ vm = Absent /\ orphans = {} /\ ~Waiting /\ Proceeds
<1>0. Kind = "hyperv" /\ ~OnUbuntu /\ Busy /\ ~Waiting /\ At("import") /\ Typed
  <2>1. At("import")
    BY DEF Import
  <2> QED BY <2>1, HostStepFacts
<1>1. ~At("existing") /\ ~At("version")
  BY <1>0 DEF At
<1>2. vm = Absent
  <2>1. Rank("import") = 9
    BY Ranks, Zenon
  <2>2. Rank(Head(op.todo)) = 9
    BY <1>0, <2>1 DEF At
  <2> QED BY <1>0, <2>2 DEF Basic, ClientInv
<1>3. orphans = {} /\ orphans' = {}
  BY <1>0, <1>2 DEF Basic, ClientInv, Reachable, Import
<1>4. vm' \in Machines /\ vm' # Absent
  <2>1. vm' \in Machines
    BY DEF Import, Machines, Basic, Typed
  <2> QED BY <2>1, Present
<1>5. /\ GuestTyped(guest') /\ GuestSound(guest') /\ ~OnUbuntu'
      /\ \A x \in Base : There(guest', x)
  BY <1>0, ImportedGuest DEF Import
<1>6. Proceeds /\ Keeps /\ op'.version = op.version
  BY <1>0, ProceedDoes DEF Import
<1>7. Running' = {}
  BY <1>3, <1>6 DEF Running, Waiting, Proceeds
<1>8. GuestInv'
  <2>1. GuestSound(guest)'
    BY <1>5 DEF GuestSound, WorldsSound, RightsSound, DatabasesSound, There
  <2>2. (\A x \in Base : There(guest, x))'
    BY <1>5 DEF There
  <2> QED BY <1>7, <2>1, <2>2 DEF GuestInv
<1>9. HostTyped'
  BY <1>0, <1>3, <1>4, <1>5 DEF HostTyped, Import, Typed
<1>10. Basic'
  BY <1>0, <1>1, <1>3, <1>4, <1>5, <1>6, <1>8, <1>9, LostKept, BasicProceeds
<1> QED BY <1>0, <1>2, <1>3, <1>6, <1>10

LEMMA BeginDoes ==
  ASSUME NEW r, Begin(r)
  PROVE  /\ Shaped(op') /\ op'.request = r /\ op'.todo = Steps(r) /\ op'.process = Absent
         /\ op'.version = Absent /\ op'.answer = "none" /\ op'.faulted = FALSE /\ op'.lost = FALSE
         /\ op'.alone = (orphans = {}) /\ op'.skipped = FALSE
<1>1. op' = [request |-> r, todo |-> Steps(r), process |-> Absent, version |-> Absent,
         answer |-> "none", faulted |-> FALSE, lost |-> FALSE, alone |-> (orphans = {}),
             skipped |-> FALSE,
         since |-> guest[<<"release">>]]
  BY DEF Begin, Idle
<1> QED BY <1>1 DEF Shaped

LEMMA AtBeginning ==
  ASSUME NEW r \in Requests, op'.request = r, op'.todo = Steps(r)
  PROVE  /\ Busy' /\ TodoInv' /\ Kind' = r.kind
         /\ \A s \in StepNames : ~Past(s)'
         /\ r.kind = "hyperv" => Rank(Head(op'.todo)) = 5
<1>1. /\ Steps(r) \in Seq(StepNames) /\ Steps(r) # <<>> /\ Ordered(Steps(r))
      /\ r.kind \in {"hyperv", "guest", "ubuntu"}
      /\ r.kind = "hyperv" => Steps(r) = HyperVSteps
  BY StepsOrdered
<1>2. Busy' /\ Kind' = r.kind /\ All' = Range(Steps(r)) /\ op'.todo = Steps(r)
  BY <1>1 DEF Busy, Kind, All
<1>3. TodoInv'
  BY <1>1, <1>2 DEF TodoInv
<1>4. ASSUME NEW s \in Range(Steps(r))
      PROVE  ~(Rank(s) < Rank(Head(Steps(r))))
  <2> DEFINE t == Steps(r)
  <2>1. t \in Seq(StepNames) /\ t # <<>> /\ Ordered(t) /\ s \in Range(t)
    BY <1>1
  <2> HIDE DEF t
  <2>2. /\ \A x \in Range(Tail(t)) : Rank(Head(t)) < Rank(x)
        /\ Range(t) = {Head(t)} \cup Range(Tail(t)) /\ Range(Tail(t)) \subseteq Range(t)
    BY <2>1, OrderedTail
  <2>3. Range(t) \subseteq StepNames
    BY <2>1 DEF Range
  <2>4. Rank(s) \in Nat /\ Rank(Head(t)) \in Nat
    BY <2>1, <2>2, <2>3, RankIsNat
  <2>5. ~(Rank(s) < Rank(Head(t)))
    BY <2>1, <2>2, <2>4
  <2> QED BY <2>5 DEF t
<1>5. \A s \in StepNames : ~Past(s)'
  BY <1>2, <1>4 DEF Past, Has
<1>6. r.kind = "hyperv" => Rank(Head(op'.todo)) = 5
  <2>1. HyperVSteps \in Seq(StepNames) /\ Len(HyperVSteps) = 28 /\ RankedFrom(HyperVSteps, 4)
    BY HyperVRanked
  <2>2. Rank(HyperVSteps[1]) = 5
    BY <2>1 DEF RankedFrom
  <2>3. Head(HyperVSteps) = HyperVSteps[1]
    BY <2>1, HeadTail
  <2> QED BY <1>1, <1>2, <2>2, <2>3
<1> QED BY <1>2, <1>3, <1>5, <1>6

LEMMA BasicBegin ==
  ASSUME Basic, NEW r \in Requests, Begin(r)
  PROVE  Basic' /\ ~Waiting /\ (\A s \in StepNames : ~Past(s)') /\ ~Waiting'
<1>1. /\ Shaped(op') /\ op'.request = r /\ op'.todo = Steps(r) /\ op'.process = Absent
      /\ op'.version = Absent /\ op'.answer = "none" /\ op'.faulted = FALSE /\ op'.lost = FALSE
      /\ op'.alone = (orphans = {}) /\ op'.skipped = FALSE
  BY BeginDoes
<1>2. /\ Busy' /\ TodoInv' /\ Kind' = r.kind
      /\ \A s \in StepNames : ~Past(s)'
      /\ r.kind = "hyperv" => Rank(Head(op'.todo)) = 5
  BY <1>1, AtBeginning
<1>3. r.kind \in {"hyperv", "guest", "ubuntu"}
  BY RequestsAssumption
<1>4. OpTyped(op')
  <2>1. op'.alone \in BOOLEAN
    BY <1>1
  <2>2. op'.version \in Values
    BY <1>1 DEF Values
  <2> QED BY <1>1, <1>3, <2>1, <2>2 DEF OpTyped
<1>5. vm' = vm /\ guest' = guest /\ orphans' = orphans /\ generated' = generated
          /\ faults' = faults /\ begun' \in Nat
  BY DEF Begin, host, Basic, Typed
<1>6. ~Waiting /\ ~Waiting'
  BY <1>1 DEF Begin, Basic, ClientInv, Waiting
<1>7. HostTyped'
  BY <1>5 DEF Basic, Typed, HostTyped
<1>8. Typed'
  BY <1>4, <1>7, TypedParts
<1>9. Running' \subseteq Running
  BY <1>1, <1>5, RunningLess
<1>10. GuestInv' /\ (OnUbuntu' <=> OnUbuntu)
  BY <1>5, <1>9, GuestStays
<1>11. Reachable' \/ orphans' = {}
  BY <1>5, <1>10 DEF Reachable, Basic, ClientInv
<1>12. OnUbuntu <=> r.kind = "ubuntu"
  BY DEF Begin, OnUbuntu
<1>13. ~Past("version")'
  BY <1>2 DEF StepNames
<1>14. ClientInv'
  BY <1>1, <1>2, <1>3, <1>6, <1>10, <1>11, <1>12, <1>13 DEF ClientInv
<1> QED BY <1>2, <1>6, <1>8, <1>10, <1>14 DEF Basic

-----------------------------------------------------------------------------
\* Basic.

LEMMA NoGuestIs ==
  /\ NoGuest \in [Items -> Values] /\ NoGuest[<<"release">>] = 2 /\ NoGuest[<<"os">>] = Absent
  /\ GuestSound(NoGuest)
  /\ UbuntuGuest \in [Items -> Values] /\ UbuntuGuest[<<"release">>] = 2
  /\ UbuntuGuest[<<"os">>] = "ubuntu" /\ GuestSound(UbuntuGuest)
<1>1. <<"release">> \in Items /\ <<"os">> \in Items /\ <<"os">> # <<"release">>
  BY BaseItems
<1>2. 2 \in Values /\ Absent \in Values /\ "ubuntu" \in Values
  BY DEF Values
<1>3. /\ NoGuest \in [Items -> Values] /\ NoGuest[<<"release">>] = 2
      /\ \A x \in Items \ {<<"release">>} : NoGuest[x] = Absent
  BY <1>1, <1>2 DEF NoGuest, Nothing
<1>4. /\ UbuntuGuest \in [Items -> Values] /\ UbuntuGuest[<<"release">>] = 2
      /\ UbuntuGuest[<<"os">>] = "ubuntu"
      /\ \A x \in Items \ {<<"release">>, <<"os">>} : UbuntuGuest[x] = Absent
  BY <1>1, <1>2, <1>3 DEF UbuntuGuest
<1>5. ASSUME NEW g, \A x \in Items \ {<<"release">>, <<"os">>} : g[x] = Absent
      PROVE  GuestSound(g)
  <2>1. \A w \in Worlds : \A i \in {"world", "pod"} : <<i, w>> \in Items \ {<<"release">>, <<"os">>}
    BY ItemsAre DEF WorldItems
  <2>2. \A o \in Range(Operators) : <<"role_binding", o>> \in Items \ {<<"release">>, <<"os">>}
    BY ItemsAre DEF OperatorItems, Rights
  <2>3. <<"legacy">> \in Items \ {<<"release">>, <<"os">>}
    BY ItemsAre DEF HostItems
  <2> QED BY <1>5, <2>1, <2>2, <2>3 DEF GuestSound, WorldsSound, RightsSound, DatabasesSound, There
<1> QED BY <1>1, <1>3, <1>4, <1>5

LEMMA IdleFacts ==
  ASSUME op = Idle
  PROVE  /\ OpTyped(op) /\ ~Busy /\ ~Waiting /\ Kind = "none" /\ \A s : ~Past(s)
         /\ op.lost = FALSE /\ op.faulted = FALSE /\ op.answer = "none" /\ op.todo = <<>>
<1>1. /\ Shaped(op) /\ op.process = Absent /\ op.version = Absent /\ op.faulted = FALSE
      /\ op.lost = FALSE /\ op.alone = TRUE /\ op.skipped = FALSE /\ op.answer = "none"
      /\ op.todo = <<>> /\ op.request = [kind |-> "none"]
  BY DEF Idle, Shaped
<1>2. op.request.kind = "none"
  BY <1>1
<1>3. OpTyped(op)
  BY <1>1, <1>2 DEF OpTyped, Values
<1> QED BY <1>1, <1>2, <1>3 DEF Busy, Waiting, Kind, Past, Has

LEMMA BasicInit ==
  ASSUME Init
  PROVE  Basic
<1>1. op = Idle /\ orphans = {} /\ begun = 0 /\ generated = 0 /\ faults = 0
  BY DEF Init
<1>2. /\ OpTyped(op) /\ ~Busy /\ ~Waiting /\ Kind = "none"
      /\ op.lost = FALSE /\ op.todo = <<>> /\ op.answer = "none"
  BY <1>1, IdleFacts
<1>3. \/ vm = Absent /\ guest \in {NoGuest, UbuntuGuest}
      \/ vm \in Machines /\ guest = VendorGuest
  BY DEF Init, Machines
<1>4. GuestTyped(guest) /\ GuestSound(guest)
  BY <1>3, NoGuestIs, VendorIs DEF GuestTyped
<1>5. Typed
  BY <1>1, <1>2, <1>3, <1>4 DEF Typed
<1>6. GuestInv
  <2>1. Running = {}
    BY <1>1, <1>2 DEF Running
  <2>2. ~OnUbuntu /\ vm # Absent => \A x \in Base : There(guest, x)
    BY <1>3, VendorIs DEF There
  <2> QED BY <1>4, <2>1, <2>2 DEF GuestInv
<1>7. ClientInv
  <2>1. TodoInv
    BY <1>2 DEF TodoInv
  <2> QED BY <1>1, <1>2, <2>1 DEF ClientInv
<1> QED BY <1>5, <1>6, <1>7 DEF Basic

LEMMA BasicStutters ==
  ASSUME Basic, UNCHANGED vars
  PROVE  Basic'
<1>1. UNCHANGED <<vm, folder, guest, op, orphans, begun, generated, faults>>
  BY DEF vars
<1>2. Typed'
  BY <1>1 DEF Basic, Typed
<1>3. GuestInv'
  BY <1>1 DEF Basic, GuestInv, GuestSound, WorldsSound, RightsSound, DatabasesSound, There,
       OnUbuntu, Running, Waiting, Sound, Ready, ReadyAfter
<1>4. ClientInv'
  <2>1. OnUbuntu' <=> OnUbuntu
    BY <1>1 DEF OnUbuntu
  <2>2. Waiting' <=> Waiting
    BY <1>1 DEF Waiting
  <2>3. Reachable' <=> Reachable
    BY <1>1, <2>1 DEF Reachable
  <2>4. op'.lost => op'.faulted
    BY <1>1 DEF Basic, ClientInv
  <2>5. Waiting' => Busy /\ Head(op.todo) \in ScriptSteps
    BY <2>2 DEF Basic, ClientInv
  <2>6. Reachable' \/ (orphans' = {} /\ ~Waiting')
    BY <1>1, <2>2, <2>3 DEF Basic, ClientInv
  <2> QED BY <1>1, <2>1, <2>4, <2>5, <2>6, ClientSame DEF Basic
<1> QED BY <1>2, <1>3, <1>4 DEF Basic

\* Every step keeps Basic.
LEMMA BasicNext ==
  ASSUME Basic, [Next]_vars
  PROVE  Basic'
<1>1. CASE \E r \in Requests : Begin(r)
  BY <1>1, BasicBegin
<1>2. CASE Readiness \/ Existing \/ Clear \/ Compare \/ Import \/ Start \/ Address
  BY <1>2, BasicReadiness, BasicExisting, BasicClear, BasicCompare, BasicImport, BasicStart,
     BasicAddress
<1>3. CASE \E step \in Settings : Configure(step)
  BY <1>3, BasicConfigure
<1>4. CASE Send \/ ReadVersion \/ Execute \/ Answered
  BY <1>4, BasicSend, BasicReadVersion, BasicExecute, BasicAnswered
<1>5. CASE \E o \in orphans : OrphanExecutes(o) \/ OrphanEnds(o)
  BY <1>5, BasicOrphanExecutes, BasicOrphanEnds
<1>6. CASE (\E w \in Worlds : DatabaseStarts(w)) \/ Release
  BY <1>6, BasicDatabaseStarts, BasicRelease
<1>7. CASE DownloadFails \/ StepFails \/ TimesOut \/ ConnectionLost \/ ScriptResent
  BY <1>7, BasicDownloadFails, BasicStepFails, BasicTimesOut, BasicConnectionLost, BasicScriptResent
<1>8. CASE PowerOff \/ PowerOn
  BY <1>8, BasicPowerOff, BasicPowerOn
<1>9. CASE UNCHANGED vars
  BY <1>9, BasicStutters
<1> QED BY <1>1, <1>2, <1>3, <1>4, <1>5, <1>6, <1>7, <1>8, <1>9 DEF Next

\* Every state is of its types; a world has its namespace and its secrets, a role
\* binding its role and a database pod its world, whatever scripts run beside each
\* other and wherever they were cut; each script that runs finds what it needs of
\* these; and the client is at a step that the steps before it have led to.
THEOREM BasicHolds == Spec => []Basic
<1>1. Init => Basic
  BY BasicInit
<1>2. Basic /\ [Next]_vars => Basic'
  BY BasicNext
<1> QED BY <1>1, <1>2, PTL DEF Spec

-----------------------------------------------------------------------------
\* An operation that runs alone.

\* The steps of the host.
HostNames == {"readiness", "existing", "clear", "compare", "import", "start", "address"}
    \cup Settings

LEMMA RankBounds ==
  /\ \A s \in HostNames : Rank(s) <= 16
  /\ \A s \in Range(GuestSteps) \cup {"player_settings"} : 16 < Rank(s)
<1>1. \A s \in HostNames : Rank(s) <= 16
  BY Ranks DEF HostNames, Settings
<1>2. \A s \in Range(GuestSteps) \cup {"player_settings"} : 16 < Rank(s)
  BY PartRanges, Ranks
<1> QED BY <1>1, <1>2

\* Only steps of the host come before one.
LEMMA HostPast ==
  ASSUME Basic, NEW s \in HostNames, At(s)
  PROVE  \A t \in StepNames : Past(t) \/ At(t) => t \in HostNames
<1>1. Kind = "hyperv" /\ Busy
  BY HostStepFacts DEF HostNames
<1>2. /\ \A t \in StepNames : Past(t) <=> t \in All /\ Rank(t) < Rank(Head(op.todo))
      /\ Head(op.todo) = s /\ Rank(s) \in Nat /\ Kind # "none"
  BY <1>1, BusyFacts DEF Basic, ClientInv, At
<1>3. All = Range(HostSteps) \cup Settings \cup {"start", "address", "player_settings"}
          \cup Range(GuestSteps)
  BY <1>1, AskedFacts, HyperVRanked DEF Basic
<1>4. ASSUME NEW t \in StepNames, Past(t)
      PROVE  t \in HostNames
  <2>1. Rank(t) < Rank(s) /\ t \in All
    BY <1>2, <1>4
  <2>2. Rank(t) \in Nat /\ Rank(s) <= 16
    BY RankIsNat, RankBounds
  <2>3. ~(16 < Rank(t))
    BY <1>2, <2>1, <2>2
  <2>4. t \notin Range(GuestSteps) \cup {"player_settings"}
    BY <2>3, RankBounds
  <2> QED BY <1>3, <2>1, <2>4, PartRanges DEF HostNames
<1> QED BY <1>4 DEF At

\* No step of the guest is past.
Early == ~Waiting /\ \A s \in StepNames : Past(s) => s \in HostNames

\* How an operation that runs alone goes on.
Passes ==
    /\ Proceeds /\ Keeps /\ guest' = guest /\ vm' = vm /\ folder' = folder
    /\ \/ Waiting /\ op.process = <<>> /\ op'.version = op.version
       \/ /\ At("version") /\ ~Waiting /\ Reachable /\ There(guest, <<"payload">>)
          /\ op'.version = guest[<<"payload">>]

\* It sends the script of a step,
Sends ==
    /\ Busy /\ Head(op.todo) \in ScriptSteps /\ ~Waiting
    /\ Changed(op, op', Script(op), op.version, op.faulted, op.lost, op.alone, op.skipped)
    /\ guest' = guest /\ vm' = vm /\ folder' = folder

\* performs the next effect of it,
Performs ==
    /\ Waiting /\ op.process # <<>> /\ ScriptMoves(op.process)
    /\ ~Fails(guest, Head(op.process))
    /\ guest' = Effect(guest, Head(op.process))
    /\ Changed(op, op', After(op.process), op.version, op.faulted, op.lost, op.alone,
               op.skipped \/ Skips(guest, Head(op.process)))
    /\ vm' = vm /\ folder' = folder

\* loses a download,
Breaks ==
    /\ Waiting /\ Runs("download")
    /\ Changed(op, op', <<>>, op.version, TRUE, op.lost, op.alone, op.skipped)
    /\ guest' = guest /\ vm' = vm /\ folder' = folder

\* stays where it is while the guest goes on,
Rests ==
    /\ op'.request = op.request /\ op'.todo = op.todo /\ op'.process = op.process
    /\ op'.version = op.version /\ op'.lost = op.lost /\ op'.alone = op.alone
    /\ op'.skipped = op.skipped /\ op'.answer = op.answer
    /\ \/ (\E w \in Worlds : DatabaseStarts(w)) \/ Release
       \/ UNCHANGED vars
       \/ (PowerOff /\ ~Waiting) \/ PowerOn

\* or is at a step of the host.
HostMoves ==
    \/ \E r \in Requests : Begin(r)
    \/ Readiness \/ Existing \/ Clear \/ Compare \/ Import \/ Start \/ Address
    \/ \E step \in Settings : Configure(step)

LEMMA EarlyAfter ==
  ASSUME Basic, HostMoves, Alone'
  PROVE  Early' /\ (orphans = {} => orphans' = {})
<1>1. CASE \E r \in Requests : Begin(r)
  <2>1. Early'
    BY <1>1, BasicBegin DEF Early
  <2> QED BY <1>1, <2>1 DEF Begin
<1>2. ASSUME NEW s \in HostNames, At(s), Busy, ~Waiting, Proceeds
      PROVE  Early'
  <2>1. ~Waiting'
    BY <1>2 DEF Waiting, Proceeds
  <2>2. \A t \in StepNames : Past(t)' <=> Past(t) \/ At(t)
    BY <1>2, NextPast DEF Proceeds, Basic, ClientInv
  <2> QED BY <1>2, <2>1, <2>2, HostPast DEF Early
<1>3. ASSUME NEW s \in HostNames, At(s), Busy, ~Waiting, op' = op
      PROVE  Early'
  <2>1. ~Waiting' /\ \A t : Past(t)' <=> Past(t)
    BY <1>3 DEF Waiting, Past, Has, Kind, All, Busy
  <2> QED BY <1>3, <2>1, HostPast DEF Early
<1>4. ASSUME NEW answer, op' = Finish(op, answer), Busy, answer # "ok"
      PROVE  FALSE
  <2>1. op'.todo = <<>> /\ op'.answer # "ok"
    BY <1>4, FinishDoes DEF Ends, Basic
  <2> QED BY <2>1 DEF Alone, Busy
<1>5. ASSUME NEW s \in HostNames, At(s), op' = Proceed(op) \/ op' = op
             \/ \E answer : answer # "ok" /\ op' = Finish(op, answer)
      PROVE  Early'
  <2>1. Busy /\ ~Waiting /\ Typed
    BY <1>5, HostStepFacts DEF HostNames
  <2>2. op' = Proceed(op) => Proceeds
    BY <2>1, ProceedDoes
  <2> QED BY <1>2, <1>3, <1>4, <1>5, <2>1, <2>2
<1>6. {"readiness", "existing", "clear", "compare", "import", "start", "address"}
          \subseteq HostNames
      /\ Settings \subseteq HostNames
  BY DEF HostNames
<1>7. CASE Readiness
  BY <1>5, <1>6, <1>7 DEF Readiness
<1>8. CASE Existing
  <2>1. Early'
    BY <1>5, <1>6, <1>8 DEF Existing
  <2> QED BY <1>8, <2>1 DEF Existing
<1>9. CASE Clear
  <2>1. Early'
    BY <1>5, <1>6, <1>9 DEF Clear
  <2> QED BY <1>9, <2>1 DEF Clear
<1>10. CASE Compare
  <2>1. Early'
    BY <1>5, <1>6, <1>10 DEF Compare
  <2> QED BY <1>10, <2>1 DEF Compare
<1>11. CASE Import
  BY <1>5, <1>6, <1>11 DEF Import
<1>12. CASE Start
  BY <1>5, <1>6, <1>12 DEF Start
<1>13. CASE Address
  <2>1. Early'
    BY <1>5, <1>6, <1>13 DEF Address
  <2> QED BY <1>13, <2>1 DEF Address
<1>14. CASE \E step \in Settings : Configure(step)
  <2> PICK step \in Settings : Configure(step)
    BY <1>14
  <2>1. Early'
    BY <1>5, <1>6 DEF Configure
  <2> QED BY <2>1 DEF Configure
<1> QED BY <1>1, <1>7, <1>8, <1>9, <1>10, <1>11, <1>12, <1>13, <1>14 DEF HostMoves

LEMMA EndsBadly ==
  ASSUME NEW answer, Ends(answer), answer # "ok"
  PROVE  ~Alone'
BY DEF Ends, Alone, Busy

LEMMA AloneBefore ==
  ASSUME Busy \/ op'.answer = op.answer, op'.alone = op.alone, op'.lost = op.lost, Alone',
         Busy' => Busy
  PROVE  Alone
BY DEF Alone

\* What an operation that runs alone may do next.
LEMMA Classes ==
  ASSUME Basic, Alone => orphans = {}, [Next]_vars, Alone'
  PROVE  /\ orphans' = {}
         /\ \/ HostMoves /\ Early'
            \/ Alone /\ (Passes \/ Sends \/ Performs \/ Breaks \/ Rests)
<1>t. Typed /\ OpTyped(op) /\ Shaped(op) /\ ClientInv
  BY DEF Basic, Typed, OpTyped
<1>1. CASE HostMoves
  <2>1. Early'
    BY <1>1, EarlyAfter
  <2>2. CASE \E r \in Requests : Begin(r)
    <3>1. orphans' = orphans /\ (op'.alone <=> orphans = {})
      BY <2>2, BeginDoes DEF Begin
    <3> QED BY <1>1, <2>1, <3>1 DEF Alone
  <2>3. CASE ~\E r \in Requests : Begin(r)
    <3>1. PICK s \in HostNames : At(s) /\ orphans' \in {orphans, {}}
                /\ (op' = Proceed(op) \/ op' = op \/ \E answer : answer # "ok"
                   /\ op' = Finish(op, answer))
      <4>1. {"readiness", "existing", "clear", "compare", "import", "start", "address"}
                \subseteq HostNames
            /\ Settings \subseteq HostNames
        BY DEF HostNames
      <4>2. CASE Readiness
        BY <4>1, <4>2 DEF Readiness
      <4>3. CASE Existing
        BY <4>1, <4>3 DEF Existing
      <4>4. CASE Clear
        BY <4>1, <4>4 DEF Clear
      <4>5. CASE Compare
        BY <4>1, <4>5 DEF Compare
      <4>6. CASE Import
        BY <4>1, <4>6 DEF Import
      <4>7. CASE Start
        BY <4>1, <4>7 DEF Start
      <4>8. CASE Address
        BY <4>1, <4>8 DEF Address
      <4>9. CASE \E step \in Settings : Configure(step)
        BY <4>1, <4>9 DEF Configure
      <4> QED BY <1>1, <2>3, <4>2, <4>3, <4>4, <4>5, <4>6, <4>7, <4>8, <4>9 DEF HostMoves
    <3>2. Busy
      BY <3>1 DEF At
    <3>3. op'.alone = op.alone /\ op'.lost = op.lost
      <4>1. CASE op' = Proceed(op)
        BY <1>t, <3>2, <4>1, ProceedDoes DEF Proceeds, Keeps
      <4>2. ASSUME NEW answer, op' = Finish(op, answer)
            PROVE  op'.alone = op.alone /\ op'.lost = op.lost
        BY <1>t, <3>2, <4>2, FinishDoes DEF Ends, Keeps
      <4> QED BY <3>1, <4>1, <4>2
    <3>4. Alone
      BY <3>2, <3>3 DEF Alone
    <3> QED BY <1>1, <2>1, <3>1, <3>4
  <2> QED BY <2>2, <2>3
<1>2. CASE Send
  <2>1. Reachable
    <3>1. ASSUME ~Reachable PROVE FALSE
      <4>1. Ends("error")
        BY <1>2, <1>t, <3>1, FinishDoes DEF Send
      <4> QED BY <4>1, EndsBadly
    <3> QED BY <3>1
  <2>2. op' = [op EXCEPT !.process = Script(op)]
    BY <1>2, <2>1 DEF Send
  <2>3. Changed(op, op', Script(op), op.version, op.faulted, op.lost, op.alone, op.skipped)
    BY <1>t, <2>2, Except
  <2>4. Sends
    BY <1>2, <2>3 DEF Send, Sends, host
  <2>5. Alone
    BY <1>2, <2>3, AloneBefore DEF Send, Changed
  <2> QED BY <1>2, <2>4, <2>5 DEF Send
<1>3. CASE ReadVersion
  <2>1. Busy /\ At("version")
    BY <1>3 DEF ReadVersion, At
  <2>2. Reachable /\ There(guest, <<"payload">>)
    <3>1. ASSUME ~(Reachable /\ There(guest, <<"payload">>)) PROVE FALSE
      <4>1. op' = Finish(op, "error")
        BY <1>3, <3>1 DEF ReadVersion
      <4>2. Ends("error")
        BY <1>t, <2>1, <4>1, FinishDoes
      <4> QED BY <4>2, EndsBadly
    <3> QED BY <3>1
  <2>3. guest[<<"payload">>] \in Values
    BY <1>t, <2>2, PayloadValue DEF Typed, GuestTyped
  <2>4. Proceeds /\ Keeps /\ op'.version = guest[<<"payload">>]
    BY <1>3, <1>t, <2>1, <2>2, <2>3, VersionDoes DEF ReadVersion
  <2>5. ~Waiting
    <3>1. "version" \notin ScriptSteps
      BY PartRanges DEF ScriptSteps
    <3> QED BY <1>t, <2>1, <3>1 DEF ClientInv, At
  <2>6. Passes
    BY <1>3, <2>1, <2>2, <2>4, <2>5 DEF Passes, ReadVersion, host
  <2>7. Alone
    BY <2>1, <2>4, AloneBefore DEF Proceeds, Keeps
  <2> QED BY <1>3, <2>6, <2>7 DEF ReadVersion
<1>4. CASE Execute
  <2>1. Waiting /\ Busy /\ op.process # <<>>
    BY <1>4, <1>t DEF Execute, ClientInv
  <2>2. ~Fails(guest, Head(op.process))
    <3>1. ASSUME Fails(guest, Head(op.process)) PROVE FALSE
      <4>1. op' = Finish(op, "error")
        BY <1>4, <3>1 DEF Execute
      <4>2. Ends("error")
        BY <1>t, <2>1, <4>1, FinishDoes
      <4> QED BY <4>2, EndsBadly
    <3> QED BY <3>1
  <2>3. /\ ScriptMoves(op.process)
        /\ Changed(op, op', After(op.process), op.version, op.faulted, op.lost, op.alone,
                    op.skipped \/ Skips(guest, Head(op.process)))
    BY <1>4, <2>2, ExecuteDoes
  <2>4. guest' = Effect(guest, Head(op.process))
    BY <1>4, <2>2 DEF Execute, Perform
  <2>5. Performs
    BY <1>4, <2>1, <2>2, <2>3, <2>4 DEF Performs, Execute, host
  <2>6. Alone
    BY <2>1, <2>3, AloneBefore DEF Changed
  <2> QED BY <1>4, <2>5, <2>6 DEF Execute
<1>5. CASE Answered
  <2>1. Busy /\ Waiting /\ op.process = <<>>
    BY <1>5, <1>t DEF Answered, ClientInv
  <2>2. Proceeds /\ Keeps /\ op'.version = op.version
    BY <1>5, <1>t, <2>1, ProceedDoes DEF Answered
  <2>3. Passes
    BY <1>5, <2>1, <2>2 DEF Passes, Answered, host
  <2>4. Alone
    BY <2>1, <2>2, AloneBefore DEF Proceeds, Keeps
  <2> QED BY <1>5, <2>3, <2>4 DEF Answered
<1>6. CASE \E o \in orphans : OrphanExecutes(o) \/ OrphanEnds(o)
  <2>1. op' = op /\ orphans # {}
    BY <1>6 DEF OrphanExecutes, OrphanEnds
  <2>2. Alone
    BY <2>1 DEF Alone, Busy
  <2> QED BY <2>1, <2>2
<1>7. CASE (\E w \in Worlds : DatabaseStarts(w)) \/ Release \/ UNCHANGED vars
  <2>1. op' = op /\ orphans' = orphans
    BY <1>7 DEF DatabaseStarts, Release, vars
  <2>2. Alone
    BY <2>1 DEF Alone, Busy
  <2>3. Rests
    BY <1>7, <2>1 DEF Rests
  <2> QED BY <2>1, <2>2, <2>3
<1>8. CASE DownloadFails
  <2>1. Waiting /\ Busy /\ op.process # <<>>
    BY <1>8, <1>t, DownloadRuns DEF DownloadFails
  <2>2. At("download")
    <3>1. ASSUME ~At("download") PROVE FALSE
      <4>1. Ends("error")
        BY <1>8, <1>t, <2>1, <3>1, FailDoes DEF DownloadFails
      <4> QED BY <4>1, EndsBadly
    <3> QED BY <3>1
  <2>3. op' = [op EXCEPT !.process = <<>>, !.faulted = TRUE]
    BY <1>8, <2>2 DEF DownloadFails
  <2>4. Changed(op, op', <<>>, op.version, TRUE, op.lost, op.alone, op.skipped)
    BY <1>t, <2>3, Except
  <2>5. Breaks
    BY <1>8, <2>1, <2>2, <2>4 DEF Breaks, Runs, DownloadFails, host
  <2>6. Alone
    BY <2>1, <2>4, AloneBefore DEF Changed
  <2> QED BY <1>8, <2>5, <2>6 DEF DownloadFails
<1>9. CASE StepFails \/ TimesOut
  <2>1. Busy
    BY <1>9, <1>t DEF StepFails, TimesOut, ClientInv
  <2>2. Ends("error")
    BY <1>9, <1>t, <2>1, FailDoes DEF StepFails, TimesOut
  <2> QED BY <2>2, EndsBadly
<1>10. CASE ConnectionLost \/ (PowerOff /\ Waiting)
  <2>1. Busy /\ op' = Unanswered(op)
    BY <1>10, <1>t DEF ConnectionLost, PowerOff, ClientInv
  <2>2. op'.lost
    BY <1>t, <2>1, UnansweredDoes
  <2> QED BY <2>2 DEF Alone
<1>11. CASE ScriptResent
  <2>1. op' = [op EXCEPT !.process = Script(op), !.faulted = TRUE, !.alone = FALSE]
    BY <1>11 DEF ScriptResent
  <2> DEFINE p == Script(op)
  <2>p. op' = [op EXCEPT !.process = p, !.faulted = TRUE, !.alone = FALSE]
    BY <2>1
  <2> HIDE DEF p
  <2>c. Changed(op, op', p, op.version, TRUE, op.lost, FALSE, op.skipped)
    BY <1>t, <2>p, Except
  <2>2. op'.alone = FALSE
    BY <2>c DEF Changed
  <2> QED BY <2>2 DEF Alone
<1>12. CASE (PowerOff /\ ~Waiting) \/ PowerOn
  <2>1. op' = [op EXCEPT !.faulted = @ \/ Busy]
    BY <1>12 DEF PowerOff, PowerOn
  <2>2. /\ op'.request = op.request /\ op'.todo = op.todo /\ op'.version = op.version
        /\ op'.process = op.process /\ op'.answer = op.answer /\ op'.lost = op.lost
        /\ op'.alone = op.alone /\ op'.skipped = op.skipped
    BY <2>1, FaultNoted
  <2>3. Rests
    BY <1>12, <2>2 DEF Rests
  <2>4. Alone
    BY <2>2, AloneBefore DEF Busy
  <2> QED BY <1>12, <2>3, <2>4 DEF PowerOff, PowerOn
<1> QED
  BY <1>1, <1>2, <1>3, <1>4, <1>5, <1>6, <1>7, <1>8, <1>9, <1>10, <1>11, <1>12 DEF Next, HostMoves

\* What is past and at hand stays so while the operation stays where it is.
LEMMA StaysThere ==
  ASSUME op'.request = op.request, op'.todo = op.todo
  PROVE  /\ \A s : (Past(s)' <=> Past(s)) /\ (At(s)' <=> At(s))
         /\ Kind' = Kind /\ (Busy' <=> Busy) /\ All' = All
BY DEF Past, Has, At, Kind, Busy, All

LEMMA RunsThere ==
  ASSUME op'.request = op.request, op'.todo = op.todo, op'.process = op.process
  PROVE  \A s : Runs(s)' <=> Runs(s)
BY DEF Runs, At, Busy, Waiting

LEMMA PassesPast ==
  ASSUME Basic, Passes
  PROVE  /\ ~Waiting' /\ op'.request = op.request
         /\ \A s \in StepNames : Past(s)' <=> Past(s) \/ At(s)
         /\ \A s : ~Runs(s)'
         /\ Kind' = Kind
<1>1. ~Waiting' /\ op'.request = op.request /\ Kind' = Kind
  BY DEF Passes, Proceeds, Waiting, Kind
<1>2. \A s \in StepNames : Past(s)' <=> Past(s) \/ At(s)
  BY NextPast DEF Passes, Proceeds, Basic, ClientInv
<1> QED BY <1>1, <1>2 DEF Runs

LEMMA PassedStep ==
  ASSUME Basic, Passes, NEW s \in StepNames, At(s), s # "version"
  PROVE  Runs(s) /\ op.process = <<>> /\ op'.version = op.version
BY DEF Passes, Runs, At

LEMMA RanStep ==
  ASSUME Basic, Waiting
  PROVE  \E s \in StepNames \cap ScriptSteps : Runs(s)
<1>1. Busy /\ Head(op.todo) \in ScriptSteps /\ Head(op.todo) \in StepNames
  BY BusyFacts DEF Basic, ClientInv
<1> QED BY <1>1 DEF Runs, At

\* Sending the script of a step.
LEMMA SendsGood ==
  ASSUME Basic, Sends
  PROVE  /\ \A s : Runs(s)' => At(s)
         /\ \A s : At(s) => s \in ScriptSteps /\ s \in StepNames
              /\ Good("order", guest, s, op.request.world, op.version, op'.process)
         /\ op'.request = op.request /\ op'.todo = op.todo /\ op'.version = op.version
         /\ op'.skipped = op.skipped
         /\ op'.process = Script(op) /\ op'.process \in Seq(Effects)
<1>1. Busy /\ Head(op.todo) \in ScriptSteps /\ op'.process = Script(op)
      /\ op'.request = op.request /\ op'.todo = op.todo /\ op'.version = op.version
      /\ op'.skipped = op.skipped
  BY DEF Sends, Changed
<1>2. Script(op) \in Seq(Effects)
  BY <1>1, ScriptSound
<1>3. \A s : Runs(s)' => At(s)
  BY <1>1 DEF Runs, At, Busy
<1>4. ASSUME NEW s, At(s)
      PROVE  s \in ScriptSteps /\ s \in StepNames
              /\ Good("order", guest, s, op.request.world, op.version, Script(op))
  <2>1. s = Head(op.todo) /\ s \in ScriptSteps
    BY <1>1, <1>4 DEF At
  <2>2. s \in StepNames
    BY <1>1, <2>1, BusyFacts DEF Basic, ClientInv
  <2>3. op.request.world \in Worlds
    BY <1>1, BusyWorld
  <2>4. s = "patch_images" => op.version \in Values /\ op.version # Absent
    BY <1>1, <2>1, PatchVersion
  <2>5. Good("order", guest, s, op.request.world, op.version, Script(op))
    BY <2>1, <2>3, <2>4, GoodScript
  <2> QED BY <2>1, <2>2, <2>5
<1> QED BY <1>1, <1>2, <1>3, <1>4

\* An effect of the script of a step.
LEMMA PerformsFacts ==
  ASSUME Basic, Performs
  PROVE  /\ op'.request = op.request /\ op'.todo = op.todo /\ op'.version = op.version
         /\ op'.process = After(op.process)
         /\ \A s : Runs(s)' => Runs(s)
         /\ op.process \in Seq(Effects) /\ op.process # <<>> /\ Sound(guest, op.process)
         /\ Head(op.process) \in Effects /\ Head(op.process) \in Range(op.process)
         /\ Written(After(op.process)) \subseteq Written(op.process)
         /\ \A x \in Items : There(guest, x) \/ x \in Made(op.process) =>
                There(guest', x) \/ x \in Made(After(op.process))
         /\ Range(After(op.process)) =
              Range(Expanded(guest, Head(op.process), generated + 1)) \cup Range(Tail(op.process))
         /\ Range(op.process) = {Head(op.process)} \cup Range(Tail(op.process))
         /\ \A x \in Items \ Writes(Head(op.process)) : guest'[x] = guest[x]
         /\ \A x \in Items \ Written(op.process) : guest'[x] = guest[x]
<1> DEFINE p == op.process
           e == Head(p)
           q == After(p)
<1>1. p \in Running /\ p # <<>> /\ ~Fails(guest, e) /\ Waiting
  BY DEF Performs, Running
<1>2. p \in Seq(Effects) /\ Sound(guest, p)
  BY <1>1, RunningFacts
<1>3. /\ op'.request = op.request /\ op'.todo = op.todo /\ op'.version = op.version
      /\ op'.process = q
  BY DEF Performs, Changed
<1>4. \A s : Runs(s)' => Runs(s)
  BY <1>1, <1>3 DEF Runs, At, Busy
<1>5. guest \in [Items -> Values] /\ GuestSound(guest) /\ generated + 1 \in Nat
  BY DEF Basic, Typed, GuestTyped, GuestInv
<1>6. guest' = Effect(guest, e)
  BY DEF Performs
<1> DEFINE pw == generated + 1
<1>7. q = Expanded(guest, e, pw) \o Tail(p)
  BY DEF After
<1>8. pw \in Nat
  BY <1>5
<1> HIDE DEF p, q, e, pw
<1>9. e = Head(p)
  BY DEF e
<1>10. /\ Written(q) \subseteq Written(p)
       /\ Range(q) = Range(Expanded(guest, e, pw)) \cup Range(Tail(p))
       /\ \A x \in Items : There(guest, x) \/ x \in Made(p) => There(guest', x) \/ x \in Made(q)
  BY <1>1, <1>2, <1>5, <1>6, <1>7, <1>8, <1>9, Executes
<1>11. e \in Effects /\ Range(p) = {e} \cup Range(Tail(p))
  BY <1>1, <1>2, <1>9, HeadTail
<1>12. \A x \in Items \ Writes(e) : guest'[x] = guest[x]
  BY <1>5, <1>6, <1>11, EffectOnGuest
<1>13. Writes(e) \subseteq Written(p)
  BY <1>11 DEF Written
<1> QED
  BY <1>1, <1>2, <1>3, <1>4, <1>10, <1>11, <1>12, <1>13 DEF p, q, e, pw

\* Each step writes its own items alone.
LEMMA OwnHolds ==
  ASSUME Basic, Alone => orphans = {} /\ WritesItsOwn, [Next]_vars, Alone'
  PROVE  WritesItsOwn'
<1>1. CASE Early'
  BY <1>1 DEF WritesItsOwn, Early, Runs
<1>2. CASE Alone /\ Passes
  BY <1>2, PassesPast DEF WritesItsOwn
<1>3. CASE Alone /\ Sends
  <2>1. ASSUME NEW s \in StepNames, Runs(s)'
        PROVE  Written(op'.process) \cap Watched(op.request.world)
               \subseteq MayWrite(s, op.request.world)
    BY <1>3, <2>1, SendsGood DEF Good, Suits
  <2> QED BY <1>3, <2>1, SendsGood DEF WritesItsOwn
<1>4. CASE Alone /\ Performs
  <2>1. /\ op'.request = op.request /\ op'.process = After(op.process)
        /\ \A s : Runs(s)' => Runs(s)
        /\ Written(After(op.process)) \subseteq Written(op.process)
    BY <1>4, PerformsFacts
  <2> QED BY <1>4, <2>1 DEF WritesItsOwn
<1>5. CASE Alone /\ Breaks
  <2>1. op'.process = <<>>
    BY <1>5 DEF Breaks, Changed
  <2>2. Written(op'.process) = {}
    BY <2>1, RangeOfTuple DEF Written
  <2> QED BY <2>2 DEF WritesItsOwn
<1>6. CASE Alone /\ Rests
  <2>1. op'.request = op.request /\ op'.process = op.process /\ \A s : Runs(s)' <=> Runs(s)
    BY <1>6, RunsThere DEF Rests
  <2> QED BY <1>6, <2>1 DEF WritesItsOwn
<1> QED BY <1>1, <1>2, <1>3, <1>4, <1>5, <1>6, Classes

-----------------------------------------------------------------------------
\* Orderly: the passwords.

LEMMA PastWorld ==
  ASSUME Basic, NEW s, Past(s) \/ At(s)
  PROVE  op.request.world \in Worlds /\ Kind # "none"
<1>1. Kind # "none"
  BY BusyFacts DEF Past, Has, At, Basic, ClientInv
<1> QED BY <1>1, AskedFacts DEF Basic

LEMMA WorldItemsNamed ==
  ASSUME NEW w \in Worlds
  PROVE  \A i \in WorldItems : <<i, w>> \in Items
BY ItemsAre

LEMMA AgreeKept ==
  ASSUME NEW g, NEW h, NEW w, Agree(g, w), h[<<"database", w>>] = g[<<"database", w>>],
         h[<<"world", w>>] = g[<<"world", w>>], There(h, <<"pod", w>>) => There(g, <<"pod", w>>)
  PROVE  Agree(h, w)
BY DEF Agree, There

\* Once the passwords are synced, no later step touches them.
LEMMA AfterSync ==
  ASSUME Basic, WritesItsOwn, Past("sync"), Performs
  PROVE  LET w == op.request.world
         IN /\ guest'[<<"database", w>>] = guest[<<"database", w>>]
            /\ guest'[<<"world", w>>] = guest[<<"world", w>>]
            /\ guest'[<<"pod", w>>] = guest[<<"pod", w>>]
<1> DEFINE w == op.request.world
<1>1. w \in Worlds
  BY PastWorld
<1>2. Waiting
  BY DEF Performs
<1>3. PICK s \in StepNames : Runs(s)
  BY <1>2, RanStep
<1>4. s # "sync" /\ s # "create_world"
  <2>1. Busy /\ s = Head(op.todo)
    BY <1>3 DEF Runs, At
  <2>2. "sync" \in StepNames
    BY DEF StepNames
  <2>3. Rank("sync") < Rank(s)
    BY <2>1, <2>2, BusyFacts DEF Basic, ClientInv
  <2>4. Rank("sync") = 30 /\ Rank("create_world") = 27
    BY Ranks, Zenon
  <2> QED BY <2>3, <2>4
<1>5. /\ <<"database", w>> \in Items /\ <<"world", w>> \in Items /\ <<"pod", w>> \in Items
      /\ <<"pod", w>>[1] \in Fixed
  BY <1>1, WorldItemsNamed DEF WorldItems, Fixed
<1>6. <<"database", w>> \notin MayWrite(s, w) /\ <<"world", w>> \notin MayWrite(s, w)
  BY <1>4 DEF MayWrite
<1>7. Written(op.process) \cap Watched(w) \subseteq MayWrite(s, w)
  BY <1>3 DEF WritesItsOwn
<1>8. <<"database", w>> \in Watched(w) /\ <<"world", w>> \in Watched(w)
  BY DEF Watched
<1>9. <<"database", w>> \notin Written(op.process) /\ <<"world", w>> \notin Written(op.process)
  BY <1>6, <1>7, <1>8
<1>10. \A x \in Items \ Written(op.process) : guest'[x] = guest[x]
  BY PerformsFacts
<1>11. guest'[<<"pod", w>>] = guest[<<"pod", w>>]
  BY <1>5 DEF Performs, ScriptMoves, KeepsFixed
<1> QED BY <1>5, <1>9, <1>10, <1>11

\* The effects of the script that syncs them.
LEMMA SyncEffect ==
  ASSUME NEW g \in [Items -> Values], NEW w \in Worlds, NEW p, SyncForm(g, w, p), p # <<>>, NEW pw,
         ~Skips(g, Head(p))
  PROVE  SyncForm(Effect(g, Head(p)), w, Expanded(g, Head(p), pw) \o Tail(p))
<1> DEFINE c == Copy(<<"world", w>>, <<"database", w>>)
           b == BranchFor("sync", w)
<1>1. c.do = "copy" /\ c.item = <<"database", w>> /\ c.from = <<"world", w>>
      /\ b.do = "branch" /\ b.of = "sync" /\ b.world = w
  BY DEF Copy, BranchFor
<1>2. <<"database", w>> \in Items /\ <<"world", w>> \in Items
  BY WorldItemsNamed DEF WorldItems
<1>3. \A e : Head(<<e>>) = e /\ Tail(<<e>>) = <<>>
  OBVIOUS
<1> HIDE DEF c, b
<1>4. CASE p = <<b>>
  <2>1. Head(p) = b /\ Tail(p) = <<>>
    BY <1>3, <1>4
  <2>2. Effect(g, b) = g
    BY <1>1 DEF Effect
  <2>3. Expanded(g, b, pw) = SyncEffects(g, w)
    BY <1>1 DEF Expanded
  <2>4. CASE There(g, <<"pod", w>>)
    <3>1. SyncEffects(g, w) = <<c>>
      BY <2>4 DEF SyncEffects, c
    <3>2. <<c>> \o <<>> = <<c>>
      OBVIOUS
    <3> QED BY <2>1, <2>3, <3>1, <3>2 DEF SyncForm, c
  <2>5. CASE ~There(g, <<"pod", w>>)
    <3>1. SyncEffects(g, w) = <<>>
      BY <2>5 DEF SyncEffects
    <3>2. ~There(g, <<"database", w>>)
      BY <1>1, <2>1, <2>5 DEF Skips
    <3>3. <<>> \o <<>> = <<>>
      OBVIOUS
    <3> QED BY <2>1, <2>2, <2>3, <2>5, <3>1, <3>2, <3>3 DEF SyncForm, Agree
  <2> QED BY <2>4, <2>5
<1>5. CASE p = <<c>>
  <2>1. Head(p) = c /\ Tail(p) = <<>>
    BY <1>3, <1>5
  <2>2. Effect(g, c) = [g EXCEPT ![<<"database", w>>] = g[<<"world", w>>]]
    BY <1>1 DEF Effect
  <2>3. Expanded(g, c, pw) = <<>>
    BY <1>1 DEF Expanded
  <2>4. Effect(g, c)[<<"database", w>>] = g[<<"world", w>>]
            /\ Effect(g, c)[<<"world", w>>] = g[<<"world", w>>]
    BY <1>2, <2>2
  <2>5. <<>> \o <<>> = <<>>
    OBVIOUS
  <2> QED BY <2>1, <2>3, <2>4, <2>5 DEF SyncForm, Agree
<1> QED BY <1>4, <1>5 DEF SyncForm, SyncScript, c, b

\* The database of a world that starts has the world's passwords, or keeps those it has.
LEMMA AgreeBeside ==
  ASSUME Basic, Rests, NEW w \in Worlds, Agree(guest, w)
  PROVE  Agree(guest', w)
<1>1. <<"database", w>> \in Items /\ <<"world", w>> \in Items /\ <<"pod", w>> \in Items
  BY WorldItemsNamed DEF WorldItems
<1>2. <<"database", w>> \notin Volatile /\ <<"world", w>> \notin Volatile
          /\ <<"pod", w>> \in Volatile
  BY DEF Volatile, Pods
<1>3. CASE Release
  <2>1. guest' = [guest EXCEPT ![<<"release">>] = @ + 1]
    BY <1>3 DEF Release
  <2>2. /\ guest'[<<"database", w>>] = guest[<<"database", w>>]
        /\ guest'[<<"world", w>>] = guest[<<"world", w>>]
        /\ guest'[<<"pod", w>>] = guest[<<"pod", w>>]
    BY <1>1, <2>1 DEF Basic, Typed, GuestTyped
  <2> QED BY <2>2, AgreeKept DEF There
<1>4. CASE PowerOff
  <2>1. /\ \A x \in Items \ Volatile : guest'[x] = guest[x]
        /\ \A x \in Volatile : guest'[x] = Absent
    BY <1>4, GuestStops DEF PowerOff
  <2> QED BY <1>1, <1>2, <2>1, AgreeKept DEF There
<1>5. CASE PowerOn
  <2>1. /\ \A x \in Items \ Volatile : guest'[x] = guest[x]
        /\ \A v \in Worlds : guest'[<<"pod", v>>] = guest[<<"pod", v>>]
    BY <1>5, GuestBoots DEF PowerOn
  <2> QED BY <1>1, <1>2, <2>1, AgreeKept DEF There
<1>6. CASE UNCHANGED vars
  BY <1>6 DEF vars
<1>7. ASSUME NEW v \in Worlds, DatabaseStarts(v)
      PROVE  Agree(guest', w)
  <2>1. /\ <<"pod", v>> \in Items /\ <<"database", v>> \in Items
        /\ guest'[<<"database", v>>] =
              (IF guest[<<"database", v>>] = Absent THEN guest[<<"world",
                  v>>] ELSE guest[<<"database", v>>])
        /\ \A x \in Items \ {<<"pod", v>>, <<"database", v>>} : guest'[x] = guest[x]
    BY <1>7, DatabaseGuest
  <2>2. CASE v = w
    <3>1. guest'[<<"world", w>>] = guest[<<"world", w>>]
      BY <1>1, <2>1
    <3>2. ~There(guest, <<"pod", w>>) /\ There(guest, <<"world", w>>)
      BY <1>7, <2>2 DEF DatabaseStarts
    <3> QED BY <2>1, <2>2, <3>1, <3>2 DEF Agree, There
  <2>3. CASE v # w
    <3>1. /\ <<"database", w>> \notin {<<"pod", v>>, <<"database", v>>}
          /\ <<"world", w>> \notin {<<"pod", v>>, <<"database", v>>}
          /\ <<"pod", w>> \notin {<<"pod", v>>, <<"database", v>>}
      BY <2>3
    <3>2. \A x \in Items \ {<<"pod", v>>, <<"database", v>>} : guest'[x] = guest[x]
      BY <2>1
    <3>3. /\ guest'[<<"database", w>>] = guest[<<"database", w>>]
          /\ guest'[<<"world", w>>] = guest[<<"world", w>>]
          /\ guest'[<<"pod", w>>] = guest[<<"pod", w>>]
      BY <1>1, <3>1, <3>2
    <3> QED BY <3>3, AgreeKept DEF There
  <2> QED BY <2>2, <2>3
<1> QED BY <1>3, <1>4, <1>5, <1>6, <1>7 DEF Rests

\* Once the passwords are synced they agree.
LEMMA SyncedHolds ==
  ASSUME Basic, Alone => orphans = {} /\ WritesItsOwn /\ Synced, [Next]_vars, Alone'
  PROVE  Synced'
<1>s. "sync" \in StepNames /\ "sync" \notin HostNames
  BY DEF StepNames, HostNames, Settings
<1>1. CASE Early'
  BY <1>1, <1>s DEF Synced, Early, Runs
<1>2. CASE Alone /\ Passes
  <2> SUFFICES ASSUME ~op'.skipped PROVE Synced'
    BY DEF Synced
  <2>1. /\ op'.request = op.request /\ (Past("sync")' <=> Past("sync") \/ At("sync"))
           /\ ~Runs("sync")'
    BY <1>2, <1>s, PassesPast
  <2>2. op.skipped = op'.skipped /\ guest' = guest
    BY <1>2 DEF Passes, Proceeds
  <2>3. Past("sync") => Agree(guest, op.request.world)
    BY <1>2, <2>2 DEF Synced
  <2>4. At("sync") => Agree(guest, op.request.world)
    <3>1. ASSUME At("sync") PROVE Runs("sync") /\ op.process = <<>>
      BY <1>2, <1>s, <3>1, PassedStep
    <3>2. <<>> # SyncScript(op.request.world) /\ \A e : <<>> # <<e>>
      BY DEF SyncScript
    <3> QED BY <1>2, <2>2, <3>1, <3>2 DEF Synced, SyncForm
  <2> QED BY <2>1, <2>2, <2>3, <2>4 DEF Synced
<1>3. CASE Alone /\ Sends
  <2>1. /\ op'.request = op.request /\ op'.todo = op.todo /\ op'.skipped = op.skipped
           /\ guest' = guest
        /\ \A s : Past(s)' <=> Past(s)
    BY <1>3, SendsGood, StaysThere DEF Sends
  <2>2. Runs("sync")' => SyncForm(guest', op'.request.world, op'.process)
    <3>1. Runs("sync")' => At("sync")
      BY <1>3, SendsGood
    <3>2. At("sync") => Good("order", guest, "sync", op.request.world, op.version, op'.process)
      BY <1>3, SendsGood
    <3>3. At("sync") => op'.process = SyncScript(op.request.world)
      BY <3>2 DEF Good
    <3> QED BY <2>1, <3>1, <3>3 DEF SyncForm
  <2> QED BY <1>3, <2>1, <2>2 DEF Synced
<1>4. CASE Alone /\ Performs
  <2> DEFINE w == op.request.world
  <2> SUFFICES ASSUME ~op'.skipped PROVE Synced'
    BY DEF Synced
  <2>1. /\ op'.request = op.request /\ op'.todo = op.todo /\ op'.process = After(op.process)
        /\ op.process # <<>>
        /\ \A s : Runs(s)' => Runs(s)
    BY <1>4, PerformsFacts
  <2>2. \A s : Past(s)' <=> Past(s)
    BY <2>1, StaysThere
  <2>3. ~op.skipped /\ ~Skips(guest, Head(op.process))
    BY <1>4 DEF Performs, Changed
  <2>4. Past("sync") => Agree(guest', w)
    <3>1. ASSUME Past("sync") PROVE Agree(guest', w)
      <4>1. Agree(guest, w)
        BY <1>4, <2>3, <3>1 DEF Synced
      <4>2. /\ guest'[<<"database", w>>] = guest[<<"database", w>>]
            /\ guest'[<<"world", w>>] = guest[<<"world", w>>]
            /\ guest'[<<"pod", w>>] = guest[<<"pod", w>>]
        BY <1>4, <3>1, AfterSync
      <4> QED BY <4>1, <4>2, AgreeKept DEF There
    <3> QED BY <3>1
  <2>5. Runs("sync") => SyncForm(guest', w, After(op.process))
    <3>1. ASSUME Runs("sync") PROVE SyncForm(guest', w, After(op.process))
      <4>1. SyncForm(guest, w, op.process)
        BY <1>4, <2>3, <3>1 DEF Synced
      <4>2. w \in Worlds
        BY <3>1, PastWorld DEF Runs
      <4>3. guest \in [Items -> Values] /\ guest' = Effect(guest, Head(op.process))
        BY <1>4 DEF Basic, Typed, GuestTyped, Performs
      <4>4. After(op.process) = Expanded(guest, Head(op.process), generated + 1) \o Tail(op.process)
        BY DEF After
      <4> HIDE DEF w
      <4> QED BY <2>1, <2>3, <4>1, <4>2, <4>3, <4>4, SyncEffect
    <3> QED BY <3>1
  <2> QED BY <2>1, <2>2, <2>4, <2>5 DEF Synced
<1>5. CASE Alone /\ Breaks
  <2>1. op'.request = op.request /\ op'.todo = op.todo /\ op'.skipped = op.skipped /\ guest' = guest
        /\ At("download")
    BY <1>5 DEF Breaks, Changed, Runs
  <2>2. (Past("sync")' <=> Past("sync")) /\ ~At("sync")'
    BY <2>1, StaysThere DEF At
  <2> QED BY <1>5, <2>1, <2>2 DEF Synced, Runs
<1>6. CASE Alone /\ Rests
  <2>1. /\ op'.request = op.request /\ op'.todo = op.todo /\ op'.process = op.process
        /\ op'.skipped = op.skipped
        /\ \A s : (Past(s)' <=> Past(s)) /\ (Runs(s)' <=> Runs(s))
    BY <1>6, StaysThere, RunsThere DEF Rests
  <2>2. ASSUME Agree(guest, op.request.world), Past("sync") \/ Runs("sync")
        PROVE  Agree(guest', op.request.world)
    <3>1. op.request.world \in Worlds
      BY <2>2, PastWorld DEF Runs
    <3> DEFINE w == op.request.world
    <3>2. w \in Worlds /\ Agree(guest, w)
      BY <2>2, <3>1
    <3> HIDE DEF w
    <3>3. Agree(guest', w)
      BY <1>6, <3>2, AgreeBeside
    <3> QED BY <3>3 DEF w
  <2> QED BY <1>6, <2>1, <2>2 DEF Synced, SyncForm
<1> QED BY <1>1, <1>2, <1>3, <1>4, <1>5, <1>6, Classes

LEMMA NotAloneFirst ==
  ASSUME Init
  PROVE  ~Alone /\ op.answer = "none"
<1>1. op = Idle
  BY DEF Init
<1>2. ~Busy /\ op.answer = "none"
  BY <1>1, IdleFacts
<1> QED BY <1>2 DEF Alone

LEMMA CleanlyAlone ==
  ASSUME Basic, CleanlyDone
  PROVE  Alone /\ ~Busy /\ Kind # "none" /\ \A s \in All : Past(s)
<1>1. Alone
  BY DEF CleanlyDone, Alone
<1>2. ~Busy /\ Kind # "none"
  BY DEF CleanlyDone, Basic, ClientInv
<1> QED BY <1>1, <1>2 DEF Past, Has

-----------------------------------------------------------------------------
\* Orderly: what a step promises is there.

LEMMA PromisedItems ==
  ASSUME NEW s \in StepNames, NEW w \in Worlds
  PROVE  Promised(s, w) \subseteq Items \ Pods
<1>1. /\ \A i \in {"disk", "payload", "running", "enabled", "core_images", "cert-manager", "core",
                   "helper", "world_images", "user", "swap_file", "fstab", "kubelet"} :
            <<i>> \in Items \ Pods
  BY HostNamed DEF Pods
<1>2. \A o \in Range(Operators) : <<"scaled", o>> \in Items \ Pods
          /\ <<"operator", o>> \in Items \ Pods
  BY OperatorIs DEF Pods
<1>3. \A i \in {"namespace", "secrets", "world", "title", "revision", "settings"} :
         <<i, w>> \in Items \ Pods
  BY WorldItemsNamed DEF WorldItems, Pods
<1> QED BY <1>1, <1>2, <1>3 DEF Promised, StepNames

LEMMA HostsPromiseNothing ==
  ASSUME NEW w
  PROVE  /\ \A s \in HostNames : Promised(s, w) = {}
         /\ Promised("version", w) = {}
BY DEF HostNames, Settings, Promised

\* What is not started or stopped outlives whatever happens beside an operation.
LEMMA RestsKeep ==
  ASSUME Basic, Rests
  PROVE  /\ \A x \in Items \ Volatile : There(guest, x) => There(guest', x)
         /\ \A x \in Items \ Volatile : x[1] \notin {"database", "release"} => guest'[x] = guest[x]
         /\ \/ ~Busy \/ op'.faulted
            \/ op'.faulted = op.faulted /\ guest'[<<"running">>] = guest[<<"running">>]
         /\ op.faulted => op'.faulted
<1>0. <<"running">> \in Items /\ <<"release">> \in Items /\ <<"running">> # <<"release">>
  BY BaseItems
<1>1. CASE Release
  <2>1. guest' = [guest EXCEPT ![<<"release">>] = @ + 1] /\ op' = op
    BY <1>1 DEF Release
  <2>2. /\ \A x \in Items \ {<<"release">>} : guest'[x] = guest[x]
        /\ guest'[<<"release">>] \in Nat
    BY <1>0, <2>1 DEF Basic, Typed, GuestTyped
  <2>3. There(guest', <<"release">>)
    BY <2>2, Present DEF There
  <2>4. \A x \in Items : There(guest, x) => There(guest', x)
    BY <2>2, <2>3 DEF There
  <2>5. \A x : x[1] # "release" => x # <<"release">>
    OBVIOUS
  <2> QED BY <1>0, <2>1, <2>2, <2>4, <2>5
<1>2. CASE PowerOff /\ ~Waiting
  <2>1. /\ \A x \in Items \ Volatile : guest'[x] = guest[x]
    BY <1>2, GuestStops DEF PowerOff
  <2>2. op'.faulted <=> op.faulted \/ Busy
    BY <1>2, FaultNoted DEF PowerOff
  <2> QED BY <2>1, <2>2 DEF There
<1>3. CASE PowerOn
  <2>1. /\ \A x \in Items \ Volatile : guest'[x] = guest[x]
    BY <1>3, GuestBoots DEF PowerOn
  <2>2. op'.faulted <=> op.faulted \/ Busy
    BY <1>3, FaultNoted DEF PowerOn
  <2> QED BY <2>1, <2>2 DEF There
<1>4. CASE UNCHANGED vars
  BY <1>4 DEF vars
<1>5. ASSUME NEW v \in Worlds, DatabaseStarts(v)
      PROVE  /\ \A x \in Items : There(guest, x) => There(guest', x)
             /\ \A x \in Items \ Volatile : x[1] # "database" => guest'[x] = guest[x]
             /\ op' = op /\ guest'[<<"running">>] = guest[<<"running">>]
  <2>1. /\ Grows(guest, guest')
        /\ \A x \in Items \ {<<"pod", v>>, <<"database", v>>} : guest'[x] = guest[x]
    BY <1>5, DatabaseGuest
  <2>2. \A x : x[1] # "database" => x # <<"database", v>>
    OBVIOUS
  <2>3. <<"pod", v>> \in Volatile
    BY DEF Volatile, Pods
  <2>4. <<"running">> # <<"pod", v>> /\ <<"running">> # <<"database", v>>
    OBVIOUS
  <2>5. op' = op
    BY <1>5 DEF DatabaseStarts
  <2> QED BY <1>0, <2>1, <2>2, <2>3, <2>4, <2>5 DEF Grows
<1> QED BY <1>1, <1>2, <1>3, <1>4, <1>5 DEF Rests

LEMMA HeldThrough ==
  ASSUME Basic, Rests, NEW x \in Items \ Pods, Held(x)
  PROVE  Held(x)'
<1>1. Busy' <=> Busy
  BY DEF Rests, Busy
<1>2. CASE x = <<"running">>
  BY <1>1, <1>2, RestsKeep DEF Held, There
<1>3. CASE x # <<"running">>
  BY <1>3, RestsKeep DEF Held, Volatile
<1> QED BY <1>2, <1>3

\* What the steps that are past promise is there.
LEMMA PromisesHold ==
  ASSUME Basic, Alone => orphans = {} /\ PromisesKept, [Next]_vars, Alone'
  PROVE  PromisesKept'
<1>1. CASE Early'
  BY <1>1, HostsPromiseNothing DEF PromisesKept, Early, Runs
<1>2. CASE Alone /\ Passes
  <2>1. /\ op'.request = op.request
        /\ \A s \in StepNames : Past(s)' <=> Past(s) \/ At(s)
        /\ \A s : ~Runs(s)'
    BY <1>2, PassesPast
  <2>2. Busy /\ op'.faulted = op.faulted /\ guest' = guest
    BY <1>2 DEF Passes, Proceeds, Keeps
  <2>3. \A x : Held(x) => Held(x)'
    BY <2>2 DEF Held
  <2>4. ASSUME NEW s \in StepNames, Past(s)', NEW x \in Promised(s, op.request.world)
        PROVE  Held(x)
    <3>1. CASE Past(s)
      BY <1>2, <2>4, <3>1 DEF PromisesKept
    <3>2. CASE At(s)
      <4>1. s # "version"
        BY <2>4, HostsPromiseNothing
      <4>2. Runs(s) /\ op.process = <<>>
        BY <1>2, <3>2, <4>1, PassedStep
      <4>3. Made(<<>>) = {}
        BY RangeOfTuple DEF Made
      <4>4. Held(x) \/ x \in Made(op.process)
        BY <1>2, <2>4, <4>2 DEF PromisesKept
      <4> QED BY <4>2, <4>3, <4>4
    <3> QED BY <2>1, <2>4, <3>1, <3>2
  <2> QED BY <2>1, <2>3, <2>4 DEF PromisesKept
<1>3. CASE Alone /\ Sends
  <2>1. /\ op'.request = op.request /\ op'.todo = op.todo /\ guest' = guest
        /\ op'.faulted = op.faulted
        /\ \A s : (Past(s)' <=> Past(s)) /\ (Busy' <=> Busy)
    BY <1>3, SendsGood, StaysThere DEF Sends, Changed
  <2>2. \A x : Held(x) => Held(x)'
    BY <2>1 DEF Held
  <2>3. ASSUME NEW s \in StepNames, Runs(s)'
        PROVE  Promised(s, op.request.world) \subseteq Made(op'.process)
    BY <1>3, <2>3, SendsGood DEF Good, Suits
  <2> QED BY <1>3, <2>1, <2>2, <2>3 DEF PromisesKept
<1>4. CASE Alone /\ Performs
  <2> DEFINE w == op.request.world
  <2>1. /\ op'.request = op.request /\ op'.todo = op.todo /\ op'.process = After(op.process)
        /\ \A s : Runs(s)' => Runs(s)
        /\ \A x \in Items : There(guest, x) \/ x \in Made(op.process) =>
                There(guest', x) \/ x \in Made(After(op.process))
    BY <1>4, PerformsFacts
  <2>2. (\A s : Past(s)' <=> Past(s)) /\ (Busy' <=> Busy)
    BY <2>1, StaysThere
  <2>3. Grows(guest, guest') /\ op'.faulted = op.faulted
    BY <1>4 DEF Performs, Changed, ScriptMoves
  <2>4. \A x \in Items : Held(x) => Held(x)'
    BY <2>2, <2>3 DEF Held, Grows
  <2>5. ASSUME NEW s \in StepNames, Past(s) \/ Runs(s)
        PROVE  Promised(s, w) \subseteq Items
    <3>1. w \in Worlds
      BY <1>4, <2>5, PastWorld DEF Runs
    <3> QED BY <3>1, PromisedItems
  <2>6. ASSUME NEW s \in StepNames, Past(s)', NEW x \in Promised(s, w)
        PROVE  Held(x)'
    <3>1. Past(s) /\ x \in Items
      BY <2>2, <2>5, <2>6
    <3>2. Held(x)
      BY <1>4, <2>6, <3>1 DEF PromisesKept
    <3> QED BY <2>4, <3>1, <3>2
  <2>7. ASSUME NEW s \in StepNames, Runs(s)', NEW x \in Promised(s, w)
        PROVE  Held(x)' \/ x \in Made(op'.process)
    <3>1. Runs(s) /\ x \in Items
      BY <2>1, <2>5, <2>7
    <3>2. Held(x) \/ x \in Made(op.process)
      BY <1>4, <2>7, <3>1 DEF PromisesKept
    <3>3. CASE Held(x)
      BY <2>4, <3>1, <3>3
    <3>4. CASE x \in Made(op.process)
      BY <2>1, <3>1, <3>4 DEF Held
    <3> QED BY <3>2, <3>3, <3>4
  <2> QED BY <2>1, <2>6, <2>7 DEF PromisesKept
<1>5. CASE Alone /\ Breaks
  <2>1. /\ op'.request = op.request /\ op'.todo = op.todo /\ guest' = guest /\ op'.faulted = TRUE
        /\ At("download")
    BY <1>5 DEF Breaks, Changed, Runs
  <2>2. (\A s : (Past(s)' <=> Past(s)) /\ (At(s)' <=> At(s))) /\ (Busy' <=> Busy)
    BY <2>1, StaysThere
  <2>3. \A x : Held(x) => Held(x)'
    BY <2>1, <2>2 DEF Held
  <2>4. \A s : Runs(s)' => s = "download"
    BY <2>1, <2>2 DEF Runs, At
  <2>5. \A w : \A x \in Promised("download", w) : Held(x)'
    BY <2>1 DEF Promised, Held
  <2> QED BY <1>5, <2>1, <2>2, <2>3, <2>4, <2>5 DEF PromisesKept
<1>6. CASE Alone /\ Rests
  <2> DEFINE w == op.request.world
  <2>1. /\ op'.request = op.request /\ op'.todo = op.todo /\ op'.process = op.process
        /\ \A s : (Past(s)' <=> Past(s)) /\ (Runs(s)' <=> Runs(s))
    BY <1>6, StaysThere, RunsThere DEF Rests
  <2>2. ASSUME NEW s \in StepNames, Past(s) \/ Runs(s), NEW x \in Promised(s, w), Held(x)
        PROVE  Held(x)'
    <3>1. w \in Worlds
      BY <2>2, PastWorld DEF Runs
    <3>2. x \in Items \ Pods
      BY <2>2, <3>1, PromisedItems
    <3> QED BY <1>6, <2>2, <3>2, HeldThrough
  <2>3. ASSUME NEW s \in StepNames, Past(s)', NEW x \in Promised(s, w)
        PROVE  Held(x)'
    BY <1>6, <2>1, <2>2, <2>3 DEF PromisesKept
  <2>4. ASSUME NEW s \in StepNames, Runs(s)', NEW x \in Promised(s, w)
        PROVE  Held(x)' \/ x \in Made(op'.process)
    BY <1>6, <2>1, <2>2, <2>4 DEF PromisesKept
  <2> QED BY <2>1, <2>3, <2>4 DEF PromisesKept
<1> QED BY <1>1, <1>2, <1>3, <1>4, <1>5, <1>6, Classes

-----------------------------------------------------------------------------
\* Orderly: effects that bring an item to the version of the payload.

LEMMA SetsBring ==
  ASSUME NEW g, NEW e, NEW x, Sets(e, x, g[<<"payload">>])
  PROVE  Brings(g, e, x)
BY DEF Sets, Brings

LEMMA BringsOn ==
  ASSUME NEW g \in [Items -> Values], NEW e \in Effects, ~Fails(g, e), NEW pw,
         NEW x \in Items, x # <<"payload">>, Brings(g, e, x),
         e.do = "branch" => There(g, <<"payload">>)
  PROVE  LET h == Effect(g, e)
             s == Expanded(g, e, pw)
         IN /\ h[<<"payload">>] = g[<<"payload">>]
            /\ IsSimple(e) => Matches(h, x)
            /\ \A f \in Range(s) : x \in Writes(f) => Brings(h, f, x)
            /\ Matches(h, x) \/ \E f \in Range(s) : Brings(h, f, x)
<1> DEFINE v == g[<<"payload">>]
           h == Effect(g, e)
           s == Expanded(g, e, pw)
<1>0. <<"payload">> \in Items /\ Range(<<>>) = {}
  BY BaseItems, RangeOfTuple
<1>1. CASE e.do = "copy" /\ e.from = <<"payload">> /\ e.item = x
  <2>0. IsSimple(e)
    BY <1>1 DEF IsSimple
  <2>3. /\ \A y \in Items \ {e.item} : h[y] = g[y]
        /\ h[e.item] = g[e.from]
    BY <1>1, <2>0, EffectOnGuest
  <2>1. h[x] = v /\ h[<<"payload">>] = v
    BY <1>0, <1>1, <2>3
  <2>2. s = <<>>
    BY <1>1 DEF Expanded
  <2> QED BY <1>0, <1>1, <2>1, <2>2 DEF Matches
<1>2. CASE e.do = "put" /\ e.item = x /\ e.value = v
  <2>1. h[x] = v /\ h[<<"payload">>] = v
    BY <1>0, <1>2, EffectOnGuest DEF IsSimple
  <2>2. s = <<>>
    BY <1>2 DEF Expanded
  <2> QED BY <1>0, <1>2, <2>1, <2>2 DEF Matches
<1>3. CASE e.do = "branch" /\ e.of = "crds" /\ x = <<"crds">>
  <2>1. h = g /\ ~IsSimple(e)
    BY <1>3, EffectOnGuest DEF IsSimple
  <2>2. s = OperatorCrds(g) /\ OperatorVersionsDiffer(g)
    BY <1>3 DEF Expanded, OperatorVersionsDiffer
  <2> DEFINE f == Put(<<"crds">>, v)
  <2>3. s = <<f>>
    BY <2>2 DEF OperatorCrds
  <2>4. Brings(g, f, x)
    BY <1>3, PutSets, SetsBring
  <2> HIDE DEF f, s, h
  <2>5. Range(s) = {f}
    BY <2>3, RangeOfTuple
  <2>6. Brings(h, f, x)
    BY <2>1, <2>4
  <2> QED BY <2>1, <2>5, <2>6 DEF h, s
<1>4. CASE e.do = "branch" /\ e.of \in {"operators", "deployments"}
           /\ x = <<"operator", "battlegroup">>
  <2>1. h = g /\ ~IsSimple(e) /\ There(g, <<"payload">>)
    BY <1>4, EffectOnGuest DEF IsSimple
  <2>2. ASSUME Patched(v, s)
        PROVE  /\ \A f \in Range(s) : x \in Writes(f) => Brings(g, f, x)
               /\ \E f \in Range(s) : Brings(g, f, x)
    <3> HIDE DEF s
    <3> QED BY <1>4, <2>2, SetsBring DEF Patched
  <2>3. CASE e.of = "deployments"
    <3>1. s = OperatorDeployments(g)
      BY <1>4, <2>3 DEF Expanded
    <3>2. Patched(v, s)
      BY <2>1, <3>1, DeploymentsSubstitute
    <3> QED BY <2>1, <2>2, <3>2
  <2>4. CASE e.of = "operators"
    <3>1. s = OperatorImages(g) /\ OperatorVersionsDiffer(g)
      BY <1>4, <2>1, <2>4 DEF Expanded, OperatorVersionsDiffer
    <3>2. Patched(v, s)
      <4>1. "order" # "all"
        OBVIOUS
      <4> QED BY <3>1, <4>1, OperatorsSubstitute
    <3> QED BY <2>1, <2>2, <3>2
  <2> QED BY <1>4, <2>3, <2>4
<1> QED BY <1>1, <1>2, <1>3, <1>4 DEF Brings, Carries

LEMMA DeploysOn ==
  ASSUME NEW g, NEW e \in Effects, ~(e.do = "branch" /\ e.of \in {"crds", "operators"}),
         NEW s, \A f \in Range(s) : Writes(f) \subseteq Writes(e),
         e.do = "unless" => \A f \in Range(s) : f.do # "branch",
         IsSimple(e) \/ e.do = "require" => s = <<>>
  PROVE  Deploys(s)
<1> SUFFICES ASSUME NEW f \in Range(s), f.do = "branch", f.of \in {"crds", "operators"}
             PROVE  FALSE
  BY DEF Deploys
<1>1. <<"crds">> \in Writes(f) \/ <<"operator_images">> \in Writes(f)
  BY DEF Writes, IsSimple
<1>2. <<"crds">> \in Writes(e) \/ <<"operator_images">> \in Writes(e)
  BY <1>1
<1>3. e.do = "branch"
  BY RangeOfTuple, EffectKinds DEF IsSimple
<1>4. e.of \in {"deployments", "swap", "sync", "world"}
  BY <1>3, EffectKinds
<1>5. <<"crds">> \notin Writes(e) /\ <<"operator_images">> \notin Writes(e)
  <2>1. CASE e.of = "deployments"
    BY <1>3, <2>1 DEF Writes, IsSimple
  <2>2. CASE e.of = "swap"
    BY <1>3, <2>2 DEF Writes, IsSimple
  <2>3. CASE e.of = "sync"
    BY <1>3, <2>3 DEF Writes, IsSimple
  <2>4. CASE e.of = "world"
    BY <1>3, <2>4 DEF Writes, IsSimple
  <2> QED BY <1>4, <2>1, <2>2, <2>3, <2>4
<1> QED BY <1>2, <1>5

LEMMA Kinds ==
  ASSUME Basic, Kind # "none"
  PROVE  \/ Kind = "hyperv" /\ All = HostNames \cup {"player_settings"} \cup Range(GuestSteps)
         \/ Kind = "guest" /\ All = Range(GuestSteps)
         \/ Kind = "ubuntu" /\ All = Range(UbuntuSteps)
         \/ Kind = "ubuntu" /\ All = {"ubuntu_swap"}
<1>1. /\ Kind \in {"hyperv", "guest", "ubuntu"}
      /\ Kind = "hyperv" => All = Range(HyperVSteps)
      /\ Kind = "guest" => All = Range(GuestSteps)
      /\ Kind = "ubuntu" => All \in {Range(UbuntuSteps), Range(SwapSteps)}
  BY AskedFacts DEF Basic
<1>2. Range(HyperVSteps) = HostNames \cup {"player_settings"} \cup Range(GuestSteps)
  BY HyperVRanked, PartRanges DEF HostNames
<1>3. Range(SwapSteps) = {"ubuntu_swap"}
  BY PartRanges
<1> QED BY <1>1, <1>2, <1>3

LEMMA Places ==
  ASSUME Basic, NEW t \in StepNames, Past(t) \/ At(t)
  PROVE  /\ t \in All /\ Kind # "none"
         /\ \A s \in All : Rank(s) < Rank(t) => Past(s)
<1>1. Kind # "none" /\ t \in All
  <2>1. At(t) => Busy /\ t = Head(op.todo)
    BY DEF At
  <2>2. Busy => Kind # "none" /\ Head(op.todo) \in All
    BY BusyFacts DEF Basic, ClientInv
  <2> QED BY <2>1, <2>2 DEF Past, Has
<1>2. ASSUME NEW s \in All, Rank(s) < Rank(t)
      PROVE  Past(s)
  <2>1. CASE ~Busy
    BY <1>1, <1>2, <2>1 DEF Past, Has
  <2>2. CASE Busy
    <3>1. s \in StepNames /\ Rank(s) \in Nat /\ Rank(t) \in Nat
      BY <1>1, <1>2, AskedFacts, RankIsNat DEF Basic
    <3>2. /\ \A r \in StepNames : Past(r) <=> r \in All /\ Rank(r) < Rank(Head(op.todo))
          /\ Rank(Head(op.todo)) \in Nat
      BY <2>2, BusyFacts DEF Basic, ClientInv
    <3>3. t = Head(op.todo) \/ Rank(t) < Rank(Head(op.todo))
      BY <3>2 DEF At
    <3> DEFINE a == Rank(s)
               b == Rank(t)
               c == Rank(Head(op.todo))
    <3>4. a \in Nat /\ b \in Nat /\ c \in Nat /\ a < b /\ (b = c \/ b < c)
      BY <1>2, <3>1, <3>2, <3>3
    <3>5. a < c
      <4> HIDE DEF a, b, c
      <4> QED BY <3>4
    <3> QED BY <1>2, <3>1, <3>2, <3>5
  <2> QED BY <2>1, <2>2
<1> QED BY <1>1, <1>2

LEMMA AfterPast ==
  ASSUME Basic, NEW s \in StepNames, Past(s), NEW t \in StepNames, At(t)
  PROVE  s \in All /\ t \in All /\ Rank(s) < Rank(t) /\ s # t /\ Kind # "none"
<1>1. Busy /\ t = Head(op.todo)
  BY DEF At
<1> QED BY <1>1, BusyFacts DEF Basic, ClientInv

\* The steps that bring an item to the version of the payload.
Bringers == {"core_images", "update_crds", "operator_images", "kubernetes", "world_images"}

LEMMA AlignedIs ==
  ASSUME NEW s, NEW x \in Aligned(s), NEW w
  PROVE  /\ s \in Bringers /\ s \in StepNames
         /\ x \in AlignedBy(s) /\ x \in Items \ Volatile /\ x \in Watched(w)
         /\ x # <<"payload">> /\ x[1] \notin {"database", "release"}
         /\ x \in {<<"core_images">>, <<"crds">>, <<"operator", "battlegroup">>, <<"world_images">>}
         /\ x = <<"crds">> => s \in {"update_crds", "kubernetes"}
         /\ x = <<"operator", "battlegroup">> => s \in {"operator_images", "kubernetes"}
         /\ s = "core_images" => x = <<"core_images">>
         /\ s = "update_crds" => x = <<"crds">>
         /\ s = "operator_images" => x = <<"operator", "battlegroup">>
         /\ s = "world_images" => x = <<"world_images">>
<1>1. s \in Bringers /\ x \in AlignedBy(s)
  BY DEF Aligned, AlignedBy, Bringers
<1>2. s \in StepNames
  BY <1>1 DEF Bringers, StepNames
<1>3. x \in {<<"core_images">>, <<"crds">>, <<"operator", "battlegroup">>, <<"world_images">>}
  BY DEF Aligned
<1>4. /\ x = <<"crds">> => s \in {"update_crds", "kubernetes"}
      /\ x = <<"operator", "battlegroup">> => s \in {"operator_images", "kubernetes"}
  BY DEF Aligned
<1>5. x \in Items \ Volatile
  <2>1. <<"core_images">> \in Items /\ <<"crds">> \in Items /\ <<"world_images">> \in Items
    BY HostNamed
  <2>2. <<"operator", "battlegroup">> \in Items
    BY OperatorBattlegroup, OperatorIs
  <2> QED BY <1>3, <2>1, <2>2 DEF Volatile, Pods
<1>6. x \in Watched(w)
  BY <1>3 DEF Watched
<1>7. /\ s = "core_images" => x = <<"core_images">>
      /\ s = "update_crds" => x = <<"crds">>
      /\ s = "operator_images" => x = <<"operator", "battlegroup">>
      /\ s = "world_images" => x = <<"world_images">>
  BY DEF Aligned
<1>8. x # <<"payload">> /\ x[1] \notin {"database", "release"}
  BY <1>3
<1> QED BY <1>1, <1>2, <1>3, <1>4, <1>5, <1>6, <1>7, <1>8

\* No later step writes what a step has brought, nor the payload.
LEMMA NotWrittenLater ==
  ASSUME Basic, NEW s \in Bringers, Past(s), NEW t \in StepNames, At(t), NEW x \in Aligned(s), NEW w
  PROVE  x \notin MayWrite(t, w) /\ <<"payload">> \notin MayWrite(t, w)
<1>0. s \in StepNames
  BY DEF Bringers, StepNames
<1>1. s \in All /\ t \in All /\ Rank(s) < Rank(t) /\ s # t /\ Kind # "none"
  BY <1>0, AfterPast
<1>2. t \notin {"download", "payload"}
  <2>1. t = "download" => s # "kubernetes"
    BY <1>1, Kinds, PartRanges DEF HostNames, Settings
  <2>2. /\ Rank("core_images") = 21 /\ Rank("update_crds") = 23 /\ Rank("operator_images") = 24
        /\ Rank("world_images") = 28 /\ Rank("kubernetes") = 4
        /\ Rank("download") = 19 /\ Rank("payload") = 3
    BY Ranks, Zenon
  <2> QED BY <1>1, <2>1, <2>2 DEF Bringers
<1>3. t = "kubernetes" => FALSE
  <2> SUFFICES ASSUME t = "kubernetes" PROVE FALSE
    OBVIOUS
  <2>1. /\ Rank("core_images") = 21 /\ Rank("update_crds") = 23 /\ Rank("operator_images") = 24
        /\ Rank("world_images") = 28 /\ Rank("kubernetes") = 4
    BY Ranks, Zenon
  <2> QED BY <1>1, <2>1 DEF Bringers
<1>4. s = "kubernetes" => t \notin {"core_images", "update_crds", "operator_images"}
  BY <1>1, Kinds, PartRanges DEF HostNames, Settings
<1>5. /\ x \in {<<"core_images">>, <<"crds">>, <<"operator", "battlegroup">>, <<"world_images">>}
      /\ x = <<"crds">> => s \in {"update_crds", "kubernetes"}
      /\ x = <<"operator", "battlegroup">> => s \in {"operator_images", "kubernetes"}
      /\ x = <<"core_images">> => s \in {"core_images", "kubernetes"}
      /\ x = <<"world_images">> => s = "world_images"
  BY DEF Aligned
<1>6. <<"payload">> \notin MayWrite(t, w)
  BY <1>2 DEF MayWrite
<1>7. x \notin MayWrite(t, w)
  BY <1>1, <1>2, <1>3, <1>4, <1>5 DEF MayWrite
<1> QED BY <1>6, <1>7

LEMMA Settled ==
  ASSUME Basic, WritesItsOwn, Performs, NEW s \in Bringers, Past(s), NEW x \in Aligned(s)
  PROVE  guest'[x] = guest[x] /\ guest'[<<"payload">>] = guest[<<"payload">>]
<1> DEFINE w == op.request.world
<1>1. PICK t \in StepNames : Runs(t)
  BY RanStep DEF Performs
<1>2. x \notin MayWrite(t, w) /\ <<"payload">> \notin MayWrite(t, w)
  BY <1>1, NotWrittenLater DEF Runs
<1>3. Written(op.process) \cap Watched(w) \subseteq MayWrite(t, w)
  BY <1>1 DEF WritesItsOwn
<1>4. x \in Watched(w) /\ x \in Items /\ <<"payload">> \in Watched(w) /\ <<"payload">> \in Items
  <2>1. <<"payload">> \in Watched(w)
    BY DEF Watched
  <2> QED BY <2>1, AlignedIs, BaseItems
<1>5. \A y \in Items \ Written(op.process) : guest'[y] = guest[y]
  BY PerformsFacts
<1> QED BY <1>2, <1>3, <1>4, <1>5

LEMMA PayloadBefore ==
  ASSUME Basic, PayloadThere, NEW s \in {"update_crds", "operator_images"}, Past(s) \/ At(s)
  PROVE  There(guest, <<"payload">>)
<1>1. s \in StepNames
  BY DEF StepNames
<1>2. s \in All /\ Kind # "none" /\ (\A r \in All : Rank(r) < Rank(s) => Past(r))
  BY <1>1, Places
<1>3. "core_images" \in All
  BY <1>2, Kinds, PartRanges DEF HostNames, Settings
<1>4. Rank("core_images") = 21 /\ Rank("update_crds") = 23 /\ Rank("operator_images") = 24
  BY Ranks, Zenon
<1>5. Past("core_images")
  BY <1>2, <1>3, <1>4
<1> QED BY <1>5 DEF PayloadThere

\* One effect of the script that brings an item to the version of the payload.
LEMMA BroughtOn ==
  ASSUME Basic, WritesItsOwn, VersionsMatch, PayloadThere, Performs,
         NEW s \in StepNames, Runs(s), NEW x \in Aligned(s)
  PROVE  /\ Matches(guest', x) \/ \E f \in Range(op'.process) : Brings(guest', f, x)
         /\ \A f \in Range(op'.process) : x \in Writes(f) => Brings(guest', f, x)
         /\ There(guest', <<"payload">>) \/ <<"payload">> \in Made(op'.process)
         /\ s = "kubernetes" => Deploys(op'.process)
<1> DEFINE p == op.process
           e == Head(op.process)
           pw == generated + 1
           w == op.request.world
           E == Expanded(guest, e, pw)
<1>1. /\ op'.process = After(p) /\ e \in Effects /\ e \in Range(p) /\ Sound(guest, p)
      /\ \A y \in Items : There(guest, y) \/ y \in Made(p) => There(guest', y)
         \/ y \in Made(After(p))
      /\ Range(After(p)) = Range(E) \cup Range(Tail(p))
      /\ Range(p) = {e} \cup Range(Tail(p))
      /\ \A y \in Items \ Writes(e) : guest'[y] = guest[y]
      /\ \A y \in Items \ Written(p) : guest'[y] = guest[y]
      /\ p \in Seq(Effects) /\ p # <<>>
  BY PerformsFacts
<1>2. /\ ~Fails(guest, e) /\ guest' = Effect(guest, e) /\ At(s)
      /\ guest \in [Items -> Values] /\ GuestSound(guest) /\ pw \in Nat
  BY DEF Performs, Basic, Typed, GuestTyped, GuestInv, Runs
<1>3. /\ s \in Bringers /\ x \in Items /\ x # <<"payload">> /\ <<"payload">> \in Items
      /\ <<"payload">> \in Watched(w)
  <2>1. <<"payload">> \in Watched(w)
    BY DEF Watched
  <2> QED BY <2>1, AlignedIs, BaseItems
<1>4. guest'[<<"payload">>] = guest[<<"payload">>]
  <2>1. <<"payload">> \notin MayWrite(s, w)
    BY <1>3 DEF Bringers, MayWrite
  <2>2. Written(p) \cap Watched(w) \subseteq MayWrite(s, w)
    BY DEF WritesItsOwn
  <2> QED BY <1>1, <1>3, <2>1, <2>2
<1>5. \A f : Brings(guest, f, x) => Brings(guest', f, x)
  BY <1>4 DEF Brings
<1>6. /\ Matches(guest, x) \/ \E f \in Range(p) : Brings(guest, f, x)
      /\ \A f \in Range(p) : x \in Writes(f) => Brings(guest, f, x)
      /\ There(guest, <<"payload">>) \/ <<"payload">> \in Made(p)
      /\ s = "kubernetes" => Deploys(p)
  BY DEF VersionsMatch
<1>7. Proper(e) /\ \A y \in Needs("order", e) : There(guest, y)
  <2>1. Fit("order", guest, {}, p)
    BY <1>1, SoundFits
  <2> QED BY <1>1, <2>1, HeadFacts
<1>8. /\ \A f \in Range(E) : Writes(f) \subseteq Writes(e)
      /\ IsSimple(e) \/ e.do = "require" => E = <<>>
  <2> HIDE DEF e, pw
  <2> QED BY <1>1, <1>2, <1>7, Expansion
<1>9. There(guest', <<"payload">>) \/ <<"payload">> \in Made(op'.process)
  BY <1>1, <1>3, <1>6
<1>10. s = "kubernetes" => Deploys(op'.process)
  <2> SUFFICES ASSUME s = "kubernetes" PROVE Deploys(op'.process)
    OBVIOUS
  <2>1. \A f \in Range(p) : ~(f.do = "branch" /\ f.of \in {"crds", "operators"})
    BY <1>6 DEF Deploys
  <2>2. e.do = "unless" => \A f \in Range(E) : f.do # "branch"
    <3> SUFFICES ASSUME e.do = "unless", NEW f \in Range(E) PROVE f.do # "branch"
      OBVIOUS
    <3>1. E = <<>> \/ E = e.then
      BY DEF Expanded
    <3>2. e.then \in Seq(Simples) /\ Range(<<>>) = {}
      BY <1>1, EffectKinds, RangeOfTuple
    <3>3. f \in Range(e.then)
      BY <3>1, <3>2
    <3>4. f \in Simples
      <4> DEFINE z == e.then
      <4>1. z \in Seq(Simples) /\ f \in Range(z)
        BY <3>2, <3>3
      <4> HIDE DEF z
      <4> QED BY <4>1 DEF Range
    <3> QED BY <3>4 DEF Simples
  <2>3. Deploys(E)
    <3> HIDE DEF E, e
    <3> QED BY <1>1, <1>8, <2>1, <2>2, DeploysOn
  <2> HIDE DEF E, e, p
  <2> QED BY <1>1, <2>1, <2>3 DEF Deploys
<1>11. CASE Brings(guest, e, x)
  <2>1. e.do = "branch" => There(guest, <<"payload">>)
    <3> SUFFICES ASSUME e.do = "branch" PROVE There(guest, <<"payload">>)
      OBVIOUS
    <3>1. /\ e.of \in {"crds", "operators", "deployments"}
          /\ x \in {<<"crds">>, <<"operator", "battlegroup">>}
      BY <1>11 DEF Brings, Carries
    <3>2. CASE s = "kubernetes"
      <4>1. e.of = "deployments"
        BY <1>1, <1>6, <3>1, <3>2 DEF Deploys
      <4>2. e = Branch("deployments")
        <5> HIDE DEF e
        <5> QED BY <1>1, <4>1, BranchIs
      <4>3. Needs("order", Branch("deployments")) = {<<"payload">>}
        BY AttributesOfBranch
      <4> QED BY <1>7, <4>2, <4>3
    <3>3. CASE s # "kubernetes"
      <4>1. s \in {"update_crds", "operator_images"}
        BY <3>1, <3>3, AlignedIs
      <4> QED BY <1>2, <4>1, PayloadBefore
    <3> QED BY <3>2, <3>3
  <2>2. /\ \A f \in Range(E) : x \in Writes(f) => Brings(guest', f, x)
        /\ Matches(guest', x) \/ \E f \in Range(E) : Brings(guest', f, x)
    <3> HIDE DEF e, pw
    <3> QED BY <1>1, <1>2, <1>3, <1>11, <2>1, BringsOn
  <2> QED BY <1>1, <1>5, <1>6, <1>9, <1>10, <2>2
<1>12. CASE ~Brings(guest, e, x)
  <2>1. x \notin Writes(e)
    BY <1>1, <1>6, <1>12
  <2>2. guest'[x] = guest[x]
    BY <1>1, <1>3, <2>1
  <2>3. Matches(guest, x) => Matches(guest', x)
    BY <1>4, <2>2 DEF Matches
  <2> QED BY <1>1, <1>5, <1>6, <1>8, <1>9, <1>10, <1>12, <2>1, <2>3
<1> QED BY <1>11, <1>12

-----------------------------------------------------------------------------
\* Orderly: the machine.

\* What an import leaves.
Imports ==
    /\ vm' # Absent /\ vm'.here /\ folder' = vm'.files
    /\ \A s \in Settings : ~Past(s)'

\* A step of the host after the import.
SetsUp ==
    /\ Past("import") /\ Alone /\ Busy /\ Head(op.todo) \in HostNames
    /\ op'.request = op.request /\ op'.faulted = op.faulted /\ op'.alone = op.alone
    /\ \A x \in Items \ Volatile : guest'[x] = guest[x]
    /\ vm # Absent /\ vm' # Absent
    /\ vm'.here = vm.here /\ vm'.files = vm.files /\ folder' = folder
    /\ vm.set \subseteq vm'.set
    /\ \A s \in Settings : Past(s)' => Past(s) \/ s \in vm'.set

LEMMA SettingsImported ==
  ASSUME Basic, NEW s \in Settings, Past(s) \/ At(s)
  PROVE  Past("import") /\ Kind = "hyperv"
<1>1. s \in StepNames /\ s \in HostNames
  BY DEF StepNames, Settings, HostNames
<1>2. s \in All /\ Kind # "none" /\ \A r \in All : Rank(r) < Rank(s) => Past(r)
  BY <1>1, Places
<1>3. Kind = "hyperv" /\ "import" \in All
  BY <1>2, Kinds, PartRanges DEF Settings, HostNames
<1>4. Rank("import") < Rank(s)
  BY Ranks DEF Settings
<1> QED BY <1>2, <1>3, <1>4

\* The settings come after the import.
SettingsAfter == \A s \in Settings : Past(s) => Past("import")

LEMMA SettingsLater == Basic => SettingsAfter
BY SettingsImported DEF SettingsAfter

LEMMA SettingsLaterNext == Basic' => SettingsAfter'
BY SettingsLater, PTL

LEMMA AtProceeds ==
  ASSUME Basic, NEW s \in StepNames, At(s), op' = Proceed(op)
  PROVE  /\ op'.request = op.request /\ op'.faulted = op.faulted /\ op'.alone = op.alone
         /\ op'.lost = op.lost /\ Busy
         /\ \A t \in StepNames : Past(t)' => Past(t) \/ t = s
<1>1. Busy /\ Typed
  BY DEF At, Basic
<1>2. Proceeds /\ Keeps
  BY <1>1, ProceedDoes
<1>3. \A t \in StepNames : Past(t)' <=> Past(t) \/ At(t)
  BY <1>1, <1>2, NextPast DEF Proceeds, Basic, ClientInv
<1> QED BY <1>1, <1>2, <1>3 DEF Proceeds, Keeps, At

LEMMA ImportImports ==
  ASSUME Basic, Import
  PROVE  Imports
<1>0. At("import") /\ "import" \in StepNames /\ Typed
  BY DEF Import, StepNames, Basic
<1>1. vm' = [on |-> FALSE, set |-> {}, files |-> begun, here |-> TRUE] /\ folder' = begun
  BY DEF Import
<1>2. vm' # Absent
  <2>1. vm' \in Machines
    BY <1>0, <1>1 DEF Machines, Typed
  <2> QED BY <2>1, Present
<1>3. vm'.here /\ folder' = vm'.files
  BY <1>1
<1>4. \A s \in Settings : ~Past(s)'
  <2> SUFFICES ASSUME NEW s \in Settings, Past(s)' PROVE FALSE
    OBVIOUS
  <2>1. s \in StepNames /\ s # "import"
    BY DEF Settings, StepNames
  <2>2. Past(s)
    BY <1>0, <2>1, AtProceeds DEF Import
  <2>3. Rank(s) < Rank("import")
    BY <1>0, <2>1, <2>2, AfterPast
  <2>4. Rank("import") = 9 /\ Rank("switch") = 10 /\ Rank("disk") = 11 /\ Rank("boot") = 12
        /\ Rank("memory") = 13 /\ Rank("processors") = 14
    BY Ranks, Zenon
  <2> QED BY <2>3, <2>4 DEF Settings
<1> QED BY <1>2, <1>3, <1>4 DEF Imports

LEMMA MachineThere ==
  ASSUME Basic, Busy, Kind = "hyperv", 9 < Rank(Head(op.todo))
  PROVE  vm \in Machines /\ vm # Absent
BY DEF Basic, ClientInv, Typed

LEMMA AfterImport ==
  ASSUME Basic, HostMoves, Alone', Past("import")'
  PROVE  Imports \/ SetsUp
<1>0. /\ "import" \in StepNames /\ Rank("import") = 9 /\ Rank("readiness") = 5
      /\ Rank("existing") = 6 /\ Rank("clear") = 7 /\ Rank("compare") = 8
      /\ Rank("start") = 15 /\ Rank("address") = 16
      /\ {"readiness", "existing", "clear", "compare", "start", "address"} \subseteq StepNames
      /\ Settings \subseteq StepNames
  <2>1. "import" \in StepNames
        /\ {"readiness", "existing", "clear", "compare", "start", "address"} \subseteq StepNames
        /\ Settings \subseteq StepNames
    BY DEF StepNames, Settings
  <2>2. Rank("import") = 9 /\ Rank("readiness") = 5
        /\ Rank("existing") = 6 /\ Rank("clear") = 7 /\ Rank("compare") = 8
        /\ Rank("start") = 15 /\ Rank("address") = 16
    BY Ranks, Zenon
  <2> QED BY <2>1, <2>2
<1>1. ASSUME NEW s \in StepNames, At(s), op' = Proceed(op) \/ op' = op
      PROVE  /\ Past("import") \/ s = "import"
             /\ op'.request = op.request /\ op'.faulted = op.faulted /\ op'.alone = op.alone
             /\ Alone /\ Busy
             /\ \A t \in StepNames : Past(t)' => Past(t) \/ t = s
  <2>1. CASE op' = Proceed(op)
    <3>1. /\ op'.request = op.request /\ op'.faulted = op.faulted /\ op'.alone = op.alone
          /\ op'.lost = op.lost /\ Busy
          /\ \A t \in StepNames : Past(t)' => Past(t) \/ t = s
      BY <1>1, <2>1, AtProceeds
    <3> QED BY <1>0, <3>1 DEF Alone
  <2>2. CASE op' = op
    <3>1. \A t : Past(t)' => Past(t)
      BY <2>2 DEF Past, Has, Kind, All, Busy
    <3> QED BY <1>0, <1>1, <2>2, <3>1 DEF Alone, Busy, At
  <2> QED BY <1>1, <2>1, <2>2
<1>2. ASSUME NEW answer, Busy, op' = Finish(op, answer), answer # "ok"
      PROVE  FALSE
  <2>1. Ends(answer)
    BY <1>2, FinishDoes DEF Basic
  <2> QED BY <1>2, <2>1, EndsBadly
<1>3. \A s : At(s) => Busy
  BY DEF At
<1>4. ASSUME NEW s \in {"readiness", "existing", "clear", "compare"}, At(s),
             op' = Proceed(op) \/ op' = op \/ \E answer : answer # "ok" /\ op' = Finish(op, answer)
      PROVE  FALSE
  <2>1. op' = Proceed(op) \/ op' = op
    BY <1>2, <1>3, <1>4
  <2>2. s \in StepNames /\ s # "import"
    BY <1>0
  <2>3. Past("import")
    BY <1>1, <1>4, <2>1, <2>2
  <2>4. Rank("import") < Rank(s)
    BY <1>0, <1>4, <2>2, <2>3, AfterPast
  <2> QED BY <1>0, <2>4
<1>5. CASE \E r \in Requests : Begin(r)
  <2>1. \A s \in StepNames : ~Past(s)'
    BY <1>5, BasicBegin
  <2> QED BY <1>0, <2>1
<1>6. CASE Readiness
  BY <1>4, <1>6 DEF Readiness
<1>7. CASE Existing
  BY <1>4, <1>7 DEF Existing
<1>8. CASE Clear
  BY <1>4, <1>8 DEF Clear
<1>9. CASE Compare
  BY <1>4, <1>9 DEF Compare
<1>10. CASE Import
  BY <1>10, ImportImports
<1>11. CASE Start
  <2>1. At("start") /\ op' = Proceed(op) /\ "start" \in StepNames
    BY <1>0, <1>11 DEF Start
  <2>2. /\ Past("import") /\ op'.request = op.request /\ op'.faulted = op.faulted
        /\ op'.alone = op.alone /\ Alone /\ Busy
        /\ \A t \in StepNames : Past(t)' => Past(t) \/ t = "start"
    BY <1>1, <2>1
  <2>3. Kind = "hyperv" /\ Rank(Head(op.todo)) = 15
    BY <1>0, <2>1, HostStepFacts DEF At
  <2>4. vm \in Machines /\ vm # Absent
    BY <2>2, <2>3, MachineThere
  <2>5. /\ vm' \in Machines /\ vm'.files = vm.files /\ vm'.here = vm.here /\ vm'.set = vm.set
        /\ vm' # Absent
    BY <1>11, <2>4, Switched DEF Start
  <2>6. \A x \in Items \ Volatile : guest'[x] = guest[x]
    BY <1>11, GuestBoots DEF Start
  <2>7. \A s \in Settings : Past(s)' => Past(s) \/ s \in vm'.set
    BY <1>0, <2>2 DEF Settings
  <2>8. folder' = folder
    BY <1>11 DEF Start
  <2>9. Head(op.todo) \in HostNames
    BY <2>1 DEF At, HostNames
  <2> QED BY <2>2, <2>4, <2>5, <2>6, <2>7, <2>8, <2>9 DEF SetsUp
<1>12. CASE Address
  <2>1. op' = Proceed(op) /\ "address" \in StepNames /\ At("address") /\ guest' = guest /\ vm' = vm
        /\ folder' = folder
    BY <1>0, <1>2, <1>3, <1>12 DEF Address, host
  <2>2. /\ Past("import") /\ op'.request = op.request /\ op'.faulted = op.faulted
        /\ op'.alone = op.alone /\ Alone /\ Busy
        /\ \A t \in StepNames : Past(t)' => Past(t) \/ t = "address"
    BY <1>1, <2>1
  <2>3. Kind = "hyperv" /\ Rank(Head(op.todo)) = 16
    BY <1>0, <2>1, HostStepFacts DEF At
  <2>4. vm \in Machines /\ vm # Absent
    BY <2>2, <2>3, MachineThere
  <2>7. \A s \in Settings : Past(s)' => Past(s) \/ s \in vm'.set
    BY <1>0, <2>2 DEF Settings
  <2>9. Head(op.todo) \in HostNames
    BY <2>1 DEF At, HostNames
  <2> QED BY <2>1, <2>2, <2>4, <2>7, <2>9 DEF SetsUp
<1>13. ASSUME NEW step \in Settings, Configure(step)
       PROVE  SetsUp
  <2>1. /\ op' = Proceed(op) /\ step \in StepNames /\ At(step) /\ guest' = guest
        /\ folder' = folder /\ vm # Absent /\ vm' = [vm EXCEPT !.set = @ \cup {step}]
    BY <1>0, <1>2, <1>3, <1>13 DEF Configure
  <2>2. /\ Past("import") \/ step = "import"
        /\ op'.request = op.request /\ op'.faulted = op.faulted
        /\ op'.alone = op.alone /\ Alone /\ Busy
        /\ \A t \in StepNames : Past(t)' => Past(t) \/ t = step
    BY <1>1, <2>1
  <2>3. Past("import")
    BY <2>1, SettingsImported
  <2>4. vm \in Machines
    BY <2>1 DEF Basic, Typed
  <2>5. /\ vm' \in Machines /\ vm'.files = vm.files /\ vm'.here = vm.here
        /\ vm'.set = vm.set \cup {step} /\ vm' # Absent
    BY <2>1, <2>4, SettingAdded, Present
  <2>7. \A s \in Settings : Past(s)' => Past(s) \/ s \in vm'.set
    BY <1>0, <2>2, <2>5
  <2>9. Head(op.todo) \in HostNames
    BY <2>1 DEF At, HostNames
  <2> QED BY <2>1, <2>2, <2>3, <2>5, <2>7, <2>9 DEF SetsUp
<1> QED BY <1>5, <1>6, <1>7, <1>8, <1>9, <1>10, <1>11, <1>12, <1>13 DEF HostMoves

LEMMA PastImportKind ==
  ASSUME Basic, Past("import") \/ At("import")
  PROVE  Kind = "hyperv"
<1>1. "import" \in StepNames
  BY DEF StepNames
<1>2. "import" \in All /\ Kind # "none"
  BY <1>1, Places
<1> QED BY <1>2, Kinds, PartRanges

\* The machine is the one that was imported, with the settings that are past.
LEMMA MachineHolds ==
  ASSUME Basic, Alone => orphans = {} /\ MachineSet, [Next]_vars, Alone'
  PROVE  MachineSet'
<1>0. Basic'
  BY BasicNext
<1>s. "import" \in StepNames /\ Settings \subseteq StepNames
  BY DEF StepNames, Settings
<1>1. CASE HostMoves
  <2>1. CASE ~Past("import")'
    <3>1. \A s \in Settings : ~Past(s)'
      BY <1>0, <2>1, SettingsLaterNext DEF SettingsAfter
    <3> QED BY <2>1, <3>1 DEF MachineSet
  <2>2. CASE Past("import")'
    <3>1. CASE Imports
      BY <3>1 DEF Imports, MachineSet
    <3>2. CASE SetsUp
      <4>1. MachineSet
        BY <3>2 DEF SetsUp
      <4>2. Kind = "hyperv"
        BY <3>2, PastImportKind DEF SetsUp
      <4> QED BY <3>2, <4>1, <4>2 DEF SetsUp, MachineSet
    <3> QED BY <1>1, <2>2, <3>1, <3>2, AfterImport
  <2> QED BY <2>1, <2>2
<1>2. ASSUME Alone, op'.request = op.request, vm' = vm, folder' = folder,
             \A s \in StepNames : Past(s)' => Past(s) \/ (s # "import" /\ s \notin Settings)
      PROVE  MachineSet'
  <2>1. Kind' = Kind /\ MachineSet
    BY <1>2 DEF Kind
  <2>2. \A s \in Settings \cup {"import"} : Past(s)' => Past(s)
    BY <1>2, <1>s
  <2> QED BY <1>2, <2>1, <2>2 DEF MachineSet
<1>3. CASE Alone /\ Passes
  <2>1. \A s \in StepNames : Past(s)' <=> Past(s) \/ At(s)
    BY <1>3, PassesPast
  <2>2. \A s : At(s) => s # "import" /\ s \notin Settings
    <3>1. At("version") \/ Waiting
      BY <1>3 DEF Passes
    <3>2. CASE At("version")
      BY <3>2 DEF At, Settings
    <3>3. CASE Waiting
      <4>1. Head(op.todo) \in ScriptSteps
        BY <3>3 DEF Basic, ClientInv
      <4>2. "import" \notin ScriptSteps /\ \A s \in Settings : s \notin ScriptSteps
        BY PartRanges DEF ScriptSteps, Settings
      <4> QED BY <4>1, <4>2 DEF At
    <3> QED BY <3>1, <3>2, <3>3
  <2>3. op'.request = op.request /\ vm' = vm /\ folder' = folder
    BY <1>3 DEF Passes, Proceeds
  <2> QED BY <1>2, <1>3, <2>1, <2>2, <2>3
<1>4. CASE Alone /\ (Sends \/ Performs \/ Breaks)
  <2>1. op'.request = op.request /\ op'.todo = op.todo /\ vm' = vm /\ folder' = folder
    BY <1>4 DEF Sends, Performs, Breaks, Changed
  <2>2. \A s : Past(s)' <=> Past(s)
    BY <2>1, StaysThere
  <2> QED BY <1>2, <1>4, <2>1, <2>2
<1>5. CASE Alone /\ Rests
  <2>1. /\ op'.request = op.request /\ op'.todo = op.todo
    BY <1>5 DEF Rests
  <2>2. (\A s : Past(s)' <=> Past(s)) /\ Kind' = Kind
    BY <2>1, StaysThere
  <2>3. folder' = folder /\ (vm' = vm \/ (vm # Absent
            /\ \E on \in BOOLEAN : vm' = [vm EXCEPT !.on = on]))
    BY <1>5 DEF Rests, DatabaseStarts, Release, PowerOff, PowerOn, vars, host
  <2>4. CASE vm' = vm
    BY <1>2, <1>5, <2>1, <2>2, <2>3, <2>4
  <2>5. CASE vm # Absent /\ \E on \in BOOLEAN : vm' = [vm EXCEPT !.on = on]
    <3>1. vm \in Machines
      BY <2>5 DEF Basic, Typed
    <3>2. vm'.files = vm.files /\ vm'.here = vm.here /\ vm'.set = vm.set /\ vm' # Absent
      BY <2>5, <3>1, Switched
    <3> QED BY <1>5, <2>2, <2>3, <3>2 DEF MachineSet
  <2> QED BY <2>3, <2>4, <2>5
<1> QED BY <1>1, <1>3, <1>4, <1>5, Classes

-----------------------------------------------------------------------------
\* Orderly: the versions.

LEMMA HostsAlignNothing ==
  /\ \A s \in HostNames : Aligned(s) = {}
  /\ Aligned("version") = {} /\ Aligned("download") = {}
BY DEF HostNames, Settings, Aligned

LEMMA KeepsAligned ==
  ASSUME NEW s
  PROVE  Aligned(s)' = Aligned(s)
BY DEF Aligned

LEMMA MatchesKept ==
  ASSUME NEW g, NEW h, NEW x, h[x] = g[x], h[<<"payload">>] = g[<<"payload">>]
  PROVE  /\ Matches(g, x) => Matches(h, x)
         /\ \A e : Brings(g, e, x) => Brings(h, e, x)
         /\ There(g, <<"payload">>) => There(h, <<"payload">>)
BY DEF Matches, Brings, There

\* How the step that runs stands to the item that it brings.
Comes(g, p, s, x) ==
    /\ Matches(g, x) \/ \E e \in Range(p) : Brings(g, e, x)
    /\ \A e \in Range(p) : x \in Writes(e) => Brings(g, e, x)
    /\ There(g, <<"payload">>) \/ <<"payload">> \in Made(p)
    /\ s = "kubernetes" => Deploys(p)

LEMMA VersionsAre ==
  VersionsMatch <=> \A s \in StepNames : \A x \in Aligned(s) :
                        /\ Past(s) => Matches(guest, x)
                        /\ Runs(s) => Comes(guest, op.process, s, x)
BY DEF VersionsMatch, Comes

LEMMA VersionsAreNext ==
  VersionsMatch' <=> \A s \in StepNames : \A x \in Aligned(s)' :
                        /\ Past(s)' => Matches(guest', x)
                        /\ Runs(s)' => Comes(guest', op'.process, s, x)
BY DEF VersionsMatch, Comes

LEMMA SendsBring ==
  ASSUME Basic, PayloadThere, Sends, NEW s \in StepNames, NEW x \in Aligned(s), At(s)
  PROVE  Comes(guest', op'.process, s, x)
<1> DEFINE p == op'.process
           w == op.request.world
<1>1. /\ Good("order", guest, s, w, op.version, p) /\ guest' = guest
  BY SendsGood DEF Sends
<1>2. /\ Aligns(AlignedBy(s), p) /\ Promised(s, w) \subseteq Made(p)
      /\ s = "kubernetes" => Deploys(p)
  BY <1>1 DEF Good, Suits
<1>3. s \in Bringers /\ x \in AlignedBy(s)
  BY AlignedIs
<1>4. \A e : Carries(e, x) => Brings(guest, e, x)
  BY DEF Brings
<1>5. PICK e \in Range(p) : Carries(e, x)
  BY <1>2, <1>3 DEF Aligns
<1>6. \A f \in Range(p) : x \in Writes(f) => Carries(f, x)
  BY <1>2, <1>3 DEF Aligns
<1>7. There(guest, <<"payload">>) \/ <<"payload">> \in Made(p)
  <2>1. CASE s \in {"update_crds", "operator_images"}
    BY <2>1, PayloadBefore
  <2>2. CASE s \in {"core_images", "kubernetes"}
    <3>1. <<"payload">> \in Promised(s, w)
      BY <2>2 DEF Promised
    <3> QED BY <1>2, <3>1
  <2>3. CASE s = "world_images"
    <3>1. x = <<"world_images">>
      BY <2>3, AlignedIs
    <3>2. e.do = "copy" /\ e.from = <<"payload">>
      BY <1>5, <3>1 DEF Carries
    <3>3. <<"payload">> \in Makes(e)
      BY <3>2 DEF Makes
    <3> QED BY <1>5, <3>3 DEF Made
  <2> QED BY <1>3, <2>1, <2>2, <2>3 DEF Bringers
<1> HIDE DEF p
<1> QED BY <1>1, <1>2, <1>4, <1>5, <1>6, <1>7 DEF Comes, p

\* What is past has the version of the payload.
LEMMA VersionsHold ==
  ASSUME Basic, Alone => Orderly, [Next]_vars, Alone'
  PROVE  VersionsMatch'
<1>o. Alone => orphans = {}
  BY DEF Orderly
<1>1. CASE Early'
  <2>1. \A s \in HostNames : Aligned(s)' = {}
    BY DEF HostNames, Settings, Aligned
  <2>2. ~Waiting' /\ \A s \in StepNames : Past(s)' => s \in HostNames
    BY <1>1 DEF Early
  <2> QED BY <2>1, <2>2, VersionsAreNext DEF Runs
<1>2. CASE Alone /\ Passes
  <2>1. /\ \A s \in StepNames : Past(s)' <=> Past(s) \/ At(s)
        /\ \A s : ~Runs(s)'
        /\ Kind' = Kind /\ guest' = guest
    BY <1>2, PassesPast DEF Passes
  <2>2. ASSUME NEW s \in StepNames, NEW x \in Aligned(s), Past(s)'
        PROVE  Matches(guest, x)
    <3>0. VersionsMatch
      BY <1>2 DEF Orderly
    <3>1. CASE Past(s)
      BY <2>2, <3>0, <3>1, VersionsAre
    <3>2. CASE At(s)
      <4>1. s # "version"
        BY <2>2, HostsAlignNothing
      <4>2. Runs(s) /\ op.process = <<>>
        BY <1>2, <3>2, <4>1, PassedStep
      <4>3. Comes(guest, <<>>, s, x)
        BY <2>2, <3>0, <4>2, VersionsAre
      <4> QED BY <4>3, RangeOfTuple DEF Comes
    <3> QED BY <2>1, <2>2, <3>1, <3>2
  <2> QED BY <2>1, <2>2, KeepsAligned, VersionsAreNext
<1>3. CASE Alone /\ Sends
  <2>1. /\ op'.request = op.request /\ op'.todo = op.todo /\ guest' = guest
        /\ \A s : Runs(s)' => At(s)
    BY <1>3, SendsGood DEF Sends
  <2>2. (\A s : Past(s)' <=> Past(s)) /\ Kind' = Kind
    BY <2>1, StaysThere
  <2>3. ASSUME NEW s \in StepNames, NEW x \in Aligned(s), Runs(s)'
        PROVE  Comes(guest', op'.process, s, x)
    BY <1>3, <2>1, <2>3, SendsBring DEF Orderly
  <2>4. ASSUME NEW s \in StepNames, NEW x \in Aligned(s), Past(s)'
        PROVE  Matches(guest', x)
    BY <1>3, <2>1, <2>2, <2>4, VersionsAre DEF Orderly
  <2> QED BY <2>2, <2>3, <2>4, KeepsAligned, VersionsAreNext
<1>4. CASE Alone /\ Performs
  <2>1. /\ op'.request = op.request /\ op'.todo = op.todo
        /\ \A s : Runs(s)' => Runs(s)
    BY <1>4, PerformsFacts
  <2>2. (\A s : Past(s)' <=> Past(s)) /\ Kind' = Kind
    BY <2>1, StaysThere
  <2>3. ASSUME NEW s \in StepNames, NEW x \in Aligned(s), Runs(s)'
        PROVE  Comes(guest', op'.process, s, x)
    BY <1>4, <2>1, <2>3, BroughtOn DEF Orderly, Comes
  <2>4. ASSUME NEW s \in StepNames, NEW x \in Aligned(s), Past(s)'
        PROVE  Matches(guest', x)
    <3>1. Past(s) /\ s \in Bringers /\ Matches(guest, x)
      BY <1>4, <2>2, <2>4, AlignedIs, VersionsAre DEF Orderly
    <3>2. guest'[x] = guest[x] /\ guest'[<<"payload">>] = guest[<<"payload">>]
      BY <1>4, <2>4, <3>1, Settled DEF Orderly
    <3> QED BY <3>1, <3>2, MatchesKept
  <2> QED BY <2>2, <2>3, <2>4, KeepsAligned, VersionsAreNext
<1>5. CASE Alone /\ Breaks
  <2>1. op'.request = op.request /\ op'.todo = op.todo /\ guest' = guest /\ At("download")
    BY <1>5 DEF Breaks, Changed, Runs
  <2>2. (\A s : (Past(s)' <=> Past(s)) /\ (At(s)' <=> At(s))) /\ Kind' = Kind
    BY <2>1, StaysThere
  <2>3. \A s : Runs(s)' => s = "download"
    BY <2>1, <2>2 DEF Runs, At
  <2>4. ASSUME NEW s \in StepNames, NEW x \in Aligned(s), Past(s)'
        PROVE  Matches(guest', x)
    BY <1>5, <2>1, <2>2, <2>4, VersionsAre DEF Orderly
  <2> QED BY <2>2, <2>3, <2>4, HostsAlignNothing, KeepsAligned, VersionsAreNext
<1>6. CASE Alone /\ Rests
  <2>1. /\ op'.request = op.request /\ op'.todo = op.todo /\ op'.process = op.process
    BY <1>6 DEF Rests
  <2>2. (\A s : Past(s)' <=> Past(s)) /\ Kind' = Kind /\ \A s : Runs(s)' <=> Runs(s)
    BY <2>1, StaysThere, RunsThere
  <2>3. ASSUME NEW s \in StepNames, NEW x \in Aligned(s)
        PROVE  guest'[x] = guest[x] /\ guest'[<<"payload">>] = guest[<<"payload">>]
    <3>1. x \in Items \ Volatile /\ x[1] \notin {"database", "release"}
      BY AlignedIs
    <3>2. <<"payload">> \in Items \ Volatile /\ <<"payload">>[1] \notin {"database", "release"}
      BY BaseItems
    <3> QED BY <1>6, <3>1, <3>2, RestsKeep
  <2>4. ASSUME NEW s \in StepNames, NEW x \in Aligned(s), Past(s)'
        PROVE  Matches(guest', x)
    <3>1. Matches(guest, x)
      BY <1>6, <2>2, <2>4, VersionsAre DEF Orderly
    <3> QED BY <2>3, <3>1, MatchesKept
  <2>5. ASSUME NEW s \in StepNames, NEW x \in Aligned(s), Runs(s)'
        PROVE  Comes(guest', op'.process, s, x)
    <3>1. Comes(guest, op.process, s, x)
      BY <1>6, <2>2, <2>5, VersionsAre DEF Orderly
    <3>2. /\ Matches(guest, x) => Matches(guest', x)
          /\ \A e : Brings(guest, e, x) => Brings(guest', e, x)
          /\ There(guest, <<"payload">>) => There(guest', <<"payload">>)
      BY <2>3, MatchesKept
    <3> QED BY <2>1, <3>1, <3>2 DEF Comes
  <2> QED BY <2>2, <2>4, <2>5, KeepsAligned, VersionsAreNext
<1> QED BY <1>o, <1>1, <1>2, <1>3, <1>4, <1>5, <1>6, Classes

-----------------------------------------------------------------------------
\* Orderly: the payload and the images of the world.

\* The script that patches the images of a world, as far as it is still to run.
PatchForm(g, p, v, x) ==
    /\ g[x] = v \/ x \in Written(p)
    /\ \A e \in Range(p) : x \in Writes(e) => e.do = "put" /\ e.value = v

\* The item that it writes.
Revision == <<"revision", op.request.world>>

LEMMA PayloadIs ==
  PayloadThere <=>
    /\ Past("core_images") \/ Past("kubernetes") => There(guest, <<"payload">>)
    /\ Past("version") => op.version = guest[<<"payload">>]
    /\ Past("patch_images") => guest[Revision] = op.version
    /\ Runs("patch_images") => PatchForm(guest, op.process, op.version, Revision)
BY DEF PayloadThere, PatchForm, Revision

LEMMA PayloadIsNext ==
  PayloadThere' <=>
    /\ Past("core_images")' \/ Past("kubernetes")' => There(guest', <<"payload">>)
    /\ Past("version")' => op'.version = guest'[<<"payload">>]
    /\ Past("patch_images")' => guest'[Revision'] = op'.version
    /\ Runs("patch_images")' => PatchForm(guest', op'.process, op'.version, Revision')
BY DEF PayloadThere, PatchForm, Revision

LEMMA PayloadSteps ==
  /\ {"core_images", "kubernetes", "version", "patch_images"} \subseteq StepNames
  /\ \A s \in {"core_images", "kubernetes", "version", "patch_images"} : s \notin HostNames
  /\ Rank("version") = 29 /\ Rank("patch_images") = 31 /\ Rank("download") = 19
     /\ Rank("payload") = 3
  /\ Rank("core_images") = 21 /\ Rank("kubernetes") = 4
<1>1. /\ {"core_images", "kubernetes", "version", "patch_images"} \subseteq StepNames
      /\ \A s \in {"core_images", "kubernetes", "version", "patch_images"} : s \notin HostNames
  BY DEF StepNames, HostNames, Settings
<1>2. Rank("version") = 29 /\ Rank("patch_images") = 31 /\ Rank("download") = 19
          /\ Rank("payload") = 3
      /\ Rank("core_images") = 21 /\ Rank("kubernetes") = 4
  BY Ranks, Zenon
<1> QED BY <1>1, <1>2

LEMMA RevisionItem ==
  ASSUME Basic, NEW s, Past(s) \/ At(s)
  PROVE  /\ Revision \in Items \ Volatile /\ Revision[1] = "revision"
         /\ Revision \in Watched(op.request.world)
<1>1. op.request.world \in Worlds
  BY PastWorld
<1>2. Revision \in Items /\ Revision[1] = "revision"
  BY <1>1, WorldItemsNamed DEF WorldItems, Revision
<1>3. Revision \notin Volatile
  BY DEF Volatile, Pods, Revision
<1>4. Revision \in Watched(op.request.world)
  BY DEF Watched, Revision
<1> QED BY <1>2, <1>3, <1>4

\* One effect of the script that patches the images.
LEMMA PatchedOn ==
  ASSUME Basic, Performs, Runs("patch_images"), PatchForm(guest, op.process, op.version, Revision)
  PROVE  PatchForm(guest', op'.process, op.version, Revision)
<1> DEFINE p == op.process
           e == Head(op.process)
           pw == generated + 1
           E == Expanded(guest, e, pw)
           x == Revision
           v == op.version
<1>1. /\ op'.process = After(p) /\ e \in Effects /\ e \in Range(p) /\ Sound(guest, p)
      /\ Range(After(p)) = Range(E) \cup Range(Tail(p))
      /\ Range(p) = {e} \cup Range(Tail(p))
      /\ \A y \in Items \ Writes(e) : guest'[y] = guest[y]
      /\ p \in Seq(Effects) /\ p # <<>>
  BY PerformsFacts
<1>2. /\ ~Fails(guest, e) /\ guest' = Effect(guest, e)
      /\ guest \in [Items -> Values] /\ GuestSound(guest) /\ pw \in Nat
  BY DEF Performs, Basic, Typed, GuestTyped, GuestInv
<1>3. Proper(e) /\ \A y \in Needs("order", e) : There(guest, y)
  <2>1. Fit("order", guest, {}, p)
    BY <1>1, SoundFits
  <2> QED BY <1>1, <2>1, HeadFacts
<1>4. /\ \A f \in Range(E) : Writes(f) \subseteq Writes(e)
      /\ IsSimple(e) \/ e.do = "require" => E = <<>>
  <2> HIDE DEF e, pw
  <2> QED BY <1>1, <1>2, <1>3, Expansion
<1>5. x \in Items
  BY RevisionItem DEF Runs
<1>6. CASE x \in Writes(e)
  <2>1. e.do = "put" /\ e.value = v
    BY <1>1, <1>6 DEF PatchForm
  <2>2. IsSimple(e) /\ e.item = x
    BY <1>6, <2>1 DEF IsSimple, Writes
  <2>3. guest'[x] = v
    BY <1>1, <1>2, <2>1, <2>2, EffectOnGuest
  <2>4. Range(E) = {}
    BY <1>4, <2>2, RangeOfTuple
  <2>5. \A f \in Range(After(p)) : x \in Writes(f) => f.do = "put" /\ f.value = v
    BY <1>1, <2>4 DEF PatchForm
  <2> QED BY <1>1, <2>3, <2>5 DEF PatchForm
<1>7. CASE x \notin Writes(e)
  <2>1. guest'[x] = guest[x]
    BY <1>1, <1>5, <1>7
  <2>2. x \in Written(p) => x \in Written(After(p))
    BY <1>1, <1>7 DEF Written
  <2>3. \A f \in Range(After(p)) : x \in Writes(f) => f.do = "put" /\ f.value = v
    BY <1>1, <1>4, <1>7 DEF PatchForm
  <2> QED BY <1>1, <2>1, <2>2, <2>3 DEF PatchForm
<1> QED BY <1>6, <1>7

\* What is not written by the scripts after a step stays as it was.
LEMMA NotWritten ==
  ASSUME Basic, WritesItsOwn, Performs, NEW x \in Items, x \in Watched(op.request.world),
         \A t \in StepNames : Runs(t) => x \notin MayWrite(t, op.request.world)
  PROVE  guest'[x] = guest[x]
<1>1. PICK t \in StepNames : Runs(t)
  BY RanStep DEF Performs
<1>2. x \notin Written(op.process)
  BY <1>1 DEF WritesItsOwn
<1> QED BY <1>2, PerformsFacts

LEMMA PayloadPerforms ==
  ASSUME Basic, Orderly, Performs
  PROVE  PayloadThere'
<1> DEFINE w == op.request.world
<1>1. /\ op'.request = op.request /\ op'.todo = op.todo /\ op'.version = op.version
      /\ \A s : Runs(s)' => Runs(s)
  BY PerformsFacts
<1>2. \A s : Past(s)' <=> Past(s)
  BY <1>1, StaysThere
<1>3. Revision' = Revision
  BY <1>1 DEF Revision
<1>4. There(guest, <<"payload">>) => There(guest', <<"payload">>)
  BY BaseItems DEF Performs, ScriptMoves, Grows
<1>5. ASSUME Past("version") PROVE guest'[<<"payload">>] = guest[<<"payload">>]
  <2>1. ASSUME NEW t \in StepNames, Runs(t) PROVE <<"payload">> \notin MayWrite(t, w)
    <3>1. Rank("version") < Rank(t)
      BY <1>5, <2>1, AfterPast, PayloadSteps DEF Runs
    <3>2. t \notin {"download", "payload"}
      BY <3>1, PayloadSteps
    <3> QED BY <3>2 DEF MayWrite
  <2>2. <<"payload">> \in Items /\ <<"payload">> \in Watched(w)
    BY BaseItems DEF Watched
  <2> QED BY <2>1, <2>2, NotWritten DEF Orderly
<1>6. ASSUME Past("patch_images") PROVE guest'[Revision] = guest[Revision]
  <2>1. ASSUME NEW t \in StepNames, Runs(t) PROVE Revision \notin MayWrite(t, w)
    <3>1. t # "patch_images"
      BY <1>6, <2>1, AfterPast, PayloadSteps DEF Runs
    <3> QED BY <3>1 DEF MayWrite, Revision
  <2> QED BY <1>6, <2>1, RevisionItem, NotWritten DEF Orderly
<1>7. Runs("patch_images")' => PatchForm(guest', op'.process, op.version, Revision)
  BY <1>1, PatchedOn, PayloadIs DEF Orderly
<1> QED BY <1>1, <1>2, <1>3, <1>4, <1>5, <1>6, <1>7, PayloadIs, PayloadIsNext DEF Orderly

\* The payload is there, and the images of the world have its version.
LEMMA PayloadHolds ==
  ASSUME Basic, Alone => Orderly, [Next]_vars, Alone'
  PROVE  PayloadThere'
<1>o. Alone => orphans = {}
  BY DEF Orderly
<1>1. CASE Early'
  <2>1. \A s \in {"core_images", "kubernetes", "version", "patch_images"} : ~Past(s)' /\ ~Runs(s)'
    BY <1>1, PayloadSteps DEF Early, Runs
  <2> QED BY <2>1, PayloadIsNext
<1>2. CASE Alone /\ Passes
  <2>1. /\ \A s \in StepNames : Past(s)' <=> Past(s) \/ At(s)
        /\ \A s : ~Runs(s)'
        /\ op'.request = op.request /\ guest' = guest
    BY <1>2, PassesPast DEF Passes
  <2>2. Revision' = Revision
    BY <2>1 DEF Revision
  <2>3. /\ VersionsMatch
        /\ Past("core_images") \/ Past("kubernetes") => There(guest, <<"payload">>)
        /\ Past("version") => op.version = guest[<<"payload">>]
        /\ Past("patch_images") => guest[Revision] = op.version
        /\ Runs("patch_images") => PatchForm(guest, op.process, op.version, Revision)
    BY <1>2, PayloadIs DEF Orderly
  <2>4. ASSUME At("core_images") \/ At("kubernetes") PROVE There(guest, <<"payload">>)
    <3>1. PICK s \in {"core_images", "kubernetes"} : At(s)
      BY <2>4
    <3>2. Runs(s) /\ op.process = <<>> /\ s \in StepNames
      BY <1>2, <3>1, PassedStep, PayloadSteps
    <3>3. <<"core_images">> \in Aligned(s)
      BY DEF Aligned
    <3>4. Comes(guest, <<>>, s, <<"core_images">>)
      BY <2>3, <3>2, <3>3, VersionsAre
    <3>5. Made(<<>>) = {}
      BY RangeOfTuple DEF Made
    <3> QED BY <3>4, <3>5 DEF Comes
  <2>5. CASE At("version")
    <3>1. op'.version = guest[<<"payload">>]
      <4>1. ~Waiting
        BY <2>5, NotThese DEF Basic
      <4> QED BY <1>2, <4>1 DEF Passes
    <3>2. ~Past("patch_images") /\ ~At("patch_images")
      <4>1. ASSUME Past("patch_images") PROVE FALSE
        BY <2>5, <4>1, AfterPast, PayloadSteps
      <4> QED BY <2>5, <4>1 DEF At
    <3> QED BY <2>1, <2>3, <2>4, <3>1, <3>2, PayloadIsNext, PayloadSteps
  <2>6. CASE ~At("version")
    <3>1. Waiting /\ op.process = <<>> /\ op'.version = op.version
      BY <1>2, <2>6 DEF Passes
    <3>2. ASSUME At("patch_images") PROVE guest[Revision] = op.version
      <4>1. Runs("patch_images")
        BY <3>1, <3>2 DEF Runs
      <4>2. Written(<<>>) = {}
        BY RangeOfTuple DEF Written
      <4> QED BY <2>3, <3>1, <4>1, <4>2 DEF PatchForm
    <3> QED BY <2>1, <2>2, <2>3, <2>4, <2>6, <3>1, <3>2, PayloadIsNext, PayloadSteps
  <2> QED BY <2>5, <2>6
<1>3. CASE Alone /\ Sends
  <2>1. /\ op'.request = op.request /\ op'.todo = op.todo /\ guest' = guest
        /\ op'.version = op.version
        /\ \A s : Runs(s)' => At(s)
    BY <1>3, SendsGood DEF Sends
  <2>2. \A s : Past(s)' <=> Past(s)
    BY <2>1, StaysThere
  <2>3. Revision' = Revision
    BY <2>1 DEF Revision
  <2>4. ASSUME At("patch_images") PROVE PatchForm(guest, op'.process, op.version, Revision)
    <3>1. Good("order", guest, "patch_images", op.request.world, op.version, op'.process)
      BY <1>3, <2>4, SendsGood
    <3>2. Patches(op.version, Revision, op'.process)
      BY <3>1 DEF Good, Revision
    <3> QED BY <3>2 DEF Patches, PatchForm
  <2> QED BY <1>3, <2>1, <2>2, <2>3, <2>4, PayloadIs, PayloadIsNext DEF Orderly
<1>4. CASE Alone /\ Performs
  BY <1>4, PayloadPerforms
<1>5. CASE Alone /\ Breaks
  <2>1. op'.request = op.request /\ op'.todo = op.todo /\ op'.version = op.version /\ guest' = guest
        /\ At("download")
    BY <1>5 DEF Breaks, Changed, Runs
  <2>2. \A s : (Past(s)' <=> Past(s)) /\ (At(s)' <=> At(s))
    BY <2>1, StaysThere
  <2>3. ~Runs("patch_images")' /\ Revision' = Revision
    BY <2>1, <2>2 DEF Runs, At, Revision
  <2> QED BY <1>5, <2>1, <2>2, <2>3, PayloadIs, PayloadIsNext DEF Orderly
<1>6. CASE Alone /\ Rests
  <2>1. op'.request = op.request /\ op'.todo = op.todo /\ op'.version = op.version
        /\ op'.process = op.process
    BY <1>6 DEF Rests
  <2>2. (\A s : Past(s)' <=> Past(s)) /\ (\A s : Runs(s)' <=> Runs(s)) /\ Revision' = Revision
    BY <2>1, StaysThere, RunsThere DEF Revision
  <2>3. guest'[<<"payload">>] = guest[<<"payload">>]
    BY <1>6, RestsKeep, BaseItems
  <2>4. ASSUME NEW s, Past(s) \/ At(s) PROVE guest'[Revision] = guest[Revision]
    BY <1>6, <2>4, RestsKeep, RevisionItem
  <2>5. Runs("patch_images") => At("patch_images")
    BY DEF Runs
  <2>6. Runs("patch_images") => PatchForm(guest', op.process, op.version, Revision)
    BY <1>6, <2>4, <2>5, PayloadIs DEF PatchForm, Orderly
  <2> QED BY <1>6, <2>1, <2>2, <2>3, <2>4, <2>6, PayloadIs, PayloadIsNext DEF Orderly, There
<1> QED BY <1>o, <1>1, <1>2, <1>3, <1>4, <1>5, <1>6, Classes

-----------------------------------------------------------------------------
\* Orderly.

\* Every step keeps Orderly of an operation that runs alone.
LEMMA OrderlyNext ==
  ASSUME OrderlyInv, [Next]_vars
  PROVE  OrderlyInv'
<1>1. Basic /\ (Alone => Orderly)
  BY DEF OrderlyInv
<1>2. Basic'
  BY <1>1, BasicNext
<1>3. ASSUME Alone' PROVE Orderly'
  <2>0. Alone => /\ orphans = {} /\ PromisesKept /\ WritesItsOwn /\ Synced /\ MachineSet
    BY <1>1 DEF Orderly
  <2>1. orphans' = {}
    BY <1>1, <1>3, <2>0, Classes
  <2>2. PromisesKept'
    BY <1>1, <1>3, <2>0, PromisesHold
  <2>3. WritesItsOwn'
    BY <1>1, <1>3, <2>0, OwnHolds
  <2>4. Synced'
    BY <1>1, <1>3, <2>0, SyncedHolds
  <2>5. MachineSet'
    BY <1>1, <1>3, <2>0, MachineHolds
  <2>6. VersionsMatch' /\ PayloadThere'
    BY <1>1, <1>3, VersionsHold, PayloadHolds
  <2> QED BY <2>1, <2>2, <2>3, <2>4, <2>5, <2>6 DEF Orderly
<1> QED BY <1>2, <1>3 DEF OrderlyInv

LEMMA OrderlyInit == Init => OrderlyInv
BY BasicInit, NotAloneFirst DEF OrderlyInv

LEMMA DoneKind ==
  ASSUME Basic, CleanlyDone
  PROVE  /\ Alone /\ ~Busy /\ Kind # "none" /\ (\A s \in All : Past(s))
         /\ op.request.world \in Worlds
         /\ All = Range(Steps(op.request))
<1>1. Alone /\ ~Busy /\ Kind # "none" /\ \A s \in All : Past(s)
  BY CleanlyAlone
<1> QED BY <1>1, AskedFacts DEF Basic, All

\* What the steps promise is all that a setup is for.
LEMMA DoneComplete ==
  ASSUME OrderlyInv
  PROVE  DoneIsComplete
<1> SUFFICES ASSUME CleanlyDone PROVE DoneIsComplete
  BY DEF DoneIsComplete
<1> DEFINE w == op.request.world
           version == op.version
<1>1. /\ Basic /\ Orderly /\ ~Busy /\ Kind # "none" /\ (\A s \in All : Past(s)) /\ w \in Worlds
      /\ All = Range(Steps(op.request)) /\ All \subseteq StepNames
  BY DoneKind, AskedFacts DEF OrderlyInv, Basic
<1>2. ASSUME NEW s \in All, NEW x \in Promised(s, w), x # <<"payload">>, x # <<"running">>
      PROVE  There(guest, x)
  <2>1. Past(s) /\ s \in StepNames
    BY <1>1
  <2>2. Held(x)
    BY <1>1, <1>2, <2>1 DEF Orderly, PromisesKept
  <2> QED BY <1>2, <2>2 DEF Held
<1>3. ASSUME NEW s \in All, NEW x \in Aligned(s)
      PROVE  guest[x] = guest[<<"payload">>]
  <2>1. Past(s) /\ s \in StepNames
    BY <1>1
  <2>2. Matches(guest, x)
    BY <1>1, <1>3, <2>1, VersionsAre DEF Orderly
  <2> QED BY <2>2 DEF Matches
<1>4. ASSUME Kind = "hyperv"
      PROVE  /\ vm.set = Settings /\ vm.here /\ folder = vm.files
             /\ There(guest, <<"enabled">>) /\ There(guest, <<"disk">>)
                /\ There(guest, <<"helper">>)
  <2>1. All = HostNames \cup {"player_settings"} \cup Range(GuestSteps)
    BY <1>1, <1>4, Kinds
  <2>2. "import" \in All /\ Settings \subseteq All
    BY <2>1 DEF HostNames
  <2>3. "start_k3s" \in All /\ "root_disk" \in All /\ "helper" \in All
    BY <2>1, PartRanges
  <2>4. vm # Absent /\ vm.here /\ folder = vm.files /\ \A s \in Settings : s \in vm.set
    BY <1>1, <1>4, <2>2 DEF Orderly, MachineSet
  <2>5. vm.set \subseteq Settings
    BY <1>1, <2>4 DEF Basic, Typed, Machines
  <2>6. There(guest, <<"enabled">>) /\ There(guest, <<"disk">>) /\ There(guest, <<"helper">>)
    <3>1. /\ <<"enabled">> \in Promised("start_k3s", w) /\ <<"disk">> \in Promised("root_disk", w)
          /\ <<"helper">> \in Promised("helper", w)
      BY DEF Promised
    <3> QED BY <1>2, <2>3, <3>1
  <2> QED BY <2>4, <2>5, <2>6
<1>5. ASSUME "create_world" \in All
      PROVE  /\ \A i \in {<<"payload">>, <<"world_images">>, <<"core_images">>, <<"crds">>,
                          <<"operator", "battlegroup">>, <<"revision", w>>} : guest[i] = version
             /\ There(guest, <<"cert-manager">>) /\ There(guest, <<"core">>)
             /\ \A o \in Range(Operators) : There(guest, <<"scaled", o>>)
             /\ \A i \in {"namespace", "secrets", "world", "title", "settings"} :
                    There(guest, <<i, w>>)
  <2>1. \/ Kind \in {"hyperv", "guest"} /\ Range(GuestSteps) \subseteq All
        \/ Kind = "ubuntu" /\ All = Range(UbuntuSteps)
    BY <1>1, <1>5, Kinds
  <2>2. {"create_world", "world_images", "version", "patch_images", "defaults"} \subseteq All
    BY <2>1, PartRanges
  <2>3. guest[<<"payload">>] = version /\ guest[<<"revision", w>>] = version
    BY <1>1, <2>2 DEF Orderly, PayloadThere
  <2>4. guest[<<"world_images">>] = guest[<<"payload">>]
    BY <1>3, <2>2 DEF Aligned
  <2>5. /\ guest[<<"core_images">>] = guest[<<"payload">>]
        /\ guest[<<"operator", "battlegroup">>] = guest[<<"payload">>]
        /\ guest[<<"crds">>] = guest[<<"payload">>]
    <3>1. CASE Kind \in {"hyperv", "guest"} /\ Range(GuestSteps) \subseteq All
      <4>1. {"core_images", "operator_images", "update_crds"} \subseteq All
        BY <3>1, PartRanges
      <4>2. /\ <<"core_images">> \in Aligned("core_images")
            /\ <<"operator", "battlegroup">> \in Aligned("operator_images")
            /\ <<"crds">> \in Aligned("update_crds")
        BY DEF Aligned
      <4> QED BY <1>3, <3>1, <4>1, <4>2
    <3>2. CASE Kind = "ubuntu" /\ All = Range(UbuntuSteps)
      <4>1. "kubernetes" \in All
        BY <3>2, PartRanges
      <4>2. {<<"core_images">>, <<"crds">>, <<"operator", "battlegroup">>}
                \subseteq Aligned("kubernetes")
        BY DEF Aligned
      <4> QED BY <1>3, <4>1, <4>2
    <3> QED BY <2>1, <3>1, <3>2
  <2>6. /\ There(guest, <<"cert-manager">>) /\ There(guest, <<"core">>)
        /\ \A o \in Range(Operators) : There(guest, <<"scaled", o>>)
    <3>1. CASE Kind \in {"hyperv", "guest"} /\ Range(GuestSteps) \subseteq All
      <4>1. {"scale_core", "scale_operators"} \subseteq All
        BY <3>1, PartRanges
      <4>2. /\ <<"cert-manager">> \in Promised("scale_core", w)
               /\ <<"core">> \in Promised("scale_core", w)
            /\ \A o \in Range(Operators) : <<"scaled", o>> \in Promised("scale_operators", w)
        BY DEF Promised
      <4> QED BY <1>2, <4>1, <4>2
    <3>2. CASE Kind = "ubuntu" /\ All = Range(UbuntuSteps)
      <4>1. "kubernetes" \in All
        BY <3>2, PartRanges
      <4>2. /\ <<"cert-manager">> \in Promised("kubernetes", w)
               /\ <<"core">> \in Promised("kubernetes", w)
            /\ \A o \in Range(Operators) : <<"scaled", o>> \in Promised("kubernetes", w)
        BY DEF Promised
      <4> QED BY <1>2, <4>1, <4>2
    <3> QED BY <2>1, <3>1, <3>2
  <2>7. \A i \in {"namespace", "secrets", "world", "title", "settings"} : There(guest, <<i, w>>)
    <3>1. /\ \A i \in {"namespace", "secrets", "world", "title"} : <<i,
             w>> \in Promised("create_world", w)
          /\ <<"settings", w>> \in Promised("defaults", w)
      BY DEF Promised
    <3> QED BY <1>2, <2>2, <3>1
  <2> QED BY <2>3, <2>4, <2>5, <2>6, <2>7
<1>6. ASSUME "ubuntu_swap" \in All
      PROVE  \A i \in {"swap_file", "fstab", "kubelet"} : There(guest, <<i>>)
  <2>1. \A i \in {"swap_file", "fstab", "kubelet"} : <<i>> \in Promised("ubuntu_swap", w)
    BY DEF Promised
  <2> QED BY <1>2, <1>6, <2>1
<1> QED BY <1>1, <1>4, <1>5, <1>6 DEF DoneIsComplete, Kind

\* A setup that is answered "ok", and that nothing ran beside, has left the machine
\* and the guest complete: every setting, every component, every version that of the
\* payload, and the world (guest_bootstrap.rs, ubuntu/provider.rs).
THEOREM DoneIsCompleteHolds == Spec => []DoneIsComplete
<1>1. Init => OrderlyInv
  BY OrderlyInit
<1>2. OrderlyInv /\ [Next]_vars => OrderlyInv'
  BY OrderlyNext
<1>3. OrderlyInv => DoneIsComplete
  BY DoneComplete
<1> QED BY <1>1, <1>2, <1>3, PTL DEF Spec

\* After a setup that is answered "ok" a database that runs has the passwords of the
\* world's secrets, unless the script found none running and skipped it (sync).
THEOREM CredentialsAgreeHolds == Spec => []CredentialsAgree
<1>1. Init => OrderlyInv
  BY OrderlyInit
<1>2. OrderlyInv /\ [Next]_vars => OrderlyInv'
  BY OrderlyNext
<1>3. OrderlyInv => CredentialsAgree
  <2> SUFFICES ASSUME OrderlyInv, CleanlyDone, "sync" \in Range(Steps(op.request)), ~op.skipped
               PROVE  LET w == op.request.world
                      IN There(guest, <<"pod", w>>)
                         => guest[<<"database", w>>] = guest[<<"world", w>>]
    BY DEF CredentialsAgree
  <2>1. Alone /\ Past("sync")
    BY CleanlyAlone DEF OrderlyInv, All
  <2>2. Agree(guest, op.request.world)
    BY <2>1 DEF OrderlyInv, Orderly, Synced
  <2> QED BY <2>2 DEF Agree
<1> QED BY <1>1, <1>2, <1>3, PTL DEF Spec

-----------------------------------------------------------------------------
\* Easy: an operation that no fault befell.

LEMMA SmoothAlone ==
  ASSUME Basic, Smooth, Busy
  PROVE  Alone
BY DEF Basic, ClientInv, Smooth, Alone

LEMMA EasyIdle ==
  ASSUME ~Busy', ~Waiting', op'.answer # "error"
  PROVE  Easy'
BY DEF Easy

LEMMA EasyEnds ==
  ASSUME NEW answer, Ends(answer), answer # "error"
  PROVE  Easy'
<1>1. ~Busy' /\ ~Waiting' /\ op'.answer # "error"
  BY DEF Ends, Busy, Waiting
<1> QED BY <1>1, EasyIdle

LEMMA ImportStart ==
  /\ "import" \in StepNames /\ "start" \in StepNames
  /\ Rank("import") = 9 /\ Rank("start") = 15
<1>1. Rank("import") = 9 /\ Rank("start") = 15
  BY Ranks, Zenon
<1> QED BY <1>1 DEF StepNames

LEMMA EasyProceeds ==
  ASSUME Basic, Easy, Proceeds, Reachable => Reachable', At("start") => Reachable',
         Past("import")' /\ ~Past("start")' => ~vm'.on
  PROVE  Easy'
<1>1. Busy /\ op'.request = op.request /\ op'.todo = Tail(op.todo) /\ ~Waiting'
      /\ op'.answer \in {"ok", op.answer}
  BY DEF Proceeds, Waiting
<1>2. Past("start")' <=> Past("start") \/ At("start")
  BY <1>1, NextPast, ImportStart DEF Basic, ClientInv
<1>3. op'.answer # "error"
  BY <1>1 DEF Easy
<1>4. Kind' = Kind
  BY <1>1 DEF Kind
<1> QED BY <1>1, <1>2, <1>3, <1>4 DEF Easy

LEMMA EasyHere ==
  ASSUME Basic, Easy, op'.request = op.request, op'.todo = op.todo, op'.answer = op.answer,
         Reachable => Reachable', vm' = vm,
         Waiting' => Ready("all", guest', op'.process) /\ Fresh(guest', op'.process)
  PROVE  Easy'
<1>1. /\ Past("start")' <=> Past("start")
      /\ Past("import")' <=> Past("import")
      /\ Kind' = Kind /\ (Busy' <=> Busy)
  BY StaysThere
<1> QED BY <1>1 DEF Easy

LEMMA PromiseMade ==
  ASSUME Basic, Orderly, Smooth, Busy, NEW s \in StepNames, Past(s),
         NEW x \in Promised(s, op.request.world)
  PROVE  There(guest, x)
<1>1. Held(x)
  BY DEF Orderly, PromisesKept
<1> QED BY <1>1 DEF Held, Smooth

LEMMA ReachesGuest ==
  ASSUME Basic, Easy, Busy, At("address") \/ At("version") \/ Head(op.todo) \in ScriptSteps
  PROVE  Reachable
<1> DEFINE t == Head(op.todo)
<1>0. t \in StepNames /\ At(t) /\ Kind # "none" /\ t \in All
  BY BusyFacts DEF Basic, ClientInv, At
<1>1. CASE Kind = "ubuntu"
  BY <1>1 DEF Basic, ClientInv, Reachable
<1>2. CASE Kind = "guest"
  BY <1>2 DEF Easy
<1>3. CASE Kind = "hyperv"
  <2>1. All = HostNames \cup {"player_settings"} \cup Range(GuestSteps)
    BY <1>0, <1>3, Kinds
  <2>2. t = "address" \/ t \in Range(GuestSteps) \cup {"player_settings"}
    <3>1. CASE At("address")
      BY <3>1 DEF At
    <3>2. CASE At("version")
      BY <3>2, PartRanges DEF At
    <3>3. CASE t \in ScriptSteps
      <4>1. t \notin HostNames
        BY <3>3, PartRanges DEF ScriptSteps, HostNames, Settings
      <4> QED BY <1>0, <2>1, <4>1
    <3> QED BY <3>1, <3>2, <3>3
  <2>3. 15 < Rank(t)
    <3>1. Rank("address") = 16
      BY Ranks, Zenon
    <3>2. \A s \in Range(GuestSteps) \cup {"player_settings"} : 16 < Rank(s)
      BY RankBounds
    <3>3. Rank(t) \in Nat
      BY <1>0, RankIsNat
    <3> QED BY <2>2, <3>1, <3>2, <3>3
  <2>4. "start" \in All
    BY <2>1 DEF HostNames
  <2>5. Past("start")
    BY <1>0, <2>3, <2>4, Places, ImportStart
  <2> QED BY <2>5 DEF Easy
<1> QED BY <1>0, <1>1, <1>2, <1>3, Kinds

-----------------------------------------------------------------------------
\* Easy: what a script finds there.

LEMMA Earlier ==
  ASSUME Basic, Orderly, Smooth, Busy, NEW t \in StepNames, t \in All,
         Rank(t) < Rank(Head(op.todo)), NEW x \in Promised(t, op.request.world)
  PROVE  There(guest, x)
<1>1. Head(op.todo) \in StepNames /\ At(Head(op.todo))
  BY BusyFacts DEF Basic, ClientInv, At
<1>2. Past(t)
  BY <1>1, Places
<1> QED BY <1>2, PromiseMade

LEMMA ScriptRanks ==
  /\ Rank("prepare_host") = 1 /\ Rank("install_k3s") = 2 /\ Rank("payload") = 3
  /\ Rank("kubernetes") = 4 /\ Rank("download") = 19 /\ Rank("start_k3s") = 20
  /\ Rank("core_images") = 21 /\ Rank("scale_core") = 22 /\ Rank("update_crds") = 23
  /\ Rank("operator_images") = 24 /\ Rank("scale_operators") = 25 /\ Rank("helper") = 26
  /\ Rank("create_world") = 27 /\ Rank("world_images") = 28 /\ Rank("patch_images") = 31
  /\ Rank("defaults") = 32 /\ Rank("scheduler") = 33
BY Ranks, Zenon

LEMMA VendorWants ==
  ASSUME Basic, Orderly, Smooth, Easy, Busy, Kind \in {"hyperv", "guest"},
         NEW s \in ScriptSteps, s = Head(op.todo)
  PROVE  \A x \in Wants(s, op.request.world) : There(guest, x)
<1> DEFINE w == op.request.world
<1>1. Kind # "none" /\ s \in All /\ s \in StepNames
  BY BusyFacts DEF Basic, ClientInv
<1>2. Range(GuestSteps) \subseteq All
  BY <1>1, Kinds
<1>3. {"download", "start_k3s", "scale_operators", "create_world"} \subseteq All \cap StepNames
  BY <1>2, PartRanges DEF StepNames
<1>4. s \in Range(GuestSteps) \cup {"player_settings"}
  <2>1. s \notin HostNames
    BY PartRanges DEF ScriptSteps, HostNames, Settings
  <2> QED BY <1>1, <2>1, Kinds
<1>5. Reachable /\ ~OnUbuntu
  BY ReachesGuest DEF Basic, ClientInv
<1>6. \A x \in Base : There(guest, x)
  BY <1>5 DEF Reachable, Basic, GuestInv
<1>7. 19 < Rank(s) => There(guest, <<"payload">>)
  BY <1>3, Earlier, ScriptRanks DEF Promised
<1>8. 20 < Rank(s) => There(guest, <<"running">>)
  BY <1>3, Earlier, ScriptRanks DEF Promised
<1>9. ASSUME 25 < Rank(s), NEW o \in Range(Operators) PROVE There(guest, <<"scaled", o>>)
  <2>1. <<"scaled", o>> \in Promised("scale_operators", w)
    BY DEF Promised
  <2> QED BY <1>3, <1>9, <2>1, Earlier, ScriptRanks
<1>10. 27 < Rank(s) => There(guest, <<"world", w>>)
  BY <1>3, Earlier, ScriptRanks DEF Promised
<1>11. There(guest, <<"release">>)
  BY Present DEF Basic, Typed, GuestTyped, There
<1>12. /\ There(guest, <<"k3s">>) /\ There(guest, <<"cert-manager">>)
       /\ \A o \in Range(Operators) : There(guest, <<"operator", o>>)
  BY <1>6 DEF Base
<1>13. CASE s \in {"root_disk", "player_settings", "sync"}
  BY <1>13 DEF Wants
<1>14. CASE s \in {"download", "start_k3s"}
  BY <1>11, <1>12, <1>14 DEF Wants
<1>15. CASE s \in {"core_images", "helper", "world_images"}
  BY <1>7, <1>15, ScriptRanks DEF Wants
<1>16. CASE s \in {"scale_core", "update_crds"}
  BY <1>8, <1>12, <1>16, ScriptRanks DEF Wants
<1>17. CASE s \in {"operator_images", "scale_operators"}
  BY <1>8, <1>12, <1>17, ScriptRanks DEF Wants
<1>18. CASE s = "create_world"
  BY <1>7, <1>8, <1>9, <1>18, ScriptRanks DEF Wants
<1>19. CASE s \in {"patch_images", "defaults"}
  BY <1>7, <1>10, <1>19, ScriptRanks DEF Wants
<1>20. s # "version"
  BY PartRanges DEF ScriptSteps
<1> QED BY <1>4, <1>13, <1>14, <1>15, <1>16, <1>17, <1>18, <1>19, <1>20, PartRanges

LEMMA UbuntuWants ==
  ASSUME Basic, Orderly, Smooth, Easy, Busy, Kind = "ubuntu",
         NEW s \in ScriptSteps, s = Head(op.todo)
  PROVE  \A x \in Wants(s, op.request.world) : There(guest, x)
<1> DEFINE w == op.request.world
<1>1. Kind # "none" /\ s \in All /\ s \in StepNames
  BY BusyFacts DEF Basic, ClientInv
<1>2. CASE All = {"ubuntu_swap"}
  BY <1>1, <1>2 DEF Wants
<1>3. CASE All = Range(UbuntuSteps)
  <2>1. {"prepare_host", "install_k3s", "payload", "kubernetes", "create_world"}
            \subseteq All \cap StepNames
    BY <1>3, PartRanges DEF StepNames
  <2>2. 1 < Rank(s) => There(guest, <<"user">>)
    BY <2>1, Earlier, ScriptRanks DEF Promised
  <2>3. 2 < Rank(s) => There(guest, <<"running">>)
    BY <2>1, Earlier, ScriptRanks DEF Promised
  <2>4. 3 < Rank(s) => There(guest, <<"payload">>)
    BY <2>1, Earlier, ScriptRanks DEF Promised
  <2>5. ASSUME 4 < Rank(s), NEW o \in Range(Operators) PROVE There(guest, <<"scaled", o>>)
    <3>1. <<"scaled", o>> \in Promised("kubernetes", w)
      BY DEF Promised
    <3> QED BY <2>1, <2>5, <3>1, Earlier, ScriptRanks
  <2>6. 27 < Rank(s) => There(guest, <<"world", w>>)
    BY <2>1, Earlier, ScriptRanks DEF Promised
  <2>7. There(guest, <<"release">>)
    BY Present DEF Basic, Typed, GuestTyped, There
  <2>8. CASE s \in {"prepare_host", "install_k3s", "player_settings", "sync"}
    BY <2>8 DEF Wants
  <2>9. CASE s = "payload"
    BY <2>2, <2>7, <2>9, ScriptRanks DEF Wants
  <2>10. CASE s = "kubernetes"
    BY <2>3, <2>4, <2>10, ScriptRanks DEF Wants
  <2>11. CASE s = "create_world"
    BY <2>3, <2>4, <2>5, <2>11, ScriptRanks DEF Wants
  <2>12. CASE s \in {"world_images", "patch_images", "defaults", "scheduler"}
    BY <2>4, <2>6, <2>12, ScriptRanks DEF Wants
  <2>13. s # "version"
    BY PartRanges DEF ScriptSteps
  <2> QED BY <1>1, <1>3, <2>8, <2>9, <2>10, <2>11, <2>12, <2>13, PartRanges
<1> QED BY <1>1, <1>2, <1>3, Kinds

\* A script that is sent finds what it needs.
LEMMA SendsReady ==
  ASSUME Basic, Orderly, Smooth, Easy, Busy, Head(op.todo) \in ScriptSteps
  PROVE  Ready("all", guest, Script(op)) /\ Fresh(guest, Script(op))
<1> DEFINE s == Head(op.todo)
<1>1. op.request.world \in Worlds /\ Kind # "none"
  BY BusyWorld
<1>2. s = "patch_images" => op.version \in Values /\ op.version # Absent
  BY PatchVersion
<1>3. \A x \in Wants(s, op.request.world) : There(guest, x)
  BY <1>1, VendorWants, UbuntuWants, Kinds
<1>4. Good("all", guest, s, op.request.world, op.version, Script(op))
  BY <1>1, <1>2, <1>3, GoodScript
<1>5. Fit("all", guest, {}, Script(op)) /\ \A f \in Range(Script(op)) : f.do # "create"
  BY <1>4 DEF Good, Suits
<1>6. \A k \in 1 .. Len(Script(op)) : Script(op)[k].do # "create"
  BY <1>5 DEF Range
<1> QED BY <1>5, <1>6 DEF Fit, Ready, Fresh

-----------------------------------------------------------------------------
\* Easy: one step of the guest, of the client or of the host.

LEMMA FreshBeside ==
  ASSUME NEW g, NEW h, NEW p \in Seq(Effects), Sound(g, p), Fresh(g, p),
         \A x \in Items : ~There(g, x) /\ x[1] \notin {"pod", "database"} => ~There(h, x)
  PROVE  Fresh(h, p)
<1>1. ASSUME NEW k \in 1 .. Len(p), p[k].do = "create"
      PROVE  ~There(h, p[k].item)
  <2>1. p[k] \in Effects /\ p[k] \in Range(p)
    BY DEF Range
  <2>2. Proper(p[k]) /\ p[k].item \in Items
    BY <1>1, <2>1, EffectKinds DEF Sound
  <2>3. ~There(g, p[k].item) /\ p[k].item[1] # "database"
    BY <1>1 DEF Fresh
  <2>4. Writes(p[k]) = {p[k].item} /\ p[k] # Put(<<"legacy">>, Absent)
    BY <1>1 DEF Writes, IsSimple, Put
  <2>5. p[k].item[1] # "pod"
    BY <2>2, <2>4 DEF Proper, Fixed
  <2> QED BY <2>2, <2>3, <2>5
<1> QED BY <1>1 DEF Fresh

\* A script that is waited for is not held up by what happens beside it.
LEMMA ReadyBeside ==
  ASSUME Basic, Easy, Waiting, op'.process = op.process, Grows(guest, guest'),
         \A x \in Items : ~There(guest, x) /\ x[1] \notin {"pod", "database"} => ~There(guest', x)
  PROVE  Ready("all", guest', op'.process) /\ Fresh(guest', op'.process)
<1>1. op.process \in Seq(Effects) /\ Sound(guest, op.process)
  BY RunningFacts DEF Running
<1>2. Ready("all", guest, op.process) /\ Fresh(guest, op.process)
  BY DEF Easy
<1> QED BY <1>1, <1>2, OthersGoOn, FreshBeside

\* An operation begins.
LEMMA EasyBegin ==
  ASSUME Basic, NEW r \in Requests, Begin(r)
  PROVE  Easy'
<1>1. /\ op'.request = r /\ op'.todo = Steps(r) /\ op'.answer = "none" /\ ~Waiting'
      /\ guest' = guest /\ vm' = vm
  BY BeginDoes DEF Begin, Waiting, host
<1>2. Kind' = r.kind /\ ~Past("start")' /\ ~Past("import")'
  BY <1>1, AtBeginning, ImportStart
<1>3. r.kind = "guest" => Reachable
  BY DEF Begin
<1>4. Reachable' <=> Reachable
  BY <1>1 DEF Reachable, OnUbuntu
<1> QED BY <1>1, <1>2, <1>3, <1>4 DEF Easy

LEMMA EasyQuiet ==
  ASSUME Basic, Easy, Readiness \/ Clear \/ Compare
  PROVE  Easy'
<1>1. Busy /\ guest' = guest /\ vm' = vm
  BY DEF Readiness, Clear, Compare, At, host
<1>2. At("readiness") \/ At("clear") \/ At("compare")
  BY DEF Readiness, Clear, Compare
<1>3. Typed
  BY DEF Basic
<1>4. op' = Proceed(op) \/ \E answer \in {"occupied", "incompatible"} : op' = Finish(op, answer)
  BY DEF Readiness, Clear, Compare
<1>5. CASE op' = Proceed(op)
  <2>1. Proceeds
    BY <1>1, <1>3, <1>5, ProceedDoes
  <2>2. Reachable' <=> Reachable
    BY <1>1 DEF Reachable, OnUbuntu
  <2>3. ~At("start") /\ ~At("import")
    BY <1>2 DEF At
  <2>4. Past("import")' /\ ~Past("start")' => ~vm'.on
    <3>1. \A t \in {"import", "start"} : Past(t)' <=> Past(t) \/ At(t)
      BY <1>1, <2>1, NextPast, ImportStart DEF Proceeds, Basic, ClientInv
    <3> QED BY <1>1, <2>3, <3>1 DEF Easy
  <2> QED BY <2>1, <2>2, <2>3, <2>4, EasyProceeds
<1>6. CASE \E answer \in {"occupied", "incompatible"} : op' = Finish(op, answer)
  BY <1>1, <1>3, <1>6, FinishDoes, EasyEnds
<1> QED BY <1>4, <1>5, <1>6

\* The steps before the import.
LEMMA BeforeImport ==
  ASSUME Basic, At("existing") \/ At("import")
  PROVE  /\ ~Past("import") /\ ~Past("start") /\ Kind = "hyperv" /\ ~Waiting /\ Busy /\ Typed
         /\ ~At("start")
<1>1. Kind = "hyperv" /\ ~Waiting /\ Busy /\ Typed
  BY HostStepFacts
<1>2. Rank("existing") = 6 /\ Rank("import") = 9
  BY Ranks, Zenon
<1>3. Rank(Head(op.todo)) <= 9
  BY <1>2 DEF At
<1>4. ~Past("import") /\ ~Past("start")
  BY <1>1, <1>3, ImportStart, BusyFacts DEF Basic, ClientInv
<1> QED BY <1>1, <1>4 DEF At

LEMMA EasyExisting ==
  ASSUME Basic, Easy, Existing
  PROVE  Easy'
<1>1. At("existing")
  BY DEF Existing
<1>2. ~Past("import") /\ ~Past("start") /\ Kind = "hyperv" /\ ~Waiting /\ Busy /\ Typed
  BY <1>1, BeforeImport
<1>3. CASE op' = Proceed(op)
  <2>1. Proceeds
    BY <1>2, <1>3, ProceedDoes
  <2>2. \A t \in {"import", "start"} : ~Past(t)'
    <3>1. \A t \in {"import", "start"} : Past(t)' <=> Past(t) \/ At(t)
      BY <2>1, NextPast, ImportStart DEF Proceeds, Basic, ClientInv
    <3> QED BY <1>1, <1>2, <3>1 DEF At
  <2>3. Kind' = "hyperv" /\ ~Waiting' /\ op'.answer \in {"ok", op.answer}
    BY <1>2, <2>1 DEF Proceeds, Waiting, Kind
  <2> QED BY <2>2, <2>3 DEF Easy
<1>4. CASE op' = Finish(op, "exists")
  BY <1>2, <1>4, FinishDoes, EasyEnds
<1>5. CASE op' = op
  <2>1. ~Past("import")' /\ ~Past("start")' /\ Kind' = "hyperv" /\ ~Waiting'
    BY <1>2, <1>5, StaysThere DEF Waiting
  <2> QED BY <1>5, <2>1 DEF Easy
<1> QED BY <1>3, <1>4, <1>5 DEF Existing

LEMMA EasyImport ==
  ASSUME Basic, Easy, Import
  PROVE  Easy'
<1>1. /\ ~Past("import") /\ ~Past("start") /\ Kind = "hyperv" /\ ~Waiting /\ Busy /\ Typed
      /\ ~At("start")
  BY BeforeImport DEF Import
<1>2. Proceeds
  BY <1>1, ProceedDoes DEF Import
<1>3. ~Past("start")'
  BY <1>1, <1>2, NextPast, ImportStart DEF Proceeds, Basic, ClientInv
<1>4. Kind' = "hyperv" /\ ~Waiting' /\ op'.answer \in {"ok", op.answer}
  BY <1>1, <1>2 DEF Proceeds, Waiting, Kind
<1>5. ~vm'.on
  BY DEF Import
<1> QED BY <1>3, <1>4, <1>5 DEF Easy

LEMMA EasyConfigure ==
  ASSUME Basic, Easy, NEW step \in Settings, Configure(step)
  PROVE  Easy'
<1>1. At(step) /\ guest' = guest
  BY DEF Configure
<1>2. Kind = "hyperv" /\ Busy /\ Typed
  BY <1>1, HostStepFacts
<1>3. step \in StepNames /\ 9 < Rank(step) /\ Rank(step) < 15
  BY Ranks DEF Settings, StepNames
<1>4. Past("import") /\ ~Past("start") /\ vm \in Machines /\ vm # Absent
  <2>1. Past("import")
    BY <1>1, SettingsImported
  <2>2. ~Past("start")
    BY <1>1, <1>2, <1>3, ImportStart, BusyFacts DEF Basic, ClientInv, At
  <2>3. vm \in Machines /\ vm # Absent
    BY <1>1, <1>2, <1>3, MachineThere DEF At
  <2> QED BY <2>1, <2>2, <2>3
<1>5. ~vm.on
  BY <1>2, <1>4 DEF Easy
<1>6. op' = Proceed(op) /\ vm' = [vm EXCEPT !.set = @ \cup {step}]
  BY <1>4, <1>5 DEF Configure
<1>7. vm'.on = vm.on
  BY <1>4, <1>6, SettingAdded
<1>8. Proceeds
  BY <1>2, <1>6, ProceedDoes
<1>9. ~At("start") /\ (Reachable => Reachable')
  BY <1>1, <1>4, <1>5 DEF At, Settings, Reachable, OnUbuntu
<1> QED BY <1>5, <1>7, <1>8, <1>9, EasyProceeds

LEMMA EasyStart ==
  ASSUME Basic, Easy, Start
  PROVE  Easy'
<1>1. Kind = "hyperv" /\ Busy /\ Typed /\ At("start")
  BY HostStepFacts DEF Start
<1>2. vm \in Machines /\ vm # Absent
  BY <1>1, ImportStart, MachineThere DEF At
<1>3. vm' # Absent /\ vm'.on
  BY <1>2, Switched DEF Start
<1>4. Proceeds
  BY <1>1, ProceedDoes DEF Start
<1>5. Reachable'
  BY <1>3 DEF Reachable
<1>6. Past("start")'
  BY <1>1, <1>4, NextPast, ImportStart DEF Proceeds, Basic, ClientInv
<1> QED BY <1>4, <1>5, <1>6, EasyProceeds

LEMMA EasyGoesOn ==
  ASSUME Basic, Easy, Busy, Proceeds, guest' = guest, vm' = vm, ~At("start"), ~At("import")
  PROVE  Easy'
<1>1. Reachable' <=> Reachable
  BY DEF Reachable, OnUbuntu
<1>2. \A t \in {"import", "start"} : Past(t)' <=> Past(t)
  BY NextPast, ImportStart DEF Proceeds, Basic, ClientInv
<1>3. Past("import")' /\ ~Past("start")' => ~vm'.on
  BY <1>2 DEF Easy
<1> QED BY <1>1, <1>3, EasyProceeds

LEMMA EasyAddress ==
  ASSUME Basic, Easy, Address
  PROVE  Easy'
<1>1. Typed /\ Busy /\ At("address") /\ guest' = guest /\ vm' = vm
  BY DEF Basic, Address, At, host
<1>2. Reachable
  BY <1>1, ReachesGuest
<1>3. Proceeds
  BY <1>1, <1>2, ProceedDoes DEF Address
<1>4. ~At("start") /\ ~At("import")
  BY <1>1 DEF At
<1> QED BY <1>1, <1>3, <1>4, EasyGoesOn

\* The operation is answered.
LEMMA EasyAnswered ==
  ASSUME Basic, Easy, Answered
  PROVE  Easy'
<1>1. Typed /\ Busy /\ Head(op.todo) \in ScriptSteps /\ guest' = guest /\ vm' = vm
  BY DEF Basic, ClientInv, Answered, host
<1>2. Proceeds
  BY <1>1, ProceedDoes DEF Answered
<1>3. ~At("start") /\ ~At("import")
  BY <1>1, PartRanges DEF At, ScriptSteps
<1> QED BY <1>1, <1>2, <1>3, EasyGoesOn

\* It sends a script,
LEMMA EasySend ==
  ASSUME Basic, Orderly, Smooth, Easy, Send
  PROVE  Easy'
<1>1. Busy /\ Typed /\ Head(op.todo) \in ScriptSteps /\ guest' = guest /\ vm' = vm
  BY DEF Send, Basic, host
<1>2. Reachable
  BY <1>1, ReachesGuest
<1> DEFINE p == Script(op)
<1>3. Ready("all", guest, p) /\ Fresh(guest, p)
  BY <1>1, SendsReady
<1>4. op' = [op EXCEPT !.process = p]
  BY <1>2 DEF Send
<1> HIDE DEF p
<1>5. Changed(op, op', p, op.version, op.faulted, op.lost, op.alone, op.skipped)
  BY <1>1, <1>4, Except DEF Typed, OpTyped
<1>6. /\ op'.request = op.request /\ op'.todo = op.todo /\ op'.answer = op.answer
      /\ op'.process = p
  BY <1>5 DEF Changed
<1>7. Reachable' <=> Reachable
  BY <1>1 DEF Reachable, OnUbuntu
<1> QED BY <1>1, <1>3, <1>6, <1>7, EasyHere

\* reads the version of the payload,
LEMMA EasyReadVersion ==
  ASSUME Basic, Orderly, Smooth, Easy, ReadVersion
  PROVE  Easy'
<1>1. Busy /\ Typed /\ At("version") /\ guest' = guest /\ vm' = vm
  BY DEF ReadVersion, At, Basic, host
<1>2. Reachable
  BY <1>1, ReachesGuest
<1>3. There(guest, <<"payload">>)
  <2>1. At("version") /\ "version" \in StepNames
            /\ {"core_images", "kubernetes"} \subseteq StepNames
    BY <1>1 DEF StepNames
  <2>2. "version" \in All /\ Kind # "none"
    BY <2>1, Places
  <2>3. "core_images" \in All \/ "kubernetes" \in All
    BY <2>2, Kinds, PartRanges
  <2>4. Rank("core_images") < Rank("version") /\ Rank("kubernetes") < Rank("version")
    BY PayloadSteps
  <2>5. Past("core_images") \/ Past("kubernetes")
    BY <2>1, <2>3, <2>4, Places
  <2> QED BY <2>5 DEF Orderly, PayloadThere
<1>4. guest[<<"payload">>] \in Values
  BY <1>1, <1>3, PayloadValue DEF Typed, GuestTyped
<1>5. Proceeds
  BY <1>1, <1>2, <1>3, <1>4, VersionDoes DEF ReadVersion
<1>6. ~At("start") /\ ~At("import")
  BY <1>1 DEF At
<1> QED BY <1>1, <1>5, <1>6, EasyGoesOn

\* executes an effect,
LEMMA EasyExecute ==
  ASSUME Basic, Easy, Execute
  PROVE  Easy'
<1>1. Waiting /\ op.process # <<>> /\ Typed /\ vm' = vm
  BY DEF Execute, Basic, host
<1>2. op.process \in Running
  BY <1>1 DEF Running
<1>3. op.process \in Seq(Effects) /\ Sound(guest, op.process)
  BY <1>2, RunningFacts
<1>4. Ready("all", guest, op.process) /\ Fresh(guest, op.process)
  BY <1>1 DEF Easy
<1>5. Fit("all", guest, {}, op.process)
  BY <1>3, <1>4, ReadyFits
<1>6. ~Fails(guest, Head(op.process))
  BY <1>1, <1>4, <1>5, NothingFails
<1>7. /\ ScriptMoves(op.process)
      /\ Changed(op, op', After(op.process), op.version, op.faulted, op.lost, op.alone,
                 op.skipped \/ Skips(guest, Head(op.process)))
  BY <1>6, ExecuteDoes
<1>8. guest' = Effect(guest, Head(op.process))
  BY <1>6 DEF Execute, Perform
<1>9. guest \in [Items -> Values] /\ GuestSound(guest) /\ generated + 1 \in Nat
  BY <1>1 DEF Typed, GuestTyped, Basic, GuestInv
<1>10. Ready("all", guest', After(op.process)) /\ Fresh(guest', After(op.process))
  BY <1>1, <1>3, <1>4, <1>6, <1>8, <1>9, Executes DEF After
<1>11. op'.request = op.request /\ op'.todo = op.todo /\ op'.answer = op.answer
       /\ op'.process = After(op.process)
  BY <1>7 DEF Changed
<1>12. Reachable => Reachable'
  BY <1>1, <1>7 DEF Reachable, ScriptMoves
<1> QED BY <1>1, <1>10, <1>11, <1>12, EasyHere

\* or waits.
LEMMA EasyBeside ==
  ASSUME Basic, Easy, (\E w \in Worlds : DatabaseStarts(w)) \/ Release
  PROVE  Easy'
<1>1. op' = op /\ vm' = vm /\ Typed
  BY DEF DatabaseStarts, Release, host, Basic
<1>2. /\ Grows(guest, guest') /\ guest'[<<"os">>] = guest[<<"os">>]
      /\ \A x \in Items : ~There(guest, x) /\ x[1] \notin {"pod", "database"} => ~There(guest', x)
  <2>1. ASSUME NEW w \in Worlds, DatabaseStarts(w)
        PROVE  /\ Grows(guest, guest') /\ guest'[<<"os">>] = guest[<<"os">>]
               /\ \A x \in Items : ~There(guest, x) /\ x[1] \notin {"pod", "database"}
                  => ~There(guest', x)
    <3>1. /\ \A x \in Items \ {<<"pod", w>>, <<"database", w>>} : guest'[x] = guest[x]
          /\ Grows(guest, guest')
      BY <2>1, DatabaseGuest
    <3>2. \A x : x[1] \notin {"pod", "database"} => x # <<"pod", w>> /\ x # <<"database", w>>
      OBVIOUS
    <3>3. <<"os">> \in Items /\ <<"os">>[1] \notin {"pod", "database"}
      BY FixedItems
    <3> QED BY <3>1, <3>2, <3>3 DEF There
  <2>2. CASE Release
    <3>1. guest' = [guest EXCEPT ![<<"release">>] = @ + 1]
      BY <2>2 DEF Release
    <3>2. /\ guest \in [Items -> Values] /\ guest[<<"release">>] \in Nat /\ <<"release">> \in Items
          /\ <<"os">> \in Items
      BY <1>1, FixedItems DEF Typed, GuestTyped
    <3>3. (\A x \in Items \ {<<"release">>} : guest'[x] = guest[x]) /\ guest'[<<"release">>] \in Nat
      BY <3>1, <3>2
    <3>4. There(guest, <<"release">>) /\ There(guest', <<"release">>)
      BY <3>2, <3>3, Present DEF There
    <3>5. <<"os">> # <<"release">>
      OBVIOUS
    <3> QED BY <3>2, <3>3, <3>4, <3>5 DEF Grows, There
  <2> QED BY <2>1, <2>2
<1>3. Waiting' => Ready("all", guest', op'.process) /\ Fresh(guest', op'.process)
  BY <1>1, <1>2, ReadyBeside DEF Waiting
<1>4. Reachable => Reachable'
  BY <1>1, <1>2 DEF Reachable, OnUbuntu
<1> QED BY <1>1, <1>3, <1>4, EasyHere

\* Every step keeps Easy of an operation that no fault befell.
LEMMA SmoothNext ==
  ASSUME OrderlyInv, SmoothInv, [Next]_vars
  PROVE  SmoothInv'
<1> SUFFICES ASSUME Smooth' PROVE Easy'
  BY DEF SmoothInv
<1>t. Basic /\ Typed /\ OpTyped(op) /\ Shaped(op) /\ ClientInv
  BY DEF OrderlyInv, Basic, Typed, OpTyped
<1>b. Smooth /\ Busy => Alone /\ Orderly /\ orphans = {} /\ Easy
  BY <1>t, SmoothAlone DEF OrderlyInv, SmoothInv, Orderly
<1>n. ASSUME ~Busy, op'.todo = op.todo, op'.process = op.process, op'.answer = op.answer,
             op'.faulted = op.faulted, op'.alone = op.alone
      PROVE  Easy'
  <2>1. Smooth
    BY <1>n DEF Smooth
  <2>2. ~Waiting /\ op.answer # "error"
    BY <1>t, <1>n, <2>1 DEF ClientInv, SmoothInv, Easy
  <2>3. ~Busy' /\ ~Waiting' /\ op'.answer # "error"
    BY <1>n, <2>2 DEF Busy, Waiting
  <2> QED BY <2>3, EasyIdle
<1>k. ASSUME Busy, op' = op \/ (\E answer : op' = Finish(op, answer)) \/ op' = Proceed(op)
      PROVE  Smooth
  <2>1. CASE op' = op
    BY <2>1 DEF Smooth
  <2>2. ASSUME NEW answer, op' = Finish(op, answer) PROVE Smooth
    BY <1>t, <1>k, <2>2, FinishDoes DEF Ends, Keeps, Smooth
  <2>3. CASE op' = Proceed(op)
    BY <1>t, <1>k, <2>3, ProceedDoes DEF Proceeds, Keeps, Smooth
  <2> QED BY <1>k, <2>1, <2>2, <2>3
<1>1. CASE \E r \in Requests : Begin(r)
  BY <1>t, <1>1, EasyBegin
<1>2. CASE Readiness \/ Clear \/ Compare
  <2>1. Smooth /\ Busy
    BY <1>2, <1>k DEF Readiness, Clear, Compare, At
  <2> QED BY <1>2, <1>t, <1>b, <2>1, EasyQuiet
<1>3. CASE Existing
  <2>1. Smooth /\ Busy
    BY <1>3, <1>k DEF Existing, At
  <2> QED BY <1>3, <1>t, <1>b, <2>1, EasyExisting
<1>4. CASE Import
  <2>1. Smooth /\ Busy
    BY <1>4, <1>k DEF Import, At
  <2> QED BY <1>4, <1>t, <1>b, <2>1, EasyImport
<1>5. CASE Start
  <2>1. Smooth /\ Busy
    BY <1>5, <1>k DEF Start, At
  <2> QED BY <1>5, <1>t, <1>b, <2>1, EasyStart
<1>6. CASE Address
  <2>1. Smooth /\ Busy
    BY <1>6, <1>k DEF Address, At
  <2> QED BY <1>6, <1>t, <1>b, <2>1, EasyAddress
<1>7. ASSUME NEW step \in Settings, Configure(step) PROVE Easy'
  <2>1. Smooth /\ Busy
    BY <1>7, <1>k DEF Configure, At
  <2> QED BY <1>7, <1>t, <1>b, <2>1, EasyConfigure
<1>8. CASE Send
  <2>1. Busy
    BY <1>8 DEF Send
  <2>2. Smooth
    <3>1. CASE Reachable
      <4> DEFINE p == Script(op)
      <4>1. op' = [op EXCEPT !.process = p]
        BY <1>8, <3>1 DEF Send
      <4> HIDE DEF p
      <4>2. Changed(op, op', p, op.version, op.faulted, op.lost, op.alone, op.skipped)
        BY <1>t, <4>1, Except
      <4> QED BY <4>2 DEF Changed, Smooth
    <3>2. CASE ~Reachable
      BY <1>8, <1>k, <2>1, <3>2 DEF Send
    <3> QED BY <3>1, <3>2
  <2> QED BY <1>8, <1>t, <1>b, <2>1, <2>2, EasySend
<1>9. CASE ReadVersion
  <2>1. Busy
    BY <1>9 DEF ReadVersion, At
  <2>2. Smooth
    <3>1. CASE Reachable /\ There(guest, <<"payload">>)
      <4>1. guest[<<"payload">>] \in Values
        BY <1>t, <3>1, PayloadValue DEF Typed, GuestTyped
      <4>2. Proceeds /\ Keeps
        BY <1>9, <1>t, <2>1, <3>1, <4>1, VersionDoes DEF ReadVersion
      <4> QED BY <4>2 DEF Proceeds, Keeps, Smooth
    <3>2. CASE ~(Reachable /\ There(guest, <<"payload">>))
      BY <1>9, <1>k, <2>1, <3>2 DEF ReadVersion
    <3> QED BY <3>1, <3>2
  <2> QED BY <1>9, <1>t, <1>b, <2>1, <2>2, EasyReadVersion
<1>10. CASE Execute
  <2>1. Busy
    BY <1>10, <1>t DEF Execute, ClientInv
  <2>2. Smooth
    <3>1. CASE Fails(guest, Head(op.process))
      BY <1>10, <1>k, <2>1, <3>1 DEF Execute
    <3>2. CASE ~Fails(guest, Head(op.process))
      BY <1>10, <1>t, <3>2, ExecuteDoes DEF Changed, Smooth
    <3> QED BY <3>1, <3>2
  <2> QED BY <1>10, <1>t, <1>b, <2>1, <2>2, EasyExecute
<1>11. CASE Answered
  <2>1. Smooth /\ Busy
    BY <1>11, <1>k, <1>t DEF Answered, ClientInv
  <2> QED BY <1>11, <1>t, <1>b, <2>1, EasyAnswered
<1>12. CASE \E o \in orphans : OrphanExecutes(o) \/ OrphanEnds(o)
  <2>1. op' = op /\ orphans # {}
    BY <1>12 DEF OrphanExecutes, OrphanEnds
  <2>2. ~Busy
    BY <1>b, <1>k, <2>1
  <2> QED BY <1>n, <2>1, <2>2
<1>13. CASE (\E w \in Worlds : DatabaseStarts(w)) \/ Release
  <2>1. op' = op
    BY <1>13 DEF DatabaseStarts, Release
  <2>2. CASE Busy
    BY <1>13, <1>t, <1>b, <1>k, <2>1, <2>2, EasyBeside
  <2>3. CASE ~Busy
    BY <1>n, <2>1, <2>3
  <2> QED BY <2>2, <2>3
<1>14. CASE UNCHANGED vars
  <2>1. op' = op /\ guest' = guest /\ vm' = vm
    BY <1>14 DEF vars
  <2>2. CASE Busy
    <3>1. Easy
      BY <1>b, <1>k, <2>1, <2>2
    <3>2. Waiting' => Ready("all", guest', op'.process) /\ Fresh(guest', op'.process)
      BY <2>1, <3>1 DEF Easy, Waiting
    <3>3. Reachable => Reachable'
      BY <2>1 DEF Reachable, OnUbuntu
    <3> QED BY <1>t, <2>1, <3>1, <3>2, <3>3, EasyHere
  <2>3. CASE ~Busy
    BY <1>n, <2>1, <2>3
  <2> QED BY <2>2, <2>3
<1>15. ~(DownloadFails \/ StepFails \/ TimesOut \/ ConnectionLost \/ ScriptResent)
  <2>1. ~op'.faulted
    BY DEF Smooth
  <2>2. ASSUME StepFails \/ TimesOut PROVE FALSE
    <3>1. Busy
      BY <1>t, <2>2 DEF StepFails, TimesOut, ClientInv
    <3> QED BY <1>t, <2>1, <2>2, <3>1, FailDoes DEF StepFails, TimesOut
  <2>3. ASSUME ConnectionLost PROVE FALSE
    BY <1>t, <2>1, <2>3, UnansweredDoes DEF ConnectionLost, ClientInv
  <2>4. ASSUME ScriptResent PROVE FALSE
    <3> DEFINE p == Script(op)
    <3>1. op' = [op EXCEPT !.process = p, !.faulted = TRUE, !.alone = FALSE]
      BY <2>4 DEF ScriptResent
    <3> HIDE DEF p
    <3>2. Changed(op, op', p, op.version, TRUE, op.lost, FALSE, op.skipped)
      BY <1>t, <3>1, Except
    <3> QED BY <2>1, <3>2 DEF Changed
  <2>5. ASSUME DownloadFails PROVE FALSE
    <3>1. Busy
      BY <1>t, <2>5, DownloadRuns DEF DownloadFails
    <3>2. CASE At("download")
      <4>1. op' = [op EXCEPT !.process = <<>>, !.faulted = TRUE]
        BY <2>5, <3>2 DEF DownloadFails
      <4>2. Changed(op, op', <<>>, op.version, TRUE, op.lost, op.alone, op.skipped)
        BY <1>t, <4>1, Except
      <4> QED BY <2>1, <4>2 DEF Changed
    <3>3. CASE ~At("download")
      BY <1>t, <2>1, <2>5, <3>1, <3>3, FailDoes DEF DownloadFails
    <3> QED BY <3>2, <3>3
  <2> QED BY <2>2, <2>3, <2>4, <2>5
<1>16. CASE PowerOff \/ PowerOn
  <2>1. ~(PowerOff /\ Waiting)
    <3>1. ASSUME PowerOff, Waiting PROVE FALSE
      BY <1>t, <3>1, UnansweredDoes DEF PowerOff, ClientInv, Smooth
    <3> QED BY <3>1
  <2>2. op' = [op EXCEPT !.faulted = @ \/ Busy]
    BY <1>16, <2>1 DEF PowerOff, PowerOn
  <2>3. /\ op'.todo = op.todo /\ op'.process = op.process /\ op'.answer = op.answer
        /\ op'.alone = op.alone /\ (op'.faulted <=> op.faulted \/ Busy)
    BY <1>t, <2>2, FaultNoted
  <2>4. ~op'.faulted /\ op'.alone
    BY DEF Smooth
  <2>5. ~Busy /\ Smooth
    BY <2>3, <2>4 DEF Smooth
  <2>6. ~Waiting /\ op.answer # "error"
    BY <1>t, <2>5 DEF ClientInv, SmoothInv, Easy
  <2>7. ~Busy' /\ ~Waiting' /\ op'.answer # "error"
    BY <2>3, <2>5, <2>6 DEF Busy, Waiting
  <2> QED BY <2>7, EasyIdle
<1> QED
  BY <1>1, <1>2, <1>3, <1>4, <1>5, <1>6, <1>7, <1>8, <1>9, <1>10, <1>11, <1>12, <1>13, <1>14,
     <1>15, <1>16 DEF Next

\* An operation that nothing ran beside and that no fault befell is not answered with
\* an error, whatever an earlier one that failed or was cut has left.
THEOREM RerunSucceedsHolds == Spec => []RerunSucceeds
<1>1. Init => OrderlyInv /\ SmoothInv
  <2> SUFFICES ASSUME Init PROVE OrderlyInv /\ SmoothInv
    OBVIOUS
  <2>1. OrderlyInv
    BY OrderlyInit
  <2>2. op = Idle
    BY DEF Init
  <2>3. ~Busy /\ ~Waiting /\ op.answer = "none"
    BY <2>2, IdleFacts
  <2> QED BY <2>1, <2>3 DEF SmoothInv, Easy
<1>2. OrderlyInv /\ SmoothInv /\ [Next]_vars => OrderlyInv' /\ SmoothInv'
  BY OrderlyNext, SmoothNext
<1>3. SmoothInv => RerunSucceeds
  BY DEF SmoothInv, Smooth, Easy, RerunSucceeds
<1> QED BY <1>1, <1>2, <1>3, PTL DEF Spec
=============================================================================
