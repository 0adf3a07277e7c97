------------------------- MODULE HostSetupInvariant -------------------------
(***************************************************************************)
(* What is true of HostSetup at every moment, strong enough to be kept by  *)
(* every step: the inductive invariants that HostSetupProofs proves.       *)
(* Basic holds of every behaviour. Orderly is what an operation keeps that *)
(* no other one runs beside, with whatever faults; Easy what it keeps if   *)
(* no fault befell it either. From them follow the properties of           *)
(* HostSetup: that done is done, that the passwords agree, and that a      *)
(* rerun succeeds.                                                         *)
(***************************************************************************)
EXTENDS HostSetup

-----------------------------------------------------------------------------
\* Types.

Values == BOOLEAN \cup Nat \cup {"alpine", "ubuntu", Absent}
Simples ==
    [do : {"put"}, item : Items, value : Values]
        \cup [do : {"copy"}, from : Items, item : Items]
        \cup [do : {"create"}, item : Items]
Effects ==
    Simples
        \cup [do : {"require"}, item : Items]
        \cup [do : {"unless"}, item : Items, then : Seq(Simples)]
        \cup [do : {"branch"}, of : {"crds", "operators", "deployments", "swap"}]
        \cup [do : {"branch"}, of : {"sync", "world"}, world : Worlds]

Shaped(o) ==
    o = [request |-> o.request, todo |-> o.todo, process |-> o.process, version |-> o.version,
         answer |-> o.answer, faulted |-> o.faulted, lost |-> o.lost, alone |-> o.alone,
         skipped |-> o.skipped, since |-> o.since]

OpTyped(o) ==
    /\ Shaped(o)
    /\ o.process \in Seq(Effects) \cup {Absent}
    /\ o.version \in Values
    /\ o.faulted \in BOOLEAN /\ o.lost \in BOOLEAN /\ o.alone \in BOOLEAN
    /\ o.skipped \in BOOLEAN
    /\ o.request.kind # "none" => o.request \in Requests
    /\ o.request.kind = "none" => o.todo = <<>>
GuestTyped(g) == g \in [Items -> Values] /\ g[<<"release">>] \in Nat

Typed ==
    /\ GuestTyped(guest)
    /\ vm \in Machines \cup {Absent}
    /\ begun \in Nat /\ generated \in Nat /\ faults \in Nat
    /\ OpTyped(op)
    /\ orphans \subseteq Seq(Effects) \ {<<>>}

-----------------------------------------------------------------------------
\* What an effect does to the guest.

IsSimple(e) == e.do \in {"put", "copy", "create"}

Writes(e) ==
    CASE IsSimple(e) -> {e.item}
      [] e.do = "unless" -> {t.item : t \in Range(e.then)}
      [] e.do = "branch" ->
            (CASE e.of = "crds" -> {<<"crds">>}
               [] e.of = "operators" ->
                    {<<"operator_images">>} \cup {<<"operator", o>> : o \in Range(Operators)}
               [] e.of = "deployments" -> {<<"operator", o>> : o \in Range(Operators)}
               [] e.of = "swap" -> {<<"swap">>}
               [] e.of = "sync" -> {<<"database", e.world>>}
               [] e.of = "world" ->
                    {<<i, e.world>> : i \in {"manifest", "namespace", "secrets", "world", "title"}})
      [] OTHER -> {}

\* What is there once it has run.
Makes(e) ==
    CASE e.do = "put" -> {e.item} \ {<<"legacy">>}
      [] e.do = "copy" -> {e.item, e.from}
      [] e.do \in {"create", "require", "unless"} -> {e.item}
      [] e.do = "branch" ->
            (CASE e.of = "deployments" -> {<<"operator", o>> : o \in Range(Operators)}
               [] e.of = "world" ->
                    {<<i, e.world>> : i \in {"namespace", "secrets", "world", "title"}}
               [] OTHER -> {})

\* What comes before it in every script.
Before(item) ==
    CASE item[1] = "world" -> {<<"namespace", item[2]>>, <<"secrets", item[2]>>}
      [] item[1] = "role_binding" -> {<<"role", item[2]>>}
      [] OTHER -> {}

Needs(need, e) ==
    (CASE IsSimple(e) -> Before(e.item)
       [] e.do = "branch" /\ e.of = "deployments" -> {<<"payload">>}
       [] OTHER -> {})
    \cup
    (IF need # "all" THEN {} ELSE
     CASE e.do = "require" -> {e.item}
       [] e.do = "copy" -> {e.from}
       [] e.do = "branch" /\ e.of = "operators" -> {<<"operator", o>> : o \in Range(Operators)}
       [] e.do = "branch" /\ e.of = "world" ->
            {<<"payload">>} \cup {<<"scaled", o>> : o \in Range(Operators)}
       [] OTHER -> {})

ReadyAfter(need, g, made, p) ==
    \A k \in 1 .. Len(p) : \A x \in Needs(need, p[k]) :
        There(g, x) \/ x \in made \/ \E j \in 1 .. k - 1 : x \in Makes(p[j])
Ready(need, g, p) == ReadyAfter(need, g, {}, p)

Fixed == {"os", "release", "pod", "legacy"}
Proper(e) ==
    \/ e = Put(<<"legacy">>, Absent)
    \/ /\ \A x \in Writes(e) : x[1] \notin Fixed
       /\ e.do = "put" => e.value # Absent
       /\ e.do = "unless" =>
            /\ e.then # <<>> /\ Len(e.then) <= 2
            /\ e.item = e.then[1].item /\ Before(e.item) = {}
            /\ \A k \in 1 .. Len(e.then) :
                /\ e.then[k].do \in {"put", "create"} /\ e.then[k].item[1] # "database"
                /\ e.then[k].do = "put" => e.then[k].value # Absent
                /\ k = 2 => /\ e.then[1].do = "create"
                            /\ Before(e.then[2].item) \subseteq {e.item} /\ e.then[2].item # e.item
                            /\ e.then[2].do = "create" => Before(e.then[2].item) = {e.item}

Made(p) == UNION {Makes(e) : e \in Range(p)}
Written(p) == UNION {Writes(e) : e \in Range(p)}

Sound(g, p) == (\A e \in Range(p) : Proper(e)) /\ Ready("order", g, p)

Fresh(g, p) ==
    \A k \in 1 .. Len(p) :
        p[k].do = "create" =>
            /\ k <= 2
            /\ ~There(g, p[k].item) /\ p[k].item[1] # "database"
            /\ k = 2 => p[1].do = "create" /\ p[1].item # p[2].item

-----------------------------------------------------------------------------
\* The guest, whatever ran on it.

WorldsSound(g) ==
    \A w \in Worlds : There(g, <<"world", w>>) =>
        There(g, <<"namespace", w>>) /\ There(g, <<"secrets", w>>)
RightsSound(g) ==
    \A o \in Range(Operators) : There(g, <<"role_binding", o>>) => There(g, <<"role", o>>)

DatabasesSound(g) ==
    \A w \in Worlds : There(g, <<"pod", w>>) => There(g, <<"world", w>>)
GuestSound(g) ==
    WorldsSound(g) /\ RightsSound(g) /\ DatabasesSound(g) /\ ~There(g, <<"legacy">>)

Base ==
    {<<"k3s">>, <<"crds">>, <<"cert-manager">>} \cup {<<"operator", o>> : o \in Range(Operators)}

Running == orphans \cup (IF Waiting THEN {op.process} ELSE {})

GuestInv ==
    /\ GuestSound(guest)
    /\ ~OnUbuntu /\ vm # Absent => \A x \in Base : There(guest, x)
    /\ \A p \in Running : Sound(guest, p)

StepNames ==
    {"readiness", "existing", "clear", "compare", "import", "switch", "disk", "boot", "memory",
     "processors", "start", "address", "player_settings", "root_disk", "download", "start_k3s",
     "core_images", "scale_core", "update_crds", "operator_images", "scale_operators", "helper",
     "create_world", "world_images", "version", "sync", "patch_images", "defaults",
     "prepare_host", "install_k3s", "payload", "kubernetes", "scheduler", "ubuntu_swap"}

Rank(step) ==
    CASE step = "prepare_host" -> 1
      [] step = "install_k3s" -> 2
      [] step = "payload" -> 3
      [] step = "kubernetes" -> 4
      [] step = "readiness" -> 5
      [] step = "existing" -> 6
      [] step = "clear" -> 7
      [] step = "compare" -> 8
      [] step = "import" -> 9
      [] step = "switch" -> 10
      [] step = "disk" -> 11
      [] step = "boot" -> 12
      [] step = "memory" -> 13
      [] step = "processors" -> 14
      [] step = "start" -> 15
      [] step = "address" -> 16
      [] step = "player_settings" -> 17
      [] step = "root_disk" -> 18
      [] step = "download" -> 19
      [] step = "start_k3s" -> 20
      [] step = "core_images" -> 21
      [] step = "scale_core" -> 22
      [] step = "update_crds" -> 23
      [] step = "operator_images" -> 24
      [] step = "scale_operators" -> 25
      [] step = "helper" -> 26
      [] step = "create_world" -> 27
      [] step = "world_images" -> 28
      [] step = "version" -> 29
      [] step = "sync" -> 30
      [] step = "patch_images" -> 31
      [] step = "defaults" -> 32
      [] step = "scheduler" -> 33
      [] step = "ubuntu_swap" -> 34

Ordered(s) == \A i, j \in 1 .. Len(s) : i < j => Rank(s[i]) < Rank(s[j])

Kind == op.request.kind
All == Range(Steps(op.request))
Has(s) == Kind # "none" /\ s \in All
Past(s) == Has(s) /\ (Busy => Rank(s) < Rank(Head(op.todo)))

TodoInv ==
    /\ op.todo \in Seq(StepNames)
    /\ Busy =>
        /\ Range(op.todo) \subseteq All
        /\ Ordered(op.todo)
        /\ \A s \in All : s \in Range(op.todo) \/ Rank(s) < Rank(Head(op.todo))

ClientInv ==
    /\ TodoInv
    /\ Waiting => Busy /\ Head(op.todo) \in ScriptSteps
    /\ op.lost => op.faulted
    /\ Busy \/ Kind = "none" => op.answer = "none"
    /\ Kind = "ubuntu" => OnUbuntu
    /\ Kind \in {"hyperv", "guest"} => ~OnUbuntu
    /\ Reachable \/ (orphans = {} /\ ~Waiting)
    /\ Busy /\ Kind = "hyperv" /\ 6 < Rank(Head(op.todo)) /\ Rank(Head(op.todo)) <= 9 => vm = Absent
    /\ Busy /\ Kind = "hyperv" /\ 9 < Rank(Head(op.todo)) => vm # Absent
    /\ Busy /\ Past("version") => op.version # Absent

-----------------------------------------------------------------------------
\* An operation that nothing ran beside.

Alone == op.alone /\ ~op.lost /\ (Busy \/ op.answer = "ok")
Runs(s) == At(s) /\ Waiting

Promised(s, w) ==
    CASE s = "root_disk" -> {<<"disk">>}
      [] s = "download" -> {<<"payload">>}
      [] s = "start_k3s" -> {<<"running">>, <<"enabled">>}
      [] s = "core_images" -> {<<"payload">>, <<"core_images">>}
      [] s = "scale_core" -> {<<"cert-manager">>, <<"core">>}
      [] s = "scale_operators" -> {<<"scaled", o>> : o \in Range(Operators)}
      [] s = "helper" -> {<<"helper">>}
      [] s = "create_world" -> {<<i, w>> : i \in {"namespace", "secrets", "world", "title"}}
      [] s = "world_images" -> {<<"world_images">>}
      [] s = "patch_images" -> {<<"revision", w>>}
      [] s = "defaults" -> {<<"settings", w>>}
      [] s = "prepare_host" -> {<<"user">>}
      [] s = "install_k3s" -> {<<"running">>, <<"enabled">>}
      [] s = "payload" -> {<<"payload">>}
      [] s = "kubernetes" -> {<<"payload">>, <<"core_images">>, <<"cert-manager">>, <<"core">>}
            \cup {<<"operator", o>> : o \in Range(Operators)}
            \cup {<<"scaled", o>> : o \in Range(Operators)}
      [] s = "ubuntu_swap" -> {<<"swap_file">>, <<"fstab">>, <<"kubelet">>}
      [] OTHER -> {}

Held(x) ==
    \/ There(guest, x)
    \/ x = <<"payload">> /\ op.faulted
    \/ x = <<"running">> /\ (op.faulted \/ ~Busy)

PromisesKept ==
    \A s \in StepNames :
        /\ Past(s) => \A x \in Promised(s, op.request.world) : Held(x)
        /\ Runs(s) => \A x \in Promised(s, op.request.world) : Held(x) \/ x \in Made(op.process)

\* Items whose value matters, and the step that may write each.
Watched(w) ==
    {<<"payload">>, <<"core_images">>, <<"operator", "battlegroup">>, <<"crds">>,
     <<"world_images">>, <<"world", w>>, <<"database", w>>, <<"revision", w>>}
MayWrite(s, w) ==
    CASE s \in {"download", "payload"} -> {<<"payload">>}
      [] s = "core_images" -> {<<"core_images">>}
      [] s = "update_crds" -> {<<"crds">>}
      [] s = "operator_images" -> {<<"operator", "battlegroup">>}
      [] s = "kubernetes" -> {<<"core_images">>, <<"crds">>, <<"operator", "battlegroup">>}
      [] s = "create_world" -> {<<"world", w>>}
      [] s = "world_images" -> {<<"world_images">>}
      [] s = "sync" -> {<<"database", w>>}
      [] s = "patch_images" -> {<<"revision", w>>}
      [] OTHER -> {}
WritesItsOwn ==
    \A s \in StepNames :
        LET w == op.request.world
        IN Runs(s) => Written(op.process) \cap Watched(w) \subseteq MayWrite(s, w)

\* Steps that bring an item to the version of the payload.
Aligned(s) ==
    CASE s = "core_images" -> {<<"core_images">>}
      [] s = "update_crds" -> {<<"crds">>}
      [] s = "operator_images" -> {<<"operator", "battlegroup">>}
      [] s = "kubernetes" -> {<<"core_images">>, <<"crds">>, <<"operator", "battlegroup">>}
      [] s = "world_images" -> {<<"world_images">>}
      [] OTHER -> {}
Carries(e, x) ==
    \/ e.do = "copy" /\ e.from = <<"payload">> /\ e.item = x
    \/ e.do = "branch" /\ e.of = "crds" /\ x = <<"crds">>
    \/ e.do = "branch" /\ e.of \in {"operators", "deployments"} /\ x = <<"operator", "battlegroup">>
Brings(g, e, x) ==
    \/ Carries(e, x)
    \/ e.do = "put" /\ e.item = x /\ e.value = g[<<"payload">>]
Matches(g, x) == g[x] = g[<<"payload">>]
\* A script that neither updates the CRDs nor patches the operators.
Deploys(p) == \A e \in Range(p) : ~(e.do = "branch" /\ e.of \in {"crds", "operators"})

VersionsMatch ==
    \A s \in StepNames : \A x \in Aligned(s) :
        /\ Past(s) => Matches(guest, x)
        /\ Runs(s) =>
            /\ Matches(guest, x) \/ \E e \in Range(op.process) : Brings(guest, e, x)
            /\ \A e \in Range(op.process) : x \in Writes(e) => Brings(guest, e, x)
            /\ There(guest, <<"payload">>) \/ <<"payload">> \in Made(op.process)
            /\ s = "kubernetes" => Deploys(op.process)

\* at the point that the payload was used, it is there
PayloadThere ==
    /\ Past("core_images") \/ Past("kubernetes") => There(guest, <<"payload">>)
    /\ Past("version") => op.version = guest[<<"payload">>]
    /\ Past("patch_images") => guest[<<"revision", op.request.world>>] = op.version
    /\ Runs("patch_images") =>
        LET x == <<"revision", op.request.world>>
        IN /\ guest[x] = op.version \/ x \in Written(op.process)
           /\ \A e \in Range(op.process) : x \in Writes(e) => e.do = "put" /\ e.value = op.version

Agree(g, w) ==
    \/ ~There(g, <<"pod", w>>) /\ ~There(g, <<"database", w>>)
    \/ g[<<"database", w>>] = g[<<"world", w>>]
\* What is left of the script that syncs the passwords.
SyncForm(g, w, p) ==
    \/ p \in {SyncScript(w), <<Copy(<<"world", w>>, <<"database", w>>)>>}
    \/ p = <<>> /\ Agree(g, w)
Synced ==
    LET w == op.request.world
    IN ~op.skipped =>
        /\ Past("sync") => Agree(guest, w)
        /\ Runs("sync") => SyncForm(guest, w, op.process)

MachineSet ==
    /\ Past("import") /\ Kind = "hyperv" => vm # Absent /\ vm.here /\ folder = vm.files
    /\ \A s \in Settings : Past(s) => s \in vm.set

\* All that is known of an operation that nothing ran beside.
Orderly ==
    /\ orphans = {}
    /\ PromisesKept
    /\ WritesItsOwn
    /\ VersionsMatch
    /\ PayloadThere
    /\ Synced
    /\ MachineSet

-----------------------------------------------------------------------------
\* An operation that no fault befell either: it has not failed, no effect of
\* its script will, and the machine is on when its guest is needed.

Smooth == op.alone /\ ~op.faulted

Easy ==
    /\ op.answer # "error"
    /\ Waiting => Ready("all", guest, op.process) /\ Fresh(guest, op.process)
    /\ Busy /\ Kind = "guest" => Reachable
    /\ Busy /\ Past("start") => Reachable
    /\ Busy /\ Past("import") /\ ~Past("start") => ~vm.on

-----------------------------------------------------------------------------
\* The invariants.

Basic == Typed /\ GuestInv /\ ClientInv
OrderlyInv == Basic /\ (Alone => Orderly)
SmoothInv == Smooth => Easy
=============================================================================
