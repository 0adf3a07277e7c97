---------------------------- MODULE GuestScripts ----------------------------
(***************************************************************************)
(* The scripts that set up a guest, the vendor's virtual machine or a host *)
(* with Ubuntu: what each of them leaves on the guest, effect by effect,   *)
(* in the order of its text.  The guest is a function from what a script   *)
(* can leave there (a package, a deployment, a secret, a file) to its      *)
(* version or password, or Absent.  A script ends with its first effect    *)
(* that fails (set -eu).  Abstracted: retries of a single command, the     *)
(* names of images and packages, waits for pods to become ready.           *)
(***************************************************************************)
EXTENDS Naturals, SequencesExt

CONSTANTS
    Worlds,     \* unique names that plans generate
    Absent      \* what is not there

Operators == <<"battlegroup", "database", "server", "utilities">>
Rights == {"secret", "cluster_role_binding", "role", "role_binding"}
OperatorItems == {"operator", "scaled"} \cup Rights
WorldItems == {"manifest", "namespace", "secrets", "world", "title",
               "database", "pod", "revision", "settings", "scheduler"}

HostItems == {"os", "release", "payload", "legacy", "user", "steamcmd", "disk",
              "k3s", "running", "enabled", "core_images", "cert-manager", "core",
              "operator_images", "crds", "helper", "world_images", "address",
              "swap_file", "formatted", "fstab", "swap", "kubelet"}

Items ==
    {<<i>> : i \in HostItems}
        \cup {<<i, o>> : i \in OperatorItems, o \in Range(Operators)}
        \cup {<<i, w>> : i \in WorldItems, w \in Worlds}

Nothing == [i \in Items |-> Absent]
NoGuest == [Nothing EXCEPT ![<<"release">>] = 2]   \* what Steam has is not on the guest

\* The vendor's image: k3s is installed, the operators are deployed with their
\* rights at the version of the image, and scaled down.
VendorGuest ==
    [i \in Items |->
        CASE i = <<"os">> -> "alpine"
          [] i = <<"k3s">> -> TRUE
          [] i \in {<<"crds">>, <<"cert-manager">>} \/ i[1] = "operator" \/ i[1] \in Rights -> 1
          [] i = <<"release">> -> 2
          [] OTHER -> Absent]

UbuntuGuest == [NoGuest EXCEPT ![<<"os">>] = "ubuntu"]

-----------------------------------------------------------------------------
\* Effects.

Put(item, value) == [do |-> "put", item |-> item, value |-> value]
Copy(from, item) == [do |-> "copy", from |-> from, item |-> item]
Create(item) == [do |-> "create", item |-> item]
Require(item) == [do |-> "require", item |-> item]
\* if ! test; then script; fi
Unless(item, script) == [do |-> "unless", item |-> item, then |-> script]
Branch(of) == [do |-> "branch", of |-> of]
BranchFor(of, world) == [do |-> "branch", of |-> of, world |-> world]

ForOperators(Script(_)) ==
    Script(Operators[1]) \o Script(Operators[2]) \o Script(Operators[3]) \o Script(Operators[4])

There(g, item) == g[item] # Absent

-----------------------------------------------------------------------------
\* The vendor's guest.

DiskScript == <<Put(<<"disk">>, TRUE)>>
DownloadScript == <<Copy(<<"release">>, <<"payload">>)>>
StartK3sScript == <<Require(<<"k3s">>), Put(<<"running">>, TRUE), Put(<<"enabled">>, TRUE)>>
ImportCoreImagesScript == <<Copy(<<"payload">>, <<"core_images">>)>>
ScaleCoreScript == <<Require(<<"running">>), Require(<<"cert-manager">>), Put(<<"core">>, TRUE)>>

OperatorVersionsCompared(g) ==    \* The mutant reads the version of the operator that runs.
    There(g, <<"payload">>) /\ g[<<"operator", "battlegroup">>] # g[<<"payload">>]
\* operator_versions_differ asks for the version that runs through kubectl_retry,
\* which prints what it is answered to standard error: the version is read as
\* empty, and differs from that of any payload that is there.
OperatorVersionsDiffer(g) == There(g, <<"payload">>)

OperatorCrds(g) ==
    IF OperatorVersionsDiffer(g) THEN <<Put(<<"crds">>, g[<<"payload">>])>> ELSE <<>>
SetImage(g, o) ==
    <<Require(<<"operator", o>>), Put(<<"operator", o>>, g[<<"payload">>])>>
OperatorImages(g) ==
    LET Set(o) == SetImage(g, o)
    IN IF OperatorVersionsDiffer(g)
       THEN <<Put(<<"operator_images">>, g[<<"payload">>])>> \o ForOperators(Set)
       ELSE <<>>

UpdateOperatorCrdsScript == <<Require(<<"running">>), Branch("crds")>>
PatchOperatorImagesScript == <<Require(<<"running">>), Branch("operators")>>

ScaleOperator(o) == <<Require(<<"operator", o>>), Put(<<"scaled", o>>, TRUE)>>
ScaleOperatorScript == <<Require(<<"running">>)>> \o ForOperators(ScaleOperator)

InstallHelperScript == <<Require(<<"payload">>), Put(<<"helper">>, TRUE)>>

\* create_world_script: a world that is there gets its title; otherwise its
\* manifest is written with new passwords, and applied once the operators are
\* ready.
OperatorReady(o) == <<Require(<<"scaled", o>>)>>
NewWorld(w, password) ==
    <<Require(<<"payload">>), Put(<<"manifest", w>>, password)>>
        \o ForOperators(OperatorReady)
        \o <<Unless(<<"namespace", w>>, <<Create(<<"namespace", w>>)>>),
             Put(<<"secrets", w>>, TRUE),
             Copy(<<"manifest", w>>, <<"world", w>>),
             Put(<<"title", w>>, TRUE)>>
WorldEffects(g, w, password) ==
    IF There(g, <<"world", w>>) THEN <<Put(<<"title", w>>, TRUE)>> ELSE NewWorld(w, password)

CreateWorldScript(w) == <<Require(<<"running">>), BranchFor("world", w)>>
ImportBattlegroupImagesScript == <<Copy(<<"payload">>, <<"world_images">>)>>

\* The passwords of the deployment are set again in a database that runs.
SyncEffectsForNewRoles(g, w) ==     \* The mutant keeps the password of a role that exists.
    IF There(g, <<"pod", w>>) /\ ~There(g, <<"database", w>>)
    THEN <<Copy(<<"world", w>>, <<"database", w>>)>>
    ELSE <<>>
SyncEffects(g, w) ==
    IF There(g, <<"pod", w>>) THEN <<Copy(<<"world", w>>, <<"database", w>>)>> ELSE <<>>
SyncScript(w) == <<BranchFor("sync", w)>>
\* "No running database pod found ...; skipping": the database there is keeps its passwords.
Skips(g, e) ==
    /\ e.do = "branch" /\ e.of = "sync"
    /\ ~There(g, <<"pod", e.world>>) /\ There(g, <<"database", e.world>>)

\* Images start with seabass-server are replaced: there are some in each world.
PatchImages(w, version) == <<Require(<<"world", w>>), Put(<<"revision", w>>, version)>>
DefaultSettingsScript(w) ==
    <<Require(<<"payload">>), Require(<<"world", w>>), Put(<<"settings", w>>, TRUE)>>

-----------------------------------------------------------------------------
\* A host with Ubuntu.

InstallSteamCmd == Unless(<<"steamcmd">>, <<Put(<<"steamcmd">>, TRUE)>>)
PrepareHostScript ==
    <<Unless(<<"user">>, <<Create(<<"user">>)>>), InstallSteamCmd>>
K3sInstallScript ==
    <<Unless(<<"k3s">>, <<Put(<<"k3s">>, TRUE)>>),
      Put(<<"enabled">>, TRUE), Put(<<"running">>, TRUE)>>

\* A payload of the playtest makes place for that of the release.
InstallPayloadScript ==
    <<Require(<<"user">>), InstallSteamCmd, Put(<<"legacy">>, Absent),
      Copy(<<"release">>, <<"payload">>)>>

UbuntuSwapScript ==
    <<Unless(<<"swap_file">>, <<Create(<<"swap_file">>), Put(<<"formatted">>, TRUE)>>),
      Unless(<<"fstab">>, <<Create(<<"fstab">>)>>),
      Branch("swap"),
      Unless(<<"kubelet">>, <<Create(<<"kubelet">>)>>)>>
\* swapon of a file that is not formatted fails, which is ignored.
SwapOn(g) == IF There(g, <<"formatted">>) THEN <<Put(<<"swap">>, TRUE)>> ELSE <<>>

\* The mutant creates the role without looking for it.
OperatorRightsCreated(o) ==
    <<Unless(<<"secret", o>>, <<Create(<<"secret", o>>)>>),
      Unless(<<"cluster_role_binding", o>>, <<Create(<<"cluster_role_binding", o>>)>>),
      Create(<<"role", o>>), Create(<<"role_binding", o>>)>>
\* The cut between role and role binding is not mended: the role is there.
OperatorRights(o) ==
    <<Unless(<<"secret", o>>, <<Create(<<"secret", o>>)>>),
      Unless(<<"cluster_role_binding", o>>, <<Create(<<"cluster_role_binding", o>>)>>),
      Unless(<<"role", o>>, <<Create(<<"role", o>>), Create(<<"role_binding", o>>)>>)>>
OperatorDeployments(g) ==
    LET Deploy(o) == <<Put(<<"operator", o>>, g[<<"payload">>])>>
    IN ForOperators(Deploy)
BootstrapKubernetesScript ==
    <<Require(<<"payload">>), Require(<<"running">>),
      Copy(<<"payload">>, <<"core_images">>),
      Unless(<<"cert-manager">>, <<Put(<<"cert-manager">>, 1)>>),
      Put(<<"core">>, TRUE),
      Copy(<<"payload">>, <<"operator_images">>),
      Copy(<<"payload">>, <<"crds">>),
      Branch("deployments")>>
        \o ForOperators(OperatorRights)
        \o ForOperators(ScaleOperator)

PlayerSettingsScript == <<Put(<<"address">>, TRUE)>>
SchedulerScript(w) == <<Require(<<"world", w>>), Put(<<"scheduler", w>>, TRUE)>>

-----------------------------------------------------------------------------
\* What an effect does, and what is left to do after it.

Fails(g, e) ==
    CASE e.do = "require" -> ~There(g, e.item)
      [] e.do = "copy" -> ~There(g, e.from)
      [] e.do = "create" -> There(g, e.item)
      [] OTHER -> FALSE

Effect(g, e) ==
    CASE e.do = "put" -> [g EXCEPT ![e.item] = e.value]
      [] e.do = "copy" -> [g EXCEPT ![e.item] = g[e.from]]
      [] e.do = "create" -> [g EXCEPT ![e.item] = TRUE]
      [] OTHER -> g

Expanded(g, e, password) ==
    CASE e.do = "unless" -> IF There(g, e.item) THEN <<>> ELSE e.then
      [] e.do = "branch" ->
            (CASE e.of = "crds" -> OperatorCrds(g)
               [] e.of = "operators" -> OperatorImages(g)
               [] e.of = "deployments" -> OperatorDeployments(g)
               [] e.of = "swap" -> SwapOn(g)
               [] e.of = "sync" -> SyncEffects(g, e.world)
               [] e.of = "world" -> WorldEffects(g, e.world, password))
      [] OTHER -> <<>>
=============================================================================
