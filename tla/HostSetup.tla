----------------------------- MODULE HostSetup -----------------------------
(***************************************************************************)
(* Setting up a server: the import of the vendor's virtual machine into    *)
(* Hyper-V and the bootstrap of its guest in one operation, the bootstrap  *)
(* alone, or the phases for a host with Ubuntu one by one.  Nothing is     *)
(* rolled back: an operation that failed is begun again and meets what the *)
(* earlier ones left, and the scripts of lost connections, which may still *)
(* run.                                                                    *)
(***************************************************************************)
EXTENDS GuestScripts

CONSTANTS
    Requests,   \* what may be asked for
    Newest,     \* bound: the last version that is released
    MaxOps,     \* bound: operations begun
    MaxFaults   \* bound: failed steps, lost connections, power cuts

ASSUME SetupBounds == Newest \in Nat /\ MaxOps \in Nat /\ MaxFaults \in Nat

VARIABLES
    vm,        \* the virtual machine of the requested name, or Absent
    folder,    \* the files in the destination: the import they are from, or Absent
    guest,     \* the guest, see GuestScripts
    op,        \* the operation of the client
    orphans,   \* scripts whose connection was lost and that still run
    begun,     \* operations begun
    generated, \* passwords generated
    faults     \* faults so far

vars == <<vm, folder, guest, op, orphans, begun, generated, faults>>
host == <<vm, folder>>

Settings == {"switch", "disk", "boot", "memory", "processors"}
Machines == [on : BOOLEAN, set : SUBSET Settings, files : Nat, here : BOOLEAN]

ASSUME AbsentAssumption ==
    Absent \notin BOOLEAN \cup Nat \cup {"alpine", "ubuntu"} \cup Machines

-----------------------------------------------------------------------------
\* The steps of an operation.

HostSteps == <<"readiness", "existing", "clear", "compare", "import">>
SettingSteps == <<"switch", "disk", "boot", "memory", "processors">>
GuestSteps == <<"root_disk", "download", "start_k3s", "core_images", "scale_core", "update_crds",
                "operator_images", "scale_operators", "helper", "create_world",
                "world_images", "version", "sync", "patch_images", "defaults">>
HyperVSteps ==
    HostSteps \o SettingSteps \o <<"start", "address", "player_settings">> \o GuestSteps
UbuntuSteps ==
    <<"prepare_host", "install_k3s", "payload", "kubernetes", "player_settings", "create_world",
      "world_images", "version", "sync", "patch_images", "defaults", "scheduler">>
SwapSteps == <<"ubuntu_swap">>

ASSUME RequestsAssumption ==
    \A r \in Requests :
        /\ r.kind \in {"hyperv", "guest", "ubuntu"}
        /\ r.world \in Worlds
        /\ r.kind = "hyperv" => r.replace \in BOOLEAN /\ r.clear \in BOOLEAN
        /\ r.kind = "ubuntu" => r.steps \in {UbuntuSteps, SwapSteps}

Steps(r) ==
    CASE r.kind = "hyperv" -> HyperVSteps
      [] r.kind = "guest" -> GuestSteps
      [] OTHER -> r.steps

Script(o) ==
    LET w == o.request.world
        Of(step) ==
            CASE step = "root_disk" -> DiskScript
              [] step = "download" -> DownloadScript
              [] step = "start_k3s" -> StartK3sScript
              [] step = "core_images" -> ImportCoreImagesScript
              [] step = "scale_core" -> ScaleCoreScript
              [] step = "update_crds" -> UpdateOperatorCrdsScript
              [] step = "operator_images" -> PatchOperatorImagesScript
              [] step = "scale_operators" -> ScaleOperatorScript
              [] step = "helper" -> InstallHelperScript
              [] step = "create_world" -> CreateWorldScript(w)
              [] step = "world_images" -> ImportBattlegroupImagesScript
              [] step = "sync" -> SyncScript(w)
              [] step = "patch_images" -> PatchImages(w, o.version)
              [] step = "defaults" -> DefaultSettingsScript(w)
              [] step = "player_settings" -> PlayerSettingsScript
              [] step = "prepare_host" -> PrepareHostScript
              [] step = "install_k3s" -> K3sInstallScript
              [] step = "payload" -> InstallPayloadScript
              [] step = "ubuntu_swap" -> UbuntuSwapScript
              [] step = "kubernetes" -> BootstrapKubernetesScript
              [] step = "scheduler" -> SchedulerScript(w)
    IN Of(Head(o.todo))

ScriptSteps ==
    (Range(GuestSteps) \ {"version"})
        \cup {"player_settings", "prepare_host", "install_k3s", "payload", "ubuntu_swap",
              "kubernetes", "scheduler"}

\* Their output is parsed: a connection that ends early has none.
ParsedSteps == {"create_world", "prepare_host", "payload", "ubuntu_swap"}

-----------------------------------------------------------------------------

Idle == [request |-> [kind |-> "none"], todo |-> <<>>, process |-> Absent, version |-> Absent,
         answer |-> "none", faulted |-> FALSE, lost |-> FALSE, alone |-> TRUE, skipped |-> FALSE,
         since |-> Absent]

\* The Hyper-V host with or without a machine of that name, whose files are in
\* the destination or not, and a host with Ubuntu.
Init ==
    /\ \/ /\ vm = Absent /\ folder \in {Absent, 0}
          /\ guest \in {NoGuest, UbuntuGuest}
       \/ /\ vm \in [on : BOOLEAN, set : {Settings}, files : {0}, here : BOOLEAN]
          /\ folder = (IF vm.here THEN 0 ELSE Absent)
          /\ guest = VendorGuest
    /\ op = Idle
    /\ orphans = {}
    /\ begun = 0
    /\ generated = 0
    /\ faults = 0

Busy == op.todo # <<>>
At(step) == Busy /\ Head(op.todo) = step
Waiting == op.process # Absent
OnUbuntu == guest[<<"os">>] = "ubuntu"
Reachable == OnUbuntu \/ (vm # Absent /\ vm.on)

\* A guest that is turned off, and one that boots.
Pods == {<<"pod", w>> : w \in Worlds}
Stopped(g) == [i \in Items |-> IF i \in Pods \cup {<<"running">>} THEN Absent ELSE g[i]]
Booted(g) == [g EXCEPT ![<<"running">>] = g[<<"enabled">>]]

\* preflight refuses what is not Ubuntu.
Begin(r) ==
    /\ ~Busy
    /\ begun < MaxOps
    /\ OnUbuntu = (r.kind = "ubuntu")
    /\ r.kind = "guest" => Reachable
    /\ begun' = begun + 1
    /\ op' = [Idle EXCEPT !.request = r, !.todo = Steps(r), !.alone = (orphans = {}),
                    !.since = guest[<<"release">>]]
    /\ UNCHANGED <<host, guest, orphans, generated, faults>>

Finish(o, answer) == [o EXCEPT !.todo = <<>>, !.process = Absent, !.answer = answer]
Proceed(o) ==
    IF Tail(o.todo) = <<>>
    THEN Finish(o, "ok")
    ELSE [o EXCEPT !.todo = Tail(@), !.process = Absent]

-----------------------------------------------------------------------------
\* import_and_prepare_vm: one command of PowerShell is one step.

Readiness ==
    /\ At("readiness")
    /\ op' = Proceed(op)
    /\ UNCHANGED <<host, guest, orphans, begun, generated, faults>>

\* get_vm; a machine of that name is stopped and its registration removed, if
\* that was asked for; its files stay.
Existing ==
    /\ At("existing")
    /\ IF vm = Absent
       THEN op' = Proceed(op) /\ UNCHANGED <<vm, guest, orphans>>
       ELSE IF ~op.request.replace
       THEN op' = Finish(op, "exists") /\ UNCHANGED <<vm, guest, orphans>>
       ELSE \/ /\ vm.on     \* stop_vm with -TurnOff
               /\ vm' = [vm EXCEPT !.on = FALSE]
               /\ guest' = Stopped(guest)
               /\ orphans' = {}
               /\ UNCHANGED op
            \/ /\ ~vm.on    \* remove_vm
               /\ vm' = Absent
               /\ guest' = [Nothing EXCEPT ![<<"release">>] = guest[<<"release">>]]
               /\ op' = Proceed(op)
               /\ UNCHANGED orphans
    /\ UNCHANGED <<folder, begun, generated, faults>>

\* destination_has_vm_artifacts, clear_destination_dir.
Clear ==
    /\ At("clear")
    /\ IF folder = Absent
       THEN op' = Proceed(op) /\ UNCHANGED folder
       ELSE IF op.request.clear
       THEN op' = Proceed(op) /\ folder' = Absent
       ELSE op' = Finish(op, "occupied") /\ UNCHANGED folder
    /\ UNCHANGED <<vm, guest, orphans, begun, generated, faults>>

\* Compare-VM; what there was is gone already.
Compare ==
    /\ At("compare")
    /\ \/ op' = Proceed(op)
       \/ op' = Finish(op, "incompatible")
    /\ UNCHANGED <<host, guest, orphans, begun, generated, faults>>

Import ==
    /\ At("import")
    /\ folder' = begun
    /\ vm' = [on |-> FALSE, set |-> {}, files |-> begun, here |-> TRUE]
    /\ guest' = [VendorGuest EXCEPT ![<<"release">>] = guest[<<"release">>]]
    /\ op' = Proceed(op)
    /\ UNCHANGED <<orphans, begun, generated, faults>>

\* ensure_external_switch and connect_network_adapter, and the settings of the
\* machine, some of which it takes only while it is off.
NeedsPowerOff(step) == step \in {"boot", "memory", "processors"}
Configure(step) ==
    /\ At(step)
    /\ IF vm = Absent \/ (NeedsPowerOff(step) /\ vm.on)
       THEN op' = Finish(op, "error") /\ UNCHANGED vm
       ELSE op' = Proceed(op) /\ vm' = [vm EXCEPT !.set = @ \cup {step}]
    /\ UNCHANGED <<folder, guest, orphans, begun, generated, faults>>

Start ==
    /\ At("start")
    /\ vm' = [vm EXCEPT !.on = TRUE]
    /\ guest' = Booted(guest)
    /\ op' = Proceed(op)
    /\ UNCHANGED <<folder, orphans, begun, generated, faults>>

\* wait_for_vm_ipv4 and wait_for_ssh, before and after a static address is set.
Address ==
    /\ At("address")
    /\ op' = IF Reachable THEN Proceed(op) ELSE Finish(op, "error")
    /\ UNCHANGED <<host, guest, orphans, begun, generated, faults>>

-----------------------------------------------------------------------------
\* Scripts on the guest.

Send ==
    /\ Busy /\ ~Waiting
    /\ Head(op.todo) \in ScriptSteps
    /\ op' = IF Reachable THEN [op EXCEPT !.process = Script(op)] ELSE Finish(op, "error")
    /\ UNCHANGED <<host, guest, orphans, begun, generated, faults>>

\* The first command of patch_battlegroup_images answers with the version.
ReadVersion ==
    /\ At("version")
    /\ op' = IF Reachable /\ There(guest, <<"payload">>)
             THEN Proceed([op EXCEPT !.version = guest[<<"payload">>]])
             ELSE Finish(op, "error")
    /\ UNCHANGED <<host, guest, orphans, begun, generated, faults>>

After(process) ==
    Expanded(guest, Head(process), generated + 1) \o Tail(process)
Perform(e) ==
    /\ guest' = Effect(guest, e)
    /\ generated' = IF e.do = "branch" /\ e.of = "world" THEN generated + 1 ELSE generated

Execute ==
    /\ Waiting /\ op.process # <<>>
    /\ LET e == Head(op.process)
       IN IF Fails(guest, e)
          THEN op' = Finish(op, "error") /\ UNCHANGED <<guest, generated>>
          ELSE /\ Perform(e)
               /\ op' = [op EXCEPT !.process = After(@), !.skipped = @ \/ Skips(guest, e)]
    /\ UNCHANGED <<host, orphans, begun, faults>>

Answered ==
    /\ Waiting /\ op.process = <<>>
    /\ op' = Proceed(op)
    /\ UNCHANGED <<host, guest, orphans, begun, generated, faults>>

\* A script whose connection was lost goes on, or ends with its closed pipes.
OrphanExecutes(o) ==
    /\ ~Fails(guest, Head(o))
    /\ Perform(Head(o))
    /\ orphans' = (orphans \ {o}) \cup ({After(o)} \ {<<>>})
    /\ UNCHANGED <<host, op, begun, faults>>
OrphanEnds(o) ==
    /\ orphans' = orphans \ {o}
    /\ UNCHANGED <<host, guest, op, begun, generated, faults>>

-----------------------------------------------------------------------------
\* The world around.

\* The operator starts the database of a world; its first start takes the
\* passwords of the deployment, later ones keep what it has.
DatabaseStarts(w) ==
    /\ There(guest, <<"world", w>>) /\ ~There(guest, <<"pod", w>>)
    /\ There(guest, <<"running">>)
    /\ guest' = [guest EXCEPT
            ![<<"pod", w>>] = TRUE,
            ![<<"database", w>>] = IF @ = Absent THEN guest[<<"world", w>>] ELSE @]
    /\ UNCHANGED <<host, op, orphans, begun, generated, faults>>

Downloads(p) == p \notin {Absent, <<>>} /\ Head(p) = Copy(<<"release">>, <<"payload">>)

\* Steam has a new version: it matters between two operations and to a script
\* that is about to download.
Release ==
    /\ guest[<<"release">>] < Newest
    /\ \/ ~Busy /\ begun \in 1 .. MaxOps - 1
       \/ \E p \in orphans \cup {op.process} : Downloads(p)
    /\ guest' = [guest EXCEPT ![<<"release">>] = @ + 1]
    /\ UNCHANGED <<host, op, orphans, begun, generated, faults>>

Fault == faults < MaxFaults /\ faults' = faults + 1

\* A step fails, or the client ends.  An import may leave files.
StepFails ==
    /\ Busy
    /\ Fault
    /\ op' = [Finish(op, "error") EXCEPT !.faulted = TRUE]
    /\ folder' \in {folder} \cup (IF At("import") THEN {begun} ELSE {})
    /\ UNCHANGED <<vm, guest, orphans, begun, generated>>

Abandoned == orphans \cup ({op.process} \ {<<>>})

\* await_command_deadline.
TimesOut ==
    /\ Waiting
    /\ Fault
    /\ orphans' = Abandoned
    /\ op' = [Finish(op, "error") EXCEPT !.faulted = TRUE]
    /\ UNCHANGED <<host, guest, begun, generated>>

\* What the client makes of a connection that ended without an exit status.
Unanswered(o) ==
    LET marked == [o EXCEPT !.faulted = TRUE, !.lost = TRUE]
    IN IF Head(o.todo) \in ParsedSteps THEN Finish(marked, "error") ELSE Proceed(marked)

ConnectionLost ==
    /\ Waiting
    /\ Fault
    /\ orphans' = Abandoned
    /\ op' = Unanswered(op)
    /\ UNCHANGED <<host, guest, begun, generated>>

\* Five downloads failed.  The status that the script exits with is that of the
\* if, 0: only where the output is parsed is the failure seen.
DownloadFails ==
    /\ Downloads(op.process)
    /\ Fault
    /\ op' = IF At("download")
             THEN [op EXCEPT !.process = <<>>, !.faulted = TRUE]
             ELSE [Finish(op, "error") EXCEPT !.faulted = TRUE]
    /\ UNCHANGED <<host, guest, orphans, begun, generated>>

\* exec_with_retry sends the whole script again.
ScriptResent ==
    /\ Waiting
    /\ Fault
    /\ orphans' = Abandoned
    /\ op' = [op EXCEPT !.process = Script(op), !.faulted = TRUE, !.alone = FALSE]
    /\ UNCHANGED <<host, guest, begun, generated>>

\* HyperVVmLifecycleOrchestrator, asked by somebody else: stop turns off, and
\* every script on the guest ends.
PowerOff ==
    /\ vm # Absent /\ vm.on
    /\ Fault
    /\ vm' = [vm EXCEPT !.on = FALSE]
    /\ guest' = Stopped(guest)
    /\ orphans' = {}
    /\ op' = IF Waiting THEN Unanswered(op) ELSE [op EXCEPT !.faulted = @ \/ Busy]
    /\ UNCHANGED <<folder, begun, generated>>
PowerOn ==
    /\ vm # Absent /\ ~vm.on
    /\ Fault
    /\ vm' = [vm EXCEPT !.on = TRUE]
    /\ guest' = Booted(guest)
    /\ op' = [op EXCEPT !.faulted = @ \/ Busy]
    /\ UNCHANGED <<folder, orphans, begun, generated>>

-----------------------------------------------------------------------------

Next ==
    \/ \E r \in Requests : Begin(r)
    \/ Readiness \/ Existing \/ Clear \/ Compare \/ Import \/ Start \/ Address
    \/ \E step \in Settings : Configure(step)
    \/ Send \/ ReadVersion \/ Execute \/ Answered
    \/ \E o \in orphans : OrphanExecutes(o) \/ OrphanEnds(o)
    \/ \E w \in Worlds : DatabaseStarts(w)
    \/ Release
    \/ DownloadFails \/ StepFails \/ TimesOut \/ ConnectionLost \/ ScriptResent
    \/ PowerOff \/ PowerOn

Spec == Init /\ [][Next]_vars

-----------------------------------------------------------------------------
\* Properties.

\* The last operation was answered as done, no script ran beside it and none
\* of its own was lost.
CleanlyDone == op.answer = "ok" /\ op.alone /\ ~op.lost

\* An operation that was answered as done has left all that it promises,
\* whatever earlier ones left behind when they failed, were cut or began with
\* another version of the payload: the steps skip what they find there.
DoneIsComplete ==
    CleanlyDone =>
        LET w == op.request.world
            version == op.version
        IN /\ op.request.kind = "hyperv" =>
                /\ vm.set = Settings /\ vm.here /\ folder = vm.files
                /\ There(guest, <<"enabled">>) /\ There(guest, <<"disk">>)
                /\ There(guest, <<"helper">>)
           /\ "create_world" \in Range(Steps(op.request)) =>
                /\ \A i \in {<<"payload">>, <<"world_images">>, <<"core_images">>, <<"crds">>,
                             <<"operator", "battlegroup">>, <<"revision", w>>} : guest[i] = version
                /\ There(guest, <<"cert-manager">>) /\ There(guest, <<"core">>)
                /\ \A o \in Range(Operators) : There(guest, <<"scaled", o>>)
                /\ \A i \in {"namespace", "secrets", "world", "title", "settings"} :
                        There(guest, <<i, w>>)
           /\ "ubuntu_swap" \in Range(Steps(op.request)) =>
                \A i \in {"swap_file", "fstab", "kubelet"} : There(guest, <<i>>)

\* The passwords a world's deployment names open its database, though each
\* script that creates the world makes new ones and a database keeps those of
\* its first start, unless the operation found the database stopped and said so.
CredentialsAgree ==
    CleanlyDone /\ "sync" \in Range(Steps(op.request)) /\ ~op.skipped =>
        LET w == op.request.world
        IN There(guest, <<"pod", w>>) => guest[<<"database", w>>] = guest[<<"world", w>>]

\* Nothing that an interrupted operation leaves makes a later one fail: one
\* that no fault befell and that ran alone fails only for what it is told (the
\* machine exists, the folder is not empty) or an incompatible host.
RerunSucceeds ==
    op.answer = "error" => op.faulted \/ ~op.alone

\* "Ensures the server payload is downloaded inside the guest": an operation
\* that was answered as done has set the server up from what Steam had when the
\* operation began, or something newer.
PayloadIsCurrent ==
    CleanlyDone /\ "create_world" \in Range(Steps(op.request)) =>
        There(guest, <<"payload">>) /\ guest[<<"payload">>] >= op.since
=============================================================================
