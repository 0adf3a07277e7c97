--------------------------- MODULE BattlegroupOps ---------------------------
(***************************************************************************)
(* Operations of the command line and of the desktop on one battlegroup:   *)
(* each reads the resource, computes a patch from the copy, sends it, and  *)
(* runs scripts on the guest, through a runner of its own.  A command or   *)
(* script is a process on the guest that performs its effects one by one;  *)
(* the client may lose it, and then it is abandoned: it ends or goes on by *)
(* itself.  Abstracted: quoting, texts, the log lines, other resources.    *)
(***************************************************************************)
EXTENDS BattlegroupDoc

CONSTANTS
    Clients,       \* processes of the command line or workers of the desktop
    Requests,      \* what they may be asked to do
    InitialDoc,    \* the replaced members of the resource at the start
    InitialPods,   \* and what its pods may be
    MaxOps,        \* bound: operations begun
    MaxFaults      \* bound: lost calls and connections

ASSUME BoundsAssumption == MaxOps \in Nat /\ MaxFaults \in Nat

VARIABLES
    doc,       \* the replaced members of the BattleGroup resource
    pods,      \* its pods and their launch arguments
    ini,       \* of each settings file the PvP partitions it enables
    swap,      \* the guest's swap file
    stop,      \* spec.stop
    phase,     \* the phase that the operator reports
    op,        \* of each client its operation
    orphans,   \* abandoned processes that still run on the guest
    begun,     \* operations begun
    faults     \* faults so far

vars == <<doc, pods, ini, swap, stop, phase, op, orphans, begun, faults>>
guest == <<doc, pods, ini, swap, stop>>

Files == {"UserGame", "Game"}
NoRequest == [kind |-> "none", desktop |-> FALSE]

-----------------------------------------------------------------------------
\* No two partitions have one id, over all maps, and the server group set of
\* Survival has a replica for each of its partitions and names them in order.
Whole(d) ==
    /\ \A m \in Maps : Cardinality(IdSet(d[<<"partitions", m>>])) = Len(d[<<"partitions", m>>])
    /\ \A m, n \in Maps :
        m # n => IdSet(d[<<"partitions", m>>]) \cap IdSet(d[<<"partitions", n>>]) = {}
    /\ d[<<"set", Survival>>] = Ids(d[<<"partitions", Survival>>])
    /\ d[<<"replicas", Survival>>] = Len(d[<<"partitions", Survival>>])

InOrder(partitions) == \A i, j \in DOMAIN partitions : i < j => Before(partitions, i, j)

\* The resource before the first operation: each map's partitions are numbered,
\* and Survival's listed in the order that the manager writes them in (the sort
\* of build_world_partition_update, which refuses a map without a partition).
\* A patch that only reorders them leaves the replicas out, and one beside it may
\* change these: of a list in another order WorldConsistent does not hold.
ASSUME WorldAssumption ==
    /\ IsFiniteSet(OtherMaps)
    /\ Survival # DeepDesert
    /\ DOMAIN InitialDoc = Fields
    /\ \A m \in Maps : InitialDoc[<<"partitions", m>>] \in Partitions
    /\ \A m \in {Survival, DeepDesert} : InitialDoc[<<"partitions", m>>] # <<>>
    /\ InOrder(InitialDoc[<<"partitions", Survival>>])
    /\ Whole(InitialDoc)

Kinds == {"instances", "name", "region", "swap", "start", "stop", "restart"}

\* InstanceMap has these two maps.
ASSUME RequestAssumption ==
    \A r \in Requests :
        /\ r.kind \in Kinds
        /\ r.kind = "instances" => r.map \in {Survival, DeepDesert}

-----------------------------------------------------------------------------
\* Requests, and the steps each of them takes.

PvpGiven(r) == r.pvp # Absent

Valid(r) ==
    CASE r.kind = "instances" ->
            /\ r.count \in 1..64
            /\ r.map = DeepDesert => r.count <= 1
            /\ PvpGiven(r) => r.map = DeepDesert /\ r.pvp <= r.count
      [] r.kind = "swap" -> r.size \in 1..256
      [] r.kind = "region" ->
            r.region \in {"Asia", "Europe", "North America", "Oceania", "South America"}
      [] OTHER -> TRUE

InstanceSteps(r) == <<"read", "patch">> \o (IF PvpGiven(r) THEN <<"config">> ELSE <<>>)
SwapSteps == <<"enable swap", "read", "patch", "verify">>
RestartSteps(r) == IF r.restart THEN <<"restart", "await">> ELSE <<>>
DesktopSteps(r) ==      \* the command line neither checks nor verifies
    CASE r.kind = "start" -> <<"check", "start", "await", "verify">>
      [] r.kind = "stop" -> <<"check", "stop", "verify">>
      [] r.kind = "restart" -> <<"restart", "await", "verify">>
CommandLineSteps(r) ==
    CASE r.kind = "start" -> <<"start", "await">>
      [] r.kind = "stop" -> <<"stop">>
      [] r.kind = "restart" -> <<"restart", "await">>

Steps(r) ==
    CASE r.kind = "none" -> <<>>
      [] r.kind = "instances" -> InstanceSteps(r) \o RestartSteps(r)
      [] r.kind = "name" -> <<"read", "patch">> \o RestartSteps(r)
      [] r.kind = "region" -> <<"read", "patch">>
      [] r.kind = "swap" -> SwapSteps
      [] OTHER -> IF r.desktop THEN DesktopSteps(r) ELSE CommandLineSteps(r)

-----------------------------------------------------------------------------
\* What the commands and scripts do on the guest.

PatchEffect(fields, edits) == [do |-> "patch", fields |-> fields, edits |-> edits]
WriteIni(file, ids) == [do |-> "write ini", file |-> file, ids |-> ids]
SetStop(value) == [do |-> "set stop", value |-> value]

WritePvpConfig(ids) == <<WriteIni("UserGame", ids), WriteIni("Game", ids)>>

\* The mount table, the kubelet's settings and the restart of k3s follow, and
\* change nothing that is modelled.
EnableSwap(size) ==
    <<[do |-> "allocate", size |-> size], [do |-> "format"], [do |-> "swapon"]>>

Wrapper(action) ==
    CASE action = "start" -> <<SetStop(FALSE)>>
      [] action = "stop" -> <<SetStop(TRUE)>>
      [] action = "restart" -> <<SetStop(TRUE), SetStop(FALSE)>>

\* The partitions that the request gives PvP, in the copy the client has read.
WantedPvp(o) == PvpIds(o.partitions, o.request.pvp)

Script(o) ==
    CASE Head(o.todo) = "config" -> WritePvpConfig(WantedPvp(o))
      [] Head(o.todo) = "patch" -> <<PatchEffect(o.fields, o.edits)>>
      [] Head(o.todo) = "enable swap" -> EnableSwap(o.request.size)
      [] OTHER -> Wrapper(Head(o.todo))

ScriptSteps == {"patch", "config", "enable swap", "start", "stop", "restart"}

\* A file of the wanted size is kept as it is, unformatted or not.
AllocationNeededOnce(e) == swap.size = 0   \* The mutant keeps a smaller file.
AllocationNeeded(e) == swap.size < e.size

\* The effects left after the first one.
Rest(left) ==
    IF left[1].do = "allocate" /\ ~AllocationNeeded(left[1])
    THEN Tail(Tail(left))
    ELSE Tail(left)

Rejected(e) == e.do = "patch" /\ ~AllApply(pods, e.edits)

Perform(e) ==
    /\ doc' = IF e.do = "patch" /\ ~Rejected(e) THEN Patched(doc, e.fields) ELSE doc
    /\ pods' = IF e.do = "patch" /\ ~Rejected(e) THEN AllPatched(pods, e.edits) ELSE pods
    /\ ini' = IF e.do = "write ini" THEN [ini EXCEPT ![e.file] = e.ids] ELSE ini
    /\ stop' = IF e.do = "set stop" THEN e.value ELSE stop
    /\ swap' = CASE e.do = "allocate" /\ AllocationNeeded(e) ->
                        [size |-> e.size, formatted |-> FALSE, on |-> FALSE]
                 [] e.do = "format" -> [swap EXCEPT !.formatted = TRUE]
                 [] e.do = "swapon" -> [swap EXCEPT !.on = swap.formatted]
                 [] OTHER -> swap

-----------------------------------------------------------------------------

Idle == [request |-> NoRequest, todo |-> <<>>, partitions |-> <<>>,
         fields |-> <<>>, edits |-> <<>>,
         process |-> Absent, failed |-> FALSE,
         answer |-> "none", undisturbed |-> FALSE, unfinished |-> FALSE]

Init ==
    /\ doc = InitialDoc
    /\ pods \in InitialPods
    /\ ini = [f \in Files |-> {}]
    /\ swap = [size |-> 0, formatted |-> FALSE, on |-> FALSE]
    /\ stop = FALSE
    /\ phase = "Running"
    /\ op = [c \in Clients |-> Idle]
    /\ orphans = {}
    /\ begun = 0
    /\ faults = 0

Busy(c) == op[c].todo # <<>>
At(c, step) == Busy(c) /\ Head(op[c].todo) = step
Waiting(c) == op[c].process # Absent

Started == ~stop /\ phase = "Running"

\* What an operation changes; operations that change the same may undo each
\* other's work.
Touches(r) ==
    (IF r.kind \in {"instances", "name", "region"} THEN {"world"} ELSE {})
        \cup (IF r.kind = "swap" THEN {"memory"} ELSE {})
        \cup {"lifecycle" : step \in {"start", "stop", "restart"} \cap Range(Steps(r))}
Interferes(r1, r2) == Touches(r1) \cap Touches(r2) # {}

Beside(c) ==
    {op[d].request : d \in {e \in Clients \ {c} : Busy(e)}} \cup {o.request : o \in orphans}

\* run_cli, or a command of the desktop: the request is validated first.
Begin(c, r) ==
    /\ ~Busy(c)
    /\ begun < MaxOps
    /\ begun' = begun + 1
    /\ op' = [d \in Clients |->
                IF d # c
                THEN [op[d] EXCEPT !.undisturbed = @ /\ ~Interferes(op[d].request, r)]
                ELSE IF Valid(r)
                THEN [Idle EXCEPT !.request = r, !.todo = Steps(r),
                        !.undisturbed = \A q \in Beside(c) : ~Interferes(q, r)]
                ELSE [Idle EXCEPT !.answer = "error"]]
    /\ UNCHANGED <<guest, phase, orphans, faults>>

-----------------------------------------------------------------------------
\* The steps of an operation on the client's side.

Finish(o, answer) == [o EXCEPT !.todo = <<>>, !.process = Absent, !.answer = answer]

\* o goes on with its next step, or has done the last one.
Proceed(o) ==
    IF Tail(o.todo) = <<>>
    THEN Finish(o, "ok")
    ELSE [o EXCEPT !.todo = Tail(@), !.process = Absent]

Become(c, o) == op' = [op EXCEPT ![c] = o]

\* The guard of the desktop: what is there already is not done again.
Check(c) ==
    /\ At(c, "check")
    /\ Become(c, IF Started = (op[c].request.kind = "start")
                 THEN Finish(op[c], "error")
                 ELSE Proceed(op[c]))
    /\ UNCHANGED <<guest, phase, orphans, begun, faults>>

WithPatch(o, partitions, fields, edits) ==
    LET read == [o EXCEPT !.partitions = partitions, !.fields = fields, !.edits = edits]
    IN IF DOMAIN fields = {} /\ edits = <<>>
       THEN Proceed(Proceed(read))
       ELSE Proceed(read)

\* The operation once it has read the resource and computed its patch.
Computed(o) ==
    LET r == o.request
    IN CASE r.kind = "instances" ->
                WithPatch(o, Resized(doc, r.map, r.count), InstancePatch(doc, r.map, r.count), <<>>)
         [] r.kind = "swap" -> WithPatch(o, <<>>, MemoryPatch(doc, r.size), <<>>)
         [] r.kind = "region" -> WithPatch(o, <<>>, RegionFields(r.region), RegionEdits(pods, r.region))
         [] r.kind = "name" ->
                IF PartitionsAt(doc, r.dimension) = {}
                THEN Finish(o, "error")
                ELSE LET p == CHOOSE q \in PartitionsAt(doc, r.dimension) : TRUE
                     IN WithPatch(o, <<>>, <<>>, NameEdits(pods, p.id, r.name))

Read(c) ==
    /\ At(c, "read")
    /\ Become(c, Computed(op[c]))
    /\ UNCHANGED <<guest, phase, orphans, begun, faults>>

Send(c) ==
    /\ Busy(c) /\ ~Waiting(c)
    /\ Head(op[c].todo) \in ScriptSteps
    /\ Become(c, [op[c] EXCEPT !.process = Script(op[c])])
    /\ UNCHANGED <<guest, phase, orphans, begun, faults>>

\* exec_capture: the command ended with its exit status.
Answered(c) ==
    /\ Waiting(c)
    /\ op[c].process = <<>>
    /\ Become(c, IF op[c].failed THEN Finish(op[c], "error") ELSE Proceed(op[c]))
    /\ UNCHANGED <<guest, phase, orphans, begun, faults>>

\* wait_for_battlegroup_started, then wait_for_director_node_port.
AwaitStarted(c) ==
    /\ At(c, "await")
    /\ Become(c, IF Started THEN Proceed(op[c]) ELSE Finish(op[c], "error"))
    /\ UNCHANGED <<guest, phase, orphans, begun, faults>>

Verify(c) ==
    /\ At(c, "verify")
    /\ Become(c, Proceed(op[c]))
    /\ UNCHANGED <<guest, phase, orphans, begun, faults>>

-----------------------------------------------------------------------------
\* The guest, and the operator of Kubernetes.

Execute(c) ==
    /\ Waiting(c)
    /\ op[c].process # <<>>
    /\ LET e == Head(op[c].process)
       IN /\ Perform(e)
          /\ Become(c, [op[c] EXCEPT !.process = Rest(@), !.failed = Rejected(e)])
    /\ UNCHANGED <<phase, orphans, begun, faults>>

\* An abandoned process goes on.
OrphanExecutes(o) ==
    /\ Perform(Head(o.left))
    /\ orphans' = (orphans \ {o})
                    \cup (IF Rest(o.left) = <<>> THEN {} ELSE {[o EXCEPT !.left = Rest(@)]})
    /\ UNCHANGED <<phase, op, begun, faults>>

\* An abandoned process is ended by its closed pipes.
OrphanEnds(o) ==
    /\ orphans' = orphans \ {o}
    /\ UNCHANGED <<guest, phase, op, begun, faults>>

Reconcile ==
    /\ phase' = IF stop THEN "Stopped" ELSE "Running"
    /\ phase' # phase
    /\ UNCHANGED <<guest, op, orphans, begun, faults>>

-----------------------------------------------------------------------------
\* Faults.

Fault == faults < MaxFaults /\ faults' = faults + 1

\* A read fails, a command cannot be sent, or ends with an error status: the
\* operation is answered with it, whatever was done before.
StepFails(c) ==
    /\ Busy(c)
    /\ Fault
    /\ Become(c, Finish(op[c], "error"))
    /\ UNCHANGED <<guest, phase, orphans, begun>>

Abandoned(c) ==
    IF op[c].process = <<>>
    THEN orphans
    ELSE orphans \cup {[request |-> op[c].request, left |-> op[c].process]}

\* await_command_deadline.
TimesOut(c) ==
    /\ Waiting(c)
    /\ Fault
    /\ orphans' = Abandoned(c)
    /\ Become(c, Finish(op[c], "error"))
    /\ UNCHANGED <<guest, phase, begun>>

\* The connection ends without an exit status, which counts as 0; of a patch
\* the output is parsed as well, and there is none.
ConnectionLost(c) ==
    /\ Waiting(c)
    /\ Fault
    /\ orphans' = Abandoned(c)
    /\ Become(c, IF At(c, "patch")
                 THEN Finish(op[c], "error")
                 ELSE Proceed([op[c] EXCEPT !.unfinished = @ \/ op[c].process # <<>>]))
    /\ UNCHANGED <<guest, phase, begun>>

\* The end of the script's text could not be sent: the session is made anew
\* and all of the script sent again, though a part of it may have run.
ScriptResent(c) ==
    /\ Waiting(c) /\ ~At(c, "patch")
    /\ Fault
    /\ orphans' = Abandoned(c)
    /\ Become(c, [op[c] EXCEPT !.process = Script(op[c]), !.undisturbed = FALSE])
    /\ UNCHANGED <<guest, phase, begun>>

-----------------------------------------------------------------------------

Next ==
    \/ \E c \in Clients :
        \/ \E r \in Requests : Begin(c, r)
        \/ Check(c) \/ Read(c) \/ Send(c) \/ Answered(c) \/ AwaitStarted(c) \/ Verify(c)
        \/ Execute(c)
        \/ StepFails(c) \/ TimesOut(c) \/ ConnectionLost(c) \/ ScriptResent(c)
    \/ \E o \in orphans : OrphanExecutes(o) \/ OrphanEnds(o)
    \/ Reconcile

Spec == Init /\ [][Next]_vars

-----------------------------------------------------------------------------
\* Properties.

\* Whatever overlaps, is abandoned or sent twice, the world stays whole: a new
\* partition's id is free in all maps (next_free_partition_id), and the server
\* group set follows the partitions (append_server_group_set_patch).
WorldConsistent == Whole(doc)

\* What an operation asked for is there.
AsRequested(r) ==
    CASE r.kind = "instances" ->
            /\ DOMAIN InstancePatch(doc, r.map, r.count) = {}
            /\ PvpGiven(r) => \A f \in Files : ini[f] = PvpIds(doc[<<"partitions", r.map>>], r.pvp)
      [] r.kind = "name" ->
            \E p \in PartitionsAt(doc, r.dimension) : NameEdits(pods, p.id, r.name) = <<>>
      [] r.kind = "region" ->
            /\ doc[<<"region", Survival>>] = r.region
            /\ AllPatched(pods, RegionEdits(pods, r.region)) = pods
      [] r.kind = "swap" -> DOMAIN MemoryPatch(doc, r.size) = {} /\ swap.size >= r.size
      [] OTHER -> stop = (r.kind = "stop")

\* An operation that was answered as done, that none that changes the
\* same ran beside or after, and whose scripts all ended, has left what it was asked
\* for: the same request would change nothing.
DoneIsDone ==
    \A c \in Clients :
        op[c].answer = "ok" /\ op[c].undisturbed /\ ~op[c].unfinished
            => AsRequested(op[c].request)

\* Of each pod its arguments that the manager does not edit.
OtherArguments ==
    IF pods = Absent
    THEN {}
    ELSE {<<p.index, SelectSeq(p.arguments, LAMBDA a : a.kind \notin {"name", "region"})>> :
            p \in {pods[i] : i \in {j \in DOMAIN pods : pods[j].arguments # Absent}}}

\* The patches of names and regions give positions in the copy that was read.
\* As long as no other operation ran beside them, they change no other launch
\* argument.
OtherArgumentsKept ==
    [][\/ \A a \in OtherArguments : a[2] # <<>> => a \in OtherArguments'
       \/ \E c \in Clients : Waiting(c) /\ ~op[c].undisturbed
       \/ orphans # {}]_vars

\* What the runner takes for granted of its commands: one that is answered as
\* done has ended.  (Its inactivity timeout "is fine because the command
\* itself should finish well under that".)
DoneMeansEnded ==
    \A c \in Clients : op[c].answer = "ok" => ~op[c].unfinished
=============================================================================
