---------------------------- MODULE DaemonApiProofs ----------------------------
(***************************************************************************)
(* Proofs about the daemon's settings, catalog, history and grants, that   *)
(* its state and the installer's keep their types, that an undisturbed     *)
(* command of the installer does what it is for, and that the game hears   *)
(* complete commands, for any zones, lists of actions, catalogs, requests, *)
(* slots, windows and versions, and any number of commands and faults.     *)
(***************************************************************************)
EXTENDS ManagementService, FiniteSetTheorems, TLAPS

\* What may be stored: the switch of the package is a truth value, a zone parses.
StoredWell(c) ==
  /\ c = [k \in StoredKeys |-> c[k]]
  /\ c["package"] \in BOOLEAN \cup {None}
  /\ c["zone"] \in Zones \cup {None}

\* What a daemon that has run since some start shares with the table of now: a
\* setting without a row still has its default, and the package is on only with a
\* list that parses.
Follows(e, c) ==
  /\ e = [k \in Settings |-> e[k]]
  /\ \A k \in Settings \ {"actions"} : c[k] = None => e[k] = Defaults[k]
  /\ StoredActions(c) = None => e["actions"] = Defaults["actions"]
  /\ e["package"] \in BOOLEAN
  /\ e["package"] = TRUE => e["actions"] \in ActionLists

\* The settings, and what is loaded for each.
LEMMA SettingsAre ==
  /\ Settings = {"restart", "hour", "minute", "frequency", "duration", "package", "message",
                 "actions", "whisperer", "text", "zone"}
  /\ Defaults["package"] = FALSE
BY DEF Settings, Defaults

\* What is read of a row: a number may be too large, nothing else is.
LEMMA ReadIs ==
  ASSUME NEW c, NEW k
  PROVE  /\ TooLarge(c, k) => Read(c, k) = None
         /\ ~TooLarge(c, k) => Read(c, k) = c[k]
         /\ k \notin Numbers => ~TooLarge(c, k)
         /\ c[k] = None => ~TooLarge(c, k)
BY DEF Read, TooLarge

LEMMA StoredIs ==
  ASSUME NEW c
  PROVE  /\ StoredActions(c) = IF c["actions"] = None THEN c["items"] ELSE c["actions"]
         /\ \A d : Stored(c, "package", d) = IF c["package"] = None THEN d ELSE c["package"]
<1>1. Read(c, "actions") = c["actions"] /\ Read(c, "package") = c["package"]
  BY ReadIs DEF Numbers
<1> QED
  BY <1>1 DEF StoredActions, Stored

LEMMA LoadIs ==
  ASSUME NEW c
  PROVE  /\ Load(c) = [k \in Settings |-> Load(c)[k]]
         /\ Load(c)["actions"] = IF StoredActions(c) = None THEN Defaults["actions"]
                                                           ELSE StoredActions(c)
         /\ Load(c)["package"] = (/\ Stored(c, "package", Defaults["package"])
                                  /\ Load(c)["actions"] \in ActionLists)
         /\ Load(c)["zone"] = IF c["zone"] \in Zones THEN c["zone"] ELSE Defaults["zone"]
         /\ \A k \in Settings \ {"actions", "package", "zone"} :
              Load(c)[k] = IF Read(c, k) = None THEN Defaults[k] ELSE Read(c, k)
BY SettingsAre DEF Load, Stored

\* A start begins with settings that follow the table.
LEMMA LoadFollows ==
  ASSUME NEW c, StoredWell(c)
  PROVE  Follows(Load(c), c)
<1>1. ASSUME c["package"] = None PROVE Load(c)["package"] = Defaults["package"]
  <2>1. Stored(c, "package", Defaults["package"]) = FALSE
    BY <1>1, SettingsAre, StoredIs
  <2> QED
    BY <2>1, LoadIs, SettingsAre, Zenon
<1>2. ASSUME NEW k \in Settings \ {"actions", "package"}, c[k] = None
      PROVE  Load(c)[k] = Defaults[k]
  <2>1. Read(c, k) = None
    BY <1>2, ReadIs
  <2>2. CASE k = "zone"
    <3>1. c["zone"] = None
      BY <1>2, <2>2
    <3>2. c["zone"] \notin Zones
      BY <3>1, ConfigAssumption
    <3>3. Load(c)["zone"] = IF c["zone"] \in Zones THEN c["zone"] ELSE Defaults["zone"]
      BY LoadIs, Zenon
    <3> QED
      BY <2>2, <3>2, <3>3
  <2>3. CASE k # "zone"
    <3>1. k \in Settings \ {"actions", "package", "zone"}
      BY <1>2, <2>3
    <3>2. Load(c)[k] = IF Read(c, k) = None THEN Defaults[k] ELSE Read(c, k)
      BY <3>1, LoadIs, Zenon
    <3> QED
      BY <2>1, <3>2
  <2> QED
    BY <2>2, <2>3
<1>3. StoredActions(c) = None => Load(c)["actions"] = Defaults["actions"]
  BY LoadIs
<1>4. Load(c)["package"] \in BOOLEAN
  BY LoadIs, Zenon
<1>5. Load(c)["package"] = TRUE => Load(c)["actions"] \in ActionLists
  BY LoadIs, Zenon
<1>6. \A k \in Settings \ {"actions"} : c[k] = None => Load(c)[k] = Defaults[k]
  BY <1>1, <1>2
<1> QED
  BY <1>3, <1>4, <1>5, <1>6, LoadIs DEF Follows

\* What QuietMeansCurrent asks, of any table and any settings that follow it.
LEMMA QuietIsCurrent ==
  ASSUME NEW c, NEW e, StoredWell(c), Follows(e, c), ~RestartRequired(c, e),
         NEW n \in Settings, ~TooLarge(c, n)
  PROVE  Load(c)[n] = e[n]
<1>1. ASSUME NEW k \in Settings \ {"actions"}, ~TooLarge(c, k)
      PROVE  Read(c, k) = c[k] /\ (c[k] = None \/ c[k] = e[k])
  <2>1. Read(c, k) = None \/ Read(c, k) = e[k]
    BY DEF RestartRequired
  <2> QED
    BY <1>1, <2>1, ReadIs
<1>2. Load(c)["actions"] = e["actions"]
  BY LoadIs DEF RestartRequired, Follows
<1>3. ASSUME NEW k \in Settings \ {"actions", "package"}, ~TooLarge(c, k)
      PROVE  Load(c)[k] = e[k]
  <2>1. c[k] = None => e[k] = Defaults[k]
    BY DEF Follows
  <2>2. c["zone"] \in Zones \cup {None}
    BY DEF StoredWell
  <2>3. CASE k = "zone"
    <3>1. c["zone"] = None \/ c["zone"] = e["zone"]
      BY <1>1, <1>3, <2>3
    <3>2. Load(c)["zone"] = IF c["zone"] \in Zones THEN c["zone"] ELSE Defaults["zone"]
      BY LoadIs, Zenon
    <3> QED
      BY <2>1, <2>2, <2>3, <3>1, <3>2, ConfigAssumption
  <2>4. CASE k # "zone"
    <3>1. k \in Settings \ {"actions", "package", "zone"}
      BY <1>3, <2>4
    <3>2. Load(c)[k] = IF Read(c, k) = None THEN Defaults[k] ELSE Read(c, k)
      BY <3>1, LoadIs, Zenon
    <3>3. Read(c, k) = c[k] /\ (c[k] = None \/ c[k] = e[k])
      BY <1>1, <1>3
    <3> QED
      BY <2>1, <3>2, <3>3
  <2> QED
    BY <2>3, <2>4
<1>4. Load(c)["package"] = e["package"]
  <2>1. Stored(c, "package", Defaults["package"]) = e["package"]
    <3>1. ~TooLarge(c, "package")
      BY ReadIs DEF Numbers
    <3>2. c["package"] = None \/ c["package"] = e["package"]
      BY <1>1, <3>1, SettingsAre
    <3>3. c["package"] = None => e["package"] = Defaults["package"]
      BY SettingsAre DEF Follows
    <3> QED
      BY <3>2, <3>3, StoredIs
  <2>2. e["package"] \in BOOLEAN /\ (e["package"] = TRUE => e["actions"] \in ActionLists)
    BY DEF Follows
  <2> QED
    BY <1>2, <2>1, <2>2, LoadIs, Zenon
<1> QED
  BY <1>2, <1>3, <1>4

\* A row that is saved never becomes one that is missing.
LEMMA SaveKeeps ==
  ASSUME NEW c, NEW k, NEW v, StoredWell(c), v # None,
         k = "zone" => v \in Zones, k = "package" => v \in BOOLEAN
  PROVE  /\ StoredWell(Save(c, k, v))
         /\ \A e : Follows(e, c) => Follows(e, Save(c, k, v))
<1>1. StoredWell(Save(c, k, v))
  BY SettingsAre DEF StoredWell, StoredKeys, Save
<1>2. ASSUME NEW j \in Settings \ {"actions"}, Save(c, k, v)[j] = None PROVE c[j] = None
  BY <1>2, SettingsAre DEF StoredWell, StoredKeys, Save
<1>3. StoredActions(Save(c, k, v)) = None => StoredActions(c) = None
  BY SettingsAre, StoredIs DEF StoredWell, StoredKeys, Save
<1> QED
  BY <1>1, <1>2, <1>3 DEF Follows

--------------------------------------------------------------------------------
(* The requests in flight: a handler works on what was sent.                *)

RequestTyped(p) ==
  \/ req[p] = NoRequest
  \/ req[p] = [pc |-> req[p].pc, id |-> req[p].id, kind |-> req[p].kind, arg |-> req[p].arg,
               ok |-> req[p].ok, seen |-> req[p].seen, taken |-> req[p].taken]

SaveWasSent(p) ==
  At(p, {"save"}, "start") =>
    /\ req[p].taken \in 0 .. 13
    /\ \E r \in Requests : r.kind = "save" /\ req[p].arg = r.arg

ConfigInv ==
  /\ req = [p \in Procs |-> req[p]]
  /\ \A p \in Procs : RequestTyped(p)
  /\ \A p \in Procs : SaveWasSent(p)
  /\ StoredWell(conf)
  /\ phase \in {"up", "stopping"} => Follows(env, conf)

LEMMA InitConfig == MSInit => ConfigInv
<1> SUFFICES ASSUME MSInit PROVE ConfigInv
  OBVIOUS
<1>1. StoredWell(conf)
  BY SettingsAre, EarlierAssumption
     DEF MSInit, Init, StoredWell, NothingStored, StoredKeys, Table
<1> QED
  BY <1>1 DEF MSInit, Init, ConfigInv, RequestTyped, SaveWasSent, At, NoRequest

\* A step that leaves the requests, the settings and the process alone, or only lets
\* the process stop, changes nothing of this.
LEMMA QuietSteps ==
  ASSUME ConfigInv, UNCHANGED <<req, conf, env>>,
         phase' \in {"up", "stopping"} => phase \in {"up", "stopping"}
  PROVE  ConfigInv'
BY DEF ConfigInv, RequestTyped, SaveWasSent, At, StoredWell, Follows, StoredActions, Stored

\* Nor does a start, which reads the table.
LEMMA StartSteps ==
  ASSUME ConfigInv, UNCHANGED <<req, conf>>, Boots
  PROVE  ConfigInv'
<1>1. Follows(env', conf')
  BY LoadFollows DEF ConfigInv, Boots
<1> QED
  BY <1>1 DEF ConfigInv, RequestTyped, SaveWasSent, At, StoredWell

\* A plan is a set of slots, as many as items were asked for; none of them holds an
\* item of a grant that was there when it was made, and all of those are there.
Planned(seen, n) ==
  /\ seen = [slots |-> seen.slots, after |-> seen.after]
  /\ seen.slots \in SUBSET Slots /\ Cardinality(seen.slots) = n
  /\ seen.after \subseteq Granted
  /\ \A item \in backpack : item.slot \in seen.slots => item.by \notin seen.after

LEMMA PlanMoves ==
  ASSUME req = [q \in Procs |-> req[q]], NEW p \in Procs, RequestTyped(p), PlansGrant(p)
  PROVE  /\ req' = [q \in Procs |-> req'[q]]
         /\ \A q \in Procs \ {p} : req'[q] = req[q]
         /\ req'[p] = [pc |-> req'[p].pc, id |-> req[p].id, kind |-> req[p].kind,
                       arg |-> req[p].arg, ok |-> req'[p].ok, seen |-> req'[p].seen,
                       taken |-> req[p].taken]
         /\ \/ req'[p].pc = "record" /\ req'[p].ok = FALSE
            \/ /\ req'[p].pc = "write"
               /\ Planned(req'[p].seen, req[p].arg.quantity)
<1> DEFINE r == req[p]
<1>1. r = [pc |-> r.pc, id |-> r.id, kind |-> r.kind, arg |-> r.arg, ok |-> r.ok,
           seen |-> r.seen, taken |-> r.taken]
  <2>1. At(p, {"grant"}, "plan")
    BY DEF PlansGrant
  <2> QED
    BY <2>1 DEF At, RequestTyped, NoRequest
<1>2. CASE Outcome(p, FALSE)
  <2>1. req'[p] = [pc |-> "record", id |-> r.id, kind |-> r.kind, arg |-> r.arg, ok |-> FALSE,
                   seen |-> r.seen, taken |-> r.taken]
    BY <1>1, <1>2 DEF Outcome
  <2>2. /\ req' = [q \in Procs |-> req'[q]]
        /\ \A q \in Procs \ {p} : req'[q] = req[q]
    BY <1>2 DEF Outcome
  <2> QED
    BY <2>1, <2>2
<1>3. CASE \E L \in Lowest(Arg(p).quantity, FreeSlots) :
              req' = [req EXCEPT ![p].pc = "write", ![p].seen = [slots |-> L, after |-> Granted]]
  <2>1. PICK L \in Lowest(Arg(p).quantity, FreeSlots) :
              req' = [req EXCEPT ![p].pc = "write", ![p].seen = [slots |-> L, after |-> Granted]]
    BY <1>3
  <2>2. Planned([slots |-> L, after |-> Granted], r.arg.quantity)
    BY DEF Lowest, FreeSlots, Arg, Planned
  <2>3. req'[p] = [pc |-> "write", id |-> r.id, kind |-> r.kind, arg |-> r.arg, ok |-> r.ok,
                   seen |-> [slots |-> L, after |-> Granted], taken |-> r.taken]
    BY <1>1, <2>1
  <2>4. /\ req' = [q \in Procs |-> req'[q]]
        /\ \A q \in Procs \ {p} : req'[q] = req[q]
    BY <2>1
  <2> QED
    BY <2>2, <2>3, <2>4
<1> QED
  BY <1>2, <1>3 DEF PlansGrant

\* Handlers other than that of a configuration, and a client that goes away.
LEMMA OtherHandlers ==
  ASSUME ConfigInv, NEW p \in Procs,
         \/ Checks(p) \/ ResolvesPlayer(p) \/ ResolvesChat(p) \/ PlansGrant(p)
         \/ Publishes(p) \/ Writes(p) \/ Records(p)
         \/ ComparesCatalog(p) \/ StoresCatalog(p) \/ RevertsCatalog(p) \/ Drops(p)
  PROVE  ConfigInv'
<1>1. UNCHANGED <<phase, env, conf>>
  BY DEF Checks, ResolvesPlayer, ResolvesChat, PlansGrant, Publishes, Writes, Records,
         ComparesCatalog, StoresCatalog, RevertsCatalog, Drops, store
<1>2. StoredWell(conf)' /\ (phase' \in {"up", "stopping"} => Follows(env', conf'))
  BY <1>1 DEF ConfigInv, StoredWell
<1>3. /\ req' = [q \in Procs |-> req'[q]]
      /\ \A q \in Procs : RequestTyped(q)' /\ SaveWasSent(q)'
  <2> USE DEF ConfigInv, RequestTyped, SaveWasSent, At, NoRequest, Go, Answered, Arg
  <2>1. CASE Checks(p)
    <3>1. At(p, {"grant", "level", "publish", "whisper"}, "start")
      BY <2>1 DEF Checks
    <3>2. \/ Answered(p)
          \/ Go(p, IF req[p].kind = "publish" THEN "queue" ELSE "resolve")
      <4> HIDE DEF Answered, Go
      <4> QED
        BY <2>1, Zenon DEF Checks
    <3> QED
      BY <3>1, <3>2
  <2>2. CASE ResolvesPlayer(p)
    BY <2>2 DEF ResolvesPlayer
  <2>3. CASE ResolvesChat(p)
    BY <2>3 DEF ResolvesChat, Outcome
  <2>4. CASE PlansGrant(p)
    <3>1. At(p, {"grant"}, "plan") /\ RequestTyped(p) /\ req = [q \in Procs |-> req[q]]
      BY <2>4 DEF PlansGrant
    <3>2. \A q \in Procs \ {p} : req'[q] = req[q]
      BY <2>4, <3>1, PlanMoves
    <3>3. req' = [q \in Procs |-> req'[q]] /\ RequestTyped(p)' /\ req'[p].pc \in {"record", "write"}
      BY <2>4, <3>1, PlanMoves
    <3> QED
      BY <3>2, <3>3
  <2>5. CASE Publishes(p)
    BY <2>5 DEF Publishes
  <2>6. CASE Writes(p)
    BY <2>6 DEF Writes, Outcome
  <2>7. CASE Records(p)
    BY <2>7 DEF Records
  <2>8. CASE ComparesCatalog(p)
    BY <2>8 DEF ComparesCatalog
  <2>9. CASE StoresCatalog(p)
    BY <2>9 DEF StoresCatalog
  <2>10. CASE RevertsCatalog(p)
    BY <2>10 DEF RevertsCatalog
  <2>11. CASE Drops(p)
    BY <2>11 DEF Drops, Cut
  <2> QED
    BY <2>1, <2>2, <2>3, <2>4, <2>5, <2>6, <2>7, <2>8, <2>9, <2>10, <2>11
<1> QED
  BY <1>2, <1>3 DEF ConfigInv

\* The next field of a configuration is one that was sent.
LEMMA FirstField ==
  ASSUME NEW update, NEW n \in 0 .. 13, FieldsAfter(update, n) # {}
  PROVE  /\ Min(FieldsAfter(update, n)) \in 1 .. 13
         /\ SaveOrder[Min(FieldsAfter(update, n))] \in DOMAIN update
<1> DEFINE S == FieldsAfter(update, n)
<1>1. S \subseteq 1 .. 13 /\ \A i \in S : SaveOrder[i] \in DOMAIN update
  BY DEF FieldsAfter, SaveOrder
<1> HIDE DEF S
<1>2. PICK z \in S : TRUE
  BY DEF S
<1>3. \E x \in S : \A y \in S : x =< y
  BY <1>1, <1>2
<1>4. Min(S) \in S
  BY <1>3 DEF Min
<1> QED
  BY <1>1, <1>4 DEF S

\* A field is saved whose value was sent and found acceptable.
LEMMA SaveSteps ==
  ASSUME ConfigInv, NEW p \in Procs, SavesField(p)
  PROVE  ConfigInv'
<1> DEFINE rest == FieldsAfter(Arg(p), req[p].taken)
           i == Min(rest)
           k == SaveOrder[i]
           v == Arg(p)[k]
<1>1. At(p, {"save"}, "start") /\ UNCHANGED <<phase, env>>
  BY DEF SavesField
<1>2. PICK r \in Requests : r.kind = "save" /\ Arg(p) = r.arg
  BY <1>1 DEF ConfigInv, SaveWasSent, Arg
<1>3. CASE Answered(p) /\ UNCHANGED conf
  BY <1>1, <1>3 DEF ConfigInv, RequestTyped, SaveWasSent, At, Answered, NoRequest, StoredWell,
                    Follows, StoredActions, Stored
<1>4. CASE /\ rest # {} /\ Acceptable(k, v)
           /\ conf' = Save(conf, k, v)
           /\ req' = [req EXCEPT ![p].taken = i]
  <2>1. i \in 1 .. 13 /\ k \in DOMAIN Arg(p)
    BY <1>1, <1>4, FirstField DEF ConfigInv, SaveWasSent
  <2>2. v # None /\ (k = "package" => v \in BOOLEAN) /\ (k = "zone" => v \in Zones)
    BY <1>2, <1>4, <2>1, RequestAssumption DEF Acceptable
  <2> HIDE DEF i, k, v, rest
  <2>3. StoredWell(conf') /\ (phase' \in {"up", "stopping"} => Follows(env', conf'))
    <3>1. StoredWell(conf)
      BY DEF ConfigInv
    <3>2. StoredWell(Save(conf, k, v)) /\ \A e : Follows(e, conf) => Follows(e, Save(conf, k, v))
      BY <2>2, <3>1, SaveKeeps
    <3> QED
      BY <1>1, <1>4, <3>2 DEF ConfigInv
  <2>4. /\ req' = [q \in Procs |-> req'[q]]
        /\ \A q \in Procs : RequestTyped(q)' /\ SaveWasSent(q)'
    BY <1>1, <1>4, <2>1 DEF ConfigInv, RequestTyped, SaveWasSent, At, NoRequest
  <2> QED
    BY <2>3, <2>4 DEF ConfigInv
<1> QED
  BY <1>3, <1>4 DEF SavesField

\* Every step keeps the settings in agreement with the table.
LEMMA NextConfig == ConfigInv /\ [MSNext]_vars => ConfigInv'
<1> SUFFICES ASSUME ConfigInv, [MSNext]_vars PROVE ConfigInv'
  OBVIOUS
<1>1. ASSUME NEW p \in Procs, Handles(p) PROVE ConfigInv'
  BY <1>1, OtherHandlers, SaveSteps DEF Handles
<1>2. ASSUME NEW p \in Procs, NEW r \in Requests, Ask(p, r) PROVE ConfigInv'
  <2>1. UNCHANGED <<phase, env, conf>>
    BY <1>2 DEF Ask, store
  <2>2. req' = [req EXCEPT ![p] = [pc |-> "start", id |-> issued + 1, kind |-> r.kind,
                                   arg |-> r.arg, ok |-> FALSE, seen |-> {}, taken |-> 0]]
    BY <1>2 DEF Ask
  <2>3. SaveWasSent(p)'
    BY <1>2, <2>2 DEF ConfigInv, SaveWasSent, At
  <2>4. \A q \in Procs \ {p} : SaveWasSent(q)'
    BY <2>2 DEF ConfigInv, SaveWasSent, At
  <2>5. \A q \in Procs : RequestTyped(q)'
    BY <2>2 DEF ConfigInv, RequestTyped, NoRequest
  <2>6. req' = [q \in Procs |-> req'[q]]
    BY <2>2 DEF ConfigInv
  <2> QED
    BY <2>1, <2>3, <2>4, <2>5, <2>6 DEF ConfigInv, StoredWell
<1>3. CASE StopEnds
  BY <1>3, QuietSteps DEF StopEnds, store
<1>4. CASE Killed \/ Crashes
  <2>1. /\ phase' \notin {"up", "stopping"} /\ UNCHANGED <<env, conf>>
        /\ req' = [p \in Procs |-> IF p \in InFlight THEN NoRequest ELSE req[p]]
    BY <1>4 DEF Killed, Crashes, Cut, store
  <2> QED
    BY <2>1 DEF ConfigInv, RequestTyped, SaveWasSent, At, NoRequest, StoredWell
<1>5. ASSUME NEW p \in Procs, Commands(p) PROVE ConfigInv'
  <2>1. UNCHANGED <<req, conf>>
    BY <1>5 DEF Commands, Begins, Discovers, Stops, Prepares, Uploads, WritesToken, InstallsUnit,
                Enables, Restarts, Verifies, Removes, StepFails, StepIgnored, HostUnchanged, store
  <2>2. \/ Boots
        \/ UNCHANGED env /\ (phase' \in {"up", "stopping"} => phase \in {"up", "stopping"})
    BY <1>5 DEF Commands, Begins, Discovers, Stops, Stopped, Prepares, Uploads, WritesToken,
                InstallsUnit, Enables, Restarts, Verifies, Removes, StepFails, StepIgnored,
                Started, Terminates
  <2> QED
    BY <2>1, <2>2, QuietSteps, StartSteps
<1>6. CASE Respawns \/ HostBoots
  <2>1. UNCHANGED <<req, conf>>
    BY <1>6 DEF Respawns, HostBoots, HostUnchanged, store
  <2>2. \/ Boots
        \/ UNCHANGED env /\ (phase' \in {"up", "stopping"} => phase \in {"up", "stopping"})
    BY <1>6 DEF Respawns, HostBoots, Started
  <2> QED
    BY <2>1, <2>2, QuietSteps, StartSteps
<1>7. CASE UNCHANGED vars
  BY <1>7, QuietSteps DEF vars, apiVars, store
<1> QED
  BY <1>1, <1>2, <1>3, <1>4, <1>5, <1>6, <1>7 DEF MSNext, ApiSteps, ApiNext

\* While the daemon runs and does not report that a restart is required, a restart
\* would load the settings it runs with, whatever was saved of whatever updates, but
\* for a number that is stored and too large to be read.
THEOREM QuietMeansCurrentHolds == Spec => []QuietMeansCurrent
<1>1. ConfigInv => QuietMeansCurrent
  BY QuietIsCurrent DEF ConfigInv, QuietMeansCurrent, FlagOff
<1> QED
  BY <1>1, InitConfig, NextConfig, PTL DEF Spec

--------------------------------------------------------------------------------
(* The catalog: what is stored is what was compared.                        *)

ApplyWasSent(p) == At(p, {"apply"}, "start") => req[p].arg.catalog # NoCatalog
ApplyChecked(p) ==
  At(p, {"apply"}, "store") =>
    /\ Valid(req[p].arg.catalog) /\ req[p].arg.catalog # NoCatalog
    /\ ~req[p].arg.confirm => req[p].seen \subseteq Keys(req[p].arg.catalog)

CatalogInv ==
  /\ req = [p \in Procs |-> req[p]]
  /\ \A p \in Procs : RequestTyped(p) /\ ApplyWasSent(p) /\ ApplyChecked(p)

LEMMA InitCatalog == MSInit => CatalogInv
BY DEF MSInit, Init, CatalogInv, RequestTyped, ApplyWasSent, ApplyChecked, At, NoRequest

\* No step of the commands or of the host touches a request.
LEMMA CommandsLeaveRequests ==
  ASSUME NEW p \in Procs, Commands(p)
  PROVE  UNCHANGED <<req, store, game>> /\ excused \subseteq excused'
BY DEF Commands, Begins, Discovers, Stops, Prepares, Uploads, WritesToken, InstallsUnit,
       Enables, Restarts, Verifies, Removes, StepFails, StepIgnored, HostUnchanged

LEMMA NextCatalog == CatalogInv /\ [MSNext]_vars => CatalogInv'
<1> SUFFICES ASSUME CatalogInv, [MSNext]_vars PROVE CatalogInv'
  OBVIOUS
<1> USE DEF CatalogInv, RequestTyped, ApplyWasSent, ApplyChecked, At, NoRequest
<1>1. ASSUME NEW p \in Procs, Handles(p) PROVE CatalogInv'
  <2> USE DEF Go, Answered, Arg
  <2>1. CASE Checks(p)
    <3>1. At(p, {"grant", "level", "publish", "whisper"}, "start")
      BY <2>1 DEF Checks
    <3>2. \/ Answered(p)
          \/ Go(p, IF req[p].kind = "publish" THEN "queue" ELSE "resolve")
      <4> HIDE DEF Answered, Go
      <4> QED
        BY <2>1, Zenon DEF Checks
    <3> QED
      BY <3>1, <3>2
  <2>2. CASE ResolvesPlayer(p)
    BY <2>2 DEF ResolvesPlayer
  <2>3. CASE ResolvesChat(p)
    BY <2>3 DEF ResolvesChat, Outcome
  <2>4. CASE PlansGrant(p)
    <3>1. At(p, {"grant"}, "plan") /\ RequestTyped(p) /\ req = [q \in Procs |-> req[q]]
      BY <2>4 DEF PlansGrant
    <3>2. \A q \in Procs \ {p} : req'[q] = req[q]
      BY <2>4, <3>1, PlanMoves
    <3>3. req' = [q \in Procs |-> req'[q]] /\ RequestTyped(p)' /\ req'[p].pc \in {"record", "write"}
      BY <2>4, <3>1, PlanMoves
    <3> QED
      BY <3>2, <3>3
  <2>5. CASE Publishes(p)
    BY <2>5 DEF Publishes
  <2>6. CASE Writes(p)
    BY <2>6 DEF Writes, Outcome
  <2>7. CASE Records(p)
    BY <2>7 DEF Records
  <2>8. CASE SavesField(p)
    BY <2>8 DEF SavesField
  <2>9. CASE ComparesCatalog(p)
    <3>1. At(p, {"apply"}, "start") /\ Arg(p).catalog # NoCatalog
      BY <2>9 DEF ComparesCatalog
    <3>2. \/ Answered(p)
          \/ /\ Valid(Arg(p).catalog)
             /\ ~Arg(p).confirm => Keys(Active) \subseteq Keys(Arg(p).catalog)
             /\ req' = [req EXCEPT ![p].pc = "store", ![p].seen = Keys(Active)]
      <4> HIDE DEF Answered, Arg, CatalogInv
      <4> QED
        BY <2>9 DEF ComparesCatalog, Removed
    <3>3. CASE Answered(p)
      BY <3>3
    <3>4. CASE ~Answered(p)
      <4>1. PICK K : /\ ~Arg(p).confirm => K \subseteq Keys(Arg(p).catalog)
                     /\ req' = [req EXCEPT ![p].pc = "store", ![p].seen = K]
        BY <3>2, <3>4
      <4>2. /\ req'[p].pc = "store" /\ req'[p].seen = K /\ req'[p].arg = Arg(p)
            /\ RequestTyped(p)'
        <5>1. req' = [req EXCEPT ![p].pc = "store", ![p].seen = K]
          BY <4>1
        <5>2. req[p] = [pc |-> req[p].pc, id |-> req[p].id, kind |-> req[p].kind,
                        arg |-> req[p].arg, ok |-> req[p].ok, seen |-> req[p].seen,
                        taken |-> req[p].taken]
          BY <3>1
        <5>3. req'[p] = [pc |-> "store", id |-> req[p].id, kind |-> req[p].kind,
                         arg |-> req[p].arg, ok |-> req[p].ok, seen |-> K,
                         taken |-> req[p].taken]
          BY <5>1, <5>2
        <5> QED
          BY <5>3
      <4>3. ApplyWasSent(p)' /\ ApplyChecked(p)'
        BY <3>1, <3>2, <3>4, <4>1, <4>2
      <4>4. /\ req' = [q \in Procs |-> req'[q]]
            /\ \A q \in Procs \ {p} : req'[q] = req[q]
        BY <4>1
      <4> QED
        BY <4>2, <4>3, <4>4
    <3> QED
      BY <3>3, <3>4
  <2>10. CASE StoresCatalog(p)
    BY <2>10 DEF StoresCatalog
  <2>11. CASE RevertsCatalog(p)
    BY <2>11 DEF RevertsCatalog
  <2>12. CASE Drops(p)
    BY <2>12 DEF Drops, Cut
  <2> QED
    BY <1>1, <2>1, <2>2, <2>3, <2>4, <2>5, <2>6, <2>7, <2>8, <2>9, <2>10, <2>11, <2>12 DEF Handles
<1>2. ASSUME NEW p \in Procs, NEW r \in Requests, Ask(p, r) PROVE CatalogInv'
  <2>1. req' = [req EXCEPT ![p] = [pc |-> "start", id |-> issued + 1, kind |-> r.kind,
                                   arg |-> r.arg, ok |-> FALSE, seen |-> {}, taken |-> 0]]
    BY <1>2 DEF Ask
  <2>2. r.kind = "apply" => r.arg.catalog # NoCatalog
    BY RequestAssumption
  <2> QED
    BY <2>1, <2>2
<1>3. CASE Killed \/ Crashes
  BY <1>3 DEF Killed, Crashes, Cut
<1>4. ASSUME UNCHANGED req PROVE CatalogInv'
  BY <1>4
<1>5. ASSUME NEW p \in Procs, Commands(p) PROVE UNCHANGED req
  BY <1>5, CommandsLeaveRequests
<1>6. CASE StopEnds \/ Respawns \/ HostBoots \/ UNCHANGED vars
  BY <1>4, <1>6 DEF StopEnds, Respawns, HostBoots, HostUnchanged, vars, apiVars
<1> QED
  BY <1>1, <1>2, <1>3, <1>4, <1>5, <1>6 DEF MSNext, ApiSteps, ApiNext

\* However two updates of the catalog interleave, one that was not confirmed keeps every
\* item it was compared with, and what is put in place is valid.
THEOREM UnconfirmedKeepsWhatItSawHolds == Spec => UnconfirmedKeepsWhatItSaw
<1>1. ASSUME CatalogInv, NEW p \in Procs, StoresCatalog(p)
      PROVE  /\ Active' = Arg(p).catalog
             /\ ~Arg(p).confirm => req[p].seen \subseteq Keys(Active')
  <2>1. override' = Arg(p).catalog /\ Valid(Arg(p).catalog) /\ Arg(p).catalog # NoCatalog
    BY <1>1 DEF StoresCatalog, CatalogInv, ApplyChecked, At, Arg
  <2>2. Active' = Arg(p).catalog
    BY <2>1 DEF Active
  <2> QED
    BY <1>1, <2>2 DEF StoresCatalog, CatalogInv, ApplyChecked, At, Arg
<1>2. CatalogInv => [\A p \in Procs : StoresCatalog(p) =>
                      /\ Active' = Arg(p).catalog
                      /\ ~Arg(p).confirm => req[p].seen \subseteq Keys(Active')]_apiVars
  BY <1>1
<1> QED
  BY <1>2, InitCatalog, NextCatalog, PTL DEF Spec, UnconfirmedKeepsWhatItSaw

--------------------------------------------------------------------------------
(* The history: what took effect is recorded, about to be, or excused.      *)

AboutToBeRecorded(id) == \E p \in Procs : req[p].pc = "record" /\ req[p].id = id /\ req[p].ok
Accounted(id) ==
  \/ \E row \in history : row.id = id /\ row.ok
  \/ id \in excused
  \/ AboutToBeRecorded(id)

HistoryInv == \A id : Took(id) => Accounted(id)

\* Only what lands takes effect.
LEMMA LandsTakes ==
  ASSUME NEW rs, Lands(rs), NEW id, Took(id)', ~Took(id)
  PROVE  \E r \in rs : r.id = id
<1>1. CASE \E item \in backpack' : item.by = id
  <2>1. PICK item \in backpack' : item.by = id
    BY <1>1
  <2>2. item \notin backpack
    BY <2>1 DEF Took, Granted
  <2>3. PICK r \in rs : item \in Inserted(r)
    BY <2>2 DEF Lands
  <2> QED
    BY <2>1, <2>3 DEF Inserted
<1>2. CASE id \in edited'
  BY <1>2 DEF Lands, Took, Granted
<1>3. CASE \E m \in heard' : m.id = id
  BY <1>3 DEF Lands, Took, Granted, Published
<1> QED
  BY <1>1, <1>2, <1>3 DEF Took, Granted

\* A step in which nothing lands, nothing is forgotten and what was about to be
\* recorded is still accounted for.
LEMMA NothingLands ==
  ASSUME HistoryInv, UNCHANGED game, history \subseteq history', excused \subseteq excused',
         \A id : AboutToBeRecorded(id) => Accounted(id)'
  PROVE  \A id : Took(id)' => Accounted(id)'
BY DEF HistoryInv, Took, Granted, game, Accounted

\* The places of a request that are not at their record do not matter.
LEMMA OthersMove ==
  ASSUME NEW p \in Procs, req[p].pc # "record",
         \A q \in Procs \ {p} : req'[q] = req[q]
  PROVE  \A id : AboutToBeRecorded(id) => AboutToBeRecorded(id)'
BY DEF AboutToBeRecorded

LEMMA InitHistory == MSInit => HistoryInv
BY DEF MSInit, Init, HistoryInv, Took, Granted

\* The handlers keep account of what they do.
LEMMA HandlersAccount ==
  ASSUME CatalogInv, HistoryInv, NEW p \in Procs, Handles(p)
  PROVE  HistoryInv'
<1> USE DEF HistoryInv
<1>1. \A q \in Procs \ {p} : req'[q] = req[q]
  BY DEF CatalogInv, Handles, Checks, ResolvesPlayer, ResolvesChat, PlansGrant, Publishes, Writes,
         Records, SavesField, ComparesCatalog, StoresCatalog, RevertsCatalog, Drops, Cut, Go,
         Answered, Outcome
<1>2. CASE \/ Checks(p) \/ ResolvesPlayer(p) \/ ResolvesChat(p) \/ PlansGrant(p)
           \/ Publishes(p) \/ SavesField(p) \/ ComparesCatalog(p) \/ StoresCatalog(p)
           \/ RevertsCatalog(p)
  <2>1. UNCHANGED <<game, history, excused>> /\ req[p].pc # "record"
    BY <1>2 DEF Checks, ResolvesPlayer, ResolvesChat, PlansGrant, Publishes, SavesField,
                ComparesCatalog, StoresCatalog, RevertsCatalog, store, At
  <2>2. \A id : AboutToBeRecorded(id) => Accounted(id)'
    BY <1>1, <2>1, OthersMove DEF Accounted
  <2> QED
    BY <2>1, <2>2, NothingLands
<1>3. CASE Writes(p)
  <2>1. req[p].pc = "write" /\ UNCHANGED history /\ excused \subseteq excused'
    BY <1>3 DEF Writes, Excuse, store
  <2>2. \A id : AboutToBeRecorded(id) => AboutToBeRecorded(id)'
    BY <1>1, <2>1, OthersMove
  <2>3. CASE UNCHANGED game
    BY <2>1, <2>2, <2>3, NothingLands DEF Accounted
  <2>4. CASE Lands({req[p]}) /\ (Outcome(p, TRUE) \/ req[p].id \in excused')
    <3> PICK n : n = req[p].id
      OBVIOUS
    <3>1. AboutToBeRecorded(n)' \/ n \in excused'
      <4>1. CASE Outcome(p, TRUE)
        <5>1. req' = [req EXCEPT ![p].pc = "record", ![p].ok = TRUE]
          BY <4>1 DEF Outcome
        <5>2. req[p] = [pc |-> req[p].pc, id |-> req[p].id, kind |-> req[p].kind,
                        arg |-> req[p].arg, ok |-> req[p].ok, seen |-> req[p].seen,
                        taken |-> req[p].taken]
          BY <2>1 DEF CatalogInv, RequestTyped, NoRequest
        <5>3. req'[p] = [pc |-> "record", id |-> req[p].id, kind |-> req[p].kind,
                         arg |-> req[p].arg, ok |-> TRUE, seen |-> req[p].seen,
                         taken |-> req[p].taken]
          BY <5>1, <5>2 DEF CatalogInv
        <5>4. req'[p].pc = "record" /\ req'[p].id = n /\ req'[p].ok
          BY <5>3
        <5> QED
          BY <5>4 DEF AboutToBeRecorded
      <4> QED
        BY <2>4, <4>1
    <3>2. ASSUME NEW id, Took(id)', ~Took(id) PROVE id = n
      BY <2>4, <3>2, LandsTakes
    <3>3. ASSUME NEW id, Accounted(id) PROVE Accounted(id)'
      BY <2>1, <2>2, <3>3 DEF Accounted
    <3>4. Accounted(n)'
      <4>1. CASE AboutToBeRecorded(n)'
        BY <4>1 DEF Accounted, AboutToBeRecorded
      <4>2. CASE n \in excused'
        BY <4>2 DEF Accounted
      <4> QED
        BY <3>1, <4>1, <4>2
    <3> QED
      BY <3>2, <3>3, <3>4
  <2> QED
    BY <1>3, <2>3, <2>4 DEF Writes, Excuse
<1>4. CASE Records(p)
  <2>1. UNCHANGED game /\ history \subseteq history' /\ excused \subseteq excused'
    BY <1>4 DEF Records, Excuse
  <2>2. ASSUME NEW id, AboutToBeRecorded(id) PROVE Accounted(id)'
    <3>1. PICK q \in Procs : req[q].pc = "record" /\ req[q].id = id /\ req[q].ok
      BY <2>2 DEF AboutToBeRecorded
    <3>2. CASE q # p
      BY <1>1, <3>1, <3>2 DEF Accounted, AboutToBeRecorded
    <3>3. CASE q = p
      <4>1. CASE id \in excused'
        BY <4>1 DEF Accounted
      <4>2. CASE history' = history \cup {Row(req[p])}
        <5>1. Row(req[p]) \in history' /\ Row(req[p]).id = id /\ Row(req[p]).ok = req[p].ok
          BY <3>1, <3>3, <4>2 DEF Row
        <5> QED
          BY <3>1, <3>3, <5>1 DEF Accounted
      <4> QED
        BY <1>4, <3>1, <3>3, <4>1, <4>2 DEF Records, Excuse
    <3> QED
      BY <3>2, <3>3
  <2> QED
    BY <2>1, <2>2, NothingLands
<1>5. CASE Drops(p)
  <2>1. req[p].pc # "record" /\ UNCHANGED history /\ excused' = excused \cup {req[p].id}
    BY <1>5 DEF Drops, Cut, Excuse, store
  <2>2. \A id : AboutToBeRecorded(id) => AboutToBeRecorded(id)'
    BY <1>1, <2>1, OthersMove
  <2>3. PICK done \in SUBSET Writing({p}) : Lands(done)
    BY <1>5 DEF Drops, Cut
  <2>4. ASSUME NEW id, Took(id)', ~Took(id) PROVE id = req[p].id
    BY <2>3, <2>4, LandsTakes DEF Writing
  <2> QED
    BY <2>1, <2>2, <2>4 DEF Accounted
<1> QED
  BY <1>2, <1>3, <1>4, <1>5 DEF Handles

LEMMA NextHistory == CatalogInv /\ HistoryInv /\ [MSNext]_vars => HistoryInv'
<1> SUFFICES ASSUME CatalogInv, HistoryInv, [MSNext]_vars PROVE HistoryInv'
  OBVIOUS
<1>1. ASSUME NEW p \in Procs, Handles(p) PROVE HistoryInv'
  BY <1>1, HandlersAccount
<1>2. ASSUME NEW p \in Procs, NEW r \in Requests, Ask(p, r) PROVE HistoryInv'
  <2>1. UNCHANGED <<game, history, excused>> /\ req[p] = NoRequest
        /\ \A q \in Procs \ {p} : req'[q] = req[q]
    BY <1>2 DEF Ask, CatalogInv, store
  <2>2. \A id : AboutToBeRecorded(id) => Accounted(id)'
    BY <2>1, OthersMove DEF NoRequest, Accounted
  <2> QED
    BY <2>1, <2>2, NothingLands DEF HistoryInv
<1>3. CASE Killed \/ Crashes
  <2>1. UNCHANGED history /\ Cut(InFlight) /\ excused \subseteq excused'
    BY <1>3 DEF Killed, Crashes, Cut, Excuse, store
  <2>2. \A p \in InFlight : req[p].id \in excused'
    BY <2>1 DEF Cut, Excuse
  <2>3. ASSUME NEW id, AboutToBeRecorded(id) PROVE id \in excused'
    <3>1. PICK p \in Procs : req[p].pc = "record" /\ req[p].id = id
      BY <2>3 DEF AboutToBeRecorded
    <3>2. p \in InFlight
      BY <3>1 DEF InFlight, NoRequest
    <3> QED
      BY <2>2, <3>1, <3>2
  <2>4. PICK done \in SUBSET Writing(InFlight) : Lands(done)
    BY <2>1 DEF Cut
  <2>5. ASSUME NEW id, Took(id)', ~Took(id) PROVE id \in excused'
    BY <2>2, <2>4, <2>5, LandsTakes DEF Writing
  <2> QED
    BY <2>1, <2>3, <2>5 DEF HistoryInv, Accounted
<1>4. ASSUME UNCHANGED <<req, history, game>>, excused \subseteq excused' PROVE HistoryInv'
  <2>1. \A id : AboutToBeRecorded(id) => Accounted(id)'
    BY <1>4 DEF AboutToBeRecorded, Accounted
  <2> QED
    BY <1>4, <2>1, NothingLands DEF HistoryInv
<1>5. ASSUME NEW p \in Procs, Commands(p) PROVE HistoryInv'
  BY <1>4, <1>5, CommandsLeaveRequests DEF store
<1>6. CASE StopEnds \/ Respawns \/ HostBoots \/ UNCHANGED vars
  BY <1>4, <1>6 DEF StopEnds, Respawns, HostBoots, HostUnchanged, vars, apiVars, store
<1> QED
  BY <1>1, <1>2, <1>3, <1>5, <1>6 DEF MSNext, ApiSteps, ApiNext

\* Whatever clients give up, answers are lost and daemons killed: what took effect is in
\* the history as done, or is about to be, or failed where its handler could not see it.
THEOREM EffectsAreRecordedHolds == Spec => []EffectsAreRecorded
<1>1. HistoryInv => EffectsAreRecorded
  BY DEF HistoryInv, EffectsAreRecorded, Accounted, AboutToBeRecorded
<1> QED
  BY <1>1, InitCatalog, NextCatalog, InitHistory, NextHistory, PTL DEF Spec

--------------------------------------------------------------------------------
(* Grants: what lands is whole, and what the history calls done has landed.   *)

Landing == {"grant", "level", "publish", "whisper"}

\* A request whose write is still ahead has left nothing; what it will insert is as much
\* as was asked for; one about to be recorded as done has taken effect.
RequestSound(r) ==
  \/ r = NoRequest
  \/ /\ r.id \in 1..issued
     /\ r.pc # "record" => r.id \notin Granted
     /\ r.kind = "grant" /\ r.pc \in {"resolve", "plan", "write"} =>
          r.arg.quantity \in 1..MaxQuantity
     /\ r.pc = "write" => r.kind \in Landing
     /\ r.pc = "write" /\ r.kind = "grant" => Planned(r.seen, r.arg.quantity)
     /\ r.pc = "record" /\ r.ok => Took(r.id)

OwnIds ==
  \A p, q \in Procs :
    p # q /\ req[p] # NoRequest /\ req[q] # NoRequest => req[p].id # req[q].id

Of(id) == {item \in backpack : item.by = id}

\* No two items are in one slot but for two grants that overlapped, and an item names
\* only grants that are still there.
Apart ==
  /\ \A x, y \in backpack : x.slot = y.slot => x = y \/ Overlapped(x, y)
  /\ \A item \in backpack : item.after \subseteq Granted

GrantInv ==
  /\ issued \in Nat
  /\ \A p \in Procs : RequestSound(req[p])
  /\ OwnIds
  /\ \A item \in backpack : item.by \in 1..issued
  /\ \A item \in backpack : Cardinality(Of(item.by)) = item.of
  /\ Apart
  /\ \A row \in history : row.ok => Took(row.id)

LEMMA InitGrants == MSInit => GrantInv
BY DEF MSInit, Init, GrantInv, RequestSound, OwnIds, Apart

\* An insert has as many items as slots.
LEMMA InsertedCount ==
  ASSUME NEW r, IsFiniteSet(r.seen.slots)
  PROVE  Cardinality(Inserted(r)) = Cardinality(r.seen.slots)
<1> DEFINE S == r.seen.slots
           f == [s \in S |-> [slot |-> s, by |-> r.id, of |-> r.arg.quantity,
                              after |-> r.seen.after]]
<1>1. f \in [S -> Inserted(r)]
  BY DEF Inserted
<1>2. \A s, t \in S : f[s] = f[t] => s = t
  OBVIOUS
<1>3. \A item \in Inserted(r) : \E s \in S : f[s] = item
  BY DEF Inserted
<1>4. f \in Bijection(S, Inserted(r))
  BY <1>1, <1>2, <1>3, Zenon DEF Bijection, Injection, Surjection, IsInjective
<1>5. ExistsBijection(S, Inserted(r))
  BY <1>4 DEF ExistsBijection
<1> QED
  BY <1>5, FS_Bijection

\* What lands whole leaves what was there whole.
LEMMA LandsWhole ==
  ASSUME NEW rs, Lands(rs),
         \A item \in backpack : Cardinality(Of(item.by)) = item.of,
         \A r \in rs : r.kind = "grant" =>
            Planned(r.seen, r.arg.quantity) /\ r.id \notin Granted,
         \A r1, r2 \in rs : r1.id = r2.id => r1 = r2
  PROVE  \A item \in backpack' : Cardinality(Of(item.by)') = item.of
<1> SUFFICES ASSUME NEW item \in backpack' PROVE Cardinality(Of(item.by)') = item.of
  OBVIOUS
<1>1. backpack' = backpack \cup UNION {Inserted(r) : r \in {r \in rs : r.kind = "grant"}}
  BY DEF Lands
<1>2. CASE item \in backpack
  <2>1. \A other \in backpack' \ backpack : other.by # item.by
    BY <1>1, <1>2 DEF Inserted, Granted
  <2>2. Of(item.by)' = Of(item.by)
    BY <1>1, <2>1 DEF Of
  <2> QED
    BY <1>2, <2>2
<1>3. CASE item \notin backpack
  <2>1. PICK r \in rs : r.kind = "grant" /\ item \in Inserted(r)
    BY <1>1, <1>3
  <2>2. item.by = r.id /\ item.of = r.arg.quantity
    BY <2>1 DEF Inserted
  <2>3. Of(item.by)' = Inserted(r)
    <3>1. \A other \in Inserted(r) : other \in backpack' /\ other.by = r.id
      BY <1>1, <2>1 DEF Inserted
    <3>2. ASSUME NEW other \in backpack', other.by = r.id PROVE other \in Inserted(r)
      <4>1. other \notin backpack
        BY <2>1, <3>2 DEF Granted
      <4>2. PICK r2 \in rs : r2.kind = "grant" /\ other \in Inserted(r2)
        BY <1>1, <4>1
      <4>3. r2.id = r.id
        BY <3>2, <4>2 DEF Inserted
      <4> QED
        BY <4>2, <4>3
    <3> QED
      BY <2>2, <3>1, <3>2 DEF Of
  <2>4. IsFiniteSet(r.seen.slots) /\ Cardinality(r.seen.slots) = r.arg.quantity
    BY <2>1, SlotsAssumption, FS_Subset DEF Planned
  <2> QED
    BY <2>2, <2>3, <2>4, InsertedCount
<1> QED
  BY <1>2, <1>3

\* What lands keeps apart: an item that was there in a slot of a plan is of a grant
\* that the plan did not know, and none knows a grant that has not landed.
LEMMA LandsApart ==
  ASSUME NEW rs, Lands(rs), Apart,
         \A r \in rs : r.kind = "grant" =>
            Planned(r.seen, r.arg.quantity) /\ r.id \notin Granted,
         \A r1, r2 \in rs : r1.id = r2.id => r1 = r2
  PROVE  Apart'
<1>1. backpack' = backpack \cup UNION {Inserted(r) : r \in {r \in rs : r.kind = "grant"}}
  BY DEF Lands
<1>2. ASSUME NEW x \in backpack', x \notin backpack
      PROVE  \E r \in rs :
               /\ r.kind = "grant" /\ x.by = r.id /\ x.of = r.arg.quantity
               /\ x.after = r.seen.after /\ x.slot \in r.seen.slots
               /\ x = [slot |-> x.slot, by |-> r.id, of |-> r.arg.quantity,
                       after |-> r.seen.after]
  <2>1. PICK r \in rs : r.kind = "grant" /\ x \in Inserted(r)
    BY <1>1, <1>2
  <2> QED
    BY <2>1 DEF Inserted
<1>3. ASSUME NEW x \in backpack', x \notin backpack
      PROVE  x.after \subseteq Granted /\ x.by \notin Granted
  BY <1>2, <1>3 DEF Planned
<1>4. Granted \subseteq Granted'
  BY <1>1 DEF Granted
<1>5. \A item \in backpack' : item.after \subseteq Granted
  BY <1>3 DEF Apart
<1>6. ASSUME NEW x \in backpack', NEW y \in backpack, x \notin backpack, x.slot = y.slot
      PROVE  Overlapped(x, y) /\ Overlapped(y, x)
  <2>1. y.by \in Granted
    BY DEF Granted
  <2>2. x.by \notin Granted /\ y.after \subseteq Granted
    BY <1>3, <1>5, <1>6, <1>1
  <2>3. y.by \notin x.after
    <3>1. PICK r \in rs : /\ r.kind = "grant" /\ x.after = r.seen.after
                          /\ x.slot \in r.seen.slots
      BY <1>2, <1>6
    <3> QED
      BY <1>6, <3>1 DEF Planned
  <2> QED
    BY <2>1, <2>2, <2>3 DEF Overlapped
<1>7. ASSUME NEW x \in backpack', NEW y \in backpack', x \notin backpack, y \notin backpack,
             x.slot = y.slot
      PROVE  x = y \/ Overlapped(x, y)
  <2>1. PICK r1 \in rs : /\ x.by = r1.id
                         /\ x = [slot |-> x.slot, by |-> r1.id, of |-> r1.arg.quantity,
                                 after |-> r1.seen.after]
    BY <1>2, <1>7
  <2>2. PICK r2 \in rs : /\ y.by = r2.id
                         /\ y = [slot |-> y.slot, by |-> r2.id, of |-> r2.arg.quantity,
                                 after |-> r2.seen.after]
    BY <1>2, <1>7
  <2>3. CASE x.by = y.by
    <3>1. r1 = r2
      BY <2>1, <2>2, <2>3
    <3> QED
      BY <1>7, <2>1, <2>2, <3>1
  <2>4. CASE x.by # y.by
    BY <1>3, <1>7, <2>4 DEF Overlapped
  <2> QED
    BY <2>3, <2>4
<1>8. \A x, y \in backpack' : x.slot = y.slot => x = y \/ Overlapped(x, y)
  BY <1>6, <1>7 DEF Apart
<1> QED
  BY <1>4, <1>5, <1>8 DEF Apart, Overlapped

\* A plan stays one while others land: they are of grants it does not know.
LEMMA LandsKeepsPlan ==
  ASSUME NEW rs, Lands(rs), \A r \in rs : r.kind = "grant" => r.id \notin Granted,
         NEW seen, NEW n, Planned(seen, n)
  PROVE  Planned(seen, n)'
<1>1. backpack' = backpack \cup UNION {Inserted(r) : r \in {r \in rs : r.kind = "grant"}}
  BY DEF Lands
<1>2. \A item \in backpack' \ backpack : item.by \notin Granted
  BY <1>1 DEF Inserted
<1>3. Granted \subseteq Granted'
  BY <1>1 DEF Granted
<1> QED
  BY <1>2, <1>3 DEF Planned

\* What has taken effect stays so.
LEMMA LandsKeeps ==
  ASSUME NEW rs, Lands(rs), NEW id, Took(id)
  PROVE  Took(id)'
BY DEF Lands, Took, Granted

\* A request that lands has taken effect, also a grant, whose items are not none.
LEMMA LandsTook ==
  ASSUME NEW r, Lands({r}), r.kind \in Landing,
         r.kind = "grant" => /\ Planned(r.seen, r.arg.quantity)
                             /\ r.arg.quantity \in 1..MaxQuantity
  PROVE  Took(r.id)'
<1>1. CASE r.kind = "grant"
  <2>1. r.seen.slots # {}
    BY <1>1, FS_EmptySet, SlotsAssumption DEF Planned
  <2>2. PICK s \in r.seen.slots : TRUE
    BY <2>1
  <2>3. [slot |-> s, by |-> r.id, of |-> r.arg.quantity, after |-> r.seen.after] \in backpack'
    BY <1>1 DEF Lands, Inserted
  <2> QED
    BY <2>3 DEF Took, Granted
<1>2. CASE r.kind = "level"
  BY <1>2 DEF Lands, Took, Granted
<1>3. CASE r.kind \in ToBroker
  <2>1. Published(r) \in heard' /\ Published(r).id = r.id
    BY <1>3 DEF Lands, Published
  <2> QED
    BY <2>1 DEF Took, Granted
<1> QED
  BY <1>1, <1>2, <1>3 DEF Landing, ToBroker

\* One request moves and nothing else.
LEMMA OneMoves ==
  ASSUME GrantInv, NEW p \in Procs, UNCHANGED <<game, history, issued>>,
         \A q \in Procs \ {p} : req'[q] = req[q],
         \/ req'[p] = NoRequest
         \/ req[p] # NoRequest /\ req'[p].id = req[p].id /\ RequestSound(req'[p])
  PROVE  GrantInv'
<1>1. \A q \in Procs : RequestSound(req[q])'
  BY DEF Planned, GrantInv, RequestSound, Took, Granted, game
<1>2. OwnIds'
  BY DEF GrantInv, OwnIds
<1> QED
  BY <1>1, <1>2 DEF Apart, Overlapped, GrantInv, Of, Took, Granted, game

\* A request in flight is a record of what was sent.
InForce(r) ==
  r = [pc |-> r.pc, id |-> r.id, kind |-> r.kind, arg |-> r.arg, ok |-> r.ok,
       seen |-> r.seen, taken |-> r.taken]

\* Several requests end, of which some that are at their write have landed.
LEMMA CutKeepsGrants ==
  ASSUME GrantInv, NEW ps \in SUBSET Procs, Cut(ps), UNCHANGED <<history, issued>>
  PROVE  GrantInv'
<1>1. PICK done \in SUBSET Writing(ps) : Lands(done)
  BY DEF Cut
<1>2. req' = [p \in Procs |-> IF p \in ps THEN NoRequest ELSE req[p]]
  BY DEF Cut
<1>3. \A r \in done : \E p \in Procs : p \in ps /\ r = req[p] /\ r.pc = "write"
  BY DEF Writing, Cut
<1>4. \A r \in done : r # NoRequest /\ RequestSound(r) /\ r.pc = "write"
  BY <1>3 DEF GrantInv, NoRequest
<1>5. \A r1, r2 \in done : r1.id = r2.id => r1 = r2
  BY <1>3, <1>4 DEF GrantInv, OwnIds
<1>6. \A r \in done : r.kind = "grant" =>
          Planned(r.seen, r.arg.quantity) /\ r.id \notin Granted
  BY <1>4 DEF RequestSound
<1>7. Apart' /\ \A item \in backpack' : Cardinality(Of(item.by)') = item.of
  <2>1. Apart'
    BY <1>1, <1>5, <1>6, LandsApart DEF GrantInv
  <2> QED
    BY <1>1, <1>5, <1>6, <2>1, LandsWhole DEF GrantInv
<1>8. \A item \in backpack' \ backpack : \E r \in done : item.by = r.id
  BY <1>1 DEF Lands, Inserted
<1>9. \A item \in backpack' : item.by \in 1..issued
  BY <1>4, <1>8 DEF GrantInv, RequestSound
<1>10. \A q \in Procs : RequestSound(req[q])'
  <2> SUFFICES ASSUME NEW q \in Procs, q \notin ps, req[q] # NoRequest
               PROVE  RequestSound(req[q])'
    BY <1>2 DEF RequestSound
  <2>1. req'[q] = req[q] /\ RequestSound(req[q])
    BY <1>2 DEF GrantInv
  <2>2. \A r \in done : r.id # req[q].id
    BY <1>3, <1>4 DEF GrantInv, OwnIds
  <2>3. req[q].pc # "record" => req[q].id \notin Granted'
    BY <1>8, <2>1, <2>2 DEF RequestSound, Granted
  <2> PICK n : n = req[q].id
    OBVIOUS
  <2>4. Took(n) => Took(n)'
    BY <1>1, LandsKeeps
  <2>5. req[q].pc = "record" /\ req[q].ok => Took(n)
    BY <2>1 DEF RequestSound
  <2>6. req[q].pc = "write" /\ req[q].kind = "grant" =>
          Planned(req[q].seen, req[q].arg.quantity)'
    BY <1>1, <1>2, <1>6, <2>1, LandsKeepsPlan DEF RequestSound
  <2> QED
    BY <2>1, <2>3, <2>4, <2>5, <2>6 DEF RequestSound
<1>11. \A row \in history : row.ok => Took(row.id)'
  BY <1>1, LandsKeeps DEF GrantInv
<1>12. OwnIds'
  BY <1>2 DEF GrantInv, OwnIds
<1> QED
  BY <1>7, <1>9, <1>10, <1>11, <1>12 DEF GrantInv, Took, Granted

\* A handler's write: it lands, or not, and is about to be recorded.
LEMMA WritesKeepGrants ==
  ASSUME CatalogInv, GrantInv, NEW p \in Procs, Writes(p)
  PROVE  GrantInv'
<1> DEFINE r == req[p]
<1>1. r.pc = "write" /\ r # NoRequest /\ UNCHANGED <<history, issued>>
  BY DEF Writes, store, NoRequest
<1>2. PICK ok \in BOOLEAN : Outcome(p, ok) /\ (Lands({r}) \/ (UNCHANGED game /\ ok = FALSE))
  BY DEF Writes
<1>3. /\ req'[p] = [pc |-> "record", id |-> r.id, kind |-> r.kind, arg |-> r.arg, ok |-> ok,
                    seen |-> r.seen, taken |-> r.taken]
      /\ \A q \in Procs \ {p} : req'[q] = req[q]
  <2>1. InForce(r)
    BY <1>1 DEF CatalogInv, RequestTyped, InForce
  <2>2. req' = [req EXCEPT ![p].pc = "record", ![p].ok = ok]
    BY <1>2 DEF Outcome
  <2> QED
    BY <2>1, <2>2 DEF CatalogInv, InForce
<1>4. RequestSound(r)
  BY DEF GrantInv
<1>5. CASE UNCHANGED game /\ ok = FALSE
  <2>1. RequestSound(req'[p])
    BY <1>1, <1>3, <1>4, <1>5 DEF RequestSound
  <2> QED
    BY <1>1, <1>3, <1>5, <2>1, OneMoves
<1>6. CASE Lands({r})
  <2>1. r.kind = "grant" => Planned(r.seen, r.arg.quantity) /\ r.id \notin Granted
    BY <1>1, <1>4 DEF RequestSound
  <2>2. Apart' /\ \A item \in backpack' : Cardinality(Of(item.by)') = item.of
    BY <1>6, <2>1, LandsWhole, LandsApart DEF GrantInv
  <2>3. \A item \in backpack' \ backpack : item.by = r.id
    BY <1>6 DEF Lands, Inserted
  <2>4. \A item \in backpack' : item.by \in 1..issued
    BY <1>1, <1>4, <2>3 DEF GrantInv, RequestSound
  <2> PICK s : s = r
    OBVIOUS
  <2>5. Took(s.id)'
    BY <1>1, <1>4, <1>6, LandsTook DEF RequestSound
  <2>6. RequestSound(req[p])'
    BY <1>1, <1>3, <1>4, <2>5 DEF RequestSound, Took, Granted
  <2>7. ASSUME NEW q \in Procs \ {p} PROVE RequestSound(req[q])'
    <3>1. req'[q] = req[q] /\ RequestSound(req[q])
      BY <1>3 DEF GrantInv
    <3>2. req[q] # NoRequest => req[q].id # r.id
      BY <1>1 DEF GrantInv, OwnIds
    <3> PICK n : n = req[q].id
      OBVIOUS
    <3>3. Took(n) => Took(n)'
      BY <1>6, LandsKeeps
    <3>4. req[q].pc = "record" /\ req[q].ok /\ req[q] # NoRequest => Took(n)
      BY <3>1 DEF RequestSound
    <3>5. req[q] # NoRequest /\ req[q].pc = "write" /\ req[q].kind = "grant" =>
            Planned(req[q].seen, req[q].arg.quantity)'
      BY <1>6, <2>1, <3>1, LandsKeepsPlan DEF RequestSound
    <3>6. req[q] # NoRequest /\ req[q].pc # "record" => req[q].id \notin Granted'
      BY <2>3, <3>1, <3>2 DEF RequestSound, Granted
    <3> QED
      BY <1>1, <3>1, <3>3, <3>4, <3>5, <3>6 DEF RequestSound
  <2>8. \A row \in history : row.ok => Took(row.id)'
    BY <1>6, LandsKeeps DEF GrantInv
  <2>9. OwnIds'
    BY <1>1, <1>3 DEF GrantInv, OwnIds, NoRequest
  <2> QED
    BY <1>1, <2>2, <2>4, <2>6, <2>7, <2>8, <2>9 DEF GrantInv, Took, Granted
<1> QED
  BY <1>2, <1>5, <1>6

\* The handlers' other steps move one request.
LEMMA HandlersKeepGrants ==
  ASSUME CatalogInv, GrantInv, NEW p \in Procs, Handles(p)
  PROVE  GrantInv'
<1> DEFINE r == req[p]
<1>1. \A q \in Procs \ {p} : req'[q] = req[q]
  BY DEF CatalogInv, Handles, Checks, ResolvesPlayer, ResolvesChat, PlansGrant, Publishes, Writes,
         Records, SavesField, ComparesCatalog, StoresCatalog, RevertsCatalog, Drops, Cut, Go,
         Answered, Outcome
<1>2. r # NoRequest => InForce(r)
  BY DEF CatalogInv, RequestTyped, InForce
<1>3. RequestSound(r)
  BY DEF GrantInv
<1>4. ASSUME Answered(p) PROVE req'[p] = NoRequest
  BY <1>4 DEF Answered, CatalogInv
<1>5. ASSUME NEW pc, Go(p, pc), r # NoRequest
      PROVE  req'[p] = [pc |-> pc, id |-> r.id, kind |-> r.kind, arg |-> r.arg, ok |-> r.ok,
                        seen |-> r.seen, taken |-> r.taken]
  BY <1>2, <1>5 DEF Go, CatalogInv, InForce
<1>6. ASSUME Outcome(p, FALSE), r # NoRequest
      PROVE  req'[p] = [pc |-> "record", id |-> r.id, kind |-> r.kind, arg |-> r.arg,
                        ok |-> FALSE, seen |-> r.seen, taken |-> r.taken]
  BY <1>2, <1>6 DEF Outcome, CatalogInv, InForce
<1>7. CASE Checks(p)
  <2>1. At(p, {"grant", "level", "publish", "whisper"}, "start")
        /\ UNCHANGED <<game, history, issued>>
    BY <1>7 DEF Checks, store
  <2>2. \/ Answered(p)
        \/ /\ r.kind = "publish" => Go(p, "queue")
           /\ r.kind # "publish" => Go(p, "resolve")
           /\ r.kind = "grant" => Grantable(Arg(p))
    <3>1. \/ Answered(p)
          \/ /\ Go(p, IF req[p].kind = "publish" THEN "queue" ELSE "resolve")
             /\ req[p].kind = "grant" => Grantable(Arg(p))
      BY <1>7, Zenon DEF Checks
    <3> QED
      BY <3>1
  <2>3. r # NoRequest
    BY <2>1 DEF At, NoRequest
  <2>4. CASE ~Answered(p)
    <3>1. PICK pc \in {"queue", "resolve"} :
            Go(p, pc) /\ (r.kind = "grant" => Grantable(Arg(p)))
      BY <2>2, <2>4
    <3>2. req'[p] = [pc |-> pc, id |-> r.id, kind |-> r.kind, arg |-> r.arg, ok |-> r.ok,
                     seen |-> r.seen, taken |-> r.taken]
      BY <1>5, <2>3, <3>1
    <3>3. RequestSound(req'[p])
      BY <1>3, <2>1, <2>3, <3>1, <3>2 DEF RequestSound, At, Grantable, OfCustomTier, Arg
    <3> QED
      BY <1>1, <2>1, <2>3, <3>2, <3>3, OneMoves
  <2> QED
    BY <1>1, <1>4, <2>1, <2>4, OneMoves
<1>8. CASE ResolvesPlayer(p)
  <2>1. At(p, {"grant", "level"}, "resolve") /\ UNCHANGED <<game, history, issued>>
    BY <1>8 DEF ResolvesPlayer, store
  <2>2. r # NoRequest
    BY <2>1 DEF At, NoRequest
  <2>3. \/ Answered(p)
        \/ \E pc : Go(p, pc) /\ pc = (IF r.kind = "grant" THEN "plan" ELSE "write")
    BY <1>8 DEF ResolvesPlayer
  <2>4. ASSUME NEW pc, Go(p, pc), pc = (IF r.kind = "grant" THEN "plan" ELSE "write")
        PROVE  GrantInv'
    <3>1. req'[p] = [pc |-> pc, id |-> r.id, kind |-> r.kind, arg |-> r.arg, ok |-> r.ok,
                     seen |-> r.seen, taken |-> r.taken]
      BY <1>5, <2>2, <2>4
    <3>2. RequestSound(req'[p])
      BY <1>3, <2>1, <2>2, <2>4, <3>1 DEF RequestSound, At, Landing
    <3> QED
      BY <1>1, <2>1, <2>2, <3>1, <3>2, OneMoves
  <2> QED
    BY <1>1, <1>4, <2>1, <2>3, <2>4, OneMoves
<1>9. CASE ResolvesChat(p) \/ Publishes(p)
  <2>1. /\ At(p, ToBroker, "resolve") \/ At(p, ToBroker, "queue")
        /\ UNCHANGED <<game, history, issued>>
    BY <1>9 DEF ResolvesChat, Publishes, store, At, ToBroker
  <2>2. r # NoRequest
    BY <2>1 DEF At, NoRequest
  <2>3. \/ Answered(p)
        \/ Outcome(p, FALSE)
        \/ \E pc \in {"queue", "write"} : Go(p, pc)
    BY <1>9 DEF ResolvesChat, Publishes
  <2>4. ASSUME NEW pc \in {"queue", "write"}, Go(p, pc) PROVE GrantInv'
    <3>1. req'[p] = [pc |-> pc, id |-> r.id, kind |-> r.kind, arg |-> r.arg, ok |-> r.ok,
                     seen |-> r.seen, taken |-> r.taken]
      BY <1>5, <2>2, <2>4
    <3>2. RequestSound(req'[p])
      BY <1>3, <2>1, <2>2, <3>1 DEF RequestSound, At, Landing, ToBroker
    <3> QED
      BY <1>1, <2>1, <2>2, <3>1, <3>2, OneMoves
  <2>5. CASE Outcome(p, FALSE)
    <3>1. RequestSound(req'[p])
      BY <1>3, <1>6, <2>1, <2>2, <2>5 DEF RequestSound, At
    <3> QED
      BY <1>1, <1>6, <2>1, <2>2, <2>5, <3>1, OneMoves
  <2> QED
    BY <1>1, <1>4, <2>1, <2>3, <2>4, <2>5, OneMoves
<1>10. CASE PlansGrant(p)
  <2>1. At(p, {"grant"}, "plan") /\ UNCHANGED <<game, history, issued>>
    BY <1>10 DEF PlansGrant, store
  <2>2. r # NoRequest
    BY <2>1 DEF At, NoRequest
  <2>3. /\ req'[p].id = r.id /\ req'[p].kind = r.kind /\ req'[p].arg = r.arg
        /\ \/ req'[p].pc = "record" /\ req'[p].ok = FALSE
           \/ /\ req'[p].pc = "write"
              /\ Planned(req'[p].seen, r.arg.quantity)
    <3>1. RequestTyped(p) /\ req = [q \in Procs |-> req[q]]
      BY DEF CatalogInv
    <3>2. req'[p] = [pc |-> req'[p].pc, id |-> r.id, kind |-> r.kind, arg |-> r.arg,
                     ok |-> req'[p].ok, seen |-> req'[p].seen, taken |-> r.taken]
      BY <1>10, <3>1, PlanMoves
    <3>3. req'[p].id = r.id /\ req'[p].kind = r.kind /\ req'[p].arg = r.arg
      BY <3>2
    <3> QED
      BY <1>10, <3>1, <3>3, PlanMoves
  <2>4. RequestSound(req'[p])
    BY <1>3, <2>1, <2>2, <2>3 DEF RequestSound, At, Landing
  <2> QED
    BY <1>1, <2>1, <2>2, <2>3, <2>4, OneMoves
<1>11. CASE Records(p)
  <2>1. r # NoRequest /\ r.pc = "record" /\ req'[p] = NoRequest /\ UNCHANGED <<game, issued>>
    BY <1>4, <1>11 DEF Records, NoRequest
  <2>2. \A row \in history' \ history : row.id = r.id /\ row.ok = r.ok
    BY <1>11 DEF Records, Row
  <2>3. \A row \in history' : row.ok => Took(row.id)
    BY <1>3, <2>1, <2>2 DEF RequestSound, GrantInv
  <2>4. \A q \in Procs : RequestSound(req[q])'
    BY <1>1, <2>1 DEF Planned, GrantInv, RequestSound, Took, Granted, game
  <2>5. OwnIds'
    BY <1>1, <2>1 DEF GrantInv, OwnIds
  <2> QED
    BY <2>1, <2>3, <2>4, <2>5 DEF Apart, Overlapped, GrantInv, Of, Took, Granted, game
<1>12. CASE SavesField(p)
  <2>1. At(p, {"save"}, "start") /\ UNCHANGED <<game, history, issued>>
    BY <1>12 DEF SavesField
  <2>2. r # NoRequest
    BY <2>1 DEF At, NoRequest
  <2>3. Answered(p) \/ \E i : req' = [req EXCEPT ![p].taken = i]
    <3> HIDE DEF Answered
    <3> QED
      BY <1>12, Zenon DEF SavesField
  <2>4. ASSUME NEW i, req' = [req EXCEPT ![p].taken = i] PROVE GrantInv'
    <3>1. req'[p] = [pc |-> r.pc, id |-> r.id, kind |-> r.kind, arg |-> r.arg, ok |-> r.ok,
                     seen |-> r.seen, taken |-> i]
      BY <1>2, <2>2, <2>4 DEF CatalogInv, InForce
    <3>2. RequestSound(req'[p])
      BY <1>3, <2>1, <2>2, <3>1 DEF RequestSound, At
    <3> QED
      BY <1>1, <2>1, <2>2, <3>1, <3>2, OneMoves
  <2> QED
    BY <1>1, <1>4, <2>1, <2>3, <2>4, OneMoves
<1>13. CASE ComparesCatalog(p)
  <2>1. At(p, {"apply"}, "start") /\ UNCHANGED <<game, history, issued>>
    BY <1>13 DEF ComparesCatalog, store
  <2>2. r # NoRequest
    BY <2>1 DEF At, NoRequest
  <2>3. Answered(p) \/ \E K : req' = [req EXCEPT ![p].pc = "store", ![p].seen = K]
    BY <1>13 DEF ComparesCatalog
  <2>4. ASSUME NEW K, req' = [req EXCEPT ![p].pc = "store", ![p].seen = K] PROVE GrantInv'
    <3>1. req'[p] = [pc |-> "store", id |-> r.id, kind |-> r.kind, arg |-> r.arg, ok |-> r.ok,
                     seen |-> K, taken |-> r.taken]
      BY <1>2, <2>2, <2>4 DEF CatalogInv, InForce
    <3>2. RequestSound(req'[p])
      BY <1>3, <2>1, <2>2, <3>1 DEF RequestSound, At
    <3> QED
      BY <1>1, <2>1, <2>2, <3>1, <3>2, OneMoves
  <2> QED
    BY <1>1, <1>4, <2>1, <2>3, <2>4, OneMoves
<1>14. CASE StoresCatalog(p) \/ RevertsCatalog(p)
  BY <1>1, <1>4, <1>14, OneMoves DEF StoresCatalog, RevertsCatalog
<1>15. CASE Drops(p)
  BY <1>15, CutKeepsGrants DEF Drops, store
<1> QED
  BY <1>7, <1>8, <1>9, <1>10, <1>11, <1>12, <1>13, <1>14, <1>15, WritesKeepGrants DEF Handles

LEMMA NextGrants == CatalogInv /\ GrantInv /\ [MSNext]_vars => GrantInv'
<1> SUFFICES ASSUME CatalogInv, GrantInv, [MSNext]_vars PROVE GrantInv'
  OBVIOUS
<1>1. ASSUME NEW p \in Procs, Handles(p) PROVE GrantInv'
  BY <1>1, HandlersKeepGrants
<1>2. ASSUME NEW p \in Procs, NEW r \in Requests, Ask(p, r) PROVE GrantInv'
  <2>1. /\ UNCHANGED <<game, history>> /\ issued' = issued + 1 /\ req[p] = NoRequest
        /\ \A q \in Procs \ {p} : req'[q] = req[q]
        /\ req'[p] = [pc |-> "start", id |-> issued + 1, kind |-> r.kind, arg |-> r.arg,
                      ok |-> FALSE, seen |-> {}, taken |-> 0]
    BY <1>2 DEF Ask, CatalogInv, store
  <2>2. \A item \in backpack : item.by # issued + 1
    BY DEF GrantInv
  <2>3. RequestSound(req[p])'
    BY <2>1, <2>2 DEF RequestSound, GrantInv, game, Granted
  <2>4. \A q \in Procs \ {p} : RequestSound(req[q])'
    BY <2>1 DEF Planned, RequestSound, GrantInv, game, Took, Granted
  <2>5. OwnIds'
    <3>1. \A q \in Procs : req[q] # NoRequest => req[q].id # issued + 1
      BY DEF GrantInv, RequestSound
    <3> QED
      BY <2>1, <3>1 DEF GrantInv, OwnIds
  <2> QED
    BY <2>1, <2>3, <2>4, <2>5 DEF Apart, Overlapped, GrantInv, Of, Took, Granted, game
<1>3. CASE Killed \/ Crashes
  <2>1. Cut(InFlight) /\ UNCHANGED <<history, issued>> /\ InFlight \in SUBSET Procs
    BY <1>3 DEF Killed, Crashes, store, InFlight
  <2> QED
    BY <2>1, CutKeepsGrants
<1>4. ASSUME UNCHANGED <<req, history, game>>, issued' \in {issued, issued + 1} PROVE GrantInv'
  <2>1. issued' \in Nat /\ 1..issued \subseteq 1..issued'
    BY <1>4 DEF GrantInv
  <2>2. \A q \in Procs : RequestSound(req[q])'
    BY <1>4, <2>1 DEF Planned, GrantInv, RequestSound, Took, Granted, game
  <2> QED
    BY <1>4, <2>1, <2>2 DEF Apart, Overlapped, GrantInv, OwnIds, Of, Took, Granted, game
<1>5. ASSUME NEW p \in Procs, Commands(p) PROVE issued' \in {issued, issued + 1}
  BY <1>5 DEF Commands, Begins, Discovers, Stops, Prepares, Uploads, WritesToken, InstallsUnit,
       Enables, Restarts, Verifies, Removes, StepFails, StepIgnored, HostUnchanged
<1>6. CASE StopEnds \/ Respawns \/ HostBoots \/ UNCHANGED vars
  BY <1>4, <1>6 DEF StopEnds, Respawns, HostBoots, HostUnchanged, vars, apiVars, store
<1>7. ASSUME NEW p \in Procs, Commands(p) PROVE GrantInv'
  BY <1>4, <1>5, <1>7, CommandsLeaveRequests DEF store
<1> QED
  BY <1>1, <1>2, <1>3, <1>6, <1>7 DEF MSNext, ApiSteps, ApiNext

\* However handlers interleave, end or are killed, a grant is in the backpack with as many
\* items as it asked for or not at all, only grants that overlapped share a slot, and a row
\* that says done is true.
THEOREM GrantsAreWholeHolds == Spec => []GrantsAreWhole
<1>1. GrantInv => GrantsAreWhole
  BY DEF GrantInv, GrantsAreWhole, Of, Apart
<1> QED
  BY <1>1, InitCatalog, NextCatalog, InitGrants, NextGrants, PTL DEF Spec

--------------------------------------------------------------------------------
(* Types.                                                                     *)

RequestPlaced(r) == r.pc \in Points /\ (r # NoRequest => r.ok \in BOOLEAN)

OpTyped(o) ==
  \/ o = NoOp
  \/ /\ o = [pc |-> o.pc, kind |-> o.kind, version |-> o.version, token |-> o.token,
             halted |-> o.halted, quiet |-> o.quiet]
     /\ o.kind \in {"install", "restart", "uninstall"}
     /\ o.pc \in DOMAIN Steps(o.kind)
     /\ o.kind = "install" => o.version \in Versions /\ o.token \in Tokens \cup {None}

OpsTyped == op = [p \in Procs |-> op[p]] /\ \A p \in Procs : OpTyped(op[p])

HostTyped ==
  /\ files = [init |-> files.init, dirs |-> files.dirs, binary |-> files.binary,
              unit |-> files.unit, token |-> files.token]
  /\ files.binary \in Versions \cup {OldVersion, Absent}
  /\ files.token \in Tokens \cup {None}
  /\ runs.version \in Versions \cup {OldVersion, Absent}

ApiTyped ==
  /\ phase \in Phases /\ DOMAIN env = Settings
  /\ override = NoCatalog \/ Valid(override)
  /\ \A row \in history : row.id \in 1..issued /\ row.ok \in BOOLEAN
  /\ excused \subseteq 1..issued /\ edited \subseteq 1..issued
  /\ \A item \in backpack : item.slot \in Slots
  /\ \A p \in Procs : RequestPlaced(req[p])
  /\ issued \in 0..MaxCommands /\ faults \in 0..MaxFaults

LEMMA InitTypes == MSInit => ApiTyped /\ HostTyped /\ OpsTyped
<1> SUFFICES ASSUME MSInit PROVE ApiTyped /\ HostTyped /\ OpsTyped
  OBVIOUS
<1>1. DOMAIN env = Settings
  BY DEF MSInit, Init, Load
<1>2. \A p \in Procs : RequestPlaced(req[p])
  BY DEF MSInit, Init, RequestPlaced, Points, NoRequest
<1>3. phase \in Phases /\ issued \in 0..MaxCommands /\ faults \in 0..MaxFaults
  BY ApiBounds DEF MSInit, Init, Phases
<1>4. ApiTyped
  BY <1>1, <1>2, <1>3 DEF MSInit, Init, ApiTyped
<1>5. HostTyped
  <2>1. PICK init \in {"systemd", "openrc"}, set \in BOOLEAN, binary \in {Absent, OldVersion} :
          files = Host(init, set, binary)
    BY Zenon DEF MSInit
  <2>2. files = [init |-> init, dirs |-> set, binary |-> binary, unit |-> set, token |-> None]
    BY <2>1 DEF Host
  <2>3. runs = [version |-> Absent, token |-> None]
    BY DEF MSInit
  <2> QED
    BY <2>2, <2>3 DEF HostTyped
<1>6. OpsTyped
  BY DEF MSInit, OpsTyped, OpTyped, NoOp
<1> QED
  BY <1>4, <1>5, <1>6

\* A command has finitely many steps, one after the other.
LEMMA StepsAreCounted ==
  \A kind \in {"install", "restart", "uninstall"} :
    Len(Steps(kind)) \in Nat \ {0} /\ DOMAIN Steps(kind) = 1..Len(Steps(kind))
<1>1. Steps("install") = InstallSteps /\ Steps("restart") = <<"restart">>
      /\ Steps("uninstall") = <<"disable", "remove">>
  BY DEF Steps
<1>2. Len(InstallSteps) = 8 /\ DOMAIN InstallSteps = 1..8
  BY DEF InstallSteps
<1>3. Len(<<"restart">>) = 1 /\ DOMAIN <<"restart">> = 1..1
  OBVIOUS
<1>4. Len(<<"disable", "remove">>) = 2 /\ DOMAIN <<"disable", "remove">> = 1..2
  OBVIOUS
<1> SUFFICES ASSUME NEW kind \in {"install", "restart", "uninstall"}
             PROVE  \E n \in {8, 1, 2} : Len(Steps(kind)) = n /\ DOMAIN Steps(kind) = 1..n
  OBVIOUS
<1>5. CASE kind = "install"
  BY <1>1, <1>2, <1>5, Zenon
<1>6. CASE kind = "restart"
  BY <1>1, <1>3, <1>6, Zenon
<1>7. CASE kind = "uninstall"
  BY <1>1, <1>4, <1>7, Zenon
<1> QED
  BY <1>5, <1>6, <1>7

\* To be disturbed changes no type.
LEMMA DisturbTypes ==
  ASSUME OpsTyped, NEW p \in Procs
  PROVE  OpTyped(Disturb(op)[p])
<1> DEFINE o == op[p]
<1>1. CASE o = NoOp
  BY <1>1 DEF Disturb, OpTyped
<1>2. CASE o # NoOp
  <2>1. o = [pc |-> o.pc, kind |-> o.kind, version |-> o.version, token |-> o.token,
             halted |-> o.halted, quiet |-> o.quiet]
    BY <1>2 DEF OpsTyped, OpTyped
  <2>2. Disturb(op)[p] = [o EXCEPT !.quiet = FALSE]
    BY <1>2 DEF Disturb
  <2>3. Disturb(op)[p] = [pc |-> o.pc, kind |-> o.kind, version |-> o.version,
                          token |-> o.token, halted |-> o.halted, quiet |-> FALSE]
    BY <2>1, <2>2
  <2> QED
    BY <1>2, <2>3 DEF OpsTyped, OpTyped
<1> QED
  BY <1>1, <1>2

\* A command goes on, waits or ends.
LEMMA StepTypes ==
  ASSUME OpsTyped, NEW p \in Procs, Busy(p), Passes(p) \/ Fails(p) \/ Waits(p)
  PROVE  OpsTyped'
<1> DEFINE o == op[p]
<1>1. /\ o = [pc |-> o.pc, kind |-> o.kind, version |-> o.version, token |-> o.token,
              halted |-> o.halted, quiet |-> o.quiet]
      /\ o.kind \in {"install", "restart", "uninstall"}
      /\ o.pc \in 1..Len(Steps(o.kind)) /\ Len(Steps(o.kind)) \in Nat
      /\ DOMAIN Steps(o.kind) = 1..Len(Steps(o.kind))
  BY StepsAreCounted DEF OpsTyped, OpTyped, Busy
<1>2. op' = [q \in Procs |-> op'[q]] /\ \A q \in Procs \ {p} : op'[q] = op[q]
  BY DEF OpsTyped, Passes, Fails, Waits
<1>3. \/ op'[p] = NoOp
      \/ o.pc # Len(Steps(o.kind)) /\ op'[p] = [o EXCEPT !.pc = o.pc + 1, !.halted = FALSE]
      \/ op'[p] = [o EXCEPT !.halted = TRUE]
  BY DEF OpsTyped, Passes, Fails, Waits
<1>4. OpTyped(op'[p])
  <2>1. CASE op'[p] = NoOp
    BY <2>1 DEF OpTyped
  <2>2. CASE o.pc # Len(Steps(o.kind)) /\ op'[p] = [o EXCEPT !.pc = o.pc + 1, !.halted = FALSE]
    <3>1. op'[p] = [pc |-> o.pc + 1, kind |-> o.kind, version |-> o.version, token |-> o.token,
                    halted |-> FALSE, quiet |-> o.quiet]
      BY <1>1, <2>2
    <3>2. o.pc + 1 \in DOMAIN Steps(o.kind)
      BY <1>1, <2>2
    <3> QED
      BY <1>1, <3>1, <3>2 DEF OpTyped, OpsTyped, NoOp
  <2>3. CASE op'[p] = [o EXCEPT !.halted = TRUE]
    <3>1. op'[p] = [pc |-> o.pc, kind |-> o.kind, version |-> o.version, token |-> o.token,
                    halted |-> TRUE, quiet |-> o.quiet]
      BY <1>1, <2>3
    <3> QED
      BY <1>1, <3>1 DEF OpTyped, OpsTyped, NoOp
  <2> QED
    BY <1>3, <2>1, <2>2, <2>3
<1> QED
  BY <1>2, <1>4 DEF OpsTyped

\* One request moves and nothing else.
LEMMA OneIsPlaced ==
  ASSUME ApiTyped, NEW p \in Procs, \A q \in Procs \ {p} : req'[q] = req[q],
         RequestPlaced(req'[p]),
         UNCHANGED <<phase, env, override, game, history, excused, issued, faults>>
  PROVE  ApiTyped'
BY DEF ApiTyped, RequestPlaced, game

\* What requests in flight leave in the game is in slots and theirs.
LEMMA LandsTyped ==
  ASSUME ApiTyped, GrantInv, NEW rs, Lands(rs),
         \A r \in rs : r # NoRequest /\ r.pc = "write" /\ RequestSound(r)
  PROVE  edited' \subseteq 1..issued /\ \A item \in backpack' : item.slot \in Slots
<1>1. edited' \subseteq 1..issued
  BY DEF Lands, ApiTyped, RequestSound
<1>2. ASSUME NEW item \in backpack', item \notin backpack PROVE item.slot \in Slots
  <2>1. PICK r \in rs : r.kind = "grant" /\ item \in Inserted(r)
    BY <1>2 DEF Lands
  <2>2. r.seen.slots \in SUBSET Slots
    BY <2>1 DEF RequestSound, Planned
  <2> QED
    BY <2>1, <2>2 DEF Inserted
<1> QED
  BY <1>1, <1>2 DEF ApiTyped

LEMMA CutTyped ==
  ASSUME ApiTyped, GrantInv, NEW ps \in SUBSET Procs, Cut(ps), \A p \in ps : req[p] # NoRequest
  PROVE  /\ excused' \subseteq 1..issued /\ edited' \subseteq 1..issued
         /\ \A item \in backpack' : item.slot \in Slots
         /\ \A p \in Procs : RequestPlaced(req'[p])
<1>1. \A p \in ps : RequestSound(req[p]) /\ req[p].id \in 1..issued
  BY DEF GrantInv, RequestSound
<1>2. excused' \subseteq 1..issued
  BY <1>1 DEF Cut, Excuse, ApiTyped
<1>3. \A p \in Procs : RequestPlaced(req'[p])
  BY DEF Cut, ApiTyped, RequestPlaced, NoRequest, Points
<1>4. PICK done \in SUBSET Writing(ps) : Lands(done)
  BY DEF Cut
<1>5. \A r \in done : r # NoRequest /\ r.pc = "write" /\ RequestSound(r)
  BY <1>1 DEF Writing
<1> QED
  BY <1>2, <1>3, <1>4, <1>5, LandsTyped

\* Faults are counted up to their bound.
LEMMA FaultCounts ==
  ASSUME faults \in 0..MaxFaults, UNCHANGED faults \/ Fault
  PROVE  faults' \in 0..MaxFaults
BY ApiBounds DEF Fault

LEMMA WritesTyped ==
  ASSUME CatalogInv, GrantInv, ApiTyped, NEW p \in Procs, Writes(p)
  PROVE  ApiTyped'
<1> DEFINE r == req[p]
<1>1. /\ r.pc = "write" /\ r # NoRequest /\ RequestSound(r)
      /\ UNCHANGED <<phase, env, override, history, issued>>
  BY DEF Writes, store, NoRequest, GrantInv
<1>2. PICK ok \in BOOLEAN : Outcome(p, ok) /\ (Lands({r}) \/ UNCHANGED game)
  BY DEF Writes
<1>3. /\ req'[p] = [pc |-> "record", id |-> r.id, kind |-> r.kind, arg |-> r.arg, ok |-> ok,
                    seen |-> r.seen, taken |-> r.taken]
      /\ \A q \in Procs \ {p} : req'[q] = req[q]
  <2>1. InForce(r)
    BY <1>1 DEF CatalogInv, RequestTyped, InForce
  <2>2. req' = [req EXCEPT ![p].pc = "record", ![p].ok = ok]
    BY <1>2 DEF Outcome
  <2> QED
    BY <2>1, <2>2 DEF CatalogInv, InForce
<1>4. \A q \in Procs : RequestPlaced(req'[q])
  BY <1>3 DEF ApiTyped, RequestPlaced, Points
<1>5. excused' \subseteq 1..issued /\ faults' \in 0..MaxFaults
  <2>1. \/ UNCHANGED <<excused, faults>>
        \/ excused' = excused \cup {r.id} /\ faults < MaxFaults /\ faults' = faults + 1
    BY DEF Writes, Excuse, Fault
  <2>2. r.id \in 1..issued
    BY <1>1 DEF RequestSound
  <2>3. excused' \subseteq 1..issued
    BY <2>1, <2>2 DEF ApiTyped
  <2>4. faults' \in 0..MaxFaults
    BY <2>1, FaultCounts DEF ApiTyped, Fault
  <2> QED
    BY <1>1, <2>3, <2>4
<1>6. edited' \subseteq 1..issued /\ \A item \in backpack' : item.slot \in Slots
  <2>1. CASE Lands({r})
    BY <1>1, <2>1, LandsTyped
  <2>2. CASE UNCHANGED game
    BY <2>2 DEF game, ApiTyped
  <2> QED
    BY <1>2, <2>1, <2>2
<1> QED
  BY <1>1, <1>4, <1>5, <1>6 DEF ApiTyped

\* The handlers' other steps.
LEMMA HandlersTyped ==
  ASSUME CatalogInv, GrantInv, ApiTyped, NEW p \in Procs, Handles(p)
  PROVE  ApiTyped'
<1> DEFINE r == req[p]
<1>1. \A q \in Procs \ {p} : req'[q] = req[q]
  BY DEF CatalogInv, Handles, Checks, ResolvesPlayer, ResolvesChat, PlansGrant, Publishes, Writes,
         Records, SavesField, ComparesCatalog, StoresCatalog, RevertsCatalog, Drops, Cut, Go,
         Answered, Outcome
<1>2. RequestPlaced(r) /\ (r # NoRequest => InForce(r) /\ r.id \in 1..issued)
  BY DEF CatalogInv, RequestTyped, InForce, ApiTyped, GrantInv, RequestSound
<1>3. ASSUME Answered(p) PROVE RequestPlaced(req'[p])
  BY <1>3 DEF Answered, CatalogInv, RequestPlaced, Points, NoRequest
<1>4. ASSUME NEW pc \in Points, Go(p, pc), r # NoRequest PROVE RequestPlaced(req'[p])
  <2>1. req'[p] = [pc |-> pc, id |-> r.id, kind |-> r.kind, arg |-> r.arg, ok |-> r.ok,
                   seen |-> r.seen, taken |-> r.taken]
    BY <1>2, <1>4 DEF Go, CatalogInv, InForce
  <2> QED
    BY <1>2, <1>4, <2>1 DEF RequestPlaced
<1>5. ASSUME Outcome(p, FALSE), r # NoRequest PROVE RequestPlaced(req'[p])
  <2>1. req'[p] = [pc |-> "record", id |-> r.id, kind |-> r.kind, arg |-> r.arg,
                   ok |-> FALSE, seen |-> r.seen, taken |-> r.taken]
    BY <1>2, <1>5 DEF Outcome, CatalogInv, InForce
  <2> QED
    BY <2>1 DEF RequestPlaced, Points
<1>6. CASE Checks(p)
  <2>1. At(p, {"grant", "level", "publish", "whisper"}, "start")
        /\ UNCHANGED <<phase, env, store, game, excused, issued, faults>>
    BY <1>6 DEF Checks
  <2>2. Answered(p) \/ Go(p, "queue") \/ Go(p, "resolve")
    <3>1. Answered(p) \/ Go(p, IF req[p].kind = "publish" THEN "queue" ELSE "resolve")
      BY <1>6, Zenon DEF Checks
    <3> QED
      BY <3>1
  <2>3. r # NoRequest
    BY <2>1 DEF At, NoRequest
  <2>4. RequestPlaced(req'[p])
    BY <1>3, <1>4, <2>2, <2>3 DEF Points
  <2> QED
    BY <1>1, <2>1, <2>4, OneIsPlaced DEF store
<1>7. CASE ResolvesPlayer(p) \/ ResolvesChat(p) \/ Publishes(p)
  <2>1. r # NoRequest /\ UNCHANGED <<phase, env, store, game, excused, issued, faults>>
    <3>1. /\ r.pc = "resolve" \/ r.pc = "queue"
          /\ UNCHANGED <<phase, env, store, game, excused, issued, faults>>
      <4>1. CASE ResolvesPlayer(p)
        BY <4>1 DEF ResolvesPlayer, At
      <4>2. CASE ResolvesChat(p)
        BY <4>2 DEF ResolvesChat, At
      <4>3. CASE Publishes(p)
        BY <4>3 DEF Publishes, At
      <4> QED
        BY <1>7, <4>1, <4>2, <4>3
    <3> QED
      BY <3>1 DEF NoRequest
  <2>2. \/ Answered(p)
        \/ Outcome(p, FALSE)
        \/ \E pc \in {"plan", "write", "queue"} : Go(p, pc)
    BY <1>7 DEF ResolvesPlayer, ResolvesChat, Publishes
  <2>3. RequestPlaced(req'[p])
    BY <1>3, <1>4, <1>5, <2>1, <2>2 DEF Points
  <2> QED
    BY <1>1, <2>1, <2>3, OneIsPlaced DEF store
<1>8. CASE PlansGrant(p)
  <2>1. r # NoRequest /\ UNCHANGED <<phase, env, store, game, excused, issued, faults>>
    BY <1>8 DEF PlansGrant, At, NoRequest
  <2>2. \/ Outcome(p, FALSE)
        \/ \E L : req' = [req EXCEPT ![p].pc = "write", ![p].seen = L]
    BY <1>8, Zenon DEF PlansGrant
  <2>3. ASSUME NEW L, req' = [req EXCEPT ![p].pc = "write", ![p].seen = L]
        PROVE  RequestPlaced(req'[p])
    <3>1. req'[p] = [pc |-> "write", id |-> r.id, kind |-> r.kind, arg |-> r.arg, ok |-> r.ok,
                     seen |-> L, taken |-> r.taken]
      BY <1>2, <2>1, <2>3 DEF CatalogInv, InForce
    <3> QED
      BY <1>2, <2>1, <3>1 DEF RequestPlaced, Points
  <2>4. RequestPlaced(req'[p])
    BY <1>5, <2>1, <2>2, <2>3
  <2> QED
    BY <1>1, <2>1, <2>4, OneIsPlaced DEF store
<1>9. CASE Records(p)
  <2>1. /\ r # NoRequest /\ Answered(p)
        /\ UNCHANGED <<phase, env, override, game, issued>> /\ (UNCHANGED faults \/ Fault)
        /\ excused' \subseteq excused \cup {r.id}
        /\ history' \subseteq history \cup {Row(r)}
    BY <1>9 DEF Records, NoRequest, Excuse
  <2>2. Row(r).id \in 1..issued /\ Row(r).ok \in BOOLEAN
    BY <1>2, <2>1 DEF Row, RequestPlaced
  <2>3. \A q \in Procs : RequestPlaced(req'[q])
    BY <1>1, <1>3, <2>1 DEF ApiTyped
  <2>4. excused' \subseteq 1..issued
    BY <1>2, <2>1 DEF ApiTyped
  <2>5. \A row \in history' : row.id \in 1..issued /\ row.ok \in BOOLEAN
    BY <2>1, <2>2 DEF ApiTyped
  <2>6. faults' \in 0..MaxFaults
    BY <2>1, FaultCounts DEF ApiTyped
  <2> QED
    BY <2>1, <2>3, <2>4, <2>5, <2>6 DEF ApiTyped, game
<1>10. CASE SavesField(p)
  <2>1. /\ r # NoRequest
        /\ UNCHANGED <<phase, env, override, history, game, excused, issued, faults>>
    BY <1>10 DEF SavesField, At, NoRequest
  <2>2. Answered(p) \/ \E i : req' = [req EXCEPT ![p].taken = i]
    <3> HIDE DEF Answered
    <3> QED
      BY <1>10, Zenon DEF SavesField
  <2>3. ASSUME NEW i, req' = [req EXCEPT ![p].taken = i] PROVE RequestPlaced(req'[p])
    <3>1. req'[p] = [pc |-> r.pc, id |-> r.id, kind |-> r.kind, arg |-> r.arg, ok |-> r.ok,
                     seen |-> r.seen, taken |-> i]
      BY <1>2, <2>1, <2>3 DEF CatalogInv, InForce
    <3> QED
      BY <1>2, <2>1, <3>1 DEF RequestPlaced
  <2>4. RequestPlaced(req'[p])
    BY <1>3, <2>2, <2>3
  <2> QED
    BY <1>1, <2>1, <2>4, OneIsPlaced
<1>11. CASE ComparesCatalog(p)
  <2>1. r # NoRequest /\ UNCHANGED <<phase, env, store, game, excused, issued, faults>>
    BY <1>11 DEF ComparesCatalog, At, NoRequest
  <2>2. Answered(p) \/ \E K : req' = [req EXCEPT ![p].pc = "store", ![p].seen = K]
    BY <1>11 DEF ComparesCatalog
  <2>3. ASSUME NEW K, req' = [req EXCEPT ![p].pc = "store", ![p].seen = K]
        PROVE  RequestPlaced(req'[p])
    <3>1. req'[p] = [pc |-> "store", id |-> r.id, kind |-> r.kind, arg |-> r.arg, ok |-> r.ok,
                     seen |-> K, taken |-> r.taken]
      BY <1>2, <2>1, <2>3 DEF CatalogInv, InForce
    <3> QED
      BY <1>2, <2>1, <3>1 DEF RequestPlaced, Points
  <2>4. RequestPlaced(req'[p])
    BY <1>3, <2>2, <2>3
  <2> QED
    BY <1>1, <2>1, <2>4, OneIsPlaced DEF store
<1>12. CASE StoresCatalog(p) \/ RevertsCatalog(p)
  <2>1. /\ Answered(p) /\ UNCHANGED <<phase, env, history, game, excused, issued, faults>>
        /\ override' = NoCatalog \/ Valid(override')
    BY <1>12 DEF StoresCatalog, RevertsCatalog, CatalogInv, ApplyChecked, Arg
  <2>2. \A q \in Procs : RequestPlaced(req'[q])
    BY <1>1, <1>3, <2>1 DEF ApiTyped
  <2> QED
    BY <2>1, <2>2 DEF ApiTyped, game
<1>13. CASE Drops(p)
  <2>1. r # NoRequest /\ Cut({p}) /\ Fault /\ UNCHANGED <<phase, env, override, history, issued>>
    BY <1>13 DEF Drops, store, NoRequest
  <2> QED
    BY <2>1, CutTyped, FaultCounts DEF ApiTyped
<1> QED
  BY <1>6, <1>7, <1>8, <1>9, <1>10, <1>11, <1>12, <1>13, WritesTyped DEF Handles

\* What the commands and the host do to the API: the process starts and ends, a
\* command or a fault is counted.
LEMMA HostMoves ==
  ASSUME ApiTyped, UNCHANGED <<req, store, game, excused>>,
         phase' \in Phases, DOMAIN env' = Settings,
         UNCHANGED issued \/ (issued < MaxCommands /\ issued' = issued + 1),
         UNCHANGED faults \/ Fault
  PROVE  ApiTyped'
<1>1. issued' \in 0..MaxCommands /\ 1..issued \subseteq 1..issued'
  BY ApiBounds DEF ApiTyped
<1>2. faults' \in 0..MaxFaults
  BY FaultCounts DEF ApiTyped
<1> QED
  BY <1>1, <1>2 DEF ApiTyped, store, game

LEMMA StartedTyped ==
  ASSUME HostTyped, phase \in Phases, DOMAIN env = Settings,
         Started \/ UNCHANGED <<phase, env, runs>> \/ (Terminates /\ UNCHANGED runs)
  PROVE  /\ phase' \in Phases /\ DOMAIN env' = Settings
         /\ runs'.version \in Versions \cup {OldVersion, Absent}
<1>1. CASE Started
  <2>1. CASE Bootable
    <3>1. phase' = "up" /\ env' = Load(conf)
          /\ runs' = [version |-> files.binary, token |-> Resolved(files.token)]
      BY <1>1, <2>1 DEF Started, Boots
    <3>2. DOMAIN Load(conf) = Settings
      BY DEF Load
    <3> QED
      BY <3>1, <3>2 DEF HostTyped, Phases
  <2>2. CASE ~Bootable
    BY <1>1, <2>2 DEF Started, HostTyped, Phases
  <2> QED
    BY <2>1, <2>2
<1>2. CASE UNCHANGED <<phase, env, runs>>
  BY <1>2 DEF HostTyped
<1>3. CASE Terminates /\ UNCHANGED runs
  BY <1>3 DEF Terminates, HostTyped, Phases
<1> QED
  BY <1>1, <1>2, <1>3

\* A command that goes on, from one step to the next.
LEMMA NextStepTyped ==
  ASSUME NEW o, o # NoOp, OpTyped(o), o.pc # Len(Steps(o.kind)),
         NEW next, next = [o EXCEPT !.pc = o.pc + 1, !.halted = FALSE]
  PROVE  OpTyped(next)
<1>1. /\ o = [pc |-> o.pc, kind |-> o.kind, version |-> o.version, token |-> o.token,
              halted |-> o.halted, quiet |-> o.quiet]
      /\ o.kind \in {"install", "restart", "uninstall"}
      /\ o.pc \in 1..Len(Steps(o.kind)) /\ Len(Steps(o.kind)) \in Nat
      /\ DOMAIN Steps(o.kind) = 1..Len(Steps(o.kind))
  BY StepsAreCounted DEF OpTyped
<1>2. next = [pc |-> o.pc + 1, kind |-> o.kind, version |-> o.version, token |-> o.token,
              halted |-> FALSE, quiet |-> o.quiet]
  BY <1>1
<1>3. o.pc + 1 \in DOMAIN Steps(o.kind)
  BY <1>1
<1> QED
  BY <1>1, <1>2, <1>3 DEF OpTyped

\* The process of a command's step: what of the API it may change.
LEMMA CommandsMove ==
  ASSUME ApiTyped, HostTyped, NEW p \in Procs, Commands(p)
  PROVE  /\ ApiTyped'
         /\ runs'.version \in Versions \cup {OldVersion, Absent}
<1>1. UNCHANGED <<req, store, game, excused>>
  BY DEF Commands, Begins, Discovers, Stops, Prepares, Uploads, WritesToken, InstallsUnit,
         Enables, Restarts, Verifies, Removes, StepFails, StepIgnored, HostUnchanged
<1>2. /\ UNCHANGED issued \/ (issued < MaxCommands /\ issued' = issued + 1)
      /\ UNCHANGED faults \/ Fault
  <2>1. CASE StepFails(p) \/ StepIgnored(p)
    BY <2>1 DEF StepFails, StepIgnored
  <2>2. CASE ~StepFails(p) /\ ~StepIgnored(p)
    BY <2>2 DEF Commands, Begins, Discovers, Stops, Prepares, Uploads, WritesToken, InstallsUnit,
                Enables, Restarts, Verifies, Removes, HostUnchanged
  <2> QED
    BY <2>1, <2>2
<1>3. \/ Started
      \/ UNCHANGED <<phase, env, runs>>
      \/ Terminates /\ UNCHANGED runs
      \/ phase' = "down" /\ UNCHANGED <<env, runs>>
  <2>1. CASE Enables(p)
    BY <2>1, Zenon DEF Enables
  <2>2. CASE Restarts(p)
    BY <2>2, Zenon DEF Restarts
  <2>3. CASE Stops(p)
    BY <2>3 DEF Stops, Stopped
  <2>4. CASE ~Enables(p) /\ ~Restarts(p) /\ ~Stops(p)
    BY <2>4 DEF Commands, Begins, Discovers, Prepares, Uploads, WritesToken, InstallsUnit,
                Verifies, Removes, StepFails, StepIgnored
  <2> QED
    BY <2>1, <2>2, <2>3, <2>4
<1>4. /\ phase' \in Phases /\ DOMAIN env' = Settings
      /\ runs'.version \in Versions \cup {OldVersion, Absent}
  <2>1. CASE phase' = "down" /\ UNCHANGED <<env, runs>>
    BY <2>1 DEF ApiTyped, HostTyped, Phases
  <2> QED
    BY <1>3, <2>1, StartedTyped DEF ApiTyped
<1> QED
  BY <1>1, <1>2, <1>4, HostMoves

\* What the commands do to the host's files.
LEMMA FilesMove ==
  ASSUME HostTyped, OpsTyped, NEW p \in Procs, Commands(p)
  PROVE  /\ files' = [init |-> files'.init, dirs |-> files'.dirs, binary |-> files'.binary,
                      unit |-> files'.unit, token |-> files'.token]
         /\ files'.binary \in Versions \cup {OldVersion, Absent}
         /\ files'.token \in Tokens \cup {None}
<1>1. \/ UNCHANGED files
      \/ \E b : files' = [files EXCEPT !.dirs = b]
      \/ \E b : files' = [files EXCEPT !.unit = b]
      \/ Uploads(p) \/ WritesToken(p)
      \/ files' = [files EXCEPT !.unit = FALSE, !.binary = Absent]
  BY DEF Commands, Begins, Discovers, Stops, Prepares, InstallsUnit, Enables, Restarts, Verifies,
         Removes, StepFails, StepIgnored
<1>2. ASSUME Step(p, "upload") PROVE op[p].version \in Versions
  <2>1. op[p].kind = "install"
    BY <1>2 DEF Step, Busy, OpsTyped, OpTyped, Steps
  <2> QED
    BY <1>2, <2>1 DEF Step, Busy, OpsTyped, OpTyped
<1>3. ASSUME Step(p, "token") PROVE op[p].token \in Tokens \cup {None}
  <2>1. op[p].kind = "install"
    BY <1>3 DEF Step, Busy, OpsTyped, OpTyped, Steps
  <2> QED
    BY <1>3, <2>1 DEF Step, Busy, OpsTyped, OpTyped
<1>4. ASSUME Uploads(p) PROVE files' = [files EXCEPT !.binary = op[p].version] /\ Step(p, "upload")
  BY <1>4 DEF Uploads
<1>5. ASSUME WritesToken(p)
      PROVE  Step(p, "token")
             /\ (UNCHANGED files \/ files' = [files EXCEPT !.token = op[p].token])
  BY <1>5 DEF WritesToken
<1> QED
  BY <1>1, <1>2, <1>3, <1>4, <1>5 DEF HostTyped

\* What the commands do to what is under way.
LEMMA OpsMove ==
  ASSUME OpsTyped, NEW p \in Procs, Commands(p)
  PROVE  OpsTyped'
<1>1. CASE Busy(p) /\ (Passes(p) \/ Fails(p) \/ Waits(p))
  BY <1>1, StepTypes
<1>2. ASSUME NEW kind \in {"install", "restart", "uninstall"}, NEW version, NEW token,
             kind = "install" => version \in Versions /\ token \in Tokens \cup {None},
             Begins(p, kind, version, token)
      PROVE  OpsTyped'
  <2> DEFINE o == [pc |-> 1, kind |-> kind, version |-> version, token |-> token,
                   halted |-> FALSE, quiet |-> InProgress = {}]
  <2>1. 1 \in DOMAIN Steps(kind)
    BY StepsAreCounted
  <2>2. OpTyped(o)
    BY <1>2, <2>1 DEF OpTyped
  <2>3. op' = [Disturb(op) EXCEPT ![p] = o]
    BY <1>2 DEF Begins
  <2> HIDE DEF o
  <2>4. op' = [q \in Procs |-> op'[q]] /\ op'[p] = o
        /\ \A q \in Procs \ {p} : op'[q] = Disturb(op)[q]
    BY <2>3 DEF Disturb
  <2> QED
    BY <2>2, <2>4, DisturbTypes DEF OpsTyped
<1>3. CASE StepFails(p)
  <2>1. /\ op' = [q \in Procs |-> op'[q]] /\ op'[p] = NoOp
        /\ \A q \in Procs \ {p} : op'[q] = Disturb(op)[q]
    BY <1>3 DEF StepFails, Disturb
  <2> QED
    BY <2>1, DisturbTypes DEF OpsTyped, OpTyped
<1>4. CASE StepIgnored(p)
  <2> DEFINE o == Disturb(op)
  <2>1. Busy(p) /\ o[p] # NoOp
    BY <1>4 DEF StepIgnored, Busy, Disturb, NoOp, OpsTyped, OpTyped
  <2>2. op' = IF o[p].pc = Len(Steps(o[p].kind)) THEN [o EXCEPT ![p] = NoOp]
               ELSE [o EXCEPT ![p].pc = @ + 1, ![p].halted = FALSE]
    BY <1>4 DEF StepIgnored
  <2>3. \A q \in Procs : OpTyped(o[q])
    BY DisturbTypes
  <2>4. o = [q \in Procs |-> o[q]]
    BY DEF Disturb
  <2> HIDE DEF o
  <2>5. op' = [q \in Procs |-> op'[q]] /\ \A q \in Procs \ {p} : op'[q] = o[q]
    BY <2>2, <2>4
  <2>6. OpTyped(op'[p])
    <3>1. CASE o[p].pc = Len(Steps(o[p].kind))
      BY <2>2, <2>4, <3>1 DEF OpTyped
    <3>2. CASE o[p].pc # Len(Steps(o[p].kind))
      <4>1. op'[p] = [o[p] EXCEPT !.pc = o[p].pc + 1, !.halted = FALSE]
        BY <2>2, <2>4, <3>2
      <4> QED
        BY <2>1, <2>3, <3>2, <4>1, NextStepTyped
    <3> QED
      BY <3>1, <3>2
  <2> QED
    BY <2>3, <2>5, <2>6 DEF OpsTyped
<1>5. CASE Enables(p)
  <2>1. Busy(p)
    BY <1>5 DEF Enables, Step
  <2>2. Passes(p) \/ Fails(p)
    BY <1>5, Zenon DEF Enables
  <2> QED
    BY <1>1, <2>1, <2>2
<1>6. CASE Restarts(p)
  <2>1. Busy(p)
    BY <1>6 DEF Restarts, Step
  <2>2. Passes(p) \/ Fails(p) \/ Waits(p)
    BY <1>6, Zenon DEF Restarts
  <2> QED
    BY <1>1, <2>1, <2>2
<1>7. CASE Stops(p)
  BY <1>1, <1>7 DEF Stops, Stopped, Step
<1>8. CASE \/ Discovers(p) \/ Prepares(p) \/ Uploads(p) \/ WritesToken(p) \/ InstallsUnit(p)
           \/ Verifies(p) \/ Removes(p)
  BY <1>1, <1>8 DEF Discovers, Prepares, Uploads, WritesToken, InstallsUnit, Verifies, Removes, Step
<1> QED
  BY <1>2, <1>3, <1>4, <1>5, <1>6, <1>7, <1>8 DEF Commands

LEMMA NextTypes ==
  ASSUME CatalogInv, GrantInv, ApiTyped, HostTyped, OpsTyped, [MSNext]_vars
  PROVE  ApiTyped' /\ HostTyped' /\ OpsTyped'
<1>1. CASE ApiSteps
  <2>1. OpsTyped'
    <3>1. op' = Disturb(op) \/ op' = op
      BY <1>1 DEF ApiSteps
    <3>2. CASE op' = Disturb(op)
      <4>1. Disturb(op) = [q \in Procs |-> Disturb(op)[q]]
        BY DEF Disturb
      <4>2. \A q \in Procs : OpTyped(Disturb(op)[q])
        BY DisturbTypes
      <4> HIDE DEF Disturb
      <4>3. op' = [q \in Procs |-> op'[q]]
        BY <3>2, <4>1
      <4> QED
        BY <3>2, <4>2, <4>3 DEF OpsTyped
    <3>3. CASE op' = op
      BY <3>3 DEF OpsTyped
    <3> QED
      BY <3>1, <3>2, <3>3
  <2>2. HostTyped'
    <3>1. UNCHANGED <<files, runs>>
      BY <1>1 DEF ApiSteps
    <3> QED
      BY <3>1 DEF HostTyped
  <2>3. ASSUME NEW p \in Procs, NEW r \in Requests, Ask(p, r) PROVE ApiTyped'
    <3>1. /\ UNCHANGED <<phase, env, override, history, game, excused, faults>>
          /\ issued < MaxCommands /\ issued' = issued + 1
          /\ \A q \in Procs \ {p} : req'[q] = req[q]
          /\ req'[p] = [pc |-> "start", id |-> issued + 1, kind |-> r.kind, arg |-> r.arg,
                        ok |-> FALSE, seen |-> {}, taken |-> 0]
      BY <2>3 DEF Ask, CatalogInv, store
    <3>2. \A q \in Procs : RequestPlaced(req'[q])
      <4>1. RequestPlaced(req'[p])
        BY <3>1 DEF RequestPlaced, Points
      <4> QED
        BY <3>1, <4>1 DEF ApiTyped
    <3>3. issued' \in 0..MaxCommands /\ 1..issued \subseteq 1..issued'
      BY <3>1, ApiBounds DEF ApiTyped
    <3> QED
      BY <3>1, <3>2, <3>3 DEF ApiTyped, game
  <2>4. ASSUME StopEnds PROVE ApiTyped'
    <3>1. UNCHANGED <<env, store, game, excused, req, issued, faults>> /\ phase' = "down"
      BY <2>4 DEF StopEnds
    <3>2. phase' \in Phases
      BY <3>1 DEF Phases
    <3> QED
      BY <3>1, <3>2, HostMoves DEF ApiTyped
  <2>5. ASSUME Killed \/ Crashes PROVE ApiTyped'
    <3>1. /\ Cut(InFlight) /\ Fault /\ UNCHANGED <<env, override, history, issued>>
          /\ phase' \in {"down", "failed"}
      BY <2>5 DEF Killed, Crashes, store
    <3>2. InFlight \in SUBSET Procs /\ \A p \in InFlight : req[p] # NoRequest
      BY DEF InFlight
    <3>3. phase' \in Phases
      BY <3>1 DEF Phases
    <3>4. faults' \in 0..MaxFaults
      BY <3>1, FaultCounts DEF ApiTyped
    <3>5. /\ excused' \subseteq 1..issued /\ edited' \subseteq 1..issued
          /\ \A item \in backpack' : item.slot \in Slots
          /\ \A p \in Procs : RequestPlaced(req'[p])
      BY <3>1, <3>2, CutTyped
    <3> QED
      BY <3>1, <3>3, <3>4, <3>5 DEF ApiTyped
  <2> QED
    BY <1>1, <2>1, <2>2, <2>3, <2>4, <2>5, HandlersTyped DEF ApiSteps, ApiNext
<1>2. ASSUME NEW p \in Procs, Commands(p) PROVE ApiTyped' /\ HostTyped' /\ OpsTyped'
  BY <1>2, CommandsMove, FilesMove, OpsMove DEF HostTyped
<1>3. CASE Respawns \/ HostBoots
  <2>1. UNCHANGED <<files, op, req, store, game, excused, issued, faults>> /\ Started
    BY <1>3 DEF Respawns, HostBoots, HostUnchanged
  <2>2. /\ phase' \in Phases /\ DOMAIN env' = Settings
        /\ runs'.version \in Versions \cup {OldVersion, Absent}
    BY <2>1, StartedTyped DEF ApiTyped
  <2>3. ApiTyped'
    BY <2>1, <2>2, HostMoves
  <2> QED
    BY <2>1, <2>2, <2>3 DEF HostTyped, OpsTyped
<1>4. CASE UNCHANGED vars
  BY <1>4 DEF vars, apiVars, store, game, ApiTyped, HostTyped, OpsTyped
<1> QED
  BY <1>1, <1>2, <1>3, <1>4 DEF MSNext

\* Every variable keeps its type, and requests, rows and items name requests made.
THEOREM TypeCorrect == Spec => []TypeOK
<1>1. ASSUME ConfigInv, GrantInv, ApiTyped, HostTyped, OpsTyped PROVE TypeOK
  <2>1. ApiTypeOK
    BY <1>1 DEF ApiTypeOK, ApiTyped, ConfigInv, StoredWell, GrantInv, RequestPlaced
  <2>2. \A p \in Procs : Busy(p) => op[p].pc \in DOMAIN Steps(op[p].kind)
    BY <1>1 DEF OpsTyped, OpTyped, Busy
  <2> QED
    BY <1>1, <2>1, <2>2 DEF TypeOK, HostTyped
<1> QED
  BY <1>1, InitConfig, NextConfig, InitCatalog, NextCatalog, InitGrants, NextGrants, InitTypes,
     NextTypes, PTL DEF Spec

--------------------------------------------------------------------------------
(* The commands that nothing disturbs.                                         *)

\* What a command that nothing disturbed has done by its step: from the stop on the
\* service is down, and stays so until the command starts it, from the files it put
\* in place.
Progress(o) ==
  /\ o.kind = "install" =>
       /\ o.pc \in 3..7 => phase = "down"
       /\ o.pc > 3 => files.dirs
       /\ o.pc > 4 => files.binary = o.version
       /\ o.pc > 5 => (o.token # None => files.token = o.token)
       /\ o.pc > 6 => files.unit
       /\ o.pc > 7 => /\ phase = "up" /\ env = Load(conf)
                      /\ runs = [version |-> o.version, token |-> Resolved(files.token)]
  /\ o.kind = "restart" /\ o.halted => phase \in {"stopping", "down"}
  /\ o.kind = "uninstall" /\ o.pc > 1 => phase = "down"

\* A command under way was counted, so no host boots; one that nothing disturbed is
\* the only one.
Quiet(p) == Busy(p) /\ op[p].quiet = TRUE
QuietInv ==
  /\ issued \in Nat
  /\ \A p \in Procs : Busy(p) => issued # 0
  /\ \A p \in Procs : Quiet(p) => /\ \A q \in Procs : Busy(q) => q = p
                                 /\ Progress(op[p])

LEMMA InitQuiet == MSInit => QuietInv
BY DEF MSInit, Init, QuietInv, Quiet, Busy

\* Which step of which command is which.
LEMMA WhichStep ==
  ASSUME OpsTyped, NEW p \in Procs, Busy(p)
  PROVE  LET o == op[p] IN
         /\ Step(p, "discover") => o.kind = "install" /\ o.pc = 1
         /\ Step(p, "stop")     => o.kind = "install" /\ o.pc = 2
         /\ Step(p, "prepare")  => o.kind = "install" /\ o.pc = 3
         /\ Step(p, "upload")   => o.kind = "install" /\ o.pc = 4
         /\ Step(p, "token")    => o.kind = "install" /\ o.pc = 5
         /\ Step(p, "init")     => o.kind = "install" /\ o.pc = 6
         /\ Step(p, "start")    => o.kind = "install" /\ o.pc = 7
         /\ Step(p, "verify")   => o.kind = "install" /\ o.pc = 8
         /\ Step(p, "restart")  => o.kind = "restart" /\ o.pc = 1
         /\ Step(p, "disable")  => o.kind = "uninstall" /\ o.pc = 1
         /\ Step(p, "remove")   => o.kind = "uninstall" /\ o.pc = 2
         /\ o.kind = "install"   => Len(Steps(o.kind)) = 8 /\ o.pc \in 1..8
         /\ o.kind = "restart"   => Len(Steps(o.kind)) = 1 /\ o.pc = 1
         /\ o.kind = "uninstall" => Len(Steps(o.kind)) = 2 /\ o.pc \in 1..2
         /\ o.kind \in {"install", "restart", "uninstall"}
<1> DEFINE o == op[p]
<1>1. o.kind \in {"install", "restart", "uninstall"} /\ o.pc \in DOMAIN Steps(o.kind)
  BY DEF OpsTyped, OpTyped, Busy
<1>2. CASE o.kind = "install"
  <2>1. Steps(o.kind) = InstallSteps /\ Len(InstallSteps) = 8 /\ DOMAIN InstallSteps = 1..8
    BY <1>2 DEF Steps, InstallSteps
  <2>2. o.pc \in 1..8
    BY <1>1, <2>1
  <2> QED
    BY <1>2, <2>1, <2>2 DEF Step, InstallSteps
<1>3. CASE o.kind = "restart"
  <2>1. Steps(o.kind) = <<"restart">>
    BY <1>3 DEF Steps
  <2> QED
    BY <1>1, <1>3, <2>1 DEF Step
<1>4. CASE o.kind = "uninstall"
  <2>1. Steps(o.kind) = <<"disable", "remove">>
    BY <1>4 DEF Steps
  <2> QED
    BY <1>1, <1>4, <2>1 DEF Step
<1> QED
  BY <1>1, <1>2, <1>3, <1>4

\* What is loaded from a table asks for no restart, but for a list that does not parse.
LEMMA LoadedIsCurrent ==
  ASSUME NEW c, StoredWell(c), StoredActions(c) \in ActionLists \cup {None}
  PROVE  ~RestartRequired(c, Load(c))
<1>1. Load(c)["actions"] \in ActionLists
  <2>1. Defaults["actions"] \in ActionLists
    BY ConfigAssumption DEF Defaults
  <2>2. Load(c)["actions"] = IF StoredActions(c) = None THEN Defaults["actions"]
                                                         ELSE StoredActions(c)
    BY LoadIs, Zenon
  <2> QED
    BY <2>1, <2>2
<1>2. StoredActions(c) # None => StoredActions(c) = Load(c)["actions"]
  BY LoadIs
<1>3. c["package"] # None => c["package"] = Load(c)["package"]
  <2>1. c["package"] # None => Stored(c, "package", Defaults["package"]) = c["package"]
    BY StoredIs
  <2>2. c["package"] # None => c["package"] \in BOOLEAN
    BY DEF StoredWell
  <2> QED
    BY <1>1, <2>1, <2>2, LoadIs, Zenon
<1>4. c["zone"] # None => c["zone"] = Load(c)["zone"]
  BY LoadIs DEF StoredWell
<1>5. \A k \in Settings \ {"actions", "package", "zone"} :
        Read(c, k) # None => Read(c, k) = Load(c)[k]
  BY LoadIs
<1>6. Read(c, "package") = c["package"] /\ Read(c, "zone") = c["zone"]
  BY ReadIs DEF Numbers
<1> QED
  BY <1>2, <1>3, <1>4, <1>5, <1>6 DEF RestartRequired

\* A step of a command: the others are where they were.
LEMMA CommandsStep ==
  ASSUME OpsTyped, QuietInv, NEW p \in Procs, Busy(p), Passes(p) \/ Fails(p) \/ Waits(p),
         UNCHANGED issued,
         ASSUME Quiet(p), Quiet(p)' PROVE Progress(op[p])'
  PROVE  QuietInv'
<1>1. \A q \in Procs \ {p} : op'[q] = op[q]
  BY DEF OpsTyped, Passes, Fails, Waits
<1>2. Quiet(p)' => Quiet(p)
  <2> DEFINE o == op[p]
  <2>1. o = [pc |-> o.pc, kind |-> o.kind, version |-> o.version, token |-> o.token,
             halted |-> o.halted, quiet |-> o.quiet]
    BY DEF OpsTyped, OpTyped, Busy
  <2>2. \/ op'[p] = NoOp
        \/ op'[p] = [o EXCEPT !.pc = o.pc + 1, !.halted = FALSE]
        \/ op'[p] = [o EXCEPT !.halted = TRUE]
    BY DEF OpsTyped, Passes, Fails, Waits
  <2>3. op'[p] = NoOp \/ op'[p].quiet = o.quiet
    BY <2>1, <2>2
  <2> QED
    BY <2>3 DEF Quiet, Busy
<1>3. \A q \in Procs \ {p} : Busy(q)' => Busy(q)
  BY <1>1 DEF Busy
<1>4. \A q \in Procs \ {p} : ~Quiet(q)'
  BY <1>1, <1>3 DEF QuietInv, Quiet, Busy
<1>5. \A q \in Procs : Busy(q)' => issued' # 0
  BY <1>3 DEF QuietInv
<1>6. Quiet(p)' => (\A q \in Procs : Busy(q)' => q = p) /\ Progress(op[p])'
  BY <1>2, <1>3 DEF QuietInv
<1> QED
  BY <1>4, <1>5, <1>6 DEF QuietInv

\* Where a quiet command is after a step of its own.
LEMMA WhereItIs ==
  ASSUME OpsTyped, NEW p \in Procs, Busy(p), Quiet(p)'
  PROVE  LET o == op[p]
             n == op'[p]
         IN  /\ Passes(p) => /\ o.pc # Len(Steps(o.kind)) /\ n.pc = o.pc + 1
                             /\ n.halted = FALSE
             /\ Waits(p)  => n.pc = o.pc /\ n.halted = TRUE
             /\ ~Fails(p)
             /\ Passes(p) \/ Waits(p) =>
                  n.kind = o.kind /\ n.version = o.version /\ n.token = o.token
<1> DEFINE o == op[p]
<1>1. o = [pc |-> o.pc, kind |-> o.kind, version |-> o.version, token |-> o.token,
           halted |-> o.halted, quiet |-> o.quiet]
  BY DEF OpsTyped, OpTyped, Busy
<1>2. op'[p] # NoOp /\ op = [q \in Procs |-> op[q]]
  BY DEF Quiet, Busy, OpsTyped
<1>3. ~Fails(p)
  BY <1>2 DEF Fails
<1>4. Passes(p) => /\ o.pc # Len(Steps(o.kind))
                   /\ op'[p] = [pc |-> o.pc + 1, kind |-> o.kind, version |-> o.version,
                                token |-> o.token, halted |-> FALSE, quiet |-> o.quiet]
  <2>1. Passes(p) => /\ o.pc # Len(Steps(o.kind))
                     /\ op'[p] = [o EXCEPT !.pc = o.pc + 1, !.halted = FALSE]
    BY <1>2 DEF Passes
  <2> QED
    BY <1>1, <2>1
<1>5. Waits(p) => op'[p] = [pc |-> o.pc, kind |-> o.kind, version |-> o.version,
                            token |-> o.token, halted |-> TRUE, quiet |-> o.quiet]
  <2>1. Waits(p) => op'[p] = [o EXCEPT !.halted = TRUE]
    BY <1>2 DEF Waits
  <2> QED
    BY <1>1, <2>1
<1> QED
  BY <1>3, <1>4, <1>5

\* The steps of a command that nothing goes wrong with.
OwnStep(p) ==
  \/ Discovers(p) \/ Stops(p) \/ Prepares(p) \/ Uploads(p) \/ WritesToken(p)
  \/ InstallsUnit(p) \/ Enables(p) \/ Restarts(p) \/ Verifies(p) \/ Removes(p)

LEMMA OwnStepsAre ==
  ASSUME NEW p \in Procs, OwnStep(p)
  PROVE  Busy(p) /\ (Passes(p) \/ Fails(p) \/ Waits(p)) /\ UNCHANGED <<issued, faults, conf>>
<1>1. CASE Enables(p)
  <2>1. Step(p, "start") /\ HostUnchanged
    BY <1>1 DEF Enables
  <2>2. Passes(p) \/ Fails(p)
    BY <1>1, Zenon DEF Enables
  <2> QED
    BY <2>1, <2>2 DEF Step, HostUnchanged, store
<1>2. CASE Restarts(p)
  <2>1. Busy(p) /\ HostUnchanged
    BY <1>2 DEF Restarts, Step
  <2>2. Passes(p) \/ Fails(p) \/ Waits(p)
    BY <1>2, Zenon DEF Restarts
  <2> QED
    BY <2>1, <2>2 DEF HostUnchanged, store
<1>3. CASE Stops(p)
  BY <1>3 DEF Stops, Stopped, Step, HostUnchanged, store
<1>4. CASE \/ Discovers(p) \/ Prepares(p) \/ Uploads(p) \/ WritesToken(p) \/ InstallsUnit(p)
           \/ Verifies(p) \/ Removes(p)
  BY <1>4 DEF Discovers, Prepares, Uploads, WritesToken, InstallsUnit, Verifies, Removes, Step,
              HostUnchanged, store
<1> QED
  BY <1>1, <1>2, <1>3, <1>4 DEF OwnStep

\* The start of a service that is down, with everything in place.
LEMMA StartedFromFiles ==
  ASSUME Started, files.unit, files.dirs, files.binary # Absent
  PROVE  /\ phase' = "up" /\ env' = Load(conf)
         /\ runs' = [version |-> files.binary, token |-> Resolved(files.token)]
BY DEF Started, Bootable, Boots

\* Every step of a quiet command leaves what the next one builds on.
LEMMA OwnProgress ==
  ASSUME OpsTyped, HostTyped, QuietInv, NEW p \in Procs, OwnStep(p), Quiet(p), Quiet(p)'
  PROVE  Progress(op[p])'
<1> DEFINE o == op[p]
           n == op'[p]
<1>1. Busy(p) /\ Progress(o) /\ UNCHANGED conf /\ ~Fails(p)
  BY OwnStepsAre, WhereItIs DEF QuietInv, Quiet
<1>2. /\ o.kind = "install"   => Len(Steps(o.kind)) = 8 /\ o.pc \in 1..8
      /\ o.kind = "restart"   => Len(Steps(o.kind)) = 1 /\ o.pc = 1
      /\ o.kind = "uninstall" => Len(Steps(o.kind)) = 2 /\ o.pc \in 1..2
      /\ o.kind \in {"install", "restart", "uninstall"}
  BY <1>1, WhichStep
<1>3. Passes(p) => /\ o.pc # Len(Steps(o.kind)) /\ n.pc = o.pc + 1 /\ n.halted = FALSE
                   /\ n.kind = o.kind /\ n.version = o.version /\ n.token = o.token
  BY <1>1, WhereItIs
<1>4. Waits(p) => /\ n.pc = o.pc /\ n.halted = TRUE
                  /\ n.kind = o.kind /\ n.version = o.version /\ n.token = o.token
  BY <1>1, WhereItIs
<1>5. o.kind = "install" => o.version # Absent /\ o.version \in Versions
  BY <1>1, VersionAssumption DEF OpsTyped, OpTyped, Busy, Absent
<1>6. files = [init |-> files.init, dirs |-> files.dirs, binary |-> files.binary,
               unit |-> files.unit, token |-> files.token]
  BY DEF HostTyped
<1> HIDE DEF n
<1>7. CASE Discovers(p)
  <2>1. Step(p, "discover") /\ Passes(p)
    BY <1>7 DEF Discovers
  <2>2. o.kind = "install" /\ o.pc = 1
    BY <1>1, <2>1, WhichStep
  <2> QED
    BY <1>3, <2>1, <2>2 DEF Progress, n
<1>8. CASE Stops(p)
  <2>1. /\ Step(p, "stop") \/ Step(p, "disable")
        /\ \/ phase' = "stopping" /\ Waits(p)
           \/ phase' = "down" /\ Passes(p)
    BY <1>8 DEF Stops, Stopped, Terminates
  <2>2. \/ o.kind = "install" /\ o.pc = 2
        \/ o.kind = "uninstall" /\ o.pc = 1
    <3>1. Step(p, "stop") => o.kind = "install" /\ o.pc = 2
      BY <1>1, WhichStep
    <3>2. Step(p, "disable") => o.kind = "uninstall" /\ o.pc = 1
      BY <1>1, WhichStep
    <3> QED
      BY <2>1, <3>1, <3>2
  <2>3. CASE phase' = "stopping" /\ Waits(p)
    <3>1. n.pc = o.pc /\ n.kind = o.kind
      BY <1>4, <2>3
    <3> QED
      BY <2>2, <3>1 DEF Progress, n
  <2>4. CASE phase' = "down" /\ Passes(p)
    <3>1. n.pc = o.pc + 1 /\ n.kind = o.kind
      BY <1>3, <2>4
    <3> QED
      BY <2>2, <2>4, <3>1 DEF Progress, n
  <2> QED
    BY <2>1, <2>3, <2>4
<1>9. CASE Prepares(p)
  <2>1. Step(p, "prepare") /\ Passes(p) /\ files' = [files EXCEPT !.dirs = TRUE]
        /\ UNCHANGED phase
    BY <1>9 DEF Prepares
  <2>2. o.kind = "install" /\ o.pc = 3
    BY <1>1, <2>1, WhichStep
  <2>3. files'.dirs
    BY <1>6, <2>1
  <2> QED
    BY <1>1, <1>3, <2>1, <2>2, <2>3 DEF Progress, n
<1>10. CASE Uploads(p)
  <2>1. Step(p, "upload") /\ Passes(p) /\ files' = [files EXCEPT !.binary = o.version]
        /\ UNCHANGED phase
    BY <1>10 DEF Uploads
  <2>2. o.kind = "install" /\ o.pc = 4
    BY <1>1, <2>1, WhichStep
  <2>3. files'.dirs = files.dirs /\ files'.binary = o.version
    BY <1>6, <2>1
  <2>4. files'.dirs
    BY <1>1, <2>2, <2>3 DEF Progress
  <2> QED
    BY <1>1, <1>3, <2>1, <2>2, <2>3, <2>4 DEF Progress, n
<1>11. CASE WritesToken(p)
  <2>1. Step(p, "token") /\ Passes(p) /\ UNCHANGED phase
        /\ files' = IF o.token = None THEN files ELSE [files EXCEPT !.token = o.token]
    BY <1>11 DEF WritesToken
  <2>2. o.kind = "install" /\ o.pc = 5
    BY <1>1, <2>1, WhichStep
  <2>3. /\ files'.dirs = files.dirs /\ files'.binary = files.binary
        /\ o.token # None => files'.token = o.token
    BY <1>6, <2>1
  <2>4. files'.dirs
    BY <1>1, <2>2, <2>3 DEF Progress
  <2> QED
    BY <1>1, <1>3, <2>1, <2>2, <2>3, <2>4 DEF Progress, n
<1>12. CASE InstallsUnit(p)
  <2>1. Step(p, "init") /\ Passes(p) /\ UNCHANGED phase
        /\ files' = [files EXCEPT !.unit = TRUE]
    BY <1>12 DEF InstallsUnit
  <2>2. o.kind = "install" /\ o.pc = 6
    BY <1>1, <2>1, WhichStep
  <2>3. /\ files'.dirs = files.dirs /\ files'.binary = files.binary
        /\ files'.token = files.token
    BY <1>6, <2>1
  <2>4. files'.unit
    BY <1>6, <2>1
  <2>5. files'.dirs
    BY <1>1, <2>2, <2>3 DEF Progress
  <2> QED
    BY <1>1, <1>3, <2>1, <2>2, <2>3, <2>4, <2>5 DEF Progress, n
<1>13. ASSUME o.kind = "install", o.pc = 7, Passes(p), Started, UNCHANGED files
       PROVE  Progress(op[p])'
  <2>1. /\ files.unit /\ files.dirs /\ files.binary = o.version
        /\ o.token # None => files.token = o.token
    BY <1>1, <1>13 DEF Progress
  <2>2. /\ phase' = "up" /\ env' = Load(conf)
        /\ runs' = [version |-> files.binary, token |-> Resolved(files.token)]
    BY <1>5, <1>13, <2>1, StartedFromFiles
  <2>3. Resolved(files.token)' = Resolved(files.token) /\ Load(conf)' = Load(conf)
    BY <1>1, <1>13
  <2>4. files' = files
    BY <1>13
  <2> QED
    BY <1>3, <1>13, <2>1, <2>2, <2>3, <2>4 DEF Progress, n
<1>14. CASE Enables(p)
  <2>1. Step(p, "start") /\ UNCHANGED files
    BY <1>14 DEF Enables
  <2>2. o.kind = "install" /\ o.pc = 7
    BY <1>1, <2>1, WhichStep
  <2>3. files.unit /\ phase # "up"
    BY <1>1, <2>2 DEF Progress
  <2>4. Passes(p) /\ Started
    BY <1>14, <2>3, Zenon DEF Enables
  <2> QED
    BY <1>13, <2>1, <2>2, <2>4
<1>15. CASE Restarts(p)
  <2>1. UNCHANGED files /\ (Step(p, "restart") \/ Step(p, "start"))
    BY <1>15 DEF Restarts
  <2>2. \/ o.kind = "install" /\ o.pc = 7
        \/ o.kind = "restart" /\ o.pc = 1
    BY <1>1, <2>1, WhichStep
  <2>3. CASE o.kind = "install" /\ o.pc = 7
    <3>1. files.unit /\ phase # "up"
      BY <1>1, <2>3 DEF Progress
    <3>2. Passes(p) /\ Started
      BY <1>15, <3>1, Zenon DEF Restarts
    <3> QED
      BY <1>13, <2>1, <2>3, <3>2
  <2>4. CASE o.kind = "restart" /\ o.pc = 1
    <3>1. ~Passes(p)
      BY <1>2, <1>3, <2>4
    <3>2. Waits(p) /\ Terminates
      BY <1>1, <1>15, <3>1, Zenon DEF Restarts
    <3> QED
      BY <1>4, <2>4, <3>2 DEF Progress, Terminates, n
  <2> QED
    BY <2>2, <2>3, <2>4
<1>16. CASE Verifies(p) \/ Removes(p)
  <2>1. Passes(p) /\ (Step(p, "verify") \/ Step(p, "remove"))
    BY <1>16 DEF Verifies, Removes
  <2>2. o.pc = Len(Steps(o.kind))
    BY <1>1, <2>1, WhichStep
  <2> QED
    BY <1>3, <2>1, <2>2
<1> QED
  BY <1>7, <1>8, <1>9, <1>10, <1>11, <1>12, <1>14, <1>15, <1>16 DEF OwnStep

\* A command that is disturbed is under way as before, and no longer quiet.
LEMMA DisturbedIsLoud ==
  ASSUME OpsTyped, NEW q \in Procs, op'[q] = Disturb(op)[q]
  PROVE  ~Quiet(q)' /\ (Busy(q)' => Busy(q))
<1> DEFINE o == op[q]
<1>1. CASE o = NoOp
  BY <1>1 DEF Disturb, Quiet, Busy
<1>2. CASE o # NoOp
  <2>1. o = [pc |-> o.pc, kind |-> o.kind, version |-> o.version, token |-> o.token,
             halted |-> o.halted, quiet |-> o.quiet]
    BY <1>2 DEF OpsTyped, OpTyped
  <2>2. op'[q] = [o EXCEPT !.quiet = FALSE]
    BY <1>2 DEF Disturb
  <2>3. op'[q] = [pc |-> o.pc, kind |-> o.kind, version |-> o.version,
                  token |-> o.token, halted |-> o.halted, quiet |-> FALSE]
    BY <2>1, <2>2
  <2>4. op'[q].quiet = FALSE
    BY <2>3
  <2> QED
    BY <1>2, <2>4 DEF Quiet, Busy
<1> QED
  BY <1>1, <1>2

\* While the commands stand still, the service may at most finish its stop, or, if it
\* had failed, start again.
LEMMA OthersProgress ==
  ASSUME QuietInv, UNCHANGED <<op, conf, files>>, issued' \in Nat, issued # 0 => issued' # 0,
         \/ UNCHANGED <<phase, env, runs>>
         \/ phase = "stopping" /\ phase' = "down" /\ UNCHANGED <<env, runs>>
         \/ phase = "failed"
  PROVE  QuietInv'
<1>1. \A q \in Procs : Busy(q)' = Busy(q) /\ Quiet(q)' = Quiet(q)
  BY DEF Busy, Quiet
<1>2. ASSUME NEW q \in Procs, Quiet(q) PROVE Progress(op[q])'
  <2> DEFINE o == op[q]
  <2>1. Progress(o)
    BY <1>2 DEF QuietInv
  <2>2. CASE UNCHANGED <<phase, env, runs>>
    BY <2>1, <2>2 DEF Progress
  <2>3. CASE phase = "stopping" /\ phase' = "down" /\ UNCHANGED <<env, runs>>
    BY <2>1, <2>3 DEF Progress
  <2>4. CASE phase = "failed"
    BY <2>1, <2>4 DEF Progress
  <2> QED
    BY <2>2, <2>3, <2>4
<1> QED
  BY <1>1, <1>2 DEF QuietInv

\* A step that disturbs every command but those that end.
LEMMA DisturbingSteps ==
  ASSUME QuietInv, OpsTyped, issued' \in Nat, issued # 0 => issued' # 0,
         \A q \in Procs : op'[q] \in {NoOp, Disturb(op)[q]}
  PROVE  QuietInv'
<1>1. \A q \in Procs : ~Quiet(q)' /\ (Busy(q)' => Busy(q))
  <2> SUFFICES ASSUME NEW q \in Procs PROVE ~Quiet(q)' /\ (Busy(q)' => Busy(q))
    OBVIOUS
  <2>1. CASE op'[q] = NoOp
    BY <2>1 DEF Quiet, Busy
  <2> QED
    BY <2>1, DisturbedIsLoud
<1> QED
  BY <1>1 DEF QuietInv

LEMMA NextQuiet ==
  ASSUME ApiTyped, HostTyped, OpsTyped, ApiTyped', QuietInv, [MSNext]_vars
  PROVE  QuietInv'
<1>1. issued' \in Nat
  BY ApiBounds DEF ApiTyped
<1>2. Fault => faults' # faults
  BY ApiBounds DEF ApiTyped, Fault
<1>3. CASE ApiSteps
  <2>1. issued' = issued \/ issued' = issued + 1
    BY <1>3 DEF ApiSteps, ApiNext, Handles, Checks, ResolvesPlayer, ResolvesChat, PlansGrant,
         Publishes, Writes, Records, SavesField, ComparesCatalog, StoresCatalog, RevertsCatalog,
         Drops, Ask, StopEnds, Killed, Crashes
  <2>2. issued # 0 => issued' # 0
    BY <2>1 DEF QuietInv
  <2>3. CASE op' = Disturb(op)
    BY <1>1, <2>2, <2>3, DisturbingSteps
  <2>4. CASE UNCHANGED <<op, conf, faults>>
    <3>1. ~Killed /\ ~Crashes
      BY <1>2, <2>4 DEF Killed, Crashes
    <3>2. \/ UNCHANGED <<phase, env>>
          \/ phase = "stopping" /\ phase' = "down" /\ UNCHANGED env
      BY <1>3, <3>1 DEF ApiSteps, ApiNext, Handles, Checks, ResolvesPlayer, ResolvesChat,
           PlansGrant, Publishes, Writes, Records, SavesField, ComparesCatalog, StoresCatalog,
           RevertsCatalog, Drops, Ask, StopEnds
    <3>3. UNCHANGED <<files, runs>>
      BY <1>3 DEF ApiSteps
    <3> QED
      BY <1>1, <2>2, <2>4, <3>2, <3>3, OthersProgress
  <2> QED
    BY <1>3, <2>3, <2>4 DEF ApiSteps
<1>4. ASSUME NEW p \in Procs, OwnStep(p) PROVE QuietInv'
  BY <1>4, OwnStepsAre, OwnProgress, CommandsStep
<1>5. ASSUME NEW p \in Procs, StepFails(p) \/ StepIgnored(p) PROVE QuietInv'
  <2>1. UNCHANGED issued /\ Busy(p)
    BY <1>5 DEF StepFails, StepIgnored
  <2>2. CASE StepFails(p)
    <3>1. \A q \in Procs : op'[q] \in {NoOp, Disturb(op)[q]}
      BY <2>2 DEF StepFails, Disturb
    <3> QED
      BY <1>1, <2>1, <3>1, DisturbingSteps
  <2>3. CASE StepIgnored(p)
    <3> DEFINE o == Disturb(op)
    <3>1. op' = IF o[p].pc = Len(Steps(o[p].kind)) THEN [o EXCEPT ![p] = NoOp]
                ELSE [o EXCEPT ![p].pc = @ + 1, ![p].halted = FALSE]
      BY <2>3 DEF StepIgnored
    <3>2. o = [q \in Procs |-> o[q]]
      BY DEF Disturb
    <3>3. o[p] = [op[p] EXCEPT !.quiet = FALSE] /\ OpTyped(op[p])
      BY <2>1 DEF Disturb, Busy, OpsTyped
    <3>4. o[p] = [pc |-> op[p].pc, kind |-> op[p].kind, version |-> op[p].version,
                  token |-> op[p].token, halted |-> op[p].halted, quiet |-> FALSE]
      BY <2>1, <3>3 DEF OpTyped, Busy
    <3>5. \A q \in Procs \ {p} : ~Quiet(q)' /\ (Busy(q)' => Busy(q))
      <4>1. \A q \in Procs \ {p} : op'[q] = Disturb(op)[q]
        <5> HIDE DEF o
        <5>1. \A q \in Procs \ {p} : op'[q] = o[q]
          BY <3>1, <3>2
        <5> QED
          BY <5>1 DEF o
      <4> QED
        BY <4>1, DisturbedIsLoud
    <3>6. ~Quiet(p)'
      <4> HIDE DEF o
      <4>1. op'[p] = NoOp \/ op'[p] = [o[p] EXCEPT !.pc = o[p].pc + 1, !.halted = FALSE]
        BY <3>1, <3>2
      <4>2. ASSUME NEW n, n = [o[p] EXCEPT !.pc = o[p].pc + 1, !.halted = FALSE]
            PROVE  n.quiet = FALSE
        <5> DEFINE d == o[p]
        <5>1. d = [pc |-> d.pc, kind |-> d.kind, version |-> d.version, token |-> d.token,
                   halted |-> d.halted, quiet |-> d.quiet]
          BY <3>4
        <5>2. d.quiet = FALSE
          BY <3>4
        <5> HIDE DEF d
        <5>3. n = [pc |-> d.pc + 1, kind |-> d.kind, version |-> d.version, token |-> d.token,
                   halted |-> FALSE, quiet |-> d.quiet]
          BY <4>2, <5>1 DEF d
        <5> QED
          BY <5>2, <5>3
      <4> QED
        BY <4>1, <4>2 DEF Quiet, Busy
    <3>7. issued # 0
      BY <2>1 DEF QuietInv
    <3> QED
      BY <2>1, <3>5, <3>6, <3>7 DEF QuietInv
  <2> QED
    BY <1>5, <2>2, <2>3
<1>6. ASSUME NEW p \in Procs, NEW kind \in {"install", "restart", "uninstall"}, NEW version,
             NEW token, Begins(p, kind, version, token)
      PROVE  QuietInv'
  <2> DEFINE o == [pc |-> 1, kind |-> kind, version |-> version, token |-> token,
                   halted |-> FALSE, quiet |-> InProgress = {}]
  <2>1. op' = [Disturb(op) EXCEPT ![p] = o] /\ issued' = issued + 1
    BY <1>6 DEF Begins
  <2>2. /\ o.pc = 1 /\ o.kind = kind /\ o.halted = FALSE
        /\ o.quiet = TRUE => InProgress = {}
    OBVIOUS
  <2> HIDE DEF o
  <2>3. op'[p] = o /\ \A q \in Procs \ {p} : op'[q] = Disturb(op)[q]
    BY <2>1 DEF Disturb
  <2>4. issued' # 0
    BY <2>1 DEF QuietInv
  <2>5. \A q \in Procs \ {p} : ~Quiet(q)' /\ (Busy(q)' => Busy(q))
    BY <2>3, DisturbedIsLoud
  <2>6. Quiet(p)' => \A q \in Procs : Busy(q)' => q = p
    BY <2>2, <2>3, <2>5 DEF Quiet, InProgress
  <2>7. Progress(op[p])'
    BY <2>2, <2>3 DEF Progress
  <2> QED
    BY <1>1, <2>4, <2>5, <2>6, <2>7 DEF QuietInv
<1>7. CASE Respawns \/ HostBoots
  <2>1. UNCHANGED <<op, conf, files, issued>>
    BY <1>7 DEF Respawns, HostBoots, HostUnchanged, store
  <2>2. CASE phase = "failed"
    BY <1>1, <2>1, <2>2, OthersProgress
  <2>3. CASE issued = 0
    <3>1. \A q \in Procs : ~Busy(q)
      BY <2>3 DEF QuietInv
    <3>2. \A q \in Procs : ~Busy(q)'
      BY <2>1, <3>1 DEF Busy
    <3> QED
      BY <1>1, <3>2 DEF QuietInv, Quiet
  <2> QED
    BY <1>7, <2>2, <2>3 DEF Respawns, HostBoots
<1>8. CASE UNCHANGED vars
  <2>1. UNCHANGED <<op, conf, files, issued, phase, env, runs>>
    BY <1>8 DEF vars, apiVars, store
  <2> QED
    BY <1>1, <2>1, OthersProgress
<1>9. ASSUME NEW p \in Procs, Commands(p) PROVE QuietInv'
  BY <1>4, <1>5, <1>6, <1>9 DEF Commands, OwnStep
<1> QED
  BY <1>3, <1>7, <1>8, <1>9 DEF MSNext

\* To be disturbed, to wait or to go on is not to end.
LEMMA GoingOn ==
  ASSUME OpsTyped, NEW p \in Procs, Busy(p)
  PROVE  LET o == op[p] IN
         /\ [o EXCEPT !.quiet = FALSE] # NoOp
         /\ [o EXCEPT !.halted = TRUE] # NoOp
         /\ [o EXCEPT !.pc = o.pc + 1, !.halted = FALSE] # NoOp
<1> DEFINE o == op[p]
<1>1. "kind" \in DOMAIN o
  <2>1. o = [pc |-> o.pc, kind |-> o.kind, version |-> o.version, token |-> o.token,
             halted |-> o.halted, quiet |-> o.quiet]
    BY DEF OpsTyped, OpTyped, Busy
  <2> QED
    BY <2>1
<1>2. DOMAIN NoOp = {"pc"}
  BY DEF NoOp
<1>3. \A n : DOMAIN n = DOMAIN o => n # NoOp
  BY <1>1, <1>2
<1>4. /\ DOMAIN [o EXCEPT !.quiet = FALSE] = DOMAIN o
      /\ DOMAIN [o EXCEPT !.halted = TRUE] = DOMAIN o
  BY Zenon
<1>5. DOMAIN [o EXCEPT !.pc = o.pc + 1, !.halted = FALSE] = DOMAIN o
  BY Zenon
<1> HIDE DEF o
<1> QED
  BY <1>3, <1>4, <1>5, Zenon DEF o

\* A quiet command ends by a step of its own: its last, or a start without a unit.
LEMMA EndsByItself ==
  ASSUME OpsTyped, ApiTyped, [MSNext]_vars, NEW p \in Procs, Busy(p), op'[p] = NoOp,
         UNCHANGED faults
  PROVE  /\ OwnStep(p)
         /\ ~Waits(p)
         /\ \/ op[p].pc = Len(Steps(op[p].kind))
            \/ (Enables(p) \/ Restarts(p)) /\ ~files.unit
<1>1. ~Fault
  BY ApiBounds DEF ApiTyped, Fault
<1>2. op'[p] # op[p] /\ op'[p] # Disturb(op)[p]
  BY GoingOn DEF Busy, Disturb
<1>3. PICK q \in Procs : Commands(q)
  <2>1. ~ApiSteps
    BY <1>2 DEF ApiSteps
  <2>2. ~Respawns /\ ~HostBoots /\ ~UNCHANGED vars
    BY <1>2 DEF Respawns, HostBoots, vars
  <2> QED
    BY <2>1, <2>2 DEF MSNext
<1>4. ~StepFails(q) /\ ~StepIgnored(q)
  BY <1>1 DEF StepFails, StepIgnored
<1>5. ASSUME NEW kind, NEW version, NEW token, Begins(q, kind, version, token) PROVE FALSE
  <2>1. q # p
    BY <1>5 DEF Begins
  <2>2. op'[p] = Disturb(op)[p]
    BY <1>5, <2>1 DEF Begins, Disturb
  <2> QED
    BY <1>2, <2>2
<1>6. OwnStep(q)
  BY <1>3, <1>4, <1>5 DEF Commands, OwnStep
<1>7. q = p
  <2>1. Passes(q) \/ Fails(q) \/ Waits(q)
    BY <1>6, OwnStepsAre
  <2>2. q # p => op'[p] = op[p]
    BY <2>1 DEF OpsTyped, Passes, Fails, Waits
  <2> QED
    BY <1>2, <2>2
<1>8. ~Waits(p)
  BY GoingOn DEF OpsTyped, Waits
<1>9. Passes(p) => op[p].pc = Len(Steps(op[p].kind))
  BY GoingOn DEF OpsTyped, Passes
<1>10. ASSUME OwnStep(p), files.unit \/ ~(Enables(p) \/ Restarts(p)) PROVE Passes(p)
  <2>1. CASE Enables(p)
    BY <1>10, <2>1, Zenon DEF Enables
  <2>2. CASE Restarts(p)
    BY <1>8, <1>10, <2>2, Zenon DEF Restarts
  <2>3. CASE Stops(p)
    BY <1>8, <2>3 DEF Stops, Stopped
  <2>4. CASE \/ Discovers(p) \/ Prepares(p) \/ Uploads(p) \/ WritesToken(p) \/ InstallsUnit(p)
             \/ Verifies(p) \/ Removes(p)
    BY <2>4 DEF Discovers, Prepares, Uploads, WritesToken, InstallsUnit, Verifies, Removes
  <2> QED
    BY <1>10, <2>1, <2>2, <2>3, <2>4 DEF OwnStep
<1> QED
  BY <1>6, <1>7, <1>8, <1>9, <1>10

\* The answer of an install, a restart or an uninstall that nothing disturbed is true.
\* Which binary, token and settings run, or that nothing does, follows from the steps
\* it took since it began, whatever requests the daemon handled meanwhile.
LEMMA QuietEnds ==
  ASSUME StoredWell(conf), OpsTyped, HostTyped, ApiTyped, QuietInv, [MSNext]_vars,
         UNCHANGED faults, NEW p \in Procs
  PROVE  /\ Ends(p, "install") =>
              /\ phase = "up" /\ runs.version = op[p].version /\ Current
              /\ runs.token = Resolved(files.token)
              /\ op[p].token # None => runs.token = op[p].token
         /\ Ends(p, "restart") /\ Bootable =>
              phase' = "up" /\ runs'.version = files.binary /\ Current'
         /\ Ends(p, "uninstall") =>
              phase' = "down" /\ ~files'.unit /\ files'.binary = Absent
<1> DEFINE o == op[p]
<1>1. ASSUME NEW kind, Ends(p, kind)
      PROVE  /\ Busy(p) /\ o.kind = kind /\ Progress(o) /\ OwnStep(p) /\ ~Waits(p)
             /\ \/ o.pc = Len(Steps(o.kind))
                \/ (Enables(p) \/ Restarts(p)) /\ ~files.unit
  <2>1. Busy(p) /\ o.kind = kind /\ op'[p] = NoOp /\ Quiet(p)
    BY <1>1 DEF Ends, Quiet
  <2> QED
    BY <2>1, EndsByItself DEF QuietInv
<1>2. ASSUME Ends(p, "install")
      PROVE  /\ phase = "up" /\ runs.version = o.version /\ Current
             /\ runs.token = Resolved(files.token)
             /\ o.token # None => runs.token = o.token
  <2>1. Busy(p) /\ o.kind = "install" /\ Progress(o) /\ o.pc \in 1..8
        /\ Len(Steps(o.kind)) = 8
    BY <1>1, <1>2, WhichStep
  <2>2. Enables(p) \/ Restarts(p) => o.pc = 7
    <3>1. Enables(p) \/ Restarts(p) => Step(p, "start") \/ Step(p, "restart")
      BY DEF Enables, Restarts
    <3> QED
      BY <2>1, <3>1, WhichStep
  <2>3. o.pc = 8
    <3>1. o.pc = 7 => files.unit
      BY <2>1 DEF Progress
    <3>2. o.pc = Len(Steps(o.kind)) \/ ((Enables(p) \/ Restarts(p)) /\ ~files.unit)
      BY <1>1, <1>2
    <3> QED
      BY <2>1, <2>2, <3>1, <3>2
  <2>4. /\ phase = "up" /\ env = Load(conf)
        /\ runs = [version |-> o.version, token |-> Resolved(files.token)]
        /\ o.token # None => files.token = o.token
    BY <2>1, <2>3 DEF Progress
  <2>5. Current
    BY <2>4, LoadedIsCurrent DEF Current
  <2>6. o.token # None => Resolved(files.token) = o.token
    BY <2>4 DEF Resolved
  <2> QED
    BY <2>4, <2>5, <2>6
<1>3. ASSUME Ends(p, "restart"), Bootable
      PROVE  phase' = "up" /\ runs'.version = files.binary /\ Current'
  <2>1. Busy(p) /\ o.kind = "restart" /\ Progress(o) /\ o.pc = 1 /\ OwnStep(p) /\ ~Waits(p)
    BY <1>1, <1>3, WhichStep
  <2>2. Restarts(p)
    BY <2>1, WhichStep DEF OwnStep, Discovers, Stops, Prepares, Uploads, WritesToken,
       InstallsUnit, Enables, Verifies, Removes
  <2>3. files.unit
    BY <1>3 DEF Bootable
  <2>4. ~(phase = "up" /\ o.halted)
    BY <2>1 DEF Progress
  <2>5. Started
    BY <2>1, <2>2, <2>3, <2>4, Zenon DEF Restarts
  <2>6. /\ phase' = "up" /\ env' = Load(conf)
        /\ runs' = [version |-> files.binary, token |-> Resolved(files.token)]
    BY <1>3, <2>5 DEF Started, Boots
  <2>7. conf' = conf
    BY <2>1, OwnStepsAre
  <2>8. Current'
    BY <2>6, <2>7, LoadedIsCurrent DEF Current
  <2> QED
    BY <2>6, <2>8
<1>4. ASSUME Ends(p, "uninstall")
      PROVE  phase' = "down" /\ ~files'.unit /\ files'.binary = Absent
  <2>1. Busy(p) /\ o.kind = "uninstall" /\ Progress(o) /\ o.pc \in 1..2 /\ OwnStep(p)
        /\ Len(Steps(o.kind)) = 2
    BY <1>1, <1>4, WhichStep
  <2>2. ~Enables(p) /\ ~Restarts(p)
    BY <2>1, WhichStep DEF Enables, Restarts
  <2>3. o.pc = 2
    BY <1>1, <1>4, <2>1, <2>2
  <2>4. Removes(p)
    BY <2>1, <2>2, <2>3, WhichStep DEF OwnStep, Discovers, Stops, Prepares, Uploads, WritesToken,
       InstallsUnit, Verifies
  <2>5. UNCHANGED phase /\ files' = [files EXCEPT !.unit = FALSE, !.binary = Absent]
    BY <2>4 DEF Removes
  <2>6. phase = "down"
    BY <2>1, <2>3 DEF Progress
  <2>7. files'.unit = FALSE /\ files'.binary = Absent
    <3>1. files' = [init |-> files.init, dirs |-> files.dirs, binary |-> Absent,
                    unit |-> FALSE, token |-> files.token]
      BY <2>5 DEF HostTyped
    <3> QED
      BY <3>1
  <2> QED
    BY <2>5, <2>6, <2>7
<1> QED
  BY <1>2, <1>3, <1>4

\* A command that nothing disturbed has done what its user reads from its answer, for
\* any number of desktops, versions, requests and commands, and however often the
\* daemon was stopped, killed or booted before.
THEOREM QuietCommandsTakeEffectHolds == Spec => QuietCommandsTakeEffect
<1> DEFINE Inv == ConfigInv /\ CatalogInv /\ GrantInv /\ ApiTyped /\ HostTyped /\ OpsTyped
                  /\ QuietInv
           Effect == \A p \in Procs :
             /\ Ends(p, "install") /\ UNCHANGED faults =>
                  /\ phase = "up" /\ runs.version = op[p].version /\ Current
                  /\ runs.token = Resolved(files.token)
                  /\ op[p].token # None => runs.token = op[p].token
             /\ Ends(p, "restart") /\ UNCHANGED faults /\ Bootable =>
                  phase' = "up" /\ runs'.version = files.binary /\ Current'
             /\ Ends(p, "uninstall") /\ UNCHANGED faults =>
                  phase' = "down" /\ ~files'.unit /\ files'.binary = Absent
<1>1. MSInit => Inv
  BY InitConfig, InitCatalog, InitGrants, InitTypes, InitQuiet
<1>2. Inv /\ [MSNext]_vars => Inv'
  BY NextConfig, NextCatalog, NextGrants, NextTypes, NextQuiet
<1>3. Inv /\ [MSNext]_vars => [Effect]_vars
  BY QuietEnds DEF ConfigInv
<1>4. QuietCommandsTakeEffect <=> [][Effect]_vars
  BY DEF QuietCommandsTakeEffect
<1> HIDE DEF Effect
<1> QED
  BY <1>1, <1>2, <1>3, <1>4, PTL DEF Spec

--------------------------------------------------------------------------------
(* Commands: what is accepted is complete.                                      *)

\* What CommandsAreComplete asks of a payload.
Complete(asked, payload) ==
  IF asked.command # "ServiceBroadcast"
  THEN {k \in Fields(asked.command) : Required(SPECS[asked.command][k])} \subseteq DOMAIN payload
  ELSE /\ payload.BroadcastType = "Generic" =>
            \/ "" \notin {payload["Title"], payload["Body"]}
            \/ Raw(asked.values, "BroadcastType") \notin
                 {[type |-> "empty"], [type |-> "text", value |-> "Generic"]}
       /\ "ShutdownTimestamp" \in DOMAIN payload =>
            /\ payload["ShutdownTimestamp"] =
                 payload["DateTimestamp"] + payload["ShutdownDuration"]
            /\ 0 \notin {payload["ShutdownDuration"], payload["BroadcastFrequency"],
                         payload["BroadcastDuration"]}
       /\ "ShouldCancel" \in DOMAIN payload => "ShutdownDuration" \notin DOMAIN payload

\* A field that is given is of its type and taken as one.
LEMMA GivenField ==
  ASSUME NEW command, NEW values, ~Refused(command, values), NEW k \in Given(command, values)
  PROVE  /\ k \in DOMAIN values /\ values[k].type # "empty"
         /\ Coerces(SPECS[command][k], values[k])
         /\ Normalized(command, values)[k] = Coerced(SPECS[command][k], values[k])
<1>1. k \in DOMAIN values /\ values[k].type # "empty"
  BY DEF Given, Raw
<1>2. Coerces(SPECS[command][k], values[k])
  BY DEF Refused, WrongType
<1>3. Normalized(command, values)[k] = Coerced(SPECS[command][k], values[k])
  BY Zenon DEF Normalized
<1> QED
  BY <1>1, <1>2, <1>3, Zenon

\* One that is not has its default, if it has one.
LEMMA DefaultField ==
  ASSUME NEW command, NEW values,
         NEW k \in Fields(command) \cap DOMAIN FieldDefaults, k \notin Given(command, values)
  PROVE  Normalized(command, values)[k] = FieldDefaults[k]
<1>1. k \in Given(command, values) \cup (Fields(command) \cap DOMAIN FieldDefaults)
  OBVIOUS
<1> QED
  BY <1>1, Zenon DEF Normalized

\* Those required are given or have a default.
LEMMA RequiredFields ==
  ASSUME NEW command, NEW values, ~Refused(command, values)
  PROVE  {k \in Fields(command) : Required(SPECS[command][k])}
           \subseteq DOMAIN Normalized(command, values)
<1>1. Missing(command, values) = {}
  BY DEF Refused
<1>2. DOMAIN Normalized(command, values) =
        Given(command, values) \cup (Fields(command) \cap DOMAIN FieldDefaults)
  BY DEF Normalized
<1> QED
  BY <1>1, <1>2 DEF Missing

\* Any command but a broadcast: its required fields are in the payload.
LEMMA OtherCommandsComplete ==
  ASSUME NEW command, NEW values, ~Refused(command, values), command # "ServiceBroadcast"
  PROVE  {k \in Fields(command) : Required(SPECS[command][k])}
           \subseteq DOMAIN Payload(command, values)
<1> DEFINE f == Normalized(command, values)
<1>1. \/ Payload(command, values) = f
      \/ Payload(command, values) = With(f, "Category", "Combat")
  BY Zenon DEF Payload
<1>2. DOMAIN f \subseteq DOMAIN With(f, "Category", "Combat")
  BY DEF With
<1> QED
  BY <1>1, <1>2, RequiredFields

\* The fields of a broadcast.
LEMMA BroadcastsFields ==
  /\ Fields("ServiceBroadcast") =
       {"BroadcastType", "Title", "Body", "BroadcastDuration", "ShutdownType",
        "ShutdownDuration", "BroadcastFrequency", "ShouldCancel"}
  /\ SPECS["ServiceBroadcast"] = BroadcastFields
<1>1. SPECS["ServiceBroadcast"] = BroadcastFields
  BY DEF SPECS
<1> QED
  BY <1>1 DEF Fields, BroadcastFields

\* The numbers of a broadcast are whole.
LEMMA BroadcastsNumbers ==
  ASSUME NEW values, ~Refused("ServiceBroadcast", values),
         \A j \in DOMAIN values : RawTyped(values[j]),
         NEW k \in {"BroadcastDuration", "ShutdownDuration", "BroadcastFrequency"}
  PROVE  Normalized("ServiceBroadcast", values)[k] \in Int
<1> DEFINE f == Normalized("ServiceBroadcast", values)
           G == Given("ServiceBroadcast", values)
<1>1. k \in Fields("ServiceBroadcast") /\ SPECS["ServiceBroadcast"][k] = "int"
  BY BroadcastsFields DEF BroadcastFields
<1>2. k \in DOMAIN FieldDefaults /\ FieldDefaults[k] \in Int
  BY DEF FieldDefaults
<1>3. CASE k \in G
  <2>1. Coerces("int", values[k]) /\ k \in DOMAIN values /\ f[k] = Coerced("int", values[k])
    <3>1. /\ k \in DOMAIN values
          /\ Coerces(SPECS["ServiceBroadcast"][k], values[k])
          /\ f[k] = Coerced(SPECS["ServiceBroadcast"][k], values[k])
      BY <1>3, GivenField
    <3> HIDE DEF f, G
    <3> QED
      BY <1>1, <3>1
  <2>2. values[k].type = "whole"
    BY <2>1 DEF Coerces
  <2>3. values[k].value \in Int
    BY <2>1, <2>2 DEF RawTyped
  <2>4. Coerced("int", values[k]) = values[k].value
    BY <2>2, Zenon DEF Coerced
  <2> QED
    BY <2>1, <2>3, <2>4
<1>4. CASE k \notin G
  <2>1. f[k] = FieldDefaults[k]
    <3>1. k \in Fields("ServiceBroadcast") \cap DOMAIN FieldDefaults
      BY <1>1, <1>2, Zenon
    <3> QED
      BY <1>4, <3>1, DefaultField, Zenon
  <2> QED
    BY <1>2, <2>1
<1> QED
  BY <1>3, <1>4

\* A generic broadcast has its texts.
LEMMA GenericTexts ==
  ASSUME NEW values, ~Refused("ServiceBroadcast", values),
         \A j \in DOMAIN values : RawTyped(values[j]),
         Normalized("ServiceBroadcast", values)["BroadcastType"] = "Generic",
         NEW k \in {"Title", "Body"}
  PROVE  LET f == Normalized("ServiceBroadcast", values)
         IN  k \in DOMAIN f /\ f[k] # ""
<1> DEFINE f == Normalized("ServiceBroadcast", values)
           G == Given("ServiceBroadcast", values)
<1>1. {"Title", "Body"} \subseteq G
  BY DEF Refused, NeedsTitleAndBody
<1>2. k \in G
  BY <1>1
<1>3. k \in DOMAIN f
  BY <1>2 DEF Normalized
<1>4. SPECS["ServiceBroadcast"][k] \in {"string", "text"}
  BY BroadcastsFields DEF BroadcastFields
<1>5. /\ k \in DOMAIN values /\ values[k].type # "empty"
      /\ f[k] = Coerced(SPECS["ServiceBroadcast"][k], values[k])
  BY <1>2, GivenField
<1> HIDE DEF f, G
<1>6. PICK kind \in {"string", "text"} : f[k] = Coerced(kind, values[k])
  BY <1>4, <1>5
<1>7. CASE values[k].type = "text"
  <2>1. Coerced(kind, values[k]) = values[k].value
    BY <1>6, <1>7, Zenon DEF Coerced
  <2>2. values[k].value # ""
    BY <1>5, <1>7 DEF RawTyped
  <2> QED
    BY <1>3, <1>6, <2>1, <2>2 DEF f
<1>8. CASE values[k].type # "text"
  <2>1. Coerced(kind, values[k]) = Shown(values[k].value)
    BY <1>6, <1>8, Zenon DEF Coerced
  <2>2. Shown(values[k].value) # ""
    BY <1>5, <1>8 DEF RawTyped
  <2> QED
    BY <1>3, <1>6, <2>1, <2>2 DEF f
<1> QED
  BY <1>7, <1>8

\* A broadcast without a type, or of the type Generic, is taken for a generic one.
LEMMA TakenForGeneric ==
  ASSUME NEW values, ~Refused("ServiceBroadcast", values),
         Raw(values, "BroadcastType") \in {[type |-> "empty"], [type |-> "text", value |-> "Generic"]}
  PROVE  Normalized("ServiceBroadcast", values)["BroadcastType"] = "Generic"
<1> DEFINE f == Normalized("ServiceBroadcast", values)
           k == "BroadcastType"
<1>1. k \in Fields("ServiceBroadcast") \cap DOMAIN FieldDefaults
      /\ FieldDefaults[k] = "Generic" /\ SPECS["ServiceBroadcast"][k] = "select!"
  BY BroadcastsFields DEF BroadcastFields, FieldDefaults
<1>2. CASE k \notin Given("ServiceBroadcast", values)
  BY <1>1, <1>2, DefaultField
<1>3. CASE k \in Given("ServiceBroadcast", values)
  <2>1. /\ k \in DOMAIN values /\ values[k].type # "empty"
        /\ f[k] = Coerced(SPECS["ServiceBroadcast"][k], values[k])
    BY <1>3, GivenField
  <2>2. Raw(values, k) = values[k]
    BY <2>1 DEF Raw
  <2>3. values[k].type = "text" /\ values[k].value = "Generic"
    BY <2>1, <2>2
  <2>4. Coerced("select!", values[k]) = values[k].value
    BY <2>3, Zenon DEF Coerced
  <2> HIDE DEF f
  <2>5. f[k] = "Generic"
    BY <1>1, <2>1, <2>3, <2>4
  <2> QED
    BY <2>5 DEF f
<1> QED
  BY <1>2, <1>3

\* An accepted broadcast is complete, and its numbers are of use.
LEMMA BroadcastsComplete ==
  ASSUME NEW asked, asked.command = "ServiceBroadcast", ~Refused(asked.command, asked.values),
         \A j \in DOMAIN asked.values : RawTyped(asked.values[j])
  PROVE  Complete(asked, Payload(asked.command, asked.values))
<1> DEFINE f == Normalized("ServiceBroadcast", asked.values)
           TextOf(k) == IF k \in DOMAIN f THEN f[k] ELSE ""
<1>1. Payload(asked.command, asked.values) = Broadcast(f)
  BY Zenon DEF Payload
<1>2. /\ f["BroadcastDuration"] \in Int /\ f["ShutdownDuration"] \in Int
      /\ f["BroadcastFrequency"] \in Int
  BY BroadcastsNumbers
<1>3. Raw(asked.values, "BroadcastType") \in
        {[type |-> "empty"], [type |-> "text", value |-> "Generic"]}
        => f["BroadcastType"] = "Generic"
  BY TakenForGeneric
<1>4. f["BroadcastType"] = "Generic" => TextOf("Title") # "" /\ TextOf("Body") # ""
  BY GenericTexts
<1> HIDE DEF f, TextOf
<1> SUFFICES ASSUME NEW payload, payload = Broadcast(f) PROVE Complete(asked, payload)
  BY <1>1
<1>5. CASE f["BroadcastType"] # "ServerShutdown"
  <2>1. payload = [BroadcastType |-> "Generic", BroadcastDuration |-> f["BroadcastDuration"],
                   Title |-> TextOf("Title"), Body |-> TextOf("Body")]
    BY <1>5 DEF Broadcast, TextOf
  <2>2. /\ payload["Title"] = TextOf("Title") /\ payload["Body"] = TextOf("Body")
        /\ "ShutdownTimestamp" \notin DOMAIN payload /\ "ShouldCancel" \notin DOMAIN payload
    BY <2>1
  <2> QED
    BY <1>3, <1>4, <2>2 DEF Complete
<1>6. CASE f["BroadcastType"] = "ServerShutdown" /\ f["ShouldCancel"]
  <2>1. payload = [BroadcastType |-> "ServerShutdown", ShouldCancel |-> TRUE]
    BY <1>6 DEF Broadcast
  <2>2. /\ payload.BroadcastType = "ServerShutdown"
        /\ "ShutdownTimestamp" \notin DOMAIN payload /\ "ShutdownDuration" \notin DOMAIN payload
    BY <2>1
  <2> QED
    BY <2>2 DEF Complete
<1>7. CASE f["BroadcastType"] = "ServerShutdown" /\ ~f["ShouldCancel"]
  <2>1. payload =
          [BroadcastType |-> "ServerShutdown", ShutdownType |-> f["ShutdownType"],
           DateTimestamp |-> 0,
           ShutdownDuration |-> AtLeastOne(f["ShutdownDuration"]),
           ShutdownTimestamp |-> AtLeastOne(f["ShutdownDuration"]),
           BroadcastFrequency |-> AtLeastOne(f["BroadcastFrequency"]),
           BroadcastDuration |-> AtLeastOne(f["BroadcastDuration"])]
    BY <1>7 DEF Broadcast
  <2>2. \A n \in Int : AtLeastOne(n) \in Int /\ AtLeastOne(n) # 0
    BY DEF AtLeastOne
  <2> HIDE DEF AtLeastOne
  <2>3. /\ payload.BroadcastType = "ServerShutdown" /\ "ShouldCancel" \notin DOMAIN payload
        /\ payload["DateTimestamp"] = 0
        /\ payload["ShutdownTimestamp"] = payload["ShutdownDuration"]
        /\ payload["ShutdownDuration"] \in Int /\ payload["ShutdownDuration"] # 0
        /\ payload["BroadcastFrequency"] # 0 /\ payload["BroadcastDuration"] # 0
    BY <1>2, <2>1, <2>2
  <2> QED
    BY <2>3 DEF Complete
<1> QED
  BY <1>5, <1>6, <1>7

\* So is every accepted command.
LEMMA AcceptedIsComplete ==
  ASSUME NEW asked, ~Refused(asked.command, asked.values),
         \A k \in DOMAIN asked.values : RawTyped(asked.values[k])
  PROVE  Complete(asked, Payload(asked.command, asked.values))
<1>1. CASE asked.command = "ServiceBroadcast"
  BY <1>1, BroadcastsComplete
<1>2. CASE asked.command # "ServiceBroadcast"
  BY <1>2, OtherCommandsComplete DEF Complete
<1> QED
  BY <1>1, <1>2

\* A command is accepted before it waits for the broker, and only what was accepted is
\* heard; a whisper is no command.
CommandSound(r) ==
  \/ r = NoRequest
  \/ /\ r.kind = "publish" =>
          /\ \A k \in DOMAIN r.arg.values : RawTyped(r.arg.values[k])
          /\ r.pc # "start" => ~Refused(r.arg.command, r.arg.values)
     /\ r.kind = "whisper" => "command" \notin DOMAIN r.arg

HeardSound(m) ==
  "command" \in DOMAIN m.asked =>
    /\ \A k \in DOMAIN m.asked.values : RawTyped(m.asked.values[k])
    /\ ~Refused(m.asked.command, m.asked.values)
    /\ m.payload = Payload(m.asked.command, m.asked.values)

CommandInv ==
  /\ \A p \in Procs : CommandSound(req[p])
  /\ \A m \in heard : HeardSound(m)

LEMMA InitCommands == MSInit => CommandInv
BY DEF MSInit, Init, CommandInv, CommandSound

\* What lands is sound if the requests are.
LEMMA LandsSound ==
  ASSUME CommandInv, NEW rs, Lands(rs),
         \A r \in rs : CommandSound(r) /\ r.pc = "write"
  PROVE  \A m \in heard' : HeardSound(m)
<1> SUFFICES ASSUME NEW r \in rs, r.kind \in ToBroker PROVE HeardSound(Published(r))
  BY DEF Lands, CommandInv
<1>1. r # NoRequest /\ CommandSound(r) /\ r.pc = "write"
  BY DEF NoRequest
<1> DEFINE m == Published(r)
<1>2. m.asked = r.arg
      /\ m.payload = IF r.kind = "whisper" THEN r.arg ELSE Payload(r.arg.command, r.arg.values)
  BY DEF Published
<1> HIDE DEF m
<1>3. HeardSound(m)
  BY <1>1, <1>2 DEF CommandSound, HeardSound, ToBroker
<1> QED
  BY <1>3 DEF m

\* The steps of a handler but its write: the request goes on as it was sent, and past its
\* checks only accepted.
LEMMA HandlersKeepArgs ==
  ASSUME CatalogInv, NEW p \in Procs, Handles(p), ~Writes(p), ~Drops(p)
  PROVE  /\ UNCHANGED heard
         /\ \A q \in Procs \ {p} : req'[q] = req[q]
         /\ \/ req'[p] = NoRequest
            \/ /\ req[p] # NoRequest
               /\ req'[p].kind = req[p].kind /\ req'[p].arg = req[p].arg
               /\ req[p].kind = "publish" /\ req[p].pc = "start" =>
                    ~Refused(req[p].arg.command, req[p].arg.values)
<1> DEFINE r == req[p]
<1>1. \A q \in Procs \ {p} : req'[q] = req[q]
  BY DEF CatalogInv, Handles, Checks, ResolvesPlayer, ResolvesChat, PlansGrant, Publishes, Writes,
         Records, SavesField, ComparesCatalog, StoresCatalog, RevertsCatalog, Drops, Cut, Go,
         Answered, Outcome
<1>2. UNCHANGED heard
  BY DEF Handles, Checks, ResolvesPlayer, ResolvesChat, PlansGrant, Publishes,
         Records, SavesField, ComparesCatalog, StoresCatalog, RevertsCatalog, game, store
<1>3. r # NoRequest => InForce(r)
  BY DEF CatalogInv, RequestTyped, InForce
<1>4. ASSUME Answered(p) PROVE req'[p] = NoRequest
  BY <1>4 DEF Answered, CatalogInv
<1>5. ASSUME NEW pc, Go(p, pc), r # NoRequest
      PROVE  req'[p].kind = r.kind /\ req'[p].arg = r.arg
  <2>1. req'[p] = [pc |-> pc, id |-> r.id, kind |-> r.kind, arg |-> r.arg, ok |-> r.ok,
                   seen |-> r.seen, taken |-> r.taken]
    BY <1>3, <1>5 DEF Go, CatalogInv, InForce
  <2> QED
    BY <2>1
<1>6. ASSUME Outcome(p, FALSE), r # NoRequest
      PROVE  req'[p].kind = r.kind /\ req'[p].arg = r.arg
  <2>1. req'[p] = [pc |-> "record", id |-> r.id, kind |-> r.kind, arg |-> r.arg, ok |-> FALSE,
                   seen |-> r.seen, taken |-> r.taken]
    BY <1>3, <1>6 DEF Outcome, CatalogInv, InForce
  <2> QED
    BY <2>1
<1> HIDE DEF Answered, Go, Outcome
<1>7. CASE Checks(p)
  <2>1. At(p, {"grant", "level", "publish", "whisper"}, "start") /\ r # NoRequest
    BY <1>7 DEF Checks, At, NoRequest
  <2>2. \/ Answered(p)
        \/ /\ \E pc : Go(p, pc)
           /\ r.kind = "publish" => ~Refused(r.arg.command, r.arg.values)
    BY <1>7, Zenon DEF Checks, Arg
  <2> QED
    BY <1>1, <1>2, <1>4, <1>5, <2>1, <2>2
<1>8. CASE ResolvesPlayer(p) \/ ResolvesChat(p) \/ Publishes(p)
  <2>1. \E pc \in {"resolve", "queue"} : r.pc = pc
    BY <1>8, Zenon DEF ResolvesPlayer, ResolvesChat, Publishes, At
  <2>2. r # NoRequest /\ r.pc # "start"
    BY <2>1 DEF NoRequest
  <2>3. \/ Answered(p)
        \/ Outcome(p, FALSE)
        \/ \E pc : Go(p, pc)
    <3>1. ResolvesPlayer(p) => Answered(p) \/ \E pc : Go(p, pc)
      BY Zenon DEF ResolvesPlayer
    <3>2. ResolvesChat(p) => Answered(p) \/ Outcome(p, FALSE) \/ \E pc : Go(p, pc)
      BY Zenon DEF ResolvesChat
    <3>3. Publishes(p) => \E pc : Go(p, pc)
      BY Zenon DEF Publishes
    <3> QED
      BY <1>8, <3>1, <3>2, <3>3, Zenon
  <2> QED
    BY <1>1, <1>2, <1>4, <1>5, <1>6, <2>2, <2>3
<1>9. CASE PlansGrant(p)
  <2>1. r # NoRequest /\ r.pc # "start" /\ RequestTyped(p) /\ req = [q \in Procs |-> req[q]]
    <3>1. r.pc = "plan"
      BY <1>9, Zenon DEF PlansGrant, At
    <3>2. r # NoRequest /\ r.pc # "start"
      BY <3>1 DEF NoRequest
    <3>3. RequestTyped(p) /\ req = [q \in Procs |-> req[q]]
      BY Zenon DEF CatalogInv
    <3> QED
      BY <3>2, <3>3
  <2>2. req'[p] = [pc |-> req'[p].pc, id |-> r.id, kind |-> r.kind, arg |-> r.arg,
                   ok |-> req'[p].ok, seen |-> req'[p].seen, taken |-> r.taken]
    BY <1>9, <2>1, PlanMoves
  <2>3. req'[p].kind = r.kind /\ req'[p].arg = r.arg
    BY <2>2
  <2> QED
    BY <1>1, <1>2, <2>1, <2>3
<1>10. CASE Records(p) \/ StoresCatalog(p) \/ RevertsCatalog(p)
  BY <1>1, <1>2, <1>4, <1>10 DEF Records, StoresCatalog, RevertsCatalog
<1>11. CASE SavesField(p)
  <2>1. r # NoRequest /\ r.kind = "save"
    BY <1>11 DEF SavesField, At, NoRequest
  <2>2. Answered(p) \/ \E i : req' = [req EXCEPT ![p].taken = i]
    BY <1>11, Zenon DEF SavesField
  <2>3. ASSUME NEW i, req' = [req EXCEPT ![p].taken = i]
        PROVE  req'[p].kind = r.kind /\ req'[p].arg = r.arg
    <3>1. req'[p] = [pc |-> r.pc, id |-> r.id, kind |-> r.kind, arg |-> r.arg, ok |-> r.ok,
                     seen |-> r.seen, taken |-> i]
      BY <1>3, <2>1, <2>3 DEF CatalogInv, InForce
    <3> QED
      BY <3>1
  <2> QED
    BY <1>1, <1>2, <1>4, <2>1, <2>2, <2>3
<1>12. CASE ComparesCatalog(p)
  <2>1. r # NoRequest /\ r.kind = "apply"
    BY <1>12 DEF ComparesCatalog, At, NoRequest
  <2>2. Answered(p) \/ \E K : req' = [req EXCEPT ![p].pc = "store", ![p].seen = K]
    BY <1>12 DEF ComparesCatalog
  <2>3. ASSUME NEW K, req' = [req EXCEPT ![p].pc = "store", ![p].seen = K]
        PROVE  req'[p].kind = r.kind /\ req'[p].arg = r.arg
    <3>1. req'[p] = [pc |-> "store", id |-> r.id, kind |-> r.kind, arg |-> r.arg, ok |-> r.ok,
                     seen |-> K, taken |-> r.taken]
      BY <1>3, <2>1, <2>3 DEF CatalogInv, InForce
    <3> QED
      BY <3>1
  <2> QED
    BY <1>1, <1>2, <1>4, <2>1, <2>2, <2>3
<1> QED
  BY <1>7, <1>8, <1>9, <1>10, <1>11, <1>12 DEF Handles

\* Requests end: some of those at their write have landed.
LEMMA CutKeepsCommands ==
  ASSUME CommandInv, NEW ps \in SUBSET Procs, Cut(ps)
  PROVE  CommandInv'
<1>1. PICK done \in SUBSET Writing(ps) : Lands(done)
  BY DEF Cut
<1>2. \A r \in done : CommandSound(r) /\ r.pc = "write"
  BY DEF Writing, CommandInv
<1>3. \A m \in heard' : HeardSound(m)
  BY <1>1, <1>2, LandsSound
<1>4. \A q \in Procs : CommandSound(req'[q])
  BY DEF Cut, CommandInv, CommandSound
<1> QED
  BY <1>3, <1>4 DEF CommandInv

LEMMA NextCommands == CatalogInv /\ CommandInv /\ [MSNext]_vars => CommandInv'
<1> SUFFICES ASSUME CatalogInv, CommandInv, [MSNext]_vars PROVE CommandInv'
  OBVIOUS
<1>1. ASSUME NEW p \in Procs, Writes(p) PROVE CommandInv'
  <2> DEFINE r == req[p]
  <2>1. r.pc = "write" /\ r # NoRequest /\ CommandSound(r)
    BY <1>1 DEF Writes, NoRequest, CommandInv
  <2>2. PICK ok \in BOOLEAN : Outcome(p, ok) /\ (Lands({r}) \/ UNCHANGED heard)
    BY <1>1 DEF Writes, game
  <2>3. /\ req'[p] = [pc |-> "record", id |-> r.id, kind |-> r.kind, arg |-> r.arg, ok |-> ok,
                      seen |-> r.seen, taken |-> r.taken]
        /\ \A q \in Procs \ {p} : req'[q] = req[q]
    <3>1. InForce(r)
      BY <2>1 DEF CatalogInv, RequestTyped, InForce
    <3>2. req' = [req EXCEPT ![p].pc = "record", ![p].ok = ok]
      BY <2>2 DEF Outcome
    <3> QED
      BY <3>1, <3>2 DEF CatalogInv, InForce
  <2>4. CommandSound(req'[p])
    BY <2>1, <2>3 DEF CommandSound
  <2>5. \A m \in heard' : HeardSound(m)
    BY <2>1, <2>2, LandsSound DEF CommandInv
  <2> QED
    BY <2>3, <2>4, <2>5 DEF CommandInv
<1>2. ASSUME NEW p \in Procs, Drops(p) PROVE CommandInv'
  BY <1>2, CutKeepsCommands DEF Drops
<1>3. ASSUME NEW p \in Procs, Handles(p), ~Writes(p), ~Drops(p) PROVE CommandInv'
  <2>1. CommandSound(req[p])
    BY DEF CommandInv
  <2>2. CommandSound(req'[p])
    BY <1>3, <2>1, HandlersKeepArgs DEF CommandSound
  <2> QED
    BY <1>3, <2>2, HandlersKeepArgs DEF CommandInv
<1>4. ASSUME NEW p \in Procs, NEW r \in Requests, Ask(p, r) PROVE CommandInv'
  <2>1. /\ UNCHANGED heard
        /\ \A q \in Procs \ {p} : req'[q] = req[q]
        /\ req'[p] = [pc |-> "start", id |-> issued + 1, kind |-> r.kind, arg |-> r.arg,
                      ok |-> FALSE, seen |-> {}, taken |-> 0]
    BY <1>4 DEF Ask, CatalogInv, game
  <2>2. CommandSound(req'[p])
    BY <2>1, RequestAssumption DEF CommandSound
  <2> QED
    BY <2>1, <2>2 DEF CommandInv
<1>5. CASE Killed \/ Crashes
  BY <1>5, CutKeepsCommands DEF Killed, Crashes, InFlight
<1>6. ASSUME UNCHANGED <<req, heard>> PROVE CommandInv'
  BY <1>6 DEF CommandInv
<1>7. ASSUME NEW p \in Procs, Commands(p) PROVE CommandInv'
  BY <1>6, <1>7, CommandsLeaveRequests DEF game
<1>8. CASE StopEnds \/ Respawns \/ HostBoots \/ UNCHANGED vars
  BY <1>6, <1>8 DEF StopEnds, Respawns, HostBoots, HostUnchanged, vars, apiVars, game
<1> QED
  BY <1>1, <1>2, <1>3, <1>4, <1>5, <1>7, <1>8 DEF MSNext, ApiSteps, ApiNext

\* Whatever an administrator enters, and however requests interleave, end or are killed, no
\* command reaches the game without a field its handler needs or with a useless number.
THEOREM CommandsAreCompleteHolds == Spec => []CommandsAreComplete
<1>1. CommandInv => CommandsAreComplete
  <2>1. CommandInv => \A m \in {m \in heard : "command" \in DOMAIN m.asked} :
                        Complete(m.asked, m.payload)
    BY AcceptedIsComplete DEF CommandInv, HeardSound
  <2> QED
    BY <2>1, Zenon DEF CommandsAreComplete, Complete
<1> QED
  BY <1>1, InitCatalog, NextCatalog, InitCommands, NextCommands, PTL DEF Spec

================================================================================
