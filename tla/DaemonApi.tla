------------------------------- MODULE DaemonApi -------------------------------
(***************************************************************************)
(* The daemon on the game server as the desktop's administrators see it:   *)
(* its process, the settings and the item catalog in its store, and the    *)
(* requests of its HTTP API that change something.  Handlers run           *)
(* concurrently; each of their database statements, publishes and store    *)
(* writes is a step.  A handler whose client is gone is dropped at its     *)
(* next await, and a killed daemon drops them all.                         *)
(***************************************************************************)
EXTENDS DaemonConfig, ItemCatalog, AdminCommands

CONSTANTS
  Procs,       \* the windows and desktops in use
  Requests,    \* the requests they send: [kind, arg]
  Tracks,      \* the specialization tracks
  Slots,       \* the slots of the player's backpack
  MaxQuantity, \* MAX_QUALITY_GRANT_QUANTITY
  Bundled,     \* the catalog in the binary
  Earlier,     \* the rows that an earlier daemon may have left
  NoCatalog,
  MaxCommands, \* bound: the requests and desktop commands of a behaviour
  MaxFaults    \* bound: crashes, kills, lost answers, dropped clients

ASSUME CatalogAssumption == Valid(Bundled) /\ NoCatalog # Bundled
ASSUME ApiBounds == MaxCommands \in Nat /\ MaxFaults \in Nat
ASSUME SlotsAssumption == IsFiniteSet(Slots) /\ MaxQuantity \in Nat
ASSUME EarlierAssumption ==
  \A rows \in Earlier : /\ "package" \in DOMAIN rows => rows["package"] \in BOOLEAN
                        /\ "zone" \in DOMAIN rows => rows["zone"] \in Zones
ASSUME RequestAssumption ==
  \A r \in Requests :
    /\ r.kind = "save" => /\ \A k \in DOMAIN r.arg : r.arg[k] # None
                          /\ "package" \in DOMAIN r.arg => r.arg["package"] \in BOOLEAN
    /\ r.kind = "apply" => r.arg.catalog # NoCatalog
    /\ r.kind = "publish" => \A k \in DOMAIN r.arg.values : RawTyped(r.arg.values[k])
    /\ r.kind = "whisper" => "command" \notin DOMAIN r.arg

VARIABLES
  phase,     \* the process: down, up, stopping, failed
  env,       \* the settings it runs with
  conf,      \* the settings stored
  override,  \* the catalog stored over the bundled one
  backpack,  \* the items granted: the slot, the request, how many it asked for and
             \* the grants that were there when it looked for slots
  heard,     \* what the game's broker got: the request, what it asked, the payload
  edited,    \* the requests whose level was written
  history,   \* the rows of the admin history
  excused,   \* the requests on which something failed that no handler can see
  req,       \* the request each process waits for
  issued,
  faults

store    == <<conf, override, history>>
game     == <<backpack, heard, edited>>
apiVars  == <<phase, env, store, game, excused, req, issued, faults>>

NoRequest == [pc |-> "idle"]
Table(rows) == [k \in StoredKeys |-> IF k \in DOMAIN rows THEN rows[k] ELSE None]

Init ==
  /\ phase = "down"
  /\ conf \in {NothingStored} \cup {Table(rows) : rows \in Earlier}
  /\ env = Load(conf)
  /\ override = NoCatalog
  /\ backpack = {} /\ heard = {} /\ edited = {} /\ history = {} /\ excused = {}
  /\ req = [p \in Procs |-> NoRequest]
  /\ issued = 0 /\ faults = 0

\* active_catalog(): an override that is no longer valid is passed over.
Active == IF override # NoCatalog /\ Valid(override) THEN override ELSE Bundled

At(p, kinds, pc) == req[p].pc = pc /\ req[p].kind \in kinds
Arg(p) == req[p].arg
Go(p, pc)   == req' = [req EXCEPT ![p].pc = pc]
Answered(p) == req' = [req EXCEPT ![p] = NoRequest]
Outcome(p, ok) == req' = [req EXCEPT ![p].pc = "record", ![p].ok = ok]
Excuse(ids)  == excused' = excused \cup ids
Fault == faults < MaxFaults /\ faults' = faults + 1

--------------------------------------------------------------------------------
(* A request: the tunnel's port is looked up and the daemon reached through it. *)
(* One that finds no tunnel or no daemon is answered an error and changes       *)
(* nothing.                                                                     *)
Ask(p, r) ==
  /\ phase = "up"
  /\ issued < MaxCommands
  /\ req[p] = NoRequest
  /\ issued' = issued + 1
  /\ req' = [req EXCEPT ![p] = [pc |-> "start", id |-> issued + 1, kind |-> r.kind,
                                arg |-> r.arg, ok |-> FALSE, seen |-> {}, taken |-> 0]]
  /\ UNCHANGED <<phase, env, store, game, excused, faults>>

\* What a request is checked for before its handler's first await.
OfCustomTier(arg) == arg.quantity \in 1..MaxQuantity /\ arg.quality \in 1..5
Grantable(arg) ==
  /\ OfCustomTier(arg)
  /\ arg.item \in Keys(Active)
  /\ Find(Active, arg.item).gradeable
Levelable(arg) == arg.track \in Tracks
Whisperable(arg) == arg.message \notin {"", TooLong}

Checks(p) ==
  /\ At(p, {"grant", "level", "publish", "whisper"}, "start")
  /\ IF CASE req[p].kind = "grant"   -> Grantable(Arg(p))
          [] req[p].kind = "level"   -> Levelable(Arg(p))
          [] req[p].kind = "publish" -> ~Refused(Arg(p).command, Arg(p).values)
          [] req[p].kind = "whisper" -> Whisperable(Arg(p))
     THEN Go(p, IF req[p].kind = "publish" THEN "queue" ELSE "resolve")
     ELSE Answered(p)
  /\ UNCHANGED <<phase, env, store, game, excused, issued, faults>>

\* The namespace, the player and the backpack are looked up; an unknown or an
\* online player, or a query that fails, is an answer without a history row.
ResolvesPlayer(p) ==
  /\ At(p, {"grant", "level"}, "resolve")
  /\ \/ Go(p, IF req[p].kind = "grant" THEN "plan" ELSE "write")
     \/ Answered(p)
  /\ UNCHANGED <<phase, env, store, game, excused, issued, faults>>

\* Of a whisper the two players are looked up: only a namespace that is not found
\* goes unrecorded.
ResolvesChat(p) ==
  /\ At(p, {"whisper"}, "resolve")
  /\ \/ Go(p, "queue")
     \/ Outcome(p, FALSE)
     \/ Answered(p)
  /\ UNCHANGED <<phase, env, store, game, excused, issued, faults>>

FreeSlots == Slots \ {item.slot : item \in backpack}
\* The grants whose items are in the backpack.
Granted == {item.by : item \in backpack}
\* The n lowest of S, unless it has fewer.
Lowest(n, S) ==
  {L \in SUBSET S : Cardinality(L) = n /\ \A x \in L, y \in S \ L : x < y}

\* (A bug: the positions are numbered without a look at the rows there are.)
PlansTakenSlots(p) ==
  /\ At(p, {"grant"}, "plan")
  /\ \/ \E L \in Lowest(Arg(p).quantity, Slots) :
          req' = [req EXCEPT ![p].pc = "write", ![p].seen = [slots |-> L, after |-> Granted]]
     \/ Outcome(p, FALSE)
  /\ UNCHANGED <<phase, env, store, game, excused, issued, faults>>

\* The transaction begins and asks for as many free slots as it inserts items; a
\* gradeable item never stacks.  The query takes no lock: it sees what was
\* committed before it.
PlansGrant(p) ==
  /\ At(p, {"grant"}, "plan")
  /\ \/ \E L \in Lowest(Arg(p).quantity, FreeSlots) :
          req' = [req EXCEPT ![p].pc = "write", ![p].seen = [slots |-> L, after |-> Granted]]
     \/ Outcome(p, FALSE)
  /\ UNCHANGED <<phase, env, store, game, excused, issued, faults>>

\* What the statement or the publish of a request leaves in the game.
Inserted(r) ==
  {[slot |-> s, by |-> r.id, of |-> r.arg.quantity, after |-> r.seen.after] :
     s \in r.seen.slots}
Published(r) ==
  [id |-> r.id, asked |-> r.arg,
   payload |-> IF r.kind = "whisper" THEN r.arg ELSE Payload(r.arg.command, r.arg.values)]
ToBroker == {"publish", "whisper"}
Lands(rs) ==
  /\ backpack' = backpack \cup UNION {Inserted(r) : r \in {r \in rs : r.kind = "grant"}}
  /\ edited' = edited \cup {r.id : r \in {r \in rs : r.kind = "level"}}
  /\ heard' = heard \cup {Published(r) : r \in {r \in rs : r.kind \in ToBroker}}

\* publish_lock: publishes and whispers are serialized.
Publishes(p) ==
  /\ At(p, ToBroker, "queue")
  /\ \A q \in Procs : ~At(q, ToBroker, "write")
  /\ Go(p, "write")
  /\ UNCHANGED <<phase, env, store, game, excused, issued, faults>>

\* The commit, the update or the publish: it takes effect or fails, and its answer
\* may be lost.
Writes(p) ==
  /\ req[p].pc = "write"
  /\ \/ Lands({req[p]}) /\ Outcome(p, TRUE) /\ UNCHANGED <<excused, faults>>
     \/ Outcome(p, FALSE) /\ UNCHANGED <<game, excused, faults>>
     \/ Lands({req[p]}) /\ Outcome(p, FALSE) /\ Excuse({req[p].id}) /\ Fault
  /\ UNCHANGED <<phase, env, store, issued>>

\* record_admin_command(), whose failure is ignored, and the answer.
Row(r) == [id |-> r.id, kind |-> r.kind, ok |-> r.ok]
\* (A bug: only failures are recorded.)
RecordsFailures(p) ==
  /\ req[p].pc = "record"
  /\ Answered(p)
  /\ history' = IF req[p].ok THEN history ELSE history \cup {Row(req[p])}
  /\ UNCHANGED <<phase, env, conf, override, game, excused, issued, faults>>

Records(p) ==
  /\ req[p].pc = "record"
  /\ Answered(p)
  /\ \/ history' = history \cup {Row(req[p])} /\ UNCHANGED <<excused, faults>>
     \/ Fault /\ Excuse({req[p].id}) /\ UNCHANGED history
  /\ UNCHANGED <<phase, env, conf, override, game, issued>>

\* set_config(): one field is checked and saved, or refused with a 400 that
\* leaves the fields before it saved.
SavesField(p) ==
  /\ At(p, {"save"}, "start")
  /\ LET rest == FieldsAfter(Arg(p), req[p].taken)
         i == Min(rest)
     IN  IF rest = {} \/ ~Acceptable(SaveOrder[i], Arg(p)[SaveOrder[i]])
         THEN Answered(p) /\ UNCHANGED conf
         ELSE /\ conf' = Save(conf, SaveOrder[i], Arg(p)[SaveOrder[i]])
              /\ req' = [req EXCEPT ![p].taken = i]
  /\ UNCHANGED <<phase, env, override, history, game, excused, issued, faults>>

\* (Two bugs: the candidate is compared without being validated; a removal is seen
\* in the number of rows.)
ComparesUnchecked(p) ==
  /\ At(p, {"apply"}, "start")
  /\ IF ~Arg(p).confirm /\ Removed(Active, Arg(p).catalog) # {}
     THEN Answered(p)
     ELSE req' = [req EXCEPT ![p].pc = "store", ![p].seen = Keys(Active)]
  /\ UNCHANGED <<phase, env, store, game, excused, issued, faults>>
ComparesLengths(p) ==
  /\ At(p, {"apply"}, "start")
  /\ IF \/ ~Valid(Arg(p).catalog)
        \/ Blocked(Active, Arg(p).catalog)
        \/ ~Arg(p).confirm /\ Len(Arg(p).catalog) < Len(Active)
     THEN Answered(p)
     ELSE req' = [req EXCEPT ![p].pc = "store", ![p].seen = Keys(Active)]
  /\ UNCHANGED <<phase, env, store, game, excused, issued, faults>>

\* apply_catalog() up to its checks: it goes on with what it compared.
ComparesCatalog(p) ==
  /\ At(p, {"apply"}, "start")
  /\ IF \/ ~Valid(Arg(p).catalog)
        \/ Blocked(Active, Arg(p).catalog)
        \/ ~Arg(p).confirm /\ Removed(Active, Arg(p).catalog) # {}
     THEN Answered(p)
     ELSE req' = [req EXCEPT ![p].pc = "store", ![p].seen = Keys(Active)]
  /\ UNCHANGED <<phase, env, store, game, excused, issued, faults>>

StoresCatalog(p) ==
  /\ At(p, {"apply"}, "store")
  /\ override' = Arg(p).catalog
  /\ Answered(p)
  /\ UNCHANGED <<phase, env, conf, history, game, excused, issued, faults>>

RevertsCatalog(p) ==
  /\ At(p, {"revert"}, "start")
  /\ override' = NoCatalog
  /\ Answered(p)
  /\ UNCHANGED <<phase, env, conf, history, game, excused, issued, faults>>

--------------------------------------------------------------------------------
(* What goes wrong around the handlers.                                     *)

InFlight == {p \in Procs : req[p] # NoRequest}
Writing(ps) == {req[p] : p \in {p \in ps : req[p].pc = "write"}}

\* Requests end without an answer: of those at their write some have taken effect.
Cut(ps) ==
  /\ req' = [p \in Procs |-> IF p \in ps THEN NoRequest ELSE req[p]]
  /\ Excuse({req[p].id : p \in ps})
  /\ \E done \in SUBSET Writing(ps) : Lands(done)

\* The client gave up, after 20 seconds or by closing: the handler is dropped at
\* an await.
Drops(p) ==
  /\ req[p].pc \in {"resolve", "plan", "queue", "write"}
  /\ Fault
  /\ Cut({p})
  /\ UNCHANGED <<phase, env, store, issued>>

\* A start reads the store once.
Boots ==
  /\ phase' = "up"
  /\ env' = Load(conf)

\* SIGTERM: no new connection, and the handlers in flight are waited for.
Terminates == phase = "up" /\ phase' = "stopping" /\ UNCHANGED env

StopEnds ==
  /\ phase = "stopping"
  /\ InFlight = {}
  /\ phase' = "down"
  /\ UNCHANGED <<env, store, game, excused, req, issued, faults>>

\* systemd does not wait for ever.
Killed ==
  /\ phase = "stopping"
  /\ InFlight # {}
  /\ Fault
  /\ Cut(InFlight)
  /\ phase' = "down"
  /\ UNCHANGED <<env, store, issued>>

Crashes ==
  /\ phase = "up"
  /\ Fault
  /\ Cut(InFlight)
  /\ phase' = "failed"
  /\ UNCHANGED <<env, store, issued>>

Handles(p) ==
  \/ Checks(p) \/ ResolvesPlayer(p) \/ ResolvesChat(p) \/ PlansGrant(p)
  \/ Publishes(p) \/ Writes(p) \/ Records(p)
  \/ SavesField(p) \/ ComparesCatalog(p) \/ StoresCatalog(p) \/ RevertsCatalog(p)
  \/ Drops(p)

ApiNext ==
  \/ \E p \in Procs : Handles(p) \/ \E r \in Requests : Ask(p, r)
  \/ StopEnds \/ Killed \/ Crashes

--------------------------------------------------------------------------------
(* What the API promises.                                                   *)

Phases == {"down", "up", "stopping", "failed"}
Points == {"idle", "start", "resolve", "plan", "queue", "write", "record", "store"}

ApiTypeOK ==
  /\ phase \in Phases
  /\ DOMAIN env = Settings /\ DOMAIN conf = StoredKeys
  /\ override = NoCatalog \/ Valid(override)
  /\ \A row \in history : row.id \in 1..issued /\ row.ok \in BOOLEAN
  /\ excused \subseteq 1..issued /\ edited \subseteq 1..issued
  /\ \A item \in backpack : item.slot \in Slots /\ item.by \in 1..issued
  /\ \A p \in Procs : req[p].pc \in Points
  /\ issued \in 0..MaxCommands /\ faults \in 0..MaxFaults

\* While the daemon runs and the configuration does not say that a restart is
\* required, a restart would change no setting, but for one whose stored number is
\* too large to be read: the comparison of get_config() and the loading of run()
\* agree, whatever part of whatever updates was saved (api_runs.rs:111 promises
\* the flag to the user interface).
FlagOff == phase \in {"up", "stopping"} /\ ~RestartRequired(conf, env)
QuietMeansCurrent ==
  FlagOff => \A k \in Settings : TooLarge(conf, k) \/ Load(conf)[k] = env[k]

\* What the comment at api_runs.rs:111 says of any saved override.  It does not
\* hold of a number that set_config() stores and nobody reads (:246): the flag is
\* off, and a restart goes back to the default.
FlagShowsEverySetting == FlagOff => Load(conf) = env

\* An update of the catalog that nobody confirmed removes no item of the catalog
\* it was compared with, and every catalog put in place is valid
\* (catalog.rs:160).  What another update added in between may go.
UnconfirmedKeepsWhatItSaw ==
  [][\A p \in Procs :
       StoresCatalog(p) =>
         /\ Active' = Arg(p).catalog
         /\ ~Arg(p).confirm => req[p].seen \subseteq Keys(Active')]_apiVars

\* A grant is in the backpack as a whole or not at all.  No two items are in one
\* slot, unless they are of two grants of which each had looked for slots before
\* the other was committed, since the query takes no lock (queries.rs:171).  And
\* what the history calls done took effect (queries.rs:688, api_admin.rs:418).
Took(id) == id \in Granted \cup edited \/ \E m \in heard : m.id = id
Overlapped(x, y) == x.by # y.by /\ x.by \notin y.after /\ y.by \notin x.after
GrantsAreWhole ==
  /\ \A item \in backpack :
       Cardinality({other \in backpack : other.by = item.by}) = item.of
  /\ \A x, y \in backpack : x.slot = y.slot => x = y \/ Overlapped(x, y)
  /\ \A row \in history : row.ok => Took(row.id)

\* What took effect is in the history as done, or is about to be recorded, or
\* something failed on it that its handler could not see: a lost answer, a client
\* or a daemon gone, a row that could not be written.
EffectsAreRecorded ==
  \A id \in 1..issued :
    Took(id) => \/ \E row \in history : row.id = id /\ row.ok
                \/ id \in excused
                \/ \E p \in Procs : req[p].pc = "record" /\ req[p].id = id /\ req[p].ok

\* A command the game hears has every field its handler needs, and no number of a
\* broadcast is useless: a generic one has a title and a body (unless it was asked
\* for with a type that is none of the two), a countdown ends when it says it does,
\* lasts, repeats with a pause and is shown for a while, and a cancellation carries
\* nothing that could be taken for a new countdown (build.rs:43, :54, :93, :122).
CommandsAreComplete ==
  \A m \in {m \in heard : "command" \in DOMAIN m.asked} :
    IF m.asked.command # "ServiceBroadcast"
    THEN {k \in Fields(m.asked.command) : Required(SPECS[m.asked.command][k])}
           \subseteq DOMAIN m.payload
    ELSE /\ m.payload.BroadcastType = "Generic" =>
              \/ "" \notin {m.payload["Title"], m.payload["Body"]}
              \/ Raw(m.asked.values, "BroadcastType") \notin
                   {[type |-> "empty"], [type |-> "text", value |-> "Generic"]}
         /\ "ShutdownTimestamp" \in DOMAIN m.payload =>
              /\ m.payload["ShutdownTimestamp"] =
                   m.payload["DateTimestamp"] + m.payload["ShutdownDuration"]
              /\ 0 \notin {m.payload["ShutdownDuration"], m.payload["BroadcastFrequency"],
                           m.payload["BroadcastDuration"]}
         /\ "ShouldCancel" \in DOMAIN m.payload => "ShutdownDuration" \notin DOMAIN m.payload
================================================================================
