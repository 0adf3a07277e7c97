----------------------------- MODULE DaemonConfig ------------------------------
(***************************************************************************)
(* The settings an operator can change: where the daemon keeps them (the   *)
(* key-value table task_config), how it loads them at startup over its     *)
(* defaults, how POST /api/config checks and saves them one by one, and    *)
(* how GET /api/config decides that a restart is required.                 *)
(***************************************************************************)
EXTENDS Naturals, Sequences

CONSTANTS None,         \* no row is stored for a key
          Zones,        \* the texts that parse as a time zone
          ActionLists,  \* the texts that parse as a list of welcome actions
          EnvZone,      \* the zone the process environment gives
          TooLong,      \* a message over the 1000 characters allowed
          MaxI64        \* the largest number that is read back, 2^63 - 1

ASSUME ConfigAssumption ==
  /\ "[]" \in ActionLists /\ None \notin Zones
  /\ MaxI64 \in Nat /\ 1800 \leq MaxI64

Defaults ==
  [restart |-> TRUE, hour |-> 5, minute |-> 0, frequency |-> 600, duration |-> 1800,
   package |-> FALSE, message |-> FALSE, actions |-> "[]", whisperer |-> "",
   text |-> "", zone |-> EnvZone]

Settings   == DOMAIN Defaults
StoredKeys == Settings \cup {"items"}   \* the list under its legacy key
NothingStored == [k \in StoredKeys |-> None]

\* get_config_i64(): a number is saved as a u64 and parsed as an i64.  A row that
\* is too large for that counts as none.
Numbers == {"hour", "minute", "frequency", "duration"}
TooLarge(conf, k) == k \in Numbers /\ conf[k] # None /\ conf[k] > MaxI64
Read(conf, k) == IF TooLarge(conf, k) THEN None ELSE conf[k]

Stored(conf, k, otherwise) == IF Read(conf, k) = None THEN otherwise ELSE Read(conf, k)

\* The welcome actions as stored: the legacy key counts when the other has no row.
StoredActions(conf) == Stored(conf, "actions", conf["items"])

\* run(): each stored value replaces its default.  A zone that does not parse is
\* ignored; a list that does not parse disables the welcome package for the run.
Load(conf) ==
  LET actions == IF StoredActions(conf) = None THEN Defaults["actions"]
                                               ELSE StoredActions(conf)
  IN  [k \in Settings |->
         CASE k = "actions" -> actions
           [] k = "package" -> /\ Stored(conf, k, Defaults[k])
                               /\ actions \in ActionLists
           [] k = "zone"    -> IF conf[k] \in Zones THEN conf[k] ELSE Defaults[k]
           [] OTHER         -> Stored(conf, k, Defaults[k])]

\* (A bug that RestartRequired could have: the schedule and the switches are
\* compared, the welcome texts are not.)
RestartRequiredForSwitches(conf, env) ==
  \/ \E k \in Settings \ {"actions", "text", "whisperer"} :
        Read(conf, k) # None /\ Read(conf, k) # env[k]
  \/ StoredActions(conf) # None /\ StoredActions(conf) # env["actions"]

\* get_config(): a stored value that can be read differs from the one in use.
RestartRequired(conf, env) ==
  \/ \E k \in Settings \ {"actions"} : Read(conf, k) # None /\ Read(conf, k) # env[k]
  \/ StoredActions(conf) # None /\ StoredActions(conf) # env["actions"]

--------------------------------------------------------------------------------
\* The fields of an update in the order set_config() takes them.  The version is
\* checked and never saved.
SaveOrder == <<"hour", "minute", "frequency", "duration", "zone", "restart",
               "package", "message", "version", "actions", "items", "whisperer", "text">>

Acceptable(k, v) ==
  CASE k = "hour"                     -> v \leq 23
    [] k = "minute"                   -> v \leq 59
    [] k \in {"frequency", "duration"} -> v > 0
    [] k = "zone"                     -> v \in Zones
    [] k = "version"                  -> v = "v1"
    [] k \in {"actions", "items"}     -> v \in ActionLists
    [] k = "text"                     -> v # TooLong
    [] OTHER                          -> TRUE

\* The fields of an update still to be taken after the first n of the order; the
\* legacy list is looked at only when the update does not bring the other.
FieldsAfter(update, n) ==
  {i \in n + 1 .. Len(SaveOrder) :
     /\ SaveOrder[i] \in DOMAIN update
     /\ SaveOrder[i] = "items" => "actions" \notin DOMAIN update}

\* The table once field k of an update is saved.
Save(conf, k, v) ==
  IF k = "version" THEN conf
  ELSE [conf EXCEPT ![IF k = "items" THEN "actions" ELSE k] = v]
================================================================================
