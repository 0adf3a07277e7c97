----------------------------- MODULE AdminCommands -----------------------------
(***************************************************************************)
(* The commands an administrator can publish to the game: their fields, how*)
(* raw input is defaulted, coerced and refused, and the payload built from *)
(* it (admin/commands/).  A raw value is a record of a type and, but for   *)
(* "empty", a value: a text that is no number, a whole number (or a text   *)
(* that reads as one), a fraction, an infinite number, a truth value, or   *)
(* something else.  Labels, help texts and the vehicles' options are left  *)
(* out.                                                                    *)
(***************************************************************************)
EXTENDS Integers, FiniteSets, TLC

\* The kinds of the fields; "!" stands for required.
Player == [PlayerId |-> "string!"]
Coordinates == [X |-> "float!", Y |-> "float!", Z |-> "float!"]
TeleportFields ==
  Player @@ Coordinates @@
  [Yaw |-> "float", CamPitch |-> "float", CamYaw |-> "float", CamRoll |-> "float"]
ItemFields == Player @@ [ItemName |-> "string!", Quantity |-> "int", Durability |-> "float"]
VehicleFields ==
  Player @@ Coordinates @@
  [ClassName |-> "string!", TemplateName |-> "string!", Rotation |-> "float",
   Persistent |-> "float", Faction |-> "string"]
BroadcastFields ==
  [BroadcastType |-> "select!", Title |-> "string", Body |-> "text",
   BroadcastDuration |-> "int", ShutdownType |-> "select", ShutdownDuration |-> "int",
   BroadcastFrequency |-> "int", ShouldCancel |-> "bool"]

SPECS ==
  [AddItemToInventory |-> ItemFields, ServiceBroadcast |-> BroadcastFields,
   KickPlayer |-> Player, CleanPlayerInventory |-> Player, ResetProgression |-> Player,
   UpdateAllWaterFillables |-> Player @@ [WaterAmount |-> "int"],
   AwardXP |-> Player @@ [Experience |-> "int!"],
   SpecializationLevelXp |-> << >>,
   SkillsSetModuleLevel |-> Player @@ [Module |-> "string!", Level |-> "int!"],
   SkillsSetUnspentSkillPoints |-> Player @@ [SkillPoints |-> "int!"],
   TeleportTo |-> TeleportFields, TeleportToExact |-> TeleportFields,
   SpawnVehicleAt |-> VehicleFields,
   CheatScript |-> Player @@ [ScriptName |-> "string!"],
   ServerExec |-> [Exec |-> "string!"]]

\* default_for(): by the key of the field alone.
FieldDefaults ==
  [Quantity |-> 1, Durability |-> 1, WaterAmount |-> 1000000, Experience |-> 1000,
   Level |-> 1, SkillPoints |-> 0, BroadcastType |-> "Generic", BroadcastDuration |-> 30,
   ShutdownType |-> "Restart", ShutdownDuration |-> 600, BroadcastFrequency |-> 60,
   ShouldCancel |-> FALSE, Persistent |-> 1]

Required(kind) == kind \in {"string!", "select!", "int!", "float!"}

\* A missing field, a null and an empty text are all "empty".
Raw(values, k) == IF k \in DOMAIN values THEN values[k] ELSE [type |-> "empty"]

Shown(value) == ToString(value)

\* A text that is given is not empty, nor is a number or a truth value as a text.
RawTyped(raw) ==
  /\ raw.type = "text"  => raw.value # ""
  /\ raw.type = "whole" => raw.value \in Int
  /\ raw.type \notin {"empty", "text"} => Shown(raw.value) # ""

\* coerce(): a text field takes a number or a truth value as its text, a number
\* field a text that reads as one, a truth value the digits 0 and 1.
Coerces(kind, raw) ==
  CASE kind \in {"string", "string!", "text", "select", "select!"} -> raw.type # "other"
    [] kind \in {"int", "int!"}     -> raw.type = "whole"
    [] kind \in {"float", "float!"} -> raw.type \in {"whole", "fraction"}
    [] kind = "bool" -> raw.type = "bool" \/ (raw.type = "whole" /\ raw.value \in {0, 1})

Coerced(kind, raw) ==
  CASE kind = "bool" /\ raw.type = "whole" -> raw.value = 1
    [] /\ kind \in {"string", "string!", "text", "select", "select!"}
       /\ raw.type # "text"                -> Shown(raw.value)
    [] OTHER                               -> raw.value

Fields(command) == DOMAIN SPECS[command]
Given(command, values) == {k \in Fields(command) : Raw(values, k).type # "empty"}
Missing(command, values) ==
  {k \in Fields(command) \ (Given(command, values) \cup DOMAIN FieldDefaults) :
     Required(SPECS[command][k])}
WrongType(command, values) ==
  {k \in Given(command, values) : ~Coerces(SPECS[command][k], values[k])}

\* The fields that go on: those given, and those with a default.
Normalized(command, values) ==
  [k \in Given(command, values) \cup (Fields(command) \cap DOMAIN FieldDefaults) |->
     IF k \in Given(command, values) THEN Coerced(SPECS[command][k], values[k])
                                     ELSE FieldDefaults[k]]

NeedsTitleAndBody(command, values) ==
  /\ command = "ServiceBroadcast"
  /\ Normalized(command, values)["BroadcastType"] = "Generic"
  /\ ~({"Title", "Body"} \subseteq Given(command, values))

\* validate_and_build() refuses the input.  Whether the command wants a player or
\* takes all of them at once is for the user interface.
Refused(command, values) ==
  \/ command \notin DOMAIN SPECS
  \/ Missing(command, values) # {}
  \/ WrongType(command, values) # {}
  \/ NeedsTitleAndBody(command, values)

\* (A bug: a number as it was entered.)
AsEntered(n) == n

AtLeastOne(n) == IF n < 1 THEN 1 ELSE n

\* build_service_broadcast(), at second 0.  Whatever is not a shutdown is sent as a
\* generic broadcast.
Broadcast(f) ==
  LET TextOf(k) == IF k \in DOMAIN f THEN f[k] ELSE ""
  IN  IF f["BroadcastType"] # "ServerShutdown"
      THEN [BroadcastType |-> "Generic", BroadcastDuration |-> f["BroadcastDuration"],
            Title |-> TextOf("Title"), Body |-> TextOf("Body")]
      ELSE IF f["ShouldCancel"]
      THEN [BroadcastType |-> "ServerShutdown", ShouldCancel |-> TRUE]
      ELSE [BroadcastType |-> "ServerShutdown", ShutdownType |-> f["ShutdownType"],
            DateTimestamp |-> 0,
            ShutdownDuration |-> AtLeastOne(f["ShutdownDuration"]),
            ShutdownTimestamp |-> AtLeastOne(f["ShutdownDuration"]),
            BroadcastFrequency |-> AtLeastOne(f["BroadcastFrequency"]),
            BroadcastDuration |-> AtLeastOne(f["BroadcastDuration"])]

With(f, k, v) == [j \in DOMAIN f \cup {k} |-> IF j = k THEN v ELSE f[j]]

\* build(): what is published.
Payload(command, values) ==
  LET f == Normalized(command, values)
  IN  CASE command = "ServiceBroadcast" -> Broadcast(f)
        [] command = "AwardXP"          -> With(f, "Category", "Combat")
        [] OTHER                        -> f
================================================================================
