-------------------------- MODULE MCManagementService --------------------------
(***************************************************************************)
(* A small instance of ManagementService: two desktops of different        *)
(* versions, two commands or requests between them, and one thing that   *)
(* goes wrong.                                                             *)
(***************************************************************************)
EXTENDS ManagementService

Item(key, tier, stackMax, gradeable) ==
  [key |-> key, text |-> key, tier |-> tier, stackMax |-> stackMax,
   gradeable |-> gradeable, unknownKeys |-> FALSE]

Augment == Item("augment", 6, 1, TRUE)
Bar     == Item("bar", NoStack, 500, FALSE)
Spice   == Item("spice", NoStack, NoStack, FALSE)
Water   == Item("water", NoStack, NoStack, FALSE)
Knife   == Item("knife", 2, 1, TRUE)

MCBundled == <<Augment, Bar, Spice>>

\* Updates that add an item, one that swaps one, and two that are refused: too
\* short, and one whose sentinel lost its grades to a second row before it.
More     == <<Augment, Bar, Spice, Water>>
Short    == <<Augment, Bar>>
Graded   == <<Augment, Bar, Knife, Spice>>
Swapped  == <<Augment, Bar, Knife>>
Shadowed == <<Item("augment", 6, 1, FALSE)>> \o MCBundled

Text(v)  == [type |-> "text", value |-> v]
Fraction == [type |-> "fraction", value |-> "1.5"]
Whole(n) == [type |-> "whole", value |-> n]
Request(kind, arg) == [kind |-> kind, arg |-> arg]

Grants ==
  {Request("grant", [item |-> item, quality |-> 3, quantity |-> 2]) :
     item \in {"augment", "knife"}} \cup
  {Request("grant", [item |-> "augment", quality |-> q, quantity |-> 4]) : q \in {5, 6}}
Levels == {Request("level", [track |-> "Combat"])}
Saves ==
  {Request("save", update) : update \in
     {[hour |-> 5, text |-> TooLong], [hour |-> 6, package |-> TRUE, items |-> "rows"],
      [package |-> TRUE, actions |-> "half a list", items |-> "rows"],
      [message |-> TRUE, version |-> "v1", text |-> "hello"],
      [frequency |-> 1801]}}
Catalogs ==
  {Request("apply", [catalog |-> c, confirm |-> b]) :
     c \in {More, Swapped}, b \in BOOLEAN} \cup
  {Request("apply", [catalog |-> c, confirm |-> FALSE]) : c \in {Graded, Shadowed}} \cup
  {Request("apply", [catalog |-> Short, confirm |-> TRUE])} \cup
  {Request("revert", [none |-> TRUE])}
Publish(command, values) ==
  Request("publish", [command |-> command, values |-> values])
Publications ==
  {Publish("ServiceBroadcast", values) : values \in
     {[Title |-> Text("Storm"), Body |-> Text("soon")], [Title |-> Text("Storm")],
      [BroadcastType |-> Text("Storm")],
      [BroadcastType |-> Text("ServerShutdown"), ShutdownDuration |-> Whole(0)],
      [BroadcastType |-> Text("ServerShutdown"), ShouldCancel |-> Whole(1)]}} \cup
  {Publish("TeleportTo", [PlayerId |-> Whole(7), X |-> Whole(1), Y |-> Fraction] @@ z) :
     z \in {<< >>, [Z |-> Text("up")], [Z |-> Whole(2)]}}

Whispers == {Request("whisper", [message |-> text]) : text \in {"hello", TooLong}}

MCRequests == Whispers \cup Grants \cup Levels \cup Saves \cup Catalogs \cup Publications
Symmetry == Permutations(Procs)
MCActionLists == {"[]", "rows"}
\* The welcome items of an older daemon, and a frequency that was changed.
MCEarlier == {[items |-> "rows"], [items |-> "broken"], [frequency |-> 300]}
================================================================================
