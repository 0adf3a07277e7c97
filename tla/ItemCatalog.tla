------------------------------ MODULE ItemCatalog ------------------------------
(***************************************************************************)
(* The item catalog of the service: what makes a candidate valid, how it   *)
(* is compared with the active one, and what blocks an update              *)
(* (admin/catalog.rs).  A catalog is a sequence of items in sorted order.  *)
(* An item keeps its lower-cased id as "key" and the metadata the rules    *)
(* look at; its texts are one value, "text".                               *)
(***************************************************************************)
EXTENDS Integers, Sequences, FiniteSets, FiniteSetsExt

CONSTANTS NoStack,    \* stackMax or tier is absent from the row
          MaxItems    \* the safety limit on the rows of a catalog

Items(catalog) == {catalog[i] : i \in DOMAIN catalog}
Keys(catalog)  == {item.key : item \in Items(catalog)}

\* find_item_in: the first row whose id matches, whatever its case.
Find(catalog, key) ==
  catalog[Min({i \in DOMAIN catalog : catalog[i].key = key})]

HowMany(catalog, Test(_)) == Cardinality({i \in DOMAIN catalog : Test(catalog[i])})
GradeableCount(catalog) == HowMany(catalog, LAMBDA item : item.gradeable)
StackableCount(catalog) ==
  HowMany(catalog, LAMBDA item : item.stackMax # NoStack /\ item.stackMax > 1)

--------------------------------------------------------------------------------
\* A row is refused for an unknown key, an empty text, a zero tier or stack,
\* and when it takes grades without being declared single.
ValidItem(item) ==
  /\ ~item.unknownKeys
  /\ item.text # ""
  /\ item.tier # 0
  /\ item.stackMax # 0
  /\ item.gradeable => item.stackMax = 1

\* Two well-known items must be there, with their metadata, at the first row
\* that carries their id.
SentinelsIntact(catalog) ==
  /\ {"augment", "bar"} \subseteq Keys(catalog)
  /\ LET augment == Find(catalog, "augment")
     IN  augment.gradeable /\ augment.tier = 6 /\ augment.stackMax = 1
  /\ Find(catalog, "bar").stackMax = 500

Valid(catalog) ==
  /\ Len(catalog) \in 1..MaxItems
  /\ \A item \in Items(catalog) : ValidItem(item)
  /\ SentinelsIntact(catalog)

\* What the diff lists as removed.
Removed(current, candidate) == Keys(current) \ Keys(candidate)

\* More than a tenth of the rows, or a quarter of the gradeable or of the
\* stackable ones, may not disappear in one update.
Blocked(current, candidate) ==
  \/ Len(candidate) * 10 < Len(current) * 9
  \/ GradeableCount(candidate) * 4 < GradeableCount(current) * 3
  \/ StackableCount(candidate) * 4 < StackableCount(current) * 3
================================================================================
