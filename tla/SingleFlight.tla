---------------------------- MODULE SingleFlight ----------------------------
(***************************************************************************)
(* What the task runner promises its callers, with nothing of how: for     *)
(* each key at most one owner is in flight at a time.  An owner may stop   *)
(* being in flight at any moment (it finished, it failed, its process      *)
(* died), and a whole set of them may do so at once.                       *)
(***************************************************************************)
CONSTANTS Keys, Owners

VARIABLE inFlight    \* inFlight[k]: the owners now working on key k

Init == inFlight = [k \in Keys |-> {}]

Take(k, o) == /\ inFlight[k] = {}
              /\ inFlight' = [inFlight EXCEPT ![k] = {o}]

Leave(k, o) == /\ o \in inFlight[k]
               /\ inFlight' = [inFlight EXCEPT ![k] = @ \ {o}]

Halt == inFlight' = [k \in Keys |-> {}]

Next == \/ \E k \in Keys, o \in Owners : Take(k, o) \/ Leave(k, o)
        \/ Halt

Spec == Init /\ [][Next]_inFlight
=============================================================================
