---------------------------- MODULE EffectLedger ----------------------------
(***************************************************************************)
(* What a ledger kept beside an external effect promises.  The effect (a   *)
(* gift, a whisper) is made outside the ledger and cannot be taken back;   *)
(* the ledger says which keys are settled.  An effect is made only for an  *)
(* open key, a key is settled as done only after an effect was made for    *)
(* it, and it then stays done; only a failed key is opened again.          *)
(***************************************************************************)
EXTENDS Naturals

CONSTANT Keys

VARIABLES
    status,    \* of each key: "open", "failed" or "done"
    effects    \* how many times each key's effect was made

Init ==
    /\ status = [k \in Keys |-> "open"]
    /\ effects = [k \in Keys |-> 0]

MakeEffect(k) ==
    /\ status[k] = "open"
    /\ effects' = [effects EXCEPT ![k] = @ + 1]
    /\ UNCHANGED status

SettleDone(k) ==
    /\ status[k] = "open" /\ effects[k] > 0
    /\ status' = [status EXCEPT ![k] = "done"]
    /\ UNCHANGED effects

SettleFailed(k) ==
    /\ status[k] = "open"
    /\ status' = [status EXCEPT ![k] = "failed"]
    /\ UNCHANGED effects

Reopen(k) ==
    /\ status[k] = "failed"
    /\ status' = [status EXCEPT ![k] = "open"]
    /\ UNCHANGED effects

Next ==
    \E k \in Keys :
        MakeEffect(k) \/ SettleDone(k) \/ SettleFailed(k) \/ Reopen(k)

Spec == Init /\ [][Next]_<<status, effects>>
=============================================================================
