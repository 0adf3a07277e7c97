---------------------------- MODULE MCHostSetup ----------------------------
(* One world; the setup of a virtual machine with and without the leave to   *)
(* replace one, the bootstrap of its guest, and that of a host with Ubuntu.  *)
EXTENDS HostSetupInvariant

MCRequests ==
    {[kind |-> "hyperv", world |-> w, replace |-> b, clear |-> b] :
        w \in Worlds, b \in BOOLEAN}
        \cup {[kind |-> "guest", world |-> w] : w \in Worlds}
        \cup {[kind |-> "ubuntu", world |-> w, steps |-> s] :
                w \in Worlds, s \in {UbuntuSteps, SwapSteps}}
=============================================================================
