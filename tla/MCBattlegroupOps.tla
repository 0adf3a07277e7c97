-------------------------- MODULE MCBattlegroupOps --------------------------
(* Two dimensions of the one map, two instances of the other, of which only   *)
(* one is supported today, and one map besides.                               *)
EXTENDS BattlegroupOps

Partition(id, dimension) == [id |-> id, dimension |-> dimension]

MCDoc ==
    [f \in Fields |->
        CASE f = <<"partitions", Survival>> -> <<Partition(1, 0), Partition(3, 1)>>
          [] f = <<"partitions", DeepDesert>> -> <<Partition(2, 0), Partition(5, 0)>>
          [] f[1] = "partitions" -> <<Partition(4, 0)>>
          [] f = <<"replicas", Survival>> -> 2
          [] f = <<"set", Survival>> -> <<1, 3>>
          [] f[1] = "region" -> "Europe"
          [] OTHER -> Absent]

Log == [kind |-> "log", value |-> "verbose"]
Pod(index, arguments) == [index |-> index, arguments |-> arguments]

MCPods == {Absent, <<Pod(1, Absent), Pod(3, <<Log, NameArg("old"), RegionArg("Europe")>>)>>}

MCRequests ==
    {[kind |-> "instances", map |-> Survival, count |-> 1, pvp |-> Absent, restart |-> FALSE],
     [kind |-> "instances", map |-> Survival, count |-> 3, pvp |-> Absent, restart |-> TRUE],
     [kind |-> "instances", map |-> DeepDesert, count |-> 1, pvp |-> 1, restart |-> FALSE],
     [kind |-> "instances", map |-> DeepDesert, count |-> 2, pvp |-> 1, restart |-> FALSE]}
        \cup {[kind |-> "name", dimension |-> d, name |-> n, restart |-> FALSE] :
                d \in {0, 1}, n \in {"new", Absent}}
        \cup {[kind |-> "region", region |-> "Asia"]}
        \cup {[kind |-> "swap", size |-> 10], [kind |-> "swap", size |-> 30]}
        \cup {[kind |-> k, desktop |-> b] : k \in {"start", "stop"}, b \in {TRUE}}
        \cup {[kind |-> "restart", desktop |-> FALSE]}
=============================================================================
