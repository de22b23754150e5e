----------------------------- MODULE MCAutoModeLog -----------------------------
(* Instances of AutoModeLog with one node.  To share the bounds out, a       *)
(* behaviour starts in one of two states that LogSpec reaches: in one most   *)
(* of the budget is left for rotations, in the other for the node and the    *)
(* collector to be replaced.                                                 *)
EXTENDS AutoModeLog

\* The first k records were rotated away one by one and deleted.
Gone(k) ==
    /\ written = k
    /\ gen = [n \in Nodes |-> k]
    /\ place = [r \in Records |->
                  IF r <= k THEN [node |-> CHOOSE n \in Nodes : TRUE, uid |-> 1,
                                  gen |-> r, end |-> End(<<r>>, 1)]
                  ELSE NoPlace]
    /\ deleted = [n \in Nodes |-> 1..k]

Budget(j, r) == joins = [n \in Nodes |-> j] /\ restarts = r

ScenarioInit ==
    /\ \/ Gone(0) /\ Budget(MaxJoins, MaxRestarts)
       \/ Gone(1) /\ Budget(1, 0)
    /\ present = [n \in Nodes |-> TRUE]
    /\ active = [n \in Nodes |-> << >>]
    /\ torn = [n \in Nodes |-> FALSE]
    /\ rotated = [n \in Nodes |-> [g \in Gens |-> Absent]]
    /\ cp = [n \in Nodes |-> NoCheckpoint]
    /\ poll = [n \in Nodes |-> "none"]
    /\ seenUID = [n \in Nodes |-> 0]
    /\ unseen = [n \in Nodes |-> {}]
    /\ boot = [n \in Nodes |-> NotBoot]
    /\ reads = [r \in Records |-> 0]
    /\ raced = [n \in Nodes |-> {}]
    /\ booted = [n \in Nodes |-> {}]
    /\ replayed = {}

ScenarioSpec == ScenarioInit /\ [][LogNext]_logVars
FairScenario == ScenarioSpec /\ LogFairness
================================================================================
