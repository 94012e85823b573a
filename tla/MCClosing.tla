----------------------------- MODULE MCClosing -----------------------------
(* Instances of Closing for TLC: each behaviour follows one of a few plans. *)
EXTENDS Closing

CONSTANTS c1, c2

MCPlan(d, p, frail, bytes) ==
    [causes |-> [s \in Side |-> IF s = "dialer" THEN d ELSE p], frail |-> frail,
     bytes |-> [s \in Side |-> IF s = "dialer" THEN bytes ELSE 0]]

\* The ends a side decides by itself, against data, a failover, and each other
SafetyPlans ==
    {MCPlan({"linger"}, {"idle"}, {c1}, 1),
     MCPlan({"exhausted"}, {"shutdown"}, {}, 1),
     MCPlan({"shutdown"}, {"linger", "nopath"}, {c1, c2}, 0),
     MCPlan({"idle"}, {"abort"}, {c1}, 0)}

\* Only failovers, an Abort, or the loss of every carrier
LivePlans ==
    {MCPlan({"retain"}, {"retain", "abort"}, {}, 0),
     MCPlan({"retain"}, {"retain"}, {c1, c2}, 0)}

=============================================================================
