----------------------------- MODULE MCRequests -----------------------------
(***************************************************************************)
(* The parts of the API below share no state: each is explored by itself.  *)
(***************************************************************************)
EXTENDS TaskRecords, Requests, RateLimits, CalendarConnections, AgentActions

CONSTANTS t1, a, b, c1, c2, c3, a1, a2, k1, k2, w1, w2, p1, p2, s1, s2, r1, r2, b1, b2, h1, h2, h3

VARIABLE part

Parts == {"tasks", "limits", "requests", "connections", "agent"}

MCInit ==
    /\ part \in Parts
    /\ TaskInit
    /\ RateInit
    /\ RequestsInit
    /\ ConnectionInit
    /\ AgentInit
    /\ part # "tasks" => \A t \in Tasks : task[t].title = a
    /\ part # "requests" => bucket.exists

\* The part takes a step, the others rest.
InPart(name) ==
    /\ part = name
    /\ name # "tasks"       => UNCHANGED taskVars
    /\ name # "limits"      => UNCHANGED rateVars
    /\ name # "requests"    => UNCHANGED requestVars
    /\ name # "connections" => UNCHANGED connectionVars
    /\ name # "agent"       => UNCHANGED agentVars

MCNext ==
    /\ UNCHANGED part
    /\ \/ InPart("tasks") /\ VersionedNext
       \/ InPart("limits") /\ RateNext
       \/ InPart("requests") /\ RequestsNext
       \/ InPart("connections") /\ ConnectionNext
       \/ InPart("agent") /\ AgentNext

MCSpec ==
    MCInit /\ [][MCNext]_<<part, taskVars, rateVars, requestVars, connectionVars, agentVars>>
=============================================================================
