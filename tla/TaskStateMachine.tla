------------------------- MODULE TaskStateMachine -------------------------
(***************************************************************************)
(* The task transition table and the pure function that applies it, shared *)
(* by the planner package and the API.  Minutes of remaining work are      *)
(* abstracted to "none" (0) and "some" (1); a waiting reason to its        *)
(* presence.  The flags of a request (waiting resolved, blocker resolved,  *)
(* completion confirmed, a reason given) are the caller's to set, so a     *)
(* transition they can unlock is possible.                                 *)
(***************************************************************************)

Statuses == {"draft", "planned", "ready", "in_progress", "waiting", "blocked",
             "done", "deferred", "cancelled"}

Terminal == {"done", "cancelled"}

Allowed ==
    [draft       |-> {"planned", "cancelled"},
     planned     |-> {"ready", "deferred", "cancelled"},
     ready       |-> {"in_progress", "waiting", "blocked", "deferred"},
     in_progress |-> {"done", "waiting", "blocked", "ready"},
     waiting     |-> {"ready", "cancelled"},
     blocked     |-> {"ready", "cancelled"},
     done        |-> {"in_progress"},
     deferred    |-> {"planned", "ready", "cancelled"},
     cancelled   |-> {"planned"}]

CanTransition(row, target) ==
    /\ target \in Allowed[row.status]
    /\ target = "done" => row.base = 0 /\ row.safety = 0

\* The candidate snapshot; its version is set by the write, not here.
Transitioned(row, target) ==
    [row EXCEPT
        !.status = target,
        !.reason = target = "waiting" \/ (@ /\ row.status # "waiting"),
        !.base   = IF target = "cancelled" THEN 0 ELSE @,
        !.safety = IF target = "cancelled" THEN 0 ELSE @]

\* CHECK terminal_has_no_remaining on the tasks table.
RowAllowed(row) == row.status \in Terminal => row.base = 0 /\ row.safety = 0
===========================================================================
