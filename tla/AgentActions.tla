---------------------------- MODULE AgentActions ----------------------------
(***************************************************************************)
(* AgentOrchestrator.handle (agent/orchestrator.py) and what it hands an   *)
(* approved action to: the worker's CalendarCommandExecutor with its       *)
(* repository of commands in memory.  Requests run in one asyncio process, *)
(* so that a step ends where the provider is awaited.                      *)
(***************************************************************************)
EXTENDS FiniteSets

CONSTANTS
    Requesters,         \* handle calls in progress at the same time
    Commands,           \* records of the repository
    IdempotencyKeys,
    Nothing             \* no approved proposal, no event

ASSUME NothingAssumption == Nothing \notin Commands

VARIABLES
    executor,           \* whether set_external_executor has been called
    records,            \* command -> its record: key, execution_status, has an event id
    effects,            \* the keys for which the provider has created an event
    call,               \* caller -> its handle call
    report              \* caller -> its last OperationResult

agentVars == <<executor, records, effects, call, report>>

Intents == {"REVIEW_REQUEST", "CHANGE_COMMAND", "QUESTION", "AMBIGUOUS"}

NoRecord == [key |-> Nothing, status |-> "ABSENT", event |-> FALSE]

NoHandling == [step |-> "idle"]

NoReport == [status |-> "NONE", executed |-> FALSE, authorized |-> FALSE, command |-> Nothing]

AgentInit ==
    /\ executor = FALSE
    /\ records = [r \in Commands |-> NoRecord]
    /\ effects = {}
    /\ call = [c \in Requesters |-> NoHandling]
    /\ report = [c \in Requesters |-> NoReport]

SetExternalExecutor ==
    /\ executor' = TRUE
    /\ UNCHANGED <<records, effects, call, report>>

\* The same command may be added again, under the same key.
AddPending(r, k) ==
    /\ records[r] = NoRecord
    /\ records' = [records EXCEPT ![r] = [key |-> k, status |-> "PENDING", event |-> FALSE]]
    /\ UNCHANGED <<executor, effects, call, report>>
-----------------------------------------------------------------------------
\* classify_intent, review: the rules.
MayMutate(intent) == intent = "CHANGE_COMMAND"

ReviewLevel(intent, external) ==
    IF external              THEN "APPROVAL"
    ELSE IF MayMutate(intent) THEN "CONFIRM"
    ELSE "AUTO_OK"

Reported(c, status, executed, authorized, command) ==
    report' = [report EXCEPT ![c] = [status |-> status, executed |-> executed,
                                     authorized |-> authorized, command |-> command]]

\* The call of c is answered; its AUTHORIZE step was decided when it began.
Answer(c, status, executed) ==
    /\ Reported(c, status, executed, call[c].authorized, call[c].command)
    /\ call' = [call EXCEPT ![c] = NoHandling]

\* handle, where nothing is handed to the executor: read-only requests, changes
\* (which are only reported), actions that are not approved, no executor.
HandleWithoutAction(c, intent, proposed, approved) ==
    /\ call[c] = NoHandling
    /\ approved # Nothing => ~executor
    /\ LET external == proposed \/ approved # Nothing
       IN  Reported(c, IF approved # Nothing THEN "FAILED" ELSE "SUCCEEDED", FALSE,
                    ReviewLevel(intent, external) # "AUTO_OK", approved)
    /\ UNCHANGED <<executor, records, effects, call>>

\* Mutant of Successes: the status of a record with the key is not looked at.
SuccessesOfAnyStatus(r) == {s \in Commands : records[s].key = records[r].key} \ {r}

Successes(r) ==
    {s \in Commands : records[s].key = records[r].key /\ records[s].status = "SUCCEEDED"}

Linked(r, existing) ==
    [records EXCEPT ![r].status = "SUCCEEDED", ![r].event = records[existing].event]

\* ... and where it is: up to the call of the provider.  An id without a record
\* raises a KeyError, the result of a duplicate is linked.
HandleApproved(c, intent, approved) ==
    /\ call[c] = NoHandling
    /\ executor
    /\ LET authorized == ReviewLevel(intent, TRUE) # "AUTO_OK"
       IN  \/ /\ records[approved] = NoRecord
              /\ Reported(c, "FAILED", FALSE, authorized, approved)
              /\ UNCHANGED <<records, call>>
           \/ /\ records[approved] # NoRecord
              /\ \E existing \in Successes(approved) : records' = Linked(approved, existing)
              /\ Reported(c, "SUCCEEDED", TRUE, authorized, approved)
              /\ UNCHANGED call
           \/ /\ records[approved] # NoRecord
              /\ Successes(approved) = {}
              /\ call' = [call EXCEPT ![c] = [step |-> "execute", command |-> approved,
                                              authorized |-> authorized]]
              /\ UNCHANGED <<records, report>>
    /\ UNCHANGED <<executor, effects>>
-----------------------------------------------------------------------------
KeyOf(c) == records[call[c].command].key

\* adapter.execute: the provider creates one event for a key, or none, and
\* answers with an id, or without.  An id alone does not tell that there is one.
ProviderAnswers(c) ==
    /\ call[c].step = "execute"
    /\ \E answered \in BOOLEAN :
          /\ effects' \in {effects, effects \cup {KeyOf(c)}}
          /\ call' = [call EXCEPT ![c] = [step |-> "verify", command |-> @.command,
                                          authorized |-> @.authorized, event |-> answered]]
    /\ UNCHANGED <<executor, records, report>>

\* A TimeoutError leaves the command PENDING, another exception of the provider
\* too; the effect may be there.  Both are reported as a failure.
ProviderTimesOut(c) ==
    /\ call[c].step = "execute"
    /\ effects' \in {effects, effects \cup {KeyOf(c)}}
    /\ Answer(c, "FAILED", FALSE)
    /\ UNCHANGED <<executor, records>>

\* Mutant of Accepts: an id is enough.
AcceptsAnyId(c, verified) == call[c].event

\* A result is accepted if the provider confirms it and it has an id.
Accepts(c, verified) == verified /\ call[c].event

\* adapter.verify, which confirms an event only if the provider has it:
\* mark_succeeded for a result that is accepted, mark_failed otherwise.
Verify(c) ==
    /\ call[c].step = "verify"
    /\ \E verified \in BOOLEAN :
          /\ verified => KeyOf(c) \in effects
          /\ \/ /\ Accepts(c, verified)
                /\ records' = [records EXCEPT ![call[c].command].status = "SUCCEEDED",
                                              ![call[c].command].event = TRUE]
                /\ Answer(c, "SUCCEEDED", TRUE)
             \/ /\ ~Accepts(c, verified)
                /\ records' = [records EXCEPT ![call[c].command].status = "FAILED"]
                /\ Answer(c, "FAILED", FALSE)
    /\ UNCHANGED <<executor, effects>>

\* adapter.verify raises: nothing is recorded.
VerifyRaises(c) ==
    /\ call[c].step = "verify"
    /\ Answer(c, "FAILED", FALSE)
    /\ UNCHANGED <<executor, records, effects>>

AgentNext ==
    \/ SetExternalExecutor
    \/ \E r \in Commands, k \in IdempotencyKeys : AddPending(r, k)
    \/ \E c \in Requesters :
          \/ \E intent \in Intents, proposed \in BOOLEAN, approved \in Commands \cup {Nothing} :
                HandleWithoutAction(c, intent, proposed, approved)
          \/ \E intent \in Intents, approved \in Commands : HandleApproved(c, intent, approved)
          \/ ProviderAnswers(c) \/ ProviderTimesOut(c) \/ Verify(c) \/ VerifyRaises(c)

AgentSpec == AgentInit /\ [][AgentNext]_agentVars
-----------------------------------------------------------------------------
(***************************************************************************)
(* "Never reports success before verification": an action is reported as   *)
(* executed, and a command counts as succeeded, only if the provider has   *)
(* its event, although an answer may carry the id of an event that is not  *)
(* there, and duplicates of a command, timed-out and failing attempts      *)
(* interleave (handle, CalendarCommandExecutor.execute).                   *)
(***************************************************************************)
ActionsAreReal ==
    /\ \A c \in Requesters : report[c].executed => records[report[c].command].event
    /\ \A r \in Commands :
          /\ records[r].status = "SUCCEEDED" => records[r].event
          /\ records[r].event => records[r].key \in effects
=============================================================================
