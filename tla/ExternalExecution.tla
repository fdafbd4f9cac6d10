------------------------ MODULE ExternalExecution ------------------------
(***************************************************************************)
(* What the transactional outbox promises about an external command,       *)
(* whoever executes it and however often: a command is recorded once, the  *)
(* provider never acts on a command that was not recorded, success is only *)
(* recorded for a command the provider has performed, and an outcome, once *)
(* recorded, stays.  Outbox implements this module; FocusBlocks is         *)
(* composed with it.                                                       *)
(***************************************************************************)

CONSTANT Commands       \* idempotency keys of external commands

VARIABLES
    outcome,            \* what the database says of each command
    performed           \* commands whose effect exists at the provider

extVars == <<outcome, performed>>

Outcomes == {"absent", "pending", "succeeded", "failed"}

ExtInit ==
    /\ outcome = [c \in Commands |-> "absent"]
    /\ performed = {}

\* The command is recorded, together with its Pending execution.
Request(c) ==
    /\ outcome[c] = "absent"
    /\ outcome' = [outcome EXCEPT ![c] = "pending"]
    /\ UNCHANGED performed

\* The provider acts.  It may do so late: after a timeout, after the worker
\* that sent the request died, even after the command was recorded as failed.
Perform(c) ==
    /\ outcome[c] # "absent"
    /\ performed' = performed \cup {c}
    /\ UNCHANGED outcome

Succeed(c) ==
    /\ outcome[c] = "pending"
    /\ c \in performed
    /\ outcome' = [outcome EXCEPT ![c] = "succeeded"]
    /\ UNCHANGED performed

Fail(c) ==
    /\ outcome[c] = "pending"
    /\ outcome' = [outcome EXCEPT ![c] = "failed"]
    /\ UNCHANGED performed

Settle(c) == Succeed(c) \/ Fail(c)

ExtNext == \E c \in Commands : Request(c) \/ Perform(c) \/ Settle(c)

ExtSpec == ExtInit /\ [][ExtNext]_extVars
==========================================================================
