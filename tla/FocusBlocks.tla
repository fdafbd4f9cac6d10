---------------------------- MODULE FocusBlocks ----------------------------
(***************************************************************************)
(* Focus-block proposals: FocusBlockApprovalService, composed with the     *)
(* versions of the tasks they are bound to and with the contract of the    *)
(* outbox (ExternalExecution), which carries out the command of an         *)
(* executed proposal under the key "focus-block:<proposal id>".            *)
(*                                                                         *)
(* Unlike ApprovalService, this service reads a proposal without a lock,   *)
(* and execute_approved checks and enqueues in two transactions; requests  *)
(* interleave at every one of these points.                                *)
(***************************************************************************)
EXTENDS Naturals

CONSTANTS
    Proposals,
    Tasks,
    Handlers,           \* requests being served at the same time
    MaxVersion,         \* bound of the model: versions of a task
    None

ASSUME VersionAssumption == MaxVersion \in Nat \ {0}

VARIABLES
    version,            \* committed version of each task
    proposal,           \* rows of the proposals table
    approvals,          \* approval rows per proposal: granted_at, as its task's version then
    request,            \* what each request handler is doing
    outcome,            \* the command of each proposal, as the outbox has it
    performed           \* proposals whose focus block exists at the provider

External == INSTANCE ExternalExecution WITH Commands <- Proposals

internalVars == <<version, proposal, approvals, request>>
vars == <<internalVars, outcome, performed>>

ProposalStatuses == {"none", "pending", "approved", "superseded"}
NoProposal == [status |-> "none", task |-> None, targetVersion |-> 0]
Idle == [op |-> "idle", proposal |-> None]

Init ==
    /\ External!ExtInit
    /\ version = [t \in Tasks |-> 1]
    /\ proposal = [p \in Proposals |-> NoProposal]
    /\ approvals = [p \in Proposals |-> {}]
    /\ request = [h \in Handlers |-> Idle]

---------------------------------------------------------------------------
(* The tasks and the provider.                                             *)

\* Any accepted write of a task: see TaskRecords.
ChangeTask(t) ==
    /\ version[t] < MaxVersion
    /\ version' = [version EXCEPT ![t] = @ + 1]
    /\ UNCHANGED <<proposal, approvals, request, outcome, performed>>

\* The outbox worker and the provider carry out commands.
Deliver(p) ==
    /\ External!Perform(p) \/ External!Settle(p)
    /\ UNCHANGED internalVars

---------------------------------------------------------------------------
(* FocusBlockApprovalService.                                              *)

Stage(h, op, p) == request' = [request EXCEPT ![h] = [op |-> op, proposal |-> p]]
Finish(h) == request' = [request EXCEPT ![h] = Idle]
SetStatus(p, status) == proposal' = [proposal EXCEPT ![p].status = status]

\* propose: bound to the task version its caller names.
Propose(p, t, v) ==
    /\ proposal[p].status = "none"
    /\ proposal' = [proposal EXCEPT ![p] =
          [status |-> "pending", task |-> t, targetVersion |-> v]]
    /\ UNCHANGED <<version, approvals, request, outcome, performed>>

\* approve: the row is read, without a lock; unless it is pending the request
\* ends here.
BeginApprove(h, p) ==
    /\ request[h] = Idle
    /\ proposal[p].status = "pending"
    /\ Stage(h, "approve", p)
    /\ UNCHANGED <<version, proposal, approvals, outcome, performed>>

\* approve, the commit: status and approval row, whatever the row says by now.
CommitApprove(h) ==
    /\ request[h].op = "approve"
    /\ LET p == request[h].proposal
       IN  /\ SetStatus(p, "approved")
           /\ approvals' = [approvals EXCEPT ![p] = @ \cup {version[proposal[p].task]}]
    /\ Finish(h)
    /\ UNCHANGED <<version, outcome, performed>>

\* Mutant of BeginExecute: an unresolved proposal is executed as well.
BeginExecuteAny(h, p) ==
    /\ request[h] = Idle
    /\ proposal[p].status \in {"pending", "approved"}
    /\ Stage(h, "judge", p)
    /\ UNCHANGED <<version, proposal, approvals, outcome, performed>>

\* execute_approved: anything but an approved row ends the request.
BeginExecute(h, p) ==
    /\ request[h] = Idle
    /\ proposal[p].status = "approved"
    /\ Stage(h, "judge", p)
    /\ UNCHANGED <<version, proposal, approvals, outcome, performed>>

\* Mutant of TargetChanged: only a task behind the bound version counts as changed.
TargetBehind(p) == version[proposal[p].task] < proposal[p].targetVersion

TargetChanged(p) == version[proposal[p].task] # proposal[p].targetVersion

\* The first transaction: supersede, or leave it without a write and go on.
Judge(h) ==
    /\ request[h].op = "judge"
    /\ LET p == request[h].proposal
       IN  IF TargetChanged(p)
           THEN SetStatus(p, "superseded") /\ Finish(h)
           ELSE Stage(h, "enqueue", p) /\ UNCHANGED proposal
    /\ UNCHANGED <<version, approvals, outcome, performed>>

\* The second transaction: outbox record and pending execution, unless the
\* unique idempotency key is taken, which fails the request (Fail).
Enqueue(h) ==
    /\ request[h].op = "enqueue"
    /\ External!Request(request[h].proposal)
    /\ Finish(h)
    /\ UNCHANGED <<version, proposal, approvals>>

\* The request fails between or in its transactions: nothing more is written.
Fail(h) ==
    /\ request[h] # Idle
    /\ Finish(h)
    /\ UNCHANGED <<version, proposal, approvals, outcome, performed>>

Handle(h) ==
    \/ \E p \in Proposals : BeginApprove(h, p) \/ BeginExecute(h, p)
    \/ CommitApprove(h) \/ Judge(h) \/ Enqueue(h) \/ Fail(h)

Next ==
    \/ \E t \in Tasks : ChangeTask(t)
    \/ \E p \in Proposals : Deliver(p)
    \/ \E p \in Proposals, t \in Tasks, v \in 1..MaxVersion : Propose(p, t, v)
    \/ \E h \in Handlers : Handle(h)

Spec == Init /\ [][Next]_vars

---------------------------------------------------------------------------
\* No focus block is created, and none is even requested from the provider,
\* without an approval on record for its proposal; the record is there as soon as
\* the proposal is approved and stays when it is superseded.
CommandIsApproved ==
    \A p \in Proposals :
        /\ outcome[p] # "absent" \/ p \in performed => approvals[p] # {}
        /\ approvals[p] # {} <=> proposal[p].status \in {"approved", "superseded"}

\* An approval is good for the task it was bound to: when a command has gone out,
\* an approval was granted before the task had moved on from the bound version,
\* however many approvals, executions and changes raced (approve reads the row
\* without a lock and never looks at the task; execute_approved does).
ApprovedInTime ==
    \A p \in Proposals :
        outcome[p] # "absent" => \E v \in approvals[p] : v <= proposal[p].targetVersion

\* "Enqueue the outbox command only if the bound target version still matches"
\* (execute_approved, the docstring).  Violated: the check and the enqueue are two
\* transactions, and the task changes between them.
EnqueuedWhenCurrent ==
    [][\A p \in Proposals :
          outcome[p] = "absent" /\ outcome'[p] # "absent" =>
              version[proposal[p].task] = proposal[p].targetVersion]_vars

============================================================================
