----------------------------- MODULE Approvals -----------------------------
(***************************************************************************)
(* Proposals on tasks and the ApprovalService that resolves them, composed *)
(* with the versioned writers of the tasks table (TaskRecords).            *)
(*                                                                         *)
(* A decision locks its proposal row (SELECT ... FOR UPDATE), checks it,   *)
(* locks the task row and commits both.  The task row stays locked only    *)
(* for the last of these steps, so Approve, Supersede and Undo are atomic  *)
(* once the proposal lock is held; other requests run between the two.     *)
(*                                                                         *)
(* A proposal binds a payload, of which the proposed title, the title it   *)
(* replaces and the task version are kept.  Its digest is either that of   *)
(* the stored targets, or, for hard deadlines, that of another document.   *)
(***************************************************************************)
EXTENDS TaskRecords, Sequences

CONSTANTS
    Proposals,
    Deciders            \* approval requests being served at the same time

ASSUME DeciderAssumption == None \notin Deciders

VARIABLES
    proposal,           \* rows of the proposals table
    approvals,          \* rows of the approvals table, per proposal, in order
    proposalAudit,      \* audit events of each proposal's resolution
    lock,               \* holder of each proposal's row lock
    decision,           \* what each decider is doing
    answer              \* the outcome each decider returned last

decisionVars == <<proposal, approvals, proposalAudit, lock, decision, answer>>
vars == <<taskVars, decisionVars>>

ProposalStatuses == {"none", "pending", "executed", "rejected", "superseded", "undone"}
Digests == {"targets", "deadline"}
Unused == [status |-> "none", version |-> 1, digest |-> "targets", task |-> None,
           targetVersion |-> 1, old |-> None, new |-> None]
ProposalRows ==
    [status : ProposalStatuses, version : 1..3, digest : Digests,
     task : Tasks \cup {None}, targetVersion : 1..(MaxCommits + 1),
     old : Titles \cup {None}, new : Titles \cup {None}]

Undecided == [op |-> "idle"]
Decisions ==
    {Undecided} \cup [op : {"approve", "reject", "undo"}, proposal : Proposals,
                      expected : 1..3, seen : ProposalRows]

Init ==
    /\ TaskInit
    /\ proposal = [p \in Proposals |-> Unused]
    /\ approvals = [p \in Proposals |-> <<>>]
    /\ proposalAudit = [p \in Proposals |-> 0]
    /\ lock = [p \in Proposals |-> None]
    /\ decision = [d \in Deciders |-> Undecided]
    /\ answer = [d \in Deciders |-> "NONE"]

---------------------------------------------------------------------------
(* Creating proposals.                                                     *)

\* A TASK_UPDATE proposal, bound to the version and title of its task.
Propose(p, t, new) ==
    /\ proposal[p].status = "none"
    /\ proposal' = [proposal EXCEPT ![p] =
          [status |-> "pending", version |-> 1, digest |-> "targets", task |-> t,
           targetVersion |-> task[t].version, old |-> task[t].title, new |-> new]]
    /\ UNCHANGED <<taskVars, approvals, proposalAudit, lock, decision, answer>>

\* request_milestone_deadline_change on a hard deadline: the stored targets name
\* the milestone and its version, the stored hash is that of the new date.
ProposeDeadline(p) ==
    /\ proposal[p].status = "none"
    /\ proposal' = [proposal EXCEPT ![p] =
          [Unused EXCEPT !.status = "pending", !.digest = "deadline"]]
    /\ UNCHANGED <<taskVars, approvals, proposalAudit, lock, decision, answer>>

---------------------------------------------------------------------------
(* ApprovalService.                                                        *)

HashMatches(row) == row.digest = "targets"

\* What _decision_conflict and _hash_matches answer, or "NONE".
Conflict(row, expected) ==
    CASE row.status # "pending" -> "ALREADY_RESOLVED"
      [] row.status = "pending" /\ row.version # expected -> "PROPOSAL_VERSION_CHANGED"
      [] OTHER -> IF HashMatches(row) THEN "NONE" ELSE "PAYLOAD_HASH_MISMATCH"

\* Mutant of Open: the row is selected without FOR UPDATE.
OpenUnlocked(d, p, op, expected) ==
    /\ decision[d] = Undecided
    /\ proposal[p].status # "none"
    /\ expected <= proposal[p].version
    /\ decision' = [decision EXCEPT ![d] =
          [op |-> op, proposal |-> p, expected |-> expected, seen |-> proposal[p]]]
    /\ answer' = [answer EXCEPT ![d] = "NONE"]
    /\ UNCHANGED <<taskVars, proposal, approvals, proposalAudit, lock>>

\* _owned: the proposal row is selected FOR UPDATE.  The client expects a version
\* it has seen.
Open(d, p, op, expected) ==
    /\ decision[d] = Undecided
    /\ proposal[p].status # "none"
    /\ expected <= proposal[p].version
    /\ lock[p] = None
    /\ lock' = [lock EXCEPT ![p] = d]
    /\ decision' = [decision EXCEPT ![d] =
          [op |-> op, proposal |-> p, expected |-> expected, seen |-> proposal[p]]]
    /\ answer' = [answer EXCEPT ![d] = "NONE"]
    /\ UNCHANGED <<taskVars, proposal, approvals, proposalAudit>>

\* The transaction ends, by commit or rollback, and the lock with it.
Close(d, outcome) ==
    /\ lock' = [lock EXCEPT ![decision[d].proposal] = None]
    /\ decision' = [decision EXCEPT ![d] = Undecided]
    /\ answer' = [answer EXCEPT ![d] = outcome]

\* The decider wants op, and what it read does not forbid it.
Decides(d, op) ==
    /\ decision[d].op = op
    /\ Conflict(decision[d].seen, decision[d].expected) = "NONE"

\* status, resolved_at and version of a resolved proposal.
Resolve(d, status) ==
    proposal' = [proposal EXCEPT ![decision[d].proposal].status = status,
                                 ![decision[d].proposal].version =
                                     decision[d].seen.version + 1]

RecordDecision(d, action) ==
    approvals' = [approvals EXCEPT ![decision[d].proposal] =
                     Append(@, [action |-> action, version |-> decision[d].expected])]

AuditProposal(d) ==
    proposalAudit' = [proposalAudit EXCEPT ![decision[d].proposal] = @ + 1]

Refuse(d) ==
    /\ decision[d].op \in {"approve", "reject"}
    /\ LET conflict == Conflict(decision[d].seen, decision[d].expected)
       IN  conflict # "NONE" /\ Close(d, conflict)
    /\ UNCHANGED <<taskVars, proposal, approvals, proposalAudit>>

\* Mutant of TargetChanged: the version of the task is not compared.
TargetMissing(row) == row.task = None

\* The task row, read under its lock, is not the one the proposal was made for.
TargetChanged(row) == task[row.task].version # row.targetVersion

Supersede(d) ==
    /\ Decides(d, "approve")
    /\ TargetChanged(decision[d].seen)
    /\ Resolve(d, "superseded")
    /\ AuditProposal(d)
    /\ Close(d, "SUPERSEDED")
    /\ UNCHANGED <<taskVars, approvals>>

\* The task row is locked, set and its version incremented in one transaction.
Retitle(t, title) ==
    WriteTask(t, [task[t] EXCEPT !.title = title, !.version = @ + 1])

\* The task takes the proposed title; the "proposal.executed" event carries the
\* title before and after, so it is an audit event of the task as well.
Approve(d) ==
    /\ Decides(d, "approve")
    /\ ~TargetChanged(decision[d].seen)
    /\ LET row == decision[d].seen
       IN  /\ Retitle(row.task, row.new)
           /\ AppendAudit(row.task, task[row.task].title, row.new)
    /\ Resolve(d, "executed")
    /\ RecordDecision(d, "APPROVE_TASK_CHANGE")
    /\ AuditProposal(d)
    /\ Close(d, "EXECUTED")
    /\ UNCHANGED <<session, handler>>

Reject(d) ==
    /\ Decides(d, "reject")
    /\ Resolve(d, "rejected")
    /\ RecordDecision(d, "REJECT_PROPOSAL")
    /\ AuditProposal(d)
    /\ Close(d, "REJECTED")
    /\ UNCHANGED taskVars

Undoable(row) == row.status = "executed" /\ HashMatches(row)

\* The title kept in the proposal is put back, whatever the task has by now;
\* neither an approval nor an audit event is recorded.
Undo(d) ==
    /\ decision[d].op = "undo"
    /\ Undoable(decision[d].seen)
    /\ Retitle(decision[d].seen.task, decision[d].seen.old)
    /\ Resolve(d, "undone")
    /\ Close(d, "UNDONE")
    /\ UNCHANGED <<session, audit, handler, approvals, proposalAudit>>

UndoRefused(d) ==
    /\ decision[d].op = "undo"
    /\ ~Undoable(decision[d].seen)
    /\ Close(d, "NOT_FOUND")
    /\ UNCHANGED <<taskVars, proposal, approvals, proposalAudit>>

\* The connection is lost or the API dies: the transaction is rolled back.
Rollback(d) ==
    /\ decision[d] # Undecided
    /\ Close(d, "NONE")
    /\ UNCHANGED <<taskVars, proposal, approvals, proposalAudit>>

Decide(d) ==
    \/ \E p \in Proposals, op \in {"approve", "reject", "undo"}, e \in 1..3 :
          Open(d, p, op, e)
    \/ Refuse(d) \/ Supersede(d) \/ Approve(d) \/ Reject(d)
    \/ Undo(d) \/ UndoRefused(d) \/ Rollback(d)

ApprovalNext ==
    \/ \E d \in Deciders : Decide(d)
    \/ \E p \in Proposals, t \in Tasks, new \in Titles : Propose(p, t, new)
    \/ \E p \in Proposals : ProposeDeadline(p)

---------------------------------------------------------------------------
Next == ApprovalNext \/ (VersionedNext /\ UNCHANGED decisionVars)

Spec == Init /\ [][Next]_vars

---------------------------------------------------------------------------
\* A proposal is decided at most once, and its approval rows say how: two
\* concurrent requests never both approve, nor one approve and one reject.  A
\* resolution, with or without an approval row, leaves exactly one audit event.
OneDecision ==
    \A p \in Proposals :
        LET approved == <<[action |-> "APPROVE_TASK_CHANGE", version |-> 1]>>
            rejected == <<[action |-> "REJECT_PROPOSAL", version |-> 1]>>
        IN  /\ approvals[p] = (CASE proposal[p].status \in {"executed", "undone"} -> approved
                                 [] proposal[p].status = "rejected" -> rejected
                                 [] OTHER -> <<>>)
            /\ proposalAudit[p] = IF proposal[p].status \in {"none", "pending"} THEN 0 ELSE 1

Executes(p) == proposal[p].status # "executed" /\ proposal'[p].status = "executed"

\* An approved change is applied to exactly what the proposal showed: the task
\* still has the version and the title it had when the proposal was made.
ExecutedAsShown ==
    [][\A p \in Proposals : Executes(p) =>
          LET t == proposal[p].task
          IN  /\ task[t].title = proposal[p].old
              /\ task[t].version = proposal[p].targetVersion
              /\ task'[t].title = proposal[p].new]_vars

============================================================================
