------------------------------- MODULE SignIn -------------------------------
(***************************************************************************)
(* Users, workspaces and sessions (identity/service.py, router.py and      *)
(* test_fixture.py).  Signing in creates the user and the workspace if     *)
(* they are missing; a reset replaces the workspace by the demo fixture.   *)
(* Each runs in one READ COMMITTED transaction, many at the same time.     *)
(***************************************************************************)
EXTENDS Integers, FiniteSets

CONSTANTS
    Clients,
    Resetters,      \* the clients that ask for the demo fixture
    Emails,
    MaxWorkspaces   \* bound on the workspaces ever inserted

VARIABLES
    users,          \* committed rows: an email and the client whose request made it
    workspaces,     \* committed rows: an id and the owner
    sessions,       \* the users with a session that has not expired
    txn,            \* client -> its transaction
    inserted        \* workspaces inserted so far: their ids

signInVars == <<users, workspaces, sessions, txn, inserted>>

ASSUME SignInAssumption == Resetters \subseteq Clients /\ MaxWorkspaces \in Nat

\* The browser tests, which alone reset the fixture, run in one process.
ASSUME OneResetter == \A c, d \in Resetters : c = d

NoTxn == [step |-> "idle"]

SignInInit ==
    /\ users = {}
    /\ workspaces = {}
    /\ sessions = {}
    /\ txn = [c \in Clients |-> NoTxn]
    /\ inserted = 0

InStep(c, step) == txn[c].step = step

OwnedBy(user, rows) == {w \in rows : w.owner = user}

NewWorkspace(user) == [id |-> inserted + 1, owner |-> user]

SetTxn(c, transaction) == txn' = [txn EXCEPT ![c] = transaction]
-----------------------------------------------------------------------------
\* ensure_user: SELECT by email.
SelectUser(c, email, seed) ==
    /\ txn[c] = NoTxn
    /\ seed => c \in Resetters
    /\ LET found == {u \in users : u.email = email}
       IN  \E user \in IF found = {} THEN {[email |-> email, creator |-> c]} ELSE found :
              SetTxn(c, [step |-> IF found = {} THEN "insert" ELSE "workspace",
                         user |-> user, isNew |-> FALSE, added |-> {}, deleted |-> {},
                         seed |-> seed, opens |-> TRUE])
    /\ UNCHANGED <<users, workspaces, sessions, inserted>>

\* Mutant of EmailTaken: users.email is not unique.
EmailNeverTaken(c) == FALSE

EmailTaken(c) == \E u \in users : u.email = txn[c].user.email

\* The INSERT waits for a transaction that has inserted the same email, and
\* fails when the email is there by then.
InsertUser(c) ==
    /\ InStep(c, "insert")
    /\ \A d \in Clients \ {c} :
          txn[d] # NoTxn /\ txn[d].isNew => txn[d].user.email # txn[c].user.email
    /\ SetTxn(c, IF EmailTaken(c) THEN NoTxn
                 ELSE [txn[c] EXCEPT !.step = "workspace", !.isNew = TRUE])
    /\ UNCHANGED <<users, workspaces, sessions, inserted>>

\* ensure_workspace.
EnsureWorkspace(c) ==
    /\ InStep(c, "workspace")
    /\ LET missing == OwnedBy(txn[c].user, workspaces) = {}
       IN  /\ missing => inserted < MaxWorkspaces
           /\ SetTxn(c, [txn[c] EXCEPT
                            !.step = IF txn[c].seed THEN "seed" ELSE "commit",
                            !.added = IF missing THEN {NewWorkspace(txn[c].user)} ELSE {}])
           /\ inserted' = IF missing THEN inserted + 1 ELSE inserted
    /\ UNCHANGED <<users, workspaces, sessions>>

\* resolve_actor: a live session, and any workspace of its user.
Resolves(user, workspace) == user \in sessions /\ workspace \in OwnedBy(user, workspaces)

\* reset_test_fixture.
BeginReset(c) ==
    /\ txn[c] = NoTxn
    /\ c \in Resetters
    /\ \E w \in workspaces :
          /\ Resolves(w.owner, w)
          /\ SetTxn(c, [step |-> "seed", user |-> w.owner, isNew |-> FALSE, added |-> {},
                        deleted |-> {}, seed |-> TRUE, opens |-> FALSE])
    /\ UNCHANGED <<users, workspaces, sessions, inserted>>

\* reset_and_seed_browser_fixture.  The DELETE fixes the rows it looks at when
\* it begins ...
FindRows(c) ==
    /\ InStep(c, "seed")
    /\ SetTxn(c, [txn[c] EXCEPT !.step = "delete",
                                !.deleted = OwnedBy(txn[c].user, workspaces)])
    /\ UNCHANGED <<users, workspaces, sessions, inserted>>

\* ... and waits for a transaction that has deleted one of them.
Seed(c) ==
    /\ InStep(c, "delete")
    /\ inserted < MaxWorkspaces
    /\ \A d \in Clients \ {c} :
          InStep(d, "commit") => txn[d].deleted \cap txn[c].deleted = {}
    /\ SetTxn(c, [txn[c] EXCEPT !.step = "commit",
                                !.deleted = @ \cap workspaces,
                                !.added = {NewWorkspace(txn[c].user)}])
    /\ inserted' = inserted + 1
    /\ UNCHANGED <<users, workspaces, sessions>>

\* start_session_for_user adds the session to the same transaction.
CommitTxn(c) ==
    /\ InStep(c, "commit")
    /\ users' = IF txn[c].isNew THEN users \cup {txn[c].user} ELSE users
    /\ workspaces' = (workspaces \ txn[c].deleted) \cup txn[c].added
    /\ sessions' = IF txn[c].opens THEN sessions \cup {txn[c].user} ELSE sessions
    /\ SetTxn(c, NoTxn)
    /\ UNCHANGED inserted

\* An error, a lost connection or a crash.
Rollback(c) ==
    /\ txn[c] # NoTxn
    /\ SetTxn(c, NoTxn)
    /\ UNCHANGED <<users, workspaces, sessions, inserted>>

\* SESSION_TTL_HOURS have passed.
Expire(user) ==
    /\ user \in sessions
    /\ sessions' = sessions \ {user}
    /\ UNCHANGED <<users, workspaces, txn, inserted>>

\* Everything but the commit.
SignInStep ==
    \/ \E c \in Clients :
          \/ \E e \in Emails, seed \in BOOLEAN : SelectUser(c, e, seed)
          \/ InsertUser(c) \/ EnsureWorkspace(c)
          \/ BeginReset(c) \/ FindRows(c) \/ Seed(c) \/ Rollback(c)
    \/ \E u \in sessions : Expire(u)
-----------------------------------------------------------------------------
(***************************************************************************)
(* However many requests sign in with one email for the first time, and    *)
(* while the fixture is replaced, there is one user with that email and    *)
(* that user has one workspace: resolve_actor takes any and never finds    *)
(* none (ensure_user, ensure_workspace, reset_and_seed_browser_fixture).   *)
(***************************************************************************)
OneWorkspacePerUser ==
    /\ \A u, v \in users : u.email = v.email => u = v
    /\ \A u \in users : \E w \in workspaces : OwnedBy(u, workspaces) = {w}
=============================================================================
