---------------------------- MODULE CalendarSync ----------------------------
(***************************************************************************)
(* Keeping the snapshots of provider events up to date: webhooks and the   *)
(* recovery rounds of SyncScheduler (worker calendar/scheduler.py) start   *)
(* delta syncs, with nothing that keeps two of them apart.  What runs them *)
(* is not in the repository: it is taken to read the provider's event and  *)
(* to apply it through CalendarSyncService (calendar/sync.py).  The        *)
(* scheduler lives in one asyncio process: its steps end where it awaits.  *)
(***************************************************************************)
EXTENDS Integers, Sequences, FiniteSetsExt

CONSTANTS
    Events,
    Round,              \* a delta sync is started by the recovery round ...
    Receivers,          \* ... or by one of the webhook requests served at a time
    Interval,           \* SYNC_RECOVERY_INTERVAL_SECONDS, in ticks
    MaxChanges          \* bound of the model: changes at the provider

VARIABLES
    provider,       \* event -> its version, whether it is there, and ever was deleted
    unregistered,   \* events whose change has not been registered yet
    pending,        \* _pending_changes
    position,       \* of the recovery round in pending, 0 between rounds
    sinceRecovery,  \* clock - _last_recovery_at, up to Interval
    sync,           \* Round or a receiver -> its delta sync
    rows,           \* of external_calendar_events, in the order of their insertion
    crossed         \* history: events a sync of which read while another wrote

syncVars ==
    <<provider, unregistered, pending, position, sinceRecovery, sync, rows, crossed>>

ASSUME SyncAssumption ==
    /\ Round \notin Receivers
    /\ Interval \in Nat \ {0}
    /\ MaxChanges \in Nat

Starters == {Round} \cup Receivers

NoSync == [step |-> "idle"]

SyncInit ==
    /\ provider = [e \in Events |-> [version |-> 0, there |-> FALSE, wasDeleted |-> FALSE]]
    /\ unregistered = {}
    /\ pending = <<>>
    /\ position = 0
    /\ sinceRecovery = 0
    /\ sync = [s \in Starters |-> NoSync]
    /\ rows = <<>>
    /\ crossed = {}
-----------------------------------------------------------------------------
\* The provider: an event is created, edited, deleted or restored.
ProviderChanges(e) ==
    /\ MapThenSumSet(LAMBDA f : provider[f].version, Events) < MaxChanges
    /\ \E there \in BOOLEAN :
          /\ there \/ provider[e].there
          /\ provider' = [provider EXCEPT ![e] = [version    |-> @.version + 1,
                                                  there      |-> there,
                                                  wasDeleted |-> @.wasDeleted \/ ~there]]
    /\ unregistered' = unregistered \cup {e}
    /\ UNCHANGED <<pending, position, sinceRecovery, sync, rows, crossed>>

RegisterPendingChange(e) ==
    /\ e \in unregistered
    /\ unregistered' = unregistered \ {e}
    /\ pending' = Append(pending, e)
    /\ UNCHANGED <<provider, position, sinceRecovery, sync, rows, crossed>>

Tick ==
    /\ sinceRecovery < Interval
    /\ sinceRecovery' = sinceRecovery + 1
    /\ UNCHANGED <<provider, unregistered, pending, position, sync, rows, crossed>>

\* A delta sync begins: run_delta_sync reads the event from the provider, and takes
\* it to one of the operations of CalendarSyncService.
Fetch(s, e, operation) ==
    /\ sync[s] = NoSync
    /\ (operation = "delete") <=> ~provider[e].there
    /\ sync' = [sync EXCEPT ![s] = [step |-> "select", event |-> e, operation |-> operation,
                                    version |-> provider[e].version]]
    /\ UNCHANGED <<provider, unregistered, pending, position, sinceRecovery, rows, crossed>>

\* accept_webhook: a webhook of a changed event comes late, several times, or not at
\* all.  It syncs every time, and whatever other syncs are under way.
AcceptWebhook(r, e, operation) ==
    /\ provider[e].version > 0
    /\ Fetch(r, e, operation)

\* run_due, when _recovery_due.
BeginRound ==
    /\ position = 0
    /\ sinceRecovery >= Interval
    /\ position' = 1
    /\ UNCHANGED <<provider, unregistered, pending, sinceRecovery, sync, rows, crossed>>

RecoverNext(operation) ==
    /\ position \in DOMAIN pending
    /\ Fetch(Round, pending[position], operation)

RoundIsOver == position > Len(pending) /\ sync[Round] = NoSync

\* Mutant of EndRound: the recovered changes are not cleared.
EndRoundUncleared ==
    /\ position > 0
    /\ RoundIsOver
    /\ sinceRecovery' = IF position > 1 THEN 0 ELSE sinceRecovery
    /\ position' = 0
    /\ UNCHANGED <<provider, unregistered, pending, sync, rows, crossed>>

EndRound ==
    /\ position > 0
    /\ RoundIsOver
    /\ pending' = <<>>
    /\ sinceRecovery' = IF position > 1 THEN 0 ELSE sinceRecovery
    /\ position' = 0
    /\ UNCHANGED <<provider, unregistered, sync, rows, crossed>>
-----------------------------------------------------------------------------
RowsOf(e) == {n \in DOMAIN rows : rows[n].event = e}

\* Mutant of Found: the look-up is restricted to events that are not deleted.
FoundActive(s) == {n \in RowsOf(sync[s].event) : ~rows[n].deleted}

\* The look-up by workspace and external id.
Found(s) == RowsOf(sync[s].event)

\* With two rows scalar_one_or_none raises; without one apply_provider_update and
\* apply_provider_deletion do.
Applies(s) ==
    /\ Cardinality(Found(s)) <= 1
    /\ sync[s].operation # "import" => Found(s) # {}

Select(s) ==
    /\ sync[s].step = "select"
    /\ Applies(s)
    /\ sync' = [sync EXCEPT ![s] = [step |-> "write", event |-> @.event,
                                    operation |-> @.operation, version |-> @.version,
                                    loaded |-> [n \in Found(s) |-> rows[n].content]]]
    /\ UNCHANGED <<provider, unregistered, pending, position, sinceRecovery, rows, crossed>>

\* The content of a row is its title, start and end, as of a version at the
\* provider: what an import and an update both write, if it differs from what
\* was loaded.  A deletion leaves a tombstone, which neither of them takes away.
Written(s, n) ==
    IF sync[s].operation = "delete" THEN [rows[n] EXCEPT !.deleted = TRUE]
    ELSE IF sync[s].version # sync[s].loaded[n] THEN [rows[n] EXCEPT !.content = sync[s].version]
    ELSE rows[n]

Inserted(s) == [event |-> sync[s].event, content |-> sync[s].version, deleted |-> FALSE]

\* The sync is over; a round goes on behind it.
EndSync(s) ==
    /\ sync' = [sync EXCEPT ![s] = NoSync]
    /\ position' = IF s = Round THEN position + 1 ELSE position

HasRead(s, e) == sync[s] # NoSync /\ sync[s].event = e

\* The commit, of the row that was read or of a new one: nothing keeps a second
\* row of the event out.
Write(s) ==
    /\ sync[s].step = "write"
    /\ LET loaded == sync[s].loaded
       IN  rows' = IF DOMAIN loaded = {} THEN Append(rows, Inserted(s))
                   ELSE [n \in DOMAIN rows |->
                            IF n \in DOMAIN loaded THEN Written(s, n) ELSE rows[n]]
    /\ crossed' = IF \E t \in Starters \ {s} : HasRead(t, sync[s].event)
                  THEN crossed \cup {sync[s].event} ELSE crossed
    /\ EndSync(s)
    /\ UNCHANGED <<provider, unregistered, pending, sinceRecovery>>

\* The provider gives the round no answer, or a look-up raises.
Fails(s) ==
    \/ s = Round /\ position \in DOMAIN pending /\ sync[s] = NoSync
    \/ sync[s].step = "select" /\ ~Applies(s)

\* Mutant of SyncFails: the round skips the change that cannot be synced.
SyncFailsAndIsSkipped(s) ==
    /\ Fails(s)
    /\ EndSync(s)
    /\ UNCHANGED <<provider, unregistered, pending, sinceRecovery, rows, crossed>>

\* The exception ends the round: every change stays pending.  Nothing has been
\* written, so a sync that fails later is one that failed at once.
SyncFails(s) ==
    /\ Fails(s)
    /\ sync' = [sync EXCEPT ![s] = NoSync]
    /\ position' = IF s = Round THEN 0 ELSE position
    /\ UNCHANGED <<provider, unregistered, pending, sinceRecovery, rows, crossed>>

Operations == {"import", "update", "delete"}

SyncStep(s) == Select(s) \/ Write(s) \/ SyncFails(s)

RoundStep == BeginRound \/ EndRound \/ \E operation \in Operations : RecoverNext(operation)

SyncNext ==
    \/ \E e \in Events : ProviderChanges(e) \/ RegisterPendingChange(e)
    \/ \E r \in Receivers, e \in Events, operation \in Operations :
          AcceptWebhook(r, e, operation)
    \/ Tick \/ RoundStep
    \/ \E s \in Starters : SyncStep(s)

\* run_due is called again and again, a sync under way goes on or fails, and a
\* change that the rounds repeat again and again is answered by the provider, and
\* imported or deleted, in the end.
SyncFairness ==
    /\ WF_syncVars(Tick \/ RoundStep)
    /\ \A s \in Starters : WF_syncVars(SyncStep(s))
    /\ \A n \in 1..MaxChanges :
          SF_syncVars(position = n /\ (RecoverNext("import") \/ RecoverNext("delete")))

FairSyncSpec == SyncInit /\ [][SyncNext]_syncVars /\ SyncFairness
-----------------------------------------------------------------------------
IsPending(e) == \E n \in DOMAIN pending : pending[n] = e

\* Stored once, and as the provider has it; a tombstone only of what was deleted.
AsProvided(e) ==
    \E n \in DOMAIN rows :
        /\ RowsOf(e) = {n}
        /\ IF provider[e].there
           THEN /\ rows[n].content = provider[e].version
                /\ rows[n].deleted => provider[e].wasDeleted
           ELSE rows[n].deleted

IsRecovered(e) ==
    e \in unregistered \/ IsPending(e) \/ provider[e].version = 0 \/ AsProvided(e)

(***************************************************************************)
(* "A lost webhook is not a lost sync: every registered pending change is  *)
(* reconciled" (scheduler.py, the docstring).  A change that has been      *)
(* registered, and is not pending any more, is stored once and as the      *)
(* provider has it.  Violated: nothing keeps syncs that a webhook and a    *)
(* round start (accept_webhook, run_due) from crossing one another.        *)
(***************************************************************************)
RecoveredIsStored == \A e \in Events : IsRecovered(e)

(***************************************************************************)
(* What is left of it: it holds of every event unless a sync of that event *)
(* has read the provider or the row while another one wrote, however       *)
(* rounds, webhooks and failures are mixed and whatever has happened to    *)
(* other events (SyncScheduler.run_due, CalendarSyncService).              *)
(***************************************************************************)
StoredUnlessCrossed == \A e \in Events : e \in crossed \/ IsRecovered(e)

\* No operation can be applied: the event is gone and was never stored, or is
\* stored twice.
CannotBeSynced(e) ==
    \/ ~provider[e].there /\ RowsOf(e) = {}
    \/ Cardinality(RowsOf(e)) > 1

(***************************************************************************)
(* "... by the 15-minute recovery window" (scheduler.py) is too much said: *)
(* an event that was created and deleted before its first import ends      *)
(* every round.  But a change stays pending for ever only if again and     *)
(* again some pending change cannot be synced at all (run_due).            *)
(***************************************************************************)
OnlyUnsyncableBlocks ==
    \A e \in Events :
        IsPending(e) ~> ~IsPending(e) \/ \E f \in Events : IsPending(f) /\ CannotBeSynced(f)
=============================================================================
