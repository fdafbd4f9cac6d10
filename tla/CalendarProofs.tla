--------------------------- MODULE CalendarProofs ---------------------------
(***************************************************************************)
(* A recovered change is stored, for any events, number of changes and of  *)
(* webhooks at a time, and any mixture of rounds, webhooks and failures,   *)
(* unless two syncs of its event crossed one another.                      *)
(*                                                                         *)
(* Below, the focus blocks that are written into a calendar: only what was *)
(* approved is, and in time, for any number of proposals, tasks, versions  *)
(* and requests.                                                           *)
(***************************************************************************)
EXTENDS CalendarSync, FocusBlocks, FiniteSetTheorems, SequenceTheorems, TLAPS

Versions == [version : Nat, there : BOOLEAN, wasDeleted : BOOLEAN]

EventRows == [event : Events, content : Nat, deleted : BOOLEAN]

Loads == UNION {[S -> Nat] : S \in SUBSET Nat}

Reads == [step : {"select"}, event : Events, operation : Operations, version : Nat]

Writes ==
    [step : {"write"}, event : Events, operation : Operations, version : Nat, loaded : Loads]

Syncs == {NoSync} \cup Reads \cup Writes

SyncTyped ==
    /\ provider \in [Events -> Versions]
    /\ unregistered \subseteq Events
    /\ pending \in Seq(Events)
    /\ position \in 0 .. Len(pending) + 1
    /\ sync \in [Starters -> Syncs]
    /\ rows \in Seq(EventRows)
    /\ crossed \subseteq Events

\* What is gone has been deleted, and only what has changed is spoken of.
ProviderIsSound ==
    /\ \A e \in Events : provider[e].version > 0 /\ ~provider[e].there => provider[e].wasDeleted
    /\ \A e \in unregistered : provider[e].version > 0
    /\ \A n \in DOMAIN pending : provider[pending[n]].version > 0

\* One row an event, unless its syncs crossed; a tombstone only of what was deleted.
RowsAreSound ==
    /\ \A e \in Events : e \in crossed \/ RowsOf(e) = {} \/ \E n \in DOMAIN rows : RowsOf(e) = {n}
    /\ \A n \in DOMAIN rows : rows[n].deleted => provider[rows[n].event].wasDeleted

\* The round will come to e from position n on.
ComesTo(e, n) == \E m \in DOMAIN pending : m >= n /\ pending[m] = e

\* What the round has passed is stored.
Passed ==
    \A e \in Events :
        \/ e \in unregistered \/ ComesTo(e, position)
        \/ provider[e].version = 0 \/ e \in crossed \/ AsProvided(e)

\* What a sync read of the provider is still so.
IsCurrent(s) ==
    /\ sync[s].version = provider[sync[s].event].version
    /\ sync[s].operation = "delete" <=> ~provider[sync[s].event].there

\* A sync that was not crossed has read what is still so, unless the change since then
\* is known to be open; and no other sync has touched the rows it found.
SyncIsSound(s) ==
    LET e == sync[s].event
        after == IF s = Round THEN position + 1 ELSE position
    IN  /\ s = Round => position \in DOMAIN pending /\ pending[position] = e
        /\ provider[e].version > 0
        /\ sync[s].operation = "delete" => provider[e].wasDeleted
        /\ e \in crossed \/ e \in unregistered \/ ComesTo(e, after) \/ IsCurrent(s)
        /\ sync[s].step = "write" =>
              /\ DOMAIN sync[s].loaded \subseteq RowsOf(e)
              /\ sync[s].operation # "import" => DOMAIN sync[s].loaded # {}
              /\ \/ e \in crossed
                 \/ /\ DOMAIN sync[s].loaded = RowsOf(e)
                    /\ \A n \in RowsOf(e) : sync[s].loaded[n] = rows[n].content

SyncInv ==
    /\ SyncTyped
    /\ ProviderIsSound
    /\ RowsAreSound
    /\ Passed
    /\ \A s \in Starters : sync[s] # NoSync => SyncIsSound(s)

\* SyncInv holds before the first change.
LEMMA SyncInitially == SyncInit => SyncInv
<1> SUFFICES ASSUME SyncInit PROVE SyncInv
  OBVIOUS
<1> USE DEF SyncInit
<1>1. SyncTyped
  BY DEF SyncTyped, Versions, Syncs, Starters
<1>2. ProviderIsSound /\ RowsAreSound /\ Passed
  BY DEF ProviderIsSound, RowsAreSound, Passed, RowsOf
<1>3. \A s \in Starters : sync[s] = NoSync
  OBVIOUS
<1> QED BY <1>1, <1>2, <1>3 DEF SyncInv

\* What a sync under way is made of.
LEMMA SyncFields ==
    ASSUME SyncInv, NEW s \in Starters, sync[s] # NoSync
    PROVE  /\ SyncIsSound(s) /\ sync[s].event \in Events
           /\ sync[s].step \in {"select", "write"}
           /\ sync[s].version \in Nat /\ sync[s].operation \in Operations
           /\ sync[s].step = "write" => sync[s].loaded \in Loads
<1>1. sync[s] \in Reads \cup Writes
  BY DEF SyncInv, SyncTyped, Syncs
<1> QED BY <1>1 DEF SyncInv, Reads, Writes

\* The rows of an event, and the event of a row.
LEMMA RowsTyped ==
    ASSUME SyncInv
    PROVE  /\ Len(rows) \in Nat /\ DOMAIN rows = 1 .. Len(rows)
           /\ \A n \in DOMAIN rows : rows[n] \in EventRows
           /\ \A n \in DOMAIN rows : rows[n].event \in Events /\ rows[n].content \in Nat
<1>1. rows \in Seq(EventRows)
  BY DEF SyncInv, SyncTyped
<1>2. Len(rows) \in Nat /\ DOMAIN rows = 1 .. Len(rows) /\ \A n \in 1 .. Len(rows) : rows[n] \in EventRows
  BY <1>1, ElementOfSeq, LenProperties
<1> QED BY <1>2 DEF EventRows

\* The provider moves on: the change is open.
LEMMA ProviderChangesInv ==
    ASSUME SyncInv, NEW e \in Events, ProviderChanges(e)
    PROVE  SyncInv'
<1>1. PICK there \in BOOLEAN :
         provider' = [provider EXCEPT ![e] = [version    |-> @.version + 1,
                                              there      |-> there,
                                              wasDeleted |-> @.wasDeleted \/ ~there]]
  BY DEF ProviderChanges
<1>2. /\ unregistered' = unregistered \cup {e}
      /\ UNCHANGED <<pending, position, sync, rows, crossed>>
  BY DEF ProviderChanges
<1>3. /\ provider' \in [Events -> Versions]
      /\ \A f \in Events \ {e} : provider'[f] = provider[f]
      /\ provider'[e].version > 0 /\ (~provider'[e].there => provider'[e].wasDeleted)
      /\ provider[e].wasDeleted => provider'[e].wasDeleted
  <2> DEFINE old == provider[e]
             new == [version |-> old.version + 1, there |-> there,
                     wasDeleted |-> old.wasDeleted \/ ~there]
  <2>1. /\ provider \in [Events -> Versions] /\ old.version \in Nat
        /\ old.wasDeleted \in BOOLEAN
    BY DEF SyncInv, SyncTyped, Versions
  <2>2. provider' = [provider EXCEPT ![e] = new]
    BY <1>1
  <2>3. (old.wasDeleted \/ ~there) \in BOOLEAN
    BY ZenonT(10)
  <2>4. /\ new \in Versions /\ new.version = old.version + 1 /\ new.there = there
        /\ new.wasDeleted = (old.wasDeleted \/ ~there)
    BY <2>1, <2>3 DEF Versions
  <2> HIDE DEF new
  <2>5. /\ provider' \in [Events -> Versions] /\ provider'[e] = new
        /\ \A f \in Events \ {e} : provider'[f] = provider[f]
    BY <2>1, <2>2, <2>4
  <2>6. new.version > 0
    BY <2>1, <2>4
  <2> QED BY <2>4, <2>5, <2>6
<1>4. SyncTyped'
  BY <1>2, <1>3 DEF SyncInv, SyncTyped
<1>5. \A n \in DOMAIN pending : pending[n] \in Events
  BY DEF SyncInv, SyncTyped
<1>6. ProviderIsSound'
  BY <1>2, <1>3, <1>5 DEF SyncInv, SyncTyped, ProviderIsSound
<1>7. RowsAreSound'
  BY <1>2, <1>3, RowsTyped DEF SyncInv, RowsAreSound, RowsOf
<1>8. Passed'
  BY <1>2, <1>3 DEF SyncInv, Passed, ComesTo, AsProvided, RowsOf
<1>9. ASSUME NEW s \in Starters, sync[s] # NoSync
      PROVE  SyncIsSound(s)'
  <2>1. SyncIsSound(s) /\ sync[s].event \in Events
    BY <1>9, SyncFields
  <2> QED BY <1>2, <1>3, <2>1 DEF SyncIsSound, IsCurrent, ComesTo, RowsOf
<1> QED BY <1>2, <1>4, <1>6, <1>7, <1>8, <1>9 DEF SyncInv

\* A change is registered: the round will come to it.
LEMMA RegisterInv ==
    ASSUME SyncInv, NEW e \in Events, RegisterPendingChange(e)
    PROVE  SyncInv'
<1> DEFINE N == Len(pending)
<1>1. /\ e \in unregistered /\ unregistered' = unregistered \ {e}
      /\ pending' = Append(pending, e)
      /\ UNCHANGED <<provider, position, sync, rows, crossed>>
  BY DEF RegisterPendingChange
<1>2. pending \in Seq(Events) /\ position \in 0 .. N + 1 /\ N \in Nat /\ DOMAIN pending = 1 .. N
  BY DEF SyncInv, SyncTyped
<1> HIDE DEF N
<1>3. /\ pending' \in Seq(Events) /\ DOMAIN pending' = 1 .. N + 1
      /\ \A n \in 1 .. N : pending'[n] = pending[n]
      /\ pending'[N + 1] = e
  BY <1>1, <1>2, AppendProperties, LenProperties DEF N
<1>4. SyncTyped'
  <2>1. Len(pending') = N + 1
    BY <1>2, <1>3, LenProperties
  <2> QED BY <1>1, <1>2, <1>3, <2>1 DEF SyncInv, SyncTyped
<1>5. ProviderIsSound'
  BY <1>1, <1>2, <1>3 DEF SyncInv, ProviderIsSound
<1>6. RowsAreSound'
  BY <1>1 DEF SyncInv, RowsAreSound, RowsOf
<1>7. ASSUME NEW f \in Events, NEW n \in 0 .. N + 1, f \in unregistered \/ ComesTo(f, n)
      PROVE  f \in unregistered' \/ \E m \in DOMAIN pending' : m >= n /\ pending'[m] = f
  <2>1. CASE f = e
    <3>1. N + 1 \in DOMAIN pending' /\ N + 1 >= n
      BY <1>2, <1>3
    <3> QED BY <1>3, <2>1, <3>1
  <2>2. CASE f # e
    BY <1>1, <1>2, <1>3, <1>7, <2>2 DEF ComesTo
  <2> QED BY <2>1, <2>2
<1>8. Passed'
  <2> SUFFICES ASSUME NEW f \in Events
               PROVE  \/ f \in unregistered'
                      \/ \E m \in DOMAIN pending' : m >= position /\ pending'[m] = f
                      \/ provider[f].version = 0 \/ f \in crossed \/ AsProvided(f)
    BY <1>1 DEF Passed, ComesTo, AsProvided, RowsOf
  <2>1. f \in unregistered \/ ComesTo(f, position) \/ provider[f].version = 0
           \/ f \in crossed \/ AsProvided(f)
    BY DEF SyncInv, Passed
  <2> QED BY <1>2, <1>7, <2>1
<1>9. ASSUME NEW s \in Starters, sync[s] # NoSync
      PROVE  SyncIsSound(s)'
  <2> DEFINE f == sync[s].event
             after == IF s = Round THEN position + 1 ELSE position
  <2>1. SyncIsSound(s) /\ f \in Events
    BY <1>9, SyncFields
  <2>2. /\ s = Round => position \in 1 .. N /\ pending'[position] = f
        /\ after \in 0 .. N + 1
    BY <1>2, <1>3, <2>1 DEF SyncIsSound
  <2> HIDE DEF f, after
  <2>3. f \in unregistered \/ ComesTo(f, after) =>
           f \in unregistered' \/ \E m \in DOMAIN pending' : m >= after /\ pending'[m] = f
    BY <1>7, <2>1, <2>2
  <2>5. /\ provider[f].version > 0
        /\ sync[s].operation = "delete" => provider[f].wasDeleted
        /\ f \in crossed \/ f \in unregistered \/ ComesTo(f, after) \/ IsCurrent(s)
        /\ sync[s].step = "write" =>
              /\ DOMAIN sync[s].loaded \subseteq RowsOf(f)
              /\ sync[s].operation # "import" => DOMAIN sync[s].loaded # {}
              /\ \/ f \in crossed
                 \/ /\ DOMAIN sync[s].loaded = RowsOf(f)
                    /\ \A n \in RowsOf(f) : sync[s].loaded[n] = rows[n].content
    BY <2>1 DEF SyncIsSound, f, after
  <2>6. /\ sync' = sync /\ provider' = provider /\ position' = position /\ rows' = rows
        /\ crossed' = crossed
        /\ position \in 1 .. N => position \in DOMAIN pending'
    BY <1>1, <1>2, <1>3
  <2> QED BY <2>2, <2>3, <2>5, <2>6 DEF SyncIsSound, IsCurrent, ComesTo, RowsOf, f, after
<1> QED BY <1>1, <1>4, <1>5, <1>6, <1>8, <1>9 DEF SyncInv

\* One sync begins, goes on or ends, and nothing else changes.
LEMMA OneSyncMoves ==
    ASSUME SyncInv, NEW s \in Starters, NEW t \in Syncs,
           sync' = [sync EXCEPT ![s] = t],
           UNCHANGED <<provider, unregistered, pending, position, rows, crossed>>,
           t # NoSync => SyncIsSound(s)'
    PROVE  SyncInv'
<1>1. /\ sync' \in [Starters -> Syncs] /\ sync'[s] = t
      /\ \A r \in Starters \ {s} : sync'[r] = sync[r]
  BY DEF SyncInv, SyncTyped
<1>2. SyncTyped'
  BY <1>1 DEF SyncInv, SyncTyped
<1>3. ProviderIsSound' /\ RowsAreSound' /\ Passed'
  BY DEF SyncInv, ProviderIsSound, RowsAreSound, Passed, ComesTo, AsProvided, RowsOf
<1>4. ASSUME NEW r \in Starters, sync'[r] # NoSync PROVE SyncIsSound(r)'
  <2>1. CASE r = s
    BY <1>1, <1>4, <2>1
  <2>2. CASE r # s
    <3>1. sync'[r] = sync[r] /\ SyncIsSound(r)
      BY <1>1, <1>4, <2>2 DEF SyncInv
    <3> QED BY <3>1 DEF SyncIsSound, IsCurrent, ComesTo, RowsOf
  <2> QED BY <2>1, <2>2
<1> QED BY <1>2, <1>3, <1>4 DEF SyncInv

\* A sync begins: what it has read is so.
LEMMA FetchInv ==
    ASSUME SyncInv, NEW s \in Starters, NEW e \in Events, NEW operation \in Operations,
           Fetch(s, e, operation), provider[e].version > 0,
           s = Round => position \in DOMAIN pending /\ pending[position] = e
    PROVE  SyncInv'
<1> DEFINE t == [step |-> "select", event |-> e, operation |-> operation,
                 version |-> provider[e].version]
<1>1. /\ sync' = [sync EXCEPT ![s] = t]
      /\ (operation = "delete") <=> ~provider[e].there
      /\ UNCHANGED <<provider, unregistered, pending, position, rows, crossed>>
  BY DEF Fetch
<1>2. provider[e].version \in Nat
  BY DEF SyncInv, SyncTyped, Versions
<1>3. /\ t \in Syncs /\ t.event = e /\ t.step = "select" /\ t.operation = operation
      /\ t.version = provider[e].version
  BY <1>2 DEF Syncs, Reads
<1> HIDE DEF t
<1>4. sync'[s] = t
  BY <1>1 DEF SyncInv, SyncTyped
<1>5. operation = "delete" => provider[e].wasDeleted
  BY <1>1 DEF SyncInv, ProviderIsSound
<1>6. IsCurrent(s)'
  BY <1>1, <1>3, <1>4 DEF IsCurrent
<1>7. SyncIsSound(s)'
  BY <1>1, <1>3, <1>4, <1>5, <1>6 DEF SyncIsSound
<1> QED BY <1>1, <1>3, <1>7, OneSyncMoves

\* The rows are read.
LEMMA SelectInv ==
    ASSUME SyncInv, NEW s \in Starters, Select(s)
    PROVE  SyncInv'
<1>0. PICK e \in Events : e = sync[s].event
  <2>1. sync[s] # NoSync
    BY DEF Select, NoSync
  <2> QED BY <2>1, SyncFields
<1> DEFINE old == sync[s]
           loaded == [n \in Found(s) |-> rows[n].content]
           t == [step |-> "write", event |-> e, operation |-> old.operation,
                 version |-> old.version, loaded |-> loaded]
<1>1. /\ sync[s].step = "select" /\ sync[s] # NoSync /\ sync' = [sync EXCEPT ![s] = t]
      /\ old.operation # "import" => Found(s) # {}
      /\ UNCHANGED <<provider, unregistered, pending, position, rows, crossed>>
  BY <1>0 DEF Select, Applies, NoSync
<1>2. /\ SyncIsSound(s) /\ old.version \in Nat /\ old.operation \in Operations
  BY <1>1, SyncFields
<1>3. Found(s) = RowsOf(e) /\ RowsOf(e) \in SUBSET Nat /\ \A n \in RowsOf(e) : rows[n].content \in Nat
  BY <1>0, RowsTyped DEF RowsOf, Found
<1>4. loaded \in Loads /\ DOMAIN loaded = RowsOf(e) /\ \A n \in RowsOf(e) : loaded[n] = rows[n].content
  <2>1. loaded \in [RowsOf(e) -> Nat]
    BY <1>3
  <2> QED BY <1>3, <2>1 DEF Loads
<1> HIDE DEF loaded
<1>5. /\ t \in Syncs /\ t.event = e /\ t.step = "write" /\ t.operation = old.operation
      /\ t.version = old.version /\ t.loaded = loaded
  BY <1>2, <1>4 DEF Syncs, Writes
<1> HIDE DEF t
<1>6. sync'[s] = t
  BY <1>1 DEF SyncInv, SyncTyped
<1>7. RowsOf(e)' = RowsOf(e)
  BY <1>1 DEF RowsOf
<1>8. SyncIsSound(s)'
  <2>1. e \in crossed \/ e \in unregistered \/ ComesTo(e, IF s = Round THEN position + 1 ELSE position)
           \/ IsCurrent(s)
    BY <1>0, <1>2 DEF SyncIsSound
  <2>2. IsCurrent(s) => IsCurrent(s)'
    BY <1>0, <1>1, <1>5, <1>6 DEF IsCurrent
  <2>3. /\ DOMAIN t.loaded = RowsOf(e) /\ \A n \in RowsOf(e) : t.loaded[n] = rows[n].content
        /\ t.operation # "import" => DOMAIN t.loaded # {}
    BY <1>1, <1>3, <1>4, <1>5
  <2>4. /\ s = Round => position \in DOMAIN pending /\ pending[position] = e
        /\ provider[e].version > 0
        /\ t.operation = "delete" => provider[e].wasDeleted
    BY <1>0, <1>2, <1>5 DEF SyncIsSound
  <2> HIDE DEF old
  <2> QED BY <1>1, <1>5, <1>6, <1>7, <2>1, <2>2, <2>3, <2>4 DEF SyncIsSound, ComesTo
<1> QED BY <1>1, <1>5, <1>8, OneSyncMoves

\* A round begins at the first change.
LEMMA BeginRoundInv ==
    ASSUME SyncInv, BeginRound
    PROVE  SyncInv'
<1>1. /\ position = 0 /\ position' = 1
      /\ UNCHANGED <<provider, unregistered, pending, sync, rows, crossed>>
  BY DEF BeginRound
<1>2. pending \in Seq(Events) /\ Len(pending) \in Nat /\ DOMAIN pending = 1 .. Len(pending)
  BY DEF SyncInv, SyncTyped
<1>3. \A e \in Events : ComesTo(e, 0) <=> ComesTo(e, 1)'
  BY <1>1, <1>2 DEF ComesTo
<1>4. SyncTyped'
  BY <1>1, <1>2 DEF SyncInv, SyncTyped
<1>5. ProviderIsSound' /\ RowsAreSound' /\ Passed'
  BY <1>1, <1>3 DEF SyncInv, ProviderIsSound, RowsAreSound, Passed, AsProvided, RowsOf
<1>6. ASSUME NEW s \in Starters, sync[s] # NoSync PROVE SyncIsSound(s)'
  <2>1. SyncIsSound(s) /\ sync[s].event \in Events
    BY <1>6, SyncFields
  <2>2. s # Round
    BY <1>1, <1>2, <2>1 DEF SyncIsSound
  <2> QED BY <1>1, <1>3, <2>1, <2>2 DEF SyncIsSound, IsCurrent, RowsOf
<1> QED BY <1>1, <1>4, <1>5, <1>6 DEF SyncInv

\* A round has passed every change when it clears them.
LEMMA EndRoundInv ==
    ASSUME SyncInv, EndRound
    PROVE  SyncInv'
<1>1. /\ position > Len(pending) /\ sync[Round] = NoSync /\ pending' = <<>> /\ position' = 0
      /\ UNCHANGED <<provider, unregistered, sync, rows, crossed>>
  BY DEF EndRound, RoundIsOver
<1>2. /\ pending \in Seq(Events) /\ Len(pending) \in Nat /\ DOMAIN pending = 1 .. Len(pending)
      /\ position \in Nat
  BY DEF SyncInv, SyncTyped
<1>3. \A e \in Events : ~ComesTo(e, position)
  BY <1>1, <1>2 DEF ComesTo
<1>4. SyncTyped'
  BY <1>1 DEF SyncInv, SyncTyped
<1>5. ProviderIsSound' /\ RowsAreSound' /\ Passed'
  BY <1>1, <1>3 DEF SyncInv, ProviderIsSound, RowsAreSound, Passed, AsProvided, RowsOf
<1>6. ASSUME NEW s \in Starters, sync[s] # NoSync PROVE SyncIsSound(s)'
  <2>1. SyncIsSound(s) /\ sync[s].event \in Events /\ s # Round
    BY <1>1, <1>6, SyncFields
  <2> QED BY <1>1, <1>3, <2>1 DEF SyncIsSound, IsCurrent, RowsOf
<1> QED BY <1>1, <1>4, <1>5, <1>6 DEF SyncInv

\* A failure leaves the changes pending, and the next round begins anew.
LEMMA SyncFailsInv ==
    ASSUME SyncInv, NEW s \in Starters, SyncFails(s)
    PROVE  SyncInv'
<1>1. /\ sync' = [sync EXCEPT ![s] = NoSync]
      /\ position' = IF s = Round THEN 0 ELSE position
      /\ UNCHANGED <<provider, unregistered, pending, rows, crossed>>
  BY DEF SyncFails
<1>2. NoSync \in Syncs
  BY DEF Syncs
<1>3. CASE s # Round
  BY <1>1, <1>2, <1>3, OneSyncMoves
<1>4. CASE s = Round
  <2>1. /\ sync' \in [Starters -> Syncs] /\ sync'[Round] = NoSync
        /\ \A r \in Starters \ {Round} : sync'[r] = sync[r]
    BY <1>1, <1>2, <1>4 DEF SyncInv, SyncTyped
  <2>2. /\ pending \in Seq(Events) /\ Len(pending) \in Nat /\ DOMAIN pending = 1 .. Len(pending)
        /\ position \in Nat
    BY DEF SyncInv, SyncTyped
  <2>3. \A e \in Events : ComesTo(e, position) => ComesTo(e, position)'
    BY <1>1, <1>4, <2>2 DEF ComesTo
  <2>4. SyncTyped'
    BY <1>1, <1>4, <2>1, <2>2 DEF SyncInv, SyncTyped
  <2>5. ProviderIsSound' /\ RowsAreSound'
    BY <1>1 DEF SyncInv, ProviderIsSound, RowsAreSound, RowsOf
  <2>6. Passed'
    BY <1>1, <2>3 DEF SyncInv, Passed, AsProvided, RowsOf
  <2>7. ASSUME NEW r \in Starters, sync'[r] # NoSync PROVE SyncIsSound(r)'
    <3>1. r # Round /\ sync'[r] = sync[r] /\ SyncIsSound(r) /\ sync[r].event \in Events
      BY <2>1, <2>7, SyncFields
    <3> QED BY <1>1, <2>3, <3>1 DEF SyncIsSound, IsCurrent, RowsOf
  <2> QED BY <2>4, <2>5, <2>6, <2>7 DEF SyncInv
<1> QED BY <1>3, <1>4

\* What a commit does to the rows: a new one, or new content or a tombstone for those
\* that were found.  No other event is touched.
LEMMA WriteRows ==
    ASSUME SyncInv, NEW s \in Starters, Write(s), NEW e \in Events, e = sync[s].event
    PROVE  LET D == DOMAIN sync[s].loaded
               N == Len(rows)
           IN  /\ rows' \in Seq(EventRows)
               /\ DOMAIN rows' = IF D = {} THEN 1 .. N + 1 ELSE 1 .. N
               /\ D = {} => rows'[N + 1] = Inserted(s) /\ sync[s].operation # "delete"
               /\ \A n \in 1 .. N : rows'[n] = IF n \in D THEN Written(s, n) ELSE rows[n]
               /\ \A n \in 1 .. N : rows'[n].event = rows[n].event
               /\ \A f \in Events \ {e} :
                     RowsOf(f)' = RowsOf(f) /\ \A n \in RowsOf(f) : rows'[n] = rows[n]
               /\ RowsOf(e)' = IF D = {} THEN RowsOf(e) \cup {N + 1} ELSE RowsOf(e)
               /\ \A n \in DOMAIN rows' : rows'[n].deleted => provider[rows'[n].event].wasDeleted
<1> DEFINE seen == sync[s].version
           operation == sync[s].operation
           loaded == sync[s].loaded
           D == DOMAIN loaded
           N == Len(rows)
<1>1. /\ sync[s].step = "write" /\ sync[s] # NoSync
      /\ rows' = IF D = {} THEN Append(rows, Inserted(s))
                 ELSE [n \in DOMAIN rows |-> IF n \in D THEN Written(s, n) ELSE rows[n]]
  BY DEF Write, NoSync
<1>2. /\ seen \in Nat /\ operation \in Operations /\ loaded \in Loads
      /\ D \subseteq RowsOf(e) /\ (operation # "import" => D # {})
      /\ operation = "delete" => provider[e].wasDeleted
  BY <1>1, SyncFields DEF SyncIsSound
<1>3. /\ rows \in Seq(EventRows) /\ N \in Nat /\ DOMAIN rows = 1 .. N
      /\ \A n \in 1 .. N : rows[n] \in EventRows
      /\ \A n \in RowsOf(e) : n \in 1 .. N /\ rows[n].event = e
      /\ \A n \in 1 .. N : rows[n].deleted => provider[rows[n].event].wasDeleted
  BY RowsTyped DEF SyncInv, SyncTyped, RowsAreSound, RowsOf
<1>4. Inserted(s) = [event |-> e, content |-> seen, deleted |-> FALSE]
  BY DEF Inserted
<1>5. /\ Inserted(s) \in EventRows /\ Inserted(s).event = e /\ ~Inserted(s).deleted
  BY <1>2, <1>4 DEF EventRows
<1>6. \A n \in 1 .. N :
         Written(s, n) = IF operation = "delete" THEN [rows[n] EXCEPT !.deleted = TRUE]
                         ELSE IF seen # loaded[n] THEN [rows[n] EXCEPT !.content = seen]
                         ELSE rows[n]
  BY DEF Written
<1> HIDE DEF seen, operation, loaded, D, N
<1>7. \A n \in 1 .. N :
         /\ Written(s, n) \in EventRows /\ Written(s, n).event = rows[n].event
         /\ Written(s, n).deleted => rows[n].deleted \/ operation = "delete"
  <2> SUFFICES ASSUME NEW n \in 1 .. N
               PROVE  /\ Written(s, n) \in EventRows /\ Written(s, n).event = rows[n].event
                      /\ Written(s, n).deleted => rows[n].deleted \/ operation = "delete"
    OBVIOUS
  <2>1. rows[n] \in EventRows
    BY <1>3
  <2> QED BY <1>2, <1>6, <2>1 DEF EventRows
<1>8. CASE D = {}
  <2>1. /\ rows' = Append(rows, Inserted(s)) /\ operation # "delete"
    BY <1>1, <1>2, <1>8
  <2>2. /\ rows' \in Seq(EventRows) /\ DOMAIN rows' = 1 .. N + 1
        /\ rows'[N + 1] = Inserted(s) /\ \A n \in 1 .. N : rows'[n] = rows[n]
    BY <1>3, <1>5, <2>1, AppendProperties, LenProperties DEF N
  <2>3. \A f \in Events : RowsOf(f)' = IF f = e THEN RowsOf(f) \cup {N + 1} ELSE RowsOf(f)
    BY <1>3, <1>5, <2>2 DEF RowsOf
  <2>4. \A n \in DOMAIN rows' : rows'[n].deleted => provider[rows'[n].event].wasDeleted
    BY <1>3, <1>5, <2>2
  <2>5. \A f \in Events : \A n \in RowsOf(f) : rows'[n] = rows[n]
    BY <1>3, <2>2 DEF RowsOf
  <2> QED BY <1>2, <1>8, <2>1, <2>2, <2>3, <2>4, <2>5 DEF operation, loaded, D, N
<1>9. CASE D # {}
  <2>1. rows' = [n \in 1 .. N |-> IF n \in D THEN Written(s, n) ELSE rows[n]]
    BY <1>1, <1>3, <1>9
  <2>2. /\ DOMAIN rows' = 1 .. N
        /\ \A n \in 1 .. N : rows'[n] = IF n \in D THEN Written(s, n) ELSE rows[n]
    BY <2>1
  <2>3. \A n \in 1 .. N : rows'[n] \in EventRows /\ rows'[n].event = rows[n].event
    BY <1>3, <1>7, <2>2
  <2>4. rows' \in Seq(EventRows)
    BY <1>3, <2>1, <2>3
  <2>5. \A f \in Events : RowsOf(f)' = RowsOf(f)
    BY <1>3, <2>2, <2>3 DEF RowsOf
  <2>6. \A n \in D : n \in 1 .. N /\ rows[n].event = e
    BY <1>2, <1>3
  <2>7. \A f \in Events \ {e} : \A n \in RowsOf(f) : rows'[n] = rows[n]
    BY <1>3, <2>2, <2>6 DEF RowsOf
  <2>8. ASSUME NEW n \in 1 .. N, rows'[n].deleted PROVE provider[rows'[n].event].wasDeleted
    <3>1. CASE n \in D
      BY <1>2, <1>3, <1>7, <2>2, <2>3, <2>6, <2>8, <3>1
    <3>2. CASE n \notin D
      BY <1>3, <2>2, <2>8, <3>2
    <3> QED BY <3>1, <3>2
  <2> QED BY <1>2, <1>9, <2>2, <2>3, <2>4, <2>5, <2>7, <2>8 DEF operation, loaded, D, N
<1> QED BY <1>8, <1>9

\* A sync that was not crossed has stored what it read.
LEMMA WrittenAsSeen ==
    ASSUME SyncInv, NEW s \in Starters, Write(s), NEW e \in Events, e = sync[s].event,
           e \notin crossed, IsCurrent(s)
    PROVE  AsProvided(e)'
<1> DEFINE seen == sync[s].version
           loaded == sync[s].loaded
           D == DOMAIN loaded
           N == Len(rows)
<1>1. /\ sync[s].step = "write" /\ sync[s] # NoSync /\ provider' = provider
  BY DEF Write, NoSync
<1>2. /\ seen \in Nat /\ D = RowsOf(e)
      /\ \A n \in RowsOf(e) : loaded[n] = rows[n].content
      /\ seen = provider[e].version
      /\ sync[s].operation = "delete" <=> ~provider[e].there
  BY <1>1, SyncFields DEF SyncIsSound, IsCurrent
<1>3. /\ N \in Nat /\ DOMAIN rows = 1 .. N /\ \A n \in 1 .. N : rows[n] \in EventRows
      /\ RowsOf(e) = {} \/ \E n \in DOMAIN rows : RowsOf(e) = {n}
      /\ \A n \in 1 .. N : n \in RowsOf(e) => rows[n].event = e
  BY <1>2, RowsTyped DEF SyncInv, RowsAreSound, RowsOf
<1>4. /\ DOMAIN rows' = IF D = {} THEN 1 .. N + 1 ELSE 1 .. N
      /\ D = {} => rows'[N + 1] = Inserted(s) /\ sync[s].operation # "delete"
      /\ \A n \in 1 .. N : rows'[n] = IF n \in D THEN Written(s, n) ELSE rows[n]
      /\ RowsOf(e)' = IF D = {} THEN RowsOf(e) \cup {N + 1} ELSE RowsOf(e)
      /\ \A n \in DOMAIN rows' : rows'[n].deleted => provider[rows'[n].event].wasDeleted
      /\ \A n \in 1 .. N : rows'[n].event = rows[n].event
  BY WriteRows
<1>5. Inserted(s) = [event |-> e, content |-> seen, deleted |-> FALSE]
  BY DEF Inserted
<1>6. \A n \in 1 .. N :
         Written(s, n) = IF sync[s].operation = "delete" THEN [rows[n] EXCEPT !.deleted = TRUE]
                         ELSE IF seen # loaded[n] THEN [rows[n] EXCEPT !.content = seen]
                         ELSE rows[n]
  BY DEF Written
<1> HIDE DEF seen, loaded, D, N
<1>7. CASE D = {}
  <2>1. /\ N + 1 \in DOMAIN rows' /\ RowsOf(e)' = {N + 1}
        /\ rows'[N + 1].content = seen /\ ~rows'[N + 1].deleted /\ provider[e].there
    BY <1>2, <1>3, <1>4, <1>5, <1>7
  <2> QED BY <1>1, <1>2, <2>1 DEF AsProvided
<1>8. CASE D # {}
  <2>1. PICK n \in 1 .. N : RowsOf(e) = {n}
    BY <1>2, <1>3, <1>8
  <2>2. /\ RowsOf(e)' = {n} /\ n \in DOMAIN rows' /\ rows'[n] = Written(s, n)
        /\ rows[n] \in EventRows /\ rows[n].content = loaded[n] /\ rows'[n].event = e
        /\ rows'[n].deleted => provider[e].wasDeleted
    BY <1>2, <1>3, <1>4, <1>8, <2>1
  <2>3. IF provider[e].there THEN rows'[n].content = seen ELSE rows'[n].deleted
    BY <1>2, <1>6, <2>1, <2>2 DEF EventRows
  <2> QED BY <1>1, <1>2, <2>2, <2>3 DEF AsProvided
<1> QED BY <1>7, <1>8

\* A sync ends with its commit, and crosses those of the event that have read before.
LEMMA WriteInv ==
    ASSUME SyncInv, NEW s \in Starters, Write(s)
    PROVE  SyncInv'
<1>0. PICK e \in Events : e = sync[s].event
  <2>1. sync[s] # NoSync
    BY DEF Write, NoSync
  <2> QED BY <2>1, SyncFields
<1> DEFINE after == IF s = Round THEN position + 1 ELSE position
           D == DOMAIN sync[s].loaded
           N == Len(rows)
<1>1. /\ sync[s].step = "write" /\ sync[s] # NoSync /\ sync' = [sync EXCEPT ![s] = NoSync]
      /\ position' = after
      /\ crossed' = IF \E t \in Starters \ {s} : HasRead(t, e) THEN crossed \cup {e} ELSE crossed
      /\ UNCHANGED <<provider, unregistered, pending>>
  BY <1>0 DEF Write, EndSync, NoSync
<1>2. SyncIsSound(s)
  BY <1>1, SyncFields
<1>3. NoSync \in Syncs
  BY DEF Syncs
<1>4. /\ sync' \in [Starters -> Syncs] /\ sync'[s] = NoSync
      /\ \A t \in Starters \ {s} : sync'[t] = sync[t]
  BY <1>1, <1>3 DEF SyncInv, SyncTyped
<1>5. /\ pending \in Seq(Events) /\ Len(pending) \in Nat /\ DOMAIN pending = 1 .. Len(pending)
      /\ position \in 0 .. Len(pending) + 1
  BY DEF SyncInv, SyncTyped
<1>6. /\ s = Round => position \in DOMAIN pending /\ pending[position] = e
      /\ e \in crossed \/ e \in unregistered \/ ComesTo(e, after) \/ IsCurrent(s)
  BY <1>0, <1>2 DEF SyncIsSound
<1>7. /\ rows' \in Seq(EventRows)
      /\ N \in Nat /\ DOMAIN rows = 1 .. N
      /\ DOMAIN rows' = IF D = {} THEN 1 .. N + 1 ELSE 1 .. N
      /\ \A f \in Events \ {e} :
            RowsOf(f)' = RowsOf(f) /\ \A n \in RowsOf(f) : rows'[n] = rows[n]
      /\ RowsOf(e)' = IF D = {} THEN RowsOf(e) \cup {N + 1} ELSE RowsOf(e)
      /\ \A n \in DOMAIN rows' : rows'[n].deleted => provider[rows'[n].event].wasDeleted
  BY <1>0, WriteRows, RowsTyped
<1>8. e \notin crossed => D = RowsOf(e)
  BY <1>0, <1>1, <1>2 DEF SyncIsSound
<1>9. e \notin crossed /\ IsCurrent(s) => AsProvided(e)'
  BY <1>0, WrittenAsSeen
<1>10. \A f \in Events : RowsOf(f) \subseteq DOMAIN rows
  BY DEF RowsOf
<1> HIDE DEF D, N
<1>11. crossed \subseteq crossed' /\ crossed' \subseteq Events
  BY <1>1, <1>2 DEF SyncInv, SyncTyped
<1>12. \A f \in Events \ {e} : ComesTo(f, position) => ComesTo(f, position')
  BY <1>1, <1>5, <1>6 DEF ComesTo
<1>13. SyncTyped'
  <2>1. position' \in 0 .. Len(pending) + 1
    BY <1>1, <1>5, <1>6
  <2> QED BY <1>1, <1>4, <1>7, <1>11, <2>1 DEF SyncInv, SyncTyped
<1>14. ProviderIsSound'
  BY <1>1 DEF SyncInv, ProviderIsSound
<1>15. RowsAreSound'
  <2>1. ASSUME NEW f \in Events
        PROVE  f \in crossed' \/ RowsOf(f)' = {} \/ \E n \in DOMAIN rows' : RowsOf(f)' = {n}
    <3>1. f \in crossed \/ RowsOf(f) = {} \/ \E n \in DOMAIN rows : RowsOf(f) = {n}
      BY DEF SyncInv, RowsAreSound
    <3>2. DOMAIN rows \subseteq DOMAIN rows'
      BY <1>7
    <3>3. CASE f # e
      BY <1>7, <1>11, <3>1, <3>2, <3>3
    <3>4. CASE f = e /\ D = {}
      <4>1. N + 1 \in DOMAIN rows'
        BY <1>7, <3>4
      <4> QED BY <1>7, <1>8, <1>11, <3>4, <4>1
    <3>5. CASE f = e /\ D # {}
      BY <1>7, <1>11, <3>1, <3>2, <3>5
    <3> QED BY <3>3, <3>4, <3>5
  <2> QED BY <1>1, <1>7, <2>1 DEF RowsAreSound
<1>16. Passed'
  <2> SUFFICES ASSUME NEW f \in Events
               PROVE  \/ f \in unregistered \/ ComesTo(f, position')
                      \/ provider[f].version = 0 \/ f \in crossed' \/ AsProvided(f)'
    BY <1>1 DEF Passed, ComesTo
  <2>1. CASE f = e
    BY <1>1, <1>6, <1>9, <1>11, <2>1
  <2>2. CASE f # e
    <3>1. AsProvided(f) => AsProvided(f)'
      <4> SUFFICES ASSUME AsProvided(f) PROVE AsProvided(f)'
        OBVIOUS
      <4>1. PICK n \in DOMAIN rows :
               /\ RowsOf(f) = {n}
               /\ IF provider[f].there
                  THEN /\ rows[n].content = provider[f].version
                       /\ rows[n].deleted => provider[f].wasDeleted
                  ELSE rows[n].deleted
        BY DEF AsProvided
      <4>2. n \in DOMAIN rows' /\ RowsOf(f)' = {n} /\ rows'[n] = rows[n]
        BY <1>7, <2>2, <4>1
      <4> QED BY <1>1, <4>1, <4>2 DEF AsProvided
    <3> QED BY <1>11, <1>12, <2>2, <3>1 DEF SyncInv, Passed
  <2> QED BY <2>1, <2>2
<1>17. ASSUME NEW t \in Starters, sync'[t] # NoSync PROVE SyncIsSound(t)'
  <2>0. PICK f \in Events : f = sync[t].event
    BY <1>4, <1>17, SyncFields
  <2> DEFINE then == IF t = Round THEN position + 1 ELSE position
  <2>1. t # s /\ sync'[t] = sync[t] /\ SyncIsSound(t)
    BY <1>4, <1>17, SyncFields
  <2>2. /\ t = Round => position \in DOMAIN pending /\ pending[position] = f
        /\ provider[f].version > 0
        /\ sync[t].operation = "delete" => provider[f].wasDeleted
        /\ f \in crossed \/ f \in unregistered \/ ComesTo(f, then) \/ IsCurrent(t)
        /\ sync[t].step = "write" =>
              /\ DOMAIN sync[t].loaded \subseteq RowsOf(f)
              /\ sync[t].operation # "import" => DOMAIN sync[t].loaded # {}
              /\ \/ f \in crossed
                 \/ /\ DOMAIN sync[t].loaded = RowsOf(f)
                    /\ \A n \in RowsOf(f) : sync[t].loaded[n] = rows[n].content
    BY <2>0, <2>1 DEF SyncIsSound
  <2>3. t = Round => position' = position
    BY <1>1, <2>1
  <2>4. IsCurrent(t) => IsCurrent(t)'
    BY <1>1, <2>1 DEF IsCurrent
  <2>5. f = e => f \in crossed'
    BY <1>1, <1>4, <1>17, <2>0, <2>1 DEF HasRead
  <2>6. RowsOf(f) \subseteq RowsOf(f)'
    BY <1>7, <2>1
  <2>7. f # e => RowsOf(f)' = RowsOf(f) /\ \A n \in RowsOf(f) : rows'[n] = rows[n]
    BY <1>7, <2>1
  <2>8. f # e /\ ComesTo(f, then) => ComesTo(f, IF t = Round THEN position' + 1 ELSE position')
    BY <1>12, <2>1, <2>3
  <2>9. /\ t = Round => position' \in DOMAIN pending /\ pending[position'] = f
        /\ \/ f \in crossed' \/ f \in unregistered
           \/ ComesTo(f, IF t = Round THEN position' + 1 ELSE position') \/ IsCurrent(t)'
    BY <1>11, <2>2, <2>3, <2>4, <2>5, <2>8
  <2>10. sync[t].step = "write" =>
            /\ DOMAIN sync[t].loaded \subseteq RowsOf(f)'
            /\ sync[t].operation # "import" => DOMAIN sync[t].loaded # {}
            /\ \/ f \in crossed'
               \/ /\ DOMAIN sync[t].loaded = RowsOf(f)'
                  /\ \A n \in RowsOf(f)' : sync[t].loaded[n] = rows'[n].content
    BY <1>11, <2>2, <2>5, <2>6, <2>7
  <2>11. /\ sync'[t].event = f /\ sync'[t].step = sync[t].step
         /\ sync'[t].operation = sync[t].operation /\ sync'[t].loaded = sync[t].loaded
    BY <2>0, <2>1
  <2> QED BY <1>1, <2>0, <2>1, <2>2, <2>9, <2>10, <2>11, SMTT(30) DEF SyncIsSound, ComesTo
<1> QED BY <1>13, <1>14, <1>15, <1>16, <1>17 DEF SyncInv

\* A step keeps SyncInv.
LEMMA SyncKeepsInv ==
    ASSUME SyncInv, [SyncNext]_syncVars
    PROVE  SyncInv'
<1>1. CASE Tick \/ UNCHANGED syncVars
  <2>1. UNCHANGED <<provider, unregistered, pending, position, sync, rows, crossed>>
    BY <1>1 DEF Tick, syncVars
  <2>2. SyncTyped' /\ ProviderIsSound'
    BY <2>1 DEF SyncInv, SyncTyped, ProviderIsSound
  <2>3. RowsAreSound'
    BY <2>1 DEF SyncInv, RowsAreSound, RowsOf
  <2>4. Passed'
    BY <2>1 DEF SyncInv, Passed, AsProvided, ComesTo, RowsOf
  <2>5. ASSUME NEW s \in Starters, sync[s] # NoSync PROVE SyncIsSound(s)'
    <3>1. SyncIsSound(s)
      BY <2>5 DEF SyncInv
    <3> QED BY <2>1, <3>1 DEF SyncIsSound, IsCurrent, ComesTo, RowsOf
  <2> QED BY <2>1, <2>2, <2>3, <2>4, <2>5 DEF SyncInv
<1>2. ASSUME NEW r \in Receivers, NEW e \in Events, NEW operation \in Operations,
             AcceptWebhook(r, e, operation)
      PROVE  SyncInv'
  <2>1. r \in Starters /\ r # Round /\ provider[e].version > 0 /\ Fetch(r, e, operation)
    BY <1>2, SyncAssumption DEF AcceptWebhook, Starters
  <2> QED BY <2>1, FetchInv
<1>3. ASSUME NEW operation \in Operations, RecoverNext(operation) PROVE SyncInv'
  <2>1. /\ position \in DOMAIN pending /\ Fetch(Round, pending[position], operation)
        /\ Round \in Starters
    BY <1>3 DEF RecoverNext, Starters
  <2>2. pending[position] \in Events /\ provider[pending[position]].version > 0
    BY <2>1 DEF SyncInv, SyncTyped, ProviderIsSound
  <2> QED BY <2>1, <2>2, FetchInv
<1> QED
  BY <1>1, <1>2, <1>3, ProviderChangesInv, RegisterInv, BeginRoundInv, EndRoundInv, SelectInv,
     WriteInv, SyncFailsInv DEF SyncNext, RoundStep, SyncStep

(***************************************************************************)
(* A change that was registered and is not pending any more is stored once *)
(* and as the provider has it, unless two delta syncs of its event crossed *)
(* one another (SyncScheduler.run_due, accept_webhook, CalendarSyncService *)
(* import_event, apply_provider_update and apply_provider_deletion).       *)
(***************************************************************************)
THEOREM RecoveredChangesStored == FairSyncSpec => []StoredUnlessCrossed
<1>1. SyncInv /\ [SyncNext]_syncVars => SyncInv'
  BY SyncKeepsInv
<1>2. SyncInv => StoredUnlessCrossed
  BY DEF SyncInv, Passed, ComesTo, IsPending, StoredUnlessCrossed, IsRecovered
<1> QED BY <1>1, <1>2, SyncInitially, PTL DEF FairSyncSpec
-----------------------------------------------------------------------------
ProposalRows ==
    [status : ProposalStatuses, task : Tasks \cup {None}, targetVersion : Nat]

Requests ==
    {Idle} \cup [op : {"approve", "judge", "enqueue"}, proposal : Proposals]

FocusTyped ==
    /\ version \in [Tasks -> Nat]
    /\ proposal \in [Proposals -> ProposalRows]
    /\ approvals \in [Proposals -> SUBSET Nat]
    /\ request \in [Handlers -> Requests]
    /\ outcome \in [Proposals -> External!Outcomes]
    /\ performed \subseteq Proposals

\* What is approved concerns a task, and was approved at a version it has had.
ApprovalsAreSound ==
    \A p \in Proposals :
        /\ proposal[p].status # "none" => proposal[p].task \in Tasks
        /\ \A v \in approvals[p] : v <= version[proposal[p].task]

InTime(p) == \E v \in approvals[p] : v <= proposal[p].targetVersion

\* A request executes only a proposal with an approval on record, and goes on to
\* enqueue only if one was in time: what it has read may have changed since, but no
\* approval is ever taken back.
ExecutionsAreApproved ==
    \A h \in Handlers :
        /\ request[h] # Idle => proposal[request[h].proposal].status # "none"
        /\ request[h].op = "judge" => approvals[request[h].proposal] # {}
        /\ request[h].op = "enqueue" => InTime(request[h].proposal)

FInv ==
    /\ FocusTyped
    /\ ApprovalsAreSound
    /\ ExecutionsAreApproved
    /\ CommandIsApproved
    /\ ApprovedInTime

\* FInv holds before the first proposal.
LEMMA FocusInitially == Init => FInv
BY DEF Init, External!ExtInit, External!Outcomes, NoProposal, Idle, ProposalRows, ProposalStatuses,
       Requests, FocusTyped, ApprovalsAreSound, ExecutionsAreApproved, CommandIsApproved,
       ApprovedInTime, FInv

\* A request that works on a proposal, and the proposal.
LEMMA RequestTyped ==
    ASSUME FInv, NEW h \in Handlers, request[h] # Idle
    PROVE  /\ request[h].proposal \in Proposals
           /\ request[h] = [op |-> request[h].op, proposal |-> request[h].proposal]
           /\ request[h].op \in {"approve", "judge", "enqueue"}
           /\ proposal[request[h].proposal] \in ProposalRows
           /\ proposal[request[h].proposal].task \in Tasks
           /\ version[proposal[request[h].proposal].task] \in Nat
<1>1. request[h] \in [op : {"approve", "judge", "enqueue"}, proposal : Proposals]
  BY DEF FInv, FocusTyped, Requests
<1> QED BY <1>1 DEF FInv, FocusTyped, ApprovalsAreSound, ExecutionsAreApproved

\* A request moves on: what it does from there is all that has to be looked at.
LEMMA RequestMoves ==
    ASSUME FInv, NEW h \in Handlers, NEW r \in Requests,
           request' = [request EXCEPT ![h] = r],
           UNCHANGED <<version, proposal, approvals, outcome, performed>>,
           r # Idle => proposal[r.proposal].status # "none",
           r.op = "judge" => approvals[r.proposal] # {},
           r.op = "enqueue" => InTime(r.proposal)
    PROVE  FInv'
<1>1. request' \in [Handlers -> Requests]
  BY DEF FInv, FocusTyped
<1>2. ExecutionsAreApproved'
  BY DEF FInv, FocusTyped, ExecutionsAreApproved, InTime
<1> QED BY <1>1, <1>2 DEF FInv, FocusTyped, ApprovalsAreSound, CommandIsApproved, ApprovedInTime

\* A proposal is resolved, and its request over.
LEMMA Resolved ==
    ASSUME FInv, NEW h \in Handlers, request[h] # Idle, NEW p, p = request[h].proposal,
           NEW status \in {"approved", "superseded"}, SetStatus(p, status), Finish(h),
           approvals' \in [Proposals -> SUBSET Nat],
           \A q \in Proposals \ {p} : approvals'[q] = approvals[q],
           approvals[p] \subseteq approvals'[p], approvals'[p] # {},
           \A v \in approvals'[p] : v <= version[proposal[p].task],
           UNCHANGED <<version, outcome, performed>>
    PROVE  FInv'
<1>1. /\ p \in Proposals /\ proposal[p] \in ProposalRows /\ proposal[p].task \in Tasks
  BY RequestTyped
<1>2. /\ proposal' \in [Proposals -> ProposalRows]
      /\ proposal'[p] = [proposal[p] EXCEPT !.status = status]
      /\ \A q \in Proposals \ {p} : proposal'[q] = proposal[q]
  BY <1>1 DEF FInv, FocusTyped, SetStatus, ProposalRows, ProposalStatuses
<1>3. /\ proposal'[p].status = status /\ proposal'[p].task = proposal[p].task
      /\ proposal'[p].targetVersion = proposal[p].targetVersion
  BY <1>1, <1>2 DEF ProposalRows
<1>4. request' \in [Handlers -> Requests] /\ request'[h] = Idle
      /\ \A g \in Handlers \ {h} : request'[g] = request[g]
  BY DEF FInv, FocusTyped, Finish, Requests
<1>5. FocusTyped'
  <2>1. FocusTyped
    BY DEF FInv
  <2> QED BY <1>2, <1>4, <2>1 DEF FocusTyped
<1>6. ApprovalsAreSound'
  <2> SUFFICES ASSUME NEW q \in Proposals
               PROVE  /\ proposal'[q].status # "none" => proposal'[q].task \in Tasks
                      /\ \A v \in approvals'[q] : v <= version[proposal'[q].task]
    BY DEF ApprovalsAreSound
  <2>1. CASE q = p
    BY <1>1, <1>3, <2>1
  <2>2. CASE q # p
    <3>1. proposal'[q] = proposal[q] /\ approvals'[q] = approvals[q]
      BY <1>2, <2>2
    <3> QED BY <3>1 DEF FInv, ApprovalsAreSound
  <2> QED BY <2>1, <2>2
<1>7. \A q \in Proposals : InTime(q) => \E v \in approvals'[q] : v <= proposal'[q].targetVersion
  BY <1>2, <1>3 DEF InTime
<1>8. ExecutionsAreApproved'
  <2> SUFFICES ASSUME NEW g \in Handlers
               PROVE  /\ request'[g] # Idle => proposal'[request'[g].proposal].status # "none"
                      /\ request'[g].op = "judge" => approvals'[request'[g].proposal] # {}
                      /\ request'[g].op = "enqueue" =>
                            \E v \in approvals'[request'[g].proposal] :
                               v <= proposal'[request'[g].proposal].targetVersion
    BY DEF ExecutionsAreApproved, InTime
  <2>1. CASE request'[g] = Idle
    BY <2>1 DEF Idle
  <2>2. CASE request'[g] # Idle
    <3>1. request'[g] = request[g] /\ request[g] # Idle
      BY <1>4, <2>2
    <3>2. PICK q \in Proposals : q = request[g].proposal
      BY <3>1, RequestTyped
    <3>3. /\ proposal[q].status # "none"
          /\ request[g].op = "judge" => approvals[q] # {}
          /\ request[g].op = "enqueue" => InTime(q)
      BY <3>1, <3>2 DEF FInv, ExecutionsAreApproved
    <3>4. proposal'[q].status # "none"
      BY <1>2, <1>3, <3>3
    <3>5. approvals[q] # {} => approvals'[q] # {}
      OBVIOUS
    <3> QED BY <1>7, <3>1, <3>2, <3>3, <3>4, <3>5
  <2> QED BY <2>1, <2>2
<1>9. CommandIsApproved'
  BY <1>2, <1>3 DEF FInv, CommandIsApproved
<1>10. ApprovedInTime'
  BY <1>7 DEF FInv, ApprovedInTime, InTime
<1> QED BY <1>5, <1>6, <1>8, <1>9, <1>10 DEF FInv

\* Every step of a request keeps FInv.
LEMMA HandleFInv ==
    ASSUME FInv, NEW h \in Handlers, Handle(h)
    PROVE  FInv'
<1>1. ASSUME NEW p \in Proposals, BeginApprove(h, p) PROVE FInv'
  <2> DEFINE r == [op |-> "approve", proposal |-> p]
  <2>1. /\ request' = [request EXCEPT ![h] = r] /\ proposal[p].status = "pending"
        /\ UNCHANGED <<version, proposal, approvals, outcome, performed>>
    BY <1>1 DEF BeginApprove, Stage
  <2>2. r \in Requests /\ r.op = "approve" /\ r.proposal = p
    BY DEF Requests
  <2> HIDE DEF r
  <2> QED BY <2>1, <2>2, RequestMoves
<1>2. ASSUME NEW p \in Proposals, BeginExecute(h, p) PROVE FInv'
  <2> DEFINE r == [op |-> "judge", proposal |-> p]
  <2>1. /\ request' = [request EXCEPT ![h] = r] /\ proposal[p].status = "approved"
        /\ UNCHANGED <<version, proposal, approvals, outcome, performed>>
    BY <1>2 DEF BeginExecute, Stage
  <2>2. r \in Requests /\ r.op = "judge" /\ r.proposal = p
    BY DEF Requests
  <2>3. approvals[p] # {}
    BY <2>1 DEF FInv, CommandIsApproved
  <2> HIDE DEF r
  <2> QED BY <2>1, <2>2, <2>3, RequestMoves
<1>3. CASE CommitApprove(h)
  <2> DEFINE p == request[h].proposal
             now == version[proposal[p].task]
  <2>1. /\ request[h] # Idle /\ SetStatus(p, "approved") /\ Finish(h)
        /\ approvals' = [approvals EXCEPT ![p] = @ \cup {now}]
        /\ UNCHANGED <<version, outcome, performed>>
    BY <1>3 DEF CommitApprove, Idle
  <2>2. p \in Proposals /\ now \in Nat /\ approvals \in [Proposals -> SUBSET Nat]
    BY <2>1, RequestTyped DEF FInv, FocusTyped
  <2>3. \A v \in approvals[p] : v <= now
    BY <2>2 DEF FInv, ApprovalsAreSound
  <2>4. /\ approvals' \in [Proposals -> SUBSET Nat] /\ approvals'[p] = approvals[p] \cup {now}
        /\ \A q \in Proposals \ {p} : approvals'[q] = approvals[q]
    BY <2>1, <2>2
  <2>5. \A v \in approvals'[p] : v <= now
    BY <2>2, <2>3, <2>4
  <2> HIDE DEF p
  <2> QED BY <2>1, <2>4, <2>5, Resolved DEF p
<1>4. CASE Judge(h)
  <2> DEFINE p == request[h].proposal
  <2>1. /\ request[h] # Idle /\ request[h].op = "judge"
        /\ UNCHANGED <<version, approvals, outcome, performed>>
    BY <1>4 DEF Judge, Idle
  <2>2. /\ p \in Proposals /\ approvals[p] # {} /\ proposal[p].status # "none"
        /\ approvals \in [Proposals -> SUBSET Nat]
        /\ \A v \in approvals[p] : v <= version[proposal[p].task]
    BY <2>1, RequestTyped DEF FInv, FocusTyped, ExecutionsAreApproved, ApprovalsAreSound
  <2>3. CASE TargetChanged(p)
    <3>1. SetStatus(p, "superseded") /\ Finish(h)
      BY <1>4, <2>3 DEF Judge
    <3> HIDE DEF p
    <3> QED BY <2>1, <2>2, <3>1, Resolved DEF p
  <2>4. CASE ~TargetChanged(p)
    <3> DEFINE r == [op |-> "enqueue", proposal |-> p]
    <3>1. request' = [request EXCEPT ![h] = r] /\ UNCHANGED proposal
      BY <1>4, <2>4 DEF Judge, Stage
    <3>2. r \in Requests /\ r.op = "enqueue" /\ r.proposal = p
      BY <2>2 DEF Requests
    <3>3. InTime(p)
      BY <2>2, <2>4 DEF TargetChanged, InTime
    <3> HIDE DEF r, p
    <3> QED BY <2>1, <2>2, <3>1, <3>2, <3>3, RequestMoves
  <2> QED BY <2>3, <2>4
<1>5. CASE Enqueue(h)
  <2> DEFINE p == request[h].proposal
  <2>1. /\ request[h] # Idle /\ request[h].op = "enqueue"
        /\ outcome' = [outcome EXCEPT ![p] = "pending"] /\ performed' = performed
        /\ request' = [request EXCEPT ![h] = Idle]
        /\ UNCHANGED <<version, proposal, approvals>>
    BY <1>5 DEF Enqueue, External!Request, Finish, Idle
  <2>2. p \in Proposals /\ InTime(p)
    BY <2>1, RequestTyped DEF FInv, ExecutionsAreApproved
  <2> HIDE DEF p
  <2>3. /\ outcome' \in [Proposals -> External!Outcomes]
        /\ \A q \in Proposals \ {p} : outcome'[q] = outcome[q]
    BY <2>1, <2>2 DEF FInv, FocusTyped, External!Outcomes
  <2>4. request' \in [Handlers -> Requests] /\ \A g \in Handlers : request'[g] \in {Idle, request[g]}
    BY <2>1 DEF FInv, FocusTyped, Requests
  <2>5. FocusTyped'
    BY <2>1, <2>3, <2>4 DEF FInv, FocusTyped
  <2>6. ApprovalsAreSound'
    BY <2>1 DEF FInv, ApprovalsAreSound
  <2>7. ExecutionsAreApproved'
    BY <2>1, <2>4 DEF FInv, ExecutionsAreApproved, InTime, Idle
  <2>8. CommandIsApproved' /\ ApprovedInTime'
    BY <2>1, <2>2, <2>3 DEF FInv, CommandIsApproved, ApprovedInTime, InTime
  <2> QED BY <2>5, <2>6, <2>7, <2>8 DEF FInv
<1>6. CASE Fail(h)
  <2>1. Idle \in Requests /\ Idle.op = "idle"
    BY DEF Requests, Idle
  <2> QED BY <1>6, <2>1, RequestMoves DEF Fail, Finish
<1> QED BY <1>1, <1>2, <1>3, <1>4, <1>5, <1>6 DEF Handle

\* Every step keeps FInv.
LEMMA FocusStep == FInv /\ [Next]_vars => FInv'
<1> SUFFICES ASSUME FInv, [Next]_vars PROVE FInv'
  OBVIOUS
<1>1. ASSUME NEW t \in Tasks, ChangeTask(t) PROVE FInv'
  <2>1. /\ version' = [version EXCEPT ![t] = @ + 1]
        /\ UNCHANGED <<proposal, approvals, request, outcome, performed>>
    BY <1>1 DEF ChangeTask
  <2>2. version' \in [Tasks -> Nat] /\ \A u \in Tasks : version[u] \in Nat /\ version'[u] >= version[u]
    BY <2>1 DEF FInv, FocusTyped
  <2>3. ApprovalsAreSound'
    <3>1. \A p \in Proposals : approvals[p] # {} => proposal[p].task \in Tasks
      BY DEF FInv, CommandIsApproved, ApprovalsAreSound
    <3>2. \A p \in Proposals : approvals[p] \subseteq Nat
      BY DEF FInv, FocusTyped
    <3> QED BY <2>1, <2>2, <3>1, <3>2 DEF FInv, ApprovalsAreSound
  <2> QED BY <2>1, <2>2, <2>3
          DEF FInv, FocusTyped, ExecutionsAreApproved, InTime, CommandIsApproved, ApprovedInTime
<1>2. ASSUME NEW p \in Proposals, Deliver(p) PROVE FInv'
  <2>1. UNCHANGED internalVars
    BY <1>2 DEF Deliver
  <2>2. /\ outcome' \in [Proposals -> External!Outcomes] /\ performed' \subseteq Proposals
        /\ \A q \in Proposals : outcome'[q] # "absent" => outcome[q] # "absent"
        /\ \A q \in Proposals : q \in performed' => outcome[q] # "absent" \/ q \in performed
    BY <1>2 DEF FInv, FocusTyped, Deliver, External!Perform, External!Settle, External!Succeed,
                External!Fail, External!Outcomes
  <2>3. FocusTyped' /\ ApprovalsAreSound' /\ ExecutionsAreApproved'
    BY <2>1, <2>2 DEF internalVars, FInv, FocusTyped, ApprovalsAreSound, ExecutionsAreApproved, InTime
  <2>4. CommandIsApproved' /\ ApprovedInTime'
    BY <2>1, <2>2 DEF internalVars, FInv, CommandIsApproved, ApprovedInTime
  <2> QED BY <2>3, <2>4 DEF FInv
<1>3. ASSUME NEW p \in Proposals, NEW t \in Tasks, NEW v \in 1 .. MaxVersion, Propose(p, t, v)
      PROVE  FInv'
  <2> DEFINE new == [status |-> "pending", task |-> t, targetVersion |-> v]
  <2>1. /\ proposal' = [proposal EXCEPT ![p] = new]
        /\ proposal[p].status = "none"
        /\ UNCHANGED <<version, approvals, request, outcome, performed>>
    BY <1>3 DEF Propose
  <2>2. new \in ProposalRows /\ new.status = "pending" /\ new.task = t
    BY VersionAssumption DEF ProposalRows, ProposalStatuses
  <2> HIDE DEF new
  <2>3. /\ proposal' \in [Proposals -> ProposalRows] /\ proposal'[p] = new
        /\ \A q \in Proposals \ {p} : proposal'[q] = proposal[q]
    BY <2>1, <2>2 DEF FInv, FocusTyped
  <2>4. approvals[p] = {} /\ outcome[p] = "absent" /\ p \notin performed
    BY <2>1 DEF FInv, CommandIsApproved
  <2>5. ApprovalsAreSound'
    BY <2>1, <2>2, <2>3, <2>4 DEF FInv, ApprovalsAreSound
  <2>6. ExecutionsAreApproved'
    <3>1. \A h \in Handlers : request[h] # Idle => request[h].proposal \in Proposals \ {p}
      BY <2>1, RequestTyped DEF FInv, ExecutionsAreApproved
    <3>2. \A h \in Handlers : request[h].op \in {"judge", "enqueue"} => request[h] # Idle
      BY DEF Idle
    <3> QED BY <2>1, <2>3, <3>1, <3>2 DEF FInv, ExecutionsAreApproved, InTime
  <2>7. CommandIsApproved' /\ ApprovedInTime'
    BY <2>1, <2>2, <2>3, <2>4 DEF FInv, CommandIsApproved, ApprovedInTime
  <2> QED BY <2>1, <2>3, <2>5, <2>6, <2>7 DEF FInv, FocusTyped
<1>4. CASE UNCHANGED vars
  BY <1>4 DEF vars, internalVars, FInv, FocusTyped, ApprovalsAreSound, ExecutionsAreApproved, InTime,
              CommandIsApproved, ApprovedInTime
<1> QED BY <1>1, <1>2, <1>3, <1>4, HandleFInv DEF Next

\* FInv is invariant.
LEMMA FocusInvariance == Spec => []FInv
BY FocusInitially, FocusStep, PTL DEF Spec

\* Nothing goes to the provider without an approval on record, however approvals,
\* executions, failures and changes of tasks interleave (approve, execute_approved).
THEOREM OnlyApprovedCommands == Spec => []CommandIsApproved
<1>1. FInv => CommandIsApproved
  BY DEF FInv
<1> QED BY <1>1, FocusInvariance, PTL

\* When a command has gone out, an approval was granted before the task had moved on
\* from the version the proposal was bound to (approve never looks at the task;
\* execute_approved compares the versions, in a transaction of its own).
THEOREM OnlyTimelyApprovals == Spec => []ApprovedInTime
<1>1. FInv => ApprovedInTime
  BY DEF FInv
<1> QED BY <1>1, FocusInvariance, PTL
=============================================================================
