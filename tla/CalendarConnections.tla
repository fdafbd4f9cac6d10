------------------------ MODULE CalendarConnections ------------------------
(***************************************************************************)
(* Connecting a workspace to the calendar provider (calendar/router.py,    *)
(* oauth.py, connections.py).  The OAuth states live in the memory of the  *)
(* API process that issued them; a callback may reach another process,     *)
(* come twice, late, or with fewer scopes than were asked for.             *)
(***************************************************************************)
EXTENDS Integers, FiniteSets

CONSTANTS
    Workspaces,
    Processes,      \* API processes
    OAuthStates,    \* the random values that state parameters take
    Callbacks,      \* callback requests in progress at the same clock
    Ttl,            \* of a state, in ticks of the clock
    MaxClock        \* bound on the clock

VARIABLES
    clock,
    states,         \* process -> the states it has issued and not consumed
    grant,          \* state -> what it was issued for
    callback,       \* callback -> what it is doing
    exchanges,      \* state -> how often a code was exchanged for it
    connections     \* rows of calendar_connections

connectionVars == <<clock, states, grant, callback, exchanges, connections>>

ASSUME ConnectionAssumption == Ttl \in Nat \ {0} /\ MaxClock \in Nat

Modes == {"READ_ONLY", "READ_WRITE"}

AllScopes == {"calendar.readonly", "calendar.events"}

\* Mutant of ConfiguredScopes: the same scopes whatever the mode.
ReadOnlyScopes(mode) == {"calendar.readonly"}

ConfiguredScopes(mode) ==
    IF mode = "READ_WRITE" THEN AllScopes ELSE {"calendar.readonly"}

NotIssued == [workspace |-> {}, mode |-> "READ_ONLY", expires |-> 0]

NoCallback == [step |-> "idle"]

ConnectionInit ==
    /\ clock = 0
    /\ states = [p \in Processes |-> {}]
    /\ grant = [s \in OAuthStates |-> NotIssued]
    /\ callback = [c \in Callbacks |-> NoCallback]
    /\ exchanges = [s \in OAuthStates |-> 0]
    /\ connections = {}

PassTime ==
    /\ clock < MaxClock
    /\ clock' = clock + 1
    /\ UNCHANGED <<states, grant, callback, exchanges, connections>>
-----------------------------------------------------------------------------
\* create_connection: issue drops what has expired.
CreateConnection(p, s, w, mode) ==
    /\ grant[s] = NotIssued
    /\ grant' = [grant EXCEPT ![s] = [workspace |-> {w}, mode |-> mode, expires |-> clock + Ttl]]
    /\ states' = [states EXCEPT ![p] = {t \in @ : grant[t].expires > clock} \cup {s}]
    /\ UNCHANGED <<clock, callback, exchanges, connections>>

Consumed(p, s) == states[p] \ {s}

IsValid(p, s) == s \in states[p] /\ clock < grant[s].expires

\* oauth_callback begins.
ReceiveCallback(c, p, s) ==
    /\ callback[c] = NoCallback
    /\ grant[s] # NotIssued
    /\ states' = [states EXCEPT ![p] = Consumed(p, s)]
    /\ callback' = IF IsValid(p, s)
                   THEN [callback EXCEPT ![c] = [step |-> "exchange", process |-> p, state |-> s]]
                   ELSE callback
    /\ UNCHANGED <<clock, grant, exchanges, connections>>

\* exchange_authorization_code, and the check of the granted scopes.
Exchange(c) ==
    /\ callback[c].step = "exchange"
    /\ LET s == callback[c].state
       IN  /\ exchanges' = [exchanges EXCEPT ![s] = @ + 1]
           /\ \E scopes \in SUBSET AllScopes :
                 callback' = [callback EXCEPT ![c] =
                     IF ConfiguredScopes(grant[s].mode) \subseteq scopes
                     THEN [step |-> "select", process |-> @.process, state |-> s,
                           scopes |-> scopes]
                     ELSE NoCallback]
    /\ UNCHANGED <<clock, states, grant, connections>>

StoredFor(c) == {row \in connections : row.workspace = grant[callback[c].state].workspace}

\* persist_verified_connection selects the row FOR UPDATE ...
SelectConnection(c) ==
    /\ callback[c].step = "select"
    /\ \A d \in Callbacks \ {c} : callback[d].step = "update" => StoredFor(d) # StoredFor(c)
    /\ callback' = [callback EXCEPT ![c].step = IF StoredFor(c) = {} THEN "insert" ELSE "update"]
    /\ UNCHANGED <<clock, states, grant, exchanges, connections>>

Granted(c) ==
    [workspace |-> grant[callback[c].state].workspace,
     mode      |-> grant[callback[c].state].mode,
     scopes    |-> callback[c].scopes]

\* ... and updates it, or inserts one, which the unique constraint lets only
\* one of two callbacks do.
SaveConnection(c) ==
    /\ callback[c].step \in {"insert", "update"}
    /\ connections' = IF callback[c].step = "insert" /\ StoredFor(c) # {}
                      THEN connections
                      ELSE (connections \ StoredFor(c)) \cup {Granted(c)}
    /\ callback' = [callback EXCEPT ![c] = NoCallback]
    /\ UNCHANGED <<clock, states, grant, exchanges>>

\* An error of the provider or of the database ends the callback.
CallbackFails(c) ==
    /\ callback[c] # NoCallback
    /\ callback' = [callback EXCEPT ![c] = NoCallback]
    /\ UNCHANGED <<clock, states, grant, exchanges, connections>>

ProcessRestarts(p) ==
    /\ states' = [states EXCEPT ![p] = {}]
    /\ callback' = [c \in Callbacks |->
                       IF callback[c] # NoCallback /\ callback[c].process = p
                       THEN NoCallback ELSE callback[c]]
    /\ UNCHANGED <<clock, grant, exchanges, connections>>

ConnectionNext ==
    \/ PassTime
    \/ \E p \in Processes, s \in OAuthStates :
          \/ \E w \in Workspaces, mode \in Modes : CreateConnection(p, s, w, mode)
          \/ \E c \in Callbacks : ReceiveCallback(c, p, s)
    \/ \E c \in Callbacks :
          Exchange(c) \/ SelectConnection(c) \/ SaveConnection(c) \/ CallbackFails(c)
    \/ \E p \in Processes : ProcessRestarts(p)

ConnectionSpec == ConnectionInit /\ [][ConnectionNext]_connectionVars
-----------------------------------------------------------------------------
(***************************************************************************)
(* A workspace has one connection at most, and its mode is one the         *)
(* workspace asked for and its tokens are good for; no state lets a code   *)
(* be exchanged twice ("single-use state store").  Whichever callbacks     *)
(* race, come twice, late or with too little granted (oauth_callback,      *)
(* OAuthStateStore, persist_verified_connection).                          *)
(***************************************************************************)
ConnectionsAreGranted ==
    /\ \A s \in OAuthStates : exchanges[s] <= 1
    /\ \A row \in connections :
          /\ \A other \in connections : other.workspace = row.workspace => other = row
          /\ \E s \in OAuthStates :
                /\ exchanges[s] = 1
                /\ grant[s].workspace = row.workspace
                /\ grant[s].mode = row.mode
          /\ "calendar.readonly" \in row.scopes
          /\ row.mode = "READ_WRITE" => "calendar.events" \in row.scopes
=============================================================================
