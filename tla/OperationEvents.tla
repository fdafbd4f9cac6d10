-------------------------- MODULE OperationEvents --------------------------
(***************************************************************************)
(* The step events of one agent operation: AgentOperationService appends   *)
(* them, the stream endpoint replays those after a cursor and closes, and  *)
(* the web client reconnects with the sequence of the last event it got,   *)
(* unless it is refused: then it gives up for good.                        *)
(*                                                                         *)
(* An append counts the events there are and inserts that count as the     *)
(* sequence of the new one, without a lock or a unique constraint.         *)
(***************************************************************************)
EXTENDS Integers, Sequences, FiniteSets

CONSTANTS
    Steps,              \* step events to be appended
    Appenders           \* append_step calls in progress at the same time

VARIABLES
    sequence,           \* of each committed event; -1 before it is committed
    counted,            \* per appender: what it counted, -1 when it is idle
    cursor,             \* client: last sequence received, -1 for none
    response,           \* replayed events on their way to the client
    connected,          \* the client is reading a response
    received,           \* events the client was handed, in order
    rejected            \* the client was answered 401 or 404

clientVars == <<cursor, response, connected, received, rejected>>

streamVars == <<sequence, counted, clientVars>>

StreamInit ==
    /\ sequence = [e \in Steps |-> -1]
    /\ counted = [a \in Appenders |-> -1]
    /\ cursor = -1
    /\ response = <<>>
    /\ connected = FALSE
    /\ received = <<>>
    /\ rejected = FALSE

Committed == {e \in Steps : sequence[e] >= 0}

---------------------------------------------------------------------------
(* Appending: _append.                                                     *)

Count(a) ==
    /\ counted[a] = -1
    /\ counted' = [counted EXCEPT ![a] = Cardinality(Committed)]
    /\ UNCHANGED <<sequence, clientVars>>

Insert(a, e) ==
    /\ counted[a] >= 0
    /\ e \notin Committed
    /\ sequence' = [sequence EXCEPT ![e] = counted[a]]
    /\ counted' = [counted EXCEPT ![a] = -1]
    /\ UNCHANGED clientVars

\* The append fails before its commit.
Drop(a) ==
    /\ counted[a] >= 0
    /\ counted' = [counted EXCEPT ![a] = -1]
    /\ UNCHANGED <<sequence, clientVars>>

---------------------------------------------------------------------------
(* Streaming: stream_operation and streamOperationEvents.                  *)

Replayed(position) == {e \in Committed : sequence[e] > position}

\* ORDER BY sequence; equal sequences come in any order.
Orders(set) ==
    {s \in [1..Cardinality(set) -> set] :
        \A i, j \in 1..Cardinality(set) :
            i < j => s[i] # s[j] /\ sequence[s[i]] <= sequence[s[j]]}

\* The client asks for what follows its cursor; the answer is fixed then.
Connect ==
    /\ ~connected
    /\ ~rejected
    /\ connected' = TRUE
    /\ response' \in Orders(Replayed(cursor))
    /\ UNCHANGED <<sequence, counted, cursor, received, rejected>>

\* The session has expired or the operation is not found: the client does not
\* reconnect.
Reject ==
    /\ ~connected
    /\ ~rejected
    /\ rejected' = TRUE
    /\ UNCHANGED <<sequence, counted, cursor, response, connected, received>>

\* Mutant of Receive: an event is skipped when the next one is there already.
ReceiveLatest ==
    /\ response # <<>>
    /\ LET next == IF Len(response) > 1 THEN Tail(response) ELSE response
       IN  /\ cursor' = sequence[Head(next)]
           /\ received' = Append(received, Head(next))
           /\ response' = Tail(next)
    /\ UNCHANGED <<sequence, counted, connected, rejected>>

Receive ==
    /\ response # <<>>
    /\ cursor' = sequence[Head(response)]
    /\ received' = Append(received, Head(response))
    /\ response' = Tail(response)
    /\ UNCHANGED <<sequence, counted, connected, rejected>>

\* Mutant of End: the client waits on a complete response for further events.
EndIfNothingYet ==
    /\ connected /\ response = <<>>
    /\ received = <<>>
    /\ connected' = FALSE
    /\ UNCHANGED <<sequence, counted, cursor, response, received, rejected>>

\* The response is complete; the client connects again after a delay.
End ==
    /\ connected /\ response = <<>>
    /\ connected' = FALSE
    /\ UNCHANGED <<sequence, counted, cursor, response, received, rejected>>

\* The connection breaks: the rest of the response is lost.
Break ==
    /\ connected
    /\ connected' = FALSE
    /\ response' = <<>>
    /\ UNCHANGED <<sequence, counted, cursor, received, rejected>>

StreamNext ==
    \/ \E a \in Appenders : Count(a) \/ Drop(a) \/ \E e \in Steps : Insert(a, e)
    \/ Connect \/ Reject \/ Receive \/ End \/ Break

StreamSpec == StreamInit /\ [][StreamNext]_streamVars

\* The client reconnects as long as it is neither aborted nor refused, and a connection is not
\* always broken before its first event.
StreamFairness == WF_streamVars(Connect) /\ SF_streamVars(Receive) /\ WF_streamVars(End)

FairStreamSpec == StreamSpec /\ StreamFairness

---------------------------------------------------------------------------
Delivered == {received[i] : i \in DOMAIN received}

\* Resuming loses nothing and repeats nothing, whatever the reconnections: what
\* lies before the cursor has been received, and nothing was received twice.
ResumeLosesNothing ==
    /\ \A e \in Committed : sequence[e] <= cursor => e \in Delivered
    /\ \A i, j \in DOMAIN received : i # j => received[i] # received[j]

\* Every event that was appended reaches the client, unless it is refused
\* (streamOperationEvents).
EventsArrive == \A e \in Steps : e \in Committed ~> e \in Delivered \/ rejected
============================================================================
