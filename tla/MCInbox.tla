------------------------------- MODULE MCInbox -------------------------------
(***************************************************************************)
(* Two parts that share no state, each explored by itself: the inbox, with *)
(* its jobs and decisions, and the web client that follows the step events *)
(* of an agent operation.                                                  *)
(***************************************************************************)
EXTENDS Inbox, OperationEvents

CONSTANTS i1, i2, o1, o2, w1, w2, u1, u2, s1, s2, s3, a1

\* Two jobs for the item that is created, the fixture is only decided and marked.
MCItemOf == o1 :> i2 @@ o2 :> i2

VARIABLE part

MCInit ==
    /\ part \in {"inbox", "stream"}
    /\ Init
    /\ StreamInit

OfInbox(A) == part = "inbox" /\ A
OfStream(A) == part = "stream" /\ A

MCNext ==
    /\ UNCHANGED part
    /\ \/ OfInbox(Next) /\ UNCHANGED streamVars
       \/ OfStream(StreamNext) /\ UNCHANGED vars

\* The fairness of FairSpec and of FairStreamSpec, each for its part.
MCSpec ==
    /\ MCInit
    /\ [][MCNext]_<<part, vars, streamVars>>
    /\ \A w \in Workers : SF_vars(OfInbox(WorkerStep(w)))
    /\ \A u \in Users : WF_vars(OfInbox(CommitDecision(u)))
    /\ WF_streamVars(OfStream(Connect))
    /\ SF_streamVars(OfStream(Receive))
    /\ WF_streamVars(OfStream(End))
=============================================================================
