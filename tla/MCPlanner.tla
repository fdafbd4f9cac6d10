------------------------------ MODULE MCPlanner ------------------------------
(***************************************************************************)
(* Three tasks, one milestone, days of twelve units and slots of two.  All *)
(* dependency graphs are planned on one calendar (AllGraphs), and a few    *)
(* graphs on many calendars and amounts of work (ManyCalendars).           *)
(***************************************************************************)
EXTENDS Replanning, TLC

ATask == 1 .. 3
TheReview == [m \in {1} |-> 11]
TheSubmission == [m \in {1} |-> 12]

Block(s, e) == [start |-> s, end |-> e]

KeptBlock(j, s, e) == [job |-> j, start |-> s, end |-> e]

Plain ==
    [finished |-> [t \in ATask |-> FALSE],
     blocksStart |-> {}, blocksCompletion |-> {},
     now |-> 0,
     milestone |-> [t \in ATask |-> IF t = 3 THEN 1 ELSE NoMilestone],
     limit |-> [m \in {1} |-> 20], buffer |-> [m \in {1} |-> 3], required |-> [m \in {1} |-> TRUE],
     deadline |-> <<Never, 14, Never>>, timeKnown |-> <<FALSE, TRUE, FALSE>>,
     deliveries |-> {}, pinned |-> {}, priorPlan |-> <<>>, dateOnly |-> [m \in {1} |-> FALSE],
     base |-> <<3, 2, 3>>,
     safety |-> <<4, 3, 5>>,
     remainingBase |-> <<3, 2, 3>>, remainingSafety |-> <<4, 3, 5>>,
     splittable |-> <<TRUE, FALSE, TRUE>>, minChunk |-> <<4, 2, 2>>,
     startAfter |-> <<0, 0, 0>>,
     windows |-> <<Block(0, 7), Block(14, 24)>>,
     fixedEvents |-> {}, protected |-> {}, preallocated |-> {}]

Edges == {e \in ATask \X ATask : e[1] # e[2]}

AllGraphs ==
    {[Plain EXCEPT !.blocksStart = E \ C, !.blocksCompletion = E \cap C] :
        E \in SUBSET Edges, C \in {{}, {<<1, 2>>, <<2, 3>>}}}

\* The deadline is known only by its day.
DayKnown == [Plain EXCEPT !.dateOnly[1] = TRUE]

Finished(i, t) ==
    [i EXCEPT !.finished[t] = TRUE, !.remainingBase[t] = 0, !.remainingSafety[t] = 0]

Works ==
    {<<<<<<3, 2, 3>>, <<4, 3, 5>>>>, <<TRUE, FALSE, TRUE>>, <<4, 2, 2>>>>,
     <<<<<<5, 4, 7>>, <<5, 4, 7>>>>, <<TRUE, TRUE, TRUE>>, <<4, 4, 2>>>>,
     <<<<<<1, 6, 3>>, <<4, 6, 6>>>>, <<FALSE, FALSE, TRUE>>, <<2, 2, 1>>>>}

WithWork(i, w) ==
    [i EXCEPT !.base = w[1][1], !.safety = w[1][2], !.remainingBase = w[1][1], !.remainingSafety = w[1][2],
              !.splittable = w[2], !.minChunk = w[3]]

ManyCalendars ==
    {WithWork([Plain EXCEPT !.blocksStart = b, !.windows = w, !.fixedEvents = e,
                            !.startAfter = s[1], !.limit = [m \in {1} |-> s[2]]], a) :
        b \in {{}, {<<1, 2>>}, {<<2, 1>>, <<3, 1>>}},
        w \in {<<Block(0, 7), Block(14, 24)>>,
               <<Block(20, 34), Block(2, 6)>>,
               <<Block(0, 2), Block(4, 8), Block(9, 11), Block(12, 13), Block(18, 21)>>},
        e \in {{}, {Block(4, 5), Block(16, 18)}},
        s \in {<<<<0, 0, 0>>, 20>>, <<<<5, 0, 3>>, 20>>, <<<<5, 0, 3>>, Never>>},
        a \in Works}

\* One task alone, which comes back to a short stretch it has passed over.
Alone ==
    {[Finished(Finished(WithWork(Plain, a), 2), 3) EXCEPT
         !.windows = w, !.limit = [m \in {1} |-> Never]] :
        a \in Works, w \in {<<Block(0, 2), Block(3, 9)>>, <<Block(0, 2), Block(3, 9), Block(30, 31)>>}}

\* The last stretch begins on the first UTC day, whose chunks the first task
\* has used up; the second takes the part before midnight.
Crossing ==
    [Finished(WithWork(Plain, <<<<<<8, 2, 0>>, <<8, 2, 0>>>>, <<TRUE, FALSE, TRUE>>, <<2, 2, 1>>>>), 3)
        EXCEPT !.windows = <<Block(0, 2), Block(3, 5), Block(8, 16)>>, !.limit = [m \in {1} |-> Never],
               !.deadline = <<8, 14, Never>>, !.timeKnown = <<TRUE, TRUE, FALSE>>]

Delivery(t, e, f) == [affected |-> {t}, expected |-> e, uncertainty |-> 2, fallback |-> f]

Once ==
    ManyCalendars \cup Alone \cup {DayKnown, Crossing}
    \cup {Finished([Plain EXCEPT !.blocksStart = E], t) : E \in SUBSET {<<1, 2>>, <<2, 3>>, <<3, 2>>}, t \in ATask}
    \cup {[Plain EXCEPT !.now = n, !.deliveries = d] :
            n \in {0, 15}, d \in {{}, {Delivery(1, Never, TRUE)}, {Delivery(1, 8, FALSE), Delivery(3, 12, TRUE)}}}

Morning == <<Block(0, 7), Block(14, 24)>>
Evening == <<Block(4, 10), Block(12, 18), Block(24, 30)>>
Long == <<Block(0, 12), Block(24, 34)>>

Small == <<<<<<2, 2, 4>>, <<2, 2, 4>>>>, <<TRUE, FALSE, TRUE>>, <<2, 1, 2>>>>
Uneven == <<<<<<3, 3, 1>>, <<3, 3, 2>>>>, <<TRUE, TRUE, FALSE>>, <<1, 1, 1>>>>
Large == <<<<<<5, 4, 7>>, <<5, 4, 7>>>>, <<TRUE, TRUE, TRUE>>, <<4, 4, 2>>>>

Revision(elapsed, finished, pinned, windows) ==
    [elapsed |-> elapsed, finished |-> finished, pinned |-> pinned, windows |-> windows]

\* Nothing changes; time passes; work is done; tasks are pinned and the
\* calendar changes; the deadline passes.
Changes ==
    {<<Revision(0, {}, {}, Long)>>,
     <<Revision(0, {}, {}, Evening)>>,
     <<Revision(4, {2}, {}, Morning)>>,
     <<Revision(0, {}, {3}, Evening)>>,
     <<Revision(10, {}, {1}, Long)>>,
     <<Revision(2, {1}, {2}, Evening)>>}

Replanned ==
    {[request |-> WithWork([Plain EXCEPT !.blocksStart = b, !.limit = [x \in {1} |-> l[1]], !.windows = Long,
                                         !.milestone = s, !.buffer = [x \in {1} |-> l[2]]], a),
      revisions |-> c] :
        b \in {{}, {<<1, 2>>}, {<<2, 1>>, <<3, 1>>}}, a \in {Small, Uneven, Large},
        l \in {<<7, 0>>, <<20, 4>>}, s \in {<<0, 0, 1>>, <<1, 1, 1>>}, c \in Changes}

\* A horizon that has passed, a task that is done and has work left, and a
\* safety duration below the base; the second is put right by the revision.
Invalid ==
    {[request |-> i, revisions |-> <<Revision(0, {1}, {}, Long)>>] :
        i \in {[Plain EXCEPT !.now = 50], [Plain EXCEPT !.finished[1] = TRUE],
               [Plain EXCEPT !.safety[2] = 1]}}

MCScenarios ==
    {[request |-> i, revisions |-> <<>>] : i \in AllGraphs \cup Once} \cup Replanned \cup Invalid

MCInputs == {s.request : s \in MCScenarios}
=============================================================================
