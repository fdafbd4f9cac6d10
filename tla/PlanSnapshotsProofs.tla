------------------------ MODULE PlanSnapshotsProofs ------------------------
(***************************************************************************)
(* One current plan and what the views show of it and of its history, for  *)
(* any number of calls, plans, browsers and edits.                         *)
(***************************************************************************)
EXTENDS Views, TLAPS

-----------------------------------------------------------------------------
(* The plan history.                                                       *)

Stages == {"idle", "reading", "planning", "committing"}

PlanRows ==
    [exists : BOOLEAN, current : BOOLEAN, input : Nat]

Calls ==
    [stage : Stages, input : Nat, baseline : Plans \cup {None}, previous : Plans \cup {None}]

PlansTyped ==
    /\ canonical \in 0 .. MaxEdits
    /\ plan \in [Plans -> PlanRows]
    /\ caller \in [Callers -> Calls]

\* No call and no current plan is ahead of the canonical rows.
NothingFromTheFuture ==
    /\ \A c \in Callers : caller[c].input <= canonical
    /\ \A p \in Plans : plan[p].input <= canonical

CurrentExist == \A p \in Plans : plan[p].current => plan[p].exists

PInv == PlansTyped /\ NothingFromTheFuture /\ CurrentExist /\ OneCurrentPlan

\* PInv holds before the first plan.
LEMMA PlansInitially == Init => PInv
<1> SUFFICES ASSUME Init PROVE PInv
  OBVIOUS
<1> USE DEF Init, NoPlan, NoCall
<1>1. PlansTyped
  BY EditAssumption DEF PlansTyped, PlanRows, Calls, Stages
<1>2. NothingFromTheFuture /\ CurrentExist
  BY DEF NothingFromTheFuture, CurrentExist
<1>3. OneCurrentPlan
  BY DEF OneCurrentPlan, AnyPlan
<1> QED BY <1>1, <1>2, <1>3 DEF PInv

\* The rows after the commit of a call (PlanningService._create_plan): what
\* was read as current has lost is_current, the new row is there.
LEMMA CommittedRows ==
    ASSUME PInv, NEW c \in Callers, NEW new \in Plans, Commit(c, new)
    PROVE  /\ plan' \in [Plans -> PlanRows]
           /\ plan'[new] = [exists |-> TRUE, current |-> TRUE, input |-> caller[c].input]
           /\ \A p \in Plans \ {new} :
                 /\ plan'[p] \in {plan[p], [plan[p] EXCEPT !.current = FALSE]}
                 /\ ~plan'[p].current
<1> USE DEF PInv, PlansTyped
<1>1. caller[c] \in Calls /\ plan \in [Plans -> PlanRows]
  OBVIOUS
<1> DEFINE rows == Superseded(plan, caller[c].previous)
<1>2. /\ rows \in [Plans -> PlanRows]
      /\ \A p \in Plans : rows[p] \in {plan[p], [plan[p] EXCEPT !.current = FALSE]}
  BY <1>1 DEF Superseded, PlanRows
<1>3. plan' = [rows EXCEPT ![new] = [exists |-> TRUE, current |-> TRUE,
                                     input |-> caller[c].input]]
  BY DEF Commit
<1>4. \A p \in Plans \ {new} : ~plan'[p].current
  BY DEF Commit, IndexAllows
<1> HIDE DEF rows
<1>5. plan'[new] = [exists |-> TRUE, current |-> TRUE, input |-> caller[c].input]
  BY <1>2, <1>3
<1>6. \A p \in Plans \ {new} : plan'[p] = rows[p]
  BY <1>2, <1>3
<1>7. plan' \in [Plans -> PlanRows]
  BY <1>1, <1>2, <1>3 DEF PlanRows, Calls
<1> QED BY <1>2, <1>4, <1>5, <1>6, <1>7

\* What a call reads is never ahead; what it writes is a row of Calls.
LEMMA CallKeepsPInv ==
    ASSUME PInv, NEW c \in Callers, UNCHANGED <<canonical, plan>>,
           NEW row \in Calls, row.input <= canonical, Advance(c, row)
    PROVE  PInv'
<1>1. PlansTyped' /\ NothingFromTheFuture'
  BY DEF PInv, PlansTyped, NothingFromTheFuture, Advance
<1>2. CurrentExist' /\ OneCurrentPlan'
  BY DEF PInv, CurrentExist, OneCurrentPlan, AnyPlan, CurrentPlans
<1> QED BY <1>1, <1>2 DEF PInv

\* Every step of create_plan, and every edit, keeps PInv.
LEMMA PlanStep == PInv /\ [Next]_vars => PInv'
<1> SUFFICES ASSUME PInv, [Next]_vars PROVE PInv'
  OBVIOUS
<1>1. CASE Edit
  BY <1>1, EditAssumption
     DEF Edit, PInv, PlansTyped, NothingFromTheFuture, CurrentExist, OneCurrentPlan,
         AnyPlan, CurrentPlans, PlanRows, Calls
<1>2. ASSUME NEW c \in Callers, CreatePlan(c)
      PROVE  PInv'
  <2>1. caller[c] \in Calls /\ caller[c].input <= canonical /\ canonical \in Nat
    BY DEF PInv, PlansTyped, NothingFromTheFuture
  <2>2. NoCall \in Calls /\ NoCall.input <= canonical
    BY <2>1 DEF NoCall, Calls, Stages
  <2>3. CASE ReadRows(c)
    <3> DEFINE row == [NoCall EXCEPT !.stage = "reading", !.input = canonical]
    <3>1. row \in Calls /\ row.input <= canonical
      <4>1. row \in Calls
        BY <2>1, <2>2 DEF Calls, Stages
      <4>2. row.input = canonical
        BY <2>2 DEF Calls
      <4> QED BY <2>1, <4>1, <4>2
    <3>2. Advance(c, row) /\ UNCHANGED <<canonical, plan>>
      BY <2>3 DEF ReadRows
    <3> HIDE DEF row
    <3> QED BY <3>1, <3>2, CallKeepsPInv
  <2>4. CASE ReadBaseline(c)
    <3>1. PICK p \in Plans \cup {None} :
             Advance(c, [caller[c] EXCEPT !.stage = "planning", !.baseline = p])
      BY <2>4 DEF ReadBaseline
    <3>2. [caller[c] EXCEPT !.stage = "planning", !.baseline = p] \in Calls
      BY <2>1 DEF Calls, Stages
    <3> QED BY <2>1, <2>4, <3>1, <3>2, CallKeepsPInv DEF ReadBaseline, Calls
  <2>5. CASE Reject(c)
    BY <2>2, <2>5, CallKeepsPInv DEF Reject
  <2>6. CASE ReadCurrent(c)
    <3>1. PICK p \in Plans \cup {None} :
             Advance(c, [caller[c] EXCEPT !.stage = "committing", !.previous = p])
      BY <2>6 DEF ReadCurrent
    <3>2. [caller[c] EXCEPT !.stage = "committing", !.previous = p] \in Calls
      BY <2>1 DEF Calls, Stages
    <3> QED BY <2>1, <2>6, <3>1, <3>2, CallKeepsPInv DEF ReadCurrent, Calls
  <2>7. CASE Abort(c)
    BY <2>2, <2>7, CallKeepsPInv DEF Abort
  <2>8. ASSUME NEW new \in Plans, Commit(c, new)
        PROVE  PInv'
    <3>1. /\ plan' \in [Plans -> PlanRows]
          /\ plan'[new].exists /\ plan'[new].current
          /\ plan'[new].input = caller[c].input
          /\ \A p \in Plans \ {new} : /\ plan'[p].input = plan[p].input
                                      /\ ~plan'[p].current
      <4>1. plan \in [Plans -> PlanRows]
        BY DEF PInv, PlansTyped
      <4>2. /\ plan' \in [Plans -> PlanRows]
            /\ plan'[new] = [exists |-> TRUE, current |-> TRUE, input |-> caller[c].input]
            /\ \A p \in Plans \ {new} :
                  /\ plan'[p] \in {plan[p], [plan[p] EXCEPT !.current = FALSE]}
                  /\ ~plan'[p].current
        BY <2>8, CommittedRows
      <4>3. plan'[new].exists /\ plan'[new].current /\ plan'[new].input = caller[c].input
        BY <4>2
      <4>4. \A p \in Plans \ {new} : plan'[p].input = plan[p].input
        BY <4>1, <4>2 DEF PlanRows
      <4> QED BY <4>2, <4>3, <4>4
    <3>2. caller' = [caller EXCEPT ![c] = NoCall] /\ canonical' = canonical
      BY <2>8 DEF Commit, Advance
    <3>3. PlansTyped' /\ NothingFromTheFuture'
      BY <2>1, <2>2, <3>1, <3>2 DEF PInv, PlansTyped, NothingFromTheFuture
    <3>4. CurrentExist'
      BY <3>1 DEF CurrentExist
    <3>5. OneCurrentPlan'
      BY <3>1 DEF OneCurrentPlan, CurrentPlans
    <3> QED BY <3>3, <3>4, <3>5 DEF PInv
  <2> QED BY <1>2, <2>3, <2>4, <2>5, <2>6, <2>7, <2>8 DEF CreatePlan
<1>3. CASE UNCHANGED vars
  BY <1>3 DEF vars, PInv, PlansTyped, NothingFromTheFuture, CurrentExist, OneCurrentPlan,
              AnyPlan, CurrentPlans
<1> QED BY <1>1, <1>2, <1>3 DEF Next

\* PInv is invariant.
LEMMA PlanInvariance == Spec => []PInv
BY PlansInitially, PlanStep, PTL DEF Spec

\* However many calls race, a workspace with plans has one current plan
\* (uq_plan_snapshots_one_current_per_workspace).
THEOREM AlwaysOneCurrentPlan == Spec => []OneCurrentPlan
<1>1. PInv => OneCurrentPlan
  BY DEF PInv
<1> QED BY <1>1, PlanInvariance, PTL

\* A step loses nothing of a stored plan but is_current.
LEMMA HistoryStep ==
    ASSUME PInv, [Next]_vars, NEW p \in Plans, plan[p].exists
    PROVE  plan'[p] \in {plan[p], [plan[p] EXCEPT !.current = FALSE]}
<1>1. ASSUME NEW c \in Callers, NEW new \in Plans, Commit(c, new)
      PROVE  plan'[p] \in {plan[p], [plan[p] EXCEPT !.current = FALSE]}
  <2>1. p # new
    BY <1>1 DEF Commit
  <2> QED BY <1>1, <2>1, CommittedRows
<1>2. CASE UNCHANGED plan
  BY <1>2
<1> QED BY <1>1, <1>2
        DEF Next, vars, Edit, CreatePlan, ReadRows, ReadBaseline, Reject, ReadCurrent, Abort

-----------------------------------------------------------------------------
(* The views.                                                              *)

Tables ==
    {"workspace", "plan", "events", "tasks", "candidates", "workstreams", "milestones",
     "dependencies", "connections", "sessions", "proposals"}

Reads ==
    [plan : Plans \cup {None}, known : SUBSET Plans, oldest : 0 .. MaxEdits,
     newest : 0 .. MaxEdits, tasks : 0 .. MaxEdits]

Requested == [view : DOMAIN Statements, todo : Seq(Tables), read : Reads]

Shown ==
    [planned : BOOLEAN, plan : Plans \cup {None}, known : SUBSET Plans, rows : 0 .. MaxEdits]

ViewsTyped ==
    /\ request \in [Readers -> Requested \cup {NoRequest}]
    /\ shown \in [Readers -> Shown]

IsAsked(r) == request[r] # NoRequest

InTodo(r, table) == \E i \in 1 .. Len(request[r].todo) : request[r].todo[i] = table

\* What is to be read: no tasks before the plan.
TasksAreLast(todo) ==
    \A i, j \in 1 .. Len(todo) : i < j => ~(todo[i] = "tasks" /\ todo[j] = "plan")

IsDrawnFromPlan(r) == request[r].view \in {"today", "calendar"}

\* Tasks are read after the plan, and so after what the plan was made from.
TasksComeAfterPlan(r) ==
    LET read == request[r].read
    IN  /\ IsDrawnFromPlan(r) =>
              /\ TasksAreLast(request[r].todo)
              /\ InTodo(r, "plan") => read.tasks = MaxEdits
              /\ read.plan # None => plan[read.plan].input <= read.tasks
        /\ read.plan # None => plan[read.plan].exists

\* Of the plans that existed at some time, only the one that was current then
\* can be current now; there was none only if none existed.
StillFollows(current, known) ==
    /\ known \subseteq Existing
    /\ CurrentPlans \cap known \subseteq {current}
    /\ current # None => plan[current].exists
    /\ current = None => known = {}

\* What has been shown is overtaken only by newer plans and newer rows.
ShownLasts(r) ==
    /\ shown[r].rows <= canonical
    /\ shown[r].planned = TRUE => StillFollows(shown[r].plan, shown[r].known)

\* What is being read goes on from what was shown.
GoesOn(r, current) ==
    shown[r].planned = TRUE =>
        \/ current = shown[r].plan
        \/ current \notin shown[r].known \cup {None}

ReadLasts(r) ==
    LET read == request[r].read
    IN  /\ read.newest <= canonical
        /\ read.oldest >= shown[r].rows
        /\ IsPlanned(r) /\ ~InTodo(r, "plan") =>
              StillFollows(read.plan, read.known) /\ GoesOn(r, read.plan)

NothingIsOvertaken ==
    \A r \in Readers :
        /\ ShownLasts(r)
        /\ IsAsked(r) => TasksComeAfterPlan(r) /\ ReadLasts(r)

VInv == PInv /\ ViewsTyped /\ NothingIsOvertaken

\* The types of what a browser was shown and of what it reads.
LEMMA FieldsTyped ==
    ASSUME ViewsTyped, NEW r \in Readers
    PROVE  /\ shown[r] \in Shown
           /\ shown[r].planned \in BOOLEAN
           /\ shown[r].plan \in Plans \cup {None} /\ shown[r].known \in SUBSET Plans
           /\ shown[r].rows \in Nat
           /\ IsAsked(r) =>
                 /\ request[r] \in Requested
                 /\ request[r].view \in DOMAIN Statements
                 /\ request[r].todo \in Seq(Tables)
                 /\ request[r].read \in Reads
                 /\ request[r].read.plan \in Plans \cup {None}
                 /\ request[r].read.known \in SUBSET Plans
                 /\ request[r].read.oldest \in Nat /\ request[r].read.newest \in Nat
                 /\ request[r].read.tasks \in Nat
<1>1. shown[r] \in Shown
  BY DEF ViewsTyped
<1>2. /\ shown[r].planned \in BOOLEAN
      /\ shown[r].plan \in Plans \cup {None} /\ shown[r].known \in SUBSET Plans
      /\ shown[r].rows \in Nat
  BY <1>1, EditAssumption DEF Shown
<1>3. ASSUME IsAsked(r)
      PROVE  /\ request[r] \in Requested
             /\ request[r].view \in DOMAIN Statements
             /\ request[r].todo \in Seq(Tables)
             /\ request[r].read \in Reads
  BY <1>3 DEF IsAsked, ViewsTyped, Requested
<1>4. \A read \in Reads :
         /\ read.plan \in Plans \cup {None} /\ read.known \in SUBSET Plans
         /\ read.oldest \in Nat /\ read.newest \in Nat /\ read.tasks \in Nat
  BY EditAssumption DEF Reads
<1> QED BY <1>1, <1>2, <1>3, <1>4

\* The two properties of the views follow from VInv.
LEMMA ViewsFollow == VInv => TasksFollowTheirPlan /\ ViewsNeverGoBack
<1> SUFFICES ASSUME VInv PROVE TasksFollowTheirPlan /\ ViewsNeverGoBack
  OBVIOUS
<1>1. ASSUME NEW r \in Readers, HasRead(r)
      PROVE  IsAsked(r) /\ ~InTodo(r, "plan") /\ TasksComeAfterPlan(r) /\ ReadLasts(r)
  <2>1. IsAsked(r) /\ request[r].todo = <<>>
    BY <1>1 DEF HasRead, IsAsked
  <2>2. ~InTodo(r, "plan")
    BY <2>1 DEF InTodo
  <2> QED BY <2>1, <2>2 DEF VInv, NothingIsOvertaken
<1>2. TasksFollowTheirPlan
  <2> SUFFICES ASSUME NEW r \in Readers, HasRead(r), request[r].view \in {"today", "calendar"},
                      request[r].read.plan # None
               PROVE  request[r].read.tasks >= plan[request[r].read.plan].input
    BY DEF TasksFollowTheirPlan
  <2> DEFINE read == request[r].read
  <2>1. plan[read.plan].input <= read.tasks
    BY <1>1 DEF TasksComeAfterPlan, IsDrawnFromPlan
  <2>2. read.plan \in Plans /\ read.tasks \in Nat
    BY <1>1, FieldsTyped DEF VInv
  <2>3. plan[read.plan].input \in Nat
    BY <2>2 DEF VInv, PInv, PlansTyped, PlanRows
  <2> QED BY <2>1, <2>2, <2>3
<1>3. ViewsNeverGoBack
  <2> SUFFICES ASSUME NEW r \in Readers, HasRead(r)
               PROVE  /\ request[r].read.oldest >= shown[r].rows
                      /\ IsPlanned(r) /\ shown[r].planned =>
                            \/ request[r].read.plan = shown[r].plan
                            \/ request[r].read.plan \notin shown[r].known \cup {None}
    BY DEF ViewsNeverGoBack
  <2>1. request[r].read.oldest >= shown[r].rows
    BY <1>1 DEF ReadLasts
  <2>2. IsPlanned(r) => GoesOn(r, request[r].read.plan)
    BY <1>1 DEF ReadLasts
  <2>3. shown[r].planned \in BOOLEAN
    BY FieldsTyped DEF VInv
  <2> QED BY <2>1, <2>2, <2>3 DEF GoesOn
<1> QED BY <1>2, <1>3

-----------------------------------------------------------------------------
\* No stored plan is lost, changed or made current again, and edits only add.
LEMMA PlansOnlyGrow ==
    ASSUME PInv, [Next]_vars
    PROVE  /\ canonical <= canonical'
           /\ \A p \in Plans : plan[p].exists =>
                 /\ plan'[p].exists /\ plan'[p].input = plan[p].input
                 /\ plan'[p].current => plan[p].current
<1>1. canonical <= canonical'
  <2>1. canonical' = canonical \/ canonical' = canonical + 1
    BY DEF Next, vars, Edit, CreatePlan, ReadRows, ReadBaseline, Reject, ReadCurrent, Commit,
           Abort
  <2>2. canonical \in Nat
    BY EditAssumption DEF PInv, PlansTyped
  <2> QED BY <2>1, <2>2
<1>2. ASSUME NEW p \in Plans, plan[p].exists
      PROVE  /\ plan'[p].exists /\ plan'[p].input = plan[p].input
             /\ plan'[p].current => plan[p].current
  <2>1. plan'[p] \in {plan[p], [plan[p] EXCEPT !.current = FALSE]}
    BY <1>2, HistoryStep
  <2>2. plan[p] \in PlanRows
    BY DEF PInv, PlansTyped
  <2> QED BY <1>2, <2>1, <2>2 DEF PlanRows
<1> QED BY <1>1, <1>2

\* Plans and edits leave a browser with what it has read and was shown.
LEMMA PlanStepKeepsVInv ==
    ASSUME VInv, [Next]_vars, UNCHANGED <<request, shown>>
    PROVE  VInv'
<1>1. PInv'
  BY PlanStep DEF VInv
<1>2. ViewsTyped'
  BY DEF VInv, ViewsTyped
<1>3. canonical \in Nat /\ canonical' \in Nat /\ canonical <= canonical'
  BY <1>1, EditAssumption, PlansOnlyGrow DEF VInv, PInv, PlansTyped
<1>4. ASSUME NEW r \in Readers PROVE ShownLasts(r)'
  <2>1. ShownLasts(r) /\ shown'[r] = shown[r]
    BY DEF VInv, NothingIsOvertaken
  <2>2. shown[r].rows <= canonical'
    BY <1>3, <2>1, FieldsTyped DEF VInv, ShownLasts
  <2>3. ASSUME shown[r].planned = TRUE
        PROVE  StillFollows(shown[r].plan, shown[r].known)'
    <3>1. StillFollows(shown[r].plan, shown[r].known)
      BY <2>1, <2>3 DEF ShownLasts
    <3>2. StillFollows(shown[r].plan, shown[r].known)'
      BY <3>1, FieldsTyped, PlansOnlyGrow
         DEF VInv, StillFollows, Existing, CurrentPlans
    <3> QED BY <3>2
  <2> QED BY <2>1, <2>2, <2>3 DEF ShownLasts
<1>5. ASSUME NEW r \in Readers, IsAsked(r)' PROVE TasksComeAfterPlan(r)'
  <2>1. IsAsked(r) /\ TasksComeAfterPlan(r) /\ request'[r] = request[r]
    BY <1>5 DEF VInv, NothingIsOvertaken, IsAsked
  <2>2. request[r].read.plan \in Plans \cup {None}
    BY <2>1, FieldsTyped DEF VInv
  <2>3. request[r].read.plan # None =>
           /\ plan'[request[r].read.plan].exists
           /\ plan'[request[r].read.plan].input = plan[request[r].read.plan].input
    BY <2>1, <2>2, PlansOnlyGrow DEF VInv, TasksComeAfterPlan
  <2> QED BY <2>1, <2>3 DEF TasksComeAfterPlan, IsDrawnFromPlan, InTodo
<1>6. ASSUME NEW r \in Readers, IsAsked(r)' PROVE ReadLasts(r)'
  <2>1. IsAsked(r) /\ ReadLasts(r) /\ request'[r] = request[r] /\ shown'[r] = shown[r]
    BY <1>6 DEF VInv, NothingIsOvertaken, IsAsked
  <2>2. request[r].read.newest <= canonical'
    BY <1>3, <2>1, FieldsTyped DEF VInv, ReadLasts
  <2>3. ASSUME IsPlanned(r), ~InTodo(r, "plan")
        PROVE  StillFollows(request[r].read.plan, request[r].read.known)'
    <3>1. StillFollows(request[r].read.plan, request[r].read.known)
      BY <2>1, <2>3 DEF ReadLasts
    <3> QED BY <2>1, <3>1, FieldsTyped, PlansOnlyGrow
            DEF VInv, StillFollows, Existing, CurrentPlans
  <2>4. (IsPlanned(r)' <=> IsPlanned(r)) /\ (InTodo(r, "plan")' <=> InTodo(r, "plan"))
    BY <2>1 DEF IsPlanned, InTodo
  <2>5. GoesOn(r, request[r].read.plan)' <=> GoesOn(r, request[r].read.plan)
    BY <2>1 DEF GoesOn
  <2> QED BY <2>1, <2>2, <2>3, <2>4, <2>5 DEF ReadLasts
<1> QED BY <1>1, <1>2, <1>4, <1>5, <1>6 DEF VInv, NothingIsOvertaken

-----------------------------------------------------------------------------
\* A browser that does not act keeps what it has read and was shown.
LEMMA OthersKeepVInv ==
    ASSUME VInv, UNCHANGED vars, NEW b \in Readers,
           ViewsTyped',
           \A r \in Readers \ {b} : request'[r] = request[r] /\ shown'[r] = shown[r],
           ShownLasts(b)', IsAsked(b)' => TasksComeAfterPlan(b)' /\ ReadLasts(b)'
    PROVE  VInv'
<1>1. PInv'
  BY DEF VInv, vars, PInv, PlansTyped, NothingFromTheFuture, CurrentExist, OneCurrentPlan,
         AnyPlan, CurrentPlans
<1>2. ASSUME NEW r \in Readers \ {b}
      PROVE  ShownLasts(r)' /\ (IsAsked(r)' => TasksComeAfterPlan(r)' /\ ReadLasts(r)')
  <2>1. ShownLasts(r) /\ (IsAsked(r) => TasksComeAfterPlan(r) /\ ReadLasts(r))
    BY DEF VInv, NothingIsOvertaken
  <2>2. request'[r] = request[r] /\ shown'[r] = shown[r] /\ plan' = plan /\ canonical' = canonical
    BY DEF vars
  <2>3. ShownLasts(r)'
    BY <2>1, <2>2 DEF ShownLasts, StillFollows, Existing, CurrentPlans
  <2>4. ASSUME IsAsked(r)' PROVE TasksComeAfterPlan(r)' /\ ReadLasts(r)'
    BY <2>1, <2>2, <2>4
       DEF IsAsked, TasksComeAfterPlan, ReadLasts, GoesOn, IsPlanned, IsDrawnFromPlan, InTodo,
           StillFollows, Existing, CurrentPlans
  <2> QED BY <2>3, <2>4
<1> QED BY <1>1, <1>2 DEF VInv, NothingIsOvertaken

\* The statements of the views are sequences of tables; Today and the calendar
\* read the plan before the tasks, and all but the inbox read it.
LEMMA StatementsTyped ==
    ASSUME NEW view \in DOMAIN Statements
    PROVE  /\ Statements[view] \in Seq(Tables)
           /\ view \in {"today", "calendar"} => TasksAreLast(Statements[view])
           /\ view # "inbox" =>
                 \E i \in 1 .. Len(Statements[view]) : Statements[view][i] = "plan"
<1> USE DEF Statements, Tables
<1>1. CASE view = "today"
  BY <1>1 DEF TodayReads, TasksAreLast
<1>2. CASE view = "calendar"
  BY <1>2 DEF CalendarReads, TasksAreLast
<1>3. CASE view = "inbox"
  BY <1>3 DEF InboxReads
<1>4. CASE view = "projects"
  BY <1>4 DEF ProjectRowsReads
<1>5. CASE view = "detail"
  BY <1>5 DEF ProjectDetailReads, ProjectRowsReads
<1>6. CASE view = "review"
  BY <1>6 DEF ReviewReads
<1> QED BY <1>1, <1>2, <1>3, <1>4, <1>5, <1>6

\* BeginView: nothing has been read, nothing is left out.
LEMMA BeginKeepsVInv ==
    ASSUME VInv, NEW r \in Readers, NEW view \in DOMAIN Statements, BeginView(r, view)
    PROVE  VInv'
<1>1. request'[r] = [view |-> view, todo |-> Statements[view], read |-> NothingRead]
  BY DEF BeginView, VInv, ViewsTyped
<1>2. NothingRead \in Reads
  BY EditAssumption DEF NothingRead, Reads
<1>3. request'[r] \in Requested
  BY <1>1, <1>2, StatementsTyped DEF Requested
<1>4. ViewsTyped'
  BY <1>3 DEF BeginView, VInv, ViewsTyped
<1>5. ShownLasts(r)'
  BY DEF BeginView, vars, VInv, NothingIsOvertaken, ShownLasts, StillFollows, Existing,
         CurrentPlans
<1>6. TasksComeAfterPlan(r)'
  BY <1>1, StatementsTyped
     DEF TasksComeAfterPlan, IsDrawnFromPlan, InTodo, NothingRead
<1>7. ReadLasts(r)'
  <2>1. 0 <= canonical /\ MaxEdits >= shown[r].rows
    BY FieldsTyped, EditAssumption DEF VInv, PInv, PlansTyped, ViewsTyped, Shown
  <2>2. IsPlanned(r)' => InTodo(r, "plan")'
    BY <1>1, StatementsTyped DEF IsPlanned, InTodo
  <2> QED BY <1>1, <2>1, <2>2 DEF BeginView, vars, ReadLasts, NothingRead
<1> QED BY <1>4, <1>5, <1>6, <1>7, OthersKeepVInv DEF BeginView, VInv, ViewsTyped

\* What is left to read after the next statement.
LEMMA TailOfTodo ==
    ASSUME NEW todo \in Seq(Tables), todo # <<>>
    PROVE  /\ Tail(todo) \in Seq(Tables)
           /\ Len(todo) \in Nat \ {0} /\ Len(Tail(todo)) = Len(todo) - 1
           /\ \A i \in 1 .. Len(Tail(todo)) : i + 1 \in 1 .. Len(todo) /\ Tail(todo)[i] = todo[i + 1]
           /\ Head(todo) = todo[1] /\ 1 \in 1 .. Len(todo)
           /\ TasksAreLast(todo) => TasksAreLast(Tail(todo))
<1>1. /\ Tail(todo) \in Seq(Tables)
      /\ Len(todo) \in Nat \ {0} /\ Len(Tail(todo)) = Len(todo) - 1
      /\ \A i \in 1 .. Len(Tail(todo)) : i + 1 \in 1 .. Len(todo) /\ Tail(todo)[i] = todo[i + 1]
      /\ Head(todo) = todo[1] /\ 1 \in 1 .. Len(todo)
  OBVIOUS
<1>2. TasksAreLast(todo) => TasksAreLast(Tail(todo))
  BY <1>1 DEF TasksAreLast
<1> QED BY <1>1, <1>2

\* ReadPlan: the current plan is read, or there is none.
LEMMA ReadPlanKeepsVInv ==
    ASSUME VInv, NEW r \in Readers, ReadPlan(r)
    PROVE  VInv'
<1> DEFINE read == request[r].read
<1>1. /\ IsAsked(r) /\ request[r].todo # <<>> /\ Head(request[r].todo) = "plan"
      /\ UNCHANGED <<vars, shown>>
  BY DEF ReadPlan, IsAsked, ToRead
<1>2. /\ request[r] \in Requested /\ request[r].todo \in Seq(Tables) /\ read \in Reads
      /\ request[r].view \in DOMAIN Statements
      /\ ShownLasts(r) /\ TasksComeAfterPlan(r) /\ ReadLasts(r)
  BY <1>1, FieldsTyped DEF VInv, NothingIsOvertaken
<1>3. PICK p \in IF ShownPlans = {} THEN {None} ELSE ShownPlans :
         Proceed(r, [read EXCEPT !.plan = p, !.known = Existing],
                 IF request[r].view = "today" /\ p = None THEN <<"events">>
                                                          ELSE Tail(request[r].todo))
  BY DEF ReadPlan
<1> DEFINE todo == IF request[r].view = "today" /\ p = None THEN <<"events">>
                                                            ELSE Tail(request[r].todo)
<1>4. request' = [request EXCEPT ![r] =
                    [view |-> @.view, todo |-> todo,
                     read |-> [read EXCEPT !.plan = p, !.known = Existing]]]
  BY <1>3 DEF Proceed
<1>5. request'[r] = [view |-> request[r].view, todo |-> todo,
                     read |-> [read EXCEPT !.plan = p, !.known = Existing]]
  BY <1>4 DEF VInv, ViewsTyped
<1>6. /\ todo \in Seq(Tables)
      /\ TasksAreLast(request[r].todo) => TasksAreLast(todo)
  <2>1. <<"events">> \in Seq(Tables) /\ TasksAreLast(<<"events">>)
    BY DEF Tables, TasksAreLast
  <2> QED BY <1>1, <1>2, <2>1, TailOfTodo
<1> HIDE DEF todo
<1>7. p \in CurrentPlans \/ (p = None /\ CurrentPlans = {})
  BY <1>3 DEF ShownPlans
<1>8. p \in Plans \cup {None} /\ Existing \in SUBSET Plans
  BY <1>7 DEF CurrentPlans, Existing
<1>9. StillFollows(p, Existing)
  BY <1>7, PlanAssumption
     DEF VInv, PInv, OneCurrentPlan, AnyPlan, CurrentExist, StillFollows, Existing, CurrentPlans
<1>10. GoesOn(r, p)
  <2> SUFFICES ASSUME shown[r].planned = TRUE, p # shown[r].plan
               PROVE  p \notin shown[r].known \cup {None}
    BY DEF GoesOn
  <2>1. StillFollows(shown[r].plan, shown[r].known)
    BY <1>2 DEF ShownLasts
  <2>2. shown[r].plan \in Plans \cup {None}
    BY FieldsTyped DEF VInv
  <2>3. p # None
    BY <1>9, <2>1, <2>2 DEF StillFollows, Existing
  <2> QED BY <1>7, <2>1, <2>3 DEF StillFollows
<1> DEFINE new == [read EXCEPT !.plan = p, !.known = Existing]
<1>11. /\ new \in Reads /\ new.plan = p /\ new.known = Existing
       /\ new.tasks = read.tasks /\ new.oldest = read.oldest /\ new.newest = read.newest
  BY <1>2, <1>8 DEF Reads
<1>12. request'[r] = [view |-> request[r].view, todo |-> todo, read |-> new]
  BY <1>5
<1> HIDE DEF new
<1>13. /\ request'[r].todo = todo /\ read'.plan = p /\ read'.known = Existing
       /\ read'.tasks = read.tasks /\ read'.oldest = read.oldest /\ read'.newest = read.newest
  BY <1>11, <1>12
<1>14. ViewsTyped'
  <2>1. request'[r] \in Requested
    BY <1>2, <1>6, <1>11, <1>12 DEF Requested
  <2> QED BY <1>1, <1>4, <1>5, <2>1 DEF VInv, ViewsTyped
<1>15. ShownLasts(r)'
  BY <1>1, <1>2 DEF vars, ShownLasts, StillFollows, Existing, CurrentPlans
<1>16. TasksComeAfterPlan(r)'
  <2>1. InTodo(r, "plan")
    BY <1>1, <1>2, TailOfTodo DEF InTodo
  <2>2. IsDrawnFromPlan(r) => TasksAreLast(todo) /\ read.tasks = MaxEdits
    BY <1>2, <1>6, <2>1 DEF TasksComeAfterPlan
  <2>3. p # None => plan[p].exists /\ plan[p].input <= MaxEdits
    BY <1>7, EditAssumption
       DEF CurrentPlans, VInv, PInv, PlansTyped, PlanRows, NothingFromTheFuture, CurrentExist
  <2>4. (IsDrawnFromPlan(r)' <=> IsDrawnFromPlan(r)) /\ plan' = plan
    BY <1>1, <1>5 DEF IsDrawnFromPlan, vars
  <2>5. IsDrawnFromPlan(r)' =>
           /\ TasksAreLast(request[r].todo)'
           /\ read'.tasks = MaxEdits
           /\ read'.plan # None => plan'[read'.plan].input <= read'.tasks
    BY <1>13, <2>2, <2>3, <2>4
  <2>6. read'.plan # None => plan'[read'.plan].exists
    BY <1>13, <2>3, <2>4
  <2> QED BY <2>5, <2>6 DEF TasksComeAfterPlan
<1>17. ReadLasts(r)'
  <2>1. StillFollows(p, Existing)' /\ GoesOn(r, p)' /\ Existing' = Existing
    BY <1>1, <1>9, <1>10 DEF vars, StillFollows, GoesOn, Existing, CurrentPlans
  <2>2. read'.newest <= canonical' /\ read'.oldest >= shown'[r].rows
    BY <1>1, <1>2, <1>13 DEF vars, ReadLasts
  <2>3. StillFollows(read.plan, read.known)' /\ GoesOn(r, read.plan)'
    BY <1>1, <1>13, <2>1 DEF vars, StillFollows, GoesOn, Existing, CurrentPlans
  <2> QED BY <2>2, <2>3 DEF ReadLasts
<1> QED BY <1>1, <1>4, <1>14, <1>15, <1>16, <1>17, OthersKeepVInv DEF VInv, ViewsTyped

\* ReadTable: rows are read as they are now, tasks not before the plan.
LEMMA ReadTableKeepsVInv ==
    ASSUME VInv, NEW r \in Readers, ReadTable(r)
    PROVE  VInv'
<1> DEFINE read == request[r].read
           new == RowsRead(read, ToRead(r))
<1>1. /\ IsAsked(r) /\ request[r].todo # <<>> /\ ToRead(r) # "plan"
      /\ ToRead(r) = Head(request[r].todo) /\ UNCHANGED <<vars, shown>>
  BY DEF ReadTable, IsAsked, ToRead
<1>2. /\ request[r] \in Requested /\ request[r].todo \in Seq(Tables) /\ read \in Reads
      /\ request[r].view \in DOMAIN Statements /\ read.plan \in Plans \cup {None}
      /\ read.oldest \in Nat /\ read.newest \in Nat /\ read.tasks \in Nat
      /\ shown[r].rows \in Nat
      /\ ShownLasts(r) /\ TasksComeAfterPlan(r) /\ ReadLasts(r)
  BY <1>1, FieldsTyped DEF VInv, NothingIsOvertaken
<1>3. canonical \in Nat /\ canonical \in 0 .. MaxEdits
  BY EditAssumption DEF VInv, PInv, PlansTyped
<1>4. request' = [request EXCEPT ![r] = [view |-> @.view, todo |-> Tail(request[r].todo),
                                         read |-> new]]
  BY DEF ReadTable, Proceed
<1>5. request'[r] = [view |-> request[r].view, todo |-> Tail(request[r].todo), read |-> new]
  BY <1>4 DEF VInv, ViewsTyped
<1>6. /\ new \in Reads /\ new.plan = read.plan /\ new.known = read.known
      /\ new.oldest \in {read.oldest, canonical} /\ new.newest \in {read.newest, canonical}
      /\ new.tasks \in {read.tasks, canonical}
      /\ ToRead(r) # "tasks" => new.tasks = read.tasks
  BY <1>2, <1>3 DEF RowsRead, Reads
<1> HIDE DEF new
<1>7. /\ request'[r].todo = Tail(request[r].todo) /\ read'.plan = read.plan
      /\ read'.known = read.known /\ read'.oldest = new.oldest /\ read'.newest = new.newest
      /\ read'.tasks = new.tasks /\ request'[r].view = request[r].view
  BY <1>5, <1>6
<1>8. ViewsTyped'
  <2>1. request'[r] \in Requested
    BY <1>1, <1>2, <1>5, <1>6, TailOfTodo DEF Requested
  <2> QED BY <1>1, <1>4, <1>5, <2>1 DEF VInv, ViewsTyped
<1>9. ShownLasts(r)'
  BY <1>1, <1>2 DEF vars, ShownLasts, StillFollows, Existing, CurrentPlans
\* Only the statement that has been run has left what is to be read.
<1>10. InTodo(r, "plan")' <=> InTodo(r, "plan")
  <2>1. InTodo(r, "plan")' => InTodo(r, "plan")
    BY <1>1, <1>2, <1>7, TailOfTodo DEF InTodo
  <2>2. ASSUME InTodo(r, "plan") PROVE InTodo(r, "plan")'
    <3>1. PICK i \in 1 .. Len(request[r].todo) : request[r].todo[i] = "plan"
      BY <2>2 DEF InTodo
    <3>2. i # 1
      BY <1>1, <1>2, <3>1, TailOfTodo
    <3>3. i - 1 \in 1 .. Len(Tail(request[r].todo)) /\ Tail(request[r].todo)[i - 1] = "plan"
      BY <1>1, <1>2, <3>1, <3>2, TailOfTodo
    <3> QED BY <1>7, <3>3 DEF InTodo
  <2> QED BY <2>1, <2>2
<1>11. TasksComeAfterPlan(r)'
  <2>1. (IsDrawnFromPlan(r)' <=> IsDrawnFromPlan(r)) /\ plan' = plan
    BY <1>1, <1>7 DEF IsDrawnFromPlan, vars
  <2>2. IsDrawnFromPlan(r) => TasksAreLast(request[r].todo) /\ TasksAreLast(request[r].todo)'
    BY <1>1, <1>2, <1>7, TailOfTodo DEF TasksComeAfterPlan, TasksAreLast
  <2>3. ASSUME IsDrawnFromPlan(r), InTodo(r, "plan") PROVE read'.tasks = MaxEdits
    <3>1. PICK i \in 1 .. Len(request[r].todo) : request[r].todo[i] = "plan"
      BY <2>3 DEF InTodo
    <3>2. i # 1 /\ ToRead(r) = request[r].todo[1] /\ 1 \in 1 .. Len(request[r].todo)
      BY <1>1, <1>2, <3>1, TailOfTodo
    <3>3. ToRead(r) # "tasks"
      BY <2>2, <2>3, <3>1, <3>2 DEF TasksAreLast
    <3> QED BY <1>2, <1>6, <1>7, <2>3, <3>3 DEF TasksComeAfterPlan
  <2>4. ASSUME IsDrawnFromPlan(r), read.plan # None PROVE plan[read.plan].input <= read'.tasks
    <3>1. plan[read.plan].input <= read.tasks /\ plan[read.plan].input <= canonical
      BY <1>2, <2>4 DEF TasksComeAfterPlan, VInv, PInv, NothingFromTheFuture
    <3> QED BY <1>6, <1>7, <3>1
  <2>5. read.plan # None => plan[read.plan].exists
    BY <1>2 DEF TasksComeAfterPlan
  <2> QED BY <1>7, <1>10, <2>1, <2>2, <2>3, <2>4, <2>5 DEF TasksComeAfterPlan
<1>12. ReadLasts(r)'
  <2>1. read'.newest <= canonical' /\ read'.oldest >= shown'[r].rows
    BY <1>1, <1>2, <1>3, <1>6, <1>7 DEF vars, ReadLasts, ShownLasts
  <2>2. IsPlanned(r)' <=> IsPlanned(r)
    BY <1>7 DEF IsPlanned
  <2>3. ASSUME IsPlanned(r), ~InTodo(r, "plan")
        PROVE  StillFollows(read.plan, read.known)' /\ GoesOn(r, read.plan)'
    BY <1>1, <1>2, <1>7, <2>3
       DEF vars, ReadLasts, StillFollows, GoesOn, Existing, CurrentPlans
  <2> QED BY <1>10, <2>1, <2>2, <2>3 DEF ReadLasts
<1> QED BY <1>1, <1>4, <1>8, <1>9, <1>11, <1>12, OthersKeepVInv DEF VInv, ViewsTyped

\* Respond: what was read has been shown; the view was planned if it looked for a plan.
LEMMA RespondKeepsVInv ==
    ASSUME VInv, NEW r \in Readers, Respond(r)
    PROVE  VInv'
<1> DEFINE read == request[r].read
           answer == [planned |-> IsPlanned(r), plan |-> read.plan, known |-> read.known,
                      rows |-> read.newest]
<1>1. /\ IsAsked(r) /\ request[r].todo = <<>> /\ UNCHANGED vars
      /\ shown' = [shown EXCEPT ![r] = answer]
      /\ request' = [request EXCEPT ![r] = NoRequest]
  BY DEF Respond, HasRead, IsAsked
<1>2. read \in Reads /\ ReadLasts(r) /\ ~InTodo(r, "plan")
  BY <1>1, FieldsTyped DEF VInv, NothingIsOvertaken, InTodo
<1>3. answer \in Shown
  BY <1>2 DEF Shown, Reads, IsPlanned
<1>4. request'[r] = NoRequest /\ shown'[r] = answer
  BY <1>1 DEF VInv, ViewsTyped
<1>5. ViewsTyped'
  BY <1>1, <1>3 DEF VInv, ViewsTyped
<1>6. ShownLasts(r)'
  BY <1>1, <1>2, <1>4 DEF vars, ReadLasts, ShownLasts, StillFollows, Existing, CurrentPlans
<1> QED BY <1>1, <1>4, <1>5, <1>6, OthersKeepVInv DEF VInv, ViewsTyped, IsAsked

\* RespondWithError: the browser was shown nothing.
LEMMA ErrorKeepsVInv ==
    ASSUME VInv, NEW r \in Readers, RespondWithError(r)
    PROVE  VInv'
<1>1. /\ UNCHANGED <<vars, shown>> /\ request' = [request EXCEPT ![r] = NoRequest]
      /\ request'[r] = NoRequest
  BY DEF RespondWithError, VInv, ViewsTyped
<1>2. ViewsTyped'
  BY <1>1 DEF VInv, ViewsTyped
<1>3. ShownLasts(r)'
  BY <1>1 DEF vars, VInv, NothingIsOvertaken, ShownLasts, StillFollows, Existing, CurrentPlans
<1> QED BY <1>1, <1>2, <1>3, OthersKeepVInv DEF VInv, ViewsTyped, IsAsked

-----------------------------------------------------------------------------
\* VInv holds before the first request.
LEMMA ViewsInitially == ViewsInit => VInv
<1> SUFFICES ASSUME ViewsInit PROVE VInv
  OBVIOUS
<1>1. PInv
  BY PlansInitially DEF ViewsInit
<1>2. NothingShown \in Shown
  BY EditAssumption DEF NothingShown, Shown
<1>3. ViewsTyped
  BY <1>2 DEF ViewsInit, ViewsTyped
<1>4. NothingIsOvertaken
  BY <1>1 DEF ViewsInit, NothingShown, NothingIsOvertaken, IsAsked, ShownLasts, PInv, PlansTyped
<1> QED BY <1>1, <1>3, <1>4 DEF VInv

\* Every step of a browser, a call or an edit keeps VInv.
LEMMA ViewsStep == VInv /\ [ViewsNext]_viewVars => VInv'
<1> SUFFICES ASSUME VInv, [ViewsNext]_viewVars PROVE VInv'
  OBVIOUS
<1>1. CASE Next /\ UNCHANGED <<request, shown>>
  BY <1>1, PlanStepKeepsVInv
<1>2. CASE UNCHANGED viewVars
  BY <1>2, PlanStepKeepsVInv DEF viewVars
<1>3. ASSUME NEW r \in Readers, NEW view \in DOMAIN Statements, BeginView(r, view)
      PROVE  VInv'
  BY <1>3, BeginKeepsVInv
<1>4. ASSUME NEW r \in Readers,
             ReadPlan(r) \/ ReadTable(r) \/ Respond(r) \/ RespondWithError(r)
      PROVE  VInv'
  BY <1>4, ReadPlanKeepsVInv, ReadTableKeepsVInv, RespondKeepsVInv, ErrorKeepsVInv
<1> QED BY <1>1, <1>2, <1>3, <1>4 DEF ViewsNext

\* VInv is invariant.
LEMMA ViewsInvariance == ViewsSpec => []VInv
BY ViewsInitially, ViewsStep, PTL DEF ViewsSpec

\* The plan history does not notice its readers.
LEMMA ViewsKeepPlans == ViewsSpec => Spec
<1>1. ViewsInit => Init
  BY DEF ViewsInit
<1>2. [ViewsNext]_viewVars => [Next]_vars
  BY DEF ViewsNext, viewVars, BeginView, ReadPlan, ReadTable, Respond, RespondWithError
<1> QED BY <1>1, <1>2, PTL DEF ViewsSpec, Spec

\* Today and the calendar show no task as it was before their plan was made
\* (today_view, calendar_view).
THEOREM TasksFollow == ViewsSpec => []TasksFollowTheirPlan
BY ViewsInvariance, ViewsFollow, PTL

\* A browser is never shown an older plan or older rows than before, and never
\* loses the plan (views/queries.py).
THEOREM NeverBack == ViewsSpec => []ViewsNeverGoBack
BY ViewsInvariance, ViewsFollow, PTL

\* Behind the views, too, there is one current plan (_create_plan).
THEOREM PlansBehindViews == ViewsSpec => []OneCurrentPlan
BY ViewsKeepPlans, AlwaysOneCurrentPlan, PTL
=============================================================================
