------------------------- MODULE HarnessTasksProofs -------------------------
(***************************************************************************)
(* Proofs about HarnessTasks for any agents, UI goroutines, tasks and      *)
(* message budget.  The first part is about one machine and one call; the  *)
(* second carries IInv through every action.                               *)
(***************************************************************************)
EXTENDS HarnessTasks, SequenceTheorems, TLAPS

USE DEF Submitted, Working, InputRequired, Completed, Failed, Canceling, Canceled,
        UnknownState, EmptyState, TerminalState

-----------------------------------------------------------------------------
(* One machine.                                                             *)

\* The path of a machine is its history followed by its state.
LEMMA PathShape ==
    ASSUME NEW sm, sm.history \in Seq(WireState)
    PROVE  /\ DOMAIN Path(sm) = 1 .. Len(sm.history) + 1
           /\ \A i \in DOMAIN sm.history : Path(sm)[i] = sm.history[i]
           /\ Path(sm)[Len(sm.history) + 1] = sm.state
BY DEF Path

\* A refused transition aside, a terminal machine stays where it is and a
\* canceling one can only be canceled or fail.
LEMMA AcceptedMoves ==
    ASSUME NEW sm \in Machine, NEW new \in WireState, Accepts(sm, new)
    PROVE  /\ sm.state \in TerminalState => new = sm.state
           /\ sm.state = Canceling => new \in {Canceling, Canceled, Failed}
BY DEF Accepts, CanTransition, DefaultTransitions, TaskState

\* What TransitionTask does to a machine, given that the table allows it.
LEMMA TransitionFacts ==
    ASSUME NEW sm \in Machine, NEW new \in WireState, Accepts(sm, new), Settled(sm),
           NEW after, after = Transition(sm, new)
    PROVE  /\ after \in Machine
           /\ after.state = new
           /\ Settled(after)
           /\ \A status \in Status : OnPath(sm, status) => OnPath(after, status)
           /\ \A signal \in Signal : Earned(sm, signal) => Earned(after, signal)
           /\ Len(after.history) >= Len(sm.history)
<1>1. CASE sm.state = new
  BY <1>1 DEF Transition, Machine
<1>2. CASE sm.state # new
  <2>. DEFINE h == sm.history
  <2>0. h \in Seq(WireState) /\ sm.state \in WireState
    BY DEF Machine
  <2>1. after = [state |-> new, history |-> Append(h, sm.state)]
    BY <1>2 DEF Transition
  <2>2. /\ after \in Machine
        /\ after.history \in Seq(WireState)
        /\ Len(after.history) = Len(h) + 1
        /\ \A i \in 1 .. Len(h) : after.history[i] = h[i]
        /\ after.history[Len(h) + 1] = sm.state
    BY <2>0, <2>1 DEF Machine
  <2>3. sm.state \notin TerminalState /\ (sm.state = Canceling => new \in {Canceled, Failed})
    BY <1>2, AcceptedMoves
  <2>4. Settled(after)
    BY <2>0, <2>1, <2>2, <2>3 DEF Settled
  <2>5. \A i \in DOMAIN Path(sm) : i \in DOMAIN Path(after) /\ Path(after)[i] = Path(sm)[i]
    BY <2>0, <2>2, PathShape
  <2>6. after.state = new /\ new # "absent"
    BY <2>1 DEF WireState, TaskState
  <2>7. \A status \in Status : OnPath(sm, status) => OnPath(after, status)
    BY <2>5, <2>6 DEF OnPath
  <2>8. \A signal \in Signal : Earned(sm, signal) => Earned(after, signal)
    BY <2>3, <2>5, <2>6, AcceptedMoves DEF Earned
  <2>. QED
    BY <2>2, <2>4, <2>6, <2>7, <2>8, <2>0
<1>. QED
  BY <1>1, <1>2

\* The status read off a machine lies on its path.
LEMMA OwnStatus ==
    ASSUME NEW sm \in Machine
    PROVE  StatusOf(sm) \in Status /\ OnPath(sm, StatusOf(sm))
<1>1. sm.state # "absent" /\ sm.state \in WireState /\ sm.history \in Seq(WireState)
  BY DEF Machine, WireState, TaskState
<1>2. Len(sm.history) + 1 \in DOMAIN Path(sm) /\ Path(sm)[Len(sm.history) + 1] = sm.state
  BY <1>1, PathShape
<1>. QED
  BY <1>1, <1>2 DEF StatusOf, Status, OnPath

\* A fresh machine.
LEMMA NewMachineFacts ==
    ASSUME NEW initial \in WireState \cup {EmptyState}
    PROVE  /\ NewStateMachine(initial) \in Machine
           /\ NewStateMachine(initial).state \in WireState
           /\ initial # EmptyState => NewStateMachine(initial).state = initial
           /\ Settled(NewStateMachine(initial))
<1>. DEFINE sm == NewStateMachine(initial)
<1>1. sm.state \in WireState /\ sm.history = <<>>
  BY DEF NewStateMachine, WireState, TaskState
<1>2. sm \in Machine
  BY <1>1, EmptySeq DEF NewStateMachine, Machine
<1>3. Settled(sm)
  BY <1>1 DEF Settled
<1>. QED
  BY <1>1, <1>2, <1>3 DEF NewStateMachine

\* What a status somebody holds says about the machine now.
LEMMA HeldStatus ==
    ASSUME NEW sm \in Machine, Settled(sm), NEW status \in Status, OnPath(sm, status)
    PROVE  /\ status.state \in TerminalState => sm.state = status.state
           /\ status.state = Canceling => sm.state \in {Canceling, Canceled, Failed}
           /\ status.state = Working => Earned(sm, "approved")
           /\ status.pos <= Len(sm.history) + 1
<1>1. sm.history \in Seq(WireState) /\ Len(sm.history) \in Nat
  BY DEF Machine
<1>2. status.pos \in 1 .. Len(sm.history) + 1 /\ Path(sm)[status.pos] = status.state
  BY <1>1, PathShape DEF OnPath
<1>3. status.state = Working => Earned(sm, "approved")
  BY <1>2 DEF OnPath, Earned
<1>4. CASE status.pos = Len(sm.history) + 1
  BY <1>1, <1>2, <1>3, <1>4, PathShape
<1>5. CASE status.pos \in DOMAIN sm.history
  <2>1. sm.history[status.pos] = status.state
    BY <1>1, <1>2, <1>5, PathShape
  <2>. QED
    BY <1>1, <1>2, <1>3, <1>5, <2>1 DEF Settled
<1>. QED
  BY <1>1, <1>2, <1>4, <1>5

-----------------------------------------------------------------------------
(* The initial states.                                                      *)

\* Nothing exists yet, so every part of the invariant holds of nothing.
LEMMA InitInvariant == Init => IInv
<1>. SUFFICES ASSUME Init PROVE IInv
  OBVIOUS
<1>. USE DEF Init
<1>1. TypeOK
  BY MaxMessagesNat DEF TypeOK, Job, Absent, NoMeta, Metadata, NoView
<1>2. PathInv
  BY DEF PathInv, Settled, Absent
<1>3. CreatedFirst /\ JobsInv /\ ShownStatesAreReal /\ SignalsAreEarned /\ SpanLedger
  BY DEF CreatedFirst, JobsInv, ShownStatesAreReal, SignalsAreEarned, SpanLedger
<1>. QED
  BY <1>1, <1>2, <1>3 DEF IInv

-----------------------------------------------------------------------------
(* The three handlers that move a task: one argument serves them all.       *)

\* The machine of an existing task.
LEMMA ExistingTask ==
    ASSUME TypeOK, NEW t \in TaskId, Exists(t)
    PROVE  tasks[t] \in Machine
BY DEF TypeOK, Exists, Absent

\* An accepted transition keeps the invariant, whichever goroutine asks for it
\* and whatever the others are in the middle of.
LEMMA TransitionStep ==
    ASSUME IInv, NEW p \in Proc, NEW t \in TaskId, NEW new \in WireState,
           NEW handler \in {"sendUpdate", "cancel", "approval"},
           NEW next \in {"endSpan", "broadcast", "forward"},
           Receive(p), TransitionTask(p, t, new, handler, next),
           UNCHANGED <<meta, known, spans, uiView, reqView, signals>>,
           new \in TerminalState <=> next = "endSpan",
           handler = "cancel" => new = Canceling,
           handler = "approval" => new \in {Working, Failed},
           handler = "sendUpdate" => AuthorizedToUpdate(p, t)
    PROVE  IInv'
<1>. DEFINE sm == tasks[t]
            after == Transition(tasks[t], new)
<1>0. TypeOK /\ sm \in Machine /\ Accepts(sm, new) /\ Settled(sm) /\ Exists(t) /\ known[t]
  BY ExistingTask DEF IInv, TransitionTask, PathInv
<1>1. /\ after \in Machine
      /\ after.state = new
      /\ Settled(after)
      /\ \A status \in Status : OnPath(sm, status) => OnPath(after, status)
      /\ \A signal \in Signal : Earned(sm, signal) => Earned(after, signal)
      /\ Len(after.history) >= Len(sm.history)
  BY <1>0, TransitionFacts
<1>2. StatusOf(after) \in Status /\ OnPath(after, StatusOf(after))
  BY <1>1, OwnStatus
<1>3. /\ tasks' = [tasks EXCEPT ![t] = after]
      /\ job' = [job EXCEPT ![p] = [at |-> next, in |-> handler, task |-> t,
                                    status |-> StatusOf(after)]]
      /\ job[p] = Idle
  BY DEF TransitionTask, Receive
<1>4. tasks'[t] = after /\ \A u \in TaskId : u # t => tasks'[u] = tasks[u]
  BY <1>0, <1>3 DEF TypeOK
<1>5. /\ job'[p] = [at |-> next, in |-> handler, task |-> t, status |-> StatusOf(after)]
      /\ \A q \in Proc : q # p => job'[q] = job[q]
  BY <1>0, <1>3 DEF TypeOK
<1>. HIDE DEF sm, after
<1>6. TypeOK'
  <2>1. tasks' \in [TaskId -> Machine \cup {Absent}]
    BY <1>0, <1>1, <1>3 DEF TypeOK
  <2>2. job' \in [Proc -> Job]
    BY <1>0, <1>2, <1>3 DEF TypeOK, Job, Point, Handler
  <2>3. messages' \in 0 .. MaxMessages
    BY <1>0, MaxMessagesNat DEF TypeOK, Receive, Count
  <2>. QED
    BY <1>0, <2>1, <2>2, <2>3 DEF TypeOK
<1>7. PathInv'
  BY <1>1, <1>4 DEF IInv, PathInv
<1>8. CreatedFirst'
  BY <1>0, <1>1, <1>4 DEF IInv, CreatedFirst, Exists, WireState, TaskState
<1>9. \A u \in TaskId, status \in Status :
          OnPath(tasks[u], status) => OnPath(tasks'[u], status)
  BY <1>1, <1>4 DEF sm
<1>10. JobsInv'
  <2>. SUFFICES ASSUME NEW q \in Proc, job'[q] # Idle
                PROVE  JobInv(q)'
    BY DEF JobsInv
  <2>1. CASE q = p
    <3>1. reqView[t].pos <= StatusOf(after).pos
      <4>1. CASE reqView[t] = NoView
        BY <1>2, <4>1 DEF NoView, Status
      <4>2. CASE reqView[t] \in Status
        <5>1. OnPath(sm, reqView[t])
          BY <4>2 DEF IInv, ShownStatesAreReal, sm, NoView, Status, WireState, TaskState
        <5>2. reqView[t].pos <= Len(sm.history) + 1
          BY <1>0, <4>2, <5>1, HeldStatus DEF sm
        <5>. QED
          BY <1>0, <1>1, <4>2, <5>2 DEF StatusOf, Status, Machine
      <4>. QED
        BY <1>0, <4>1, <4>2 DEF TypeOK
    <3>. QED
      BY <1>1, <1>2, <1>4, <1>5, <2>1, <3>1 DEF JobInv, AuthorizedToUpdate, StatusOf
  <2>2. CASE q # p
    <3>1. job'[q] = job[q] /\ JobInv(q) /\ job[q] \in Job /\ job[q] # Idle
      BY <1>0, <1>5, <2>2 DEF IInv, JobsInv, TypeOK
    <3>2. job[q].task \in TaskId /\ job[q].status \in Status
      BY <3>1 DEF Job
    <3>3. OnPath(tasks'[job[q].task], job[q].status)
      BY <1>9, <3>1, <3>2 DEF JobInv
    <3>4. job[q].in = "toolCall" => job[q].task # t
      BY <1>0, <3>1 DEF JobInv
    <3>. QED
      BY <1>4, <3>1, <3>2, <3>3, <3>4 DEF JobInv, AuthorizedToUpdate, MustTell
  <2>. QED
    BY <2>1, <2>2
<1>11. ShownStatesAreReal'
  BY <1>0, <1>9 DEF IInv, TypeOK, ShownStatesAreReal
<1>12. SignalsAreEarned'
  <2>. SUFFICES ASSUME NEW u \in TaskId, NEW line \in signals[u], line.by = "handler"
                PROVE  Earned(tasks'[u], line.signal)
    BY DEF SignalsAreEarned
  <2>1. line.signal \in Signal /\ Earned(tasks[u], line.signal)
    BY <1>0 DEF IInv, TypeOK, SignalsAreEarned, Lines
  <2>. QED
    BY <1>1, <1>4, <2>1 DEF sm
<1>13. SpanLedger'
  <2>. SUFFICES ASSUME NEW u \in TaskId
                PROVE  /\ spans[u] = "ended" => IsTerminal(tasks'[u])
                       /\ spans[u] = "active" /\ IsTerminal(tasks'[u]) =>
                              \E q \in Proc : job'[q].at = "endSpan" /\ job'[q].task = u
    BY DEF SpanLedger
  <2>1. CASE u = t
    BY <1>0, <1>1, <1>4, <1>5, <2>1, AcceptedMoves DEF IInv, SpanLedger, IsTerminal, sm
  <2>2. CASE u # t
    BY <1>3, <1>4, <1>5, <2>2 DEF IInv, SpanLedger, Idle
  <2>. QED
    BY <2>1, <2>2
<1>. QED
  BY <1>6, <1>7, <1>8, <1>10, <1>11, <1>12, <1>13 DEF IInv

-----------------------------------------------------------------------------
(* The two handlers that create a task.                                     *)

\* Creating a task keeps the invariant: nothing refers to a task that does not
\* exist, so no other goroutine, view or signal is about it.
LEMMA CreateStep ==
    ASSUME IInv, NEW p \in Proc, NEW t \in TaskId, NEW initial \in WireState \cup {EmptyState},
           NEW m \in Metadata, NEW k \in BOOLEAN,
           NEW at \in {"startSpan", "readStatus"}, NEW handler \in {"toolCall", "tasksSend"},
           Receive(p), CreateTask(t, initial),
           meta' = [meta EXCEPT ![t] = m],
           known' = [known EXCEPT ![t] = k],
           job' = [job EXCEPT ![p] = [at |-> at, in |-> handler, task |-> t,
                                      status |-> StatusOf(NewStateMachine(initial))]],
           UNCHANGED <<spans, uiView, reqView, signals>>,
           at = "startSpan" => handler = "toolCall",
           handler = "toolCall" => /\ at = "startSpan" /\ initial = Submitted
                                   /\ m.sender = p /\ ~k
    PROVE  IInv'
<1>. DEFINE sm == NewStateMachine(initial)
<1>0. TypeOK /\ ~Exists(t) /\ job[p] = Idle /\ tasks' = [tasks EXCEPT ![t] = sm]
  BY DEF IInv, CreateTask, Receive
<1>1. /\ sm \in Machine /\ sm.state \in WireState /\ Settled(sm)
      /\ initial # EmptyState => sm.state = initial
  BY NewMachineFacts
<1>2. StatusOf(sm) \in Status /\ OnPath(sm, StatusOf(sm))
  BY <1>1, OwnStatus
<1>. HIDE DEF sm
<1>3. tasks'[t] = sm /\ \A u \in TaskId : u # t => tasks'[u] = tasks[u]
  BY <1>0 DEF TypeOK
<1>4. /\ job'[p] = [at |-> at, in |-> handler, task |-> t, status |-> StatusOf(sm)]
      /\ \A q \in Proc : q # p => job'[q] = job[q]
  BY <1>0 DEF TypeOK, sm
<1>5. /\ known'[t] = k /\ meta'[t] = m
      /\ \A u \in TaskId : u # t => known'[u] = known[u] /\ meta'[u] = meta[u]
  BY <1>0 DEF TypeOK
<1>6. \A status : ~OnPath(tasks[t], status)
  BY <1>0 DEF OnPath, Exists
<1>7. \A u \in TaskId : \A status : OnPath(tasks[u], status) => OnPath(tasks'[u], status)
  BY <1>3, <1>6
<1>8. /\ spans[t] = "none" /\ uiView[t] = NoView /\ reqView[t] = NoView
      /\ \A line \in signals[t] : line.by # "handler"
  <2>1. spans[t] # "active"
    BY <1>0 DEF IInv, CreatedFirst
  <2>2. tasks[t] = Absent
    BY <1>0 DEF TypeOK, Exists, Machine, WireState, TaskState
  <2>3. spans[t] # "ended"
    BY <2>2 DEF IInv, SpanLedger, IsTerminal, Absent
  <2>4. Path(tasks[t]) = <<"absent">>
    BY <2>2 DEF Path, Absent
  <2>5. \A signal \in Signal : ~Earned(tasks[t], signal)
    BY <2>2, <2>4 DEF Signal, Verdict, Earned, Absent
  <2>6. \A line \in signals[t] : line.by # "handler"
    BY <1>0, <2>5 DEF IInv, TypeOK, Lines, SignalsAreEarned
  <2>. QED
    BY <1>0, <1>6, <2>1, <2>3, <2>6 DEF IInv, TypeOK, ShownStatesAreReal
<1>9. TypeOK'
  <2>1. job' \in [Proc -> Job]
    BY <1>0, <1>2 DEF TypeOK, Job, Point, Handler, sm
  <2>2. messages' \in 0 .. MaxMessages
    BY <1>0, MaxMessagesNat DEF TypeOK, Receive, Count
  <2>. QED
    BY <1>0, <1>1, <2>1, <2>2 DEF TypeOK
<1>10. PathInv'
  BY <1>1, <1>3 DEF IInv, PathInv
<1>11. CreatedFirst'
  BY <1>1, <1>3, <1>5 DEF IInv, CreatedFirst, Exists, WireState, TaskState
<1>12. JobsInv'
  <2>. SUFFICES ASSUME NEW q \in Proc, job'[q] # Idle
                PROVE  JobInv(q)'
    BY DEF JobsInv
  <2>1. CASE q = p
    BY <1>1, <1>2, <1>3, <1>4, <1>5, <2>1 DEF JobInv
  <2>2. CASE q # p
    <3>1. job'[q] = job[q] /\ JobInv(q) /\ job[q] \in Job /\ job[q] # Idle
      BY <1>0, <1>4, <2>2 DEF IInv, JobsInv, TypeOK
    <3>2. job[q].task \in TaskId /\ job[q].task # t
      BY <1>6, <3>1 DEF Job, JobInv
    <3>. QED
      BY <1>3, <1>5, <3>1, <3>2 DEF JobInv, AuthorizedToUpdate, MustTell
  <2>. QED
    BY <2>1, <2>2
<1>13. ShownStatesAreReal'
  BY <1>7 DEF IInv, ShownStatesAreReal
<1>14. SignalsAreEarned'
  BY <1>3, <1>8 DEF IInv, SignalsAreEarned
<1>15. SpanLedger'
  <2>. SUFFICES ASSUME NEW u \in TaskId
                PROVE  /\ spans[u] = "ended" => IsTerminal(tasks'[u])
                       /\ spans[u] = "active" /\ IsTerminal(tasks'[u]) =>
                              \E q \in Proc : job'[q].at = "endSpan" /\ job'[q].task = u
    BY DEF SpanLedger
  <2>1. CASE u = t
    BY <1>8, <2>1
  <2>2. CASE u # t
    BY <1>0, <1>3, <1>4, <2>2 DEF IInv, SpanLedger, Idle
  <2>. QED
    BY <2>1, <2>2
<1>. QED
  BY <1>9, <1>10, <1>11, <1>12, <1>13, <1>14, <1>15 DEF IInv

-----------------------------------------------------------------------------
(* The rest of a handler.                                                   *)

\* What p knows when it resumes: the status it carries is on the path of a
\* task that exists, and says where that task can be now.
LEMMA Resumed ==
    ASSUME IInv, NEW p \in Proc, job[p] # Idle
    PROVE  /\ job[p] \in [at : Point, in : Handler, task : TaskId, status : Status]
           /\ job[p].task \in TaskId /\ job[p].status \in Status
           /\ JobInv(p)
           /\ tasks[job[p].task] \in Machine
           /\ OnPath(tasks[job[p].task], job[p].status)
           /\ job[p].status.state \in TerminalState =>
                  tasks[job[p].task].state = job[p].status.state
           /\ job[p].status.state = Canceling =>
                  tasks[job[p].task].state \in {Canceling, Canceled, Failed}
           /\ job[p].status.state = Working => Earned(tasks[job[p].task], "approved")
<1>1. TypeOK /\ JobInv(p)
  BY DEF IInv, JobsInv
<1>2. job[p] \in [at : Point, in : Handler, task : TaskId, status : Status]
  BY <1>1 DEF TypeOK, Job
<1>3. OnPath(tasks[job[p].task], job[p].status)
  BY <1>1 DEF JobInv
<1>4. tasks[job[p].task] \in Machine
  BY <1>1, <1>2, <1>3, ExistingTask DEF OnPath, Exists
<1>5. Settled(tasks[job[p].task])
  BY <1>2 DEF IInv, PathInv
<1>. QED
  BY <1>1, <1>2, <1>3, <1>4, <1>5, HeldStatus

\* Steps that touch neither a task nor its metadata and leave the goroutine
\* idle or with a job that satisfies JobInv: what remains to be shown of such
\* a step is about p, known, reqView, and the span ledger.
LEMMA QuietStep ==
    ASSUME IInv, NEW p \in Proc, job[p] # Idle, NEW next \in Job,
           job' = [job EXCEPT ![p] = next],
           UNCHANGED <<tasks, meta, messages>>,
           TypeOK', CreatedFirst', ShownStatesAreReal', SignalsAreEarned', SpanLedger',
           next # Idle => JobInv(p)',
           \A q \in Proc : q # p /\ job[q] # Idle =>
               /\ job[q].in = "toolCall" => known'[job[q].task] = known[job[q].task]
               /\ job[q].in = "sendUpdate" /\ q # meta[job[q].task].sender =>
                      reqView'[job[q].task] = reqView[job[q].task]
    PROVE  IInv'
<1>1. TypeOK /\ PathInv /\ JobsInv
  BY DEF IInv
<1>2. job'[p] = next /\ \A q \in Proc : q # p => job'[q] = job[q]
  BY <1>1 DEF TypeOK
<1>3. ASSUME NEW q \in Proc, q # p, job[q] # Idle
      PROVE  JobInv(q)'
  BY <1>1, <1>2, <1>3 DEF JobsInv, JobInv, AuthorizedToUpdate, MustTell
<1>4. JobsInv'
  BY <1>2, <1>3 DEF JobsInv
<1>. QED
  BY <1>1, <1>4 DEF IInv, PathInv

\* The span enters the map while the creator is the only one who knows the id.
LEMMA StartSpanStep ==
    ASSUME IInv, NEW p \in Proc, StartSpan(p)
    PROVE  IInv'
<1>. DEFINE t == job[p].task
            next == [job[p] EXCEPT !.at = "forward"]
<1>1. job[p] # Idle /\ job[p].at = "startSpan"
  BY DEF StartSpan, Idle
<1>2. TypeOK /\ SpanLedger
  BY DEF IInv
<1>3. /\ job[p] \in [at : Point, in : Handler, task : TaskId, status : Status]
      /\ JobInv(p) /\ tasks[t] \in Machine
  BY <1>1, Resumed
<1>4. next \in Job /\ next # Idle
  BY <1>3 DEF Job, Point, Idle
<1>5. /\ spans' = [spans EXCEPT ![t] = "active"]
      /\ job' = [job EXCEPT ![p] = next]
      /\ UNCHANGED <<tasks, meta, known, uiView, reqView, signals, messages>>
  BY DEF StartSpan, Goto
<1>6. job'[p] = next /\ \A q \in Proc : q # p => job'[q] = job[q]
  BY <1>2, <1>5 DEF TypeOK
<1>7. tasks[t].state = Submitted /\ Exists(t)
  BY <1>1, <1>3 DEF JobInv, Exists
<1>8. TypeOK'
  BY <1>2, <1>4, <1>5 DEF TypeOK
<1>9. CreatedFirst'
  BY <1>2, <1>3, <1>5, <1>7 DEF IInv, CreatedFirst, TypeOK, Exists
<1>10. SpanLedger'
  <2>. SUFFICES ASSUME NEW u \in TaskId
                PROVE  /\ spans'[u] = "ended" => IsTerminal(tasks[u])
                       /\ spans'[u] = "active" /\ IsTerminal(tasks[u]) =>
                              \E q \in Proc : job'[q].at = "endSpan" /\ job'[q].task = u
    BY <1>5 DEF SpanLedger
  <2>1. CASE u = t
    BY <1>2, <1>5, <1>7, <2>1 DEF TypeOK, IsTerminal
  <2>2. CASE u # t
    BY <1>1, <1>2, <1>5, <1>6, <2>2 DEF TypeOK, SpanLedger
  <2>. QED
    BY <2>1, <2>2
<1>11. JobInv(p)'
  BY <1>1, <1>3, <1>5, <1>6 DEF JobInv, AuthorizedToUpdate
<1>12. ShownStatesAreReal' /\ SignalsAreEarned'
  BY <1>5 DEF IInv, ShownStatesAreReal, SignalsAreEarned
<1>. QED
  BY <1>1, <1>4, <1>5, <1>8, <1>9, <1>10, <1>11, <1>12, QuietStep

\* Steps of a goroutine that is not at a span leave the ledger alone.
LEMMA LedgerKept ==
    ASSUME IInv, NEW p \in Proc, job[p].at # "endSpan",
           \A q \in Proc : q # p => job'[q] = job[q],
           UNCHANGED <<tasks, spans>>
    PROVE  SpanLedger'
BY DEF IInv, SpanLedger, IsTerminal

\* The forwarded call makes the id known, or is lost and the id with it.
LEMMA ForwardCallStep ==
    ASSUME IInv, NEW p \in Proc, ForwardCall(p)
    PROVE  IInv'
<1>. DEFINE t == job[p].task
<1>1. job[p] # Idle /\ job[p].at = "forward" /\ job[p].in = "toolCall"
  BY DEF ForwardCall, Idle
<1>2. TypeOK
  BY DEF IInv
<1>3. /\ t \in TaskId /\ JobInv(p) /\ OnPath(tasks[t], job[p].status)
  BY <1>1, Resumed
<1>4. PICK delivered \in BOOLEAN : known' = [known EXCEPT ![t] = delivered]
  BY DEF ForwardCall
<1>5. /\ job' = [job EXCEPT ![p] = Idle]
      /\ UNCHANGED <<tasks, meta, spans, uiView, reqView, signals, messages>>
  BY DEF ForwardCall, Return
<1>6. job'[p] = Idle /\ \A q \in Proc : q # p => job'[q] = job[q]
  BY <1>2, <1>5 DEF TypeOK
<1>7. TypeOK'
  BY <1>2, <1>4, <1>5 DEF TypeOK, Job
<1>8. CreatedFirst'
  BY <1>2, <1>3, <1>4, <1>5 DEF IInv, CreatedFirst, TypeOK, Exists, OnPath
<1>9. SpanLedger'
  BY <1>1, <1>5, <1>6, LedgerKept
<1>10. \A q \in Proc : q # p /\ job[q] # Idle /\ job[q].in = "toolCall" =>
           known'[job[q].task] = known[job[q].task]
  BY <1>1, <1>2, <1>3, <1>4 DEF IInv, JobsInv, JobInv, TypeOK, Job
<1>11. ShownStatesAreReal' /\ SignalsAreEarned'
  BY <1>5 DEF IInv, ShownStatesAreReal, SignalsAreEarned
<1>. QED
  BY <1>1, <1>5, <1>7, <1>8, <1>9, <1>10, <1>11, QuietStep DEF Job

\* The status read here is the task's own, now.
LEMMA ReadStatusStep ==
    ASSUME IInv, NEW p \in Proc, ReadStatus(p)
    PROVE  IInv'
<1>. DEFINE t == job[p].task
            next == [job[p] EXCEPT !.at = "broadcast", !.status = StatusOf(tasks[t])]
<1>1. job[p] # Idle /\ job[p].at = "readStatus"
  BY DEF ReadStatus, Idle
<1>2. TypeOK
  BY DEF IInv
<1>3. /\ job[p] \in [at : Point, in : Handler, task : TaskId, status : Status]
      /\ t \in TaskId /\ JobInv(p) /\ tasks[t] \in Machine
      /\ OnPath(tasks[t], job[p].status)
  BY <1>1, Resumed
<1>4. StatusOf(tasks[t]) \in Status /\ OnPath(tasks[t], StatusOf(tasks[t]))
  BY <1>3, OwnStatus
<1>5. /\ job' = [job EXCEPT ![p] = next]
      /\ UNCHANGED <<tasks, meta, known, spans, uiView, reqView, signals, messages>>
  BY DEF ReadStatus
<1>6. next \in Job /\ next # Idle
  BY <1>3, <1>4 DEF Job, Point, Idle
<1>7. job'[p] = next /\ \A q \in Proc : q # p => job'[q] = job[q]
  BY <1>2, <1>5 DEF TypeOK
<1>8. TypeOK'
  BY <1>2, <1>5, <1>6 DEF TypeOK
<1>9. JobInv(p)'
  BY <1>1, <1>3, <1>4, <1>5, <1>7 DEF JobInv
<1>10. SpanLedger'
  BY <1>1, <1>5, <1>7, LedgerKept
<1>11. CreatedFirst' /\ ShownStatesAreReal' /\ SignalsAreEarned'
  BY <1>5 DEF IInv, CreatedFirst, Exists, ShownStatesAreReal, SignalsAreEarned
<1>. QED
  BY <1>1, <1>5, <1>6, <1>8, <1>9, <1>10, <1>11, QuietStep

\* The span is ended by a goroutine that carries a terminal state, and a task
\* that was in a terminal state still is.
LEMMA EndSpanStep ==
    ASSUME IInv, NEW p \in Proc, EndSpan(p)
    PROVE  IInv'
<1>. DEFINE t == job[p].task
            at == IF job[p].in = "sendUpdate" THEN "broadcast" ELSE "forward"
            next == [job[p] EXCEPT !.at = at]
<1>1. job[p] # Idle /\ job[p].at = "endSpan"
  BY DEF EndSpan, Idle
<1>2. TypeOK
  BY DEF IInv
<1>3. /\ job[p] \in [at : Point, in : Handler, task : TaskId, status : Status]
      /\ t \in TaskId /\ JobInv(p)
      /\ job[p].status.state \in TerminalState => tasks[t].state = job[p].status.state
  BY <1>1, Resumed
<1>4. IsTerminal(tasks[t])
  BY <1>1, <1>3 DEF JobInv, IsTerminal
<1>5. /\ spans' = IF spans[t] = "active" THEN [spans EXCEPT ![t] = "ended"] ELSE spans
      /\ job' = [job EXCEPT ![p] = next]
      /\ UNCHANGED <<tasks, meta, known, uiView, reqView, signals, messages>>
  BY DEF EndSpan, Goto
<1>6. next \in Job /\ next # Idle
  BY <1>3 DEF Job, Point, Idle
<1>7. job'[p] = next /\ \A q \in Proc : q # p => job'[q] = job[q]
  BY <1>2, <1>5 DEF TypeOK
<1>8. TypeOK'
  BY <1>2, <1>5, <1>6 DEF TypeOK
<1>9. JobInv(p)'
  BY <1>1, <1>3, <1>5, <1>7 DEF JobInv, AuthorizedToUpdate
<1>10. SpanLedger'
  <2>. SUFFICES ASSUME NEW u \in TaskId
                PROVE  /\ spans'[u] = "ended" => IsTerminal(tasks[u])
                       /\ spans'[u] = "active" /\ IsTerminal(tasks[u]) =>
                              \E q \in Proc : job'[q].at = "endSpan" /\ job'[q].task = u
    BY <1>5 DEF SpanLedger
  <2>1. CASE u = t
    BY <1>2, <1>4, <1>5, <2>1 DEF TypeOK
  <2>2. CASE u # t
    BY <1>2, <1>5, <1>7, <2>2 DEF IInv, TypeOK, SpanLedger
  <2>. QED
    BY <2>1, <2>2
<1>11. CreatedFirst'
  BY <1>2, <1>5 DEF IInv, CreatedFirst, TypeOK, Exists
<1>12. ShownStatesAreReal' /\ SignalsAreEarned'
  BY <1>5 DEF IInv, ShownStatesAreReal, SignalsAreEarned
<1>. QED
  BY <1>1, <1>5, <1>6, <1>8, <1>9, <1>10, <1>11, <1>12, QuietStep

\* What is shown is the status the goroutine carries.
LEMMA BroadcastStep ==
    ASSUME IInv, NEW p \in Proc, Broadcast(p)
    PROVE  IInv'
<1>. DEFINE t == job[p].task
            next == IF MustTell(p) THEN [job[p] EXCEPT !.at = "tell"] ELSE Idle
<1>1. job[p] # Idle /\ job[p].at = "broadcast"
  BY DEF Broadcast, Idle
<1>2. TypeOK
  BY DEF IInv
<1>3. /\ job[p] \in [at : Point, in : Handler, task : TaskId, status : Status]
      /\ t \in TaskId /\ JobInv(p) /\ OnPath(tasks[t], job[p].status)
  BY <1>1, Resumed
<1>4. /\ uiView' = [uiView EXCEPT ![t] = job[p].status]
      /\ job' = [job EXCEPT ![p] = next]
      /\ UNCHANGED <<tasks, meta, known, spans, reqView, signals, messages>>
  BY DEF Broadcast, Goto, Return
<1>5. next \in Job
  BY <1>3 DEF Job, Point
<1>6. job'[p] = next /\ \A q \in Proc : q # p => job'[q] = job[q]
  BY <1>2, <1>4 DEF TypeOK
<1>7. TypeOK'
  BY <1>2, <1>3, <1>4, <1>5 DEF TypeOK
<1>8. next # Idle => JobInv(p)'
  <2>. SUFFICES ASSUME MustTell(p) PROVE JobInv(p)'
    OBVIOUS
  <2>. QED
    BY <1>1, <1>3, <1>4, <1>6 DEF JobInv, MustTell, AuthorizedToUpdate
<1>9. SpanLedger'
  BY <1>1, <1>4, <1>6, LedgerKept
<1>10. ShownStatesAreReal'
  BY <1>2, <1>3, <1>4 DEF IInv, TypeOK, ShownStatesAreReal
<1>11. CreatedFirst' /\ SignalsAreEarned'
  BY <1>4 DEF IInv, CreatedFirst, Exists, SignalsAreEarned
<1>. QED
  BY <1>1, <1>4, <1>5, <1>7, <1>8, <1>9, <1>10, <1>11, QuietStep

\* Only the executing agent's reader tells a requester, so nobody else relies on
\* what the requester was last told.
LEMMA OneTeller ==
    ASSUME IInv, NEW p \in Proc, NEW q \in Proc,
           job[p].at = "tell", job[q] # Idle, job[q].in = "sendUpdate",
           job[p].task = job[q].task, q # meta[job[q].task].sender
    PROVE  q = p
<1>1. job[p] # Idle
  BY DEF Idle
<1>2. JobInv(p) /\ JobInv(q)
  BY <1>1 DEF IInv, JobsInv
<1>. QED
  BY <1>2 DEF JobInv, MustTell, AuthorizedToUpdate

\* The requester is passed the status the goroutine carries, and it is not older.
LEMMA TellRequesterStep ==
    ASSUME IInv, NEW p \in Proc, TellRequester(p)
    PROVE  IInv'
<1>. DEFINE t == job[p].task
<1>1. job[p] # Idle /\ job[p].at = "tell"
  BY DEF TellRequester, Idle
<1>2. TypeOK
  BY DEF IInv
<1>3. /\ job[p] \in [at : Point, in : Handler, task : TaskId, status : Status]
      /\ t \in TaskId /\ JobInv(p) /\ OnPath(tasks[t], job[p].status)
  BY <1>1, Resumed
<1>4. \/ reqView' = [reqView EXCEPT ![t] = job[p].status]
      \/ reqView' = reqView
  BY DEF TellRequester
<1>5. /\ job' = [job EXCEPT ![p] = Idle]
      /\ UNCHANGED <<tasks, meta, known, spans, uiView, signals, messages>>
  BY DEF TellRequester, Return
<1>6. job'[p] = Idle /\ \A q \in Proc : q # p => job'[q] = job[q]
  BY <1>2, <1>5 DEF TypeOK
<1>7. TypeOK'
  BY <1>2, <1>3, <1>4, <1>5 DEF TypeOK, Job
<1>8. SpanLedger'
  BY <1>1, <1>5, <1>6, LedgerKept
<1>9. ShownStatesAreReal'
  BY <1>2, <1>3, <1>4, <1>5 DEF IInv, TypeOK, ShownStatesAreReal
<1>10. CreatedFirst' /\ SignalsAreEarned'
  BY <1>5 DEF IInv, CreatedFirst, Exists, SignalsAreEarned
<1>11. ASSUME NEW q \in Proc, q # p, job[q] # Idle, job[q].in = "sendUpdate",
              q # meta[job[q].task].sender
       PROVE  reqView'[job[q].task] = reqView[job[q].task]
  <2>1. job[q].task # t /\ job[q].task \in TaskId
    BY <1>1, <1>11, OneTeller, Resumed
  <2>. QED
    BY <1>2, <1>3, <1>4, <2>1 DEF TypeOK
<1>. QED
  BY <1>1, <1>5, <1>7, <1>8, <1>9, <1>10, <1>11, QuietStep DEF Job

\* A line that is queued keeps its promise if it makes one: a handler's signal
\* has been earned.
LEMMA QueuedLine ==
    ASSUME IInv, NEW t \in TaskId, NEW line \in Lines,
           line.by = "handler" => Earned(tasks[t], line.signal),
           signals' \in {signals, [signals EXCEPT ![t] = @ \cup {line}]}, UNCHANGED tasks
    PROVE  signals' \in [TaskId -> SUBSET Lines] /\ SignalsAreEarned'
BY DEF IInv, TypeOK, SignalsAreEarned

\* A signal that a handler sends has been earned by the status the goroutine
\* carries.
LEMMA DeliverStep ==
    ASSUME IInv, NEW t \in TaskId, NEW signal \in Signal, Earned(tasks[t], signal),
           Deliver(t, signal), UNCHANGED tasks
    PROVE  signals' \in [TaskId -> SUBSET Lines] /\ SignalsAreEarned'
<1>1. Line(signal, "handler") \in Lines /\ Line(signal, "handler").signal = signal
  BY DEF Line, Lines
<1>2. signals' \in {signals, [signals EXCEPT ![t] = @ \cup {Line(signal, "handler")}]}
  BY DEF Deliver
<1>. QED
  BY <1>1, <1>2, QueuedLine

\* What a browser relays is on the browser's account.
LEMMA RelayStep ==
    ASSUME IInv, NEW t \in TaskId, NEW signal \in Signal, Relay(t, signal)
    PROVE  IInv'
<1>1. Line(signal, "browser") \in Lines /\ Line(signal, "browser").by # "handler"
  BY DEF Line, Lines
<1>2. /\ signals' = [signals EXCEPT ![t] = @ \cup {Line(signal, "browser")}]
      /\ UNCHANGED <<tasks, meta, known, spans, job, uiView, reqView>>
  BY DEF Relay
<1>3. signals' \in [TaskId -> SUBSET Lines] /\ SignalsAreEarned'
  BY <1>1, <1>2, QueuedLine
<1>4. TypeOK /\ messages' \in 0 .. MaxMessages
  BY MaxMessagesNat DEF IInv, TypeOK, Relay, Count
<1>5. TypeOK'
  BY <1>2, <1>3, <1>4 DEF TypeOK
<1>6. PathInv' /\ CreatedFirst' /\ JobsInv' /\ ShownStatesAreReal' /\ SpanLedger'
  BY <1>2 DEF IInv, PathInv, CreatedFirst, Exists, JobsInv, JobInv, MustTell,
              AuthorizedToUpdate, ShownStatesAreReal, SpanLedger, IsTerminal
<1>. QED
  BY <1>3, <1>5, <1>6 DEF IInv

\* A cancel is forwarded for a task that is past completing.
LEMMA ForwardCancelStep ==
    ASSUME IInv, NEW p \in Proc, ForwardCancel(p)
    PROVE  IInv'
<1>. DEFINE t == job[p].task
            next == [job[p] EXCEPT !.at = "broadcast"]
<1>1. job[p] # Idle /\ job[p].at = "forward" /\ job[p].in = "cancel"
  BY DEF ForwardCancel, Idle
<1>2. TypeOK
  BY DEF IInv
<1>3. /\ job[p] \in [at : Point, in : Handler, task : TaskId, status : Status]
      /\ t \in TaskId /\ JobInv(p)
      /\ job[p].status.state = Canceling =>
             tasks[t].state \in {Canceling, Canceled, Failed}
  BY <1>1, Resumed
<1>4. /\ Deliver(t, "cancel") \/ UNCHANGED signals
      /\ job' = [job EXCEPT ![p] = next]
      /\ UNCHANGED <<tasks, meta, known, spans, uiView, reqView, messages>>
  BY DEF ForwardCancel, Goto
<1>5. next \in Job /\ next # Idle
  BY <1>3 DEF Job, Point, Idle
<1>6. job'[p] = next /\ \A q \in Proc : q # p => job'[q] = job[q]
  BY <1>2, <1>4 DEF TypeOK
<1>7. Earned(tasks[t], "cancel") /\ "cancel" \in Signal
  BY <1>1, <1>3 DEF JobInv, Earned, Signal
<1>8. signals' \in [TaskId -> SUBSET Lines] /\ SignalsAreEarned'
  <2>1. CASE Deliver(t, "cancel")
    BY <1>3, <1>4, <1>7, <2>1, DeliverStep
  <2>2. CASE UNCHANGED signals
    BY <1>2, <1>4, <2>2 DEF IInv, TypeOK, SignalsAreEarned
  <2>. QED
    BY <1>4, <2>1, <2>2
<1>9. TypeOK'
  BY <1>2, <1>4, <1>5, <1>8 DEF TypeOK
<1>10. JobInv(p)'
  BY <1>1, <1>3, <1>4, <1>6 DEF JobInv
<1>11. SpanLedger'
  BY <1>1, <1>4, <1>6, LedgerKept
<1>12. CreatedFirst' /\ ShownStatesAreReal'
  BY <1>4 DEF IInv, CreatedFirst, Exists, ShownStatesAreReal
<1>. QED
  BY <1>1, <1>4, <1>5, <1>8, <1>9, <1>10, <1>11, <1>12, QuietStep

\* A verdict is forwarded for a task that has taken it.
LEMMA ForwardApprovalStep ==
    ASSUME IInv, NEW p \in Proc, ForwardApproval(p)
    PROVE  IInv'
<1>. DEFINE t == job[p].task
            next == [job[p] EXCEPT !.at = "readStatus"]
            verdict == VerdictOf(job[p].status.state)
<1>1. job[p] # Idle /\ job[p].at = "forward" /\ job[p].in = "approval"
  BY DEF ForwardApproval, Idle
<1>2. TypeOK
  BY DEF IInv
<1>3. /\ job[p] \in [at : Point, in : Handler, task : TaskId, status : Status]
      /\ t \in TaskId /\ JobInv(p)
      /\ job[p].status.state \in TerminalState => tasks[t].state = job[p].status.state
      /\ job[p].status.state = Working => Earned(tasks[t], "approved")
  BY <1>1, Resumed
<1>4. /\ Deliver(t, verdict)
      /\ job' = [job EXCEPT ![p] = next]
      /\ UNCHANGED <<tasks, meta, known, spans, uiView, reqView, messages>>
  BY DEF ForwardApproval, Goto
<1>5. next \in Job /\ next # Idle
  BY <1>3 DEF Job, Point, Idle
<1>6. job'[p] = next /\ \A q \in Proc : q # p => job'[q] = job[q]
  BY <1>2, <1>4 DEF TypeOK
<1>7. Earned(tasks[t], verdict) /\ verdict \in Signal
  <2>1. job[p].status.state \in {Working, Failed}
    BY <1>1, <1>3 DEF JobInv
  <2>2. CASE job[p].status.state = Working
    BY <1>3, <2>2 DEF VerdictOf, Signal, Verdict
  <2>3. CASE job[p].status.state = Failed
    BY <1>3, <2>3 DEF VerdictOf, Signal, Verdict, Earned
  <2>. QED
    BY <2>1, <2>2, <2>3
<1>8. signals' \in [TaskId -> SUBSET Lines] /\ SignalsAreEarned'
  BY <1>3, <1>4, <1>7, DeliverStep
<1>9. TypeOK'
  BY <1>2, <1>4, <1>5, <1>8 DEF TypeOK
<1>10. JobInv(p)'
  BY <1>1, <1>3, <1>4, <1>6 DEF JobInv
<1>11. SpanLedger'
  BY <1>1, <1>4, <1>6, LedgerKept
<1>12. CreatedFirst' /\ ShownStatesAreReal'
  BY <1>4 DEF IInv, CreatedFirst, Exists, ShownStatesAreReal
<1>. QED
  BY <1>1, <1>4, <1>5, <1>8, <1>9, <1>10, <1>11, <1>12, QuietStep

-----------------------------------------------------------------------------
(* The theorems.                                                            *)

\* Every step of every goroutine keeps the invariant.
LEMMA NextInvariant == IInv /\ [Next]_vars => IInv'
<1>. SUFFICES ASSUME IInv, [Next]_vars PROVE IInv'
  OBVIOUS
<1>1. CASE UNCHANGED vars
  BY <1>1 DEF vars, IInv, TypeOK, PathInv, CreatedFirst, Exists, JobsInv, JobInv, MustTell,
              AuthorizedToUpdate, ShownStatesAreReal, SignalsAreEarned, SpanLedger, IsTerminal
<1>2. ASSUME NEW p \in Proc, NEW t \in TaskId, p \in Agent, NEW target \in Agent,
             ToolCall(p, t, target)
      PROVE  IInv'
  <2>1. known' = [known EXCEPT ![t] = FALSE]
    <3>1. known \in [TaskId -> BOOLEAN] /\ ~known[t] /\ known' = known
      BY <1>2 DEF ToolCall, CreateTask, IInv, TypeOK, CreatedFirst
    <3>. QED
      BY <3>1
  <2>2. [sender |-> p, targetAgent |-> target] \in Metadata
    BY <1>2 DEF Metadata
  <2>3. Submitted \in WireState \cup {EmptyState} /\ FALSE \in BOOLEAN
    BY DEF WireState, TaskState
  <2>4. /\ Receive(p) /\ CreateTask(t, Submitted)
        /\ meta' = [meta EXCEPT ![t] = [sender |-> p, targetAgent |-> target]]
        /\ job' = [job EXCEPT ![p] = [at |-> "startSpan", in |-> "toolCall", task |-> t,
                                      status |-> StatusOf(NewStateMachine(Submitted))]]
        /\ UNCHANGED <<spans, uiView, reqView, signals>>
    BY <1>2 DEF ToolCall
  <2>. DEFINE m == [sender |-> p, targetAgent |-> target]
  <2>5. m.sender = p
    OBVIOUS
  <2>. HIDE DEF m
  <2>. QED
    BY <2>1, <2>2, <2>3, <2>4, <2>5, CreateStep DEF m
<1>3. ASSUME NEW p \in Proc, NEW t \in TaskId, NEW s \in WireState \cup {EmptyState},
             NEW m \in Metadata, TasksSend(p, t, s, m)
      PROVE  IInv'
  BY <1>3, CreateStep DEF TasksSend
<1>4. ASSUME NEW p \in Proc, NEW t \in TaskId, NEW s \in WireState, TasksSendUpdate(p, t, s)
      PROVE  IInv'
  BY <1>4, TransitionStep DEF TasksSendUpdate, AfterTransition
<1>5. ASSUME NEW p \in Proc, NEW t \in TaskId, TasksCancel(p, t)
      PROVE  IInv'
  BY <1>5, TransitionStep DEF TasksCancel, CancelTask, WireState, TaskState
<1>6. ASSUME NEW p \in Proc, NEW t \in TaskId, NEW v \in Verdict, ApprovalResponse(p, t, v)
      PROVE  IInv'
  <2>. DEFINE new == getApprovalState(v)
  <2>1. new \in {Working, Failed} /\ new \in WireState
    BY DEF getApprovalState, WireState, TaskState
  <2>. QED
    BY <1>6, <2>1, TransitionStep DEF ApprovalResponse, AfterTransition
<1>7. ASSUME NEW p \in Proc, Continue(p)
      PROVE  IInv'
  BY <1>7, StartSpanStep, ForwardCallStep, ReadStatusStep, EndSpanStep, BroadcastStep,
     TellRequesterStep, ForwardCancelStep, ForwardApprovalStep DEF Continue, Proceed
<1>8. ASSUME NEW t \in TaskId, NEW signal \in Signal, Relay(t, signal)
      PROVE  IInv'
  BY <1>8, RelayStep
<1>. QED
  BY <1>1, <1>2, <1>3, <1>4, <1>5, <1>6, <1>7, <1>8
     DEF Next, Request, dispatchMessage, handleWSIncoming, Proc

\* The inductive invariant holds in every reachable state, for any agents, UI
\* goroutines, tasks and message budget.
THEOREM Invariance == Spec => []IInv
BY InitInvariant, NextInvariant, PTL DEF Spec

\* Every variable keeps its type, whatever the goroutines interleave.
THEOREM TypeCorrect == Spec => []TypeOK
<1>1. IInv => TypeOK
  BY DEF IInv
<1>. QED
  BY <1>1, Invariance, PTL

\* Nothing shown to the UI or to a requester is invented, for any number of
\* goroutines.
THEOREM ShownStatesTheorem == Spec => []ShownStatesAreReal
<1>1. IInv => ShownStatesAreReal
  BY DEF IInv
<1>. QED
  BY <1>1, Invariance, PTL

\* The harness's handlers forward no verdict and no cancel that did not take
\* effect, whatever browsers send to the agent themselves.
THEOREM SignalsTheorem == Spec => []SignalsAreEarned
<1>1. IInv => SignalsAreEarned
  BY DEF IInv
<1>. QED
  BY <1>1, Invariance, PTL

\* Spans end only with their task, and never linger without a goroutine that
\* is about to end them.
THEOREM SpanLedgerTheorem == Spec => []SpanLedger
<1>1. IInv => SpanLedger
  BY DEF IInv
<1>. QED
  BY <1>1, Invariance, PTL

\* A requester hears of its task in the order the task moved: the status being
\* passed on is never older than the one passed on before.
THEOREM ToldInOrderTheorem == Spec => RequesterToldInOrder
<1>1. IInv /\ [Next]_vars => [ToldNothingOlder]_vars
  <2>. SUFFICES ASSUME IInv, Next, NEW t \in TaskId
                PROVE  reqView'[t].pos >= reqView[t].pos
    BY DEF ToldNothingOlder
  <2>1. TypeOK /\ reqView[t].pos \in Nat
    BY DEF IInv, TypeOK, Status, NoView
  <2>2. \/ \E p \in Proc : Request(p) \/ Continue(p)
        \/ \E u \in TaskId, signal \in Signal : Relay(u, signal)
    BY DEF Next
  <2>3. CASE reqView' = reqView
    BY <2>1, <2>3
  <2>4. ASSUME NEW p \in Proc, TellRequester(p)
        PROVE  reqView'[t].pos >= reqView[t].pos
    <3>1. job[p] # Idle /\ job[p].at = "tell"
      BY <2>4 DEF TellRequester, Idle
    <3>2. /\ job[p].task \in TaskId /\ job[p].status \in Status /\ JobInv(p)
      BY <3>1, Resumed
    <3>3. reqView[job[p].task].pos <= job[p].status.pos
      BY <3>1, <3>2 DEF JobInv, MustTell
    <3>4. \/ reqView' = [reqView EXCEPT ![job[p].task] = job[p].status]
          \/ reqView' = reqView
      BY <2>4 DEF TellRequester
    <3>5. CASE job[p].task = t /\ reqView' # reqView
      BY <2>1, <3>2, <3>3, <3>4, <3>5 DEF TypeOK, Status
    <3>6. CASE job[p].task # t \/ reqView' = reqView
      BY <2>1, <3>2, <3>4, <3>6 DEF TypeOK
    <3>. QED
      BY <3>5, <3>6
  <2>5. ASSUME NEW p \in Proc, Request(p)
        PROVE  reqView' = reqView
    BY <2>5 DEF Request, dispatchMessage, handleWSIncoming, ToolCall, TasksSend,
                TasksSendUpdate, TasksCancel, CancelTask, ApprovalResponse
  <2>6. ASSUME NEW p \in Proc, Continue(p), ~TellRequester(p)
        PROVE  reqView' = reqView
    BY <2>6 DEF Continue, Proceed, StartSpan, ForwardCall, ReadStatus, EndSpan, Broadcast,
                ForwardCancel, ForwardApproval
  <2>7. ASSUME NEW u \in TaskId, NEW signal \in Signal, Relay(u, signal)
        PROVE  reqView' = reqView
    BY <2>7 DEF Relay
  <2>. QED
    BY <2>2, <2>3, <2>4, <2>5, <2>6, <2>7
<1>. QED
  BY <1>1, Invariance, PTL DEF Spec, RequesterToldInOrder

-----------------------------------------------------------------------------
(* The handlers implement the lifecycle.                                    *)

\* The definitions of StateMachine that TaskLifecycle brings with it.
LEMMA SameTable ==
    /\ Lifecycle!WireState = WireState
    /\ Lifecycle!DefaultTransitions = DefaultTransitions
    /\ Lifecycle!NotCreated = "absent"
BY DEF Lifecycle!WireState, Lifecycle!DefaultTransitions, Lifecycle!NotCreated, WireState,
       DefaultTransitions, TaskState, Lifecycle!TaskState, Lifecycle!UnknownState,
       Lifecycle!Submitted, Lifecycle!Working, Lifecycle!InputRequired, Lifecycle!Completed,
       Lifecycle!Failed, Lifecycle!Canceling, Lifecycle!Canceled

\* A handler's step either leaves every task's state alone, or creates one task,
\* or advances one task along the table.
LEMMA StepKinds ==
    ASSUME IInv, Next
    PROVE  \/ tasks' = tasks
           \/ \E t \in TaskId, s \in WireState \cup {EmptyState} : CreateTask(t, s)
           \/ \E t \in TaskId, s \in WireState :
                  /\ Exists(t) /\ Accepts(tasks[t], s)
                  /\ tasks' = [tasks EXCEPT ![t] = Transition(tasks[t], s)]
<1>1. CASE \E t \in TaskId, signal \in Signal : Relay(t, signal)
  BY <1>1 DEF Relay
<1>2. ASSUME NEW p \in Proc, Continue(p)
      PROVE  tasks' = tasks
  BY <1>2 DEF Continue, Proceed, StartSpan, ForwardCall, ReadStatus, EndSpan, Broadcast,
              TellRequester, ForwardCancel, ForwardApproval
<1>3. ASSUME NEW p \in Proc, Request(p)
      PROVE  \/ \E t \in TaskId, s \in WireState \cup {EmptyState} : CreateTask(t, s)
             \/ \E t \in TaskId, s \in WireState :
                    /\ Exists(t) /\ Accepts(tasks[t], s)
                    /\ tasks' = [tasks EXCEPT ![t] = Transition(tasks[t], s)]
  <2>1. Submitted \in WireState /\ Canceling \in WireState
        /\ \A v \in Verdict : getApprovalState(v) \in WireState
    BY DEF WireState, TaskState, getApprovalState
  <2>. QED
    BY <1>3, <2>1 DEF Request, dispatchMessage, handleWSIncoming, ToolCall, TasksSend,
                      TasksSendUpdate, TasksCancel, CancelTask, ApprovalResponse,
                      TransitionTask
<1>. QED
  BY <1>1, <1>2, <1>3 DEF Next

\* However the handlers interleave, each task obeys the abstract lifecycle.
THEOREM LifecycleRefinement == Spec => ImplementsLifecycle
<1>. DEFINE phase == [t \in TaskId |-> tasks[t].state]
<1>1. Init => Lifecycle!Init
  BY SameTable DEF Init, Absent, Lifecycle!Init
<1>2. IInv /\ [Next]_vars => [Lifecycle!Next]_phase
  <2>. SUFFICES ASSUME IInv, [Next]_vars
                PROVE  Lifecycle!Next \/ phase' = phase
    OBVIOUS
  <2>1. TypeOK
    BY DEF IInv
  <2>2. CASE tasks' = tasks
    BY <2>2
  <2>3. ASSUME NEW t \in TaskId, NEW s \in WireState \cup {EmptyState}, CreateTask(t, s)
        PROVE  Lifecycle!Next
    <3>. DEFINE new == NewStateMachine(s).state
    <3>1. new \in WireState
      BY NewMachineFacts
    <3>2. phase' = [phase EXCEPT ![t] = new] /\ phase[t] = "absent"
      BY <2>1, <2>3 DEF CreateTask, Exists, TypeOK
    <3>3. Lifecycle!Create(t, new)
      BY <3>2, SameTable DEF Lifecycle!Create
    <3>. QED
      BY <3>1, <3>3, SameTable DEF Lifecycle!Next
  <2>4. ASSUME NEW t \in TaskId, NEW s \in WireState, Exists(t), Accepts(tasks[t], s),
               tasks' = [tasks EXCEPT ![t] = Transition(tasks[t], s)]
        PROVE  Lifecycle!Next \/ phase' = phase
    <3>1. CASE tasks[t].state = s
      BY <2>1, <2>4, <3>1 DEF Transition, TypeOK
    <3>2. CASE tasks[t].state # s
      <4>1. phase' = [phase EXCEPT ![t] = s]
        BY <2>1, <2>4, <3>2 DEF Transition, TypeOK
      <4>2. phase[t] \in DOMAIN DefaultTransitions /\ s \in DefaultTransitions[phase[t]]
        BY <2>4, <3>2 DEF Accepts, CanTransition
      <4>3. Lifecycle!Advance(t, s)
        BY <4>1, <4>2, SameTable DEF Lifecycle!Advance
      <4>. QED
        BY <4>3, SameTable DEF Lifecycle!Next
    <3>. QED
      BY <3>1, <3>2
  <2>. QED
    BY <2>2, <2>3, <2>4, StepKinds DEF vars
<1>. QED
  BY <1>1, <1>2, Invariance, PTL DEF Spec, ImplementsLifecycle, Lifecycle!Spec

\* One step of the harness leaves an ended task as it is, and a task whose
\* cancel was accepted canceling, canceled or failed.
LEMMA TasksOnlyMoveOn ==
    ASSUME IInv, [Next]_vars, NEW t \in TaskId
    PROVE  /\ tasks[t].state \in TerminalState => tasks'[t].state = tasks[t].state
           /\ tasks[t].state \in {Canceling, Canceled, Failed} =>
                  tasks'[t].state \in {Canceling, Canceled, Failed}
<1>1. TypeOK
  BY DEF IInv
<1>2. CASE tasks' = tasks
  BY <1>2
<1>3. ASSUME NEW u \in TaskId, NEW s \in WireState \cup {EmptyState}, CreateTask(u, s)
      PROVE  tasks[t].state \in TerminalState \cup {Canceling} => tasks'[t] = tasks[t]
  BY <1>1, <1>3 DEF CreateTask, Exists, TypeOK
<1>4. ASSUME NEW u \in TaskId, NEW s \in WireState, Exists(u), Accepts(tasks[u], s),
             tasks' = [tasks EXCEPT ![u] = Transition(tasks[u], s)]
      PROVE  /\ tasks[t].state \in TerminalState => tasks'[t].state = tasks[t].state
             /\ tasks[t].state \in {Canceling, Canceled, Failed} =>
                    tasks'[t].state \in {Canceling, Canceled, Failed}
  <2>1. CASE u # t
    BY <1>1, <1>4, <2>1 DEF TypeOK
  <2>2. CASE u = t
    <3>1. tasks[t] \in Machine
      BY <1>1, <1>4, <2>2 DEF TypeOK, Exists, Absent
    <3>2. tasks'[t].state = s
      BY <1>1, <1>4, <2>2 DEF TypeOK, Transition
    <3>. QED
      BY <1>4, <2>2, <3>1, <3>2, AcceptedMoves
  <2>. QED
    BY <2>1, <2>2
<1>. QED
  BY <1>2, <1>3, <1>4, StepKinds DEF vars

\* The two promises of the lifecycle, of the harness itself: no interleaving of
\* late updates, verdicts and cancels moves a task that has ended ...
THEOREM HarnessEndedStaysEnded == Spec => EndedStaysEnded
<1>. DEFINE phase == [t \in TaskId |-> tasks[t].state]
<1>1. IInv /\ [Next]_vars =>
          [\A t \in TaskId : phase[t] \in Lifecycle!TerminalState => phase'[t] = phase[t]]_phase
  BY TasksOnlyMoveOn DEF Lifecycle!TerminalState, Lifecycle!Completed, Lifecycle!Failed,
                         Lifecycle!Canceled
<1>. QED
  BY <1>1, Invariance, PTL DEF Spec, EndedStaysEnded, Lifecycle!EndedStaysEnded

\* ... nor lets one whose cancel was accepted complete or go back to work.
THEOREM HarnessCancelSticks == Spec => CancelSticks
<1>. DEFINE phase == [t \in TaskId |-> tasks[t].state]
<1>1. IInv /\ [Next]_vars =>
          [\A t \in TaskId :
              phase[t] \in {Lifecycle!Canceling, Lifecycle!Canceled, Lifecycle!Failed} =>
              phase'[t] \in {Lifecycle!Canceling, Lifecycle!Canceled, Lifecycle!Failed}]_phase
  BY TasksOnlyMoveOn DEF Lifecycle!Canceling, Lifecycle!Failed, Lifecycle!Canceled
<1>. QED
  BY <1>1, Invariance, PTL DEF Spec, CancelSticks, Lifecycle!CancelSticks
=============================================================================
