---------------------------- MODULE HarnessTasks ----------------------------
(***************************************************************************)
(* The task path of the harness (main.go, pkg/harness/taskstore.go).       *)
(*                                                                         *)
(* Every agent connection has a reader goroutine that runs one handler at  *)
(* a time; an approval from the web UI runs in a goroutine of its own      *)
(* (a slot of UISlot).  A handler takes ts.mu, activeSpansMu and           *)
(* wsClientsMu one after the other and never two of them together, so      *)
(* what lies between two critical sections is open to every other          *)
(* goroutine: here each critical section is an action, and job[p] says     *)
(* where goroutine p stands and what it carries in its local variables.    *)
(*                                                                         *)
(* A handler that returns early (unknown task, sender not authorised,      *)
(* transition refused) changes nothing that is modelled, and is no step.   *)
(***************************************************************************)
EXTENDS StateMachine

CONSTANTS
    Agent,        \* agents with a connection to the harness
    UISlot,       \* goroutines started by handleWSIncoming, at most this many at once
    TaskId,
    NoAgent,      \* the empty sender or target of a task without metadata
    MaxMessages   \* bound on the number of requests that take effect

ASSUME ActorsDisjoint == Agent \cap UISlot = {} /\ NoAgent \notin Agent
ASSUME MaxMessagesNat == MaxMessages \in Nat

VARIABLES
    tasks,        \* ts.tasks: the machine of each task, Absent before CreateTask
    meta,         \* Metadata["sender"] and ["targetAgent"], fixed at creation
    known,        \* the id has left the harness, a peer can name the task
    spans,        \* activeSpans: "none", "active" (in the map), "ended"
    job,          \* per goroutine: the handler in progress
    uiView,       \* the last task_update broadcast to the web UI
    reqView,      \* the last tasks/sendUpdate queued for the requester
    signals,      \* cancels and verdicts queued for the executing agent, and by whom
    messages      \* requests that took effect so far

vars == <<tasks, meta, known, spans, job, uiView, reqView, signals, messages>>

Proc == Agent \cup UISlot

Absent   == [state |-> "absent", history |-> <<>>]
NoMeta   == [sender |-> NoAgent, targetAgent |-> NoAgent]
Metadata == [sender : Agent \cup {NoAgent}, targetAgent : Agent \cup {NoAgent}]

\* A status as a goroutine, the UI or a requester holds it: the state, and
\* (history variable) its position on the task's path.
Status == [state : WireState, pos : Nat]
NoView == [state |-> "nothing", pos |-> 0]

StatusOf(sm) == [state |-> sm.state, pos |-> Len(sm.history) + 1]

Idle    == [at |-> "idle"]
Handler == {"toolCall", "tasksSend", "sendUpdate", "cancel", "approval"}
Point   == {"startSpan", "forward", "endSpan", "readStatus", "broadcast", "tell"}
Job     == {Idle} \cup [at : Point, in : Handler, task : TaskId, status : Status]

Verdict == {"approved", "rejected"}
Signal  == Verdict \cup {"cancel"}

\* A handler of the harness forwards a signal; a browser can also address one
\* to the agent itself.
Line(signal, by) == [signal |-> signal, by |-> by]
Lines == [signal : Signal, by : {"handler", "browser"}]

Goto(p, at) == job' = [job EXCEPT ![p].at = at]
Return(p)   == job' = [job EXCEPT ![p] = Idle]

Exists(t) == tasks[t].state # "absent"

Init ==
    /\ tasks = [t \in TaskId |-> Absent]
    /\ meta = [t \in TaskId |-> NoMeta]
    /\ known = [t \in TaskId |-> FALSE]
    /\ spans = [t \in TaskId |-> "none"]
    /\ job = [p \in Proc |-> Idle]
    /\ uiView = [t \in TaskId |-> NoView]
    /\ reqView = [t \in TaskId |-> NoView]
    /\ signals = [t \in TaskId |-> {}]
    /\ messages = 0

Count == messages < MaxMessages /\ messages' = messages + 1

\* A request is taken from p's connection: p's previous handler has returned.
Receive(p) == job[p] = Idle /\ Count

\* CreateTask refuses an id that is in the map.
CreateTask(t, initial) ==
    /\ ~Exists(t)
    /\ tasks' = [tasks EXCEPT ![t] = NewStateMachine(initial)]

\* Bug: the error of a refused transition is logged and the handler goes on.
TransitionTaskIgnoringError(p, t, new, handler, next) ==
    /\ Exists(t) /\ known[t]
    /\ tasks' = IF Accepts(tasks[t], new)
                THEN [tasks EXCEPT ![t] = Transition(@, new)]
                ELSE tasks
    /\ job' = [job EXCEPT ![p] = [at |-> next, in |-> handler, task |-> t,
                                  status |-> [state |-> new, pos |-> 1]]]

\* TransitionTask, when sm.Transition returns no error: the goroutine that
\* called it goes on with the status it asked for.
TransitionTask(p, t, new, handler, next) ==
    /\ Exists(t) /\ known[t]
    /\ Accepts(tasks[t], new)
    /\ tasks' = [tasks EXCEPT ![t] = Transition(@, new)]
    /\ job' = [job EXCEPT ![p] = [at |-> next, in |-> handler, task |-> t,
                                  status |-> StatusOf(Transition(tasks[t], new))]]

-----------------------------------------------------------------------------
(* mcp/tools/call: a fresh task id, then the span, then the forwarded call. *)

ToolCall(p, t, target) ==
    /\ Receive(p)
    /\ CreateTask(t, Submitted)
    /\ meta' = [meta EXCEPT ![t] = [sender |-> p, targetAgent |-> target]]
    /\ job' = [job EXCEPT ![p] = [at |-> "startSpan", in |-> "toolCall", task |-> t,
                                  status |-> StatusOf(NewStateMachine(Submitted))]]
    /\ UNCHANGED <<known, spans, uiView, reqView, signals>>

StartSpan(p) ==
    /\ job[p].at = "startSpan"
    /\ spans' = [spans EXCEPT ![job[p].task] = "active"]
    /\ Goto(p, "forward")
    /\ UNCHANGED <<tasks, meta, known, uiView, reqView, signals, messages>>

\* The id reaches a peer only inside the forwarded call; SendToAgent drops it
\* when the target is gone or its queue is full.
ForwardCall(p) ==
    /\ job[p].at = "forward" /\ job[p].in = "toolCall"
    /\ \E delivered \in BOOLEAN : known' = [known EXCEPT ![job[p].task] = delivered]
    /\ Return(p)
    /\ UNCHANGED <<tasks, meta, spans, uiView, reqView, signals, messages>>

-----------------------------------------------------------------------------
(* tasks/send: the sender chooses the id, the state and the metadata.       *)

TasksSend(p, t, initial, m) ==
    /\ Receive(p)
    /\ CreateTask(t, initial)
    /\ meta' = [meta EXCEPT ![t] = m]
    /\ known' = [known EXCEPT ![t] = TRUE]
    /\ job' = [job EXCEPT ![p] = [at |-> "readStatus", in |-> "tasksSend", task |-> t,
                                  status |-> StatusOf(NewStateMachine(initial))]]
    /\ UNCHANGED <<spans, uiView, reqView, signals>>

\* sm.Task().Status is read after the task left the goroutine's hands.
ReadStatus(p) ==
    /\ job[p].at = "readStatus"
    /\ job' = [job EXCEPT ![p].at = "broadcast",
                          ![p].status = StatusOf(tasks[job[p].task])]
    /\ UNCHANGED <<tasks, meta, known, spans, uiView, reqView, signals, messages>>

-----------------------------------------------------------------------------
(* tasks/sendUpdate: checked against the metadata, applied, then shown.     *)

AfterTransition(new, otherwise) == IF new \in TerminalState THEN "endSpan" ELSE otherwise

AuthorizedToUpdate(p, t) == p \in {meta[t].sender, meta[t].targetAgent}

TasksSendUpdate(p, t, new) ==
    /\ Receive(p)
    /\ AuthorizedToUpdate(p, t)
    /\ TransitionTask(p, t, new, "sendUpdate", AfterTransition(new, "broadcast"))
    /\ UNCHANGED <<meta, known, spans, uiView, reqView, signals>>

\* Bug: the span of a failed task is left in the map.
EndSpanUnlessFailed(p) ==
    /\ job[p].at = "endSpan"
    /\ spans' = IF spans[job[p].task] = "active" /\ job[p].status.state # Failed
                THEN [spans EXCEPT ![job[p].task] = "ended"]
                ELSE spans
    /\ Goto(p, IF job[p].in = "sendUpdate" THEN "broadcast" ELSE "forward")
    /\ UNCHANGED <<tasks, meta, known, uiView, reqView, signals, messages>>

\* Bug: the handler returns once the span is ended.
EndSpanAndReturn(p) ==
    /\ job[p].at = "endSpan"
    /\ spans' = [spans EXCEPT ![job[p].task] = "ended"]
    /\ Return(p)
    /\ UNCHANGED <<tasks, meta, known, uiView, reqView, signals, messages>>

EndSpan(p) ==
    /\ job[p].at = "endSpan"
    /\ spans' = IF spans[job[p].task] = "active"
                THEN [spans EXCEPT ![job[p].task] = "ended"]
                ELSE spans
    /\ Goto(p, IF job[p].in = "sendUpdate" THEN "broadcast" ELSE "forward")
    /\ UNCHANGED <<tasks, meta, known, uiView, reqView, signals, messages>>

\* Bug: the requester is told of its own updates too.
MustTellAlways(p) ==
    /\ job[p].in = "sendUpdate"
    /\ meta[job[p].task].sender # NoAgent

\* The requester is told unless it is the one who sent the update.
MustTell(p) ==
    /\ job[p].in = "sendUpdate"
    /\ meta[job[p].task].sender \notin {NoAgent, p}

Broadcast(p) ==
    /\ job[p].at = "broadcast"
    /\ uiView' = [uiView EXCEPT ![job[p].task] = job[p].status]
    /\ IF MustTell(p) THEN Goto(p, "tell") ELSE Return(p)
    /\ UNCHANGED <<tasks, meta, known, spans, reqView, signals, messages>>

TellRequester(p) ==
    /\ job[p].at = "tell"
    /\ \E delivered \in BOOLEAN :
           reqView' = IF delivered
                      THEN [reqView EXCEPT ![job[p].task] = job[p].status]
                      ELSE reqView
    /\ Return(p)
    /\ UNCHANGED <<tasks, meta, known, spans, uiView, signals, messages>>

-----------------------------------------------------------------------------
(* tasks/cancel: canceling, then the executing agent, then the UI.          *)

\* Nothing registers a cancel channel, so there is none to close.
CancelTask(p, t) ==
    /\ ~IsTerminal(tasks[t])
    /\ TransitionTask(p, t, Canceling, "cancel", "forward")

TasksCancel(p, t) ==
    /\ Receive(p)
    /\ CancelTask(p, t)
    /\ UNCHANGED <<meta, known, spans, uiView, reqView, signals>>

\* SendToAgent to the executing agent, when the task names one.
Deliver(t, signal) ==
    \E delivered \in BOOLEAN :
        signals' = IF delivered /\ meta[t].targetAgent # NoAgent
                   THEN [signals EXCEPT ![t] = @ \cup {Line(signal, "handler")}]
                   ELSE signals

ForwardCancel(p) ==
    /\ job[p].at = "forward" /\ job[p].in = "cancel"
    /\ IF meta[job[p].task].targetAgent # p
       THEN Deliver(job[p].task, "cancel")
       ELSE UNCHANGED signals
    /\ Goto(p, "broadcast")
    /\ UNCHANGED <<tasks, meta, known, spans, uiView, reqView, messages>>

-----------------------------------------------------------------------------
(* approval_response: from an agent's reader or from a goroutine of the UI. *)

getApprovalState(verdict) == IF verdict = "approved" THEN Working ELSE Failed

ApprovalResponse(p, t, verdict) ==
    /\ Receive(p)
    /\ LET new == getApprovalState(verdict)
       IN  TransitionTask(p, t, new, "approval", AfterTransition(new, "forward"))
    /\ UNCHANGED <<meta, known, spans, uiView, reqView, signals>>

VerdictOf(state) == IF state = Working THEN "approved" ELSE "rejected"

ForwardApproval(p) ==
    /\ job[p].at = "forward" /\ job[p].in = "approval"
    /\ Deliver(job[p].task, VerdictOf(job[p].status.state))
    /\ Goto(p, "readStatus")
    /\ UNCHANGED <<tasks, meta, known, spans, uiView, reqView, messages>>

-----------------------------------------------------------------------------
(* Who asks for what.                                                       *)

\* A line from an agent.
dispatchMessage(p) ==
    /\ p \in Agent
    /\ \E t \in TaskId :
        \/ \E target \in Agent : ToolCall(p, t, target)
        \/ \E s \in WireState \cup {EmptyState}, m \in Metadata : TasksSend(p, t, s, m)
        \/ \E s \in WireState : TasksSendUpdate(p, t, s)
        \/ TasksCancel(p, t)
        \/ \E v \in Verdict : ApprovalResponse(p, t, v)

\* A browser's verdict for the harness, in a goroutine of its own.
handleWSIncoming(p) ==
    /\ p \in UISlot
    /\ \E t \in TaskId, v \in Verdict : ApprovalResponse(p, t, v)

\* A browser's line for an agent goes to that agent as it is: no task is looked
\* up and none moves.  Here the agent is the one that executes t.
Relay(t, signal) ==
    /\ Count
    /\ meta[t].targetAgent # NoAgent
    /\ signals' = [signals EXCEPT ![t] = @ \cup {Line(signal, "browser")}]
    /\ UNCHANGED <<tasks, meta, known, spans, job, uiView, reqView>>

Request(p) == dispatchMessage(p) \/ handleWSIncoming(p)

\* The critical sections of a handler that has begun, and its sends that drop
\* what a full channel has no room for: none of them waits for a peer.
Proceed(p) ==
    \/ StartSpan(p) \/ ForwardCall(p) \/ ReadStatus(p) \/ EndSpan(p)
    \/ TellRequester(p) \/ ForwardCancel(p) \/ ForwardApproval(p)

\* A broadcast waits for every browser to take it.
Continue(p) == Proceed(p) \/ Broadcast(p)

Next ==
    \/ \E p \in Proc : Request(p) \/ Continue(p)
    \/ \E t \in TaskId, signal \in Signal : Relay(t, signal)

Spec == Init /\ [][Next]_vars

\* A goroutine that can run is run.  Requests need not arrive, and a broadcast
\* need not return: a browser that stops reading holds it, and with it
\* wsClientsMu, for as long as it likes (see Gateway).
FairSpec == Spec /\ \A p \in Proc : WF_vars(Proceed(p))

-----------------------------------------------------------------------------
TypeOK ==
    /\ tasks \in [TaskId -> Machine \cup {Absent}]
    /\ meta \in [TaskId -> Metadata]
    /\ known \in [TaskId -> BOOLEAN]
    /\ spans \in [TaskId -> {"none", "active", "ended"}]
    /\ job \in [Proc -> Job]
    /\ uiView \in [TaskId -> Status \cup {NoView}]
    /\ reqView \in [TaskId -> Status \cup {NoView}]
    /\ signals \in [TaskId -> SUBSET Lines]
    /\ messages \in 0..MaxMessages

\* status names a state the machine really was in, at that point of its path.
OnPath(sm, status) ==
    /\ sm.state # "absent"
    /\ status.pos \in DOMAIN Path(sm)
    /\ Path(sm)[status.pos] = status.state

\* What the UI and the requester are shown is never invented: every status
\* that leaves the harness was the task's at some time, though other
\* goroutines may have moved the task on since the status was taken.
ShownStatesAreReal ==
    \A t \in TaskId :
        /\ uiView[t] # NoView => OnPath(tasks[t], uiView[t])
        /\ reqView[t] # NoView => OnPath(tasks[t], reqView[t])

Earned(sm, signal) ==
    /\ signal = "approved" => \E i \in DOMAIN Path(sm) : Path(sm)[i] = Working
    /\ signal = "rejected" => sm.state = Failed
    /\ signal = "cancel" => sm.state \in {Canceling, Canceled, Failed}

\* The harness tells the executing agent "approved" only for a task that did
\* move to working, "rejected" only for one that has failed, and "cancel" only
\* for one that can no longer complete, even when the task moves between the
\* check and the send.  A signal that took no effect reaches the agent in one
\* way only: a browser addressed it to the agent, past the harness's handlers.
SignalsAreEarned ==
    \A t \in TaskId : \A line \in signals[t] :
        line.by = "handler" => Earned(tasks[t], line.signal)

\* The span of a task is ended only when the task is terminal, and a terminal
\* task whose span is still open has a goroutine on its way to end it.
SpanLedger ==
    \A t \in TaskId :
        /\ spans[t] = "ended" => IsTerminal(tasks[t])
        /\ spans[t] = "active" /\ IsTerminal(tasks[t]) =>
               \E p \in Proc : job[p].at = "endSpan" /\ job[p].task = t

ToldNothingOlder == \A t \in TaskId : reqView'[t].pos >= reqView[t].pos

\* A requester is told of the states of its task in the order the task went
\* through them, although updates, cancels and verdicts for the task run in
\* different goroutines: only the executing agent's updates are passed on,
\* and they all come through that agent's one reader.
RequesterToldInOrder == [][ToldNothingOlder]_vars

-----------------------------------------------------------------------------
(* What makes the above inductive.                                          *)

\* The machine has not left a terminal state, and has left canceling only to end.
Settled(sm) ==
    \A i \in DOMAIN sm.history :
        /\ sm.history[i] \notin TerminalState
        /\ sm.history[i] = Canceling => sm.state \in {Canceled, Failed}

PathInv == \A t \in TaskId : Settled(tasks[t])

\* No task is named or traced before it is created.
CreatedFirst == \A t \in TaskId : known[t] \/ spans[t] = "active" => Exists(t)

\* What goroutine p relies on between its critical sections.
JobInv(p) ==
    /\ OnPath(tasks[job[p].task], job[p].status)
    /\ job[p].at = "startSpan" => job[p].in = "toolCall"
    /\ job[p].at = "readStatus" => job[p].in \in {"tasksSend", "approval"}
    /\ job[p].in = "toolCall" =>
           /\ p = meta[job[p].task].sender /\ ~known[job[p].task]
           /\ tasks[job[p].task].state = Submitted
           /\ job[p].at \in {"startSpan", "forward"}
    /\ job[p].at = "endSpan" =>
           /\ job[p].in \in {"sendUpdate", "approval"}
           /\ job[p].status.state \in TerminalState
    /\ job[p].in = "cancel" => job[p].status.state = Canceling
    /\ job[p].in = "approval" /\ job[p].at \in {"endSpan", "forward"} =>
           job[p].status.state \in {Working, Failed}
    /\ job[p].in = "sendUpdate" =>
           /\ AuthorizedToUpdate(p, job[p].task)
           /\ p # meta[job[p].task].sender =>
                  reqView[job[p].task].pos <= job[p].status.pos
    /\ job[p].at = "tell" => MustTell(p)

JobsInv == \A p \in Proc : job[p] # Idle => JobInv(p)

\* The inductive invariant: each safety property above, what a goroutine
\* carries from one critical section to the next, and the paths walked so far.
IInv ==
    /\ TypeOK
    /\ PathInv
    /\ CreatedFirst
    /\ JobsInv
    /\ ShownStatesAreReal
    /\ SignalsAreEarned
    /\ SpanLedger

-----------------------------------------------------------------------------
Lifecycle == INSTANCE TaskLifecycle WITH phase <- [t \in TaskId |-> tasks[t].state]

\* However the handlers interleave, each task obeys the lifecycle.
ImplementsLifecycle == Lifecycle!Spec

\* And so its two promises: late updates, verdicts and cancels never change a
\* task that has ended, and after an accepted cancel it ends as canceled or
\* failed only.
EndedStaysEnded == Lifecycle!EndedStaysEnded
CancelSticks    == Lifecycle!CancelSticks

\* Each ended task's span is ended, though browsers stop reading: the goroutine
\* that ended the task gets to the span before it broadcasts.
SpansAreEnded ==
    \A t \in TaskId : (spans[t] = "active" /\ IsTerminal(tasks[t])) ~> (spans[t] = "ended")

CarriesEnd(p, t) ==
    /\ job[p].at \in {"endSpan", "forward", "readStatus", "broadcast"}
    /\ job[p].task = t /\ job[p].status.state \in TerminalState

\* The goroutine that moved a task to a terminal state does show the UI that
\* state, unless it is held for ever in the broadcast itself: nothing before it,
\* neither the span nor the send to an agent that is gone, keeps it from there
\* (an older status may still be shown afterwards, see UIConverges).
EndIsShown ==
    \A p \in Proc, t \in TaskId :
        CarriesEnd(p, t) ~>
            \/ uiView[t].state = tasks[t].state
            \/ [](job[p].at = "broadcast" /\ CarriesEnd(p, t))

\* What "real-time task status" and "State synchronization" (README) would
\* need: when no handler is running, the UI shows the state of every task it
\* has been shown.
UIConverges ==
    (\A p \in Proc : job[p] = Idle) =>
        \A t \in TaskId : uiView[t] = NoView \/ uiView[t].state = tasks[t].state

\* What the approval gate promises (types.go: Status is "approved" or
\* "rejected"; the worker's "Transition to failed (rejected)"): a task that
\* waits for approval can be answered either way.
EitherVerdictIsAccepted ==
    \A t \in TaskId : tasks[t].state = InputRequired =>
        \A v \in Verdict : Accepts(tasks[t], getApprovalState(v))
=============================================================================
