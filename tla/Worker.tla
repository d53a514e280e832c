------------------------------- MODULE Worker -------------------------------
(***************************************************************************)
(* The shell worker (agent/worker/main.go): one goroutine reads the        *)
(* messages of the harness, asks for approval, runs the approved command   *)
(* and waits for it; one watcher goroutine per started command waits for   *)
(* its cancel channel.                                                     *)
(*                                                                         *)
(* HarnessSends is the harness as HarnessTasks shows it: each call is      *)
(* forwarded once, and cancels and verdicts follow it any number of times  *)
(* and in any order.  (A browser could write calls of its own to the       *)
(* worker, see HarnessTasks, Relay: the same id twice is left out here.)   *)
(***************************************************************************)
EXTENDS StateMachine, SequencesExt, FiniteSets

CONSTANTS
    TaskId,
    NoTask,       \* no command is being waited for
    MaxMessages   \* bound on the messages the harness sends

ASSUME NoTaskIsNoTask == NoTask \notin TaskId
ASSUME MaxMessagesNat == MaxMessages \in Nat

VARIABLES
    inbox,      \* lines in the socket, oldest first
    messages,   \* lines sent so far
    pending,    \* the keys of taskCtxs
    requester,  \* the call names somebody to answer
    cancelCh,   \* cancelChans: "none", "open", "closed"
    busy,       \* the task whose cmd.Wait the reader is in
    process,    \* the command's shell: "none", "running", "succeeded", "broke", "killed"
    child,      \* a process it started has the command's output open
    execCtx,    \* "none", "live", "canceled"
    watcher,    \* "none", "selecting", "killed" (cancel() still to come), "done"
    verdict,    \* (history) the first verdict read for the task
    reports,    \* states sent with tasks/sendUpdate
    responses,  \* statuses sent with mcp/tools/call/response
    panicked    \* close of a closed channel has ended the worker

vars == <<inbox, messages, pending, requester, cancelCh, busy, process, child, execCtx,
          watcher, verdict, reports, responses, panicked>>

Verdict == {"approved", "rejected"}
Message == [method : {"call", "cancel"} \cup Verdict, task : TaskId]
Ended   == {"succeeded", "broke", "killed"}

Init ==
    /\ inbox = <<>>
    /\ messages = 0
    /\ pending = {}
    /\ requester = [t \in TaskId |-> FALSE]
    /\ cancelCh = [t \in TaskId |-> "none"]
    /\ busy = NoTask
    /\ process = [t \in TaskId |-> "none"]
    /\ child = [t \in TaskId |-> FALSE]
    /\ execCtx = [t \in TaskId |-> "none"]
    /\ watcher = [t \in TaskId |-> "none"]
    /\ verdict = [t \in TaskId |-> "none"]
    /\ reports = [t \in TaskId |-> <<>>]
    /\ responses = [t \in TaskId |-> <<>>]
    /\ panicked = FALSE

Called(t) ==
    cancelCh[t] # "none" \/ [method |-> "call", task |-> t] \in ToSet(inbox)

HarnessSends(m) ==
    /\ messages < MaxMessages
    /\ (m.method = "call") # Called(m.task)
    /\ inbox' = Append(inbox, m)
    /\ messages' = messages + 1
    /\ UNCHANGED <<pending, requester, cancelCh, busy, process, child, execCtx, watcher,
                   verdict, reports, responses, panicked>>

-----------------------------------------------------------------------------
(* The reader.  While it waits for a command it reads nothing.              *)

Read(method, t) ==
    /\ busy = NoTask
    /\ inbox # <<>> /\ Head(inbox) = [method |-> method, task |-> t]
    /\ inbox' = Tail(inbox)
    /\ UNCHANGED messages

Report(t, states) == reports' = [reports EXCEPT ![t] = @ \o states]

\* A call without a requester is not answered.
Respond(t, status) ==
    responses' = [responses EXCEPT ![t] = IF requester[t] THEN Append(@, status) ELSE @]

ToolsCall(t) ==
    /\ Read("call", t)
    /\ pending' = pending \cup {t}
    /\ \E named \in BOOLEAN : requester' = [requester EXCEPT ![t] = named]
    /\ cancelCh' = [cancelCh EXCEPT ![t] = "open"]
    /\ Report(t, <<InputRequired>>)
    /\ UNCHANGED <<busy, process, child, execCtx, watcher, verdict, responses, panicked>>

TasksCancel(t) ==
    /\ Read("cancel", t)
    /\ cancelCh' = [cancelCh EXCEPT ![t] = IF @ = "none" THEN @ ELSE "closed"]
    /\ panicked' = (cancelCh[t] = "closed")
    /\ UNCHANGED <<pending, requester, busy, process, child, execCtx, watcher, verdict,
                   reports, responses>>

\* A verdict for a task that is not, or no longer, in taskCtxs.
UnknownTask(t, v) ==
    /\ Read(v, t)
    /\ t \notin pending
    /\ UNCHANGED <<pending, requester, cancelCh, busy, process, child, execCtx, watcher,
                   verdict, reports, responses, panicked>>

FirstVerdict(t, v) ==
    verdict' = [verdict EXCEPT ![t] = IF @ = "none" THEN v ELSE @]

\* Bug: the context of a rejected call is kept.
RejectedAndKept(t) ==
    /\ Read("rejected", t)
    /\ t \in pending
    /\ FirstVerdict(t, "rejected")
    /\ Report(t, <<Failed>>)
    /\ Respond(t, "error")
    /\ UNCHANGED <<pending, requester, cancelCh, busy, process, child, execCtx, watcher,
                   panicked>>

Rejected(t) ==
    /\ Read("rejected", t)
    /\ t \in pending
    /\ FirstVerdict(t, "rejected")
    /\ Report(t, <<Failed>>)
    /\ Respond(t, "error")
    /\ pending' = pending \ {t}
    /\ UNCHANGED <<requester, cancelCh, busy, process, child, execCtx, watcher, panicked>>

\* Bug: a task canceled before it starts gets no watcher.
ApprovedWatchedIfOpen(t) ==
    /\ Read("approved", t)
    /\ t \in pending
    /\ FirstVerdict(t, "approved")
    /\ Report(t, <<Working>>)
    /\ execCtx' = [execCtx EXCEPT ![t] = "live"]
    /\ process' = [process EXCEPT ![t] = "running"]
    /\ watcher' = [watcher EXCEPT ![t] = IF cancelCh[t] = "open" THEN "selecting" ELSE "none"]
    /\ busy' = t
    /\ UNCHANGED <<pending, requester, cancelCh, child, responses, panicked>>

\* cmd.Start succeeds: the watcher is started and cmd.Wait is entered.
Approved(t) ==
    /\ Read("approved", t)
    /\ t \in pending
    /\ FirstVerdict(t, "approved")
    /\ Report(t, <<Working>>)
    /\ execCtx' = [execCtx EXCEPT ![t] = "live"]
    /\ process' = [process EXCEPT ![t] = "running"]
    /\ watcher' = [watcher EXCEPT ![t] = "selecting"]
    /\ busy' = t
    /\ UNCHANGED <<pending, requester, cancelCh, child, responses, panicked>>

\* cmd.Start returns an error.
StartFails(t) ==
    /\ Read("approved", t)
    /\ t \in pending
    /\ FirstVerdict(t, "approved")
    /\ Report(t, <<Working, Failed>>)
    /\ Respond(t, "error")
    /\ execCtx' = [execCtx EXCEPT ![t] = "live"]
    /\ pending' = pending \ {t}
    /\ UNCHANGED <<requester, cancelCh, busy, process, child, watcher, panicked>>

\* What Wait's error and the context decide.  A command that ended well is
\* still reported canceled when Wait saw the context end first.
Outcome(t) ==
    CASE process[t] = "succeeded" /\ execCtx[t] = "canceled" -> {Completed, Canceled}
      [] process[t] = "succeeded" /\ execCtx[t] # "canceled" -> {Completed}
      [] process[t] # "succeeded" /\ execCtx[t] = "canceled" -> {Canceled}
      [] OTHER -> {Failed}

\* Bug: the task's state is sent as the MCP status.
WaitReturnsStateAsStatus(t) ==
    /\ busy = t /\ process[t] \in Ended /\ ~child[t]
    /\ \E o \in Outcome(t) : Report(t, <<o>>) /\ Respond(t, o)
    /\ pending' = pending \ {t}
    /\ busy' = NoTask
    /\ UNCHANGED <<inbox, messages, requester, cancelCh, process, child, execCtx, watcher,
                   verdict, panicked>>

\* cmd.Wait returns once the shell has ended and nobody has the output open any
\* more (Stdout is no file, and there is no WaitDelay): the outcome, then the
\* answer to the requester.
WaitReturns(t) ==
    /\ busy = t /\ process[t] \in Ended /\ ~child[t]
    /\ \E o \in Outcome(t) :
           /\ Report(t, <<o>>)
           /\ Respond(t, IF o = Failed THEN "error" ELSE "success")
    /\ pending' = pending \ {t}
    /\ busy' = NoTask
    /\ UNCHANGED <<inbox, messages, requester, cancelCh, process, child, execCtx, watcher,
                   verdict, panicked>>

-----------------------------------------------------------------------------
(* The command and its watcher.                                             *)

CommandEnds(t) ==
    /\ process[t] = "running"
    /\ \E how \in {"succeeded", "broke"} : process' = [process EXCEPT ![t] = how]
    /\ UNCHANGED <<inbox, messages, pending, requester, cancelCh, busy, child, execCtx,
                   watcher, verdict, reports, responses, panicked>>

\* The shell starts a process that writes to the same output, or all that it
\* started have ended.  Killing the shell does not end them.
Forks(t) ==
    /\ process[t] = "running"
    /\ child' = [child EXCEPT ![t] = TRUE]
    /\ UNCHANGED <<inbox, messages, pending, requester, cancelCh, busy, process, execCtx,
                   watcher, verdict, reports, responses, panicked>>

ChildrenEnd(t) ==
    /\ child[t]
    /\ child' = [child EXCEPT ![t] = FALSE]
    /\ UNCHANGED <<inbox, messages, pending, requester, cancelCh, busy, process, execCtx,
                   watcher, verdict, reports, responses, panicked>>

\* Bug: the watcher reacts to any task's cancel.
WatcherKillsOnAnyCancel(t) ==
    /\ watcher[t] = "selecting" /\ \E u \in TaskId : cancelCh[u] = "closed"
    /\ watcher' = [watcher EXCEPT ![t] = "killed"]
    /\ process' = [process EXCEPT ![t] = IF @ = "running" THEN "killed" ELSE @]
    /\ UNCHANGED <<inbox, messages, pending, requester, cancelCh, busy, child, execCtx,
                   verdict, reports, responses, panicked>>

\* The watcher outlives the command: the deferred cancel runs only when main ends.
WatcherKills(t) ==
    /\ watcher[t] = "selecting" /\ cancelCh[t] = "closed"
    /\ watcher' = [watcher EXCEPT ![t] = "killed"]
    /\ process' = [process EXCEPT ![t] = IF @ = "running" THEN "killed" ELSE @]
    /\ UNCHANGED <<inbox, messages, pending, requester, cancelCh, busy, child, execCtx,
                   verdict, reports, responses, panicked>>

WatcherCancels(t) ==
    /\ watcher[t] = "killed"
    /\ watcher' = [watcher EXCEPT ![t] = "done"]
    /\ execCtx' = [execCtx EXCEPT ![t] = "canceled"]
    /\ UNCHANGED <<inbox, messages, pending, requester, cancelCh, busy, process, child,
                   verdict, reports, responses, panicked>>

-----------------------------------------------------------------------------
Reader(t) ==
    \/ ToolsCall(t) \/ TasksCancel(t) \/ Rejected(t) \/ Approved(t) \/ StartFails(t)
    \/ WaitReturns(t) \/ \E v \in Verdict : UnknownTask(t, v)

Watcher(t) == WatcherKills(t) \/ WatcherCancels(t)

Command(t) == CommandEnds(t) \/ Forks(t) \/ ChildrenEnd(t)

Next ==
    /\ ~panicked
    /\ \/ \E m \in Message : HarnessSends(m)
       \/ \E t \in TaskId : Reader(t) \/ Watcher(t) \/ Command(t)

Spec == Init /\ [][Next]_vars

\* Both goroutines are scheduled; a command need not end by itself, and what it
\* started need not end at all.
FairSpec ==
    /\ Spec
    /\ WF_vars(~panicked /\ \E t \in TaskId : Reader(t))
    /\ \A t \in TaskId : WF_vars(~panicked /\ Watcher(t))

-----------------------------------------------------------------------------
TypeOK ==
    /\ inbox \in Seq(Message)
    /\ messages \in 0..MaxMessages
    /\ pending \subseteq TaskId
    /\ requester \in [TaskId -> BOOLEAN]
    /\ cancelCh \in [TaskId -> {"none", "open", "closed"}]
    /\ busy \in TaskId \cup {NoTask}
    /\ process \in [TaskId -> {"none", "running"} \cup Ended]
    /\ child \in [TaskId -> BOOLEAN]
    /\ execCtx \in [TaskId -> {"none", "live", "canceled"}]
    /\ watcher \in [TaskId -> {"none", "selecting", "killed", "done"}]
    /\ verdict \in [TaskId -> Verdict \cup {"none"}]
    /\ reports \in [TaskId -> Seq(TaskState)]
    /\ responses \in [TaskId -> Seq({"success", "error"})]
    /\ panicked \in BOOLEAN

Conversation ==
    {<<>>, <<InputRequired>>, <<InputRequired, Failed>>, <<InputRequired, Working>>}
        \cup {<<InputRequired, Working, end>> : end \in TerminalState}

\* The first verdict decides, once: however many approvals, rejections and
\* cancels arrive, and in whatever order, a call's command runs at most once and
\* only if it was approved before it was rejected; what the worker tells the
\* harness is one conversation, and the requester, if the call names one, gets
\* one answer with its end.
FirstVerdictDecides ==
    \A t \in TaskId :
        /\ reports[t] \in Conversation
        /\ Working \in ToSet(reports[t]) => verdict[t] = "approved"
        /\ process[t] # "none" => verdict[t] = "approved"
        /\ Len(responses[t]) = IF requester[t]
                               THEN Cardinality({i \in DOMAIN reports[t] :
                                                     reports[t][i] \in TerminalState})
                               ELSE 0

\* Only a cancel for the very task kills its command or reports it canceled,
\* and a task is reported completed only if its command did end well.
OutcomeIsTrue ==
    \A t \in TaskId :
        /\ process[t] = "killed" \/ Canceled \in ToSet(reports[t]) => cancelCh[t] = "closed"
        /\ Completed \in ToSet(reports[t]) => process[t] = "succeeded"

-----------------------------------------------------------------------------
(* What makes these inductive.                                              *)

Untouched(t) ==
    /\ process[t] = "none" /\ execCtx[t] = "none" /\ watcher[t] = "none"
    /\ verdict[t] = "none" /\ responses[t] = <<>>

Answered(t) == Len(responses[t]) = IF requester[t] THEN 1 ELSE 0

\* How a task ended: rejected, or approved and then as its command did.
EndedAs(t, end) ==
    /\ verdict[t] = "approved"
    /\ reports[t] = <<InputRequired, Working, end>>
    /\ Answered(t)
    /\ end = Canceled => cancelCh[t] = "closed"
    /\ end = Completed => process[t] = "succeeded"

EndedRejected(t) ==
    /\ verdict[t] = "rejected"
    /\ reports[t] = <<InputRequired, Failed>>
    /\ process[t] = "none"
    /\ Answered(t)

\* The stages of a task: not called yet, waiting for a verdict, executed, ended.
StageInv ==
    \A t \in TaskId :
        /\ cancelCh[t] = "none" => t \notin pending /\ reports[t] = <<>> /\ Untouched(t)
        /\ t \in pending /\ busy # t => reports[t] = <<InputRequired>> /\ Untouched(t)
        /\ busy = t =>
               /\ t \in pending /\ reports[t] = <<InputRequired, Working>>
               /\ verdict[t] = "approved" /\ process[t] # "none" /\ responses[t] = <<>>
        /\ t \notin pending /\ cancelCh[t] # "none" =>
               EndedRejected(t) \/ \E end \in TerminalState : EndedAs(t, end)

\* Nothing but the task's own cancel gets its watcher going.
CancelInv ==
    \A t \in TaskId :
        process[t] = "killed" \/ execCtx[t] = "canceled" \/ watcher[t] \in {"killed", "done"}
            => cancelCh[t] = "closed"

\* A call is in the socket once, and verdicts and cancels follow it.
InboxInv ==
    \A t \in TaskId, i \in DOMAIN inbox :
        inbox[i].task = t =>
            IF inbox[i].method = "call"
            THEN /\ cancelCh[t] = "none"
                 /\ \A j \in DOMAIN inbox : inbox[j] = inbox[i] => j = i
            ELSE \/ cancelCh[t] # "none"
                 \/ \E j \in DOMAIN inbox : j < i /\ inbox[j] = [method |-> "call", task |-> t]

IInv ==
    TypeOK /\ StageInv /\ CancelInv /\ InboxInv /\ FirstVerdictDecides /\ OutcomeIsTrue

-----------------------------------------------------------------------------
\* A cancel that was read before the command was started cuts the command
\* short: its task's end is reported even if the shell would never end.  Only a
\* process that the shell started and that keeps the output open can prevent it,
\* as long as it does: the kill is for the shell alone.
EarlyCancelCutsShort ==
    \A t \in TaskId :
        (busy = t /\ cancelCh[t] = "closed") ~>
            \/ panicked
            \/ \E s \in TerminalState : s \in ToSet(reports[t])
            \/ [](process[t] \in Ended /\ child[t])

\* "Execute shell command with cancellation support" (worker/main.go:204): a
\* cancel that arrives while the command runs ends it.
CancelEndsCommand ==
    \A t \in TaskId :
        (busy = t /\ [method |-> "cancel", task |-> t] \in ToSet(inbox)) ~> (busy # t)
=============================================================================
