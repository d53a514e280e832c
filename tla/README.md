# A formal model of the ACP Go mesh

TLA+ modules for the Go code of this repository, the TLC configurations that check them on small
instances, and proofs that TLAPS checks for every value of the constants. Paths below are relative
to the repository root.

## 1. The system

### Components

| Component | Source | State | Operations |
| --- | --- | --- | --- |
| Task state machine | `pkg/a2a/statemachine.go` | one task's state, history, artifacts, metadata, under `sm.mu` | `NewStateMachine`, `Transition`, `CanTransition`, `IsTerminal`, `History`, `SetArtifact`, `SetMetadata` |
| Task store: tasks | `pkg/harness/taskstore.go` | `tasks`, `subs`, `cancelChans`, under `ts.mu` | `CreateTask`, `GetTask`, `TransitionTask`, `CancelTask`, `Subscribe`/`Unsubscribe`, `RegisterCancel`, `BroadcastTaskUpdate` (the last four have no caller here) |
| Task store: agents | `pkg/harness/taskstore.go` | `agents`, `agentConns`, `skillsIndex`, `skillRR`, under `ts.mu` | `RegisterAgentConn`, `RegisterAgentCard`, `UnregisterAgent`, `SendToAgent`, `FindAgentBySkill` |
| Harness: connections | `main.go` | per connection a reader goroutine, a writer goroutine, `outbound` (64); `agentConns`, `capabilities`, `tools`, `topologyCache` under `stateMu` | `handleUDSConnection`, `handleRegister`, `cleanupAgent`, replies |
| Harness: task handlers | `main.go` | `activeSpans` under `activeSpansMu` | `handleMCPToolsCall`, `handleTasksSend`, `handleTasksSendUpdate`, `handleTasksCancel`, `handleApprovalResponse` |
| Harness: routing | `main.go` | `tools` | `handleDefaultRoute`, `handleDiscover`, `handleMCPToolsList` |
| WebSocket gateway, sessions | `main.go`, `taskstore.go` | `wsClients` under `wsClientsMu`; `sessions` | `broadcastWS`, `handleWebSocket`, `handleWSIncoming`, `recordSessionMessage` |
| Worker | `agent/worker/main.go` | `taskCtxs`, `cancelChans`, the running command, a watcher per command | tool call, cancel, approval |
| Manager | `agent/manager/main.go` | `pendingUserIntent`, `availableTools`, `tracker` | user intent, tools list, call response, task update |
| Wire format | `pkg/a2a/types.go` | none | `ACPMessage`, `A2AEnvelope`, `ToACPMessage`, `ToA2AEnvelope`, decoders |
| Web UI, bridges, deployment | `ui/`, `scripts/`, `deploy/`, `systemd/` | outside the mesh protocol | |

### How they interact

An agent connects to the harness over a Unix socket and registers. Every connection has one reader
goroutine, which runs a handler to its end before it reads the next line, and one writer goroutine,
fed by a bounded channel. Handlers of different connections run in parallel and share the task
store; each takes a lock for one map operation, releases it, and goes on with what it read. A
verdict from the web UI runs in a goroutine of its own. A message for another agent is a
non-blocking send on that agent's channel (`SendToAgent`, dropped when full); a reply to the
requester itself is a blocking send. A browser's line for the harness is handled there; one for an
agent goes to that agent as it is, past every handler. The worker asks for approval with an
`input-required` update, runs the command when it is approved, and waits for it in the same
goroutine that reads its socket.

### What is hard

- **Interleaving.** A handler is a chain of critical sections: transition, span, broadcast, forward.
  Everything between two of them is open to every other goroutine.
- **Stale values.** The status a handler broadcasts or forwards was taken at its transition.
- **Disconnects and re-registration.** Registration and cleanup each go through two registries under
  two locks, and a restarted agent comes back under the same id.
- **Bounded channels.** A full channel drops one kind of message and blocks the other kind.
- **Cancellation.** It crosses the harness, the worker's socket, a channel and a watcher goroutine,
  and its kill reaches the shell but not what the shell has started.
- **One lock for all browsers.** `broadcastWS` writes to every client under `wsClientsMu` and without
  a deadline, so a browser that does not read holds whoever broadcasts: a handler between two
  critical sections, a reader before its next line. The snapshot of a new client is written without
  the lock.
- **Two wire formats.** Who writes which, and who reads which, decides what arrives.

`PROJECT.json` lists each hazard at its line, with the properties that cover it.

### What makes each component correct

- *State machine*: an ended task stays ended; an accepted cancel sticks.
- *Task handlers*: nobody is shown a state the task was never in; a requester is told in order; no
  handler passes a refused verdict or cancel on to the worker; each span ends once the task does.
- *Connections*: no registry keeps a connection that is gone under its last id; nothing queued is
  thrown away while the socket lives; every dead socket is cleaned up unless a browser holds the
  reader; an agent can be sent to while it is registered.
- *Worker*: a command runs at most once, and only on an approval that came first; outcomes are
  true; cancels take effect.
- *Registry*: index and cards agree; the index lists only agents that can be sent to, but for one
  overlap; the tool table names nobody who was cleaned up; round-robin passes nobody over; a tool
  that is there all along is found.
- *Store, subscriptions*: a subscriber is sent what happens from then on, in order; it is held up by
  nobody and holds up nobody; no closed channel is sent to or closed again.
- *Gateway*: a client misses nothing that is recorded after it came; only a client that does not read
  can hold up another; clients that left are forgotten.
- *Wire format*: what one side writes the other side reads.
- *Manager, whole mesh*: a user's intent becomes a task of the worker.

## 2. Modules

| Module | Models | State ↔ code |
| --- | --- | --- |
| `StateMachine` | `statemachine.go` as operators on a machine value | `[state, history]` is `task.Status.State` and the states in `history` |
| `TaskLifecycle` | the abstract promise of a task | `phase[t]` |
| `HarnessTasks` | the task handlers over the task store | below |
| `TaskSubscriptions` | the task store with its subscribers and cancel channels | below |
| `AgentConnections` | `handleUDSConnection`, `handleRegister`, `cleanupAgent` and the store's part of them | below |
| `AgentRegistry`, `AgentRegistryMC` | `RegisterAgentCard`, `UnregisterAgent`, `FindAgentBySkill`, the tool table, lookups; the offers agents make | below |
| `Gateway` | WebSocket clients, broadcasts, sessions | below |
| `Worker` | `agent/worker/main.go` | below |
| `WireFormat` | the structs of `pkg/a2a/types.go`, their conversions, writing one and reading the other | records with the JSON names |
| `Mesh` | UI, harness, manager and worker over `WireFormat`'s lines | below |
| `*Proofs` | the theorems about the module of that name (`MeshProofs`: about `WireFormat` too) | |

How they fit together: `StateMachine` is extended by every module that holds a task's state.
`HarnessTasks` and `TaskSubscriptions` each implement `TaskLifecycle` (`INSTANCE ... WITH phase <- `
the states of the stored tasks): once with all the harness's handlers and no subscriber, once with
subscribers and the store's own operations called in any order. `Mesh` extends `WireFormat`, whose
`Value` is there the messages' `Body`.

Definitions marked `\* Bug:` are plausible mistakes in the definition that follows them. No
specification uses them; they are there to show that each property can fail.

### HarnessTasks

`tasks[t]` is the machine in `ts.tasks`, `meta[t]` the `sender` and `targetAgent` entries of its
metadata, `spans[t]` the entry in `activeSpans`. `job[p]` is where goroutine `p` stands between two
critical sections and the status it holds in its local variables. `uiView`, `reqView` and `signals`
are the last `task_update` broadcast, the last `tasks/sendUpdate` queued for the requester, and the
verdicts and cancels queued for the executing agent, each with who sent it: a handler of the harness,
or a browser. `known[t]` says the id has left the harness. A status carries its
position on the task's path (a history variable), so that "older" can be stated.

| Action | Code |
| --- | --- |
| `ToolCall`, `StartSpan`, `ForwardCall` | `handleMCPToolsCall`: create, `activeSpans`, `SendToAgent` |
| `TasksSend`, `ReadStatus`, `Broadcast` | `handleTasksSend` |
| `TasksSendUpdate`, `EndSpan`, `Broadcast`, `TellRequester` | `handleTasksSendUpdate` |
| `TasksCancel`, `ForwardCancel`, `Broadcast` | `handleTasksCancel` with `CancelTask` |
| `ApprovalResponse`, `EndSpan`, `ForwardApproval`, `ReadStatus`, `Broadcast` | `handleApprovalResponse`, `forwardApproval`, `broadcastTaskToUI` |
| `Relay` | the `else` branch of `handleWSIncoming`: a browser's line with an agent as target |

`dispatchMessage` is what an agent's line may start, `handleWSIncoming` what a browser's line for the
harness may.

Modelling decisions:

- An agent has one connection and names itself truthfully as sender; reconnection is
  `AgentConnections`.
- Task ids of tool calls are fresh (the code takes nanoseconds); ids of `tasks/send` are chosen by
  the sender, and so are state and metadata.
- A handler that returns early changes nothing that is modelled and is no step. This covers an
  unknown task, a refused sender or transition, and a tool nobody offers.
- `Relay` moves no task, whatever it carries. `SignalsAreEarned` is therefore a property of the lines
  that handlers send; that a browser can give the worker a verdict the harness never saw is what the
  code does, and the property names it as the only other source.
- `approval_request` is broadcast just before the `task_update` of the same status, and is merged
  with it. Artifacts, messages, timestamps and traces are data and are left out.
- `SendToAgent` may drop any message (`delivered` is free): the target may be gone or its channel
  full.
- Every state the wire can carry beyond the seven defined ones behaves alike and is `"unknown"`. The
  empty string is written `"blank"`.
- `RegisterCancel` has no caller, so `CancelTask` finds no channel to close.

### AgentConnections

`reader[c]`, `writer[c]`, `queue[c]` (length of `outbound`), `closed[c]`, `sock[c]` and `ident[c]`
(`myAgentID`) are the state of one run of `handleUDSConnection`. `stateReg` stands for the four maps
under `stateMu`, which are always written together, and `storeReg` is `ts.agentConns`; the cards are
in `AgentRegistry`. `lost` counts messages taken off the channel and not delivered. A send on a
closed channel panics, which ends the harness (`panicked`). A line over the scanner's limit ends the
reader with the socket open (`LineTooLong`).

| Action | Code |
| --- | --- |
| `RegisterState`, `RegisterAgentConn`, `Announce` | `handleRegister`: `stateMu`, `ts.mu`, the broadcasts |
| `Request`, `Trace`, `Reply` | any other line: `acp_trace` or `session_update`, then perhaps an answer |
| `EndOfInput`, `LineTooLong`, `CloseOutbound`, `WaitForWriter` | the end of the scanner's loop and what follows it |
| `CleanState`, `UnregisterAgent`, `Leave` | `cleanupAgent`: `stateMu`, `ts.mu`, the broadcasts; `conn.Close` |
| `Write`, `WriteFails`, `Discard`, `WriterReturns` | the writer goroutine |
| `SendToAgent` | any other goroutine |

`RegisterState` takes any sender, as `handleRegister` does: also another id than the connection had,
and the empty one (`NoId`). `cleanupAgent` knows the last id only and returns at once for the empty
one, so such a connection leaves its earlier ids, and the empty one, in the registries with a closed
channel. `NoGhosts` speaks of the last id for that reason; the agents of this repository register
once, under one id. `Announce`, `Trace` and `Leave` are the reader's broadcasts, where a browser that
does not read holds it: they may last for ever.

### Worker

`inbox` is the socket. `pending` is the key set of `taskCtxs` and `cancelCh` is `cancelChans`.
`busy` is the task whose `cmd.Wait` holds the reader. `process`, `execCtx` and `watcher` are the
command's shell, its context and its goroutine. `child[t]` says that a process the shell has started
has the command's output open: the kill does not reach it, and `cmd.Wait` does not return before it
lets go of the pipe, because the output is a buffer and `WaitDelay` is not set. `requester[t]` says
that the call names somebody to answer. The watcher kills first and cancels the context second, and
the two steps are separate. The context's deferred `cancel` runs only when `main` ends, so a watcher
outlives its command. `HarnessSends` is the harness: it sends each call once, then verdicts and
cancels in any order and any number. (A browser that writes a second call of the same id to the
worker, past the harness, is left out.) The worker's tool is `execute_shell`; calls of other tools are
ignored, as in the code. Not modelled: the connection's end, and the `exit_ok` entry of the result
(it reads the dial error and so is always true).

### AgentRegistry

`agents[a]` is the stored card, reduced to the two lists that are indexed; `skillsIndex` and
`skillRR` are the maps of that name, with the empty list and 0 for an absent key; `agentConns` says
for whom the store has a channel; `tools` is the harness's tool table. `at[c]` is where the reader of
connection `c` stands, under the id `ident[c]`: a registration writes the tool table under `stateMu`
(`away` or `serving` to `conn`), then the channel (`card`) and the index (`serving`), each under
`ts.mu`; a cleanup takes out the tools (`leaving`) and then channel, card and index together (`away`).
`offer[c]` is the registration being carried out. Several connections may have one id, and each step
of one may come between any two of another; a connection may also register again under another id.
`lookup[k]` is a tool call between its look into the index and its look into the table.

Four history variables. `waited` counts the picks of a skill since an agent was last picked, and
starts over when the list changes. `lookup[k].steady` are the agents that have had the skill ever
since the call was read. `left` are the ids a connection gave up for another: nobody cleans up after
them, so the tool table may go on naming them (until somebody comes under that id again).
`overtaken` are the ids whose registration had its channel taken away, by another connection's
`UnregisterAgent`, before its card was in: such an agent is then listed and cannot be sent to (until
its channel is registered again or it is cleaned up). `ToolsNameThePresent` and `ListedIsReachable`
each say that this is the only exception.

| Action | Code |
| --- | --- |
| `RegisterState`, `RegisterAgentConn`, `RegisterAgentCard` | `handleRegister`; the card is replaced only if the message has one |
| `CleanState`, `UnregisterAgent` | `cleanupAgent` |
| `ReadCall`, `LookIntoIndex` (with `FindAgentBySkill`), `LookIntoTools`, `RefuseCall` | `handleMCPToolsCall` up to its target |

Skills, legacy capabilities and tool names are one name space, since lookups try them on one name.
A skill id listed twice in one list of a card behaves as one in both lists. The other user of
`FindAgentBySkill`, the skill routing of `handleDefaultRoute`, is never reached:
`RequiredSkills` is not set by `ToACPMessage`, the only source of the messages it is given.

### TaskSubscriptions

The variables are the maps of `TaskStore`: `tasks`, `subs`, `cancelChans`. A channel made by
`Subscribe` is a `Subscriber`: `stream[x]` is all that was ever put into it and `taken[x]` how much of
it was received, so its buffer is what lies between; `offered[x]` counts the sends, dropped ones
included. `log[t]` are the updates that `TransitionTask` sent. A channel made by `RegisterCancel`
is a `Waiter`, and `signalled` are those closed.

Every operation holds `ts.mu` from beginning to end and is one step. `BroadcastTaskUpdate` holds it
for reading only: `BeginBroadcast`, `BroadcastTo` for each subscriber, `EndBroadcast`; `NoReaders` is
the condition of all others. Two facts of the code that the properties had to respect: `CancelTask`
moves the machine itself and sends no update, so a subscriber is not told `canceling`; and
`RegisterCancel` replaces the channel of an earlier call, which is then never closed.

No part of this program subscribes or registers a cancel channel yet. The module is what the store
owes to whoever will.

### Gateway

`record[s]` is the number of messages of session `s`, `topology` the number of changes of
`topologyCache`. `job[p]` is what goroutine `p` broadcasts next and after that. `lock` and `todo` are
`broadcastWS` under way: its holder and the clients still to be written to. `point[c]` is where
`handleWebSocket` stands, `snapshot[c]` what it has read for the client and not yet written. `sock[c]`
and `unread[c]` are the socket: it takes `BufCap` unread messages, then a write waits. `got[c]` is
what has been written to it.

| Action | Code |
| --- | --- |
| `recordSessionMessage`, `ChangeTopology`, `Announce` | everything agents and terminals cause to be broadcast |
| `CopyState`, `Lock`, `WriteTo`, `Unlock` | `broadcastState`, `broadcastWS` |
| `Register`, `getWSStateUpdate`, `GetSessionRecentUpdates`, `WriteSnapshot` | `handleWebSocket` up to its read loop |
| `handleWSIncoming`, `EndOfInput`, `Unregister` | the read loop and what follows it |
| `SnapshotPanics`, `BroadcastPanics` | two writers on one connection |

The last row is external: gorilla/websocket panics when it notices a concurrent write. In a client's
own goroutine `net/http` recovers the panic, and the client stays in `wsClients` (`crashed`), because
its removal is not deferred; in any other goroutine the harness ends (`panicked`). That it may fail to
notice, and interleave two frames, is left out. Browsers owe nothing: they read when they like, stop,
or close.

### WireFormat and Mesh

A struct is a record with the names of its JSON tags. `Marshal` leaves out what `omitempty` leaves
out; `UnmarshalEnvelope` ignores unknown keys and gives absent ones their zero value. `ToACPMessage`
decodes the payload into a map, where every number becomes a float64: `Decodable` are the contents for
which that succeeds, and `Decoded` is what they are afterwards. To the few strings and lists that
`Mesh`'s messages carry nothing happens. `Mesh` puts such
lines into queues: a user's intent, given in the page or by an agent (as the smoke test does), goes
through the harness to the manager, whose `mcp/tools/list` is answered by the harness, whose tool
call becomes a task and goes to the worker, whose `input-required` goes back. Agents are registered
and connected, and no queue has a bound; those matters are in `AgentConnections` and `AgentRegistry`.

| Action | Code |
| --- | --- |
| `UserIntent`, `AgentIntent` | the page's send button; `scripts/smoke.go` |
| `RelayFromUI`, `DefaultRoute`, `MCPToolsList`, `MCPToolsCall`, `TasksSendUpdate` | `handleWSIncoming`, `dispatchMessage` and its handlers |
| `ManagerIntent`, `ManagerToolsList`, `ManagerUpdate` | the manager's message loop |
| `WorkerCall` | the worker's answer to a call |

### What the models share

`HarnessTasks`, `Worker` and `Gateway` take messages as understood, to show what the handlers do with
them. `Mesh` shows that in this commit the harness and the page write `params` where manager, worker
and harness read `payload`, so most messages arrive without their parameters (this includes the
page's verdicts). The handlers' properties matter once both sides agree on a format; if
`UnmarshalEnvelope` also read `params`, `Mesh`'s property would hold.

## 3. What TLC checks

| Run | Checks | Instance |
| --- | --- | --- |
| `tasks` | type, `ShownStatesAreReal`, `SignalsAreEarned`, `SpanLedger`, `IInv`, `RequesterToldInOrder`, `ImplementsLifecycle`, `EndedStaysEnded`, `CancelSticks`, `SpansAreEnded`, `EndIsShown` | 2 agents, 2 UI goroutines, 1 task, 3 requests |
| `ui_converges` | `UIConverges` **fails** | 2 agents, 1 UI goroutine, 3 requests |
| `either_verdict` | `EitherVerdictIsAccepted` **fails** | 2 agents, 1 UI goroutine, 3 requests |
| `conn` | type, `NoGhosts`, `NothingLostOnALiveSocket`, `IInv`, `DisconnectIsCleanedUp` | 2 ids and the empty one, 2 connections, channel of 2, 5 lines and messages |
| `conn_panic` | `NoSendOnClosedChannel` **fails** | 1 id and the empty one, 2 connections, channel of 1, 4 lines and messages |
| `conn_rereg` | `RegisteredIsReachable` **fails** | same as `conn_panic` |
| `worker` | type, `FirstVerdictDecides`, `OutcomeIsTrue`, `IInv`, `EarlyCancelCutsShort` | 2 calls, 6 messages |
| `worker_cancel` | `CancelEndsCommand` **fails** | 1 call, 3 messages |
| `registry` | type, `IndexIsExact`, `ToolsNameThePresent`, `EachGetsATurn`, `ListedIsReachable`, `SteadyToolsAreFound` | 3 ids, 2 connections, 1 skill, 1 caller, 3 offers |
| `gateway` | type, `NothingMissed`, `IInv`, `OnlyAStallHoldsUp`, `GoneIsForgotten` | 2 browsers, 1 goroutine, 1 session, sockets of 1, snapshot of 1, 2 events |
| `subscriptions` | type, `StreamInOrder`, `CurrentUnlessDropped`, `ClosedIsForgotten`, `SignalledOnce`, `IInv`, `ImplementsLifecycle`, `BroadcastsEnd` | 1 task, 2 subscribers of 1, 1 cancel channel, 2 broadcasters, 3 calls |
| `mesh` | `IntentsReachTheWorker` **fails** | 1 intent |

**Bounds.** One task suffices in `HarnessTasks`: a handler touches one task, and tasks share nothing
but the goroutines. Two agents and two UI goroutines put a requester, an executor and two verdicts
in flight at once; three requests allow a call, an approval request and a verdict that race, or a
call, a cancel and a late completion. Two connections shared by two agents let an old and a new
connection of one agent overlap, or one of each agent stand side by side; five lines and messages
are a registration under one id, one under another, and more messages than the channel of two takes.
Six worker messages are two calls with four verdicts and cancels between them. One skill suffices in
`AgentRegistry`: lists and positions of different skills are independent, and the three offers name
it twice on the card, as a tool without a card, or as a tool that the card does not list; two
connections that change their ids leave entries of all three agents on the list, up to six of them,
which goes under any position. Ids and connections are symmetric. Its state space is finite without
a bound. In `Gateway` a socket of one message is full after one write, so every broadcast meets a
stalled client; two events are a broadcast under way while the next is recorded, and a session of
two messages is longer than the snapshot of one. In `TaskSubscriptions` a channel of one drops the
second update, and three calls are two transitions with a repeated or canceled one between them. In
`Mesh` one intent shows the violation. `MaxMessages`, `MaxEvents` and `MaxCalls` are the only bounds
on behaviours. The proofs need none of these sizes.

**Deadlock** is not checked except in `registry`: peers may stop sending, the budget of messages ends,
and a panic stops the program.

**Fairness.** Nothing is assumed of browsers, nor of what waits for them: `broadcastWS` writes to
every client under `wsClientsMu` without a deadline, so a broadcast may last for ever, in whichever
handler. `HarnessTasks!FairSpec` is weak fairness of each goroutine's next critical section other
than a broadcast (`Proceed`): locks are held for a map operation, and `SendToAgent` drops what does
not fit. Requests are not fair. `EndIsShown` excepts a goroutine that stays in its broadcast;
`SpansAreEnded` needs no exception, since a span is ended before. `AgentConnections!FairSpec` is
weak fairness of each reader outside its broadcasts and of each writer, except that `Write` is not
fair, since a peer need not read; `DisconnectIsCleanedUp` excepts a reader that stays in a
broadcast. `Worker!FairSpec` is weak fairness of the reader and of each watcher. A command need not
end, nor a process it has started; `EarlyCancelCutsShort` excepts a shell that has ended with such a
process at the output for ever. `Gateway!FairSpec` is weak fairness of each broadcasting goroutine
and each client's handler; browsers are not fair, and a write to a full socket is simply not
enabled. `TaskSubscriptions!FairSpec` is weak fairness of a caller inside `BroadcastTaskUpdate`,
whose sends never wait.

### What the failing runs show

1. `either_verdict`: the table has no `input-required → failed`. A rejection of a waiting task is
   refused, is not forwarded, and the task waits on.
2. `ui_converges`: two handlers broadcast in the opposite order of their transitions, and the UI
   keeps the older state.
3. `conn_panic`: `close(outbound)` precedes `UnregisterAgent`, so another goroutine can send on the
   closed channel.
4. `conn_rereg`: the cleanup of one connection removes the registration that another, of the same
   agent, has made.
5. `worker_cancel`: while a command runs nobody reads the socket, so a cancel waits for the command.
6. `mesh`: an intent from the page reaches the manager without its command; one from an agent does
   reach it, but the manager cannot read the harness's list of tools, and no call is made.

## 4. What is proved

All theorems hold for every value of the constants under the modules' named assumptions (disjoint
sets of actors, natural bounds, a positive channel capacity, finitely many agents).

- **`TaskLifecycleProofs`**: `LifecycleTypeOK`, `LifecycleEndedStaysEnded`, `LifecycleCancelSticks`.
  They follow from the transition table, which `TransitionTable` lists once.
- **`HarnessTasksProofs`**: `Invariance` (`Spec => []IInv`) and from it `TypeCorrect`,
  `ShownStatesTheorem`, `SignalsTheorem`, `SpanLedgerTheorem`, `ToldInOrderTheorem` and
  `LifecycleRefinement`.
  The safety properties are not inductive alone. Whether a broadcast is real depends on the status a
  goroutine carries, so `JobsInv` says that a carried status lies on the task's path. Whether a
  signal is earned depends on how the path can go on, so `PathInv` says that a terminal state is
  never left and `canceling` only towards its two ends. That a requester is told in order rests on
  one fact (`OneTeller`): updates reach it only from the executing agent's reader, one handler at a
  time. The proof has a lemma per kind of step: `TransitionStep` for the four handlers that start
  with a transition, `CreateStep` for the two that create, and one for each later step.
- **`AgentConnectionsProofs`**: `ConnectionsInvariance` and from it `ConnectionsTypeCorrect`,
  `NoGhostsTheorem` and `NothingLostTheorem`, for registrations under any ids. The strengthening
  `ConnInv` relates where a reader stands to its channel and its writer: closed from `waiting` on,
  writer done from `cleanState` on, discarding only after the socket died. One lemma per conjunct,
  one step per action.

- **`TaskSubscriptionsProofs`**: `SubscriptionsInvariance`, from it one theorem for each safety
  property of the run, `FirstUpdatesTheorem` (a conjunct of `IInv`), and `StoreLifecycleRefinement`.
  The strengthening: `TopicInv` (a channel is of one task from `Subscribe` on, and what it got
  straight from a transition was sent since), `NothingGained` (nothing is in a channel that was not
  offered), `CancelInv` (a cancel channel is registered only for its own task). One lemma per
  conjunct; the steps that send share the lemmas about `Offer`.
- **`GatewayProofs`**: `GatewayInvariance`, `GatewayTypeCorrect`, `NothingMissedTheorem`. The
  strengthening: `JobsInv` (who holds the lock has something to write, and what follows a broadcast
  was not copied before it), `ServedAreKnown` (a client is in `wsClients` before anything is read for
  it), and `ServedInv`, which extends the promise to the time between the two reads of a snapshot.
- **`WorkerProofs`**: `WorkerInvariance`, `WorkerTypeCorrect`, `FirstVerdictTheorem`,
  `OutcomeTheorem`. `StageInv` says for each stage of a task (not called, waiting for a verdict,
  executed, ended) what has been said about it; `CancelInv` that only the task's own cancel moves its
  watcher; `InboxInv` that a call is in the socket once and everything else about the task behind it.
  The two properties follow from the stages.
- **`AgentRegistryProofs`**: `RegistryInvariance` and from it a theorem for each property of the
  run: `RegistryTypeCorrect`, `IndexTheorem`, `ToolsTheorem`, `TurnsTheorem`, `ReachableTheorem`,
  `SteadyToolsTheorem`, for any number of connections that overlap. Besides named disjointness they
  assume that there are finitely many agents.
  - *Lists.* `Without` is the code's loop, written as a recursive function on the prefixes of the list.
    The proofs count: `Times(list, a)` is how often `a` is on a list, `WithoutTimes` says that the
    loop takes `a`'s count to 0 and leaves every other one, and `RelistedTimes` adds the new card's
    entries. The induction over prefixes is `SetInduction`, for a set of numbers in place of a
    predicate, from the well-foundedness of `<`.
  - `IndexIsExact` is then inductive as it stands, and bounds every list by twice the number of agents
    (`LengthBound`: an entry is an agent's first or second), from which the type of `skillRR` follows.
  - `EachGetsATurn` is not inductive: it says nothing of where the position stands. `TurnsAreAhead`
    adds a place of the agent on the list, such that its wait and the picks until the position gets
    there are together less than the list's length. A pick moves one from the second to the first.
  - `ListedIsReachable` needs `CardComesLast`: a registration whose card is still to come has its
    channel in, or has been overtaken. A cleanup takes channel and index entries out together.
  - `SteadyToolsAreFound` needs `SteadyHaveIt`: whoever counts as having had the tool all the while
    has it, and in the table once the index was found empty. So a lookup that misses both has nobody.
- **`MeshProofs`**: about the formats, `EnvelopeRoundTrip` (the two conversions in a row keep an
  envelope exactly when its payload is absent or an object that decoding leaves as it is, and change
  any other once only), `OtherPayloadsAreLost`, both under `DecodingSettles`, the assumption that
  what has been decoded and written decodes to itself; `EnvelopeIsReadable`, and
  `ACPMessageArrivesEmpty`: whatever an `ACPMessage` carries, a reader of envelopes gets its method
  and addresses only. About the mesh, `NoIntentArrives`: for any set of intents, given in the page
  or by agents, no tool becomes known to the manager, no task is made and the worker is not asked.
  `LinesInv` lists the only lines there ever are: intents, the manager's question for tools, and the
  harness's answer. The corollary `IntentsNeverReachTheWorker` says that the state the `mesh` run
  finds is no exception: every quiet state after one intent is like it.

Only model-checked: the liveness properties (`SpansAreEnded`, `EndIsShown`, `DisconnectIsCleanedUp`,
`EarlyCancelCutsShort`, `OnlyAStallHoldsUp`, `GoneIsForgotten`, `BroadcastsEnd`), which need fairness
and `ENABLED`; and the failing runs, but for `mesh`. Every other property of a run is proved.
The exceptions in the theorems are part of their statements: lines that browsers write to agents
(`SignalsTheorem`), ids that a connection gave up (`NoGhostsTheorem`, `ToolsTheorem`), registrations
that are overtaken (`ReachableTheorem`), numbers that a float64 changes (`EnvelopeRoundTrip`).
The strengthened invariants were model-checked before they were proved; those that are not in a run's
list (`AgentRegistry!IInv`) can be added to its cfg.

## 5. Not modelled

- The HTTP endpoints (`/health`, `/ui`, `/ws` upgrade) and process start: they read, or run once.
- `discover`, `ListAgentCards`, `ListTasks`, `GetCancel`, `IsTaskTerminal`: they only read.
- `FromACPMessage`, `TaskUpdate.ToACPMessage`, `NewDataPart` and the `Decode*` methods: no caller.
- The Mattermost and Orion bridges, the deployment, the legacy `types/types.go`: outside the protocol.
- Rendering in the UI; the manager's printing; message texts, timestamps, traces, artifacts.
- What a corrupted WebSocket frame does to a browser.

## 6. Plan

Done: all components of the first plan. `Routing` became part of `AgentRegistry` (lookups) and `Mesh`
(`handleDefaultRoute`). What could follow:

1. Once both sides read one format: `Worker` and `HarnessTasks` composed over their sockets. Properties:
   every accepted call ends or is refused; the state the harness keeps agrees with what the worker did,
   also when a command completes while its task is `canceling`; a repeated cancel does no harm.
2. The reports of `Worker` against `TaskLifecycle`, on the harness's side of such a composition: alone
   they do not refine it, since a command that cannot start is reported `working` and `failed` at once
   and a rejected one goes from `input-required` to `failed`, which the table lacks (`either_verdict`).
