-------------------------------- MODULE Mesh --------------------------------
(***************************************************************************)
(* The way of a user's intent through the mesh: the web UI or another      *)
(* agent, the harness (main.go), the manager (agent/manager/main.go) and   *)
(* the worker (agent/worker/main.go), as far as asking for approval.       *)
(*                                                                         *)
(* Here messages are the JSON lines the program writes, in the format it   *)
(* writes them: who writes which of the two formats, and who reads which,  *)
(* decides what arrives.  HarnessTasks and Worker take messages as         *)
(* understood and show what the handlers do with them.                     *)
(*                                                                         *)
(* Manager and worker are connected and registered, and no channel is      *)
(* full: see AgentConnections.                                             *)
(***************************************************************************)
EXTENDS Naturals, FiniteSets, WireFormat

CONSTANT Intent \* commands a user gives, each once

VARIABLES
    fromUI,            \* the web socket, browser to harness: lines, oldest first
    toHarness,         \* per agent: the lines it has sent
    toAgent,           \* per agent: its outbound channel and socket
    tasks,             \* the store: one record per task, in order of creation
    pendingUserIntent, \* the manager's; "" is none
    availableTools,    \* the manager's
    tracker,           \* the manager's: last status it was told per task
    asked,             \* tasks the worker has asked approval for
    given              \* (history) the intents given so far

managerVars == <<pendingUserIntent, availableTools, tracker>>
vars == <<fromUI, toHarness, toAgent, tasks, managerVars, asked, given>>

ExecuteShell == "execute_shell"

\* The parameters of the messages below: what Value stands for here.
Body ==
    [command : Intent] \cup [tools : SUBSET {ExecuteShell}]
        \cup [tool_name : {ExecuteShell}, command : Intent]
        \cup [tool_name : {ExecuteShell}, command : Intent, task_id : Nat, requester : STRING]
        \cup [task_id : Nat, status : STRING]

\* Strings, small numbers and lists of them come out of a map as they went in.
BodyAsDecoded == [v \in Body |-> v]

\* The agents; "client" is any agent that gives the manager an intent.
Agent == {"manager", "worker", "client"}

\* The tools table and the skills index after the worker's registration: both
\* lookups of a call end at the worker.
Tools == {ExecuteShell}
OwnerOf(tool) == IF tool \in Tools THEN "worker" ELSE ""

Init ==
    /\ fromUI = <<>>
    /\ toHarness = [a \in Agent |-> <<>>]
    /\ toAgent = [a \in Agent |-> <<>>]
    /\ tasks = <<>>
    /\ pendingUserIntent = ""
    /\ availableTools = {}
    /\ tracker = <<>>
    /\ asked = {}
    /\ given = {}

\* getEnvelopeParams, and the lookup params[key].
Has(env, key)   == env.payload.kind = "object" /\ key \in DOMAIN env.payload.value
Param(env, key) == env.payload.value[key]

SendToAgent(agent, line) == toAgent' = [toAgent EXCEPT ![agent] = Append(@, line)]

-----------------------------------------------------------------------------
(* Those who give intents.                                                  *)

\* The send button: the page writes method, session_id and params.
UserIntent(c) ==
    /\ c \notin given
    /\ given' = given \cup {c}
    /\ fromUI' = Append(fromUI, Marshal([NewACPMessage("user_intent", "ui_user", "manager",
                                             Object([command |-> c]))
                                         EXCEPT !.session_id = "session_123"]))
    /\ UNCHANGED <<toHarness, toAgent, tasks, managerVars, asked>>

\* An agent that writes the envelope of pkg/a2a, as the smoke test does.
AgentIntent(c) ==
    /\ c \notin given
    /\ given' = given \cup {c}
    /\ toHarness' = [toHarness EXCEPT !["client"] =
                         Append(@, Marshal(NewA2AEnvelope("user_intent", "client", "manager",
                                               Object([command |-> c]))))]
    /\ UNCHANGED <<fromUI, toAgent, tasks, managerVars, asked>>

-----------------------------------------------------------------------------
(* The harness.                                                             *)

\* handleWSIncoming: a line for an agent is relayed as it came.
RelayFromUI ==
    /\ fromUI # <<>>
    /\ LET line == Head(fromUI) IN SendToAgent(UnmarshalEnvelope(line).target, line)
    /\ fromUI' = Tail(fromUI)
    /\ UNCHANGED <<toHarness, tasks, managerVars, asked, given>>

\* dispatchMessage is given the next line of the agent's connection.
Dispatch(a, method) ==
    /\ toHarness[a] # <<>>
    /\ UnmarshalEnvelope(Head(toHarness[a])).method = method
    /\ toHarness' = [toHarness EXCEPT ![a] = Tail(@)]
    /\ UNCHANGED <<fromUI, managerVars, asked, given>>

\* The message as the handlers see it.
Message(a) == ToACPMessage(UnmarshalEnvelope(Head(toHarness[a])))

DefaultRoute(a) ==
    /\ Dispatch(a, "user_intent")
    /\ SendToAgent(Message(a).target, Head(toHarness[a]))
    /\ UNCHANGED tasks

MCPToolsList(a) ==
    /\ Dispatch(a, "mcp/tools/list")
    /\ SendToAgent(a, Marshal(NewACPMessage("mcp/tools/list/response", "harness", a,
                                            Object([tools |-> Tools]))))
    /\ UNCHANGED tasks

MCPToolsCall(a) ==
    /\ Dispatch(a, "mcp/tools/call")
    /\ LET params == Message(a).params.value
           target == OwnerOf(params.tool_name)
       IN  /\ target # ""
           /\ tasks' = Append(tasks, [command |-> params.command, requester |-> a,
                                      state |-> "submitted"])
           /\ SendToAgent(target,
                  Marshal(NewACPMessage("mcp/tools/call", a, target,
                      Object([tool_name |-> params.tool_name, command |-> params.command,
                              task_id |-> Len(tasks) + 1, requester |-> a]))))

TasksSendUpdate(a) ==
    /\ Dispatch(a, "tasks/sendUpdate")
    /\ LET params    == Message(a).params.value
           requester == tasks[params.task_id].requester
       IN  /\ tasks' = [tasks EXCEPT ![params.task_id].state = params.status]
           /\ SendToAgent(requester,
                  Marshal(NewACPMessage("tasks/sendUpdate", "harness", requester,
                      Object([task_id |-> params.task_id, status |-> params.status]))))

-----------------------------------------------------------------------------
(* The agents: each reads its next line as an envelope.                     *)

Reads(agent, method) ==
    /\ toAgent[agent] # <<>>
    /\ UnmarshalEnvelope(Head(toAgent[agent])).method = method
    /\ toAgent' = [toAgent EXCEPT ![agent] = Tail(@)]
    /\ UNCHANGED <<fromUI, tasks, given>>

Envelope(agent) == UnmarshalEnvelope(Head(toAgent[agent]))

Write(agent, struct) == toHarness' = [toHarness EXCEPT ![agent] = Append(@, Marshal(struct))]

\* The one pending intent is overwritten if there was one.
ManagerIntent ==
    /\ Reads("manager", "user_intent")
    /\ IF Has(Envelope("manager"), "command")
       THEN /\ pendingUserIntent' = Param(Envelope("manager"), "command")
            /\ Write("manager", NewA2AEnvelope("mcp/tools/list", "manager", "harness", NoJSON))
       ELSE UNCHANGED <<pendingUserIntent, toHarness>>
    /\ UNCHANGED <<availableTools, tracker, asked>>

ManagerToolsList ==
    /\ Reads("manager", "mcp/tools/list/response")
    /\ IF Has(Envelope("manager"), "tools")
       THEN /\ availableTools' = Param(Envelope("manager"), "tools")
            /\ pendingUserIntent' = ""
            /\ IF pendingUserIntent # "" /\ ExecuteShell \in availableTools'
               THEN Write("manager",
                        [NewA2AEnvelope("mcp/tools/call", "manager", "harness",
                             Object([tool_name |-> ExecuteShell, command |-> pendingUserIntent]))
                         EXCEPT !.sessionId = "session_123"])
               ELSE UNCHANGED toHarness
       ELSE UNCHANGED <<availableTools, pendingUserIntent, toHarness>>
    /\ UNCHANGED <<tracker, asked>>

ManagerUpdate ==
    /\ Reads("manager", "tasks/sendUpdate")
    /\ LET env == Envelope("manager")
       IN  tracker' = IF Has(env, "status") /\ Has(env, "task_id")
                      THEN [t \in DOMAIN tracker \cup {Param(env, "task_id")} |->
                               IF t = Param(env, "task_id") THEN Param(env, "status")
                               ELSE tracker[t]]
                      ELSE tracker
    /\ UNCHANGED <<pendingUserIntent, availableTools, toHarness, asked>>

WorkerCall ==
    /\ Reads("worker", "mcp/tools/call")
    /\ LET env == Envelope("worker")
       IN  IF Has(env, "tool_name") /\ Param(env, "tool_name") = ExecuteShell
           THEN /\ asked' = asked \cup {Param(env, "task_id")}
                /\ Write("worker", NewA2AEnvelope("tasks/sendUpdate", "worker", "harness",
                       Object([task_id |-> Param(env, "task_id"), status |-> "input-required"])))
           ELSE UNCHANGED <<asked, toHarness>>
    /\ UNCHANGED managerVars

-----------------------------------------------------------------------------
Next ==
    \/ \E c \in Intent : UserIntent(c) \/ AgentIntent(c)
    \/ RelayFromUI
    \/ \E a \in Agent : \/ DefaultRoute(a) \/ MCPToolsList(a)
                        \/ MCPToolsCall(a) \/ TasksSendUpdate(a)
    \/ ManagerIntent \/ ManagerToolsList \/ ManagerUpdate \/ WorkerCall

Spec == Init /\ [][Next]_vars

-----------------------------------------------------------------------------
\* No line is on its way.
Quiet == fromUI = <<>> /\ \A a \in Agent : toHarness[a] = <<>> /\ toAgent[a] = <<>>

\* "user intent -> manager -> capability match -> worker": when nothing is on
\* its way any more, the worker has asked approval for what was intended.
\* (With one intent: of two, the manager may forget the first.)
IntentsReachTheWorker ==
    Quiet /\ Cardinality(given) = 1 =>
        \A c \in given : \E t \in asked : tasks[t].command = c
=============================================================================
