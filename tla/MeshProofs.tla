----------------------------- MODULE MeshProofs -----------------------------
(***************************************************************************)
(* Theorems about the wire formats, for any contents of messages, and what *)
(* they come to in the mesh, for any set of intents.                       *)
(***************************************************************************)
EXTENDS Mesh, FiniteSetTheorems, SequenceTheorems, TLAPS

-----------------------------------------------------------------------------
\* There and back: an envelope read by the harness, and written again.
RoundTrip(env) == ToA2AEnvelope(ToACPMessage(env))

\* An object in a payload survives if decoding leaves it alone: the large integer
\* that is no float64 does not.
Survives(payload) ==
    \/ payload.kind = "none"
    \/ /\ payload.kind = "object" /\ payload.value \in Decodable
       /\ Decoded[payload.value] = payload.value

\* The shapes of a payload.
LEMMA PayloadShape ==
    ASSUME NEW env \in A2AEnvelope
    PROVE  /\ env.payload.kind = "none" => env.payload = NoJSON
           /\ env.payload.kind = "empty" => env.payload = EmptyObject
           /\ env.payload.kind = "object" =>
                  /\ env.payload.value \in Value
                  /\ env.payload = Object(env.payload.value)
           /\ env.payload.kind \in {"none", "empty", "object", "other"}
BY DEF A2AEnvelope, RawMessage, NoJSON, EmptyObject, Object

\* What the way there and back does to an envelope: all but its payload stays,
\* and of the payload an object that can be decoded stays, as decoded.
LEMMA RoundTripPayload ==
    ASSUME NEW env \in A2AEnvelope
    PROVE  /\ env.payload.kind = "object" /\ env.payload.value \in Decodable =>
                  RoundTrip(env) = [env EXCEPT !.payload = Object(Decoded[env.payload.value])]
           /\ ~(env.payload.kind = "object" /\ env.payload.value \in Decodable) =>
                  RoundTrip(env) = [env EXCEPT !.payload = NoJSON]
<1>. DEFINE p == Decode(env.payload)
<1>1. RoundTrip(env) = [env EXCEPT !.payload = IF p.kind = "object" THEN p ELSE NoJSON]
  BY DEF RoundTrip, A2AEnvelope, ToA2AEnvelope, ToACPMessage
<1>2. CASE env.payload.kind = "object" /\ env.payload.value \in Decodable
  <2>1. p = Object(Decoded[env.payload.value])
    BY <1>2 DEF Decode
  <2>. QED
    BY <1>1, <1>2, <2>1 DEF Object
<1>3. CASE env.payload.kind \in {"none", "empty"}
  <2>1. p = env.payload
    BY <1>3 DEF Decode
  <2>. QED
    BY <1>1, <1>3, <2>1
<1>4. CASE env.payload.kind \notin {"none", "empty"}
           /\ ~(env.payload.kind = "object" /\ env.payload.value \in Decodable)
  <2>1. p = NoJSON
    BY <1>4 DEF Decode
  <2>. QED
    BY <1>1, <1>4, <2>1 DEF NoJSON
<1>. QED
  BY <1>2, <1>3, <1>4

\* What the conversions keep (ToACPMessage, ToA2AEnvelope): an envelope comes back
\* unchanged exactly if it has no payload or an object that decoding leaves alone;
\* and what has come back once comes back unchanged from then on.
THEOREM EnvelopeRoundTrip ==
    ASSUME NEW env \in A2AEnvelope, DecodingSettles
    PROVE  /\ RoundTrip(env) = env <=> Survives(env.payload)
           /\ RoundTrip(RoundTrip(env)) = RoundTrip(env)
<1>. DEFINE v == env.payload.value
<1>1. CASE env.payload.kind = "object" /\ v \in Decodable
  <2>1. RoundTrip(env) = [env EXCEPT !.payload = Object(Decoded[v])]
    BY <1>1, RoundTripPayload
  <2>2. RoundTrip(env).payload = Object(Decoded[v])
    BY <2>1 DEF A2AEnvelope
  <2>3. RoundTrip(env) = env <=> Decoded[v] = v
    <3>1. env.payload = Object(v)
      BY <1>1, PayloadShape
    <3>2. Decoded[v] = v => RoundTrip(env) = env
      BY <2>1, <3>1 DEF A2AEnvelope
    <3>3. RoundTrip(env) = env => Object(Decoded[v]) = Object(v)
      BY <2>2, <3>1
    <3>. QED
      BY <3>2, <3>3 DEF Object
  <2>4. RoundTrip(env) \in A2AEnvelope
    <3>1. Object(Decoded[v]) \in RawMessage
      BY <1>1 DEF DecodingSettles, RawMessage, Object
    <3>. QED
      BY <2>1, <3>1 DEF A2AEnvelope
  <2>5. /\ RoundTrip(env).payload.kind = "object"
        /\ RoundTrip(env).payload.value = Decoded[v] /\ Decoded[v] \in Decodable
        /\ Decoded[Decoded[v]] = Decoded[v]
    BY <1>1, <2>2 DEF Object, DecodingSettles
  <2>6. RoundTrip(RoundTrip(env)) = [RoundTrip(env) EXCEPT !.payload = Object(Decoded[v])]
    BY <2>4, <2>5, RoundTripPayload
  <2>7. RoundTrip(RoundTrip(env)) = RoundTrip(env)
    BY <2>1, <2>6 DEF A2AEnvelope
  <2>. QED
    BY <1>1, <2>3, <2>7 DEF Survives
<1>2. CASE ~(env.payload.kind = "object" /\ v \in Decodable)
  <2>1. RoundTrip(env) = [env EXCEPT !.payload = NoJSON]
    BY <1>2, RoundTripPayload
  <2>2. RoundTrip(env) \in A2AEnvelope /\ RoundTrip(env).payload = NoJSON
    BY <2>1 DEF A2AEnvelope, RawMessage
  <2>3. RoundTrip(env) = env <=> env.payload.kind = "none"
    <3>1. env.payload.kind = "none" => env.payload = NoJSON
      BY PayloadShape
    <3>. QED
      BY <2>1, <2>2, <3>1 DEF A2AEnvelope, NoJSON
  <2>4. RoundTrip(RoundTrip(env)) = [RoundTrip(env) EXCEPT !.payload = NoJSON]
    BY <2>2, RoundTripPayload DEF NoJSON
  <2>5. RoundTrip(RoundTrip(env)) = RoundTrip(env)
    BY <2>1, <2>4 DEF A2AEnvelope
  <2>. QED
    BY <1>2, <2>3, <2>5 DEF Survives
<1>. QED
  BY <1>1, <1>2

\* The payloads that are no objects do not survive at all: an empty object, an
\* array, a string or a number is gone after one conversion each way, and so is an
\* object that cannot be decoded.
THEOREM OtherPayloadsAreLost ==
    ASSUME NEW env \in A2AEnvelope,
           \/ env.payload.kind \in {"empty", "other"}
           \/ env.payload.kind = "object" /\ env.payload.value \notin Decodable
    PROVE  RoundTrip(env) = [env EXCEPT !.payload = NoJSON]
BY RoundTripPayload

\* An envelope that is written is read back as it was (Marshal compacts a payload,
\* which leaves its value).  The harness relays lines in this way, undecoded.
THEOREM EnvelopeIsReadable ==
    ASSUME NEW env \in A2AEnvelope
    PROVE  UnmarshalEnvelope(Marshal(env)) = env
<1> DEFINE line == Marshal(env)
<1>1. DOMAIN env = {"jsonrpc", "id", "method", "sender", "target", "taskId", "sessionId",
                    "payload"}
  BY DEF A2AEnvelope
<1>2. ASSUME NEW f \in {"jsonrpc", "id", "method", "sender", "target", "taskId", "sessionId"}
      PROVE  Get(line, f, "") = env[f]
  BY <1>1, <1>2 DEF Get, Marshal, IsEmpty, Always
<1>3. env.payload.kind = "none" => env.payload = NoJSON
  BY DEF A2AEnvelope, RawMessage, NoJSON, EmptyObject
<1>4. Get(line, "payload", NoJSON) = env.payload
  BY <1>1, <1>3 DEF Get, Marshal, IsEmpty, Always
<1> QED
  BY <1>2, <1>4 DEF UnmarshalEnvelope, A2AEnvelope

\* An ACPMessage that is written keeps, for a reader of envelopes, its method
\* and its addresses; its parameters, its task and its session never arrive.
THEOREM ACPMessageArrivesEmpty ==
    ASSUME NEW msg \in ACPMessage
    PROVE  LET env == UnmarshalEnvelope(Marshal(msg))
           IN  /\ env.payload = NoJSON /\ env.taskId = "" /\ env.sessionId = ""
               /\ env.method = msg.method /\ env.sender = msg.sender /\ env.target = msg.target
<1> DEFINE line == Marshal(msg)
<1>1. DOMAIN msg = {"jsonrpc", "id", "method", "sender", "target", "required_skills",
                    "task_id", "session_id", "params"}
  BY DEF ACPMessage
<1>2. ASSUME NEW f \in {"jsonrpc", "id", "method", "sender", "target"}
      PROVE  Get(line, f, "") = msg[f]
  BY <1>1, <1>2 DEF Get, Marshal, IsEmpty, Always
<1>3. DOMAIN line \subseteq DOMAIN msg
  BY DEF Marshal
<1>4. /\ Get(line, "taskId", "") = "" /\ Get(line, "sessionId", "") = ""
      /\ Get(line, "payload", NoJSON) = NoJSON
  BY <1>1, <1>3 DEF Get
<1> QED
  BY <1>2, <1>4 DEF UnmarshalEnvelope

-----------------------------------------------------------------------------
(* The lines that are on their way in the mesh.                             *)

UILine(c) ==
    Marshal([NewACPMessage("user_intent", "ui_user", "manager", Object([command |-> c]))
             EXCEPT !.session_id = "session_123"])
ClientLine(c) ==
    Marshal(NewA2AEnvelope("user_intent", "client", "manager", Object([command |-> c])))
ListRequest == Marshal(NewA2AEnvelope("mcp/tools/list", "manager", "harness", NoJSON))
ListAnswer ==
    Marshal(NewACPMessage("mcp/tools/list/response", "harness", "manager", Object([tools |-> Tools])))

UILines == {UILine(c) : c \in Intent}
ClientLines == {ClientLine(c) : c \in Intent}

\* Intents go to the manager, the manager asks for the tools, and there it ends.
LinesInv ==
    /\ fromUI \in Seq(UILines)
    /\ toHarness \in [Agent -> Seq(ClientLines \cup {ListRequest})]
    /\ toHarness["client"] \in Seq(ClientLines)
    /\ toHarness["manager"] \in Seq({ListRequest})
    /\ toHarness["worker"] = <<>>
    /\ toAgent \in [Agent -> Seq(UILines \cup ClientLines \cup {ListAnswer})]
    /\ toAgent["worker"] = <<>> /\ toAgent["client"] = <<>>

\* No tool is known to the manager, no task is made and nobody is asked.
NothingHappens == availableTools = {} /\ tasks = <<>> /\ tracker = <<>> /\ asked = {}

\* A line of the page names its method and the manager, and nothing else arrives.
LEMMA UILineRead ==
    ASSUME NEW l \in UILines
    PROVE  /\ UnmarshalEnvelope(l).method = "user_intent"
           /\ UnmarshalEnvelope(l).target = "manager"
           /\ UnmarshalEnvelope(l).payload = NoJSON
<1>. PICK c \in Intent : l = UILine(c)
  BY DEF UILines
<1>. QED
  BY DEF UILine, UnmarshalEnvelope, Get, Marshal, Always, IsEmpty, NewACPMessage, Object, NoJSON

\* An agent's line does arrive.
LEMMA ClientLineRead ==
    ASSUME NEW l \in ClientLines
    PROVE  /\ UnmarshalEnvelope(l).method = "user_intent"
           /\ UnmarshalEnvelope(l).target = "manager"
<1>. PICK c \in Intent : l = ClientLine(c)
  BY DEF ClientLines
<1>. QED
  BY DEF ClientLine, UnmarshalEnvelope, Get, Marshal, Always, IsEmpty, NewA2AEnvelope, Object, NoJSON

\* So does the manager's question.
LEMMA ListRequestRead == UnmarshalEnvelope(ListRequest).method = "mcp/tools/list"
BY DEF ListRequest, UnmarshalEnvelope, Get, Marshal, Always, IsEmpty, NewA2AEnvelope, NoJSON

\* The harness's answer comes without its list of tools.
LEMMA ListAnswerRead ==
    /\ UnmarshalEnvelope(ListAnswer).method = "mcp/tools/list/response"
    /\ UnmarshalEnvelope(ListAnswer).payload = NoJSON
BY DEF ListAnswer, UnmarshalEnvelope, Get, Marshal, Always, IsEmpty, NewACPMessage, Object, NoJSON

\* The first line of a queue is one of its lines, and so is the rest.
LEMMA FirstLine ==
    ASSUME NEW S, NEW q \in Seq(S), q # <<>>
    PROVE  Head(q) \in S /\ Tail(q) \in Seq(S)
BY HeadTailProperties

\* What another line does to a queue.
LEMMA OneMoreLine ==
    ASSUME NEW S, NEW q \in Seq(S), NEW l \in S
    PROVE  Append(q, l) \in Seq(S)
BY AppendProperties

\* The queues hold such lines only, and nothing comes of them.
LEMMA LinesStep ==
    ASSUME LinesInv, NothingHappens, [Next]_vars
    PROVE  LinesInv' /\ NothingHappens'
<1>. DEFINE ManagerLines == UILines \cup ClientLines \cup {ListAnswer}
<1>. USE DEF NothingHappens
<1>1. ASSUME NEW c \in Intent, UserIntent(c) PROVE LinesInv' /\ NothingHappens'
  <2>1. fromUI' = Append(fromUI, UILine(c))
    BY <1>1 DEF UserIntent, UILine
  <2>2. UILine(c) \in UILines
    BY DEF UILines
  <2>3. fromUI' \in Seq(UILines)
    BY <2>1, <2>2, OneMoreLine DEF LinesInv
  <2>. QED
    BY <1>1, <2>3 DEF UserIntent, LinesInv, managerVars
<1>2. ASSUME NEW c \in Intent, AgentIntent(c) PROVE LinesInv' /\ NothingHappens'
  <2>1. toHarness' = [toHarness EXCEPT !["client"] = Append(@, ClientLine(c))]
    BY <1>2 DEF AgentIntent, ClientLine
  <2>2. ClientLine(c) \in ClientLines
    BY DEF ClientLines
  <2>3. /\ Append(toHarness["client"], ClientLine(c)) \in Seq(ClientLines)
        /\ Append(toHarness["client"], ClientLine(c)) \in Seq(ClientLines \cup {ListRequest})
    BY <2>2, OneMoreLine DEF LinesInv, Agent
  <2>. QED
    BY <1>2, <2>1, <2>3 DEF AgentIntent, LinesInv, managerVars, Agent
\* A line that goes to the manager as it came.
<1>3. ASSUME NEW l \in UILines \cup ClientLines \cup {ListAnswer}, SendToAgent("manager", l)
      PROVE  /\ toAgent' \in [Agent -> Seq(UILines \cup ClientLines \cup {ListAnswer})]
             /\ toAgent'["worker"] = <<>> /\ toAgent'["client"] = <<>>
  <2>1. toAgent["manager"] \in Seq(ManagerLines)
    BY DEF LinesInv, Agent
  <2>2. Append(toAgent["manager"], l) \in Seq(ManagerLines)
    BY <2>1, OneMoreLine
  <2>. QED
    BY <1>3, <2>2 DEF SendToAgent, LinesInv, Agent
<1>4. ASSUME RelayFromUI PROVE LinesInv' /\ NothingHappens'
  <2>1. Head(fromUI) \in UILines /\ Tail(fromUI) \in Seq(UILines)
    BY <1>4, FirstLine DEF RelayFromUI, LinesInv
  <2>2. SendToAgent("manager", Head(fromUI))
    BY <1>4, <2>1, UILineRead DEF RelayFromUI
  <2>. QED
    BY <1>3, <1>4, <2>1, <2>2 DEF RelayFromUI, LinesInv, managerVars
\* The harness reads a line of an agent.
<1>5. ASSUME NEW a \in Agent, NEW method, Dispatch(a, method)
      PROVE  /\ a \in {"client", "manager"}
             /\ method = IF a = "client" THEN "user_intent" ELSE "mcp/tools/list"
             /\ a = "client" => Head(toHarness[a]) \in ClientLines
             /\ UNCHANGED <<fromUI, availableTools, tracker, asked>>
             /\ toHarness' \in [Agent -> Seq(ClientLines \cup {ListRequest})]
             /\ toHarness'["client"] \in Seq(ClientLines)
             /\ toHarness'["manager"] \in Seq({ListRequest})
             /\ toHarness'["worker"] = <<>>
  <2>1. toHarness[a] # <<>> /\ UnmarshalEnvelope(Head(toHarness[a])).method = method
    BY <1>5 DEF Dispatch
  <2>2. a \in {"client", "manager"}
    BY <2>1 DEF LinesInv, Agent
  <2>3. toHarness' = [toHarness EXCEPT ![a] = Tail(@)]
    BY <1>5 DEF Dispatch
  <2>4. Tail(toHarness[a]) \in Seq(ClientLines \cup {ListRequest})
    BY <2>1, FirstLine DEF LinesInv
  <2>5. CASE a = "client"
    <3>1. Head(toHarness[a]) \in ClientLines /\ Tail(toHarness[a]) \in Seq(ClientLines)
      BY <2>1, <2>5, FirstLine DEF LinesInv
    <3>. QED
      BY <1>5, <2>1, <2>3, <2>4, <2>5, <3>1, ClientLineRead DEF Dispatch, LinesInv, managerVars, Agent
  <2>6. CASE a = "manager"
    <3>1. Head(toHarness[a]) = ListRequest /\ Tail(toHarness[a]) \in Seq({ListRequest})
      BY <2>1, <2>6, FirstLine DEF LinesInv
    <3>. QED
      BY <1>5, <2>1, <2>3, <2>4, <2>6, <3>1, ListRequestRead DEF Dispatch, LinesInv, managerVars, Agent
  <2>. QED
    BY <2>2, <2>5, <2>6
<1>6. ASSUME NEW a \in Agent, DefaultRoute(a) PROVE LinesInv' /\ NothingHappens'
  <2>1. Dispatch(a, "user_intent") /\ SendToAgent(Message(a).target, Head(toHarness[a])) /\ UNCHANGED tasks
    BY <1>6 DEF DefaultRoute
  <2>2. Head(toHarness[a]) \in ClientLines
    BY <1>5, <2>1
  <2>3. Message(a).target = "manager"
    BY <2>2, ClientLineRead DEF Message, ToACPMessage
  <2>4. /\ toAgent' \in [Agent -> Seq(UILines \cup ClientLines \cup {ListAnswer})]
        /\ toAgent'["worker"] = <<>> /\ toAgent'["client"] = <<>>
    BY <1>3, <2>1, <2>2, <2>3
  <2>. QED
    BY <1>5, <2>1, <2>4 DEF LinesInv
<1>7. ASSUME NEW a \in Agent, MCPToolsList(a) PROVE LinesInv' /\ NothingHappens'
  <2>1. Dispatch(a, "mcp/tools/list") /\ UNCHANGED tasks
    BY <1>7 DEF MCPToolsList
  <2>2. a = "manager"
    BY <1>5, <2>1
  <2>3. SendToAgent("manager", ListAnswer)
    BY <1>7, <2>2 DEF MCPToolsList, ListAnswer
  <2>4. /\ toAgent' \in [Agent -> Seq(UILines \cup ClientLines \cup {ListAnswer})]
        /\ toAgent'["worker"] = <<>> /\ toAgent'["client"] = <<>>
    BY <1>3, <2>3
  <2>. QED
    BY <1>5, <2>1, <2>4 DEF LinesInv
<1>8. ASSUME NEW a \in Agent PROVE ~MCPToolsCall(a) /\ ~TasksSendUpdate(a)
  <2>1. ~Dispatch(a, "mcp/tools/call") /\ ~Dispatch(a, "tasks/sendUpdate")
    BY <1>5
  <2>. QED
    BY <2>1 DEF MCPToolsCall, TasksSendUpdate
\* Only the manager has anything to read.
<1>9. ASSUME NEW agent \in Agent, NEW method, Reads(agent, method)
      PROVE  /\ agent = "manager" /\ Head(toAgent["manager"]) \in ManagerLines
             /\ UnmarshalEnvelope(Head(toAgent["manager"])).method = method
             /\ UNCHANGED <<fromUI, tasks>>
             /\ toAgent' \in [Agent -> Seq(UILines \cup ClientLines \cup {ListAnswer})]
             /\ toAgent'["worker"] = <<>> /\ toAgent'["client"] = <<>>
  <2>1. /\ toAgent[agent] # <<>> /\ toAgent' = [toAgent EXCEPT ![agent] = Tail(@)]
        /\ UnmarshalEnvelope(Head(toAgent[agent])).method = method
        /\ UNCHANGED <<fromUI, tasks>>
    BY <1>9 DEF Reads
  <2>2. agent = "manager"
    BY <2>1 DEF LinesInv, Agent
  <2>3. Head(toAgent[agent]) \in ManagerLines /\ Tail(toAgent[agent]) \in Seq(ManagerLines)
    BY <2>1, FirstLine DEF LinesInv
  <2>. QED
    BY <2>1, <2>2, <2>3 DEF LinesInv, Agent
<1>10. ASSUME ManagerIntent PROVE LinesInv' /\ NothingHappens'
  <2>1. Reads("manager", "user_intent") /\ UNCHANGED <<availableTools, tracker, asked>>
    BY <1>10 DEF ManagerIntent
  <2>2. toHarness' = [toHarness EXCEPT !["manager"] = Append(@, ListRequest)] \/ UNCHANGED toHarness
    BY <1>10 DEF ManagerIntent, Write, ListRequest
  <2>3. /\ Append(toHarness["manager"], ListRequest) \in Seq({ListRequest})
        /\ Append(toHarness["manager"], ListRequest) \in Seq(ClientLines \cup {ListRequest})
    BY OneMoreLine DEF LinesInv, Agent
  <2>4. "manager" \in Agent
    BY DEF Agent
  <2>5. /\ toHarness' \in [Agent -> Seq(ClientLines \cup {ListRequest})]
        /\ toHarness'["client"] \in Seq(ClientLines)
        /\ toHarness'["manager"] \in Seq({ListRequest})
        /\ toHarness'["worker"] = <<>>
    BY <2>2, <2>3 DEF LinesInv, Agent
  <2>. QED
    BY <1>9, <2>1, <2>4, <2>5 DEF LinesInv
\* The answer's tools are not where the manager looks for them.
<1>11. ASSUME ManagerToolsList PROVE LinesInv' /\ NothingHappens'
  <2>1. Reads("manager", "mcp/tools/list/response") /\ UNCHANGED <<tracker, asked>>
    BY <1>11 DEF ManagerToolsList
  <2>2. "manager" \in Agent
    BY DEF Agent
  <2>3. Head(toAgent["manager"]) = ListAnswer
    BY <1>9, <2>1, <2>2, UILineRead, ClientLineRead
  <2>4. ~Has(Envelope("manager"), "tools")
    BY <2>3, ListAnswerRead DEF Has, Envelope, NoJSON
  <2>5. UNCHANGED <<availableTools, toHarness>>
    BY <1>11, <2>4 DEF ManagerToolsList
  <2>. QED
    BY <1>9, <2>1, <2>2, <2>5 DEF LinesInv
<1>12. ~ManagerUpdate
  <2>1. "manager" \in Agent
    BY DEF Agent
  <2>. QED
    BY <1>9, <2>1, UILineRead, ClientLineRead, ListAnswerRead DEF ManagerUpdate
<1>13. ~WorkerCall
  <2>1. "worker" \in Agent
    BY DEF Agent
  <2>. QED
    BY <1>9, <2>1 DEF WorkerCall
<1>14. CASE UNCHANGED vars
  BY <1>14 DEF vars, managerVars, LinesInv
<1>. QED
  BY <1>1, <1>2, <1>4, <1>6, <1>7, <1>8, <1>10, <1>11, <1>12, <1>13, <1>14 DEF Next

\* "user intent -> manager -> capability match -> worker": whoever gives which
\* intents, in the page or as an agent, no tool is called, no task made and the
\* worker is not asked, because harness and page write params where the manager
\* reads payload.
THEOREM NoIntentArrives == Spec => [](availableTools = {} /\ tasks = <<>> /\ asked = {})
<1>1. Init => LinesInv /\ NothingHappens
  <2>1. \A S : <<>> \in Seq(S)
    BY EmptySeq
  <2>. QED
    BY <2>1 DEF Init, LinesInv, NothingHappens, Agent, managerVars
<1>2. LinesInv /\ NothingHappens /\ [Next]_vars => LinesInv' /\ NothingHappens'
  BY LinesStep
<1>3. NothingHappens => availableTools = {} /\ tasks = <<>> /\ asked = {}
  BY DEF NothingHappens
<1>. QED
  BY <1>1, <1>2, <1>3, PTL DEF Spec

\* So IntentsReachTheWorker fails in every state in which one intent has been
\* given and nothing is on its way: there is no run that meets it.
COROLLARY IntentsNeverReachTheWorker ==
    Spec => [](Quiet /\ Cardinality(given) = 1 => ~IntentsReachTheWorker)
<1>1. ASSUME asked = {}, Quiet, Cardinality(given) = 1 PROVE ~IntentsReachTheWorker
  <2>1. given # {}
    BY <1>1, FS_EmptySet
  <2>. QED
    BY <1>1, <2>1 DEF IntentsReachTheWorker
<1>. QED
  BY <1>1, NoIntentArrives, PTL
=============================================================================
