----------------------------- MODULE WireFormat -----------------------------
(***************************************************************************)
(* The two wire formats of pkg/a2a/types.go, the conversions between them  *)
(* and what encoding/json makes of one format read as the other.           *)
(*                                                                         *)
(* A struct is a record whose fields have the names of its json tags, so   *)
(* that Marshal and Unmarshal are about those names only.  The inside of a *)
(* payload is one JSON value, as it is written but for white space, escapes*)
(* and the order of keys; what is told apart is whether it is an object,   *)
(* an empty object, or something else, and what becomes of the inside when *)
(* it is decoded into a map[string]interface{}.                            *)
(***************************************************************************)
EXTENDS Sequences

CONSTANTS
    Value,      \* the contents of a JSON object that has any
    Decodable,  \* those that decode into a map: 1e999, say, is no float64
    Decoded     \* function: what is there afterwards, each number a float64

NoJSON      == [kind |-> "none"]   \* an empty RawMessage, a nil map
EmptyObject == [kind |-> "empty"]  \* {}
Object(v)   == [kind |-> "object", value |-> v]

\* json.RawMessage: "other" is an array, a string, a number, null.
RawMessage == {NoJSON, EmptyObject} \cup [kind : {"object", "other"}, value : Value]

\* map[string]interface{}
Params == {NoJSON, EmptyObject} \cup [kind : {"object"}, value : Value]

ACPMessage ==
    [jsonrpc : STRING, id : STRING, method : STRING, sender : STRING, target : STRING,
     required_skills : Seq(STRING), task_id : STRING, session_id : STRING, params : Params]

A2AEnvelope ==
    [jsonrpc : STRING, id : STRING, method : STRING, sender : STRING, target : STRING,
     taskId : STRING, sessionId : STRING, payload : RawMessage]

\* Decoding what has been decoded, and written again, changes nothing more.
DecodingSettles ==
    /\ Decodable \subseteq Value
    /\ Decoded \in [Decodable -> Decodable]
    /\ \A v \in Decodable : Decoded[Decoded[v]] = Decoded[v]

\* json.Unmarshal(payload, &params)
Decode(payload) ==
    CASE payload.kind \in {"none", "empty"} -> payload
      [] payload.kind = "object" /\ payload.value \in Decodable -> Object(Decoded[payload.value])
      [] OTHER -> NoJSON

\* Only a payload that is an object, and can be decoded, becomes Params.
ToACPMessage(env) ==
    [jsonrpc |-> env.jsonrpc, id |-> env.id, method |-> env.method,
     sender |-> env.sender, target |-> env.target, required_skills |-> <<>>,
     task_id |-> env.taskId, session_id |-> env.sessionId,
     params |-> Decode(env.payload)]

\* Empty Params become no payload; what Params hold can be encoded.
ToA2AEnvelope(msg) ==
    [jsonrpc |-> msg.jsonrpc, id |-> msg.id, method |-> msg.method,
     sender |-> msg.sender, target |-> msg.target,
     taskId |-> msg.task_id, sessionId |-> msg.session_id,
     payload |-> IF msg.params.kind = "object" THEN msg.params ELSE NoJSON]

\* A new envelope; payload is what its argument marshals to.
NewA2AEnvelope(method, sender, target, payload) ==
    [jsonrpc |-> "2.0", id |-> "", method |-> method, sender |-> sender, target |-> target,
     taskId |-> "", sessionId |-> "", payload |-> payload]

\* The harness's own messages: ACPMessage{JSONRPC: "2.0", ...}.
NewACPMessage(method, sender, target, params) ==
    [jsonrpc |-> "2.0", id |-> "", method |-> method, sender |-> sender, target |-> target,
     required_skills |-> <<>>, task_id |-> "", session_id |-> "", params |-> params]

-----------------------------------------------------------------------------
(* encoding/json.                                                           *)

Always == {"jsonrpc", "method", "sender"}

\* What the omitempty of a field leaves out.
IsEmpty(field, v) ==
    \/ field = "params" /\ v.kind \in {"none", "empty"}
    \/ field = "payload" /\ v.kind = "none"
    \/ field = "required_skills" /\ v = <<>>
    \/ field \notin {"params", "payload", "required_skills"} /\ v = ""

\* The JSON object on the line: its keys and their values.
Marshal(struct) ==
    [field \in {f \in DOMAIN struct : f \in Always \/ ~IsEmpty(f, struct[f])} |-> struct[field]]

Get(line, field, zero) == IF field \in DOMAIN line THEN line[field] ELSE zero

\* json.Unmarshal(line, &env): keys the struct does not know are ignored,
\* fields the line does not have keep their zero value.
UnmarshalEnvelope(line) ==
    [jsonrpc |-> Get(line, "jsonrpc", ""), id |-> Get(line, "id", ""),
     method |-> Get(line, "method", ""), sender |-> Get(line, "sender", ""),
     target |-> Get(line, "target", ""), taskId |-> Get(line, "taskId", ""),
     sessionId |-> Get(line, "sessionId", ""), payload |-> Get(line, "payload", NoJSON)]
=============================================================================
