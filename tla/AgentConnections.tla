-------------------------- MODULE AgentConnections --------------------------
(***************************************************************************)
(* The life of an agent's connection (main.go: handleUDSConnection,        *)
(* handleRegister, cleanupAgent; taskstore.go: RegisterAgentConn,          *)
(* UnregisterAgent, SendToAgent).                                          *)
(*                                                                         *)
(* A connection has a reader goroutine, a writer goroutine and a bounded   *)
(* channel between whoever has a message for the agent and the writer.     *)
(* Registration and cleanup each go through two registries under two       *)
(* different locks, one after the other, and tell the browsers of it when  *)
(* they are through: a browser that does not read holds the reader there.  *)
(* An agent that restarts comes back on a new connection under the same    *)
(* id, while the old connection may still be on its way out; and nothing   *)
(* keeps a peer from registering again under another id, or under none.    *)
(***************************************************************************)
EXTENDS Naturals

CONSTANTS
    AgentId,
    NoId,        \* the empty id: not registered yet, or registered without a sender
    Conn,        \* connections, each accepted at most once
    Nobody,      \* no connection registered
    ChanCap,     \* capacity of outbound (64 in the code)
    MaxMessages  \* bound on the lines acted on and the messages sent, over all connections

ASSUME NobodyIsNoOne == NoId \notin AgentId /\ Nobody \notin Conn
ASSUME ChanCapPositive == ChanCap \in Nat \ {0}
ASSUME MaxMessagesNat == MaxMessages \in Nat

VARIABLES
    reader,      \* where the reader goroutine of each connection stands
    ident,       \* its local myAgentID
    sock,        \* the socket: "none", "open", "closed"
    writer,      \* the writer goroutine: "none", "writing", "discarding", "done"
    queue,       \* messages in outbound
    closed,      \* close(outbound) has run
    lost,        \* messages taken off outbound and discarded
    stateReg,    \* under stateMu: whose connection the id stands for in agentConns,
                 \* capabilities, tools and topologyCache
    storeReg,    \* under ts.mu: whose outbound SendToAgent(id) uses
    messages,    \* lines acted on and messages sent so far
    panicked     \* a send on a closed channel has brought the harness down

connVars == <<reader, ident, sock, writer, queue, closed, lost>>
regVars  == <<stateReg, storeReg>>
vars     == <<connVars, regVars, messages, panicked>>

Id == AgentId \cup {NoId}

ReaderPoint == {"none", "reading", "regStore", "announcing", "tracing", "replying",
                "closing", "waiting", "cleanState", "cleanStore", "leaving", "gone"}

Init ==
    /\ reader = [c \in Conn |-> "none"]
    /\ ident = [c \in Conn |-> NoId]
    /\ sock = [c \in Conn |-> "none"]
    /\ writer = [c \in Conn |-> "none"]
    /\ queue = [c \in Conn |-> 0]
    /\ closed = [c \in Conn |-> FALSE]
    /\ lost = [c \in Conn |-> 0]
    /\ stateReg = [a \in Id |-> Nobody]
    /\ storeReg = [a \in Id |-> Nobody]
    /\ messages = 0
    /\ panicked = FALSE

Count == messages < MaxMessages /\ messages' = messages + 1

Step(c, from, to) == reader[c] = from /\ reader' = [reader EXCEPT ![c] = to]

-----------------------------------------------------------------------------
(* The peer.                                                                *)

Accept(c) ==
    /\ Step(c, "none", "reading")
    /\ sock' = [sock EXCEPT ![c] = "open"]
    /\ writer' = [writer EXCEPT ![c] = "writing"]
    /\ UNCHANGED <<ident, queue, closed, lost, regVars, messages, panicked>>

\* The agent exits or is killed; what it wrote before may still be read.
PeerCloses(c) ==
    /\ sock[c] = "open"
    /\ sock' = [sock EXCEPT ![c] = "closed"]
    /\ UNCHANGED <<reader, ident, writer, queue, closed, lost, regVars, messages, panicked>>

-----------------------------------------------------------------------------
(* The reader goroutine: registration and replies.                          *)

\* The sender of the line is the id from now on, whatever it was before.
RegisterState(c, a) ==
    /\ Count
    /\ Step(c, "reading", "regStore")
    /\ ident' = [ident EXCEPT ![c] = a]
    /\ stateReg' = [stateReg EXCEPT ![a] = c]
    /\ UNCHANGED <<sock, writer, queue, closed, lost, storeReg, panicked>>

\* RegisterAgentCard, which follows, is in AgentRegistry.
RegisterAgentConn(c) ==
    /\ Step(c, "regStore", "announcing")
    /\ storeReg' = [storeReg EXCEPT ![ident[c]] = c]
    /\ UNCHANGED <<ident, sock, writer, queue, closed, lost, stateReg, messages, panicked>>

\* The log and the topology go to the browsers before the next line is read.
Announce(c) ==
    /\ Step(c, "announcing", "reading")
    /\ UNCHANGED <<ident, sock, writer, queue, closed, lost, regVars, messages, panicked>>

\* Any other line: some are shown to the browsers first (as session_update or
\* acp_trace), some are answered on the requester's own channel, some both.
Request(c) ==
    /\ Count
    /\ \E next \in {"tracing", "replying"} : Step(c, "reading", next)
    /\ UNCHANGED <<ident, sock, writer, queue, closed, lost, regVars, panicked>>

Trace(c) ==
    /\ \E next \in {"reading", "replying"} : Step(c, "tracing", next)
    /\ UNCHANGED <<ident, sock, writer, queue, closed, lost, regVars, messages, panicked>>

\* outbound <- reply: waits until there is room.
Reply(c) ==
    /\ queue[c] < ChanCap
    /\ Step(c, "replying", "reading")
    /\ queue' = [queue EXCEPT ![c] = @ + 1]
    /\ UNCHANGED <<ident, sock, writer, closed, lost, regVars, messages, panicked>>

-----------------------------------------------------------------------------
(* The reader goroutine: the way out.                                       *)

EndOfInput(c) ==
    /\ sock[c] = "closed"
    /\ Step(c, "reading", "closing")
    /\ UNCHANGED <<ident, sock, writer, queue, closed, lost, regVars, messages, panicked>>

\* bufio.Scanner gives up on a line longer than its buffer: the socket is open.
LineTooLong(c) ==
    /\ sock[c] = "open"
    /\ Step(c, "reading", "closing")
    /\ UNCHANGED <<ident, sock, writer, queue, closed, lost, regVars, messages, panicked>>

CloseOutbound(c) ==
    /\ Step(c, "closing", "waiting")
    /\ closed' = [closed EXCEPT ![c] = TRUE]
    /\ UNCHANGED <<ident, sock, writer, queue, lost, regVars, messages, panicked>>

\* Bug: cleanup does not wait for the writer.
NoWaitForWriter(c) ==
    /\ Step(c, "waiting", IF ident[c] = NoId THEN "gone" ELSE "cleanState")
    /\ sock' = IF ident[c] = NoId THEN [sock EXCEPT ![c] = "closed"] ELSE sock
    /\ UNCHANGED <<ident, writer, queue, closed, lost, regVars, messages, panicked>>

\* writerWg.Wait, and the early return of cleanupAgent for a connection that
\* never registered, or registered without a sender.
WaitForWriter(c) ==
    /\ writer[c] = "done"
    /\ Step(c, "waiting", IF ident[c] = NoId THEN "gone" ELSE "cleanState")
    /\ sock' = IF ident[c] = NoId THEN [sock EXCEPT ![c] = "closed"] ELSE sock
    /\ UNCHANGED <<ident, writer, queue, closed, lost, regVars, messages, panicked>>

CleanState(c) ==
    /\ Step(c, "cleanState", "cleanStore")
    /\ stateReg' = [stateReg EXCEPT ![ident[c]] = Nobody]
    /\ UNCHANGED <<ident, sock, writer, queue, closed, lost, storeReg, messages, panicked>>

\* Bug: the channel stays in the store.
KeepChannel(c) ==
    /\ Step(c, "cleanStore", "leaving")
    /\ UNCHANGED <<ident, sock, writer, queue, closed, lost, regVars, messages, panicked>>

\* The card and the skills go too, see AgentRegistry.
UnregisterAgent(c) ==
    /\ Step(c, "cleanStore", "leaving")
    /\ storeReg' = [storeReg EXCEPT ![ident[c]] = Nobody]
    /\ UNCHANGED <<ident, sock, writer, queue, closed, lost, stateReg, messages, panicked>>

\* The browsers are told, and then the socket is closed at this end too.
Leave(c) ==
    /\ Step(c, "leaving", "gone")
    /\ sock' = [sock EXCEPT ![c] = "closed"]
    /\ UNCHANGED <<ident, writer, queue, closed, lost, regVars, messages, panicked>>

-----------------------------------------------------------------------------
(* The writer goroutine.                                                    *)

\* Not fair: an agent may leave its end of the socket unread.
Write(c) ==
    /\ writer[c] = "writing" /\ queue[c] > 0 /\ sock[c] = "open"
    /\ queue' = [queue EXCEPT ![c] = @ - 1]
    /\ UNCHANGED <<reader, ident, sock, writer, closed, lost, regVars, messages, panicked>>

\* Bug: a failed write ends the writer, and nobody empties the channel.
WriteFailsAndReturns(c) ==
    /\ writer[c] = "writing" /\ queue[c] > 0 /\ sock[c] = "closed"
    /\ queue' = [queue EXCEPT ![c] = @ - 1]
    /\ lost' = [lost EXCEPT ![c] = @ + 1]
    /\ writer' = [writer EXCEPT ![c] = "done"]
    /\ UNCHANGED <<reader, ident, sock, closed, regVars, messages, panicked>>

WriteFails(c) ==
    /\ writer[c] = "writing" /\ queue[c] > 0 /\ sock[c] = "closed"
    /\ queue' = [queue EXCEPT ![c] = @ - 1]
    /\ lost' = [lost EXCEPT ![c] = @ + 1]
    /\ writer' = [writer EXCEPT ![c] = "discarding"]
    /\ UNCHANGED <<reader, ident, sock, closed, regVars, messages, panicked>>

Discard(c) ==
    /\ writer[c] = "discarding" /\ queue[c] > 0
    /\ queue' = [queue EXCEPT ![c] = @ - 1]
    /\ lost' = [lost EXCEPT ![c] = @ + 1]
    /\ UNCHANGED <<reader, ident, sock, writer, closed, regVars, messages, panicked>>

\* A closed channel is still drained before the range over it ends.
WriterReturns(c) ==
    /\ writer[c] \in {"writing", "discarding"} /\ closed[c] /\ queue[c] = 0
    /\ writer' = [writer EXCEPT ![c] = "done"]
    /\ UNCHANGED <<reader, ident, sock, queue, closed, lost, regVars, messages, panicked>>

-----------------------------------------------------------------------------
(* Any other goroutine: a message for agent a, dropped when the channel is  *)
(* full and fatal when it is closed.                                        *)

\* Bug: one message more than the channel has room for.
SendToAgentOverfull(a) ==
    /\ Count
    /\ storeReg[a] # Nobody
    /\ LET c == storeReg[a]
       IN  IF closed[c]
           THEN panicked' = TRUE /\ queue' = queue
           ELSE /\ queue' = IF queue[c] <= ChanCap THEN [queue EXCEPT ![c] = @ + 1] ELSE queue
                /\ UNCHANGED panicked
    /\ UNCHANGED <<reader, ident, sock, writer, closed, lost, regVars>>

SendToAgent(a) ==
    /\ Count
    /\ storeReg[a] # Nobody
    /\ LET c == storeReg[a]
       IN  IF closed[c]
           THEN panicked' = TRUE /\ queue' = queue
           ELSE /\ queue' = IF queue[c] < ChanCap THEN [queue EXCEPT ![c] = @ + 1] ELSE queue
                /\ UNCHANGED panicked
    /\ UNCHANGED <<reader, ident, sock, writer, closed, lost, regVars>>

-----------------------------------------------------------------------------
\* What a connection's own goroutines do once they can.
Goroutines(c) ==
    \/ RegisterAgentConn(c) \/ Reply(c) \/ EndOfInput(c)
    \/ CloseOutbound(c) \/ WaitForWriter(c) \/ CleanState(c) \/ UnregisterAgent(c)

\* What it does once every browser has taken its broadcast.
Broadcasts(c) == Announce(c) \/ Trace(c) \/ Leave(c)

WriterRuns(c) == WriteFails(c) \/ Discard(c) \/ WriterReturns(c)

Environment(c) ==
    \/ Accept(c) \/ PeerCloses(c) \/ Request(c) \/ LineTooLong(c) \/ Write(c)
    \/ \E a \in Id : RegisterState(c, a)

Next ==
    /\ ~panicked
    /\ \/ \E c \in Conn : Goroutines(c) \/ Broadcasts(c) \/ WriterRuns(c) \/ Environment(c)
       \/ \E a \in Id : SendToAgent(a)

Spec == Init /\ [][Next]_vars

\* The runtime schedules both goroutines.  Peers owe nothing, not even reading,
\* and neither do browsers: a broadcast may hold the reader for ever.
FairSpec ==
    Spec /\ \A c \in Conn : /\ WF_vars(~panicked /\ Goroutines(c))
                            /\ WF_vars(~panicked /\ WriterRuns(c))

-----------------------------------------------------------------------------
TypeOK ==
    /\ reader \in [Conn -> ReaderPoint]
    /\ ident \in [Conn -> Id]
    /\ sock \in [Conn -> {"none", "open", "closed"}]
    /\ writer \in [Conn -> {"none", "writing", "discarding", "done"}]
    /\ queue \in [Conn -> 0..ChanCap]
    /\ closed \in [Conn -> BOOLEAN]
    /\ lost \in [Conn -> Nat]
    /\ stateReg \in [Id -> Conn \cup {Nobody}]
    /\ storeReg \in [Id -> Conn \cup {Nobody}]
    /\ messages \in 0..MaxMessages
    /\ panicked \in BOOLEAN

\* Cleanup has always caught up with registration, although two connections may
\* register and clean up the same id in any order: no registry names a connection
\* that is gone under the id it answered to last.  (Under an id that it gave up
\* by registering as another, or under the empty id, it does: cleanupAgent knows
\* the last id only.  The agents of this repository register once.)
NoGhosts ==
    \A c \in Conn : ident[c] # NoId =>
        /\ reader[c] \in {"leaving", "gone"} => storeReg[ident[c]] # c
        /\ reader[c] \in {"cleanStore", "leaving", "gone"} => stateReg[ident[c]] # c

\* What was queued for an agent is thrown away only once its socket is dead,
\* and a connection that is gone left nothing behind in its channel.
NothingLostOnALiveSocket ==
    \A c \in Conn :
        /\ lost[c] > 0 => sock[c] = "closed"
        /\ reader[c] = "gone" => queue[c] = 0

InABroadcast(c) == reader[c] \in {"announcing", "tracing", "leaving"}

\* When an agent's socket dies its connection is cleaned up, even if the reader
\* is blocked on a full channel at that moment: the writer empties it.  The one
\* thing that keeps the reader from it is a broadcast that never returns.
DisconnectIsCleanedUp ==
    \A c \in Conn :
        (sock[c] = "closed") ~> (reader[c] = "gone" \/ panicked \/ []InABroadcast(c))

\* What the goroutines of one connection rely on: the inductive part.
ConnInv(c) ==
    /\ reader[c] = "none" => /\ ident[c] = NoId /\ sock[c] = "none" /\ lost[c] = 0
                             /\ writer[c] = "none" /\ queue[c] = 0 /\ ~closed[c]
    /\ reader[c] \in {"cleanState", "cleanStore", "leaving"} => ident[c] # NoId
    /\ closed[c] <=> reader[c] \in {"waiting", "cleanState", "cleanStore", "leaving", "gone"}
    /\ writer[c] = "done" => closed[c] /\ queue[c] = 0
    /\ reader[c] \in {"cleanState", "cleanStore", "leaving", "gone"} => writer[c] = "done"
    /\ writer[c] = "none" => reader[c] = "none"
    /\ writer[c] = "discarding" => sock[c] = "closed"

\* Only a connection that has been accepted is registered.
AcceptedFirst == \A a \in Id : storeReg[a] # Nobody => reader[storeReg[a]] # "none"

IInv ==
    /\ TypeOK
    /\ \A c \in Conn : ConnInv(c)
    /\ AcceptedFirst
    /\ NoGhosts
    /\ NothingLostOnALiveSocket

\* The comment in handleUDSConnection (main.go:159): waiting for the writer is
\* said to be "preventing send-on-closed-channel panics from late handler writes".
NoSendOnClosedChannel == ~panicked

\* "supporting clean re-registration" (taskstore.go:46): an agent that has
\* registered, and whose connection is still served, can be sent to.
RegisteredIsReachable ==
    \A c \in Conn : (reader[c] = "reading" /\ ident[c] # NoId) =>
                        storeReg[ident[c]] # Nobody
=============================================================================
