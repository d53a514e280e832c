------------------------------- MODULE Gateway -------------------------------
(***************************************************************************)
(* The WebSocket gateway (main.go: broadcastWS, broadcastState,            *)
(* recordSessionMessage, handleWebSocket, handleWSIncoming) and the        *)
(* sessions of the task store that it shows.                               *)
(*                                                                         *)
(* A broadcast takes wsClientsMu and writes to one client after the other  *)
(* before it lets go.  A new client enters wsClients first; its snapshot   *)
(* is read and written afterwards, by its own goroutine and without the    *)
(* lock.  gorilla/websocket wants one writer at a time and panics when it  *)
(* notices two; net/http recovers a panic of a client's goroutine, nobody  *)
(* recovers one of any other goroutine.                                    *)
(***************************************************************************)
EXTENDS Naturals

CONSTANTS
    Client,      \* browser connections, each made at most once
    Goroutine,   \* readers of agent connections and of the agents' terminals
    NoOne,       \* holds wsClientsMu when it is free
    Session,
    Limit,       \* messages of a session a new client is shown (50 in the code)
    BufCap,      \* unread messages a socket takes before a write to it blocks
    MaxEvents    \* bound on messages and registrations acted on

ASSUME ActorsDisjoint == Client \cap Goroutine = {} /\ NoOne \notin Client \cup Goroutine
ASSUME BoundsAreNat == Limit \in Nat /\ BufCap \in Nat \ {0} /\ MaxEvents \in Nat

VARIABLES
    record,      \* per session: how many messages sess.Messages holds
    topology,    \* how often topologyCache has changed
    job,         \* per goroutine: the broadcast it is at, and the one after it
    lock,        \* who holds wsClientsMu
    todo,        \* the clients its holder has yet to write to
    wsClients,
    point,       \* where handleWebSocket stands for each client
    snapshot,    \* what it has read for the client and not written yet
    sock,        \* the client's socket: "none", "open", "closed"
    unread,      \* messages in the socket that the browser has not read
    got,         \* what has been written to an open socket
    events,
    panicked     \* a panic nobody recovered has ended the harness

storeVars == <<record, topology>>
lockVars  == <<lock, todo, wsClients>>
connVars  == <<point, snapshot, sock, unread, got>>
vars      == <<storeVars, job, lockVars, connVars, events, panicked>>

Proc == Client \cup Goroutine

Point == {"none", "readState", "readSessions", "reading", "unregister",
          "gone", "crashed"}

\* What a broadcast carries.  A topology is known by its version, a session
\* message by its place in the session; log, acp_trace, pty_stream and
\* task_update messages are all one.
Item(kind, session, number) == [kind |-> kind, of |-> session, number |-> number]
AnyItem == [kind : {"nothing", "log", "stateToCopy", "state", "session"},
            of : Session \cup {NoOne}, number : Nat]

Nothing       == Item("nothing", NoOne, 0)
Log           == Item("log", NoOne, 0)
StateToCopy   == Item("stateToCopy", NoOne, 0)   \* broadcastState before its copy
State(v)      == Item("state", NoOne, v)
Message(s, k) == Item("session", s, k)

\* The items a client keeps; the rest passes through.
Kept(item) == item.kind \in {"state", "session"}

Broadcasts(now, after) == [now |-> now, after |-> after]
Idle == Broadcasts(Nothing, Nothing)

Init ==
    /\ record = [s \in Session |-> 0]
    /\ topology = 0
    /\ job = [p \in Proc |-> Idle]
    /\ lock = NoOne /\ todo = {} /\ wsClients = {}
    /\ point = [c \in Client |-> "none"]
    /\ snapshot = [c \in Client |-> {}]
    /\ sock = [c \in Client |-> "none"]
    /\ unread = [c \in Client |-> 0]
    /\ got = [c \in Client |-> {}]
    /\ events = 0
    /\ panicked = FALSE

\* Goroutine p starts on something that ends in broadcasts.
Begin(p, now, after) ==
    /\ job[p] = Idle
    /\ events < MaxEvents /\ events' = events + 1
    /\ job' = [job EXCEPT ![p] = Broadcasts(now, after)]

-----------------------------------------------------------------------------
(* What there is to broadcast.                                              *)

\* recordSessionMessage: the record first, the broadcast afterwards.
recordSessionMessage(p, s) ==
    /\ p \in Goroutine
    /\ Begin(p, Message(s, record[s] + 1), Nothing)
    /\ record' = [record EXCEPT ![s] = @ + 1]
    /\ UNCHANGED <<topology, lockVars, connVars, panicked>>

\* handleRegister logs and then broadcasts the state, cleanupAgent does it the
\* other way round; both have changed topologyCache under stateMu before.
ChangeTopology(p) ==
    /\ p \in Goroutine
    /\ Begin(p, Log, StateToCopy) \/ Begin(p, StateToCopy, Log)
    /\ topology' = topology + 1
    /\ UNCHANGED <<record, lockVars, connVars, panicked>>

\* Anything else a goroutine shows the clients.
Announce(p) ==
    /\ p \in Goroutine
    /\ Begin(p, Log, Nothing)
    /\ UNCHANGED <<storeVars, lockVars, connVars, panicked>>

\* A message from the browser: a trace, and a log when its target is not found.
handleWSIncoming(c) ==
    /\ point[c] = "reading" /\ snapshot[c] = {} /\ sock[c] = "open"
    /\ \E after \in {Nothing, Log} : Begin(c, Log, after)
    /\ UNCHANGED <<storeVars, lockVars, connVars, panicked>>

-----------------------------------------------------------------------------
(* broadcastWS, preceded by the copy of broadcastState.                     *)

CopyState(p) ==
    /\ job[p].now = StateToCopy
    /\ job' = [job EXCEPT ![p].now = State(topology)]
    /\ UNCHANGED <<storeVars, lockVars, connVars, events, panicked>>

\* Bug: clients still being sent their snapshot are passed over.
LockPassingOverNewcomers(p) ==
    /\ job[p].now \notin {Nothing, StateToCopy}
    /\ lock = NoOne
    /\ lock' = p /\ todo' = {c \in wsClients : point[c] = "reading" /\ snapshot[c] = {}}
    /\ UNCHANGED <<storeVars, job, wsClients, connVars, events, panicked>>

Lock(p) ==
    /\ job[p].now \notin {Nothing, StateToCopy}
    /\ lock = NoOne
    /\ lock' = p /\ todo' = wsClients
    /\ UNCHANGED <<storeVars, job, wsClients, connVars, events, panicked>>

\* Bug: a write waits for room in a dead socket too.
WriteWaitsForTheDead(c, item) ==
    /\ sock[c] = "open" /\ unread[c] < BufCap
    /\ unread' = [unread EXCEPT ![c] = @ + 1]
    /\ got' = IF Kept(item) THEN [got EXCEPT ![c] = @ \cup {item}] ELSE got

\* Bug: one message more than the socket has room for.
WriteOverfull(c, item) ==
    /\ sock[c] = "open" => unread[c] <= BufCap
    /\ unread' = IF sock[c] = "open" THEN [unread EXCEPT ![c] = @ + 1] ELSE unread
    /\ got' = IF sock[c] = "open" /\ Kept(item)
              THEN [got EXCEPT ![c] = @ \cup {item}]
              ELSE got

\* A write waits for room in an open socket and fails at once on a dead one.
Write(c, item) ==
    /\ sock[c] = "open" => unread[c] < BufCap
    /\ unread' = IF sock[c] = "open" THEN [unread EXCEPT ![c] = @ + 1] ELSE unread
    /\ got' = IF sock[c] = "open" /\ Kept(item)
              THEN [got EXCEPT ![c] = @ \cup {item}]
              ELSE got

WriteTo(p, c) ==
    /\ lock = p /\ c \in todo
    /\ Write(c, job[p].now)
    /\ todo' = todo \ {c}
    /\ UNCHANGED <<storeVars, job, lock, wsClients, point, snapshot, sock, events, panicked>>

Unlock(p) ==
    /\ lock = p /\ todo = {}
    /\ lock' = NoOne
    /\ job' = [job EXCEPT ![p] = Broadcasts(@.after, Nothing)]
    /\ UNCHANGED <<storeVars, todo, wsClients, connVars, events, panicked>>

-----------------------------------------------------------------------------
(* The broadcast meets the snapshot that c's goroutine is writing.          *)

\* The socket is closed, and what was in it is gone.
Hangup(c) ==
    /\ sock' = [sock EXCEPT ![c] = "closed"]
    /\ unread' = [unread EXCEPT ![c] = 0]
    /\ got' = [got EXCEPT ![c] = {}]

Overlap(p, c) == lock = p /\ c \in todo /\ snapshot[c] # {} /\ sock[c] = "open"

\* c's goroutine panics and is recovered: conn.Close is deferred, the removal
\* from wsClients is not.
SnapshotPanics(p, c) ==
    /\ Overlap(p, c)
    /\ point' = [point EXCEPT ![c] = "crashed"]
    /\ Hangup(c)
    /\ snapshot' = [snapshot EXCEPT ![c] = {}]
    /\ UNCHANGED <<storeVars, job, lockVars, events, panicked>>

\* The broadcast panics: the end of the harness, or of the client p whose
\* message it shows; the deferred unlock runs.
BroadcastPanics(p, c) ==
    /\ Overlap(p, c)
    /\ lock' = NoOne /\ todo' = {}
    /\ job' = [job EXCEPT ![p] = Idle]
    /\ IF p \in Client
       THEN /\ point' = [point EXCEPT ![p] = "crashed"]
            /\ Hangup(p)
            /\ UNCHANGED panicked
       ELSE /\ panicked' = TRUE
            /\ UNCHANGED <<point, sock, unread, got>>
    /\ UNCHANGED <<storeVars, wsClients, snapshot, events>>

-----------------------------------------------------------------------------
(* handleWebSocket.                                                         *)

GoOn(c, from, to) == point[c] = from /\ point' = [point EXCEPT ![c] = to]

\* Nobody knows of the connection between upgrader.Upgrade and this.
Register(c) ==
    /\ GoOn(c, "none", "readState")
    /\ lock = NoOne
    /\ wsClients' = wsClients \cup {c}
    /\ sock' = [sock EXCEPT ![c] = "open"]
    /\ UNCHANGED <<storeVars, job, lock, todo, snapshot, unread, got, events, panicked>>

getWSStateUpdate(c) ==
    /\ GoOn(c, "readState", "readSessions")
    /\ snapshot' = [snapshot EXCEPT ![c] = {State(topology)}]
    /\ UNCHANGED <<storeVars, job, lockVars, sock, unread, got, events, panicked>>

\* The last Limit messages of each session.
Recent ==
    UNION {{Message(s, k) : k \in {n \in 1..record[s] : n + Limit > record[s]}} : s \in Session}

GetSessionRecentUpdates(c) ==
    /\ snapshot[c] = {}
    /\ GoOn(c, "readSessions", "reading")
    /\ snapshot' = [snapshot EXCEPT ![c] = Recent]
    /\ UNCHANGED <<storeVars, job, lockVars, sock, unread, got, events, panicked>>

\* The sessions in any order (a map), each from the oldest message on; the
\* error of a failed write is ignored.
WriteSnapshot(c) ==
    \E item \in snapshot[c] :
        /\ \A other \in snapshot[c] : other.of = item.of => item.number <= other.number
        /\ Write(c, item)
        /\ snapshot' = [snapshot EXCEPT ![c] = @ \ {item}]
        /\ UNCHANGED <<storeVars, job, lockVars, point, sock, events, panicked>>

\* Bug: the handler returns at the end of the input.
EndOfInputReturns(c) ==
    /\ job[c] = Idle /\ snapshot[c] = {} /\ sock[c] = "closed"
    /\ GoOn(c, "reading", "gone")
    /\ UNCHANGED <<storeVars, job, lockVars, snapshot, sock, unread, got, events, panicked>>

EndOfInput(c) ==
    /\ job[c] = Idle /\ snapshot[c] = {} /\ sock[c] = "closed"
    /\ GoOn(c, "reading", "unregister")
    /\ UNCHANGED <<storeVars, job, lockVars, snapshot, sock, unread, got, events, panicked>>

Unregister(c) ==
    /\ GoOn(c, "unregister", "gone")
    /\ lock = NoOne
    /\ wsClients' = wsClients \ {c}
    /\ UNCHANGED <<storeVars, job, lock, todo, snapshot, sock, unread, got, events, panicked>>

-----------------------------------------------------------------------------
(* The browser: it owes nothing, not even reading.                          *)

BrowserReads(c) ==
    /\ sock[c] = "open" /\ unread[c] > 0
    /\ unread' = [unread EXCEPT ![c] = @ - 1]
    /\ UNCHANGED <<storeVars, job, lockVars, point, snapshot, sock, got, events, panicked>>

BrowserCloses(c) ==
    /\ sock[c] = "open"
    /\ Hangup(c)
    /\ UNCHANGED <<storeVars, job, lockVars, point, snapshot, events, panicked>>

-----------------------------------------------------------------------------
Broadcasting(p) ==
    \/ CopyState(p) \/ Lock(p) \/ Unlock(p)
    \/ \E c \in Client : WriteTo(p, c) \/ SnapshotPanics(p, c) \/ BroadcastPanics(p, c)

Serving(c) ==
    \/ getWSStateUpdate(c) \/ GetSessionRecentUpdates(c) \/ WriteSnapshot(c)
    \/ EndOfInput(c) \/ Unregister(c)

Environment ==
    \/ \E p \in Proc : \/ \E s \in Session : recordSessionMessage(p, s)
                       \/ ChangeTopology(p) \/ Announce(p)
    \/ \E c \in Client : \/ Register(c) \/ handleWSIncoming(c)
                         \/ BrowserReads(c) \/ BrowserCloses(c)

Next ==
    /\ ~panicked
    /\ \/ Environment
       \/ \E p \in Proc : Broadcasting(p)
       \/ \E c \in Client : Serving(c)

Spec == Init /\ [][Next]_vars

\* Every goroutine that can run is run.  (Go hands wsClientsMu to its waiters in
\* turn; the bound on events keeps it from changing hands for ever anyway.)
FairSpec ==
    /\ Spec
    /\ \A p \in Proc : WF_vars(~panicked /\ Broadcasting(p))
    /\ \A c \in Client : WF_vars(~panicked /\ Serving(c))

-----------------------------------------------------------------------------
TypeOK ==
    /\ record \in [Session -> Nat]
    /\ topology \in Nat
    /\ job \in [Proc -> [now : AnyItem, after : AnyItem]]
    /\ snapshot \in [Client -> SUBSET AnyItem]
    /\ got \in [Client -> SUBSET AnyItem]
    /\ lock \in Proc \cup {NoOne}
    /\ todo \subseteq wsClients /\ wsClients \subseteq Client
    /\ point \in [Client -> Point]
    /\ sock \in [Client -> {"none", "open", "closed"}]
    /\ unread \in [Client -> 0..BufCap]
    /\ events \in 0..MaxEvents
    /\ panicked \in BOOLEAN

\* Goroutine p is about to write the item to c, or will when it has the lock.
Carries(p, item, c) ==
    \/ job[p].now = item /\ (lock = p => c \in todo)
    \/ job[p].after = item

OnItsWay(item, c) ==
    \/ item \in got[c] \cup snapshot[c]
    \/ \E p \in Proc : Carries(p, item, c)

\* The latest topology, or a goroutine that has yet to copy it.
TopologyOnItsWay(c) ==
    OnItsWay(State(topology), c) \/ \E p \in Proc : Carries(p, StateToCopy, c)

Served(c) == point[c] = "reading" /\ sock[c] = "open"

\* A client whose snapshot has been read misses nothing: the latest topology
\* and the last messages of each session have been written to it, or wait in
\* its snapshot, or are carried by a goroutine that has yet to write them to
\* this client, whenever it connected and whoever was broadcasting then.
NothingMissed ==
    ~panicked => \A c \in Client : Served(c) =>
        /\ \A item \in Recent : OnItsWay(item, c)
        /\ TopologyOnItsWay(c)

-----------------------------------------------------------------------------
(* What makes NothingMissed inductive.                                      *)

\* Whoever holds the lock has something to write; nobody else has anybody to
\* write to, and what comes after a broadcast was not copied before it.  The
\* goroutine of a client broadcasts nothing that another client keeps.
JobsInv ==
    /\ lock # NoOne => job[lock].now \notin {Nothing, StateToCopy}
    /\ lock = NoOne => todo = {}
    /\ \A p \in Proc : job[p].after \in {Nothing, Log, StateToCopy}
    /\ \A c \in Client :
           /\ job[c].now \in {Nothing, Log} /\ job[c].after \in {Nothing, Log}
           /\ \A item \in snapshot[c] : Kept(item)

\* A client is in wsClients before anything is read for it.
ServedAreKnown ==
    \A c \in Client : point[c] \in {"readState", "readSessions", "reading"} => c \in wsClients

ServedInv ==
    ~panicked => \A c \in Client : sock[c] = "open" =>
        /\ point[c] \in {"readSessions", "reading"} => TopologyOnItsWay(c)
        /\ point[c] = "reading" => \A item \in Recent : OnItsWay(item, c)

IInv == TypeOK /\ JobsInv /\ ServedAreKnown /\ ServedInv

-----------------------------------------------------------------------------
Stalled(c) == sock[c] = "open" /\ unread[c] = BufCap

\* What is on its way to a client arrives, and the one thing that can hold it
\* up for good is a browser, this one or another, that stops reading while its
\* socket stays open; a browser that is gone holds nobody up.
OnlyAStallHoldsUp ==
    \A c \in Client, s \in Session, k \in 1..MaxEvents :
        (Served(c) /\ (\E p \in Proc : Carries(p, Message(s, k), c))) ~>
            \/ Message(s, k) \in got[c]
            \/ sock[c] = "closed"
            \/ panicked
            \/ \E d \in Client : []Stalled(d)

\* A client that is gone leaves wsClients, unless its goroutine panicked.
GoneIsForgotten ==
    \A c \in Client :
        (sock[c] = "closed") ~>
            \/ c \notin wsClients
            \/ point[c] = "crashed"
            \/ panicked
            \/ \E d \in Client : []Stalled(d)
=============================================================================
