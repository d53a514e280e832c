---------------------------- MODULE GatewayProofs ----------------------------
(***************************************************************************)
(* Proofs about Gateway for any clients, goroutines, sessions, limit,      *)
(* socket buffer and number of events.  What is on its way to a client is  *)
(* followed through every step: it changes hands, and is never dropped     *)
(* while the client is served.                                             *)
(***************************************************************************)
EXTENDS Gateway, TLAPS

USE DEF Proc

\* Nobody is more than one of a client, another goroutine, and nobody.
LEMMA Actors ==
    /\ NoOne \notin Proc
    /\ Client \subseteq Proc /\ Goroutine \subseteq Proc /\ Client \cap Goroutine = {}
BY ActorsDisjoint

\* The items are items.
LEMMA Items ==
    /\ Nothing \in AnyItem /\ Log \in AnyItem /\ StateToCopy \in AnyItem
    /\ \A v \in Nat : State(v) \in AnyItem
    /\ \A s \in Session, k \in Nat : Message(s, k) \in AnyItem
    /\ Nothing # Log /\ Nothing # StateToCopy /\ Log # StateToCopy
    /\ \A v : State(v) \notin {Nothing, Log, StateToCopy}
    /\ \A s, k : Message(s, k) \notin {Nothing, Log, StateToCopy}
    /\ \A s, k, v : Message(s, k) # State(v)
BY DEF AnyItem, Nothing, Log, StateToCopy, State, Message, Item

LEMMA RecentItems ==
    ASSUME TypeOK
    PROVE  /\ Recent \subseteq AnyItem
           /\ \A item \in Recent : \E s \in Session, k \in Nat : item = Message(s, k)
BY Items DEF Recent, TypeOK, Message, Item

LEMMA InitIInv == Init => IInv
<1>. SUFFICES ASSUME Init PROVE IInv
  OBVIOUS
<1>1. job \in [Proc -> [now : AnyItem, after : AnyItem]]
  BY Items DEF Init, Idle, Broadcasts
<1>2. /\ record \in [Session -> Nat] /\ point \in [Client -> Point]
      /\ unread \in [Client -> 0..BufCap] /\ events \in 0..MaxEvents
  BY BoundsAreNat DEF Init, Point
<1>3. TypeOK
  BY <1>1, <1>2 DEF Init, TypeOK
<1>4. JobsInv /\ ServedAreKnown /\ ServedInv
  BY Actors, Items DEF Init, JobsInv, ServedAreKnown, ServedInv, Idle, Broadcasts
<1>. QED
  BY <1>3, <1>4 DEF IInv

-----------------------------------------------------------------------------
(* Types.                                                                   *)

LEMMA EventTypes ==
    ASSUME TypeOK, NEW p \in Proc,
           \/ \E s \in Session : recordSessionMessage(p, s)
           \/ ChangeTopology(p) \/ Announce(p)
           \/ p \in Client /\ handleWSIncoming(p)
    PROVE  TypeOK'
<1>1. ASSUME NEW now \in AnyItem, NEW after \in AnyItem, Begin(p, now, after)
      PROVE  job' \in [Proc -> [now : AnyItem, after : AnyItem]] /\ events' \in 0..MaxEvents
  BY <1>1, BoundsAreNat DEF TypeOK, Begin, Broadcasts
<1>2. UNCHANGED <<lockVars, connVars, panicked>> /\ record' \in [Session -> Nat] /\ topology' \in Nat
  BY DEF TypeOK, recordSessionMessage, ChangeTopology, Announce, handleWSIncoming, storeVars
<1>3. \E now, after \in AnyItem : Begin(p, now, after)
  BY Items DEF TypeOK, recordSessionMessage, ChangeTopology, Announce, handleWSIncoming
<1>. QED
  BY <1>1, <1>2, <1>3 DEF TypeOK, lockVars, connVars

\* A write keeps the types and whatever the page had, and adds the item if the
\* client keeps such items and its socket is open.
LEMMA WriteFacts ==
    ASSUME TypeOK, NEW c \in Client, NEW item \in AnyItem, Write(c, item)
    PROVE  /\ unread' \in [Client -> 0..BufCap]
           /\ got' \in [Client -> SUBSET AnyItem]
           /\ \A d \in Client : got[d] \subseteq got'[d]
           /\ sock[c] = "open" /\ Kept(item) => item \in got'[c]
BY BoundsAreNat DEF TypeOK, Write

LEMMA HangupTypes ==
    ASSUME TypeOK, NEW c \in Client, Hangup(c)
    PROVE  /\ unread' \in [Client -> 0..BufCap]
           /\ got' \in [Client -> SUBSET AnyItem]
           /\ sock' \in [Client -> {"none", "open", "closed"}]
           /\ sock'[c] = "closed"
           /\ \A d \in Client : d # c => got'[d] = got[d] /\ sock'[d] = sock[d]
BY BoundsAreNat DEF TypeOK, Hangup

LEMMA BroadcastTypes ==
    ASSUME TypeOK, NEW p \in Proc, Broadcasting(p)
    PROVE  TypeOK'
<1>1. CASE CopyState(p)
  BY <1>1, Items DEF CopyState, TypeOK, storeVars, lockVars, connVars
<1>2. CASE Lock(p)
  BY <1>2 DEF Lock, TypeOK, storeVars, connVars
<1>3. CASE Unlock(p)
  BY <1>3, Items DEF Unlock, TypeOK, storeVars, connVars, Broadcasts
<1>4. ASSUME NEW c \in Client, WriteTo(p, c) PROVE TypeOK'
  <2>1. job[p].now \in AnyItem
    BY DEF TypeOK
  <2>. QED
    BY <1>4, <2>1, WriteFacts DEF WriteTo, TypeOK, storeVars
<1>5. ASSUME NEW c \in Client, SnapshotPanics(p, c) PROVE TypeOK'
  BY <1>5, HangupTypes DEF SnapshotPanics, TypeOK, storeVars, lockVars, Point
<1>6. ASSUME NEW c \in Client, BroadcastPanics(p, c) PROVE TypeOK'
  <2>1. job' \in [Proc -> [now : AnyItem, after : AnyItem]] /\ lock' \in Proc \cup {NoOne}
        /\ todo' \subseteq wsClients' /\ wsClients' \subseteq Client
    BY <1>6, Items DEF BroadcastPanics, TypeOK, Idle, Broadcasts
  <2>2. CASE p \in Client
    BY <1>6, <2>1, <2>2, HangupTypes DEF BroadcastPanics, TypeOK, storeVars, Point
  <2>3. CASE p \notin Client
    BY <1>6, <2>1, <2>3 DEF BroadcastPanics, TypeOK, storeVars
  <2>. QED
    BY <2>2, <2>3
<1>. QED
  BY <1>1, <1>2, <1>3, <1>4, <1>5, <1>6 DEF Broadcasting

LEMMA ClientTypes ==
    ASSUME TypeOK, JobsInv, NEW c \in Client,
           Serving(c) \/ Register(c) \/ BrowserReads(c) \/ BrowserCloses(c)
    PROVE  TypeOK'
<1>1. CASE Register(c)
  BY <1>1 DEF Register, GoOn, TypeOK, storeVars, Point
<1>2. CASE getWSStateUpdate(c)
  BY <1>2, Items DEF getWSStateUpdate, GoOn, TypeOK, storeVars, lockVars, Point
<1>3. CASE GetSessionRecentUpdates(c)
  BY <1>3, RecentItems DEF GetSessionRecentUpdates, GoOn, TypeOK, storeVars, lockVars, Point
<1>4. CASE WriteSnapshot(c)
  <2>1. PICK item \in snapshot[c] :
            /\ Write(c, item)
            /\ snapshot' = [snapshot EXCEPT ![c] = @ \ {item}]
            /\ UNCHANGED <<storeVars, job, lockVars, point, sock, events, panicked>>
    BY <1>4 DEF WriteSnapshot
  <2>2. item \in AnyItem
    BY DEF TypeOK
  <2>. QED
    BY <2>1, <2>2, WriteFacts DEF TypeOK, storeVars, lockVars
<1>5. CASE EndOfInput(c)
  BY <1>5 DEF EndOfInput, GoOn, TypeOK, storeVars, lockVars, Point
<1>6. CASE Unregister(c)
  BY <1>6 DEF Unregister, GoOn, TypeOK, JobsInv, storeVars, Point
<1>7. CASE BrowserReads(c)
  BY <1>7, BoundsAreNat DEF BrowserReads, TypeOK, storeVars, lockVars
<1>8. CASE BrowserCloses(c)
  BY <1>8, HangupTypes DEF BrowserCloses, TypeOK, storeVars, lockVars
<1>. QED
  BY <1>1, <1>2, <1>3, <1>4, <1>5, <1>6, <1>7, <1>8 DEF Serving

Event(p) ==
    \/ \E s \in Session : recordSessionMessage(p, s)
    \/ ChangeTopology(p) \/ Announce(p)
    \/ p \in Client /\ handleWSIncoming(p)

LEMMA StepKinds ==
    Next => \/ \E p \in Proc : Event(p)
            \/ \E p \in Proc : Broadcasting(p)
            \/ \E c \in Client :
                   Serving(c) \/ Register(c) \/ BrowserReads(c) \/ BrowserCloses(c)
BY Actors DEF Next, Environment, Event

LEMMA TypeStep == TypeOK /\ JobsInv /\ [Next]_vars => TypeOK'
<1>. SUFFICES ASSUME TypeOK, JobsInv, [Next]_vars PROVE TypeOK'
  OBVIOUS
<1>1. CASE UNCHANGED vars
  BY <1>1 DEF TypeOK, vars, storeVars, lockVars, connVars
<1>2. CASE Next
  <2>1. CASE \E p \in Proc : Event(p)
    BY <2>1, EventTypes DEF Event
  <2>2. CASE \E p \in Proc : Broadcasting(p)
    BY <2>2, BroadcastTypes
  <2>3. CASE \E c \in Client :
                Serving(c) \/ Register(c) \/ BrowserReads(c) \/ BrowserCloses(c)
    BY <2>3, ClientTypes
  <2>. QED
    BY <1>2, <2>1, <2>2, <2>3, StepKinds
<1>. QED
  BY <1>1, <1>2

-----------------------------------------------------------------------------
(* Who broadcasts what.                                                     *)

\* An event leaves the lock and the connections alone, and gives the goroutine,
\* which was idle, one or two broadcasts.
LEMMA EventFacts ==
    ASSUME TypeOK, NEW p \in Proc, Event(p)
    PROVE  /\ job[p] = Idle
           /\ UNCHANGED <<lock, todo, wsClients, point, snapshot, sock, unread, got, panicked>>
           /\ \E now, after \in AnyItem :
                  /\ job' = [job EXCEPT ![p] = Broadcasts(now, after)]
                  /\ now # Nothing /\ after \in {Nothing, Log, StateToCopy}
                  /\ p \in Client => now = Log /\ after # StateToCopy
<1>1. ASSUME NEW now, NEW after, Begin(p, now, after)
      PROVE  job[p] = Idle /\ job' = [job EXCEPT ![p] = Broadcasts(now, after)]
  BY <1>1 DEF Begin
<1>2. ASSUME NEW s \in Session, recordSessionMessage(p, s)
      PROVE  Begin(p, Message(s, record[s] + 1), Nothing) /\ p \notin Client
             /\ Message(s, record[s] + 1) \in AnyItem
  BY <1>2, Items, Actors DEF recordSessionMessage, TypeOK
<1>3. CASE ChangeTopology(p)
  BY <1>1, <1>3, Items, Actors DEF ChangeTopology, lockVars, connVars
<1>4. CASE Announce(p)
  BY <1>1, <1>4, Items, Actors DEF Announce, lockVars, connVars
<1>5. CASE p \in Client /\ handleWSIncoming(p)
  BY <1>1, <1>5, Items, Actors DEF handleWSIncoming, lockVars, connVars
<1>6. ASSUME NEW s \in Session, recordSessionMessage(p, s)
      PROVE  UNCHANGED <<lock, todo, wsClients, point, snapshot, sock, unread, got, panicked>>
  BY <1>6 DEF recordSessionMessage, lockVars, connVars
<1>7. CASE \E s \in Session : recordSessionMessage(p, s)
  BY <1>1, <1>2, <1>6, <1>7, Items
<1>. QED
  BY <1>3, <1>4, <1>5, <1>7 DEF Event

LEMMA JobsStep ==
    ASSUME TypeOK, JobsInv, ServedAreKnown, Next
    PROVE  JobsInv' /\ ServedAreKnown'
<1>1. ASSUME NEW p \in Proc, Event(p) PROVE JobsInv' /\ ServedAreKnown'
  <2>1. PICK now \in AnyItem, after \in AnyItem :
            /\ job' = [job EXCEPT ![p] = Broadcasts(now, after)]
            /\ now # Nothing /\ after \in {Nothing, Log, StateToCopy}
            /\ p \in Client => now = Log /\ after # StateToCopy
    BY <1>1, EventFacts
  <2>2. lock # p
    BY <1>1, EventFacts, Actors DEF JobsInv, Idle, Broadcasts
  <2>3. job' \in [Proc -> [now : AnyItem, after : AnyItem]]
        /\ job'[p] = Broadcasts(now, after) /\ \A q \in Proc : q # p => job'[q] = job[q]
    BY <2>1 DEF TypeOK, Broadcasts
  <2>4. UNCHANGED <<lock, todo, wsClients, point, snapshot>>
    BY <1>1, EventFacts
  <2>. QED
    BY <2>1, <2>2, <2>3, <2>4, Actors, Items DEF JobsInv, ServedAreKnown, Broadcasts, TypeOK
<1>2. ASSUME NEW p \in Proc, Broadcasting(p) PROVE JobsInv' /\ ServedAreKnown'
  <2>1. CASE CopyState(p)
    BY <2>1, Items, Actors DEF CopyState, JobsInv, ServedAreKnown, TypeOK, lockVars, connVars
  <2>2. CASE Lock(p)
    BY <2>2, Actors DEF Lock, JobsInv, ServedAreKnown, connVars
  <2>3. CASE Unlock(p)
    BY <2>3, Items, Actors DEF Unlock, JobsInv, ServedAreKnown, TypeOK, connVars, Broadcasts
  <2>4. ASSUME NEW c \in Client, WriteTo(p, c) PROVE JobsInv' /\ ServedAreKnown'
    BY <2>4, Actors DEF WriteTo, JobsInv, ServedAreKnown
  <2>5. ASSUME NEW c \in Client, SnapshotPanics(p, c) PROVE JobsInv' /\ ServedAreKnown'
    BY <2>5 DEF SnapshotPanics, JobsInv, ServedAreKnown, TypeOK, lockVars
  <2>6. ASSUME NEW c \in Client, BroadcastPanics(p, c) PROVE JobsInv' /\ ServedAreKnown'
    BY <2>6, Items, Actors
       DEF BroadcastPanics, JobsInv, ServedAreKnown, TypeOK, Idle, Broadcasts
  <2>. QED
    BY <1>2, <2>1, <2>2, <2>3, <2>4, <2>5, <2>6 DEF Broadcasting
<1>3. ASSUME NEW c \in Client,
             Serving(c) \/ Register(c) \/ BrowserReads(c) \/ BrowserCloses(c)
      PROVE  JobsInv' /\ ServedAreKnown'
  <2>1. CASE Register(c)
    BY <2>1 DEF Register, GoOn, JobsInv, ServedAreKnown, TypeOK
  <2>2. CASE getWSStateUpdate(c)
    BY <2>2 DEF getWSStateUpdate, GoOn, JobsInv, ServedAreKnown, TypeOK, lockVars, Kept, State, Item
  <2>3. CASE GetSessionRecentUpdates(c)
    <3>1. \A item \in Recent : Kept(item)
      BY RecentItems DEF Kept, Message, Item
    <3>. QED
      BY <2>3, <3>1 DEF GetSessionRecentUpdates, GoOn, JobsInv, ServedAreKnown, TypeOK, lockVars
  <2>4. CASE WriteSnapshot(c)
    BY <2>4 DEF WriteSnapshot, JobsInv, ServedAreKnown, TypeOK, lockVars
  <2>5. CASE EndOfInput(c)
    BY <2>5 DEF EndOfInput, GoOn, JobsInv, ServedAreKnown, TypeOK, lockVars
  <2>6. CASE Unregister(c)
    BY <2>6 DEF Unregister, GoOn, JobsInv, ServedAreKnown, TypeOK
  <2>7. CASE BrowserReads(c) \/ BrowserCloses(c)
    BY <2>7 DEF BrowserReads, BrowserCloses, JobsInv, ServedAreKnown, lockVars
  <2>. QED
    BY <1>3, <2>1, <2>2, <2>3, <2>4, <2>5, <2>6, <2>7 DEF Serving
<1>. QED
  BY <1>1, <1>2, <1>3, StepKinds

-----------------------------------------------------------------------------
(* What is on its way to a client stays on its way.                         *)

\* Across a step, an item c keeps is not dropped, and a copy of the topology
\* that was to be made is still to be made or has been made of the latest.
NothingDropped(c) ==
    /\ \A item \in AnyItem : Kept(item) /\ OnItsWay(item, c) => OnItsWay(item, c)'
    /\ (\E p \in Proc : Carries(p, StateToCopy, c)) => TopologyOnItsWay(c)'

LEMMA EventDropsNothing ==
    ASSUME TypeOK, JobsInv, NEW p \in Proc, Event(p), NEW c \in Client
    PROVE  NothingDropped(c)
<1>1. job[p] = Idle /\ UNCHANGED <<lock, todo, snapshot, got>>
      /\ \A q \in Proc : q # p => job'[q] = job[q]
  BY EventFacts DEF TypeOK
<1>2. \A item \in AnyItem : Kept(item) \/ item = StateToCopy => ~Carries(p, item, c)
  BY <1>1 DEF Carries, Idle, Broadcasts, Nothing, Kept, Item, StateToCopy
<1>3. \A q \in Proc : \A item : q # p /\ Carries(q, item, c) => Carries(q, item, c)'
  BY <1>1 DEF Carries
<1>. QED
  BY <1>1, <1>2, <1>3, Items DEF NothingDropped, OnItsWay, TopologyOnItsWay

LEMMA BroadcastDropsNothing ==
    ASSUME IInv, NEW p \in Proc, Broadcasting(p), NEW c \in Client, c \in wsClients,
           sock'[c] = "open", ~panicked'
    PROVE  NothingDropped(c)
<1>0. TypeOK /\ JobsInv
  BY DEF IInv
<1>1. CASE CopyState(p)
  <2>1. UNCHANGED <<topology, lock, todo, snapshot, got>>
        /\ job[p].now = StateToCopy /\ job'[p].now = State(topology) /\ job'[p].after = job[p].after
        /\ \A q \in Proc : q # p => job'[q] = job[q]
    BY <1>0, <1>1 DEF CopyState, TypeOK, storeVars, lockVars, connVars
  <2>2. lock # p
    BY <1>0, <2>1, Actors DEF JobsInv
  <2>3. Carries(p, State(topology), c)'
    BY <2>1, <2>2 DEF Carries
  <2>4. \A item : Kept(item) => item # StateToCopy
    BY DEF Kept, StateToCopy, Item
  <2>5. \A q \in Proc : \A item : Kept(item) /\ Carries(q, item, c) => Carries(q, item, c)'
    BY <2>1, <2>2, <2>4 DEF Carries
  <2>. QED
    BY <2>1, <2>3, <2>5 DEF NothingDropped, OnItsWay, TopologyOnItsWay
<1>2. CASE Lock(p)
  <2>1. UNCHANGED <<topology, job, snapshot, got>> /\ todo' = wsClients /\ lock' = p
    BY <1>2 DEF Lock, storeVars, connVars
  <2>2. \A q \in Proc : \A item : Carries(q, item, c) => Carries(q, item, c)'
    BY <2>1 DEF Carries
  <2>. QED
    BY <2>1, <2>2 DEF NothingDropped, OnItsWay, TopologyOnItsWay
<1>3. CASE Unlock(p)
  <2>1. UNCHANGED <<topology, snapshot, got>> /\ lock = p /\ todo = {} /\ lock' = NoOne
        /\ job'[p].now = job[p].after
        /\ \A q \in Proc : q # p => job'[q] = job[q]
    BY <1>0, <1>3 DEF Unlock, storeVars, connVars, TypeOK, Broadcasts
  <2>2. \A q \in Proc : \A item : Carries(q, item, c) => Carries(q, item, c)'
    BY <2>1, Actors DEF Carries
  <2>. QED
    BY <2>1, <2>2 DEF NothingDropped, OnItsWay, TopologyOnItsWay
<1>4. ASSUME NEW d \in Client, WriteTo(p, d) PROVE NothingDropped(c)
  <2>1. UNCHANGED <<topology, job, lock, snapshot, sock>> /\ lock = p /\ todo' = todo \ {d}
        /\ Write(d, job[p].now) /\ job[p].now \in AnyItem
    BY <1>0, <1>4 DEF WriteTo, storeVars, TypeOK
  <2>2. got[c] \subseteq got'[c] /\ (d = c /\ Kept(job[p].now) => job[p].now \in got'[c])
    BY <1>0, <2>1, WriteFacts
  <2>3. \A q \in Proc : \A item :
            Carries(q, item, c) => Carries(q, item, c)' \/ (d = c /\ item = job[p].now)
    BY <2>1 DEF Carries
  <2>4. job[p].now # StateToCopy
    BY <1>0, <2>1, Actors DEF JobsInv
  <2>. QED
    BY <2>1, <2>2, <2>3, <2>4 DEF NothingDropped, OnItsWay, TopologyOnItsWay
<1>5. ASSUME NEW d \in Client, SnapshotPanics(p, d) PROVE NothingDropped(c)
  <2>1. UNCHANGED <<topology, job, lock, todo>> /\ Hangup(d)
        /\ snapshot' = [snapshot EXCEPT ![d] = {}]
    BY <1>5 DEF SnapshotPanics, storeVars, lockVars
  <2>2. d # c /\ got'[c] = got[c]
    BY <1>0, <2>1, HangupTypes
  <2>3. \A q \in Proc : \A item : Carries(q, item, c) => Carries(q, item, c)'
    BY <2>1 DEF Carries
  <2>. QED
    BY <1>0, <2>1, <2>2, <2>3 DEF NothingDropped, OnItsWay, TopologyOnItsWay, TypeOK
<1>6. ASSUME NEW d \in Client, BroadcastPanics(p, d) PROVE NothingDropped(c)
  <2>1. UNCHANGED <<topology, snapshot>> /\ lock' = NoOne /\ p \in Client /\ Hangup(p)
        /\ \A q \in Proc : q # p => job'[q] = job[q]
    BY <1>0, <1>6 DEF BroadcastPanics, storeVars, TypeOK
  <2>2. p # c /\ got'[c] = got[c]
    BY <1>0, <2>1, HangupTypes
  <2>3. \A item \in AnyItem : Kept(item) \/ item = StateToCopy => ~Carries(p, item, c)
    BY <1>0, <2>1, Items DEF JobsInv, Carries, Kept, Nothing, Log, Item
  <2>4. \A q \in Proc : \A item : q # p /\ Carries(q, item, c) => Carries(q, item, c)'
    BY <2>1, Actors DEF Carries
  <2>. QED
    BY <2>1, <2>2, <2>3, <2>4, Items DEF NothingDropped, OnItsWay, TopologyOnItsWay
<1>. QED
  BY <1>1, <1>2, <1>3, <1>4, <1>5, <1>6 DEF Broadcasting

\* The goroutine of a client, c or another, moves what it has read for the
\* client into the socket and drops nothing of it.
LEMMA ServingDropsNothing ==
    ASSUME IInv, NEW c \in Client, sock'[c] = "open", point[c] \in {"readSessions", "reading"},
           NEW d \in Client, Serving(d) \/ Register(d) \/ BrowserReads(d) \/ BrowserCloses(d)
    PROVE  NothingDropped(c)
<1>0. TypeOK
  BY DEF IInv
<1>1. UNCHANGED <<topology, job, lock>> /\ todo' = todo
  BY DEF Serving, Register, getWSStateUpdate, GetSessionRecentUpdates, WriteSnapshot, EndOfInput,
         Unregister, BrowserReads, BrowserCloses, storeVars, lockVars
<1>2. \A q \in Proc : \A item : Carries(q, item, c) => Carries(q, item, c)'
  BY <1>1 DEF Carries
<1>3. got[c] \cup snapshot[c] \subseteq got'[c] \cup snapshot'[c]
  <2>1. CASE Register(d) \/ EndOfInput(d) \/ Unregister(d) \/ BrowserReads(d)
    BY <2>1 DEF Register, EndOfInput, Unregister, BrowserReads
  <2>2. CASE getWSStateUpdate(d) \/ GetSessionRecentUpdates(d)
    BY <1>0, <2>2 DEF getWSStateUpdate, GetSessionRecentUpdates, GoOn, TypeOK
  <2>3. CASE WriteSnapshot(d)
    <3>1. PICK item \in snapshot[d] :
              Write(d, item) /\ snapshot' = [snapshot EXCEPT ![d] = @ \ {item}] /\ sock' = sock
      BY <2>3 DEF WriteSnapshot
    <3>2. item \in AnyItem /\ Kept(item)
      BY <1>0 DEF TypeOK, IInv, JobsInv
    <3>3. got[c] \subseteq got'[c] /\ (d = c => item \in got'[c])
      BY <1>0, <3>1, <3>2, WriteFacts
    <3>. QED
      BY <1>0, <3>1, <3>3 DEF TypeOK
  <2>4. CASE BrowserCloses(d)
    BY <1>0, <2>4, HangupTypes DEF BrowserCloses
  <2>. QED
    BY <2>1, <2>2, <2>3, <2>4 DEF Serving
<1>. QED
  BY <1>1, <1>2, <1>3 DEF NothingDropped, OnItsWay, TopologyOnItsWay

LEMMA StepDropsNothing ==
    ASSUME IInv, Next, ~panicked', NEW c \in Client, sock'[c] = "open",
           point[c] \in {"readSessions", "reading"}
    PROVE  NothingDropped(c)
<1>1. TypeOK /\ JobsInv /\ c \in wsClients
  BY DEF IInv, ServedAreKnown
<1>. QED
  BY <1>1, StepKinds, EventDropsNothing, BroadcastDropsNothing, ServingDropsNothing

\* No socket is opened but by Register, no snapshot read but by the client's own
\* goroutine, and nothing appended without somebody to broadcast it.
LEMMA ServedStep ==
    ASSUME IInv, Next
    PROVE  ServedInv'
<1>0. TypeOK /\ JobsInv
  BY DEF IInv
<1>. SUFFICES ASSUME ~panicked', NEW c \in Client, sock'[c] = "open",
                     point'[c] \in {"readSessions", "reading"}
              PROVE  /\ TopologyOnItsWay(c)'
                     /\ point'[c] = "reading" => \A item \in Recent' : OnItsWay(item, c)'
  BY DEF ServedInv
<1>1. ~panicked
  BY DEF Next
<1>2. CASE getWSStateUpdate(c)
  BY <1>0, <1>2 DEF getWSStateUpdate, GoOn, TopologyOnItsWay, OnItsWay, storeVars, TypeOK
<1>3. CASE ~getWSStateUpdate(c)
  <2>1. point[c] \in {"readSessions", "reading"} /\ sock[c] = "open"
    <3>1. CASE \E p \in Proc : Event(p)
      BY <1>0, <3>1, EventFacts
    <3>2. CASE \E p \in Proc : Broadcasting(p)
      BY <1>0, <3>2, HangupTypes
         DEF Broadcasting, CopyState, Lock, Unlock, WriteTo, SnapshotPanics, BroadcastPanics,
             connVars, TypeOK
    <3>3. CASE \E d \in Client : Serving(d) \/ Register(d) \/ BrowserReads(d) \/ BrowserCloses(d)
      BY <1>0, <1>3, <3>3, HangupTypes
         DEF Serving, Register, getWSStateUpdate, GetSessionRecentUpdates, WriteSnapshot,
             EndOfInput, Unregister, BrowserReads, BrowserCloses, GoOn, TypeOK
    <3>. QED
      BY <3>1, <3>2, <3>3, StepKinds
  <2>2. NothingDropped(c)
    BY <2>1, StepDropsNothing
  <2>3. /\ TopologyOnItsWay(c)
        /\ point[c] = "reading" => \A item \in Recent : OnItsWay(item, c)
    BY <1>1, <2>1 DEF IInv, ServedInv
  <2>4. TopologyOnItsWay(c)'
    <3>1. CASE \E p \in Proc : ChangeTopology(p)
      <4>1. PICK p \in Proc : ChangeTopology(p)
        BY <3>1
      <4>2. job[p] = Idle /\ lock' = lock
            /\ (job'[p].now = StateToCopy \/ job'[p].after = StateToCopy)
        BY <1>0, <4>1 DEF ChangeTopology, Begin, Broadcasts, lockVars, TypeOK
      <4>3. lock # p
        BY <1>0, <4>2, Actors DEF JobsInv, Idle, Broadcasts
      <4>. QED
        BY <4>2, <4>3 DEF TopologyOnItsWay, Carries
    <3>2. CASE ~\E p \in Proc : ChangeTopology(p)
      <4>1. topology' = topology
        BY <3>2, StepKinds
           DEF Event, recordSessionMessage, Announce, handleWSIncoming, Broadcasting, CopyState,
               Lock, Unlock, WriteTo, SnapshotPanics, BroadcastPanics, Serving, Register,
               getWSStateUpdate, GetSessionRecentUpdates, WriteSnapshot, EndOfInput, Unregister,
               BrowserReads, BrowserCloses, storeVars
      <4>2. State(topology) \in AnyItem /\ Kept(State(topology))
        BY <1>0, Items DEF TypeOK, Kept, State, Item
      <4>. QED
        BY <2>2, <2>3, <4>1, <4>2 DEF NothingDropped, TopologyOnItsWay
    <3>. QED
      BY <3>1, <3>2
  <2>5. ASSUME point'[c] = "reading", NEW item \in Recent' PROVE OnItsWay(item, c)'
    <3>1. CASE GetSessionRecentUpdates(c)
      <4>1. snapshot'[c] = Recent /\ record' = record
        BY <1>0, <3>1 DEF GetSessionRecentUpdates, TypeOK, storeVars
      <4>. QED
        BY <2>5, <4>1 DEF Recent, OnItsWay
    <3>2. CASE ~GetSessionRecentUpdates(c)
      <4>1. point[c] = "reading"
        BY <1>0, <1>3, <2>5, <3>2, StepKinds, EventFacts
           DEF Broadcasting, CopyState, Lock, Unlock, WriteTo, SnapshotPanics, BroadcastPanics,
               connVars, Serving, Register, getWSStateUpdate, GetSessionRecentUpdates,
               WriteSnapshot, EndOfInput, Unregister, BrowserReads, BrowserCloses, GoOn, TypeOK
      <4>2. CASE item \in Recent
        BY <1>0, <2>2, <2>3, <4>1, <4>2, RecentItems DEF NothingDropped, Kept, Message, Item
      <4>3. CASE item \notin Recent
        <5>1. PICK p \in Proc, s \in Session : recordSessionMessage(p, s)
          <6>1. record' # record
            BY <2>5, <4>3 DEF Recent
          <6>. QED
            BY <6>1, StepKinds
               DEF Event, ChangeTopology, Announce, handleWSIncoming, Broadcasting, CopyState,
                   Lock, Unlock, WriteTo, SnapshotPanics, BroadcastPanics, Serving, Register,
                   getWSStateUpdate, GetSessionRecentUpdates, WriteSnapshot, EndOfInput,
                   Unregister, BrowserReads, BrowserCloses, storeVars
        <5>2. record' = [record EXCEPT ![s] = @ + 1] /\ record \in [Session -> Nat] /\ Limit \in Nat
          BY <1>0, <5>1, BoundsAreNat DEF recordSessionMessage, TypeOK
        <5>3. PICK u \in Session, k \in Nat :
                  item = Message(u, k) /\ k \in 1..record'[u] /\ k + Limit > record'[u]
          BY <2>5 DEF Recent
        <5>4. u = s /\ k = record[s] + 1
          <6>1. ~(k \in 1..record[u] /\ k + Limit > record[u])
            BY <4>3, <5>3 DEF Recent
          <6>. QED
            BY <5>2, <5>3, <6>1
        <5>5. job[p] = Idle /\ lock' = lock /\ job'[p].now = item
          BY <1>0, <5>1, <5>3, <5>4
             DEF recordSessionMessage, Begin, Broadcasts, lockVars, TypeOK
        <5>6. lock # p
          BY <1>0, <5>5, Actors DEF JobsInv, Idle, Broadcasts
        <5>. QED
          BY <5>5, <5>6 DEF OnItsWay, Carries
      <4>. QED
        BY <4>2, <4>3
    <3>. QED
      BY <3>1, <3>2
  <2>. QED
    BY <2>4, <2>5
<1>. QED
  BY <1>2, <1>3

-----------------------------------------------------------------------------
\* The invariant of the gateway, for any clients, goroutines and sessions.
THEOREM GatewayInvariance == Spec => []IInv
<1>1. IInv /\ [Next]_vars => IInv'
  <2>. SUFFICES ASSUME IInv, [Next]_vars PROVE IInv'
    OBVIOUS
  <2>1. CASE UNCHANGED vars
    BY <2>1 DEF IInv, TypeOK, JobsInv, ServedAreKnown, ServedInv, TopologyOnItsWay, OnItsWay,
                Carries, Recent, vars, storeVars, lockVars, connVars
  <2>2. CASE Next
    BY <2>2, TypeStep, JobsStep, ServedStep DEF IInv
  <2>. QED
    BY <2>1, <2>2
<1>. QED
  BY <1>1, InitIInv, PTL DEF Spec

\* The gateway keeps its types.
THEOREM GatewayTypeCorrect == Spec => []TypeOK
<1>1. IInv => TypeOK
  BY DEF IInv
<1>. QED
  BY <1>1, GatewayInvariance, PTL

\* No client whose snapshot was read misses the latest topology or one of the
\* last messages of a session: it has been sent it, or it is on its way.
THEOREM NothingMissedTheorem == Spec => []NothingMissed
<1>1. IInv => NothingMissed
  BY DEF IInv, ServedInv, NothingMissed, Served
<1>. QED
  BY <1>1, GatewayInvariance, PTL
=============================================================================
