----------------------- MODULE AgentConnectionsProofs -----------------------
(***************************************************************************)
(* Proofs about AgentConnections for any agents, any number of             *)
(* connections and any channel capacity.                                   *)
(***************************************************************************)
EXTENDS AgentConnections, TLAPS

USE DEF connVars, regVars, Step, Count, Id

\* No connection has been accepted, so none has anything to keep in order.
LEMMA InitInvariant == Init => IInv
<1>. SUFFICES ASSUME Init PROVE IInv
  OBVIOUS
<1>1. TypeOK
  <2>1. 0 \in 0..ChanCap /\ 0 \in 0..MaxMessages
    BY ChanCapPositive, MaxMessagesNat
  <2>. QED
    BY <2>1 DEF Init, TypeOK, ReaderPoint
<1>2. \A c \in Conn : ConnInv(c)
  BY DEF Init, ConnInv
<1>3. AcceptedFirst /\ NoGhosts /\ NothingLostOnALiveSocket
  BY DEF Init, AcceptedFirst, NoGhosts, NothingLostOnALiveSocket
<1>. QED
  BY <1>1, <1>2, <1>3 DEF IInv

\* The types survive every step; the channel never holds more than its capacity.
LEMMA TypePreserved == IInv /\ [Next]_vars => TypeOK'
<1>. SUFFICES ASSUME IInv, [Next]_vars PROVE TypeOK'
  OBVIOUS
<1>. USE NobodyIsNoOne, ChanCapPositive, MaxMessagesNat DEF TypeOK, ReaderPoint
<1>0. TypeOK /\ \A d \in Conn : ConnInv(d)
  BY DEF IInv
<1>1. CASE UNCHANGED vars
  BY <1>0, <1>1 DEF vars
<1>2. ASSUME NEW c \in Conn, Environment(c) PROVE TypeOK'
  <2>1. CASE Accept(c)
    BY <1>0, <2>1 DEF Accept
  <2>2. CASE PeerCloses(c)
    BY <1>0, <2>2 DEF PeerCloses
  <2>3. CASE Request(c)
    BY <1>0, <2>3 DEF Request
  <2>4. CASE LineTooLong(c)
    BY <1>0, <2>4 DEF LineTooLong
  <2>5. CASE Write(c)
    BY <1>0, <2>5 DEF Write
  <2>6. ASSUME NEW a \in Id, RegisterState(c, a) PROVE TypeOK'
    BY <1>0, <2>6 DEF RegisterState
  <2>. QED
    BY <1>2, <2>1, <2>2, <2>3, <2>4, <2>5, <2>6 DEF Environment
<1>3. ASSUME NEW c \in Conn, WriterRuns(c) PROVE TypeOK'
  <2>1. CASE WriteFails(c)
    BY <1>0, <2>1 DEF WriteFails
  <2>2. CASE Discard(c)
    BY <1>0, <2>2 DEF Discard
  <2>3. CASE WriterReturns(c)
    BY <1>0, <2>3 DEF WriterReturns
  <2>. QED
    BY <1>3, <2>1, <2>2, <2>3 DEF WriterRuns
<1>4. ASSUME NEW c \in Conn, Goroutines(c) PROVE TypeOK'
  <2>1. CASE RegisterAgentConn(c)
    BY <1>0, <2>1 DEF RegisterAgentConn
  <2>2. CASE Reply(c)
    BY <1>0, <2>2 DEF Reply
  <2>3. CASE EndOfInput(c)
    BY <1>0, <2>3 DEF EndOfInput
  <2>4. CASE CloseOutbound(c)
    BY <1>0, <2>4 DEF CloseOutbound
  <2>5. CASE WaitForWriter(c)
    BY <1>0, <2>5 DEF WaitForWriter
  <2>6. CASE CleanState(c)
    BY <1>0, <2>6 DEF CleanState
  <2>7. CASE UnregisterAgent(c)
    BY <1>0, <2>7 DEF UnregisterAgent
  <2>. QED
    BY <1>4, <2>1, <2>2, <2>3, <2>4, <2>5, <2>6, <2>7 DEF Goroutines
<1>5. ASSUME NEW c \in Conn, Broadcasts(c) PROVE TypeOK'
  <2>1. CASE Announce(c)
    BY <1>0, <2>1 DEF Announce
  <2>2. CASE Trace(c)
    BY <1>0, <2>2 DEF Trace
  <2>3. CASE Leave(c)
    BY <1>0, <2>3 DEF Leave
  <2>. QED
    BY <1>5, <2>1, <2>2, <2>3 DEF Broadcasts
<1>6. ASSUME NEW a \in Id, SendToAgent(a) PROVE TypeOK'
  <2>. DEFINE c == storeReg[a]
  <2>1. c \in Conn
    BY <1>0, <1>6 DEF SendToAgent
  <2>2. CASE closed[c]
    BY <1>0, <1>6, <2>1, <2>2 DEF SendToAgent
  <2>3. CASE ~closed[c] /\ queue[c] < ChanCap
    BY <1>0, <1>6, <2>1, <2>3 DEF SendToAgent
  <2>4. CASE ~closed[c] /\ ~(queue[c] < ChanCap)
    BY <1>0, <1>6, <2>1, <2>4 DEF SendToAgent
  <2>. QED
    BY <2>2, <2>3, <2>4
<1>. QED
  BY <1>1, <1>2, <1>3, <1>4, <1>5, <1>6 DEF Next

\* Every connection's goroutines keep what they rely on.
LEMMA ConnPreserved == IInv /\ [Next]_vars => (\A d \in Conn : ConnInv(d))'
<1>. SUFFICES ASSUME IInv, [Next]_vars PROVE (\A d \in Conn : ConnInv(d))'
  OBVIOUS
<1>. USE NobodyIsNoOne, ChanCapPositive, MaxMessagesNat DEF TypeOK, ReaderPoint, ConnInv
<1>0. TypeOK /\ \A d \in Conn : ConnInv(d)
  BY DEF IInv
<1>1. CASE UNCHANGED vars
  BY <1>0, <1>1 DEF vars
<1>2. ASSUME NEW c \in Conn, Environment(c) PROVE (\A d \in Conn : ConnInv(d))'
  <2>1. CASE Accept(c)
    BY <1>0, <2>1 DEF Accept
  <2>2. CASE PeerCloses(c)
    BY <1>0, <2>2 DEF PeerCloses
  <2>3. CASE Request(c)
    BY <1>0, <2>3 DEF Request
  <2>4. CASE LineTooLong(c)
    BY <1>0, <2>4 DEF LineTooLong
  <2>5. CASE Write(c)
    BY <1>0, <2>5 DEF Write
  <2>6. ASSUME NEW a \in Id, RegisterState(c, a) PROVE (\A d \in Conn : ConnInv(d))'
    BY <1>0, <2>6 DEF RegisterState
  <2>. QED
    BY <1>2, <2>1, <2>2, <2>3, <2>4, <2>5, <2>6 DEF Environment
<1>3. ASSUME NEW c \in Conn, WriterRuns(c) PROVE (\A d \in Conn : ConnInv(d))'
  <2>1. CASE WriteFails(c)
    BY <1>0, <2>1 DEF WriteFails
  <2>2. CASE Discard(c)
    BY <1>0, <2>2 DEF Discard
  <2>3. CASE WriterReturns(c)
    BY <1>0, <2>3 DEF WriterReturns
  <2>. QED
    BY <1>3, <2>1, <2>2, <2>3 DEF WriterRuns
<1>4. ASSUME NEW c \in Conn, Goroutines(c) PROVE (\A d \in Conn : ConnInv(d))'
  <2>1. CASE RegisterAgentConn(c)
    BY <1>0, <2>1 DEF RegisterAgentConn
  <2>2. CASE Reply(c)
    BY <1>0, <2>2 DEF Reply
  <2>3. CASE EndOfInput(c)
    BY <1>0, <2>3 DEF EndOfInput
  <2>4. CASE CloseOutbound(c)
    BY <1>0, <2>4 DEF CloseOutbound
  <2>5. CASE WaitForWriter(c)
    BY <1>0, <2>5 DEF WaitForWriter
  <2>6. CASE CleanState(c)
    BY <1>0, <2>6 DEF CleanState
  <2>7. CASE UnregisterAgent(c)
    BY <1>0, <2>7 DEF UnregisterAgent
  <2>. QED
    BY <1>4, <2>1, <2>2, <2>3, <2>4, <2>5, <2>6, <2>7 DEF Goroutines
<1>5. ASSUME NEW c \in Conn, Broadcasts(c) PROVE (\A d \in Conn : ConnInv(d))'
  <2>1. CASE Announce(c)
    BY <1>0, <2>1 DEF Announce
  <2>2. CASE Trace(c)
    BY <1>0, <2>2 DEF Trace
  <2>3. CASE Leave(c)
    BY <1>0, <2>3 DEF Leave
  <2>. QED
    BY <1>5, <2>1, <2>2, <2>3 DEF Broadcasts
<1>6. ASSUME NEW a \in Id, SendToAgent(a) PROVE (\A d \in Conn : ConnInv(d))'
  <2>. DEFINE c == storeReg[a]
  <2>0. AcceptedFirst
    BY DEF IInv
  <2>1. c \in Conn
    BY <1>0, <1>6 DEF SendToAgent
  <2>2. CASE closed[c]
    BY <1>0, <1>6, <2>1, <2>2 DEF SendToAgent
  <2>3. CASE ~closed[c] /\ queue[c] < ChanCap
    <3>1. /\ queue' = [queue EXCEPT ![c] = @ + 1]
          /\ UNCHANGED <<reader, ident, sock, writer, closed, lost>>
      BY <1>6, <2>3 DEF SendToAgent
    <3>2. reader[c] # "none" /\ writer[c] # "done"
      BY <1>0, <1>6, <2>0, <2>1, <2>3 DEF SendToAgent, AcceptedFirst
    <3>. QED
      BY <1>0, <2>1, <3>1, <3>2
  <2>4. CASE ~closed[c] /\ ~(queue[c] < ChanCap)
    BY <1>0, <1>6, <2>1, <2>4 DEF SendToAgent
  <2>. QED
    BY <2>2, <2>3, <2>4
<1>. QED
  BY <1>1, <1>2, <1>3, <1>4, <1>5, <1>6 DEF Next

\* A registration names the connection it came on.
LEMMA AcceptedPreserved == IInv /\ [Next]_vars => AcceptedFirst'
<1>. SUFFICES ASSUME IInv, [Next]_vars PROVE AcceptedFirst'
  OBVIOUS
<1>. USE DEF TypeOK, AcceptedFirst
<1>0. TypeOK /\ AcceptedFirst
  BY DEF IInv
<1>1. CASE UNCHANGED vars
  BY <1>0, <1>1 DEF vars
<1>2. ASSUME NEW c \in Conn, Environment(c) \/ WriterRuns(c) PROVE AcceptedFirst'
  BY <1>0, <1>2 DEF Environment, Accept, PeerCloses, Request, LineTooLong, Write, RegisterState,
                    WriterRuns, WriteFails, Discard, WriterReturns
<1>3. ASSUME NEW c \in Conn, Goroutines(c) \/ Broadcasts(c) PROVE AcceptedFirst'
  <2>1. CASE RegisterAgentConn(c)
    BY <1>0, <2>1 DEF RegisterAgentConn
  <2>2. CASE UnregisterAgent(c)
    BY <1>0, <2>2 DEF UnregisterAgent
  <2>3. CASE Reply(c) \/ EndOfInput(c) \/ CloseOutbound(c) \/ WaitForWriter(c) \/ CleanState(c)
    BY <1>0, <2>3 DEF Reply, EndOfInput, CloseOutbound, WaitForWriter, CleanState
  <2>4. CASE Broadcasts(c)
    BY <1>0, <2>4 DEF Broadcasts, Announce, Trace, Leave
  <2>. QED
    BY <1>3, <2>1, <2>2, <2>3, <2>4 DEF Goroutines
<1>4. ASSUME NEW a \in Id, SendToAgent(a) PROVE AcceptedFirst'
  BY <1>0, <1>4 DEF SendToAgent
<1>. QED
  BY <1>1, <1>2, <1>3, <1>4 DEF Next

\* Whatever the order of registrations and cleanups of one id, neither registry
\* is left naming a connection that is gone under the id it had last.
LEMMA GhostsPreserved == IInv /\ [Next]_vars => NoGhosts'
<1>. SUFFICES ASSUME IInv, [Next]_vars PROVE NoGhosts'
  OBVIOUS
<1>. USE NobodyIsNoOne, ChanCapPositive, MaxMessagesNat DEF TypeOK, ReaderPoint, ConnInv, NoGhosts
<1>0. TypeOK /\ NoGhosts /\ \A d \in Conn : ConnInv(d)
  BY DEF IInv
<1>1. CASE UNCHANGED vars
  BY <1>0, <1>1 DEF vars
<1>2. ASSUME NEW c \in Conn, Environment(c) PROVE NoGhosts'
  <2>1. CASE Accept(c)
    BY <1>0, <2>1 DEF Accept
  <2>2. CASE PeerCloses(c)
    BY <1>0, <2>2 DEF PeerCloses
  <2>3. CASE Request(c)
    BY <1>0, <2>3 DEF Request
  <2>4. CASE LineTooLong(c)
    BY <1>0, <2>4 DEF LineTooLong
  <2>5. CASE Write(c)
    BY <1>0, <2>5 DEF Write
  <2>6. ASSUME NEW a \in Id, RegisterState(c, a) PROVE NoGhosts'
    BY <1>0, <2>6 DEF RegisterState
  <2>. QED
    BY <1>2, <2>1, <2>2, <2>3, <2>4, <2>5, <2>6 DEF Environment
<1>3. ASSUME NEW c \in Conn, WriterRuns(c) PROVE NoGhosts'
  <2>1. CASE WriteFails(c)
    BY <1>0, <2>1 DEF WriteFails
  <2>2. CASE Discard(c)
    BY <1>0, <2>2 DEF Discard
  <2>3. CASE WriterReturns(c)
    BY <1>0, <2>3 DEF WriterReturns
  <2>. QED
    BY <1>3, <2>1, <2>2, <2>3 DEF WriterRuns
<1>4. ASSUME NEW c \in Conn, Goroutines(c) PROVE NoGhosts'
  <2>1. CASE RegisterAgentConn(c)
    BY <1>0, <2>1 DEF RegisterAgentConn
  <2>2. CASE Reply(c)
    BY <1>0, <2>2 DEF Reply
  <2>3. CASE EndOfInput(c)
    BY <1>0, <2>3 DEF EndOfInput
  <2>4. CASE CloseOutbound(c)
    BY <1>0, <2>4 DEF CloseOutbound
  <2>5. CASE WaitForWriter(c)
    BY <1>0, <2>5 DEF WaitForWriter
  <2>6. CASE CleanState(c)
    BY <1>0, <2>6 DEF CleanState
  <2>7. CASE UnregisterAgent(c)
    BY <1>0, <2>7 DEF UnregisterAgent
  <2>. QED
    BY <1>4, <2>1, <2>2, <2>3, <2>4, <2>5, <2>6, <2>7 DEF Goroutines
<1>5. ASSUME NEW c \in Conn, Broadcasts(c) PROVE NoGhosts'
  <2>1. CASE Announce(c)
    BY <1>0, <2>1 DEF Announce
  <2>2. CASE Trace(c)
    BY <1>0, <2>2 DEF Trace
  <2>3. CASE Leave(c)
    BY <1>0, <2>3 DEF Leave
  <2>. QED
    BY <1>5, <2>1, <2>2, <2>3 DEF Broadcasts
<1>6. ASSUME NEW a \in Id, SendToAgent(a) PROVE NoGhosts'
  <2>. DEFINE c == storeReg[a]
  <2>1. c \in Conn
    BY <1>0, <1>6 DEF SendToAgent
  <2>2. CASE closed[c]
    BY <1>0, <1>6, <2>1, <2>2 DEF SendToAgent
  <2>3. CASE ~closed[c] /\ queue[c] < ChanCap
    BY <1>0, <1>6, <2>1, <2>3 DEF SendToAgent
  <2>4. CASE ~closed[c] /\ ~(queue[c] < ChanCap)
    BY <1>0, <1>6, <2>1, <2>4 DEF SendToAgent
  <2>. QED
    BY <2>2, <2>3, <2>4
<1>. QED
  BY <1>1, <1>2, <1>3, <1>4, <1>5, <1>6 DEF Next

\* A message is discarded only by a writer that has seen its socket dead.
LEMMA LossPreserved == IInv /\ [Next]_vars => NothingLostOnALiveSocket'
<1>. SUFFICES ASSUME IInv, [Next]_vars PROVE NothingLostOnALiveSocket'
  OBVIOUS
<1>. USE NobodyIsNoOne, ChanCapPositive, MaxMessagesNat DEF TypeOK, ReaderPoint, ConnInv, NothingLostOnALiveSocket
<1>0. TypeOK /\ NothingLostOnALiveSocket /\ \A d \in Conn : ConnInv(d)
  BY DEF IInv
<1>1. CASE UNCHANGED vars
  BY <1>0, <1>1 DEF vars
<1>2. ASSUME NEW c \in Conn, Environment(c) PROVE NothingLostOnALiveSocket'
  <2>1. CASE Accept(c)
    BY <1>0, <2>1 DEF Accept
  <2>2. CASE PeerCloses(c)
    BY <1>0, <2>2 DEF PeerCloses
  <2>3. CASE Request(c)
    BY <1>0, <2>3 DEF Request
  <2>4. CASE LineTooLong(c)
    BY <1>0, <2>4 DEF LineTooLong
  <2>5. CASE Write(c)
    BY <1>0, <2>5 DEF Write
  <2>6. ASSUME NEW a \in Id, RegisterState(c, a) PROVE NothingLostOnALiveSocket'
    BY <1>0, <2>6 DEF RegisterState
  <2>. QED
    BY <1>2, <2>1, <2>2, <2>3, <2>4, <2>5, <2>6 DEF Environment
<1>3. ASSUME NEW c \in Conn, WriterRuns(c) PROVE NothingLostOnALiveSocket'
  <2>1. CASE WriteFails(c)
    BY <1>0, <2>1 DEF WriteFails
  <2>2. CASE Discard(c)
    BY <1>0, <2>2 DEF Discard
  <2>3. CASE WriterReturns(c)
    BY <1>0, <2>3 DEF WriterReturns
  <2>. QED
    BY <1>3, <2>1, <2>2, <2>3 DEF WriterRuns
<1>4. ASSUME NEW c \in Conn, Goroutines(c) PROVE NothingLostOnALiveSocket'
  <2>1. CASE RegisterAgentConn(c)
    BY <1>0, <2>1 DEF RegisterAgentConn
  <2>2. CASE Reply(c)
    BY <1>0, <2>2 DEF Reply
  <2>3. CASE EndOfInput(c)
    BY <1>0, <2>3 DEF EndOfInput
  <2>4. CASE CloseOutbound(c)
    BY <1>0, <2>4 DEF CloseOutbound
  <2>5. CASE WaitForWriter(c)
    BY <1>0, <2>5 DEF WaitForWriter
  <2>6. CASE CleanState(c)
    BY <1>0, <2>6 DEF CleanState
  <2>7. CASE UnregisterAgent(c)
    BY <1>0, <2>7 DEF UnregisterAgent
  <2>. QED
    BY <1>4, <2>1, <2>2, <2>3, <2>4, <2>5, <2>6, <2>7 DEF Goroutines
<1>5. ASSUME NEW c \in Conn, Broadcasts(c) PROVE NothingLostOnALiveSocket'
  <2>1. CASE Announce(c)
    BY <1>0, <2>1 DEF Announce
  <2>2. CASE Trace(c)
    BY <1>0, <2>2 DEF Trace
  <2>3. CASE Leave(c)
    BY <1>0, <2>3 DEF Leave
  <2>. QED
    BY <1>5, <2>1, <2>2, <2>3 DEF Broadcasts
<1>6. ASSUME NEW a \in Id, SendToAgent(a) PROVE NothingLostOnALiveSocket'
  <2>. DEFINE c == storeReg[a]
  <2>1. c \in Conn
    BY <1>0, <1>6 DEF SendToAgent
  <2>2. CASE closed[c]
    BY <1>0, <1>6, <2>1, <2>2 DEF SendToAgent
  <2>3. CASE ~closed[c] /\ queue[c] < ChanCap
    BY <1>0, <1>6, <2>1, <2>3 DEF SendToAgent
  <2>4. CASE ~closed[c] /\ ~(queue[c] < ChanCap)
    BY <1>0, <1>6, <2>1, <2>4 DEF SendToAgent
  <2>. QED
    BY <2>2, <2>3, <2>4
<1>. QED
  BY <1>1, <1>2, <1>3, <1>4, <1>5, <1>6 DEF Next

-----------------------------------------------------------------------------
\* The four parts together are inductive.
THEOREM ConnectionsInvariance == Spec => []IInv
<1>1. IInv /\ [Next]_vars => IInv'
  BY TypePreserved, ConnPreserved, AcceptedPreserved, GhostsPreserved, LossPreserved DEF IInv
<1>. QED
  BY InitInvariant, <1>1, PTL DEF Spec

\* The types of the connection state, the bound on each channel among them.
THEOREM ConnectionsTypeCorrect == Spec => []TypeOK
<1>1. IInv => TypeOK
  BY DEF IInv
<1>. QED
  BY ConnectionsInvariance, <1>1, PTL

\* handleRegister against cleanupAgent: for any number of connections that
\* register and clean up the same id, and register again under others, no registry
\* names a connection that is gone under the id it answered to last.
THEOREM NoGhostsTheorem == Spec => []NoGhosts
<1>1. IInv => NoGhosts
  BY DEF IInv
<1>. QED
  BY ConnectionsInvariance, <1>1, PTL

\* The writer goroutine: nothing queued is thrown away while the socket lives,
\* and cleanup leaves an empty channel.
THEOREM NothingLostTheorem == Spec => []NothingLostOnALiveSocket
<1>1. IInv => NothingLostOnALiveSocket
  BY DEF IInv
<1>. QED
  BY ConnectionsInvariance, <1>1, PTL
=============================================================================
