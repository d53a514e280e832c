---------------------- MODULE TaskSubscriptionsProofs ----------------------
(***************************************************************************)
(* Proofs about TaskSubscriptions for any tasks, channels and callers, any *)
(* channel capacity and any number of calls.  One lemma per conjunct of    *)
(* IInv; what a send does to one channel is said once, in Offered.         *)
(***************************************************************************)
EXTENDS TaskSubscriptions, TLAPS

USE DEF Submitted, Working, InputRequired, Completed, Failed, Canceling, Canceled,
        UnknownState, EmptyState

-----------------------------------------------------------------------------
(* One machine.                                                             *)

LEMMA AcceptedMachine ==
    ASSUME NEW sm \in Machine, NEW new \in WireState, Accepts(sm, new)
    PROVE  /\ Transition(sm, new) \in Machine
           /\ Transition(sm, new).state = new
           /\ sm.state \in {Canceling, Canceled, Failed} => new \in {Canceling, Canceled, Failed}
BY DEF Machine, Accepts, CanTransition, Transition, DefaultTransitions, TaskState

LEMMA NewMachine ==
    ASSUME NEW s \in WireState \cup {EmptyState}
    PROVE  NewStateMachine(s) \in Machine
BY DEF NewStateMachine, Machine, WireState, TaskState

\* "absent" is no state of a machine.
LEMMA ExistingTask ==
    ASSUME TypeOK, NEW t \in TaskId
    PROVE  /\ Exists(t) => tasks[t] \in Machine
           /\ ~Exists(t) => tasks[t] = Absent
BY DEF TypeOK, Exists, Absent, Machine, WireState, TaskState

-----------------------------------------------------------------------------
(* One send.                                                                *)

\* Channels carry deliveries and nothing else.
LEMMA Offered ==
    ASSUME TypeOK, NEW to \in SUBSET Subscriber, NEW d \in Delivery, Offer(to, d)
    PROVE  stream' \in [Subscriber -> Seq(Delivery)] /\ offered' \in [Subscriber -> Nat]
<1>1. \A x \in Subscriber :
         /\ stream[x] \in Seq(Delivery) /\ Append(stream[x], d) \in Seq(Delivery)
         /\ offered[x] \in Nat /\ offered[x] + 1 \in Nat
  BY DEF TypeOK
<1>. QED
  BY <1>1 DEF Offer

\* No channel is given more than it has room for.
LEMMA QueueBound ==
    ASSUME TypeOK, NEW to \in SUBSET Subscriber, NEW d \in Delivery, Offer(to, d),
           taken' = taken
    PROVE  (\A x \in Subscriber : Queued(x) \in 0..Cap)'
<1>. SUFFICES ASSUME NEW x \in Subscriber
              PROVE  Len(stream'[x]) - taken[x] \in 0..Cap
  BY DEF Queued
<1>1. /\ stream[x] \in Seq(Delivery) /\ taken[x] \in Nat /\ Cap \in Nat
      /\ Len(stream[x]) - taken[x] \in 0..Cap
  BY CapPositive DEF TypeOK, Queued
<1>2. CASE stream'[x] = stream[x]
  BY <1>1, <1>2
<1>3. CASE Queued(x) < Cap /\ stream'[x] = Append(stream[x], d)
  <2>1. Len(stream'[x]) = Len(stream[x]) + 1
    BY <1>1, <1>3
  <2>. QED
    BY <1>1, <1>3, <2>1 DEF Queued
<1>4. \/ Queued(x) < Cap /\ stream'[x] = Append(stream[x], d)
      \/ stream'[x] = stream[x]
  BY DEF Offer
<1>. QED
  BY <1>2, <1>3, <1>4

\* A channel that has been given a delivery.
LEMMA Given ==
    ASSUME TypeOK, NEW x \in Subscriber, NEW d \in Delivery, stream'[x] = Append(stream[x], d)
    PROVE  /\ Len(stream'[x]) = Len(stream[x]) + 1 /\ stream'[x][Len(stream[x]) + 1] = d
           /\ \A i \in 1 .. Len(stream[x]) : stream'[x][i] = stream[x][i]
           /\ d.again => Direct(x)' = Direct(x)
           /\ ~d.again => Direct(x)' = Direct(x) \cup {Len(stream[x]) + 1}
<1>. DEFINE n == Len(stream[x])
<1>1. /\ stream[x] \in Seq(Delivery) /\ n \in Nat /\ DOMAIN stream[x] = 1 .. n
  BY DEF TypeOK
<1>2. /\ Len(stream'[x]) = n + 1 /\ stream'[x][n + 1] = d
      /\ \A i \in 1 .. n : stream'[x][i] = stream[x][i]
      /\ DOMAIN stream'[x] = 1 .. n + 1
  BY <1>1
<1>3. d.again \in BOOLEAN
  BY DEF Delivery
<1>. QED
  BY <1>1, <1>2, <1>3 DEF Direct

\* A channel that is offered a delivery has it appended if it has room and is
\* left as it was if not; the others are not touched.
LEMMA SentTo ==
    ASSUME TypeOK, NEW to \in SUBSET Subscriber, NEW d \in Delivery, Offer(to, d),
           NEW x \in Subscriber
    PROVE  LET n == Len(stream[x]) IN
           /\ n \in Nat /\ DOMAIN stream[x] = 1 .. n /\ Direct(x) \subseteq 1 .. n
           /\ \/ /\ x \in to /\ offered'[x] = offered[x] + 1
                 /\ stream'[x] = Append(stream[x], d)
                 /\ Len(stream'[x]) = n + 1 /\ stream'[x][n + 1] = d
                 /\ \A i \in 1 .. n : stream'[x][i] = stream[x][i]
                 /\ d.again => Direct(x)' = Direct(x)
                 /\ ~d.again => Direct(x)' = Direct(x) \cup {n + 1}
              \/ /\ x \in to /\ offered'[x] = offered[x] + 1
                 /\ stream'[x] = stream[x] /\ Direct(x)' = Direct(x)
              \/ /\ x \notin to /\ offered'[x] = offered[x]
                 /\ stream'[x] = stream[x] /\ Direct(x)' = Direct(x)
<1>. DEFINE n == Len(stream[x])
<1>1. /\ stream[x] \in Seq(Delivery) /\ n \in Nat /\ DOMAIN stream[x] = 1 .. n
      /\ Direct(x) \subseteq 1 .. n
  BY DEF TypeOK, Direct
<1>2. stream'[x] = stream[x] => Direct(x)' = Direct(x)
  BY DEF Direct
<1>. QED
  BY <1>1, <1>2, Given DEF Offer

-----------------------------------------------------------------------------
(* The initial state.                                                       *)

LEMMA InitInvariant == Init => IInv
<1>. SUFFICES ASSUME Init PROVE IInv
  OBVIOUS
<1>1. TypeOK
  BY CapPositive DEF Init, TypeOK, Queued
<1>2. TopicInv /\ NothingGained
  BY DEF Init, TopicInv, NothingGained, Direct
<1>3. CancelInv /\ SignalledOnce /\ ClosedIsForgotten
  BY DEF Init, CancelInv, SignalledOnce, ClosedIsForgotten
<1>4. StreamInOrder /\ CurrentUnlessDropped /\ FirstUpdatesArrive
  BY DEF Init, StreamInOrder, CurrentUnlessDropped, FirstUpdatesArrive, Direct, NothingLost
<1>. QED
  BY <1>1, <1>2, <1>3, <1>4 DEF IInv

-----------------------------------------------------------------------------
(* Types.                                                                   *)

\* What is sent by a transition, and again by a caller.
LEMMA DeliveryType ==
    ASSUME TypeOK
    PROVE  /\ \A t \in TaskId, s \in WireState :
                 [task |-> t, state |-> s, number |-> Len(log[t]) + 1] \in Update
           /\ \A u \in Update, b \in BOOLEAN : [update |-> u, again |-> b] \in Delivery
BY DEF TypeOK, Update, Delivery

\* A logged update is one.
LEMMA LoggedUpdate ==
    ASSUME TypeOK, NEW t \in TaskId, NEW i \in DOMAIN log[t]
    PROVE  log[t][i] \in Update /\ log[t][i].task \in TaskId
<1>1. log[t] \in Seq(Update)
  BY DEF TypeOK
<1>2. log[t][i] \in Update
  BY <1>1
<1>. QED
  BY <1>2 DEF Update

\* The caller's update is one that was sent before.
LEMMA CallerType ==
    ASSUME TypeOK, NEW k \in Caller, sending[k] # None
    PROVE  /\ sending[k].update \in Update
           /\ sending[k].todo \in SUBSET Subscriber
           /\ [update |-> sending[k].update, again |-> TRUE] \in Delivery
BY DEF TypeOK, Delivery
LEMMA TypeStep == TypeOK /\ [Next]_vars => TypeOK'
<1>. SUFFICES ASSUME TypeOK, [Next]_vars PROVE TypeOK'
  OBVIOUS
<1>1. ASSUME NEW t \in TaskId, NEW s \in WireState \cup {EmptyState}, CreateTask(t, s)
      PROVE  TypeOK'
  BY <1>1, NewMachine DEF TypeOK, Queued, CreateTask, subVars, cancelVars
<1>2. ASSUME NEW t \in TaskId, NEW s \in WireState, TransitionTask(t, s)
      PROVE  TypeOK'
  <2>. DEFINE update == [task |-> t, state |-> s, number |-> Len(log[t]) + 1]
              delivery == [update |-> update, again |-> FALSE]
  <2>0. subs[t] \in SUBSET Subscriber
    BY DEF TypeOK
  <2>1. update \in Update /\ delivery \in Delivery
    BY DeliveryType
  <2>2. Transition(tasks[t], s) \in Machine
    BY <1>2, AcceptedMachine, ExistingTask DEF TransitionTask
  <2>3. tasks' \in [TaskId -> Machine \cup {Absent}]
    BY <1>2, <2>2 DEF TransitionTask, TypeOK
  <2>4. log' \in [TaskId -> Seq(Update)]
    <3>1. Append(log[t], update) \in Seq(Update)
      BY <2>1 DEF TypeOK
    <3>. QED
      BY <1>2, <3>1 DEF TransitionTask, TypeOK
  <2>5. Offer(subs[t], delivery)
    BY <1>2 DEF TransitionTask, TypeOK
  <2>6. stream' \in [Subscriber -> Seq(Delivery)] /\ offered' \in [Subscriber -> Nat]
    BY <2>0, <2>1, <2>5, Offered
  <2>7. (\A x \in Subscriber : Queued(x) \in 0..Cap)'
    BY <1>2, <2>0, <2>1, <2>5, QueueBound DEF TransitionTask
  <2>8. calls' \in 0..MaxCalls
    BY <1>2, CapPositive DEF TransitionTask, Count, TypeOK
  <2>. QED
    BY <1>2, <2>3, <2>4, <2>6, <2>7, <2>8 DEF TypeOK, Queued, TransitionTask, cancelVars
<1>3. ASSUME NEW t \in TaskId, CancelTask(t) PROVE TypeOK'
  <2>1. Canceling \in WireState
    BY DEF WireState, TaskState
  <2>2. Transition(tasks[t], Canceling) \in Machine
    BY <1>3, <2>1, AcceptedMachine, ExistingTask DEF CancelTask
  <2>. QED
    BY <1>3, <2>2, CapPositive DEF TypeOK, Queued, CancelTask, Count, subVars
<1>4. ASSUME NEW t \in TaskId, NEW x \in Subscriber, Subscribe(x, t) PROVE TypeOK'
  BY <1>4 DEF TypeOK, Queued, Subscribe, cancelVars
<1>5. ASSUME NEW t \in TaskId, NEW w \in Waiter, RegisterCancel(w, t) PROVE TypeOK'
  BY <1>5, CapPositive DEF TypeOK, Queued, RegisterCancel, Count, subVars
<1>6. ASSUME NEW t \in TaskId, NEW k \in Caller, NEW i \in DOMAIN log[t],
             BeginBroadcast(k, log[t][i])
      PROVE  TypeOK'
  <2>1. log[t][i] \in Update /\ log[t][i].task \in TaskId
    BY LoggedUpdate
  <2>. QED
    BY <1>6, <2>1, CapPositive DEF TypeOK, Queued, BeginBroadcast, Count, subVars, cancelVars
<1>7. ASSUME NEW x \in Subscriber, Unsubscribe(x) PROVE TypeOK'
  BY <1>7 DEF TypeOK, Queued, Unsubscribe, cancelVars
<1>8. ASSUME NEW x \in Subscriber, Receive(x) PROVE TypeOK'
  BY <1>8, CapPositive DEF TypeOK, Queued, Receive, cancelVars
<1>9. ASSUME NEW k \in Caller, EndBroadcast(k) PROVE TypeOK'
  BY <1>9 DEF TypeOK, Queued, EndBroadcast, subVars, cancelVars
<1>10. ASSUME NEW k \in Caller, NEW x \in Subscriber, BroadcastTo(k, x) PROVE TypeOK'
  <2>. DEFINE delivery == [update |-> sending[k].update, again |-> TRUE]
  <2>1. delivery \in Delivery /\ Offer({x}, delivery)
    BY <1>10, CallerType DEF BroadcastTo
  <2>2. stream' \in [Subscriber -> Seq(Delivery)] /\ offered' \in [Subscriber -> Nat]
    BY <2>1, Offered
  <2>3. (\A y \in Subscriber : Queued(y) \in 0..Cap)'
    BY <1>10, <2>1, QueueBound DEF BroadcastTo
  <2>4. sending' \in [Caller -> {None} \cup [update : Update, todo : SUBSET Subscriber]]
    BY <1>10, CallerType DEF BroadcastTo, TypeOK
  <2>. QED
    BY <1>10, <2>2, <2>3, <2>4 DEF TypeOK, Queued, BroadcastTo, cancelVars
<1>11. CASE UNCHANGED vars
  BY <1>11 DEF TypeOK, Queued, vars, subVars, cancelVars
<1>. QED
  BY <1>1, <1>2, <1>3, <1>4, <1>5, <1>6, <1>7, <1>8, <1>9, <1>10, <1>11 DEF Next
-----------------------------------------------------------------------------
(* Cancel channels.                                                         *)

\* An accepted cancel or transition leaves a task whose cancel was accepted
\* canceling, canceled or failed; a task that is created was not canceled.
LEMMA CanceledStays ==
    ASSUME TypeOK, Next, NEW t \in TaskId, tasks[t].state \in {Canceling, Canceled, Failed}
    PROVE  tasks'[t].state \in {Canceling, Canceled, Failed}
<1>1. ASSUME NEW u \in TaskId, NEW s \in WireState \cup {EmptyState}, CreateTask(u, s)
      PROVE  tasks'[t] = tasks[t]
  BY <1>1 DEF CreateTask, Exists, TypeOK
<1>2. ASSUME NEW u \in TaskId, NEW s \in WireState, Exists(u), Accepts(tasks[u], s),
             tasks' = [tasks EXCEPT ![u] = Transition(@, s)]
      PROVE  tasks'[t].state \in {Canceling, Canceled, Failed}
  <2>1. CASE u # t
    BY <1>2, <2>1 DEF TypeOK
  <2>2. CASE u = t
    <3>1. tasks[t] \in Machine
      BY <1>2, <2>2, ExistingTask
    <3>2. tasks'[t] = Transition(tasks[t], s)
      BY <1>2, <2>2 DEF TypeOK
    <3>. QED
      BY <1>2, <2>2, <3>1, <3>2, AcceptedMachine
  <2>. QED
    BY <2>1, <2>2
<1>3. ASSUME NEW u \in TaskId, NEW s \in WireState, TransitionTask(u, s)
      PROVE  tasks'[t].state \in {Canceling, Canceled, Failed}
  BY <1>2, <1>3 DEF TransitionTask
<1>4. ASSUME NEW u \in TaskId, CancelTask(u)
      PROVE  tasks'[t].state \in {Canceling, Canceled, Failed}
  <2>1. Canceling \in WireState
    BY DEF WireState, TaskState
  <2>. QED
    BY <1>2, <1>4, <2>1 DEF CancelTask
<1>. QED
  BY <1>1, <1>3, <1>4 DEF Next, Subscribe, RegisterCancel, BeginBroadcast, Unsubscribe, Receive,
                          EndBroadcast, BroadcastTo

LEMMA CancelStep ==
    TypeOK /\ CancelInv /\ SignalledOnce /\ [Next]_vars => CancelInv' /\ SignalledOnce'
<1>. SUFFICES ASSUME TypeOK, CancelInv, SignalledOnce, Next
              PROVE  CancelInv' /\ SignalledOnce'
  BY DEF CancelInv, SignalledOnce, vars, cancelVars
<1>. USE NoneIsNothing
<1>1. CASE UNCHANGED cancelVars
  <2>1. CancelInv'
    BY <1>1 DEF CancelInv, cancelVars
  <2>2. \A w \in signalled : waitsFor[w] \in TaskId
    BY DEF CancelInv, TypeOK
  <2>3. SignalledOnce'
    BY <1>1, <2>2, CanceledStays DEF SignalledOnce, cancelVars
  <2>. QED
    BY <2>1, <2>3
<1>2. ASSUME NEW t \in TaskId, NEW w \in Waiter, RegisterCancel(w, t)
      PROVE  CancelInv' /\ SignalledOnce'
  <2>1. w \notin signalled
    BY <1>2 DEF RegisterCancel, CancelInv
  <2>. QED
    BY <1>2, <2>1 DEF RegisterCancel, CancelInv, SignalledOnce, TypeOK
<1>3. ASSUME NEW t \in TaskId, CancelTask(t)
      PROVE  CancelInv' /\ SignalledOnce'
  <2>1. /\ cancelChans' = [cancelChans EXCEPT ![t] = None] /\ waitsFor' = waitsFor
        /\ signalled' = signalled \cup ({cancelChans[t]} \ {None})
    BY <1>3 DEF CancelTask
  <2>2. CancelInv'
    BY <2>1 DEF CancelInv, TypeOK
  <2>3. \A u \in TaskId : cancelChans'[u] \notin signalled'
    BY <2>1 DEF CancelInv, SignalledOnce, TypeOK
  <2>4. tasks'[t].state = Canceling
    <3>1. Canceling \in WireState
      BY DEF WireState, TaskState
    <3>. QED
      BY <1>3, <3>1, ExistingTask, AcceptedMachine DEF CancelTask, TypeOK
  <2>5. \A w \in signalled : tasks'[waitsFor[w]].state \in {Canceling, Canceled, Failed}
    <3>1. \A w \in signalled : waitsFor[w] \in TaskId
      BY DEF CancelInv, TypeOK
    <3>. QED
      BY <3>1, CanceledStays DEF SignalledOnce
  <2>6. cancelChans[t] # None => waitsFor[cancelChans[t]] = t
    BY DEF CancelInv
  <2>. QED
    BY <2>1, <2>2, <2>3, <2>4, <2>5, <2>6 DEF SignalledOnce
<1>. QED
  BY <1>1, <1>2, <1>3 DEF Next, CreateTask, TransitionTask, Subscribe, BeginBroadcast,
                          Unsubscribe, Receive, EndBroadcast, BroadcastTo

-----------------------------------------------------------------------------
(* Who is still sent to.                                                    *)

LEMMA ClosedStep ==
    TypeOK /\ TopicInv /\ ClosedIsForgotten /\ [Next]_vars => ClosedIsForgotten'
<1>. SUFFICES ASSUME TypeOK, TopicInv, ClosedIsForgotten, Next
              PROVE  ClosedIsForgotten'
  BY DEF ClosedIsForgotten, vars, subVars
<1>1. CASE UNCHANGED <<subs, closed, sending>>
  BY <1>1 DEF ClosedIsForgotten
<1>2. ASSUME NEW t \in TaskId, NEW x \in Subscriber, Subscribe(x, t)
      PROVE  ClosedIsForgotten'
  <2>1. ~closed[x]
    BY <1>2 DEF Subscribe, TopicInv
  <2>. QED
    BY <1>2, <2>1 DEF Subscribe, ClosedIsForgotten, TypeOK
<1>3. ASSUME NEW x \in Subscriber, Unsubscribe(x)
      PROVE  ClosedIsForgotten'
  <2>1. PICK t \in TaskId : x \in subs[t] /\ subs' = [subs EXCEPT ![t] = @ \ {x}]
    BY <1>3 DEF Unsubscribe
  <2>2. \A u \in TaskId : x \notin subs'[u]
    BY <2>1, NoneIsNothing DEF TopicInv, TypeOK
  <2>3. \A u \in TaskId : subs'[u] \subseteq subs[u]
    BY <2>1 DEF TypeOK
  <2>. QED
    BY <1>3, <2>2, <2>3 DEF Unsubscribe, NoReaders, ClosedIsForgotten, TypeOK
<1>4. ASSUME NEW t \in TaskId, NEW k \in Caller, NEW i \in DOMAIN log[t],
             BeginBroadcast(k, log[t][i])
      PROVE  ClosedIsForgotten'
  <2>1. log[t][i].task \in TaskId
    BY LoggedUpdate
  <2>. QED
    BY <1>4, <2>1 DEF BeginBroadcast, subVars, ClosedIsForgotten, TypeOK
<1>5. ASSUME NEW k \in Caller, EndBroadcast(k)
      PROVE  ClosedIsForgotten'
  BY <1>5 DEF EndBroadcast, subVars, ClosedIsForgotten, TypeOK
<1>6. ASSUME NEW k \in Caller, NEW x \in Subscriber, BroadcastTo(k, x)
      PROVE  ClosedIsForgotten'
  BY <1>6 DEF BroadcastTo, ClosedIsForgotten, TypeOK
<1>. QED
  BY <1>1, <1>2, <1>3, <1>4, <1>5, <1>6
     DEF Next, CreateTask, TransitionTask, CancelTask, RegisterCancel, Receive, subVars
-----------------------------------------------------------------------------
(* What was sent.                                                           *)

\* The two actions that send, as sends.
LEMMA TransitionSends ==
    ASSUME TypeOK, NEW t \in TaskId, NEW s \in WireState, TransitionTask(t, s),
           NEW d, d = [update |-> [task |-> t, state |-> s, number |-> Len(log[t]) + 1],
                       again  |-> FALSE]
    PROVE  /\ d \in Delivery /\ subs[t] \in SUBSET Subscriber /\ Offer(subs[t], d)
           /\ log' = [log EXCEPT ![t] = Append(@, d.update)]
           /\ log[t] \in Seq(Update) /\ Len(log'[t]) = Len(log[t]) + 1
           /\ log'[t][Len(log[t]) + 1] = d.update
           /\ \A n \in 1 .. Len(log[t]) : log'[t][n] = log[t][n]
           /\ tasks'[t].state = s
           /\ \A u \in TaskId : u # t => tasks'[u] = tasks[u] /\ log'[u] = log[u]
           /\ UNCHANGED <<subs, topic, since, taken, closed, sending>>
<1>1. d \in Delivery /\ d.update \in Update /\ log[t] \in Seq(Update)
  BY DeliveryType DEF TypeOK
<1>2. /\ log' = [log EXCEPT ![t] = Append(@, d.update)]
      /\ Offer(subs[t], d)
      /\ tasks' = [tasks EXCEPT ![t] = Transition(@, s)]
      /\ UNCHANGED <<subs, topic, since, taken, closed, sending>>
  BY DEF TransitionTask
<1>3. log'[t] = Append(log[t], d.update)
  BY <1>2 DEF TypeOK
<1>4. tasks'[t].state = s
  <2>1. tasks[t] \in Machine /\ Accepts(tasks[t], s)
    BY ExistingTask DEF TransitionTask
  <2>. QED
    BY <1>2, <2>1, AcceptedMachine DEF TypeOK
<1>5. \A u \in TaskId : u # t => tasks'[u] = tasks[u] /\ log'[u] = log[u]
  BY <1>2 DEF TypeOK
<1>. QED
  BY <1>1, <1>2, <1>3, <1>4, <1>5 DEF TypeOK

LEMMA BroadcastSends ==
    ASSUME TypeOK, NEW k \in Caller, NEW y \in Subscriber, BroadcastTo(k, y),
           NEW d, d = [update |-> sending[k].update, again |-> TRUE]
    PROVE  /\ d \in Delivery /\ {y} \in SUBSET Subscriber /\ Offer({y}, d)
           /\ sending[k] # None /\ y \in sending[k].todo
           /\ sending' = [sending EXCEPT ![k].todo = @ \ {y}]
           /\ UNCHANGED <<tasks, subs, topic, since, taken, closed, log>>
BY CallerType DEF BroadcastTo

LEMMA GainStep ==
    TypeOK /\ NothingGained /\ FirstUpdatesArrive /\ [Next]_vars =>
        NothingGained' /\ FirstUpdatesArrive'
<1>. SUFFICES ASSUME TypeOK, NothingGained, FirstUpdatesArrive, [Next]_vars
              PROVE  NothingGained' /\ FirstUpdatesArrive'
  OBVIOUS
<1>1. CASE UNCHANGED <<stream, offered>>
  BY <1>1 DEF NothingGained, FirstUpdatesArrive, NothingLost
<1>2. ASSUME NEW to \in SUBSET Subscriber, NEW d \in Delivery, Offer(to, d)
      PROVE  NothingGained' /\ FirstUpdatesArrive'
  <2>. SUFFICES ASSUME NEW x \in Subscriber
                PROVE  /\ Len(stream'[x]) <= offered'[x]
                       /\ offered'[x] <= Cap => offered'[x] = Len(stream'[x])
    BY DEF NothingGained, FirstUpdatesArrive, NothingLost
  <2>1. /\ stream[x] \in Seq(Delivery) /\ offered[x] \in Nat /\ taken[x] \in Nat
        /\ Len(stream[x]) \in Nat /\ Cap \in Nat
        /\ Len(stream[x]) <= offered[x]
        /\ offered[x] <= Cap => offered[x] = Len(stream[x])
    BY CapPositive DEF TypeOK, NothingGained, FirstUpdatesArrive, NothingLost
  <2>2. CASE stream'[x] = Append(stream[x], d) /\ offered'[x] = offered[x] + 1
    BY <2>1, <2>2
  <2>3. CASE ~(Queued(x) < Cap) /\ stream'[x] = stream[x] /\ offered'[x] = offered[x] + 1
    BY <2>1, <2>3 DEF Queued
  <2>4. CASE stream'[x] = stream[x] /\ offered'[x] = offered[x]
    BY <2>1, <2>4
  <2>. QED
    BY <1>2, <2>2, <2>3, <2>4 DEF Offer
<1>3. ASSUME NEW t \in TaskId, NEW s \in WireState, TransitionTask(t, s)
      PROVE  NothingGained' /\ FirstUpdatesArrive'
  BY <1>2, <1>3, TransitionSends
<1>4. ASSUME NEW k \in Caller, NEW x \in Subscriber, BroadcastTo(k, x)
      PROVE  NothingGained' /\ FirstUpdatesArrive'
  BY <1>2, <1>4, BroadcastSends
<1>. QED
  BY <1>1, <1>3, <1>4 DEF Next, vars, subVars, CreateTask, CancelTask, Subscribe,
     RegisterCancel, BeginBroadcast, Unsubscribe, Receive, EndBroadcast
\* Numbers of updates are numbers.
LEMMA DirectNumber ==
    ASSUME TypeOK, NEW x \in Subscriber, NEW i \in Direct(x)
    PROVE  i \in DOMAIN stream[x] /\ stream[x][i].update.number \in Nat
<1>1. stream[x] \in Seq(Delivery) /\ i \in DOMAIN stream[x]
  BY DEF TypeOK, Direct
<1>2. stream[x][i] \in Delivery
  BY <1>1
<1>. QED
  BY <1>1, <1>2 DEF Delivery, Update

\* Who was subscribed, and to which updates.
LEMMA TopicStep ==
    ASSUME TypeOK, TopicInv, ClosedIsForgotten, [Next]_vars
    PROVE  TopicInv'
<1>. USE NoneIsNothing
<1>. DEFINE Known(x) ==
                /\ \A t \in TaskId : x \in subs[t] => topic[x] = t
                /\ \A k \in Caller : sending[k] # None /\ x \in sending[k].todo => topic[x] # None
            Sent(x) ==
                /\ topic[x] = None => stream[x] = <<>> /\ offered[x] = 0 /\ ~closed[x]
                /\ topic[x] # None => since[x] <= Len(log[topic[x]])
                /\ \A i \in Direct(x) : /\ Exists(topic[x])
                                        /\ stream[x][i].update.number <= Len(log[topic[x]])
<1>0. \A x \in Subscriber : Known(x) /\ Sent(x)
  BY DEF TopicInv
<1>. SUFFICES ASSUME NEW x \in Subscriber
              PROVE  Known(x)' /\ Sent(x)'
  BY DEF TopicInv
<1>1. ASSUME NEW t \in TaskId, NEW s \in WireState, TransitionTask(t, s)
      PROVE  Known(x)' /\ Sent(x)'
  <2>0. PICK d : d = [update |-> [task |-> t, state |-> s, number |-> Len(log[t]) + 1],
                      again  |-> FALSE]
    OBVIOUS
  <2>1. UNCHANGED <<subs, topic, since, closed, sending>>
    BY <1>1 DEF TransitionTask
  <2>2. Known(x)'
    BY <1>0, <2>1
  <2>3. topic[x] = None => x \notin subs[t]
    BY <1>0
  <2>4. /\ d \in Delivery /\ ~d.again /\ d.update.number = Len(log[t]) + 1
        /\ subs[t] \in SUBSET Subscriber /\ Offer(subs[t], d)
        /\ log[t] \in Seq(Update) /\ Len(log'[t]) = Len(log[t]) + 1
        /\ tasks'[t].state = s
        /\ \A u \in TaskId : u # t => tasks'[u] = tasks[u] /\ log'[u] = log[u]
    BY <1>1, <2>0, TransitionSends
  <2>5. \A u \in TaskId : /\ Len(log[u]) \in Nat /\ Len(log[u]) <= Len(log'[u])
                          /\ Exists(u) => Exists(u)'
    <3>1. s # "absent" /\ \A u \in TaskId : log[u] \in Seq(Update) /\ Len(log[u]) \in Nat
      BY DEF WireState, TaskState, TypeOK
    <3>2. \A u \in TaskId : Len(log[u]) <= Len(log'[u])
      BY <2>4, <3>1
    <3>3. \A u \in TaskId : Exists(u) => Exists(u)'
      BY <2>4, <3>1 DEF Exists
    <3>. QED
      BY <3>1, <3>2, <3>3
  <2>6. topic[x] = None \/ topic[x] \in TaskId
    BY DEF TypeOK
  <2>7. Exists(t)' /\ Len(log'[t]) = Len(log[t]) + 1
    BY <2>4, s # "absent" DEF Exists, WireState, TaskState
  <2>8. CASE stream'[x] = stream[x] /\ Direct(x)' = Direct(x)
             /\ (x \notin subs[t] => offered'[x] = offered[x])
    <3>1. topic[x] # None => since'[x] <= Len(log'[topic'[x]])
      BY <1>0, <2>1, <2>5, <2>6 DEF TypeOK
    <3>2. \A i \in Direct(x) : topic[x] # None
      BY <1>0 DEF Direct
    <3>3. (\A i \in Direct(x) : /\ Exists(topic[x])
                               /\ stream[x][i].update.number <= Len(log[topic[x]]))'
      <4>. SUFFICES ASSUME NEW i \in Direct(x)
                    PROVE  Exists(topic[x])' /\ stream[x][i].update.number <= Len(log'[topic[x]])
        BY <2>1, <2>8
      <4>1. stream[x][i].update.number \in Nat
        BY DirectNumber
      <4>. QED
        BY <1>0, <2>1, <2>5, <2>6, <3>2, <4>1 DEF Exists
    <3>. QED
      BY <1>0, <2>1, <2>2, <2>3, <2>8, <3>1, <3>3
  <2>9. ASSUME x \in subs[t], NEW n \in Nat, n = Len(stream[x]), stream'[x][n + 1] = d,
               \A i \in 1 .. n : stream'[x][i] = stream[x][i],
               Direct(x)' = Direct(x) \cup {n + 1}, Direct(x) \subseteq 1 .. n
        PROVE  Known(x)' /\ Sent(x)'
    <3>1. topic[x] = t /\ t # None
      BY <1>0, <2>9
    <3>2. since'[x] <= Len(log'[t])
      BY <1>0, <2>1, <2>5, <3>1 DEF TypeOK
    <3>3. \A i \in Direct(x) : stream[x][i].update.number \in Nat
      BY DirectNumber
    <3>4. \A i \in Direct(x) : stream'[x][i].update.number <= Len(log'[t])
      BY <1>0, <2>5, <2>9, <3>1, <3>3
    <3>5. stream'[x][n + 1].update.number <= Len(log'[t])
      BY <2>4, <2>7, <2>9
    <3>. QED
      BY <2>1, <2>2, <2>7, <2>9, <3>1, <3>2, <3>4, <3>5
  <2>10. d \in Delivery /\ ~d.again /\ subs[t] \in SUBSET Subscriber /\ Offer(subs[t], d)
    BY <2>4
  <2>11. /\ Len(stream[x]) \in Nat /\ Direct(x) \subseteq 1 .. Len(stream[x])
         /\ \/ /\ x \in subs[t]
               /\ stream'[x][Len(stream[x]) + 1] = d
               /\ \A i \in 1 .. Len(stream[x]) : stream'[x][i] = stream[x][i]
               /\ Direct(x)' = Direct(x) \cup {Len(stream[x]) + 1}
            \/ /\ stream'[x] = stream[x] /\ Direct(x)' = Direct(x)
               /\ x \notin subs[t] => offered'[x] = offered[x]
    BY <2>10, SentTo
  <2>. QED
    BY <2>8, <2>9, <2>11
<1>2. ASSUME NEW k \in Caller, NEW y \in Subscriber, BroadcastTo(k, y)
      PROVE  Known(x)' /\ Sent(x)'
  <2>0. PICK d : d = [update |-> sending[k].update, again |-> TRUE]
    OBVIOUS
  <2>1. /\ UNCHANGED <<tasks, subs, topic, since, closed, log>>
        /\ d \in Delivery /\ d.again /\ Offer({y}, d)
        /\ sending[k] # None /\ y \in sending[k].todo
        /\ sending' = [sending EXCEPT ![k].todo = @ \ {y}]
    BY <1>2, <2>0, BroadcastSends
  <2>2. topic[y] # None
    BY <1>0, <2>1 DEF TopicInv
  <2>3. Known(x)'
    BY <1>0, <2>1 DEF TypeOK
  <2>4. PICK to \in SUBSET Subscriber : to = {y}
    OBVIOUS
  <2>5. d \in Delivery /\ d.again /\ Offer(to, d)
    BY <2>1, <2>4
  <2>6. /\ x \notin to => stream'[x] = stream[x] /\ offered'[x] = offered[x]
        /\ Direct(x)' = Direct(x)
        /\ \A i \in Direct(x) : stream'[x][i] = stream[x][i]
    BY <2>5, SentTo
  <2>. QED
    BY <1>0, <2>1, <2>2, <2>3, <2>6, <2>4 DEF Exists
<1>3. ASSUME UNCHANGED <<stream, offered, log>>,
             \A u \in TaskId : Exists(u) => Exists(u)',
             topic'[x] = topic[x], since'[x] = since[x],
             topic[x] = None => closed'[x] = closed[x]
      PROVE  Sent(x)'
  <2>1. Direct(x)' = Direct(x)
    BY <1>3 DEF Direct
  <2>2. topic[x] = None \/ topic[x] \in TaskId
    BY DEF TypeOK
  <2>3. \A i \in Direct(x) : topic[x] # None
    BY <1>0 DEF Direct
  <2>4. (\A i \in Direct(x) : /\ Exists(topic[x])
                             /\ stream[x][i].update.number <= Len(log[topic[x]]))'
    BY <1>0, <1>3, <2>1, <2>2, <2>3
  <2>. QED
    BY <1>0, <1>3, <2>4
<1>4. CASE /\ UNCHANGED <<subs, topic, since, closed, sending, stream, offered, log>>
           /\ \A u \in TaskId : Exists(u) => Exists(u)'
  <2>1. Known(x)'
    BY <1>0, <1>4
  <2>. QED
    BY <1>3, <1>4, <2>1
<1>5. ASSUME NEW t \in TaskId, NEW s \in WireState \cup {EmptyState}, CreateTask(t, s)
      PROVE  Known(x)' /\ Sent(x)'
  <2>1. \A u \in TaskId : Exists(u) => Exists(u)'
    BY <1>5 DEF CreateTask, Exists, TypeOK
  <2>. QED
    BY <1>4, <1>5, <2>1 DEF CreateTask, subVars
<1>6. ASSUME NEW t \in TaskId, CancelTask(t)
      PROVE  Known(x)' /\ Sent(x)'
  <2>1. Canceling \in WireState
    BY DEF WireState, TaskState
  <2>2. tasks[t] \in Machine /\ Accepts(tasks[t], Canceling)
    BY <1>6, ExistingTask DEF CancelTask
  <2>3. Transition(tasks[t], Canceling).state = Canceling
    BY <2>1, <2>2, AcceptedMachine
  <2>4. \A u \in TaskId : Exists(u) => Exists(u)'
    BY <1>6, <2>3 DEF CancelTask, Exists, TypeOK
  <2>. QED
    BY <1>4, <1>6, <2>4 DEF CancelTask, subVars
<1>7. ASSUME NEW y \in Subscriber, NEW t \in TaskId, Subscribe(y, t)
      PROVE  Known(x)' /\ Sent(x)'
  <2>1. /\ topic[y] = None /\ NoReaders
        /\ topic' = [topic EXCEPT ![y] = t]
        /\ since' = [since EXCEPT ![y] = Len(log[t])]
        /\ subs' = [subs EXCEPT ![t] = @ \cup {y}]
        /\ UNCHANGED <<tasks, stream, offered, closed, log, sending>>
    BY <1>7 DEF Subscribe
  <2>2. Known(x)'
    BY <1>0, <2>1 DEF TypeOK, NoReaders
  <2>3. CASE x = y
    <3>1. stream[x] = <<>> /\ Direct(x)' = {}
      BY <1>0, <2>1, <2>3 DEF Direct
    <3>2. topic'[x] = t /\ since'[x] = Len(log'[t]) /\ Len(log[t]) \in Nat
      BY <2>1, <2>3 DEF TypeOK
    <3>. QED
      BY <2>2, <3>1, <3>2
  <2>4. CASE x # y
    BY <1>3, <2>1, <2>2, <2>4 DEF TypeOK, Exists
  <2>. QED
    BY <2>3, <2>4
<1>8. ASSUME NEW y \in Subscriber, Unsubscribe(y)
      PROVE  Known(x)' /\ Sent(x)'
  <2>1. PICK t \in TaskId : y \in subs[t] /\ subs' = [subs EXCEPT ![t] = @ \ {y}]
    BY <1>8 DEF Unsubscribe
  <2>2. topic[y] # None
    BY <2>1 DEF TopicInv
  <2>3. /\ closed' = [closed EXCEPT ![y] = TRUE]
        /\ UNCHANGED <<tasks, topic, since, stream, offered, log, sending>>
    BY <1>8 DEF Unsubscribe
  <2>4. Known(x)'
    BY <1>0, <2>1, <2>3 DEF TypeOK
  <2>. QED
    BY <1>3, <2>2, <2>3, <2>4 DEF TypeOK, Exists
<1>9. ASSUME NEW t \in TaskId, NEW k \in Caller, NEW i \in DOMAIN log[t],
             BeginBroadcast(k, log[t][i])
      PROVE  Known(x)' /\ Sent(x)'
  <2>1. log[t][i].task \in TaskId
    BY LoggedUpdate
  <2>2. /\ sending' = [sending EXCEPT ![k] = [update |-> log[t][i], todo |-> subs[log[t][i].task]]]
        /\ UNCHANGED <<tasks, subs, topic, since, closed, stream, offered, log>>
    BY <1>9 DEF BeginBroadcast, subVars
  <2>3. Known(x)'
    BY <1>0, <2>1, <2>2 DEF TypeOK
  <2>. QED
    BY <1>3, <2>2, <2>3 DEF Exists
<1>10. ASSUME NEW k \in Caller, EndBroadcast(k)
       PROVE  Known(x)' /\ Sent(x)'
  <2>1. /\ sending' = [sending EXCEPT ![k] = None]
        /\ UNCHANGED <<tasks, subs, topic, since, closed, stream, offered, log>>
    BY <1>10 DEF EndBroadcast, subVars
  <2>2. Known(x)'
    BY <1>0, <2>1 DEF TypeOK
  <2>. QED
    BY <1>3, <2>1, <2>2 DEF Exists
<1>11. CASE UNCHANGED <<tasks, subs, topic, since, closed, sending, stream, offered, log>>
  BY <1>4, <1>11 DEF Exists
<1>. QED
  BY <1>1, <1>2, <1>5, <1>6, <1>7, <1>8, <1>9, <1>10, <1>11
     DEF Next, RegisterCancel, Receive, vars, subVars
-----------------------------------------------------------------------------
(* What a subscriber has been sent.                                         *)

\* A transition's update reaches a channel, or the channel is passed over.
LEMMA SentDirect ==
    ASSUME TypeOK, NEW t \in TaskId, NEW d \in Delivery, ~d.again, Offer(subs[t], d),
           subs[t] \in SUBSET Subscriber, NEW x \in Subscriber, NEW n, n = Len(stream[x])
    PROVE  /\ Direct(x) \subseteq 1 .. n
           /\ \/ /\ x \in subs[t] /\ offered'[x] = offered[x] + 1
                 /\ Len(stream'[x]) = n + 1 /\ stream'[x][n + 1] = d
                 /\ \A i \in 1 .. n : stream'[x][i] = stream[x][i]
                 /\ Direct(x)' = Direct(x) \cup {n + 1}
              \/ /\ stream'[x] = stream[x] /\ Direct(x)' = Direct(x)
                 /\ x \in subs[t] => offered'[x] = offered[x] + 1
                 /\ x \notin subs[t] => offered'[x] = offered[x]
<1>1. Direct(x) \subseteq 1 .. Len(stream[x])
  BY SentTo
<1>2. CASE x \in subs[t] /\ stream'[x] = Append(stream[x], d)
  <2>1. /\ offered'[x] = offered[x] + 1
        /\ Len(stream'[x]) = Len(stream[x]) + 1 /\ stream'[x][Len(stream[x]) + 1] = d
        /\ \A i \in 1 .. Len(stream[x]) : stream'[x][i] = stream[x][i]
    BY <1>2, Given DEF Offer
  <2>2. Direct(x)' = Direct(x) \cup {Len(stream[x]) + 1}
    BY <1>2, Given
  <2>. QED
    BY <1>1, <1>2, <2>1, <2>2
<1>3. CASE stream'[x] = stream[x]
  <2>1. Direct(x)' = Direct(x)
    BY <1>3 DEF Direct
  <2>. QED
    BY <1>1, <1>3, <2>1 DEF Offer
<1>. QED
  BY <1>2, <1>3 DEF Offer

\* A caller that repeats an update to a channel that has lost one does not
\* make good for it.
LEMMA AgainLosesNothing ==
    ASSUME TypeOK, NothingGained, NEW to \in SUBSET Subscriber, NEW d \in Delivery,
           Offer(to, d), NEW x \in Subscriber
    PROVE  NothingLost(x)' => NothingLost(x)
<1>1. \/ offered'[x] = offered[x] + 1 /\ Len(stream'[x]) = Len(stream[x]) + 1
      \/ offered'[x] = offered[x] + 1 /\ stream'[x] = stream[x]
      \/ offered'[x] = offered[x] /\ stream'[x] = stream[x]
  BY SentTo
<1>2. offered[x] \in Nat /\ Len(stream[x]) \in Nat /\ Len(stream[x]) <= offered[x]
  BY DEF TypeOK, NothingGained
<1>. QED
  BY <1>1, <1>2 DEF NothingLost

LEMMA StreamStep ==
    ASSUME TypeOK, TopicInv, NothingGained, StreamInOrder, [Next]_vars
    PROVE  StreamInOrder'
<1>. DEFINE InOrder(x) ==
                \A i, j \in Direct(x) : i < j => stream[x][i].update.number < stream[x][j].update.number
            SentSince(x) == \A i \in Direct(x) : stream[x][i].update.number > since[x]
            Complete(x) ==
                \A t \in TaskId : x \in subs[t] /\ NothingLost(x) =>
                    \A n \in since[x] + 1 .. Len(log[t]) :
                        \E i \in Direct(x) : stream[x][i].update = log[t][n]
<1>0. \A x \in Subscriber : InOrder(x) /\ SentSince(x) /\ Complete(x)
  BY DEF StreamInOrder
<1>. SUFFICES ASSUME NEW x \in Subscriber
              PROVE  InOrder(x)' /\ SentSince(x)' /\ Complete(x)'
  BY DEF StreamInOrder
<1>1. ASSUME UNCHANGED <<stream, offered, log>>, since'[x] = since[x],
             \A t \in TaskId : x \in subs'[t] => x \in subs[t]
      PROVE  InOrder(x)' /\ SentSince(x)' /\ Complete(x)'
  <2>1. Direct(x)' = Direct(x) /\ NothingLost(x)' = NothingLost(x)
    BY <1>1 DEF Direct, NothingLost
  <2>. QED
    BY <1>0, <1>1, <2>1
<1>2. ASSUME NEW t \in TaskId, NEW s \in WireState, TransitionTask(t, s)
      PROVE  InOrder(x)' /\ SentSince(x)' /\ Complete(x)'
  <2>1. PICK d : d = [update |-> [task |-> t, state |-> s, number |-> Len(log[t]) + 1],
                      again  |-> FALSE]
    OBVIOUS
  <2>2. /\ d \in Delivery /\ ~d.again /\ subs[t] \in SUBSET Subscriber /\ Offer(subs[t], d)
        /\ d.update.number = Len(log[t]) + 1
        /\ UNCHANGED <<subs, topic, since>>
        /\ log[t] \in Seq(Update) /\ Len(log'[t]) = Len(log[t]) + 1
        /\ log'[t][Len(log[t]) + 1] = d.update
        /\ \A n \in 1 .. Len(log[t]) : log'[t][n] = log[t][n]
        /\ \A u \in TaskId : u # t => log'[u] = log[u]
    BY <1>2, <2>1, TransitionSends
  <2>3. d \in Delivery /\ ~d.again /\ subs[t] \in SUBSET Subscriber /\ Offer(subs[t], d)
    BY <2>2
  <2>4. PICK n \in Nat : n = Len(stream[x])
    BY DEF TypeOK
  <2>. DEFINE Appended(l) ==
                  /\ x \in subs[t] /\ offered'[x] = offered[x] + 1
                  /\ Len(stream'[x]) = l + 1 /\ stream'[x][l + 1] = d
                  /\ \A i \in 1 .. l : stream'[x][i] = stream[x][i]
                  /\ Direct(x)' = Direct(x) \cup {l + 1}
              Kept == /\ stream'[x] = stream[x] /\ Direct(x)' = Direct(x)
                      /\ x \in subs[t] => offered'[x] = offered[x] + 1
                      /\ x \notin subs[t] => offered'[x] = offered[x]
  <2>5. Direct(x) \subseteq 1 .. n /\ (Appended(n) \/ Kept)
    BY <2>3, <2>4, SentDirect
  <2>6. \A i \in Direct(x) : stream[x][i].update.number \in Nat
    BY DirectNumber
  <2>7. since[x] \in Nat /\ offered[x] \in Nat /\ n <= offered[x] /\ Len(log[t]) \in Nat
    BY <2>2, <2>4 DEF TypeOK, NothingGained
  <2>8. CASE Kept
    <3>1. InOrder(x)' /\ SentSince(x)'
      BY <1>0, <2>2, <2>8
    <3>2. CASE x \in subs[t]
      <4>1. ~NothingLost(x)'
        BY <2>4, <2>7, <2>8, <3>2 DEF NothingLost
      <4>. QED
        BY <3>1, <4>1
    <3>3. CASE x \notin subs[t]
      <4>1. NothingLost(x)' = NothingLost(x)
        BY <2>8, <3>3 DEF NothingLost
      <4>. QED
        BY <1>0, <2>2, <2>8, <3>1, <3>3, <4>1
    <3>. QED
      BY <3>2, <3>3
  <2>9. CASE Appended(n)
    <3>1. /\ topic[x] = t /\ since[x] <= Len(log[t])
          /\ \A i \in Direct(x) : stream[x][i].update.number <= Len(log[t])
      BY <2>9, NoneIsNothing DEF TopicInv
    <3>2. \A i \in Direct(x) : i \in 1 .. n /\ stream'[x][i] = stream[x][i]
      BY <2>5, <2>9
    <3>3. InOrder(x)'
      <4>. SUFFICES ASSUME NEW i \in Direct(x) \cup {n + 1}, NEW j \in Direct(x) \cup {n + 1}, i < j
                    PROVE  stream'[x][i].update.number < stream'[x][j].update.number
        BY <2>9
      <4>1. i \in Direct(x)
        BY <3>2
      <4>2. CASE j \in Direct(x)
        BY <1>0, <3>2, <4>1, <4>2
      <4>3. CASE j = n + 1
        <5>1. stream'[x][j].update.number = Len(log[t]) + 1
          BY <2>2, <2>9, <4>3
        <5>2. stream'[x][i].update.number <= Len(log[t]) /\ stream'[x][i].update.number \in Nat
          BY <2>6, <3>1, <3>2, <4>1
        <5>. QED
          BY <2>7, <5>1, <5>2
      <4>. QED
        BY <4>2, <4>3
    <3>4. SentSince(x)'
      <4>. SUFFICES ASSUME NEW i \in Direct(x) \cup {n + 1}
                    PROVE  stream'[x][i].update.number > since[x]
        BY <2>2, <2>9
      <4>1. CASE i \in Direct(x)
        BY <1>0, <3>2, <4>1
      <4>2. CASE i = n + 1
        <5>1. stream'[x][i].update.number = Len(log[t]) + 1
          BY <2>2, <2>9, <4>2
        <5>. QED
          BY <2>7, <3>1, <5>1
      <4>. QED
        BY <4>1, <4>2
    <3>5. NothingLost(x)' => NothingLost(x)
      <4>1. /\ offered'[x] = offered[x] + 1 /\ Len(stream'[x]) = Len(stream[x]) + 1
            /\ offered[x] \in Nat /\ Len(stream[x]) \in Nat
        BY <2>4, <2>7, <2>9
      <4>. QED
        BY <4>1 DEF NothingLost
    <3>6. Complete(x)'
      <4>. SUFFICES ASSUME NothingLost(x)', NEW m \in since[x] + 1 .. Len(log[t]) + 1
                    PROVE  \E i \in Direct(x) \cup {n + 1} : stream'[x][i].update = log'[t][m]
        <5>1. \A u \in TaskId : x \in subs[u] => u = t
          BY <3>1 DEF TopicInv
        <5>. QED
          BY <2>2, <2>9, <5>1
      <4>1. NothingLost(x)
        BY <3>5
      <4>2. CASE m = Len(log[t]) + 1
        BY <2>2, <2>9, <4>2
      <4>3. CASE m # Len(log[t]) + 1
        <5>1. m \in since[x] + 1 .. Len(log[t]) /\ m \in 1 .. Len(log[t])
          BY <2>7, <4>3
        <5>2. PICK i \in Direct(x) : stream[x][i].update = log[t][m]
          BY <1>0, <2>9, <4>1, <5>1
        <5>. QED
          BY <2>2, <3>2, <5>1, <5>2
      <4>. QED
        BY <4>2, <4>3
    <3>. QED
      BY <3>3, <3>4, <3>6
  <2>. QED
    BY <2>5, <2>8, <2>9
<1>3. ASSUME NEW k \in Caller, NEW y \in Subscriber, BroadcastTo(k, y)
      PROVE  InOrder(x)' /\ SentSince(x)' /\ Complete(x)'
  <2>1. PICK d : d = [update |-> sending[k].update, again |-> TRUE]
    OBVIOUS
  <2>2. PICK to \in SUBSET Subscriber : to = {y}
    OBVIOUS
  <2>3. d \in Delivery /\ d.again /\ Offer(to, d) /\ UNCHANGED <<subs, since, log>>
    BY <1>3, <2>1, <2>2, BroadcastSends
  <2>4. d \in Delivery /\ d.again /\ Offer(to, d)
    BY <2>3
  <2>5. /\ Direct(x)' = Direct(x)
        /\ \A i \in Direct(x) : stream'[x][i] = stream[x][i]
    BY <2>4, SentTo
  <2>6. NothingLost(x)' => NothingLost(x)
    BY <2>4, AgainLosesNothing
  <2>. QED
    BY <1>0, <2>3, <2>5, <2>6
<1>4. ASSUME NEW y \in Subscriber, NEW t \in TaskId, Subscribe(y, t)
      PROVE  InOrder(x)' /\ SentSince(x)' /\ Complete(x)'
  <2>1. /\ topic[y] = None
        /\ since' = [since EXCEPT ![y] = Len(log[t])]
        /\ subs' = [subs EXCEPT ![t] = @ \cup {y}]
        /\ UNCHANGED <<stream, offered, log>>
    BY <1>4 DEF Subscribe
  <2>2. CASE x # y
    BY <1>1, <2>1, <2>2 DEF TypeOK
  <2>3. CASE x = y
    <3>1. Direct(x)' = {} /\ \A u \in TaskId : x \notin subs[u]
      BY <2>1, <2>3, NoneIsNothing DEF TopicInv, Direct
    <3>2. \A u \in TaskId : x \in subs'[u] => u = t
      BY <2>1, <3>1 DEF TypeOK
    <3>3. since'[x] + 1 .. Len(log'[t]) = {}
      BY <2>1, <2>3 DEF TypeOK
    <3>. QED
      BY <3>1, <3>2, <3>3
  <2>. QED
    BY <2>2, <2>3
<1>5. ASSUME NEW y \in Subscriber, Unsubscribe(y)
      PROVE  InOrder(x)' /\ SentSince(x)' /\ Complete(x)'
  BY <1>1, <1>5 DEF Unsubscribe, TypeOK
<1>6. CASE UNCHANGED <<stream, offered, log, since, subs>>
  BY <1>1, <1>6
<1>. QED
  BY <1>2, <1>3, <1>4, <1>5, <1>6
     DEF Next, CreateTask, CancelTask, RegisterCancel, Receive, BeginBroadcast, EndBroadcast,
         vars, subVars
LEMMA CurrentStep ==
    ASSUME TypeOK, TopicInv, NothingGained, CurrentUnlessDropped, [Next]_vars
    PROVE  CurrentUnlessDropped'
<1>. DEFINE Current(x, t) ==
                (NothingLost(x) /\ Direct(x) # {}) =>
                    \/ tasks[t].state = Canceling
                    \/ \E i \in Direct(x) : /\ \A j \in Direct(x) : j <= i
                                            /\ stream[x][i].update.state = tasks[t].state
<1>0. \A t \in TaskId : \A x \in subs[t] : Current(x, t)
  BY DEF CurrentUnlessDropped
<1>. SUFFICES ASSUME NEW u \in TaskId, NEW x \in Subscriber, x \in subs'[u]
              PROVE  Current(x, u)'
  <2>1. subs' \in [TaskId -> SUBSET Subscriber]
    BY TypeStep DEF TypeOK
  <2>. QED
    BY <2>1 DEF CurrentUnlessDropped
<1>1. ASSUME UNCHANGED <<stream, offered>>, x \in subs[u],
             tasks'[u].state \in {tasks[u].state, Canceling}
      PROVE  Current(x, u)'
  <2>1. Direct(x)' = Direct(x) /\ NothingLost(x)' = NothingLost(x)
    BY <1>1 DEF Direct, NothingLost
  <2>. QED
    BY <1>0, <1>1, <2>1
<1>2. ASSUME NEW t \in TaskId, NEW s \in WireState, TransitionTask(t, s)
      PROVE  Current(x, u)'
  <2>1. PICK d : d = [update |-> [task |-> t, state |-> s, number |-> Len(log[t]) + 1],
                      again  |-> FALSE]
    OBVIOUS
  <2>2. /\ d \in Delivery /\ ~d.again /\ subs[t] \in SUBSET Subscriber /\ Offer(subs[t], d)
        /\ d.update.state = s /\ tasks'[t].state = s
        /\ UNCHANGED subs
        /\ \A v \in TaskId : v # t => tasks'[v] = tasks[v]
    BY <1>2, <2>1, TransitionSends
  <2>3. d \in Delivery /\ ~d.again /\ subs[t] \in SUBSET Subscriber /\ Offer(subs[t], d)
    BY <2>2
  <2>4. PICK n \in Nat : n = Len(stream[x])
    BY DEF TypeOK
  <2>5. /\ Direct(x) \subseteq 1 .. n
        /\ \/ /\ x \in subs[t]
              /\ stream'[x][n + 1] = d /\ Direct(x)' = Direct(x) \cup {n + 1}
           \/ /\ stream'[x] = stream[x] /\ Direct(x)' = Direct(x)
              /\ x \in subs[t] => offered'[x] = offered[x] + 1
              /\ x \notin subs[t] => offered'[x] = offered[x]
    BY <2>3, <2>4, SentDirect
  <2>6. CASE x \in subs[t]
    <3>1. u = t
      BY <2>2, <2>6 DEF TopicInv
    <3>2. CASE stream'[x][n + 1] = d /\ Direct(x)' = Direct(x) \cup {n + 1}
      <4>1. n + 1 \in Direct(x)' /\ \A j \in Direct(x)' : j <= n + 1
        BY <2>5, <3>2
      <4>2. stream'[x][n + 1].update.state = tasks'[u].state
        BY <2>2, <3>1, <3>2
      <4>. QED
        BY <4>1, <4>2
    <3>3. CASE stream'[x] = stream[x] /\ offered'[x] = offered[x] + 1
      <4>1. offered[x] \in Nat /\ Len(stream[x]) \in Nat /\ Len(stream[x]) <= offered[x]
        BY DEF TypeOK, NothingGained
      <4>2. ~NothingLost(x)'
        BY <3>3, <4>1 DEF NothingLost
      <4>. QED
        BY <4>2
    <3>. QED
      BY <2>5, <2>6, <3>2, <3>3
  <2>7. CASE x \notin subs[t]
    <3>1. /\ stream'[x] = stream[x] /\ Direct(x)' = Direct(x) /\ offered'[x] = offered[x]
          /\ u # t /\ tasks'[u] = tasks[u] /\ x \in subs[u]
      BY <2>2, <2>5, <2>7
    <3>2. NothingLost(x)' = NothingLost(x)
      BY <3>1 DEF NothingLost
    <3>. QED
      BY <1>0, <3>1, <3>2
  <2>. QED
    BY <2>6, <2>7
<1>3. ASSUME NEW k \in Caller, NEW y \in Subscriber, BroadcastTo(k, y)
      PROVE  Current(x, u)'
  <2>1. PICK d : d = [update |-> sending[k].update, again |-> TRUE]
    OBVIOUS
  <2>2. PICK to \in SUBSET Subscriber : to = {y}
    OBVIOUS
  <2>3. d \in Delivery /\ d.again /\ Offer(to, d) /\ UNCHANGED <<subs, tasks>>
    BY <1>3, <2>1, <2>2, BroadcastSends
  <2>4. d \in Delivery /\ d.again /\ Offer(to, d)
    BY <2>3
  <2>5. /\ Direct(x)' = Direct(x)
        /\ \A i \in Direct(x) : stream'[x][i] = stream[x][i]
    BY <2>4, SentTo
  <2>6. NothingLost(x)' => NothingLost(x)
    BY <2>4, AgainLosesNothing
  <2>. QED
    BY <1>0, <2>3, <2>5, <2>6
<1>4. ASSUME NEW t \in TaskId, NEW s \in WireState \cup {EmptyState}, CreateTask(t, s)
      PROVE  Current(x, u)'
  <2>1. /\ ~Exists(t) /\ tasks' = [tasks EXCEPT ![t] = NewStateMachine(s)]
        /\ UNCHANGED <<stream, offered, subs>>
    BY <1>4 DEF CreateTask, subVars
  <2>2. CASE u # t
    BY <1>1, <2>1, <2>2 DEF TypeOK
  <2>3. CASE u = t
    <3>1. topic[x] = t
      BY <2>1, <2>3 DEF TopicInv
    <3>2. Direct(x)' = {}
      BY <2>1, <3>1 DEF TopicInv, Direct
    <3>. QED
      BY <3>2
  <2>. QED
    BY <2>2, <2>3
<1>5. ASSUME NEW t \in TaskId, CancelTask(t)
      PROVE  Current(x, u)'
  <2>1. Canceling \in WireState /\ tasks[t] \in Machine /\ Accepts(tasks[t], Canceling)
    BY <1>5, ExistingTask DEF CancelTask, WireState, TaskState
  <2>2. Transition(tasks[t], Canceling).state = Canceling
    BY <2>1, AcceptedMachine
  <2>. QED
    BY <1>1, <1>5, <2>2 DEF CancelTask, subVars, TypeOK
<1>6. ASSUME NEW t \in TaskId, NEW y \in Subscriber, Subscribe(y, t)
      PROVE  Current(x, u)'
  <2>1. /\ topic[y] = None
        /\ subs' = [subs EXCEPT ![t] = @ \cup {y}]
        /\ UNCHANGED <<stream, offered, tasks>>
    BY <1>6 DEF Subscribe
  <2>2. CASE x # y
    BY <1>1, <2>1, <2>2 DEF TypeOK
  <2>3. CASE x = y
    <3>1. Direct(x)' = {}
      BY <2>1, <2>3 DEF TopicInv, Direct
    <3>. QED
      BY <3>1
  <2>. QED
    BY <2>2, <2>3
<1>7. ASSUME NEW y \in Subscriber, Unsubscribe(y)
      PROVE  Current(x, u)'
  BY <1>1, <1>7 DEF Unsubscribe, TypeOK
<1>8. CASE UNCHANGED <<stream, offered, tasks, subs>>
  BY <1>1, <1>8
<1>. QED
  BY <1>2, <1>3, <1>4, <1>5, <1>6, <1>7, <1>8
     DEF Next, RegisterCancel, Receive, BeginBroadcast, EndBroadcast, vars, subVars

-----------------------------------------------------------------------------
(* The theorems.                                                            *)

\* IInv holds from the start and no step breaks it.
THEOREM SubscriptionsInvariance == Spec => []IInv
<1>1. IInv /\ [Next]_vars => IInv'
  BY TypeStep, TopicStep, GainStep, CancelStep, StreamStep, CurrentStep, ClosedStep DEF IInv
<1>. QED
  BY <1>1, InitInvariant, PTL DEF Spec

\* The store's maps and channels keep their types, and no channel ever holds
\* more than its capacity.
THEOREM SubscriptionsTypeCorrect == Spec => []TypeOK
<1>1. IInv => TypeOK
  BY DEF IInv
<1>. QED
  BY <1>1, SubscriptionsInvariance, PTL

\* Updates reach a subscriber in the order of the transitions, each once, and
\* all of them unless its channel was full, however many callers of
\* BroadcastTaskUpdate repeat older ones in between.
THEOREM StreamInOrderTheorem == Spec => []StreamInOrder
<1>1. IInv => StreamInOrder
  BY DEF IInv
<1>. QED
  BY <1>1, SubscriptionsInvariance, PTL

\* A subscriber whose channel never was full knows the state its task is in,
\* a canceling task apart.
THEOREM CurrentTheorem == Spec => []CurrentUnlessDropped
<1>1. IInv => CurrentUnlessDropped
  BY DEF IInv
<1>. QED
  BY <1>1, SubscriptionsInvariance, PTL

\* A channel takes its first Cap updates whether its reader reads or not.
THEOREM FirstUpdatesTheorem == Spec => []FirstUpdatesArrive
<1>1. IInv => FirstUpdatesArrive
  BY DEF IInv
<1>. QED
  BY <1>1, SubscriptionsInvariance, PTL

\* Nobody sends, or is about to, on a channel that Unsubscribe has closed: a
\* send on it would end the process.
THEOREM ClosedIsForgottenTheorem == Spec => []ClosedIsForgotten
<1>1. IInv => ClosedIsForgotten
  BY DEF IInv
<1>. QED
  BY <1>1, SubscriptionsInvariance, PTL

\* No cancel channel is closed twice (that too would end the process), and none
\* without an accepted cancel of its task.
THEOREM SignalledOnceTheorem == Spec => []SignalledOnce
<1>1. IInv => SignalledOnce
  BY DEF IInv
<1>. QED
  BY <1>1, SubscriptionsInvariance, PTL
-----------------------------------------------------------------------------
(* The store implements the abstract lifecycle.                             *)

LEMMA SameTable ==
    /\ Lifecycle!WireState = WireState
    /\ Lifecycle!DefaultTransitions = DefaultTransitions
    /\ Lifecycle!NotCreated = "absent"
BY DEF Lifecycle!WireState, Lifecycle!TaskState, Lifecycle!DefaultTransitions,
       Lifecycle!NotCreated, Lifecycle!Submitted, Lifecycle!Working,
       Lifecycle!InputRequired, Lifecycle!Completed, Lifecycle!Failed,
       Lifecycle!Canceling, Lifecycle!Canceled, Lifecycle!UnknownState,
       WireState, TaskState, DefaultTransitions

\* Each task of the store obeys the lifecycle: created once, then along the
\* table and in no other way, through TransitionTask and CancelTask alike.
THEOREM StoreLifecycleRefinement == Spec => ImplementsLifecycle
<1>. DEFINE phase == [t \in TaskId |-> tasks[t].state]
<1>1. Init => Lifecycle!Init
  BY SameTable DEF Init, Absent, Lifecycle!Init
<1>2. IInv /\ [Next]_vars => [Lifecycle!Next]_phase
  <2>. SUFFICES ASSUME IInv, [Next]_vars
                PROVE  Lifecycle!Next \/ phase' = phase
    OBVIOUS
  <2>1. TypeOK
    BY DEF IInv
  <2>2. CASE tasks' = tasks
    BY <2>2
  <2>3. ASSUME NEW t \in TaskId, NEW s \in WireState \cup {EmptyState}, CreateTask(t, s)
        PROVE  Lifecycle!Next
    <3>. DEFINE new == NewStateMachine(s).state
    <3>1. new \in WireState
      BY NewMachine DEF Machine
    <3>2. phase' = [phase EXCEPT ![t] = new] /\ phase[t] = "absent"
      BY <2>1, <2>3 DEF CreateTask, Exists, TypeOK
    <3>3. Lifecycle!Create(t, new)
      BY <3>2, SameTable DEF Lifecycle!Create
    <3>. QED
      BY <3>1, <3>3, SameTable DEF Lifecycle!Next
  <2>4. ASSUME NEW t \in TaskId, NEW s \in WireState, Accepts(tasks[t], s),
               tasks' = [tasks EXCEPT ![t] = Transition(tasks[t], s)]
        PROVE  Lifecycle!Next \/ phase' = phase
    <3>1. CASE tasks[t].state = s
      BY <2>1, <2>4, <3>1 DEF Transition, TypeOK
    <3>2. CASE tasks[t].state # s
      <4>1. phase' = [phase EXCEPT ![t] = s]
        BY <2>1, <2>4, <3>2 DEF Transition, TypeOK
      <4>2. phase[t] \in DOMAIN DefaultTransitions /\ s \in DefaultTransitions[phase[t]]
        BY <2>4, <3>2 DEF Accepts, CanTransition
      <4>3. Lifecycle!Advance(t, s)
        BY <4>1, <4>2, SameTable DEF Lifecycle!Advance
      <4>. QED
        BY <4>3, SameTable DEF Lifecycle!Next
    <3>. QED
      BY <3>1, <3>2
  <2>5. ASSUME NEW t \in TaskId, CancelTask(t)
        PROVE  Lifecycle!Next \/ phase' = phase
    <3>1. Canceling \in WireState
      BY DEF WireState, TaskState
    <3>. QED
      BY <2>4, <2>5, <3>1 DEF CancelTask
  <2>6. ASSUME NEW t \in TaskId, NEW s \in WireState, TransitionTask(t, s)
        PROVE  Lifecycle!Next \/ phase' = phase
    BY <2>4, <2>6 DEF TransitionTask
  <2>. QED
    BY <2>2, <2>3, <2>5, <2>6
       DEF vars, Next, Subscribe, RegisterCancel, BeginBroadcast, Unsubscribe, Receive,
           BroadcastTo, EndBroadcast
<1>. QED
  BY <1>1, <1>2, SubscriptionsInvariance, PTL DEF Spec, ImplementsLifecycle, Lifecycle!Spec
=============================================================================
