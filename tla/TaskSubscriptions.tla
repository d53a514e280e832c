-------------------------- MODULE TaskSubscriptions --------------------------
(***************************************************************************)
(* Updates and cancel signals of the task store (pkg/harness/taskstore.go: *)
(* TransitionTask, Subscribe, Unsubscribe, BroadcastTaskUpdate,            *)
(* RegisterCancel, CancelTask).                                            *)
(*                                                                         *)
(* Every operation runs under ts.mu and is one step, except                *)
(* BroadcastTaskUpdate, which holds it for reading only: two of them may   *)
(* send to the same subscribers at once, and keep all writers out.  The     *)
(* harness itself has no subscriber and registers no cancel channel yet;   *)
(* this is what the store owes whoever will.                               *)
(***************************************************************************)
EXTENDS StateMachine

CONSTANTS
    TaskId,
    Subscriber,  \* channels made by Subscribe, each made once
    Waiter,      \* channels made by RegisterCancel, each made once
    Caller,      \* goroutines inside BroadcastTaskUpdate
    None,
    Cap,         \* capacity of a subscriber's channel (16 in the code)
    MaxCalls     \* bound on the calls that change a task, broadcast or register a cancel

ASSUME NoneIsNothing == None \notin TaskId \cup Waiter
ASSUME CapPositive == Cap \in Nat \ {0} /\ MaxCalls \in Nat

VARIABLES
    tasks,       \* ts.tasks
    subs,        \* ts.subs: the channels still subscribed to a task
    topic,       \* the task a channel was made for, None before
    since,       \* how many updates the task had sent before the channel was made
    stream,      \* every update put into a channel, oldest first
    taken,       \* how many of them its reader has taken
    offered,     \* how many were offered, those dropped included
    closed,      \* the channel is closed
    log,         \* per task: the updates TransitionTask has sent
    cancelChans, \* ts.cancelChans
    waitsFor,    \* the task a cancel channel was made for, None before
    signalled,   \* cancel channels that are closed
    sending,     \* BroadcastTaskUpdate in progress: the update, whom it still goes to
    calls        \* calls so far

subVars    == <<subs, topic, since, stream, taken, offered, closed>>
cancelVars == <<cancelChans, waitsFor, signalled>>
vars       == <<tasks, subVars, log, cancelVars, sending, calls>>

Absent == [state |-> "absent", history |-> <<>>]
Exists(t) == tasks[t].state # "absent"

\* A status update of a task: the number-th that TransitionTask sent for it.
Update == [task : TaskId, state : WireState, number : Nat \ {0}]

\* What a channel carries: an update, straight from TransitionTask or again
\* from BroadcastTaskUpdate.
Delivery == [update : Update, again : BOOLEAN]

Init ==
    /\ tasks = [t \in TaskId |-> Absent]
    /\ subs = [t \in TaskId |-> {}]
    /\ topic = [x \in Subscriber |-> None]
    /\ since = [x \in Subscriber |-> 0]
    /\ stream = [x \in Subscriber |-> <<>>]
    /\ taken = [x \in Subscriber |-> 0]
    /\ offered = [x \in Subscriber |-> 0]
    /\ closed = [x \in Subscriber |-> FALSE]
    /\ log = [t \in TaskId |-> <<>>]
    /\ cancelChans = [t \in TaskId |-> None]
    /\ waitsFor = [w \in Waiter |-> None]
    /\ signalled = {}
    /\ sending = [k \in Caller |-> None]
    /\ calls = 0

Count == calls < MaxCalls /\ calls' = calls + 1

\* ts.mu can be had for writing.
NoReaders == \A k \in Caller : sending[k] = None

Queued(x) == Len(stream[x]) - taken[x]

\* Bug: the send has no default case and waits for room.
OfferWaiting(to, delivery) ==
    /\ \A x \in to : Queued(x) < Cap
    /\ stream' = [x \in Subscriber |-> IF x \in to THEN Append(stream[x], delivery) ELSE stream[x]]
    /\ offered' = [x \in Subscriber |-> IF x \in to THEN offered[x] + 1 ELSE offered[x]]

\* Bug: an unbuffered channel: what its reader has not asked for is dropped.
OfferUnbuffered(to, delivery) ==
    /\ stream' = stream
    /\ offered' = [x \in Subscriber |-> IF x \in to THEN offered[x] + 1 ELSE offered[x]]

\* Bug: one slot too many.
OfferOverfull(to, delivery) ==
    /\ stream' = [x \in Subscriber |-> IF x \in to /\ Queued(x) <= Cap
                                       THEN Append(stream[x], delivery)
                                       ELSE stream[x]]
    /\ offered' = [x \in Subscriber |-> IF x \in to THEN offered[x] + 1 ELSE offered[x]]

\* select { case ch <- update: default: } for each channel of to.
Offer(to, delivery) ==
    /\ stream' = [x \in Subscriber |-> IF x \in to /\ Queued(x) < Cap
                                       THEN Append(stream[x], delivery)
                                       ELSE stream[x]]
    /\ offered' = [x \in Subscriber |-> IF x \in to THEN offered[x] + 1 ELSE offered[x]]

-----------------------------------------------------------------------------
CreateTask(t, initial) ==
    /\ NoReaders /\ ~Exists(t)
    /\ tasks' = [tasks EXCEPT ![t] = NewStateMachine(initial)]
    /\ UNCHANGED <<subVars, log, cancelVars, sending, calls>>

\* Bug: the update is put together before the transition.
TransitionTaskOldStatus(t, new) ==
    /\ NoReaders /\ Exists(t) /\ Count
    /\ Accepts(tasks[t], new)
    /\ tasks' = [tasks EXCEPT ![t] = Transition(@, new)]
    /\ LET update == [task |-> t, state |-> tasks[t].state, number |-> Len(log[t]) + 1]
       IN  /\ log' = [log EXCEPT ![t] = Append(@, update)]
           /\ Offer(subs[t], [update |-> update, again |-> FALSE])
    /\ UNCHANGED <<subs, topic, since, taken, closed, cancelVars, sending>>

\* Bug: only the longest-standing subscriber is sent the update.
TransitionTaskToOne(t, new) ==
    /\ NoReaders /\ Exists(t) /\ Count
    /\ Accepts(tasks[t], new)
    /\ tasks' = [tasks EXCEPT ![t] = Transition(@, new)]
    /\ LET update == [task |-> t, state |-> new, number |-> Len(log[t]) + 1]
           first  == {x \in subs[t] : \A y \in subs[t] : since[x] <= since[y]}
       IN  /\ log' = [log EXCEPT ![t] = Append(@, update)]
           /\ Offer(first, [update |-> update, again |-> FALSE])
    /\ UNCHANGED <<subs, topic, since, taken, closed, cancelVars, sending>>

TransitionTask(t, new) ==
    /\ NoReaders /\ Exists(t) /\ Count
    /\ Accepts(tasks[t], new)
    /\ tasks' = [tasks EXCEPT ![t] = Transition(@, new)]
    /\ LET update == [task |-> t, state |-> new, number |-> Len(log[t]) + 1]
       IN  /\ log' = [log EXCEPT ![t] = Append(@, update)]
           /\ Offer(subs[t], [update |-> update, again |-> FALSE])
    /\ UNCHANGED <<subs, topic, since, taken, closed, cancelVars, sending>>

Subscribe(x, t) ==
    /\ NoReaders /\ topic[x] = None
    /\ topic' = [topic EXCEPT ![x] = t]
    /\ since' = [since EXCEPT ![x] = Len(log[t])]
    /\ subs' = [subs EXCEPT ![t] = @ \cup {x}]
    /\ UNCHANGED <<tasks, stream, taken, offered, closed, log, cancelVars, sending, calls>>

\* Bug: the read lock is taken where the write lock is needed.
UnsubscribeAmongReaders(x) ==
    /\ \E t \in TaskId :
           /\ x \in subs[t]
           /\ subs' = [subs EXCEPT ![t] = @ \ {x}]
    /\ closed' = [closed EXCEPT ![x] = TRUE]
    /\ UNCHANGED <<tasks, topic, since, stream, taken, offered, log, cancelVars, sending, calls>>

\* A channel that is not in the list is left alone: a second Unsubscribe does
\* not close it again.
Unsubscribe(x) ==
    /\ NoReaders
    /\ \E t \in TaskId :
           /\ x \in subs[t]
           /\ subs' = [subs EXCEPT ![t] = @ \ {x}]
    /\ closed' = [closed EXCEPT ![x] = TRUE]
    /\ UNCHANGED <<tasks, topic, since, stream, taken, offered, log, cancelVars,
                   sending, calls>>

Receive(x) ==
    /\ Queued(x) > 0
    /\ taken' = [taken EXCEPT ![x] = @ + 1]
    /\ UNCHANGED <<tasks, subs, topic, since, stream, offered, closed, log, cancelVars,
                   sending, calls>>

-----------------------------------------------------------------------------
(* BroadcastTaskUpdate: the caller shows once more an update of the task.   *)

BeginBroadcast(k, update) ==
    /\ sending[k] = None /\ Count
    /\ sending' = [sending EXCEPT ![k] = [update |-> update, todo |-> subs[update.task]]]
    /\ UNCHANGED <<tasks, subVars, log, cancelVars>>

BroadcastTo(k, x) ==
    /\ sending[k] # None /\ x \in sending[k].todo
    /\ Offer({x}, [update |-> sending[k].update, again |-> TRUE])
    /\ sending' = [sending EXCEPT ![k].todo = @ \ {x}]
    /\ UNCHANGED <<tasks, subs, topic, since, taken, closed, log, cancelVars, calls>>

\* The requester is sent it last, as SendToAgent would; RUnlock.
EndBroadcast(k) ==
    /\ sending[k] # None /\ sending[k].todo = {}
    /\ sending' = [sending EXCEPT ![k] = None]
    /\ UNCHANGED <<tasks, subVars, log, cancelVars, calls>>

-----------------------------------------------------------------------------
(* Cancel channels.                                                         *)

RegisterCancel(w, t) ==
    /\ NoReaders /\ waitsFor[w] = None /\ Count
    /\ waitsFor' = [waitsFor EXCEPT ![w] = t]
    /\ cancelChans' = [cancelChans EXCEPT ![t] = w]
    /\ UNCHANGED <<tasks, subVars, log, signalled, sending>>

\* Bug: the closed channel stays registered.
CancelTaskKeepingChannel(t) ==
    /\ NoReaders /\ Exists(t) /\ Count
    /\ ~IsTerminal(tasks[t]) /\ Accepts(tasks[t], Canceling)
    /\ tasks' = [tasks EXCEPT ![t] = Transition(@, Canceling)]
    /\ signalled' = signalled \cup ({cancelChans[t]} \ {None})
    /\ UNCHANGED <<subVars, log, cancelChans, waitsFor, sending>>

\* The transition is the machine's, not TransitionTask: no update is sent.
CancelTask(t) ==
    /\ NoReaders /\ Exists(t) /\ Count
    /\ ~IsTerminal(tasks[t]) /\ Accepts(tasks[t], Canceling)
    /\ tasks' = [tasks EXCEPT ![t] = Transition(@, Canceling)]
    /\ signalled' = signalled \cup ({cancelChans[t]} \ {None})
    /\ cancelChans' = [cancelChans EXCEPT ![t] = None]
    /\ UNCHANGED <<subVars, log, waitsFor, sending>>

-----------------------------------------------------------------------------
Next ==
    \/ \E t \in TaskId : \/ \E s \in WireState \cup {EmptyState} : CreateTask(t, s)
                         \/ \E s \in WireState : TransitionTask(t, s)
                         \/ CancelTask(t)
                         \/ \E x \in Subscriber : Subscribe(x, t)
                         \/ \E w \in Waiter : RegisterCancel(w, t)
                         \/ \E k \in Caller, i \in DOMAIN log[t] : BeginBroadcast(k, log[t][i])
    \/ \E x \in Subscriber : Unsubscribe(x) \/ Receive(x)
    \/ \E k \in Caller : EndBroadcast(k) \/ \E x \in Subscriber : BroadcastTo(k, x)

Spec == Init /\ [][Next]_vars

\* A caller inside BroadcastTaskUpdate waits for nobody.
FairSpec ==
    Spec /\ \A k \in Caller : WF_vars(EndBroadcast(k) \/ \E x \in Subscriber : BroadcastTo(k, x))

-----------------------------------------------------------------------------
TypeOK ==
    /\ tasks \in [TaskId -> Machine \cup {Absent}]
    /\ subs \in [TaskId -> SUBSET Subscriber]
    /\ topic \in [Subscriber -> TaskId \cup {None}]
    /\ since \in [Subscriber -> Nat] /\ taken \in [Subscriber -> Nat]
    /\ stream \in [Subscriber -> Seq(Delivery)]
    /\ \A x \in Subscriber : Queued(x) \in 0..Cap
    /\ offered \in [Subscriber -> Nat]
    /\ closed \in [Subscriber -> BOOLEAN]
    /\ log \in [TaskId -> Seq(Update)]
    /\ cancelChans \in [TaskId -> Waiter \cup {None}]
    /\ waitsFor \in [Waiter -> TaskId \cup {None}]
    /\ signalled \subseteq Waiter
    /\ sending \in [Caller -> {None} \cup [update : Update, todo : SUBSET Subscriber]]
    /\ calls \in 0..MaxCalls

Direct(x)     == {i \in DOMAIN stream[x] : ~stream[x][i].again}
NothingLost(x) == offered[x] = Len(stream[x])

\* A subscriber is sent the updates of its task from then on, in the order of
\* the transitions and each once, however many callers repeat older ones in
\* between; and all of them as long as its channel never was full.
StreamInOrder ==
    \A x \in Subscriber :
        /\ \A i, j \in Direct(x) : i < j => stream[x][i].update.number < stream[x][j].update.number
        /\ \A i \in Direct(x) : stream[x][i].update.number > since[x]
        /\ \A t \in TaskId : x \in subs[t] /\ NothingLost(x) =>
               \A n \in since[x] + 1 .. Len(log[t]) :
                   \E i \in Direct(x) : stream[x][i].update = log[t][n]

\* What a subscriber learnt last from a transition is the task's state, unless
\* its channel was full or the task was canceled: CancelTask sends no update.
CurrentUnlessDropped ==
    \A t \in TaskId : \A x \in subs[t] :
        (NothingLost(x) /\ Direct(x) # {}) =>
            \/ tasks[t].state = Canceling
            \/ \E i \in Direct(x) : /\ \A j \in Direct(x) : j <= i
                                    /\ stream[x][i].update.state = tasks[t].state

\* A subscriber gets its first Cap updates even if it does not read at all.
FirstUpdatesArrive ==
    \A x \in Subscriber : offered[x] <= Cap => NothingLost(x)

\* A channel of Unsubscribe is closed only when nobody can send to it any more:
\* no list has it, and no caller is on its way to it.
ClosedIsForgotten ==
    \A x \in Subscriber : closed[x] =>
        /\ \A t \in TaskId : x \notin subs[t]
        /\ \A k \in Caller : sending[k] # None => x \notin sending[k].todo

\* A cancel channel is closed once at most, though a cancel may be accepted
\* again and again, and only for a task whose cancel was accepted.
SignalledOnce ==
    /\ \A t \in TaskId : cancelChans[t] \notin signalled
    /\ \A w \in signalled : tasks[waitsFor[w]].state \in {Canceling, Canceled, Failed}

\* A subscriber that does not read holds up neither the caller that sends to it
\* nor, through the read lock the caller holds, every writer of the store.
BroadcastsEnd == \A k \in Caller : (sending[k] # None) ~> (sending[k] = None)

-----------------------------------------------------------------------------
(* What makes these inductive.                                              *)

\* A channel is of one task, its topic, from Subscribe on; what came straight
\* from a transition is one of that task's updates, all sent since.
TopicInv ==
    \A x \in Subscriber :
        /\ \A t \in TaskId : x \in subs[t] => topic[x] = t
        /\ \A k \in Caller : sending[k] # None /\ x \in sending[k].todo => topic[x] # None
        /\ topic[x] = None => stream[x] = <<>> /\ offered[x] = 0 /\ ~closed[x]
        /\ topic[x] # None => since[x] <= Len(log[topic[x]])
        /\ \A i \in Direct(x) : /\ Exists(topic[x])
                                /\ stream[x][i].update.number <= Len(log[topic[x]])

NothingGained == \A x \in Subscriber : Len(stream[x]) <= offered[x]

\* A cancel channel is registered for the task it was made for.
CancelInv ==
    /\ \A t \in TaskId : cancelChans[t] # None => waitsFor[cancelChans[t]] = t
    /\ \A w \in signalled : waitsFor[w] # None

IInv ==
    /\ TypeOK /\ TopicInv /\ NothingGained /\ CancelInv
    /\ StreamInOrder /\ CurrentUnlessDropped /\ FirstUpdatesArrive
    /\ ClosedIsForgotten /\ SignalledOnce

-----------------------------------------------------------------------------
Lifecycle == INSTANCE TaskLifecycle WITH phase <- [t \in TaskId |-> tasks[t].state]

\* With cancels and transitions as the store performs them, each task obeys
\* the lifecycle.
ImplementsLifecycle == Lifecycle!Spec
=============================================================================
