---------------------------- MODULE StateMachine ----------------------------
(***************************************************************************)
(* The per-task state machine of pkg/a2a/statemachine.go, as operators on  *)
(* a machine value.  Every method of the Go type runs under sm.mu, so a    *)
(* method call is one step of whoever calls it.  A status is kept as its   *)
(* state: messages and timestamps decide nothing.                          *)
(***************************************************************************)
EXTENDS Naturals, Sequences

Submitted     == "submitted"
Working       == "working"
InputRequired == "input-required"
Completed     == "completed"
Failed        == "failed"
Canceling     == "canceling"
Canceled      == "canceled"

\* The states the protocol defines.
TaskState == {Submitted, Working, InputRequired, Completed, Failed,
              Canceling, Canceled}

TerminalState == {Completed, Failed, Canceled}

\* TaskState is a Go string: a peer may send one the table does not know.
\* All of those behave alike, so one value stands for them.
UnknownState == "unknown"
WireState    == TaskState \cup {UnknownState}

\* The zero value of the string (""), which the constructors replace.
EmptyState == "blank"

\* Bug: a canceling task may still report the result it was producing.
LeakyCancelTransitions ==
    [s \in TaskState |-> {n \in TaskState :
        \/ s = Submitted /\ n \in {Working, InputRequired, Canceling, Canceled}
        \/ s = Working /\ n \in {InputRequired, Completed, Failed, Canceling, Canceled}
        \/ s = InputRequired /\ n \in {Working, Canceling, Canceled}
        \/ s = Canceling /\ n \in {Canceled, Failed, Completed}}]

\* Bug: a failed task may be retried.
RetryTransitions ==
    [s \in TaskState |-> {n \in TaskState :
        \/ s = Submitted /\ n \in {Working, InputRequired, Canceling, Canceled}
        \/ s = Working /\ n \in {InputRequired, Completed, Failed, Canceling, Canceled}
        \/ s = InputRequired /\ n \in {Working, Canceling, Canceled}
        \/ s = Canceling /\ n \in {Canceled, Failed}
        \/ s = Failed /\ n = Working}]

\* The valid next states of each state; a terminal state has none.
DefaultTransitions ==
    [s \in TaskState |-> {n \in TaskState :
        \/ s = Submitted /\ n \in {Working, InputRequired, Canceling, Canceled}
        \/ s = Working /\ n \in {InputRequired, Completed, Failed, Canceling, Canceled}
        \/ s = InputRequired /\ n \in {Working, Canceling, Canceled}
        \/ s = Canceling /\ n \in {Canceled, Failed}}]

\* history holds the states left so far, oldest first.
Machine == [state : WireState, history : Seq(WireState)]

\* Bug: a missing status is stored as it came.
NewStateMachineAsIs(initial) == [state |-> initial, history |-> <<>>]

NewStateMachine(initial) ==
    [state   |-> IF initial = EmptyState THEN Submitted ELSE initial,
     history |-> <<>>]

CanTransition(sm, new) ==
    /\ sm.state \in DOMAIN DefaultTransitions
    /\ new \in DefaultTransitions[sm.state]

\* Bug: the table is not consulted.
AcceptAnything(sm, new) == TRUE

\* Transition returns no error: staying put is not an error.
Accepts(sm, new) == sm.state = new \/ CanTransition(sm, new)

\* The machine after a Transition that returned no error.
Transition(sm, new) ==
    IF sm.state = new
    THEN sm
    ELSE [state |-> new, history |-> Append(sm.history, sm.state)]

IsTerminal(sm) == sm.state \in TerminalState

\* Every state the task has been in, oldest first, the current one last.
Path(sm) == Append(sm.history, sm.state)
=============================================================================
