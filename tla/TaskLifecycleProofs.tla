------------------------ MODULE TaskLifecycleProofs ------------------------
(* Theorems about the abstract lifecycle, for any set of tasks. *)
EXTENDS TaskLifecycle, TLAPS

USE DEF Submitted, Working, InputRequired, Completed, Failed, Canceling, Canceled,
        UnknownState

\* The table has a row for each state of the protocol and names no others;
\* the rows of the terminal states are empty, and canceling leads only to
\* canceled and failed.
LEMMA TransitionTable ==
    /\ DOMAIN DefaultTransitions = TaskState
    /\ \A s \in TaskState : DefaultTransitions[s] \subseteq TaskState
    /\ \A s \in TerminalState : DefaultTransitions[s] = {}
    /\ DefaultTransitions[Canceling] = {Canceled, Failed}
BY DEF DefaultTransitions, TaskState, TerminalState

\* Phases are states of the protocol, unknown strings, or "absent".
THEOREM LifecycleTypeOK == Spec => []TypeOK
<1>1. Init => TypeOK
  BY DEF Init, TypeOK
<1>2. TypeOK /\ [Next]_phase => TypeOK'
  BY TransitionTable DEF TypeOK, Next, Create, Advance, WireState
<1>. QED
  BY <1>1, <1>2, PTL DEF Spec

\* An ended task never changes again, for any set of tasks.
THEOREM LifecycleEndedStaysEnded == Spec => EndedStaysEnded
<1>1. TypeOK /\ [Next]_phase =>
          [\A t \in TaskId : phase[t] \in TerminalState => phase'[t] = phase[t]]_phase
  <2>. SUFFICES ASSUME TypeOK, Next, NEW t \in TaskId, phase[t] \in TerminalState
                PROVE  phase'[t] = phase[t]
    OBVIOUS
  <2>. PICK u \in TaskId, s \in WireState : Create(u, s) \/ Advance(u, s)
    BY DEF Next
  <2>1. u # t
    BY TransitionTable DEF Create, Advance, TerminalState, NotCreated
  <2>. QED
    BY <2>1 DEF Create, Advance, TypeOK
<1>. QED
  BY <1>1, LifecycleTypeOK, PTL DEF Spec, EndedStaysEnded

\* An accepted cancel is final, for any set of tasks: canceling leads to
\* canceled or failed and to nothing else.
THEOREM LifecycleCancelSticks == Spec => CancelSticks
<1>1. TypeOK /\ [Next]_phase =>
          [\A t \in TaskId : phase[t] \in {Canceling, Canceled, Failed} =>
                             phase'[t] \in {Canceling, Canceled, Failed}]_phase
  <2>. SUFFICES ASSUME TypeOK, Next, NEW t \in TaskId,
                       phase[t] \in {Canceling, Canceled, Failed}
                PROVE  phase'[t] \in {Canceling, Canceled, Failed}
    OBVIOUS
  <2>. PICK u \in TaskId, s \in WireState : Create(u, s) \/ Advance(u, s)
    BY DEF Next
  <2>1. CASE u # t
    BY <2>1 DEF Create, Advance, TypeOK
  <2>2. CASE u = t /\ Create(u, s)
    BY <2>2 DEF Create, NotCreated
  <2>3. CASE u = t /\ Advance(u, s)
    BY <2>3, TransitionTable DEF Advance, TypeOK, TerminalState
  <2>. QED
    BY <2>1, <2>2, <2>3
<1>. QED
  BY <1>1, LifecycleTypeOK, PTL DEF Spec, CancelSticks
=============================================================================
