--------------------------- MODULE TaskLifecycle ---------------------------
(***************************************************************************)
(* What the harness promises of a task: it is created once, in a state the *)
(* creator names, and from then on it moves along DefaultTransitions and   *)
(* in no other way.  HarnessTasks, where the handlers of many goroutines   *)
(* interleave, and TaskSubscriptions, the store's own operations, are      *)
(* shown to implement this specification.                                  *)
(***************************************************************************)
EXTENDS StateMachine

CONSTANT TaskId

VARIABLE phase

NotCreated == "absent"

TypeOK == phase \in [TaskId -> WireState \cup {NotCreated}]

Init == phase = [t \in TaskId |-> NotCreated]

Create(t, initial) ==
    /\ phase[t] = NotCreated
    /\ phase' = [phase EXCEPT ![t] = initial]

Advance(t, new) ==
    /\ phase[t] \in DOMAIN DefaultTransitions
    /\ new \in DefaultTransitions[phase[t]]
    /\ phase' = [phase EXCEPT ![t] = new]

Next == \E t \in TaskId, s \in WireState : Create(t, s) \/ Advance(t, s)

Spec == Init /\ [][Next]_phase

-----------------------------------------------------------------------------
\* A task that has ended (completed, failed or canceled) never changes again,
\* whatever late updates, verdicts and cancels still arrive for it.
EndedStaysEnded ==
    [][\A t \in TaskId : phase[t] \in TerminalState => phase'[t] = phase[t]]_phase

\* Once a cancel has been accepted, the task can only end as canceled or
\* failed: no late completion, no return to work, no new approval request.
CancelSticks ==
    [][\A t \in TaskId : phase[t] \in {Canceling, Canceled, Failed} =>
                         phase'[t] \in {Canceling, Canceled, Failed}]_phase
=============================================================================
