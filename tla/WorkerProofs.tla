---------------------------- MODULE WorkerProofs ----------------------------
(***************************************************************************)
(* Proofs about Worker for any set of tasks and any number of messages.    *)
(* StageInv says where a task stands and what has been said about it then; *)
(* an action moves one task to its next stage and leaves the others alone. *)
(***************************************************************************)
EXTENDS Worker, FiniteSetTheorems, SequenceTheorems, TLAPS

USE DEF Submitted, Working, InputRequired, Completed, Failed, Canceling, Canceled

\* The states and the verdicts are different strings, and states of the table.
LEMMA States ==
    /\ {Working, InputRequired, Completed, Failed, Canceled} \subseteq TaskState
    /\ TerminalState = {Completed, Failed, Canceled}
    /\ Verdict = {"approved", "rejected"}
    /\ Ended = {"succeeded", "broke", "killed"}
BY DEF TaskState, TerminalState, Verdict, Ended

\* What Wait returns is an end; it is "canceled" only if the context was, and
\* "completed" only if the command ended well.
LEMMA Outcomes ==
    ASSUME NEW t \in TaskId, NEW o \in Outcome(t)
    PROVE  /\ o \in TerminalState
           /\ o = Canceled => execCtx[t] = "canceled"
           /\ o = Completed => process[t] = "succeeded"
<1>1. CASE process[t] = "succeeded" /\ execCtx[t] = "canceled"
  BY <1>1 DEF Outcome, TerminalState
<1>2. CASE process[t] = "succeeded" /\ execCtx[t] # "canceled"
  BY <1>2 DEF Outcome, TerminalState
<1>3. CASE process[t] # "succeeded" /\ execCtx[t] = "canceled"
  BY <1>3 DEF Outcome, TerminalState
<1>4. CASE process[t] # "succeeded" /\ execCtx[t] # "canceled"
  BY <1>4 DEF Outcome, TerminalState
<1>. QED
  BY <1>1, <1>2, <1>3, <1>4

\* Reading takes the first message out of the inbox and moves the others up.
LEMMA Reads ==
    ASSUME TypeOK, NEW t \in TaskId, NEW method, Read(method, t)
    PROVE  /\ busy = NoTask
           /\ messages' = messages
           /\ 1 \in DOMAIN inbox /\ inbox[1] = [method |-> method, task |-> t]
           /\ inbox' \in Seq(Message)
           /\ \A i \in DOMAIN inbox' : i + 1 \in DOMAIN inbox /\ inbox'[i] = inbox[i + 1]
           /\ \A i \in DOMAIN inbox : i # 1 => i - 1 \in DOMAIN inbox' /\ inbox'[i - 1] = inbox[i]
<1>1. inbox \in Seq(Message) /\ inbox # <<>>
  BY DEF TypeOK, Read
<1>2. inbox' = Tail(inbox) /\ Head(inbox) = [method |-> method, task |-> t]
  BY DEF Read
<1>. QED
  BY <1>1, <1>2 DEF Read

\* What a task has been reported, and what is reported next.
LEMMA Said ==
    ASSUME NEW a \in TaskState, NEW b \in TaskState, NEW c \in TaskState
    PROVE  /\ <<>> \o <<a>> = <<a>>
           /\ <<a>> \o <<b>> = <<a, b>>
           /\ <<a, b>> \o <<c>> = <<a, b, c>>
           /\ <<a>> \o <<b, c>> = <<a, b, c>>
<1>1. /\ <<a>> \in Seq(TaskState) /\ Len(<<a>>) = 1
      /\ <<b>> \in Seq(TaskState) /\ Len(<<b>>) = 1
      /\ <<c>> \in Seq(TaskState) /\ Len(<<c>>) = 1
      /\ <<a, b>> \in Seq(TaskState) /\ Len(<<a, b>>) = 2
      /\ <<b, c>> \in Seq(TaskState) /\ Len(<<b, c>>) = 2
      /\ <<a, b, c>> \in Seq(TaskState) /\ Len(<<a, b, c>>) = 3
  OBVIOUS
<1>2. <<>> \o <<a>> = <<a>>
  BY <1>1, ConcatEmptySeq
<1>3. <<a>> \o <<b>> = <<a, b>>
  <2>1. /\ <<a>> \o <<b>> \in Seq(TaskState) /\ Len(<<a>> \o <<b>>) = 2
        /\ \A i \in 1 .. 2 : (<<a>> \o <<b>>)[i] = <<a, b>>[i]
    BY <1>1
  <2>. QED
    BY <1>1, <2>1, SeqEqual
<1>4. <<a, b>> \o <<c>> = <<a, b, c>>
  <2>1. /\ <<a, b>> \o <<c>> \in Seq(TaskState) /\ Len(<<a, b>> \o <<c>>) = 3
        /\ \A i \in 1 .. 3 : (<<a, b>> \o <<c>>)[i] = <<a, b, c>>[i]
    BY <1>1
  <2>. QED
    BY <1>1, <2>1, SeqEqual
<1>5. <<a>> \o <<b, c>> = <<a, b, c>>
  <2>1. /\ <<a>> \o <<b, c>> \in Seq(TaskState) /\ Len(<<a>> \o <<b, c>>) = 3
        /\ \A i \in 1 .. 3 : (<<a>> \o <<b, c>>)[i] = <<a, b, c>>[i]
    BY <1>1
  <2>. QED
    BY <1>1, <2>1, SeqEqual
<1>. QED
  BY <1>2, <1>3, <1>4, <1>5

\* Reports and answers stay sequences of states and statuses.
LEMMA ReportType ==
    ASSUME TypeOK, NEW t \in TaskId, NEW states \in Seq(TaskState), Report(t, states)
    PROVE  /\ reports' \in [TaskId -> Seq(TaskState)]
           /\ reports'[t] = reports[t] \o states
           /\ \A u \in TaskId : u # t => reports'[u] = reports[u]
<1>1. reports[t] \o states \in Seq(TaskState)
  BY DEF TypeOK
<1>. QED
  BY <1>1 DEF Report, TypeOK

LEMMA ResponseType ==
    ASSUME TypeOK, NEW t \in TaskId, NEW status \in {"success", "error"}, Respond(t, status)
    PROVE  /\ responses' \in [TaskId -> Seq({"success", "error"})]
           /\ Len(responses'[t]) = Len(responses[t]) + (IF requester[t] THEN 1 ELSE 0)
           /\ \A u \in TaskId : u # t => responses'[u] = responses[u]
<1>1. /\ Append(responses[t], status) \in Seq({"success", "error"})
      /\ Len(Append(responses[t], status)) = Len(responses[t]) + 1
      /\ responses[t] \in Seq({"success", "error"}) /\ Len(responses[t]) \in Nat
  BY DEF TypeOK
<1>. QED
  BY <1>1 DEF Respond, TypeOK

-----------------------------------------------------------------------------
LEMMA InitInvariant == Init => TypeOK /\ StageInv /\ CancelInv /\ InboxInv
<1>. SUFFICES ASSUME Init PROVE TypeOK /\ StageInv /\ CancelInv /\ InboxInv
  OBVIOUS
<1>1. TypeOK
  <2>1. <<>> \in Seq(Message) /\ <<>> \in Seq(TaskState) /\ <<>> \in Seq({"success", "error"})
    OBVIOUS
  <2>2. inbox \in Seq(Message) /\ messages \in 0 .. MaxMessages
    BY <2>1, MaxMessagesNat DEF Init
  <2>3. reports \in [TaskId -> Seq(TaskState)]
    BY <2>1 DEF Init
  <2>4. responses \in [TaskId -> Seq({"success", "error"})]
    BY <2>1 DEF Init
  <2>. QED
    BY <2>2, <2>3, <2>4 DEF Init, TypeOK
<1>2. StageInv
  BY NoTaskIsNoTask DEF Init, StageInv, Untouched
<1>3. CancelInv /\ InboxInv
  BY DEF Init, CancelInv, InboxInv
<1>. QED
  BY <1>1, <1>2, <1>3

\* Types.
LEMMA TypeStep == TypeOK /\ [Next]_vars => TypeOK'
<1>. SUFFICES ASSUME TypeOK, [Next]_vars PROVE TypeOK'
  OBVIOUS
<1>1. ASSUME NEW m \in Message, HarnessSends(m) PROVE TypeOK'
  BY <1>1, MaxMessagesNat DEF HarnessSends, TypeOK
<1>2. ASSUME NEW t \in TaskId, ToolsCall(t) PROVE TypeOK'
  <2>1. inbox' \in Seq(Message) /\ messages' = messages
    BY <1>2, Reads DEF ToolsCall
  <2>2. reports' \in [TaskId -> Seq(TaskState)]
    <3>1. <<InputRequired>> \in Seq(TaskState)
      BY States
    <3>. QED
      BY <1>2, <3>1, ReportType DEF ToolsCall
  <2>. QED
    BY <1>2, <2>1, <2>2 DEF ToolsCall, TypeOK
<1>3. ASSUME NEW t \in TaskId, TasksCancel(t) PROVE TypeOK'
  <2>1. inbox' \in Seq(Message) /\ messages' = messages
    BY <1>3, Reads DEF TasksCancel
  <2>. QED
    BY <1>3, <2>1 DEF TasksCancel, TypeOK
<1>4. ASSUME NEW t \in TaskId, NEW v \in Verdict, UnknownTask(t, v) PROVE TypeOK'
  <2>1. inbox' \in Seq(Message) /\ messages' = messages
    BY <1>4, Reads DEF UnknownTask
  <2>. QED
    BY <1>4, <2>1 DEF UnknownTask, TypeOK
<1>5. ASSUME NEW t \in TaskId, Rejected(t) PROVE TypeOK'
  <2>1. inbox' \in Seq(Message) /\ messages' = messages
    BY <1>5, Reads DEF Rejected
  <2>2. reports' \in [TaskId -> Seq(TaskState)] /\ responses' \in [TaskId -> Seq({"success", "error"})]
    <3>1. <<Failed>> \in Seq(TaskState)
      BY States
    <3>. QED
      BY <1>5, <3>1, ReportType, ResponseType DEF Rejected
  <2>. QED
    BY <1>5, <2>1, <2>2 DEF Rejected, FirstVerdict, TypeOK, Verdict
<1>6. ASSUME NEW t \in TaskId, Approved(t) PROVE TypeOK'
  <2>1. inbox' \in Seq(Message) /\ messages' = messages
    BY <1>6, Reads DEF Approved
  <2>2. reports' \in [TaskId -> Seq(TaskState)]
    <3>1. <<Working>> \in Seq(TaskState)
      BY States
    <3>. QED
      BY <1>6, <3>1, ReportType DEF Approved
  <2>. QED
    BY <1>6, <2>1, <2>2 DEF Approved, FirstVerdict, TypeOK, Verdict
<1>7. ASSUME NEW t \in TaskId, StartFails(t) PROVE TypeOK'
  <2>1. inbox' \in Seq(Message) /\ messages' = messages
    BY <1>7, Reads DEF StartFails
  <2>2. reports' \in [TaskId -> Seq(TaskState)] /\ responses' \in [TaskId -> Seq({"success", "error"})]
    <3>1. <<Working, Failed>> \in Seq(TaskState)
      BY States
    <3>. QED
      BY <1>7, <3>1, ReportType, ResponseType DEF StartFails
  <2>. QED
    BY <1>7, <2>1, <2>2 DEF StartFails, FirstVerdict, TypeOK, Verdict
<1>8. ASSUME NEW t \in TaskId, WaitReturns(t) PROVE TypeOK'
  <2>1. PICK o \in Outcome(t) :
            Report(t, <<o>>) /\ Respond(t, IF o = Failed THEN "error" ELSE "success")
    BY <1>8 DEF WaitReturns
  <2>2. <<o>> \in Seq(TaskState)
    BY Outcomes, States
  <2>3. reports' \in [TaskId -> Seq(TaskState)] /\ responses' \in [TaskId -> Seq({"success", "error"})]
    BY <2>1, <2>2, ReportType, ResponseType
  <2>. QED
    BY <1>8, <2>3 DEF WaitReturns, TypeOK
<1>9. ASSUME NEW t \in TaskId, Command(t) PROVE TypeOK'
  <2>1. CASE CommandEnds(t)
    BY <2>1, States DEF CommandEnds, TypeOK
  <2>2. CASE Forks(t)
    BY <2>2 DEF Forks, TypeOK
  <2>3. CASE ChildrenEnd(t)
    BY <2>3 DEF ChildrenEnd, TypeOK
  <2>. QED
    BY <1>9, <2>1, <2>2, <2>3 DEF Command
<1>10. ASSUME NEW t \in TaskId, Watcher(t) PROVE TypeOK'
  BY <1>10, States DEF Watcher, WatcherKills, WatcherCancels, TypeOK
<1>11. CASE UNCHANGED vars
  BY <1>11 DEF vars, TypeOK
<1>. QED
  BY <1>1, <1>2, <1>3, <1>4, <1>5, <1>6, <1>7, <1>8, <1>9, <1>10, <1>11 DEF Next, Reader
-----------------------------------------------------------------------------
(* The stages.                                                              *)

\* The conjunct of StageInv about one task.
Stage(t) ==
    /\ cancelCh[t] = "none" => t \notin pending /\ reports[t] = <<>> /\ Untouched(t)
    /\ t \in pending /\ busy # t => reports[t] = <<InputRequired>> /\ Untouched(t)
    /\ busy = t =>
           /\ t \in pending /\ reports[t] = <<InputRequired, Working>>
           /\ verdict[t] = "approved" /\ process[t] # "none" /\ responses[t] = <<>>
    /\ t \notin pending /\ cancelCh[t] # "none" =>
           EndedRejected(t) \/ \E end \in TerminalState : EndedAs(t, end)

\* A step that leaves everything of a task alone leaves it at its stage.
LEMMA StageKept ==
    ASSUME NEW t \in TaskId, Stage(t),
           cancelCh'[t] = cancelCh[t], reports'[t] = reports[t], responses'[t] = responses[t],
           process'[t] = process[t], execCtx'[t] = execCtx[t], watcher'[t] = watcher[t],
           verdict'[t] = verdict[t], requester'[t] = requester[t], t \in pending' <=> t \in pending, busy' = t <=> busy = t
    PROVE  Stage(t)'
BY DEF Stage, Untouched, EndedRejected, EndedAs, Answered

LEMMA StageStep ==
    ASSUME TypeOK, StageInv, CancelInv, InboxInv, [Next]_vars
    PROVE  StageInv'
<1>. SUFFICES ASSUME NEW u \in TaskId
              PROVE  Stage(u)'
  BY DEF StageInv, Stage
<1>0. Stage(u) /\ u # NoTask
  BY NoTaskIsNoTask DEF StageInv, Stage
<1>1. ASSUME NEW t \in TaskId, ToolsCall(t) PROVE Stage(u)'
  <2>1. /\ pending' = pending \cup {t} /\ cancelCh' = [cancelCh EXCEPT ![t] = "open"]
        /\ \E named \in BOOLEAN : requester' = [requester EXCEPT ![t] = named]
        /\ Report(t, <<InputRequired>>)
        /\ UNCHANGED <<busy, process, execCtx, watcher, verdict, responses>>
    BY <1>1 DEF ToolsCall
  <2>2. <<InputRequired>> \in Seq(TaskState)
    BY States
  <2>3. /\ reports'[t] = reports[t] \o <<InputRequired>>
        /\ \A v \in TaskId : v # t => reports'[v] = reports[v]
    BY <2>1, <2>2, ReportType
  <2>4. CASE u # t
    BY <1>0, <2>1, <2>3, <2>4, StageKept DEF TypeOK
  <2>5. CASE u = t
    <3>1. busy = NoTask /\ 1 \in DOMAIN inbox /\ inbox[1] = [method |-> "call", task |-> t]
      BY <1>1, Reads DEF ToolsCall
    <3>2. cancelCh[t] = "none"
      BY <3>1 DEF InboxInv
    <3>3. reports'[t] = <<InputRequired>> /\ Untouched(t)
      BY <1>0, <2>3, <2>5, <3>2, Said, States DEF Stage
    <3>. QED
      BY <1>0, <2>1, <2>5, <3>1, <3>3 DEF Stage, Untouched, TypeOK
  <2>. QED
    BY <2>4, <2>5
<1>2. ASSUME NEW t \in TaskId, TasksCancel(t) PROVE Stage(u)'
  <2>1. /\ cancelCh' = [cancelCh EXCEPT ![t] = IF @ = "none" THEN @ ELSE "closed"]
        /\ UNCHANGED <<pending, requester, busy, process, execCtx, watcher, verdict, reports,
                       responses>>
    BY <1>2 DEF TasksCancel
  <2>2. (cancelCh'[u] = "none" <=> cancelCh[u] = "none")
        /\ (cancelCh[u] = "closed" => cancelCh'[u] = "closed")
    BY <2>1 DEF TypeOK
  <2>. QED
    BY <1>0, <2>1, <2>2 DEF Stage, Untouched, EndedRejected, EndedAs, Answered
<1>3. ASSUME NEW t \in TaskId, Rejected(t) PROVE Stage(u)'
  <2>1. /\ t \in pending /\ pending' = pending \ {t}
        /\ FirstVerdict(t, "rejected") /\ Report(t, <<Failed>>) /\ Respond(t, "error")
        /\ UNCHANGED <<requester, cancelCh, busy, process, execCtx, watcher>>
    BY <1>3 DEF Rejected
  <2>2. <<Failed>> \in Seq(TaskState)
    BY States
  <2>3. /\ reports'[t] = reports[t] \o <<Failed>>
        /\ Len(responses'[t]) = Len(responses[t]) + (IF requester[t] THEN 1 ELSE 0)
        /\ \A v \in TaskId : v # t => reports'[v] = reports[v] /\ responses'[v] = responses[v]
    BY <2>1, <2>2, ReportType, ResponseType
  <2>4. CASE u # t
    BY <1>0, <2>1, <2>3, <2>4, StageKept DEF FirstVerdict, TypeOK
  <2>5. CASE u = t
    <3>1. busy = NoTask
      BY <1>3, Reads DEF Rejected
    <3>2. reports[t] = <<InputRequired>> /\ Untouched(t) /\ cancelCh[t] # "none"
      BY <1>0, <2>1, <2>5, <3>1 DEF Stage
    <3>3. verdict'[t] = "rejected"
      BY <2>1, <3>2 DEF FirstVerdict, Untouched, TypeOK
    <3>4. reports'[t] = <<InputRequired, Failed>> /\ Answered(t)'
      <4>1. <<InputRequired>> \o <<Failed>> = <<InputRequired, Failed>>
        BY Said, States
      <4>2. Len(responses[t]) = 0
        BY <3>2 DEF Untouched
      <4>. QED
        BY <2>1, <2>3, <3>2, <4>1, <4>2 DEF Answered
    <3>5. EndedRejected(t)'
      BY <2>1, <3>2, <3>3, <3>4 DEF EndedRejected, Untouched
    <3>. QED
      BY <1>0, <2>1, <2>5, <3>1, <3>2, <3>5 DEF Stage
  <2>. QED
    BY <2>4, <2>5
<1>4. ASSUME NEW t \in TaskId, Approved(t) PROVE Stage(u)'
  <2>1. /\ t \in pending /\ busy' = t
        /\ FirstVerdict(t, "approved") /\ Report(t, <<Working>>)
        /\ execCtx' = [execCtx EXCEPT ![t] = "live"]
        /\ process' = [process EXCEPT ![t] = "running"]
        /\ watcher' = [watcher EXCEPT ![t] = "selecting"]
        /\ UNCHANGED <<pending, requester, cancelCh, responses>>
    BY <1>4 DEF Approved
  <2>2. <<Working>> \in Seq(TaskState)
    BY States
  <2>3. /\ reports'[t] = reports[t] \o <<Working>>
        /\ \A v \in TaskId : v # t => reports'[v] = reports[v]
    BY <2>1, <2>2, ReportType
  <2>4. busy = NoTask
    BY <1>4, Reads DEF Approved
  <2>5. CASE u # t
    BY <1>0, <2>1, <2>3, <2>4, <2>5, StageKept DEF FirstVerdict, TypeOK
  <2>6. CASE u = t
    <3>1. reports[t] = <<InputRequired>> /\ Untouched(t) /\ cancelCh[t] # "none"
      BY <1>0, <2>1, <2>4, <2>6 DEF Stage
    <3>2. verdict'[t] = "approved"
      BY <2>1, <3>1 DEF FirstVerdict, Untouched, TypeOK
    <3>3. reports'[t] = <<InputRequired, Working>>
      BY <2>3, <3>1, Said, States
    <3>. QED
      BY <2>1, <2>6, <3>1, <3>2, <3>3 DEF Stage, Untouched, TypeOK
  <2>. QED
    BY <2>5, <2>6
<1>5. ASSUME NEW t \in TaskId, StartFails(t) PROVE Stage(u)'
  <2>1. /\ t \in pending /\ pending' = pending \ {t}
        /\ FirstVerdict(t, "approved") /\ Report(t, <<Working, Failed>>) /\ Respond(t, "error")
        /\ execCtx' = [execCtx EXCEPT ![t] = "live"]
        /\ UNCHANGED <<requester, cancelCh, busy, process, watcher>>
    BY <1>5 DEF StartFails
  <2>2. <<Working, Failed>> \in Seq(TaskState)
    BY States
  <2>3. /\ reports'[t] = reports[t] \o <<Working, Failed>>
        /\ Len(responses'[t]) = Len(responses[t]) + (IF requester[t] THEN 1 ELSE 0)
        /\ \A v \in TaskId : v # t => reports'[v] = reports[v] /\ responses'[v] = responses[v]
    BY <2>1, <2>2, ReportType, ResponseType
  <2>4. CASE u # t
    BY <1>0, <2>1, <2>3, <2>4, StageKept DEF FirstVerdict, TypeOK
  <2>5. CASE u = t
    <3>1. busy = NoTask
      BY <1>5, Reads DEF StartFails
    <3>2. reports[t] = <<InputRequired>> /\ Untouched(t) /\ cancelCh[t] # "none"
      BY <1>0, <2>1, <2>5, <3>1 DEF Stage
    <3>3. verdict'[t] = "approved"
      BY <2>1, <3>2 DEF FirstVerdict, Untouched, TypeOK
    <3>4. reports'[t] = <<InputRequired, Working, Failed>> /\ Answered(t)'
      <4>1. <<InputRequired>> \o <<Working, Failed>> = <<InputRequired, Working, Failed>>
        BY Said, States
      <4>2. Len(responses[t]) = 0
        BY <3>2 DEF Untouched
      <4>. QED
        BY <2>1, <2>3, <3>2, <4>1, <4>2 DEF Answered
    <3>5. EndedAs(t, Failed)'
      BY <2>1, <3>3, <3>4 DEF EndedAs
    <3>. QED
      BY <1>0, <2>1, <2>5, <3>1, <3>2, <3>5, States DEF Stage
  <2>. QED
    BY <2>4, <2>5
<1>6. ASSUME NEW t \in TaskId, WaitReturns(t) PROVE Stage(u)'
  <2>1. PICK o \in Outcome(t) :
            Report(t, <<o>>) /\ Respond(t, IF o = Failed THEN "error" ELSE "success")
    BY <1>6 DEF WaitReturns
  <2>2. /\ busy = t /\ busy' = NoTask /\ pending' = pending \ {t}
        /\ UNCHANGED <<requester, cancelCh, process, execCtx, watcher, verdict>>
    BY <1>6 DEF WaitReturns
  <2>3. /\ <<o>> \in Seq(TaskState) /\ o \in TerminalState
        /\ o = Canceled => cancelCh[t] = "closed"
        /\ o = Completed => process[t] = "succeeded"
    BY Outcomes, States DEF CancelInv
  <2>4. /\ reports'[t] = reports[t] \o <<o>>
        /\ Len(responses'[t]) = Len(responses[t]) + (IF requester[t] THEN 1 ELSE 0)
        /\ \A v \in TaskId : v # t => reports'[v] = reports[v] /\ responses'[v] = responses[v]
    BY <2>1, <2>3, ReportType, ResponseType
  <2>5. CASE u # t
    BY <1>0, <2>2, <2>4, <2>5, StageKept
  <2>6. CASE u = t
    <3>1. /\ reports[t] = <<InputRequired, Working>> /\ verdict[t] = "approved"
          /\ responses[t] = <<>> /\ cancelCh[t] # "none"
      BY <1>0, <2>2, <2>6 DEF Stage
    <3>2. reports'[t] = <<InputRequired, Working, o>> /\ Answered(t)'
      <4>0. InputRequired \in TaskState /\ Working \in TaskState /\ o \in TaskState
        BY <2>3, States
      <4>1. <<InputRequired, Working>> \o <<o>> = <<InputRequired, Working, o>>
        BY <4>0, Said
      <4>2. Len(responses[t]) = 0
        BY <3>1
      <4>. QED
        BY <2>2, <2>4, <3>1, <4>1, <4>2 DEF Answered
    <3>3. EndedAs(t, o)'
      BY <2>2, <2>3, <3>1, <3>2 DEF EndedAs
    <3>. QED
      BY <1>0, <2>2, <2>3, <2>6, <3>1, <3>3 DEF Stage
  <2>. QED
    BY <2>5, <2>6
<1>7. ASSUME NEW t \in TaskId, CommandEnds(t) PROVE Stage(u)'
  <2>1. /\ process[t] = "running"
        /\ \E how \in {"succeeded", "broke"} : process' = [process EXCEPT ![t] = how]
        /\ UNCHANGED <<pending, requester, cancelCh, busy, execCtx, watcher, verdict, reports,
                       responses>>
    BY <1>7 DEF CommandEnds
  <2>2. CASE u # t
    BY <1>0, <2>1, <2>2, StageKept DEF TypeOK
  <2>3. CASE u = t
    BY <1>0, <2>1, <2>3 DEF Stage, Untouched, EndedRejected, EndedAs, Answered, TypeOK
  <2>. QED
    BY <2>2, <2>3
<1>8. ASSUME NEW t \in TaskId, WatcherKills(t) PROVE Stage(u)'
  <2>1. /\ watcher[t] = "selecting" /\ watcher' = [watcher EXCEPT ![t] = "killed"]
        /\ process' = [process EXCEPT ![t] = IF @ = "running" THEN "killed" ELSE @]
        /\ UNCHANGED <<pending, requester, cancelCh, busy, execCtx, verdict, reports, responses>>
    BY <1>8 DEF WatcherKills
  <2>2. CASE u # t
    BY <1>0, <2>1, <2>2, StageKept DEF TypeOK
  <2>3. CASE u = t
    BY <1>0, <2>1, <2>3 DEF Stage, Untouched, EndedRejected, EndedAs, Answered, TypeOK
  <2>. QED
    BY <2>2, <2>3
<1>9. ASSUME NEW t \in TaskId, WatcherCancels(t) PROVE Stage(u)'
  <2>1. /\ watcher[t] = "killed" /\ watcher' = [watcher EXCEPT ![t] = "done"]
        /\ execCtx' = [execCtx EXCEPT ![t] = "canceled"]
        /\ UNCHANGED <<pending, requester, cancelCh, busy, process, verdict, reports, responses>>
    BY <1>9 DEF WatcherCancels
  <2>2. CASE u # t
    BY <1>0, <2>1, <2>2, StageKept DEF TypeOK
  <2>3. CASE u = t
    BY <1>0, <2>1, <2>3 DEF Stage, Untouched, EndedRejected, EndedAs, Answered, TypeOK
  <2>. QED
    BY <2>2, <2>3
<1>10. CASE UNCHANGED <<pending, requester, cancelCh, busy, process, execCtx, watcher,
                        verdict, reports, responses>>
  BY <1>0, <1>10, StageKept
<1>. QED
  BY <1>1, <1>2, <1>3, <1>4, <1>5, <1>6, <1>7, <1>8, <1>9, <1>10
     DEF Next, Reader, Watcher, Command, Forks, ChildrenEnd, HarnessSends, UnknownTask, vars
-----------------------------------------------------------------------------
(* Cancels.                                                                 *)

LEMMA CancelStep ==
    ASSUME TypeOK, CancelInv, InboxInv, [Next]_vars
    PROVE  CancelInv'
<1>. DEFINE Moved(t) == process[t] = "killed" \/ execCtx[t] = "canceled"
                            \/ watcher[t] \in {"killed", "done"}
<1>. SUFFICES ASSUME NEW u \in TaskId, Moved(u)'
              PROVE  cancelCh'[u] = "closed"
  BY DEF CancelInv
<1>0. Moved(u) => cancelCh[u] = "closed"
  BY DEF CancelInv
<1>1. ASSUME NEW t \in TaskId, ToolsCall(t) PROVE cancelCh'[u] = "closed"
  <2>1. 1 \in DOMAIN inbox /\ inbox[1] = [method |-> "call", task |-> t]
    BY <1>1, Reads DEF ToolsCall
  <2>2. cancelCh[t] = "none"
    BY <2>1 DEF InboxInv
  <2>. QED
    BY <1>0, <1>1, <2>2 DEF ToolsCall, TypeOK
<1>2. ASSUME NEW t \in TaskId, TasksCancel(t) PROVE cancelCh'[u] = "closed"
  BY <1>0, <1>2 DEF TasksCancel, TypeOK
<1>3. ASSUME NEW t \in TaskId, Rejected(t) PROVE cancelCh'[u] = "closed"
  BY <1>0, <1>3 DEF Rejected
<1>4. ASSUME NEW t \in TaskId, Approved(t) PROVE cancelCh'[u] = "closed"
  BY <1>0, <1>4 DEF Approved, TypeOK
<1>5. ASSUME NEW t \in TaskId, StartFails(t) PROVE cancelCh'[u] = "closed"
  BY <1>0, <1>5 DEF StartFails, TypeOK
<1>6. ASSUME NEW t \in TaskId, WaitReturns(t) PROVE cancelCh'[u] = "closed"
  BY <1>0, <1>6 DEF WaitReturns
<1>7. ASSUME NEW t \in TaskId, CommandEnds(t) PROVE cancelCh'[u] = "closed"
  BY <1>0, <1>7 DEF CommandEnds, TypeOK
<1>8. ASSUME NEW t \in TaskId, WatcherKills(t) PROVE cancelCh'[u] = "closed"
  BY <1>0, <1>8 DEF WatcherKills, TypeOK
<1>9. ASSUME NEW t \in TaskId, WatcherCancels(t) PROVE cancelCh'[u] = "closed"
  BY <1>0, <1>9 DEF WatcherCancels, TypeOK, CancelInv
<1>10. CASE UNCHANGED <<cancelCh, process, execCtx, watcher>>
  BY <1>0, <1>10
<1>. QED
  BY <1>1, <1>2, <1>3, <1>4, <1>5, <1>6, <1>7, <1>8, <1>9, <1>10
     DEF Next, Reader, Watcher, Command, Forks, ChildrenEnd, HarnessSends, UnknownTask, vars
-----------------------------------------------------------------------------
(* The inbox.  A message arrives at its end or leaves at its front.         *)

\* A reader's step: the call read leaves its task called, and the messages
\* that remain had it in front of them only if it was theirs.
LEMMA InboxRead ==
    ASSUME TypeOK, InboxInv, NEW t \in TaskId, NEW method, Read(method, t),
           \A u \in TaskId : u # t => cancelCh'[u] = cancelCh[u],
           method = "call" => cancelCh'[t] # "none",
           method # "call" => (cancelCh'[t] = "none" <=> cancelCh[t] = "none")
    PROVE  InboxInv'
<1>. DEFINE call(u) == [method |-> "call", task |-> u]
<1>0. /\ 1 \in DOMAIN inbox /\ inbox[1] = [method |-> method, task |-> t]
      /\ inbox \in Seq(Message) /\ inbox' \in Seq(Message)
      /\ \A i \in DOMAIN inbox' : i + 1 \in DOMAIN inbox /\ inbox'[i] = inbox[i + 1]
      /\ \A i \in DOMAIN inbox : i # 1 => i - 1 \in DOMAIN inbox' /\ inbox'[i - 1] = inbox[i]
  BY Reads DEF TypeOK
<1>. SUFFICES ASSUME NEW u \in TaskId, NEW i \in DOMAIN inbox', inbox'[i].task = u
              PROVE  IF inbox'[i].method = "call"
                     THEN /\ cancelCh'[u] = "none"
                          /\ \A j \in DOMAIN inbox' : inbox'[j] = inbox'[i] => j = i
                     ELSE \/ cancelCh'[u] # "none"
                          \/ \E j \in DOMAIN inbox' : j < i /\ inbox'[j] = call(u)
  BY DEF InboxInv
<1>1. i \in Nat /\ i \in 1 .. Len(inbox') /\ i + 1 \in DOMAIN inbox /\ inbox'[i] = inbox[i + 1]
  BY <1>0
<1>2. inbox[i + 1].task = u /\ inbox[i + 1] \in Message
  BY <1>0, <1>1
<1>3. CASE inbox'[i].method = "call"
  <2>1. inbox[i + 1].method = "call"
    BY <1>1, <1>3
  <2>2. cancelCh[u] = "none" /\ \A j \in DOMAIN inbox : inbox[j] = inbox[i + 1] => j = i + 1
    BY <1>1, <1>2, <2>1 DEF InboxInv
  <2>3. \A j \in DOMAIN inbox' : inbox'[j] = inbox'[i] => j = i
    <3>1. SUFFICES ASSUME NEW j \in DOMAIN inbox', inbox'[j] = inbox'[i] PROVE j = i
      OBVIOUS
    <3>2. j \in Nat /\ j + 1 \in DOMAIN inbox /\ inbox[j + 1] = inbox[i + 1]
      BY <1>0, <1>1, <3>1
    <3>3. j + 1 = i + 1
      BY <2>2, <3>2
    <3>. QED
      BY <1>1, <3>2, <3>3
  <2>4. cancelCh'[u] = "none"
    <3>1. CASE u # t
      BY <2>2, <3>1
    <3>2. CASE u = t /\ method # "call"
      BY <2>2, <3>2
    <3>3. CASE u = t /\ method = "call"
      <4>1. inbox[i + 1] = call(t)
        BY <1>2, <2>1, <3>3 DEF Message
      <4>2. 1 = i + 1
        BY <1>0, <2>2, <3>3, <4>1
      <4>. QED
        BY <1>1, <4>2
    <3>. QED
      BY <3>1, <3>2, <3>3
  <2>. QED
    BY <1>3, <2>3, <2>4
<1>4. CASE inbox'[i].method # "call"
  <2>1. \/ cancelCh[u] # "none"
        \/ \E j \in DOMAIN inbox : j < i + 1 /\ inbox[j] = call(u)
    BY <1>1, <1>2, <1>4 DEF InboxInv
  <2>2. CASE cancelCh[u] # "none"
    BY <1>4, <2>2
  <2>3. ASSUME NEW j \in DOMAIN inbox, j < i + 1, inbox[j] = call(u)
        PROVE  \/ cancelCh'[u] # "none"
               \/ \E k \in DOMAIN inbox' : k < i /\ inbox'[k] = call(u)
    <3>1. CASE j = 1
      <4>1. method = "call" /\ t = u
        BY <1>0, <2>3, <3>1
      <4>. QED
        BY <4>1
    <3>2. CASE j # 1
      <4>1. j - 1 \in DOMAIN inbox' /\ inbox'[j - 1] = call(u)
        BY <1>0, <2>3, <3>2
      <4>2. j \in Nat /\ j - 1 < i
        BY <1>0, <1>1, <2>3
      <4>. QED
        BY <4>1, <4>2
    <3>. QED
      BY <3>1, <3>2
  <2>. QED
    BY <1>4, <2>1, <2>2, <2>3
<1>. QED
  BY <1>3, <1>4

\* A call is sent only to a task that was not called, anything else after it.
LEMMA InboxSend ==
    ASSUME TypeOK, InboxInv, NEW m \in Message, HarnessSends(m)
    PROVE  InboxInv'
<1>. DEFINE call(u) == [method |-> "call", task |-> u]
            n == Len(inbox) + 1
<1>0. /\ inbox \in Seq(Message) /\ inbox' = Append(inbox, m) /\ cancelCh' = cancelCh
      /\ (m.method = "call") # Called(m.task) /\ Len(inbox) \in Nat /\ m.task \in TaskId
  BY DEF HarnessSends, TypeOK, Message
<1>1. /\ DOMAIN inbox = 1 .. Len(inbox) /\ DOMAIN inbox' = 1 .. n /\ inbox'[n] = m
      /\ \A i \in DOMAIN inbox : i \in DOMAIN inbox' /\ i < n /\ inbox'[i] = inbox[i]
      /\ \A i \in DOMAIN inbox' : i = n \/ i \in DOMAIN inbox
  BY <1>0
<1>2. \A u \in TaskId : Called(u) <=>
          cancelCh[u] # "none" \/ \E i \in DOMAIN inbox : inbox[i] = call(u)
  BY DEF Called, ToSet
<1>. SUFFICES ASSUME NEW u \in TaskId, NEW i \in DOMAIN inbox', inbox'[i].task = u
              PROVE  IF inbox'[i].method = "call"
                     THEN /\ cancelCh'[u] = "none"
                          /\ \A j \in DOMAIN inbox' : inbox'[j] = inbox'[i] => j = i
                     ELSE \/ cancelCh'[u] # "none"
                          \/ \E j \in DOMAIN inbox' : j < i /\ inbox'[j] = call(u)
  BY DEF InboxInv
<1>3. CASE i = n /\ m.method = "call"
  <2>1. m = call(u) /\ m.task = u
    BY <1>1, <1>3 DEF Message
  <2>2. cancelCh[u] = "none" /\ \A j \in DOMAIN inbox : inbox[j] # call(u)
    BY <1>0, <1>2, <1>3, <2>1
  <2>. QED
    BY <1>0, <1>1, <1>3, <2>1, <2>2
<1>4. CASE i = n /\ m.method # "call"
  <2>1. m.task = u
    BY <1>1, <1>4
  <2>2. cancelCh[u] # "none" \/ \E j \in DOMAIN inbox : inbox[j] = call(u)
    <3>1. Called(u)
      BY <1>0, <1>4, <2>1 DEF Called
    <3>. QED
      BY <1>2, <3>1
  <2>. QED
    BY <1>0, <1>1, <1>4, <2>1, <2>2
<1>5. CASE i \in DOMAIN inbox /\ inbox[i].method = "call"
  <2>1. inbox[i] = call(u) /\ inbox[i].task = u /\ inbox'[i] = inbox[i]
    <3>1. inbox[i] \in Message /\ inbox'[i] = inbox[i] /\ inbox[i].task = u
      BY <1>0, <1>1, <1>5
    <3>. QED
      BY <1>5, <3>1 DEF Message
  <2>2. cancelCh[u] = "none" /\ \A j \in DOMAIN inbox : inbox[j] = inbox[i] => j = i
    BY <1>5, <2>1 DEF InboxInv
  <2>3. m # call(u)
    BY <1>0, <1>2, <1>5, <2>1
  <2>. QED
    BY <1>0, <1>1, <1>5, <2>1, <2>2, <2>3
<1>6. CASE i \in DOMAIN inbox /\ inbox[i].method # "call"
  <2>1. inbox[i].task = u /\ inbox'[i] = inbox[i]
    BY <1>1, <1>6
  <2>2. cancelCh[u] # "none" \/ \E j \in DOMAIN inbox : j < i /\ inbox[j] = call(u)
    BY <1>6, <2>1 DEF InboxInv
  <2>. QED
    BY <1>0, <1>1, <1>6, <2>1, <2>2
<1>. QED
  BY <1>1, <1>3, <1>4, <1>5, <1>6

LEMMA InboxStep ==
    ASSUME TypeOK, InboxInv, [Next]_vars
    PROVE  InboxInv'
<1>1. ASSUME NEW m \in Message, HarnessSends(m) PROVE InboxInv'
  BY <1>1, InboxSend
<1>2. ASSUME NEW t \in TaskId, ToolsCall(t) PROVE InboxInv'
  <2>1. /\ Read("call", t) /\ cancelCh'[t] # "none"
        /\ \A u \in TaskId : u # t => cancelCh'[u] = cancelCh[u]
    BY <1>2 DEF ToolsCall, TypeOK
  <2>. QED
    BY <2>1, InboxRead
<1>3. ASSUME NEW t \in TaskId, TasksCancel(t) PROVE InboxInv'
  <2>1. /\ Read("cancel", t) /\ (cancelCh'[t] = "none" <=> cancelCh[t] = "none")
        /\ \A u \in TaskId : u # t => cancelCh'[u] = cancelCh[u]
    BY <1>3 DEF TasksCancel, TypeOK
  <2>. QED
    BY <2>1, InboxRead
<1>4. ASSUME NEW t \in TaskId, NEW v \in Verdict, Read(v, t), cancelCh' = cancelCh
      PROVE  InboxInv'
  BY <1>4, InboxRead, States
<1>5. CASE UNCHANGED <<inbox, cancelCh>>
  BY <1>5 DEF InboxInv
<1>6. "approved" \in Verdict /\ "rejected" \in Verdict
  BY States
<1>. QED
  BY <1>1, <1>2, <1>3, <1>4, <1>5, <1>6
     DEF Next, Reader, Watcher, UnknownTask, Rejected, Approved, StartFails, WaitReturns,
         Command, CommandEnds, Forks, ChildrenEnd, WatcherKills, WatcherCancels, vars
-----------------------------------------------------------------------------
(* What the stages say of a task's reports.                                 *)

LEMMA FirstVerdictFollows == TypeOK /\ StageInv => FirstVerdictDecides
<1>. SUFFICES ASSUME TypeOK, StageInv, NEW t \in TaskId
              PROVE  /\ reports[t] \in Conversation
                     /\ Working \in ToSet(reports[t]) => verdict[t] = "approved"
                     /\ process[t] # "none" => verdict[t] = "approved"
                     /\ Len(responses[t]) = IF requester[t]
                                            THEN Cardinality({i \in DOMAIN reports[t] :
                                                     reports[t][i] \in TerminalState})
                                            ELSE 0
  BY DEF FirstVerdictDecides
<1>. DEFINE ends == {i \in DOMAIN reports[t] : reports[t][i] \in TerminalState}
<1>0. t # NoTask /\ Stage(t)
  BY NoTaskIsNoTask DEF StageInv, Stage
<1>1. CASE reports[t] = <<>> /\ Untouched(t)
  <2>1. ends = {}
    BY <1>1
  <2>. QED
    BY <1>1, <2>1, FS_EmptySet DEF Untouched, Conversation, ToSet
<1>2. CASE reports[t] = <<InputRequired>> /\ Untouched(t)
  <2>1. ends = {}
    BY <1>2, States
  <2>2. Working \notin ToSet(reports[t])
    BY <1>2 DEF ToSet
  <2>. QED
    BY <1>2, <2>1, <2>2, FS_EmptySet DEF Untouched, Conversation
<1>3. CASE reports[t] = <<InputRequired, Working>> /\ verdict[t] = "approved"
           /\ responses[t] = <<>>
  <2>1. ends = {}
    BY <1>3, States
  <2>. QED
    BY <1>3, <2>1, FS_EmptySet DEF Conversation
<1>4. CASE EndedRejected(t)
  <2>1. ends = {2}
    BY <1>4, States DEF EndedRejected
  <2>2. Working \notin ToSet(reports[t])
    BY <1>4 DEF ToSet, EndedRejected
  <2>. QED
    BY <1>4, <2>1, <2>2, FS_Singleton DEF EndedRejected, Answered, Conversation
<1>5. ASSUME NEW end \in TerminalState, EndedAs(t, end)
      PROVE  /\ reports[t] \in Conversation
             /\ verdict[t] = "approved"
             /\ Len(responses[t]) = IF requester[t] THEN Cardinality(ends) ELSE 0
  <2>1. ends = {3}
    BY <1>5, States DEF EndedAs
  <2>. QED
    BY <1>5, <2>1, FS_Singleton DEF EndedAs, Answered, Conversation
<1>. QED
  BY <1>0, <1>1, <1>2, <1>3, <1>4, <1>5 DEF Stage

LEMMA OutcomeFollows == TypeOK /\ StageInv /\ CancelInv => OutcomeIsTrue
<1>. SUFFICES ASSUME TypeOK, StageInv, CancelInv, NEW t \in TaskId
              PROVE  /\ Canceled \in ToSet(reports[t]) => cancelCh[t] = "closed"
                     /\ Completed \in ToSet(reports[t]) => process[t] = "succeeded"
  BY DEF OutcomeIsTrue, CancelInv
<1>0. t # NoTask /\ Stage(t)
  BY NoTaskIsNoTask DEF StageInv, Stage
<1>1. ASSUME reports[t] = <<>> \/ reports[t] = <<InputRequired>>
             \/ reports[t] = <<InputRequired, Working>>
             \/ reports[t] = <<InputRequired, Failed>>
      PROVE  Canceled \notin ToSet(reports[t]) /\ Completed \notin ToSet(reports[t])
  BY <1>1 DEF ToSet
<1>2. ASSUME NEW end \in TerminalState, EndedAs(t, end)
      PROVE  /\ Canceled \in ToSet(reports[t]) => end = Canceled
             /\ Completed \in ToSet(reports[t]) => end = Completed
  BY <1>2 DEF ToSet, EndedAs
<1>. QED
  BY <1>0, <1>1, <1>2 DEF Stage, EndedRejected, EndedAs

-----------------------------------------------------------------------------
\* The invariant holds in every reachable state, for any set of tasks and any
\* number of calls, verdicts and cancels in any order the harness can send.
THEOREM WorkerInvariance == Spec => []IInv
<1>1. Init => IInv
  BY InitInvariant, FirstVerdictFollows, OutcomeFollows DEF IInv
<1>2. IInv /\ [Next]_vars => IInv'
  <2>. SUFFICES ASSUME IInv, [Next]_vars PROVE IInv'
    OBVIOUS
  <2>1. TypeOK' /\ StageInv' /\ CancelInv' /\ InboxInv'
    BY TypeStep, StageStep, CancelStep, InboxStep DEF IInv
  <2>2. FirstVerdictDecides' /\ OutcomeIsTrue'
    BY <2>1, FirstVerdictFollows, OutcomeFollows, PTL
  <2>. QED
    BY <2>1, <2>2 DEF IInv
<1>. QED
  BY <1>1, <1>2, PTL DEF Spec

\* The worker's variables keep their types.
THEOREM WorkerTypeCorrect == Spec => []TypeOK
<1>1. IInv => TypeOK
  BY DEF IInv
<1>. QED
  BY <1>1, WorkerInvariance, PTL

\* handleMessage: the first verdict decides and the worker's reports are one
\* conversation, answered with its end.
THEOREM FirstVerdictTheorem == Spec => []FirstVerdictDecides
<1>1. IInv => FirstVerdictDecides
  BY DEF IInv
<1>. QED
  BY <1>1, WorkerInvariance, PTL

\* The reported outcome is the command's, and only its own cancel changes it.
THEOREM OutcomeTheorem == Spec => []OutcomeIsTrue
<1>1. IInv => OutcomeIsTrue
  BY DEF IInv
<1>. QED
  BY <1>1, WorkerInvariance, PTL
=============================================================================
