------------------------ MODULE EmailPipeline_proofs ------------------------
(* Proofs about EmailPipeline, for any number of e-mails, slots, retries   *)
(* and restarts and whatever may fail: its types, the bound on duplicates, *)
(* what a finished or archived task has done and what its log says then,   *)
(* and that the pipeline implements Outbox.                                *)
EXTENDS EmailPipeline, TLAPS

----------------------------------------------------------------------------
(* The inductive invariant, by e-mail.                                     *)

\* A message travels only once its log and then its task were written.
InOrder(e) ==
  /\ request[e] \in {"idle", "create"} => log[e] = "none"
  /\ request[e] \in {"idle", "create", "enqueue"} => task[e].state = "none"
  /\ attempt[e] # "none" => task[e].state = "active"
  /\ request[e] = "enqueue" \/ task[e].state # "none" \/ late[e] > 0 => log[e] # "none"

\* An attempt reports success only after the message was taken.
Truthful(e) ==
  /\ attempt[e] \in {"sent", "tellSent"} => taken[e] > 0
  /\ attempt[e] = "done" \/ task[e].state = "done" => taken[e] > 0 \/ log[e] = "deleted"

\* The task has not handed the message over since it was last delivered.
Fresh(e) == task[e].state \in {"none", "pending"} \/ attempt[e] \in {"fetch", "process", "send"}

Bounded(e) ==
  taken[e] + late[e] <= task[e].retried + restarts + IF Fresh(e) THEN 0 ELSE 1

Sound(e) == InOrder(e) /\ Truthful(e) /\ Bounded(e)
Inductive == TypeOK /\ \A e \in Emails : Sound(e)

----------------------------------------------------------------------------
LEMMA TypeInit == Init => TypeOK
BY PipelineAssumption, RetryAssumption DEF Init, TypeOK, Status, TaskState, NoTask

LEMMA WrittenTyped ==
  \A row, status \in Status : Written(row, status) \in Status
BY DEF Written

LEMMA TasksTyped ==
  ASSUME NEW t \in TaskState
  PROVE  /\ Again(t) \in TaskState
         /\ \A state \in {"pending", "active", "done"} :
              In(t, state) \in TaskState /\ In(t, state).state = state
BY PipelineAssumption, RetryAssumption DEF Again, In, TaskState

Pcs == {"none", "fetch", "process", "send", "sent", "tellSent", "done",
        "fail", "tellFailed", "error"}

LEMMA TypeNext == TypeOK /\ [Next]_vars => TypeOK'
<1> SUFFICES ASSUME TypeOK, [Next]_vars PROVE TypeOK'
  OBVIOUS
<1>1. ASSUME NEW e \in Emails, Submit(e) \/ CreateLog(e) \/ RequestDies(e) PROVE TypeOK'
  BY <1>1 DEF Submit, CreateLog, RequestDies, TypeOK, Status
<1>2. ASSUME NEW e \in Emails, Enqueue(e) PROVE TypeOK'
  BY <1>2, TasksTyped DEF Enqueue, TypeOK
<1>3. ASSUME NEW e \in Emails, Refuse(e) PROVE TypeOK'
  BY <1>3, WrittenTyped DEF Refuse, MayFail, Write, TypeOK, Status
<1>4. ASSUME NEW e \in Emails, Take(e) PROVE TypeOK'
  BY <1>4, TasksTyped DEF Take, Goto, TypeOK
<1>5. ASSUME NEW e \in Emails, Fetch(e) PROVE TypeOK'
  BY <1>5 DEF Fetch, MayFail, Goto, TypeOK
<1>6. ASSUME NEW e \in Emails, Process(e) PROVE TypeOK'
  BY <1>6, WrittenTyped DEF Process, MayFail, Write, Goto, TypeOK, Status
<1>7. ASSUME NEW e \in Emails, Send(e) PROVE TypeOK'
  BY <1>7 DEF Send, MayFail, Goto, TypeOK
<1>8. ASSUME NEW e \in Emails, MarkSent(e) \/ MarkFailed(e) PROVE TypeOK'
  BY <1>8, WrittenTyped DEF MarkSent, MarkFailed, MayFail, Write, Goto, TypeOK, Status
<1>9. ASSUME NEW e \in Emails, TellSent(e) \/ TellFailed(e) PROVE TypeOK'
  BY <1>9 DEF TellSent, TellFailed, TellEvent, Goto, TypeOK
<1>10. ASSUME NEW e \in Emails, Ack(e) \/ Nack(e) PROVE TypeOK'
  BY <1>10, TasksTyped DEF Ack, Nack, Goto, TypeOK
<1>11. ASSUME NEW e \in Emails, TimesOut(e) PROVE TypeOK'
  BY <1>11, TasksTyped DEF TimesOut, Goto, TypeOK
<1>12. ASSUME NEW e \in Emails, LateSend(e) PROVE TypeOK'
  BY <1>12 DEF LateSend, TypeOK
<1>13. ASSUME NEW e \in Emails, Recover(e) PROVE TypeOK'
  BY <1>13, TasksTyped DEF Recover, TypeOK
<1>14. ASSUME NEW e \in Emails, Cleanup(e) PROVE TypeOK'
  BY <1>14, WrittenTyped DEF Cleanup, TypeOK, Status
<1>15. CASE WorkerDies
  BY <1>15 DEF WorkerDies, Halted, TypeOK
<1>16. CASE WorkerStops
  BY <1>16, TasksTyped, PipelineAssumption, RetryAssumption DEF WorkerStops, Halted, TypeOK
<1>17. CASE UNCHANGED vars
  BY <1>17 DEF vars, TypeOK
<1> QED
  BY <1>1, <1>2, <1>3, <1>4, <1>5, <1>6, <1>7, <1>8, <1>9, <1>10, <1>11, <1>12, <1>13,
     <1>14, <1>15, <1>16, <1>17
  DEF Next, RequestStep, HandlerStep

\* Every reachable state of every instance is well typed.
THEOREM PipelineTypes == Spec => []TypeOK
BY TypeInit, TypeNext, PTL DEF Spec

----------------------------------------------------------------------------
(* The invariant.                                                          *)

LEMMA SoundInit == Init => \A e \in Emails : Sound(e)
BY DEF Init, NoTask, Sound, InOrder, Truthful, Bounded, Fresh

\* A step that concerns no value of e keeps it sound.
Same(e) ==
  /\ request'[e] = request[e] /\ log'[e] = log[e] /\ task'[e] = task[e]
  /\ attempt'[e] = attempt[e] /\ late'[e] = late[e] /\ taken'[e] = taken[e]
  /\ restarts' = restarts

LEMMA SameSound ==
  ASSUME NEW e \in Emails, Sound(e), Same(e) PROVE Sound(e)'
BY DEF Same, Sound, InOrder, Truthful, Bounded, Fresh

\* A step that only starts or advances the request of e, or its log.
LEMMA RequestSound ==
  ASSUME TypeOK, NEW e \in Emails, Sound(e),
         Submit(e) \/ RequestStep(e) \/ RequestDies(e) \/ Cleanup(e)
  PROVE  Sound(e)'
<1> USE DEF TypeOK, Sound, InOrder, Truthful, Bounded, Fresh
<1>1. CASE Submit(e) \/ RequestDies(e)
  BY <1>1 DEF Submit, RequestDies
<1>2. CASE CreateLog(e)
  BY <1>2 DEF CreateLog
<1>3. CASE Enqueue(e)
  BY <1>3 DEF Enqueue, In, TaskState
<1>4. CASE Refuse(e)
  BY <1>4 DEF Refuse, MayFail, Write, Written
<1>5. CASE Cleanup(e)
  BY <1>5 DEF Cleanup, Written
<1> QED BY <1>1, <1>2, <1>3, <1>4, <1>5 DEF RequestStep

\* A redelivered task has used up an attempt, or is given up.
LEMMA AgainCounts ==
  ASSUME NEW t \in TaskState
  PROVE  \/ Again(t).state = "pending" /\ Again(t).retried = t.retried + 1
         \/ Again(t).state = "archived" /\ Again(t).retried = t.retried
BY DEF Again

LEMMA HandlerSound ==
  ASSUME TypeOK, NEW e \in Emails, Sound(e),
         Take(e) \/ HandlerStep(e) \/ TimesOut(e) \/ LateSend(e) \/ Recover(e)
  PROVE  Sound(e)'
<1> USE DEF TypeOK, Sound, InOrder, Truthful, Bounded, Fresh
<1>0. task[e] \in TaskState /\ task[e].retried \in Nat
  BY PipelineAssumption, RetryAssumption DEF TaskState
<1>1. CASE Take(e)
  BY <1>0, <1>1 DEF Take, Goto, In
<1>2. CASE Fetch(e)
  BY <1>0, <1>2 DEF Fetch, MayFail, Goto
<1>3. CASE Process(e)
  BY <1>0, <1>3 DEF Process, MayFail, Write, Written, Goto
<1>4. CASE Send(e)
  BY <1>0, <1>4 DEF Send, MayFail, Goto
<1>5. CASE MarkSent(e) \/ MarkFailed(e)
  BY <1>0, <1>5 DEF MarkSent, MarkFailed, MayFail, Write, Written, Goto
<1>6. CASE TellSent(e) \/ TellFailed(e)
  BY <1>0, <1>6 DEF TellSent, TellFailed, Goto
<1>7. CASE Ack(e)
  BY <1>0, <1>7 DEF Ack, Goto, In
<1>8. CASE Nack(e)
  BY <1>0, <1>8, AgainCounts DEF Nack, Goto
<1>9. CASE TimesOut(e)
  BY <1>0, <1>9, AgainCounts DEF TimesOut, Goto
<1>10. CASE LateSend(e)
  BY <1>0, <1>10 DEF LateSend
<1>11. CASE Recover(e)
  BY <1>0, <1>11, AgainCounts DEF Recover
<1> QED
  BY <1>1, <1>2, <1>3, <1>4, <1>5, <1>6, <1>7, <1>8, <1>9, <1>10, <1>11 DEF HandlerStep

LEMMA HaltSound ==
  ASSUME TypeOK, NEW e \in Emails, Sound(e), WorkerDies \/ WorkerStops
  PROVE  Sound(e)'
<1> USE DEF TypeOK, Sound, InOrder, Truthful, Bounded, Fresh
<1>0. task[e] \in TaskState /\ task[e].retried \in Nat /\ restarts \in Nat
  BY PipelineAssumption, RetryAssumption DEF TaskState
<1>1. CASE WorkerDies
  BY <1>0, <1>1 DEF WorkerDies, Halted
<1>2. CASE WorkerStops
  <2>1. task'[e] = task[e] \/ task'[e] = In(task[e], "pending") BY <1>2 DEF WorkerStops
  <2>2. CASE attempt[e] = "none"
    BY <1>0, <1>2, <2>2 DEF WorkerStops, Halted, Running
  <2>3. CASE attempt[e] # "none"
    BY <1>0, <1>2, <2>3 DEF WorkerStops, Halted, Running, In
  <2> QED BY <2>2, <2>3
<1> QED BY <1>1, <1>2

\* A step concerns one e-mail, the worker as a whole, or nothing.
LEMMA Elsewhere ==
  ASSUME TypeOK, NEW e \in Emails, NEW f \in Emails, e # f,
         \/ Submit(e) \/ RequestStep(e) \/ RequestDies(e) \/ Take(e) \/ HandlerStep(e)
         \/ TimesOut(e) \/ LateSend(e) \/ Recover(e) \/ Cleanup(e)
  PROVE  Same(f)
<1> USE DEF TypeOK, Same
<1>1. CASE Submit(e) \/ RequestStep(e) \/ RequestDies(e) \/ Cleanup(e)
  BY <1>1 DEF Submit, RequestStep, CreateLog, Enqueue, Refuse, MayFail, Write,
              RequestDies, Cleanup
<1>2. CASE Take(e) \/ TimesOut(e) \/ LateSend(e) \/ Recover(e)
  BY <1>2 DEF Take, Goto, TimesOut, LateSend, Recover
<1>3. CASE Fetch(e) \/ Process(e) \/ Send(e)
  BY <1>3 DEF Fetch, Process, Send, MayFail, Write, Goto
<1>4. CASE MarkSent(e) \/ MarkFailed(e) \/ TellSent(e) \/ TellFailed(e)
  BY <1>4 DEF MarkSent, MarkFailed, TellSent, TellFailed, MayFail, Write, Goto
<1>5. CASE Ack(e) \/ Nack(e)
  BY <1>5 DEF Ack, Nack, Goto
<1> QED BY <1>1, <1>2, <1>3, <1>4, <1>5 DEF HandlerStep

LEMMA SoundNext == Inductive /\ [Next]_vars => Inductive'
<1> SUFFICES ASSUME Inductive, [Next]_vars PROVE Inductive'
  OBVIOUS
<1>0. TypeOK /\ TypeOK' BY TypeNext DEF Inductive
<1> SUFFICES ASSUME NEW f \in Emails PROVE Sound(f)'
  BY <1>0 DEF Inductive
<1>1. Sound(f) BY DEF Inductive
<1>2. ASSUME NEW e \in Emails,
             \/ Submit(e) \/ RequestStep(e) \/ RequestDies(e) \/ Take(e) \/ HandlerStep(e)
             \/ TimesOut(e) \/ LateSend(e) \/ Recover(e) \/ Cleanup(e)
      PROVE  Sound(f)'
  <2>1. CASE e = f BY <1>0, <1>1, <1>2, <2>1, RequestSound, HandlerSound
  <2>2. CASE e # f
    <3>1. Same(f) BY <1>0, <1>2, <2>2, Elsewhere
    <3> QED BY <1>1, <3>1, SameSound
  <2> QED BY <2>1, <2>2
<1>3. CASE WorkerDies \/ WorkerStops BY <1>0, <1>1, <1>3, HaltSound
<1>4. CASE UNCHANGED vars
  <2>1. Same(f) BY <1>4 DEF vars, Same
  <2> QED BY <1>1, <2>1, SameSound
<1> QED BY <1>2, <1>3, <1>4 DEF Next

LEMMA Invariance == Spec => []Inductive
<1>1. Init => Inductive BY TypeInit, SoundInit DEF Inductive
<1> QED BY <1>1, SoundNext, PTL DEF Spec

\* The message is handed over at most once for each time asynq delivered the
\* task, counting the attempts that still have it in hand after a timeout.
THEOREM NoExtraDuplicates == Spec => []TakenOncePerAttempt
<1>1. Inductive => TakenOncePerAttempt
  <2> SUFFICES ASSUME Inductive, NEW e \in Emails
               PROVE  taken[e] + late[e] <= 1 + task[e].retried + restarts
    BY DEF TakenOncePerAttempt
  <2>1. Bounded(e) /\ task[e].retried \in Nat
    BY PipelineAssumption, RetryAssumption DEF Inductive, Sound, TypeOK, TaskState
  <2> QED BY <2>1, PipelineAssumption, RetryAssumption DEF Bounded, Inductive, TypeOK
<1> QED BY <1>1, Invariance, PTL

\* asynq is told that a task is done only when its message was taken, or its
\* log had been cleaned up.
THEOREM DoneIsTaken == Spec => []DoneMeansTaken
<1>1. Inductive => DoneMeansTaken
  BY DEF Inductive, Sound, Truthful, DoneMeansTaken
<1> QED BY <1>1, Invariance, PTL

----------------------------------------------------------------------------
(* The log of an e-mail.  Its inductive invariant says which attempt may   *)
(* find it "sent", and what it says of an attempt that has reported.       *)

\* A sent e-mail that was delivered to the worker once is not sent again.
OnlyOnce(e) ==
  log[e] = "sent" => \/ task[e].retried > 0 \/ restarts > 0
                     \/ /\ task[e].state \notin {"none", "pending"}
                        /\ attempt[e] \in {"none", "tellSent", "done"}

FailureLogged(e) == attempt[e] \in {"tellFailed", "error"} => log[e] \in {"failed", "deleted"}

\* Nor does a request report a failure of the queue behind the worker's back.
SuccessLogged(e) ==
  /\ request[e] # "refuse"
  /\ attempt[e] \in {"tellSent", "done"} => log[e] \in {"sent", "deleted"}
  /\ task[e].state = "done" => log[e] \in {"sent", "deleted"}

Logged(e) ==
  /\ OnlyOnce(e)
  /\ "db" \notin Faults => FailureLogged(e)
  /\ {"db", "redis"} \cap Faults = {} => SuccessLogged(e)

LEMMA LoggedInit == Init => \A e \in Emails : Logged(e)
BY DEF Init, NoTask, Logged, OnlyOnce, FailureLogged, SuccessLogged

LEMMA SameLogged ==
  ASSUME NEW e \in Emails, Logged(e), Same(e) PROVE Logged(e)'
BY DEF Same, Logged, OnlyOnce, FailureLogged, SuccessLogged

LEMMA RequestLogged ==
  ASSUME TypeOK, NEW e \in Emails, Sound(e), Logged(e),
         Submit(e) \/ RequestStep(e) \/ RequestDies(e) \/ Cleanup(e)
  PROVE  Logged(e)'
<1> USE DEF TypeOK, Sound, InOrder, Logged, OnlyOnce, FailureLogged, SuccessLogged
<1>1. CASE Submit(e) \/ RequestDies(e)
  BY <1>1 DEF Submit, RequestDies
<1>2. CASE CreateLog(e)
  BY <1>2 DEF CreateLog
<1>3. CASE Enqueue(e)
  BY <1>3 DEF Enqueue, In, TaskState
<1>4. CASE Refuse(e)
  BY <1>4 DEF Refuse, MayFail, Write, Written
<1>5. CASE Cleanup(e)
  BY <1>5 DEF Cleanup, Written
<1> QED BY <1>1, <1>2, <1>3, <1>4, <1>5 DEF RequestStep

LEMMA HandlerLogged ==
  ASSUME TypeOK, NEW e \in Emails, Sound(e), Logged(e),
         Take(e) \/ HandlerStep(e) \/ TimesOut(e) \/ LateSend(e) \/ Recover(e)
  PROVE  Logged(e)'
<1> USE DEF TypeOK, Sound, InOrder, Logged, OnlyOnce, FailureLogged, SuccessLogged
<1>0. task[e] \in TaskState /\ task[e].retried \in Nat
  BY PipelineAssumption, RetryAssumption DEF TaskState
<1>1. CASE Take(e)
  BY <1>0, <1>1 DEF Take, Goto, In
<1>2. CASE Fetch(e)
  BY <1>0, <1>2 DEF Fetch, MayFail, Goto
<1>3. CASE Process(e)
  BY <1>0, <1>3 DEF Process, MayFail, Write, Written, Goto
<1>4. CASE Send(e)
  BY <1>0, <1>4 DEF Send, MayFail, Goto
<1>5. CASE MarkSent(e) \/ MarkFailed(e)
  BY <1>0, <1>5 DEF MarkSent, MarkFailed, MayFail, Write, Written, Goto
<1>6. CASE TellSent(e) \/ TellFailed(e)
  BY <1>0, <1>6 DEF TellSent, TellFailed, Goto
<1>7. CASE Ack(e)
  BY <1>0, <1>7 DEF Ack, Goto, In
<1>8. CASE Nack(e)
  BY <1>0, <1>8, AgainCounts DEF Nack, Goto
<1>9. CASE TimesOut(e)
  BY <1>0, <1>9, AgainCounts DEF TimesOut, Goto
<1>10. CASE LateSend(e)
  BY <1>0, <1>10 DEF LateSend
<1>11. CASE Recover(e)
  BY <1>0, <1>11, AgainCounts DEF Recover
<1> QED
  BY <1>1, <1>2, <1>3, <1>4, <1>5, <1>6, <1>7, <1>8, <1>9, <1>10, <1>11 DEF HandlerStep

LEMMA HaltLogged ==
  ASSUME TypeOK, NEW e \in Emails, Sound(e), Logged(e), WorkerDies \/ WorkerStops
  PROVE  Logged(e)'
<1> USE DEF TypeOK, Logged, OnlyOnce, FailureLogged, SuccessLogged
<1>1. CASE WorkerDies
  BY <1>1 DEF WorkerDies, Halted
<1>2. CASE WorkerStops
  <2>1. request'[e] = request[e] /\ log'[e] = log[e] /\ attempt'[e] = "none"
    BY <1>2 DEF WorkerStops, Halted
  <2>2. restarts' > 0 BY <1>2, PipelineAssumption DEF WorkerStops
  <2>3. task'[e] = task[e] \/ task'[e].state = "pending" BY <1>2 DEF WorkerStops, In
  <2> QED BY <2>1, <2>2, <2>3
<1> QED BY <1>1, <1>2

LEMMA LoggedNext ==
  ASSUME Inductive, \A e \in Emails : Logged(e), [Next]_vars
  PROVE  (\A e \in Emails : Logged(e))'
<1> SUFFICES ASSUME NEW f \in Emails PROVE Logged(f)'
  OBVIOUS
<1>1. TypeOK /\ Sound(f) /\ Logged(f) BY DEF Inductive
<1>2. ASSUME NEW e \in Emails,
             \/ Submit(e) \/ RequestStep(e) \/ RequestDies(e) \/ Take(e) \/ HandlerStep(e)
             \/ TimesOut(e) \/ LateSend(e) \/ Recover(e) \/ Cleanup(e)
      PROVE  Logged(f)'
  <2>1. CASE e = f BY <1>1, <1>2, <2>1, RequestLogged, HandlerLogged
  <2>2. CASE e # f
    <3>1. Same(f) BY <1>1, <1>2, <2>2, Elsewhere
    <3> QED BY <1>1, <3>1, SameLogged
  <2> QED BY <2>1, <2>2
<1>3. CASE WorkerDies \/ WorkerStops BY <1>1, <1>3, HaltLogged
<1>4. CASE UNCHANGED vars
  <2>1. Same(f) BY <1>4 DEF vars, Same
  <2> QED BY <1>1, <2>1, SameLogged
<1> QED BY <1>2, <1>3, <1>4 DEF Next

AllLogged == \A e \in Emails : Logged(e)

LEMMA LogInvariance == Spec => [](Inductive /\ AllLogged)
<1>1. Init => AllLogged BY LoggedInit DEF AllLogged
<1>2. Inductive /\ AllLogged /\ [Next]_vars => AllLogged' BY LoggedNext DEF AllLogged
<1> QED BY <1>1, <1>2, Invariance, PTL DEF Spec

\* While the database and Redis answer, a task that ended without an error
\* leaves its log as sent: whatever dies, times out or is delivered again, no
\* late attempt takes it back.
THEOREM DoneIsLogged ==
  ASSUME {"db", "redis"} \cap Faults = {}
  PROVE  Spec => []DoneMeansSent
<1>1. AllLogged => DoneMeansSent
  BY DEF AllLogged, Logged, SuccessLogged, DoneMeansSent
<1> QED BY <1>1, LogInvariance, PTL

\* A step that takes "sent" from a log is a later delivery's, or that of a
\* request whose Enqueue reported an error though the task was queued.
LEMMA UnsentStep ==
  ASSUME Inductive, AllLogged, [Next]_vars, NEW f \in Emails,
         log[f] = "sent", log'[f] \notin {"sent", "deleted"}
  PROVE  task[f].retried > 0 \/ restarts > 0 \/ request[f] = "refuse"
<1>1. TypeOK /\ Sound(f) /\ OnlyOnce(f) BY DEF Inductive, AllLogged, Logged
<1>2. ASSUME NEW e \in Emails,
             \/ Submit(e) \/ RequestStep(e) \/ RequestDies(e) \/ Take(e) \/ HandlerStep(e)
             \/ TimesOut(e) \/ LateSend(e) \/ Recover(e) \/ Cleanup(e)
      PROVE  task[f].retried > 0 \/ restarts > 0 \/ request[f] = "refuse"
  <2>1. e = f
    <3>1. ~Same(f) BY DEF Same
    <3> QED BY <1>1, <1>2, <3>1, Elsewhere
  <2>2. CASE RequestStep(f) \/ Cleanup(f)
    BY <1>1, <2>2 DEF RequestStep, CreateLog, Enqueue, Refuse, Cleanup, Written, TypeOK,
                      Sound, InOrder
  <2>3. CASE Process(f) \/ MarkSent(f) \/ MarkFailed(f)
    BY <1>1, <2>3 DEF Process, MarkSent, MarkFailed, MayFail, Write, Written, TypeOK, OnlyOnce
  <2>4. CASE Submit(f) \/ RequestDies(f) \/ Take(f) \/ TimesOut(f) \/ LateSend(f) \/ Recover(f)
    BY <2>4 DEF Submit, RequestDies, Take, TimesOut, LateSend, Recover
  <2>5. CASE \/ Fetch(f) \/ Send(f) \/ TellSent(f) \/ TellFailed(f) \/ Ack(f) \/ Nack(f)
    BY <2>5 DEF Fetch, Send, TellSent, TellFailed, Ack, Nack
  <2> QED BY <1>2, <2>1, <2>2, <2>3, <2>4, <2>5 DEF HandlerStep
<1>3. ~(WorkerDies \/ WorkerStops \/ UNCHANGED vars)
  BY DEF WorkerDies, WorkerStops, Halted, vars
<1> QED BY <1>2, <1>3 DEF Next

\* Whatever fails or dies, an e-mail the log calls sent is not taken back by
\* anything but another delivery of its task, or a request that was told its
\* task had not been queued.
THEOREM SentStays == Spec => SentOnlyRedone
<1>1. Inductive /\ AllLogged /\ [Next]_vars =>
        [\A e \in Emails : log[e] = "sent" /\ log'[e] \notin {"sent", "deleted"} =>
           task[e].retried > 0 \/ restarts > 0 \/ request[e] = "refuse"]_vars
  BY UnsentStep
<1> QED BY <1>1, LogInvariance, PTL DEF Spec, SentOnlyRedone

\* While the database answers, the handler whose error archives a task has
\* left the log as failed.
THEOREM GivenUpIsLogged ==
  ASSUME "db" \notin Faults
  PROVE  Spec => GivenUpIsFailed
<1>1. AllLogged /\ [Next]_vars =>
        [\A e \in Emails :
           attempt[e] = "error" /\ task[e].state = "active" /\ task'[e].state = "archived"
             => log[e] \in {"failed", "deleted"}]_vars
  BY DEF AllLogged, Logged, FailureLogged
<1> QED BY <1>1, LogInvariance, PTL DEF Spec, GivenUpIsFailed

----------------------------------------------------------------------------
(* Refinement: every step of the pipeline is a step of the outbox, or none *)
(* that it can see.                                                        *)

Reports == [e \in Emails |-> Report(e)]

LEMMA OutboxInit == Init => O!Init
BY DEF Init, NoTask, O!Init, Report, Left

Seen(status) == CASE status \in {"queued", "processing"} -> "pending"
                  [] status = "deleted" -> "gone"
                  [] OTHER -> status

\* What a changed log entry means to the outbox.
LEMMA LogMoves ==
  ASSUME TypeOK, NEW e \in Emails, NEW status \in Status \ {"none"}, Write(e, status)
  PROVE  \/ Reports' = Reports
         \/ /\ Report(e) \notin {"none", "gone"}
            /\ Reports' = [Reports EXCEPT ![e] = Seen(status)]
<1>1. \A f \in Emails : f # e => log'[f] = log[f] BY DEF Write, TypeOK
<1>2. log'[e] = Written(log[e], status) BY DEF Write, TypeOK
<1>3. CASE log[e] \in {"none", "deleted"}
  BY <1>1, <1>2, <1>3 DEF Written, Reports, Report
<1>4. CASE log[e] \notin {"none", "deleted"}
  BY <1>1, <1>2, <1>4 DEF Written, Reports, Report, Seen, TypeOK, Status
<1> QED BY <1>3, <1>4

\* A log entry the request or the worker writes, as the outbox sees it.
LEMMA WriteSays ==
  ASSUME TypeOK, NEW e \in Emails, NEW status \in Status \ {"none"}, Write(e, status),
         status = "sent" => taken[e] > 0, UNCHANGED <<taken, events>>
  PROVE  [O!Next]_(O!vars)
<1> DEFINE r == Seen(status)
<1>1. r \in {"pending", "sent", "failed", "gone"} /\ (r = "sent" => e \in Left)
  BY DEF Status, Left, Seen
<1>2. UNCHANGED <<Left, events>> BY DEF Left
<1>3. Reports[e] = Report(e) BY DEF Reports
<1>4. \/ Reports' = Reports
      \/ Reports[e] \notin {"none", "gone"} /\ Reports' = [Reports EXCEPT ![e] = r]
  BY <1>3, LogMoves
<1> HIDE DEF r
<1>5. CASE Reports' = Reports
  BY <1>2, <1>5 DEF O!vars, Reports
<1>6. CASE Reports[e] \notin {"none", "gone"} /\ Reports' = [Reports EXCEPT ![e] = r]
  <2>1. O!Say(e, r) BY <1>1, <1>2, <1>6 DEF O!Say, Reports
  <2> QED BY <1>1, <2>1 DEF O!Next
<1> QED BY <1>4, <1>5, <1>6

LEMMA TakeLeaves ==
  ASSUME TypeOK, NEW e \in Emails, log[e] # "none", UNCHANGED <<log, events>>,
         taken' = [taken EXCEPT ![e] = @ + 1] \/ UNCHANGED taken
  PROVE  [O!Next]_(O!vars)
<1>1. CASE UNCHANGED taken
  BY <1>1 DEF O!vars, Report, Left
<1>2. CASE taken' = [taken EXCEPT ![e] = @ + 1]
  <2>1. Left' = Left \cup {e} BY <1>2 DEF Left, TypeOK
  <2>2. Report(e) # "none" BY DEF Report, TypeOK, Status
  <2>3. O!Leave(e) BY <2>1, <2>2 DEF O!Leave, O!Submitted, Report
  <2> QED BY <2>3 DEF O!Next
<1> QED BY <1>1, <1>2

LEMMA EventTells ==
  ASSUME TypeOK, NEW e \in Emails, NEW v \in {"sent", "failed"}, TellEvent(e, v),
         log[e] # "none", v = "sent" => taken[e] > 0, UNCHANGED <<log, taken>>
  PROVE  [O!Next]_(O!vars)
<1>1. CASE UNCHANGED events
  BY <1>1 DEF O!vars, Report, Left
<1>2. CASE events' = [events EXCEPT ![e] = @ \cup {v}]
  <2>1. Report(e) # "none" BY DEF Report, TypeOK, Status
  <2>2. O!Tell(e, v) BY <1>2, <2>1 DEF O!Tell, O!Submitted, Report, Left
  <2> QED BY <2>2 DEF O!Next, O!Events
<1> QED BY <1>1, <1>2 DEF TellEvent

LEMMA OutboxStep == Inductive /\ [Next]_vars => [O!Next]_(O!vars)
<1> SUFFICES ASSUME Inductive, [Next]_vars PROVE [O!Next]_(O!vars)
  OBVIOUS
<1>0. TypeOK BY DEF Inductive
<1>1. ASSUME UNCHANGED <<log, taken, events>> PROVE [O!Next]_(O!vars)
  BY <1>1 DEF O!vars, Report, Left
\* A message in hand has a log.
<1>2. ASSUME NEW e \in Emails, attempt[e] # "none" \/ late[e] > 0 PROVE log[e] # "none"
  BY <1>2 DEF Inductive, Sound, InOrder
<1>3. ASSUME NEW e \in Emails, CreateLog(e) PROVE [O!Next]_(O!vars)
  <2>1. CASE UNCHANGED log BY <1>1, <1>3, <2>1 DEF CreateLog
  <2>2. CASE log' = [log EXCEPT ![e] = "queued"]
    <3>1. log[e] = "none" BY <1>3 DEF CreateLog, Inductive, Sound, InOrder
    <3>2. Reports' = [Reports EXCEPT ![e] = "pending"] /\ Reports[e] = "none"
      BY <1>0, <2>2, <3>1 DEF Reports, Report, TypeOK
    <3>3. UNCHANGED <<Left, events>> BY <1>3 DEF CreateLog, Left
    <3>4. O!Submit(e) BY <3>2, <3>3 DEF O!Submit, O!Submitted, Reports
    <3> QED BY <3>4 DEF O!Next
  <2> QED BY <1>3, <2>1, <2>2 DEF CreateLog
<1>4. ASSUME NEW e \in Emails, Refuse(e) \/ MarkFailed(e) PROVE [O!Next]_(O!vars)
  <2>1. UNCHANGED <<taken, events>> /\ (Write(e, "failed") \/ UNCHANGED log)
    BY <1>4 DEF Refuse, MarkFailed, MayFail
  <2> QED BY <1>0, <1>1, <2>1, WriteSays DEF Status
<1>5. ASSUME NEW e \in Emails, Process(e) PROVE [O!Next]_(O!vars)
  <2>1. UNCHANGED <<taken, events>> /\ (Write(e, "processing") \/ UNCHANGED log)
    BY <1>5 DEF Process, MayFail
  <2> QED BY <1>0, <1>1, <2>1, WriteSays DEF Status
<1>6. ASSUME NEW e \in Emails, MarkSent(e) PROVE [O!Next]_(O!vars)
  <2>1. UNCHANGED <<taken, events>> /\ (Write(e, "sent") \/ UNCHANGED log)
    BY <1>6 DEF MarkSent, MayFail
  <2>2. taken[e] > 0 BY <1>6 DEF MarkSent, Inductive, Sound, Truthful
  <2> QED BY <1>0, <1>1, <2>1, <2>2, WriteSays DEF Status
<1>7. ASSUME NEW e \in Emails, Cleanup(e) PROVE [O!Next]_(O!vars)
  <2>1. UNCHANGED <<taken, events>> /\ Write(e, "deleted") BY <1>7 DEF Cleanup, Write
  <2> QED BY <1>0, <2>1, WriteSays DEF Status
<1>8. ASSUME NEW e \in Emails, Send(e) \/ LateSend(e) PROVE [O!Next]_(O!vars)
  <2>1. log[e] # "none" BY <1>2, <1>8 DEF Send, LateSend
  <2> QED BY <1>0, <1>8, <2>1, TakeLeaves DEF Send, LateSend
<1>9. ASSUME NEW e \in Emails, TellSent(e) PROVE [O!Next]_(O!vars)
  <2>1. log[e] # "none" /\ taken[e] > 0
    BY <1>2, <1>9 DEF TellSent, Inductive, Sound, Truthful
  <2> QED BY <1>0, <1>9, <2>1, EventTells DEF TellSent
<1>10. ASSUME NEW e \in Emails, TellFailed(e) PROVE [O!Next]_(O!vars)
  <2>1. log[e] # "none" BY <1>2, <1>10 DEF TellFailed
  <2> QED BY <1>0, <1>10, <2>1, EventTells DEF TellFailed
<1>11. ASSUME NEW e \in Emails,
              \/ Submit(e) \/ Enqueue(e) \/ RequestDies(e) \/ Take(e) \/ Fetch(e)
              \/ Ack(e) \/ Nack(e) \/ TimesOut(e) \/ Recover(e)
       PROVE  UNCHANGED <<log, taken, events>>
  BY <1>11 DEF Submit, Enqueue, RequestDies, Take, Fetch, Ack, Nack, TimesOut, Recover
<1>12. ASSUME WorkerDies \/ WorkerStops \/ UNCHANGED vars
       PROVE  UNCHANGED <<log, taken, events>>
  BY <1>12 DEF WorkerDies, WorkerStops, Halted, vars
<1> QED
  BY <1>1, <1>3, <1>4, <1>5, <1>6, <1>7, <1>8, <1>9, <1>10, <1>11, <1>12
  DEF Next, RequestStep, HandlerStep

\* The pipeline does what the outbox promises: nothing leaves that was not
\* submitted, and neither the log nor an event calls a message sent that has
\* not left, whatever fails, dies, times out or is delivered again.
THEOREM PipelineImplementsOutbox == Spec => ImplementsOutbox
BY OutboxInit, OutboxStep, Invariance, PTL DEF Spec, O!Spec, ImplementsOutbox
=============================================================================
