--------------------------- MODULE EmailPipeline ---------------------------
(***************************************************************************)
(* An e-mail on its way from POST /emails/send (or the SMTP listener) over *)
(* the asynq queue to the SMTP server: the request that records and        *)
(* enqueues it, the worker's attempts to send it, and the ways a task      *)
(* comes back.  The e-mails are independent but for the worker's slots.    *)
(*                                                                         *)
(* The checks before the quota is consumed change nothing and are left     *)
(* out, and so is the message itself: an attempt hands it to all of its    *)
(* recipients or to none.                                                  *)
(***************************************************************************)
EXTENDS Naturals, FiniteSets, Asynq

CONSTANTS
  Emails,       \* e-mail logs, one per accepted request
  Slots,        \* Concurrency of the asynq server
  MaxRestarts,  \* bound: graceful restarts of the worker that interrupt a task
  Faults        \* what may go wrong

ASSUME PipelineAssumption ==
  /\ Slots \in Nat \ {0} /\ MaxRestarts \in Nat
  /\ Faults \subseteq {"db",       \* a statement fails
                       "redis",    \* a call to Redis fails, perhaps after its effect
                       "smtp",     \* the answer to DATA or QUIT is lost
                       "api",      \* the API server dies
                       "worker",   \* the worker dies
                       "timeout",  \* the SMTP exchange outlives the task's deadline
                       "cleanup"}  \* the log outlives its retention

VARIABLES
  request,   \* the API request of each e-mail
  log,       \* table email_logs
  task,      \* the email:send task of each e-mail, in Redis
  attempt,   \* the handler the worker runs for the task
  late,      \* handlers that outlived their deadline and are still sending
  taken,     \* how often the SMTP server took the message
  events,    \* the webhook events dispatched
  restarts

vars == <<request, log, task, attempt, late, taken, events, restarts>>

----------------------------------------------------------------------------
Status == {"none", "queued", "processing", "sent", "failed", "deleted"}

\* UpdateStatus: no look at the status it overwrites, no effect without a row.
Written(row, status) == IF row \in {"none", "deleted"} THEN row ELSE status

Write(e, status) == log' = [log EXCEPT ![e] = Written(@, status)]

\* A call that can be lost takes place, or does not.
MayFail(fault, call, nocall) == call \/ (fault \in Faults /\ nocall)

\* Mutant of Running: an attempt holds its slot until its SMTP exchange ends.
RunningOrLate == {e \in Emails : attempt[e] # "none" \/ late[e] > 0}

Running == {e \in Emails : attempt[e] # "none"}

----------------------------------------------------------------------------
(* SendEmail.                                                              *)

\* All checks passed and a unit of quota is consumed.
Submit(e) ==
  /\ request[e] = "idle"
  /\ request' = [request EXCEPT ![e] = "create"]
  /\ UNCHANGED <<log, task, attempt, late, taken, events, restarts>>

CreateLog(e) ==
  /\ request[e] = "create"
  /\ \/ /\ log' = [log EXCEPT ![e] = "queued"]
        /\ request' = [request EXCEPT ![e] = "enqueue"]
     \/ /\ "db" \in Faults
        /\ request' = [request EXCEPT ![e] = "error"]
        /\ UNCHANGED log
  /\ UNCHANGED <<task, attempt, late, taken, events, restarts>>

\* An error does not mean that the task is not in the queue.
Enqueue(e) ==
  /\ request[e] = "enqueue"
  /\ \/ /\ task' = [task EXCEPT ![e] = In(@, "pending")]
        /\ \E answer \in {"accepted"} \cup (IF "redis" \in Faults THEN {"refuse"} ELSE {}) :
             request' = [request EXCEPT ![e] = answer]
     \/ /\ "redis" \in Faults
        /\ request' = [request EXCEPT ![e] = "refuse"]
        /\ UNCHANGED task
  /\ UNCHANGED <<log, attempt, late, taken, events, restarts>>

Refuse(e) ==
  /\ request[e] = "refuse"
  /\ MayFail("db", Write(e, "failed"), UNCHANGED log)
  /\ request' = [request EXCEPT ![e] = "error"]
  /\ UNCHANGED <<task, attempt, late, taken, events, restarts>>

RequestDies(e) ==
  /\ "api" \in Faults
  /\ request[e] \in {"create", "enqueue", "refuse"}
  /\ request' = [request EXCEPT ![e] = "dead"]
  /\ UNCHANGED <<log, task, attempt, late, taken, events, restarts>>

----------------------------------------------------------------------------
(* The worker's ProcessTask.                                               *)

Goto(e, pc) == attempt' = [attempt EXCEPT ![e] = pc]

Take(e) ==
  /\ task[e].state = "pending"
  /\ Cardinality(Running) < Slots
  /\ task' = [task EXCEPT ![e] = In(@, "active")]
  /\ Goto(e, "fetch")
  /\ UNCHANGED <<request, log, late, taken, events, restarts>>

\* A log that is gone ends the task without an error.
Fetch(e) ==
  /\ attempt[e] = "fetch"
  /\ MayFail("db", Goto(e, IF log[e] = "deleted" THEN "done" ELSE "process"),
                   Goto(e, "error"))
  /\ UNCHANGED <<request, log, task, late, taken, events, restarts>>

\* Mutant of Process: the log says sent before the message is.
ProcessAsSent(e) ==
  /\ attempt[e] = "process"
  /\ Write(e, "sent")
  /\ Goto(e, "send")
  /\ UNCHANGED <<request, task, late, taken, events, restarts>>

\* The status is set, an error of which is only logged, and the domain is
\* loaded for signing, an error of which fails the attempt.
Process(e) ==
  /\ attempt[e] = "process"
  /\ MayFail("db", Write(e, "processing"), UNCHANGED log)
  /\ MayFail("db", Goto(e, "send"), Goto(e, "fail"))
  /\ UNCHANGED <<request, task, late, taken, events, restarts>>

\* sendMailCustom: an error is reported too when the server has taken the
\* message but its answer, or the one to QUIT, does not arrive.
Send(e) ==
  /\ attempt[e] = "send"
  /\ \/ /\ taken' = [taken EXCEPT ![e] = @ + 1]
        /\ MayFail("smtp", Goto(e, "sent"), Goto(e, "fail"))
     \/ UNCHANGED taken /\ Goto(e, "fail")
  /\ UNCHANGED <<request, log, task, late, events, restarts>>

MarkSent(e) ==
  /\ attempt[e] = "sent"
  /\ MayFail("db", Write(e, "sent"), UNCHANGED log)
  /\ Goto(e, "tellSent")
  /\ UNCHANGED <<request, task, late, taken, events, restarts>>

\* Mutant of MarkFailed: the log is left as it is.
MarkNothing(e) ==
  /\ attempt[e] = "fail"
  /\ Goto(e, "tellFailed")
  /\ UNCHANGED <<request, log, task, late, taken, events, restarts>>

MarkFailed(e) ==
  /\ attempt[e] = "fail"
  /\ MayFail("db", Write(e, "failed"), UNCHANGED log)
  /\ Goto(e, "tellFailed")
  /\ UNCHANGED <<request, task, late, taken, events, restarts>>

\* DispatchEvent; its errors are dropped.
TellEvent(e, event) ==
  \/ events' = [events EXCEPT ![e] = @ \cup {event}]
  \/ {"db", "redis"} \cap Faults # {} /\ UNCHANGED events

\* Mutants: an error of DispatchEvent fails a sent e-mail, and the error of
\* the SMTP server is not returned to asynq.
TellSentOrFail(e) ==
  /\ attempt[e] = "tellSent"
  /\ \/ events' = [events EXCEPT ![e] = @ \cup {"sent"}] /\ Goto(e, "done")
     \/ {"db", "redis"} \cap Faults # {} /\ UNCHANGED events /\ Goto(e, "fail")
  /\ UNCHANGED <<request, log, task, late, taken, restarts>>
TellFailedOnly(e) ==
  /\ attempt[e] = "tellFailed"
  /\ TellEvent(e, "failed")
  /\ Goto(e, "done")
  /\ UNCHANGED <<request, log, task, late, taken, restarts>>

TellSent(e) ==
  /\ attempt[e] = "tellSent"
  /\ TellEvent(e, "sent")
  /\ Goto(e, "done")
  /\ UNCHANGED <<request, log, task, late, taken, restarts>>

TellFailed(e) ==
  /\ attempt[e] = "tellFailed"
  /\ TellEvent(e, "failed")
  /\ Goto(e, "error")
  /\ UNCHANGED <<request, log, task, late, taken, restarts>>

\* The handler returned nil, or an error.
Ack(e) ==
  /\ attempt[e] = "done"
  /\ task' = [task EXCEPT ![e] = In(@, "done")]
  /\ Goto(e, "none")
  /\ UNCHANGED <<request, log, late, taken, events, restarts>>

Nack(e) ==
  /\ attempt[e] = "error"
  /\ task' = [task EXCEPT ![e] = Again(@)]
  /\ Goto(e, "none")
  /\ UNCHANGED <<request, log, late, taken, events, restarts>>

----------------------------------------------------------------------------
(* asynq and the worker process, as the code uses them.                    *)

\* The deadline cancels the handler's context, which fails its database
\* calls; the SMTP exchange does not look at it and goes on.
TimesOut(e) ==
  /\ "timeout" \in Faults
  /\ attempt[e] = "send"
  /\ task' = [task EXCEPT ![e] = Again(@)]
  /\ late' = [late EXCEPT ![e] = @ + 1]
  /\ Goto(e, "none")
  /\ UNCHANGED <<request, log, taken, events, restarts>>

LateSend(e) ==
  /\ late[e] > 0
  /\ late' = [late EXCEPT ![e] = @ - 1]
  /\ taken' = [taken EXCEPT ![e] = @ + 1] \/ UNCHANGED taken
  /\ UNCHANGED <<request, log, task, attempt, events, restarts>>

Busy == Running # {} \/ \E e \in Emails : late[e] > 0
Halted ==
  /\ attempt' = [e \in Emails |-> "none"]
  /\ late' = [e \in Emails |-> 0]
  /\ UNCHANGED <<request, log, taken, events>>

WorkerDies ==
  /\ "worker" \in Faults
  /\ Busy
  /\ Halted
  /\ UNCHANGED <<task, restarts>>

\* The recoverer, for an active task whose lease ran out.
Recover(e) ==
  /\ task[e].state = "active" /\ attempt[e] = "none"
  /\ task' = [task EXCEPT ![e] = Again(@)]
  /\ UNCHANGED <<request, log, attempt, late, taken, events, restarts>>

\* srv.Shutdown puts the tasks that do not end in time back.
WorkerStops ==
  /\ Busy
  /\ restarts < MaxRestarts
  /\ restarts' = restarts + 1
  /\ task' = [e \in Emails |-> IF e \in Running THEN In(task[e], "pending") ELSE task[e]]
  /\ Halted

----------------------------------------------------------------------------
\* CleanupOldLogs.
Cleanup(e) ==
  /\ "cleanup" \in Faults
  /\ log[e] \notin {"none", "deleted"}
  /\ log' = [log EXCEPT ![e] = Written(@, "deleted")]
  /\ UNCHANGED <<request, task, attempt, late, taken, events, restarts>>

Init ==
  /\ request = [e \in Emails |-> "idle"]
  /\ log = [e \in Emails |-> "none"]
  /\ task = [e \in Emails |-> NoTask]
  /\ attempt = [e \in Emails |-> "none"]
  /\ late = [e \in Emails |-> 0]
  /\ taken = [e \in Emails |-> 0]
  /\ events = [e \in Emails |-> {}]
  /\ restarts = 0

RequestStep(e) == CreateLog(e) \/ Enqueue(e) \/ Refuse(e)

HandlerStep(e) ==
  \/ Fetch(e) \/ Process(e) \/ Send(e)
  \/ MarkSent(e) \/ MarkFailed(e) \/ TellSent(e) \/ TellFailed(e)
  \/ Ack(e) \/ Nack(e)

Next ==
  \/ \E e \in Emails :
       \/ Submit(e) \/ RequestStep(e) \/ RequestDies(e)
       \/ Take(e) \/ HandlerStep(e)
       \/ TimesOut(e) \/ LateSend(e) \/ Recover(e) \/ Cleanup(e)
  \/ WorkerDies \/ WorkerStops

Spec == Init /\ [][Next]_vars

\* Handlers run to their end, and asynq hands out pending tasks and finds
\* the ones whose worker is gone.
Fairness == \A e \in Emails :
  WF_vars(RequestStep(e)) /\ WF_vars(Take(e)) /\ WF_vars(HandlerStep(e)) /\ WF_vars(Recover(e))

FairSpec == Spec /\ Fairness

----------------------------------------------------------------------------
(* Properties.                                                             *)

\* Every variable keeps its type.
TypeOK ==
  /\ request \in [Emails -> {"idle", "create", "enqueue", "refuse", "accepted", "error", "dead"}]
  /\ log \in [Emails -> Status]
  /\ task \in [Emails -> TaskState]
  /\ attempt \in [Emails -> {"none", "fetch", "process", "send", "sent", "tellSent", "done",
                             "fail", "tellFailed", "error"}]
  /\ late \in [Emails -> Nat]
  /\ taken \in [Emails -> Nat]
  /\ events \in [Emails -> SUBSET {"sent", "failed"}]
  /\ restarts \in 0..MaxRestarts

\* The pipeline keeps the promise of the abstract outbox.
Report(e) == CASE log[e] \in {"queued", "processing"} -> "pending"
               [] log[e] = "deleted"                  -> "gone"
               [] OTHER                               -> log[e]
Left == {e \in Emails : taken[e] > 0}
O == INSTANCE Outbox WITH
       report <- [e \in Emails |-> Report(e)], out <- Left, told <- events
ImplementsOutbox == O!Spec

\* Duplicates are bounded: each attempt of the task hands the message over at
\* most once, even the attempts nobody waits for any more.
TakenOncePerAttempt ==
  \A e \in Emails : taken[e] + late[e] <= 1 + task[e].retried + restarts

\* A task that ended without an error did its work, or its log was deleted.
DoneMeansTaken ==
  \A e \in Emails : task[e].state = "done" => taken[e] > 0 \/ log[e] = "deleted"

\* With the database up, such a task leaves its log as "sent", however often
\* it was attempted and whichever attempts are still sending.
DoneMeansSent ==
  \A e \in Emails : task[e].state = "done" => log[e] \in {"sent", "deleted"}

\* A sent e-mail falls back to another status only if its task was delivered
\* again or its request failed after the task was queued.
SentOnlyRedone ==
  [][\A e \in Emails : log[e] = "sent" /\ log'[e] \notin {"sent", "deleted"} =>
        task[e].retried > 0 \/ restarts > 0 \/ request[e] = "refuse"]_vars

\* With the database up, a task that its own handler gives up, however often
\* its worker died before, leaves the log as "failed": nobody is told that an
\* e-mail is under way, or sent, that asynq has archived.
GivenUpIsFailed ==
  [][\A e \in Emails :
       attempt[e] = "error" /\ task[e].state = "active" /\ task'[e].state = "archived"
         => log[e] \in {"failed", "deleted"}]_vars

\* No task runs or waits for ever, whatever dies.
TasksEnd ==
  \A e \in Emails : request[e] = "accepted" ~> task[e].state \in Ended
============================================================================
