------------------------------ MODULE Webhooks ------------------------------
(***************************************************************************)
(* One webhook of a customer: events are dispatched to it as asynq tasks,  *)
(* the worker POSTs them, counts the failures and switches the webhook off *)
(* when there are too many, while its owner updates or deletes it.  The    *)
(* webhooks of an event share only the worker's slots, so one is enough.   *)
(*                                                                         *)
(* The payload, its signature, the URL and the event filter are left out,  *)
(* like the time stamps of the row.                                        *)
(***************************************************************************)
EXTENDS Naturals, FiniteSets, Asynq

CONSTANTS
  Events,       \* events to announce
  Editors,      \* concurrent PUT /webhooks/:id requests
  Slots,        \* Concurrency of the asynq server
  Threshold,    \* failures that switch the webhook off
  MaxRestarts,  \* bound: graceful restarts of the worker that interrupt a task
  Faults        \* what may go wrong

ASSUME WebhookAssumption ==
  /\ Slots \in Nat \ {0} /\ Threshold \in Nat /\ MaxRestarts \in Nat
  /\ IsFiniteSet(Events)
  /\ Faults \subseteq {"db",       \* a statement fails
                       "redis",    \* Enqueue fails, perhaps after its effect
                       "http",     \* the endpoint cannot be reached, or its answer is lost
                       "worker",   \* the process that announces or delivers dies
                       "delete",   \* the owner deletes the webhook
                       "cleanup"}  \* logs outlive their retention

VARIABLES
  hook,      \* its row in table webhooks
  logs,      \* its rows in webhook_logs: the events delivered, the failed attempts
  dispatch,  \* the announcement of each event
  task,      \* the webhook:dispatch task of each event, in Redis
  attempt,   \* the handler the worker runs for the task
  editor,    \* the PUT requests
  restarts,
  posts,     \* history: POSTs sent for each event
  accepted,  \* history: events the endpoint answered with a 2xx
  wasOff     \* history: the webhook was off, or deleted

process == <<dispatch, task, attempt, editor, restarts>>
history == <<posts, accepted, wasOff>>
vars    == <<hook, logs, process, history>>

----------------------------------------------------------------------------
MayFail(fault, call, nocall) == call \/ (fault \in Faults /\ nocall)

AttemptState == [pc : {"none", "fetch", "post", "logOk", "done",
                       "logFailed", "count", "deactivate", "error"},
                 seen : Nat, answered : BOOLEAN]
NoAttempt    == [pc |-> "none", seen |-> 0, answered |-> FALSE]

At(e, pc)    == attempt[e].pc = pc
Moved(a, pc) == [pc |-> pc, seen |-> a.seen, answered |-> a.answered]
Found(n)     == [pc |-> "post", seen |-> n, answered |-> FALSE]
Refused(a)   == [pc |-> "logFailed", seen |-> a.seen, answered |-> TRUE]
Goto(e, pc)  == attempt' = [attempt EXCEPT ![e] = Moved(@, pc)]
Running      == {e \in Events : ~At(e, "none")}

On == hook.state = "on"

\* An UPDATE, which does nothing once the row is deleted.
Row(state, failures) ==
  hook' = IF hook.state = "gone" THEN hook ELSE [state |-> state, failures |-> failures]

----------------------------------------------------------------------------
(* DispatchEvent, called by the e-mail worker and by the tracking pixel.   *)

Dispatch(e) ==
  /\ dispatch[e] = "idle"
  /\ \/ dispatch' = [dispatch EXCEPT ![e] = IF On THEN "enqueue" ELSE "end"]
     \/ "db" \in Faults /\ dispatch' = [dispatch EXCEPT ![e] = "end"]
  /\ UNCHANGED <<hook, logs, task, attempt, editor, restarts, history>>

Enqueue(e) ==
  /\ dispatch[e] = "enqueue"
  /\ dispatch' = [dispatch EXCEPT ![e] = "end"]
  /\ MayFail("redis", task' = [task EXCEPT ![e] = In(@, "pending")], UNCHANGED task)
  /\ UNCHANGED <<hook, logs, attempt, editor, restarts, history>>

\* The API server dies of an update's panic.
Panicked == \E u \in Editors : editor[u].pc = "panicked"

DispatchDies(e) ==
  /\ "worker" \in Faults \/ Panicked
  /\ dispatch[e] = "enqueue"
  /\ dispatch' = [dispatch EXCEPT ![e] = "end"]
  /\ UNCHANGED <<hook, logs, task, attempt, editor, restarts, history>>

----------------------------------------------------------------------------
(* The worker's ProcessTask.                                               *)

Take(e) ==
  /\ task[e].state = "pending"
  /\ Cardinality(Running) < Slots
  /\ task' = [task EXCEPT ![e] = In(@, "active")]
  /\ attempt' = [attempt EXCEPT ![e] = Moved(NoAttempt, "fetch")]
  /\ UNCHANGED <<hook, logs, dispatch, editor, restarts, history>>

\* Mutant of Fetch: the failures are not looked at.
FetchUncounted(e) ==
  /\ At(e, "fetch")
  /\ Goto(e, IF On THEN "post" ELSE "done")
  /\ UNCHANGED <<hook, logs, dispatch, task, editor, restarts, history>>

\* What the attempt decides on later is what it reads here.
Fetch(e) ==
  /\ At(e, "fetch")
  /\ MayFail("db",
       IF On THEN attempt' = [attempt EXCEPT ![e] = Found(hook.failures)] ELSE Goto(e, "done"),
       Goto(e, "error"))
  /\ UNCHANGED <<hook, logs, dispatch, task, editor, restarts, history>>

\* A 2xx, another status, or an error of the client, which does not mean
\* that the endpoint did not act on the POST.
Post(e) ==
  /\ At(e, "post")
  /\ \/ Goto(e, "logOk") /\ accepted' = accepted \cup {e}
     \/ attempt' = [attempt EXCEPT ![e] = Refused(@)] /\ UNCHANGED accepted
     \/ /\ "http" \in Faults
        /\ Goto(e, "logFailed")
        /\ accepted' = accepted \cup {e} \/ UNCHANGED accepted
  /\ posts' = [posts EXCEPT ![e] = @ + 1]
  /\ UNCHANGED <<hook, logs, dispatch, task, editor, restarts, wasOff>>

\* CreateLog and UpdateLastTriggered, whose errors are dropped; a log needs
\* the webhook's row, and the log of the e-mail it is about.
LogSuccess(e) ==
  /\ At(e, "logOk")
  /\ \/ logs' = IF hook.state = "gone" THEN logs ELSE [logs EXCEPT !.ok = @ \cup {e}]
     \/ {"db", "cleanup"} \cap Faults # {} /\ UNCHANGED logs
  /\ Goto(e, "done")
  /\ UNCHANGED <<hook, dispatch, task, editor, restarts, history>>

LogFailure(e) ==
  /\ At(e, "logFailed")
  /\ \/ logs' = IF hook.state = "gone" THEN logs ELSE [logs EXCEPT !.failed = @ + 1]
     \/ {"db", "cleanup"} \cap Faults # {} /\ UNCHANGED logs
  /\ Goto(e, "count")
  /\ UNCHANGED <<hook, dispatch, task, editor, restarts, history>>

\* Mutant of AfterCount: the first failure is enough.
AfterAnyFailure(e) == IF attempt[e].answered THEN "deactivate" ELSE "error"

\* Only an attempt that got an answer goes on to look at the count it read.
AfterCount(e) ==
  IF attempt[e].answered /\ attempt[e].seen >= Threshold THEN "deactivate" ELSE "error"

\* Mutant of CountFailure: the count read before the POST is written back.
CountStale(e) ==
  /\ At(e, "count")
  /\ Row(hook.state, attempt[e].seen + 1)
  /\ Goto(e, AfterCount(e))
  /\ UNCHANGED <<logs, dispatch, task, editor, restarts, history>>

\* IncrementFailureCount.
CountFailure(e) ==
  /\ At(e, "count")
  /\ MayFail("db", Row(hook.state, hook.failures + 1), UNCHANGED hook)
  /\ Goto(e, AfterCount(e))
  /\ UNCHANGED <<logs, dispatch, task, editor, restarts, history>>

Deactivate(e) ==
  /\ At(e, "deactivate")
  /\ MayFail("db", Row("off", hook.failures) /\ wasOff' = TRUE, UNCHANGED <<hook, wasOff>>)
  /\ Goto(e, "error")
  /\ UNCHANGED <<logs, dispatch, task, editor, restarts, posts, accepted>>

Ack(e) ==
  /\ At(e, "done")
  /\ task' = [task EXCEPT ![e] = In(@, "done")]
  /\ attempt' = [attempt EXCEPT ![e] = NoAttempt]
  /\ UNCHANGED <<hook, logs, dispatch, editor, restarts, history>>

\* Mutant of Nack: the task is given up without a retry, as if it were done.
NackAsDone(e) ==
  /\ At(e, "error")
  /\ task' = [task EXCEPT ![e] = In(@, "done")]
  /\ attempt' = [attempt EXCEPT ![e] = NoAttempt]
  /\ UNCHANGED <<hook, logs, dispatch, editor, restarts, history>>

Nack(e) ==
  /\ At(e, "error")
  /\ task' = [task EXCEPT ![e] = Again(@)]
  /\ attempt' = [attempt EXCEPT ![e] = NoAttempt]
  /\ UNCHANGED <<hook, logs, dispatch, editor, restarts, history>>

----------------------------------------------------------------------------
(* asynq and the worker process, as the code uses them.                    *)

Halted == attempt' = [e \in Events |-> NoAttempt]

WorkerDies ==
  /\ "worker" \in Faults
  /\ Running # {}
  /\ Halted
  /\ UNCHANGED <<hook, logs, dispatch, task, editor, restarts, history>>

\* Mutant of Recover: the lost attempt is not counted as a retry.
RecoverFresh(e) ==
  /\ task[e].state = "active" /\ At(e, "none")
  /\ task' = [task EXCEPT ![e] = In(@, "pending")]
  /\ UNCHANGED <<hook, logs, dispatch, attempt, editor, restarts, history>>

\* The recoverer, for an active task whose lease ran out.
Recover(e) ==
  /\ task[e].state = "active" /\ At(e, "none")
  /\ task' = [task EXCEPT ![e] = Again(@)]
  /\ UNCHANGED <<hook, logs, dispatch, attempt, editor, restarts, history>>

\* srv.Shutdown puts the tasks that do not end in time back.
WorkerStops ==
  /\ Running # {}
  /\ restarts < MaxRestarts
  /\ restarts' = restarts + 1
  /\ task' = [e \in Events |-> IF e \in Running THEN In(task[e], "pending") ELSE task[e]]
  /\ Halted
  /\ UNCHANGED <<hook, logs, dispatch, editor, history>>

----------------------------------------------------------------------------
(* The owner.                                                              *)

EditorState == [pc : {"idle", "write", "reread", "end", "panicked", "dead"}, on : BOOLEAN]
Now(r, pc) == [pc |-> pc, on |-> r.on]

\* PUT /webhooks/:id finds the webhook, or answers "webhook not found".
StartUpdate(u, on) ==
  /\ editor[u].pc = "idle" /\ ~Panicked
  /\ editor' = [editor EXCEPT ![u] =
                  [pc |-> IF hook.state = "gone" THEN "end" ELSE "write", on |-> on]]
  /\ UNCHANGED <<hook, logs, dispatch, task, attempt, restarts, history>>

\* The UPDATE stores the is_active of the request and leaves the failures.
WriteUpdate(u) ==
  /\ editor[u].pc = "write"
  /\ \/ /\ Row(IF editor[u].on THEN "on" ELSE "off", hook.failures)
        /\ wasOff' = (wasOff \/ ~editor[u].on)
        /\ editor' = [editor EXCEPT ![u] = Now(@, "reread")]
     \/ /\ "db" \in Faults
        /\ editor' = [editor EXCEPT ![u] = Now(@, "end")]
        /\ UNCHANGED <<hook, wasOff>>
  /\ UNCHANGED <<logs, dispatch, task, attempt, restarts, posts, accepted>>

\* The row is read again for the answer.  If it is gone GetByID returns nil
\* without an error, which the handler dereferences: the API server dies, and
\* its requests with it.
Reread(u) ==
  /\ editor[u].pc = "reread"
  /\ \/ /\ hook.state = "gone"
        /\ editor' = [v \in Editors |->
             IF v = u THEN Now(editor[v], "panicked")
             ELSE IF editor[v].pc \in {"write", "reread"} THEN Now(editor[v], "dead")
             ELSE editor[v]]
     \/ /\ hook.state # "gone" \/ "db" \in Faults
        /\ editor' = [editor EXCEPT ![u] = Now(@, "end")]
  /\ UNCHANGED <<hook, logs, dispatch, task, attempt, restarts, history>>

\* DELETE /webhooks/:id; the logs go with the row.
DeleteWebhook ==
  /\ "delete" \in Faults /\ ~Panicked
  /\ hook.state # "gone"
  /\ hook' = [state |-> "gone", failures |-> hook.failures]
  /\ logs' = [ok |-> {}, failed |-> 0]
  /\ wasOff' = TRUE
  /\ UNCHANGED <<process, posts, accepted>>

----------------------------------------------------------------------------
\* CleanupOldLogs: some of the rows are old enough.
Cleanup ==
  /\ "cleanup" \in Faults
  /\ \E ok \in SUBSET logs.ok, failed \in 0..logs.failed : logs' = [ok |-> ok, failed |-> failed]
  /\ UNCHANGED <<hook, process, history>>

\* The webhook has just been created.
Init ==
  /\ hook = [state |-> "on", failures |-> 0]
  /\ logs = [ok |-> {}, failed |-> 0]
  /\ dispatch = [e \in Events |-> "idle"]
  /\ task = [e \in Events |-> NoTask]
  /\ attempt = [e \in Events |-> NoAttempt]
  /\ editor = [u \in Editors |-> [pc |-> "idle", on |-> FALSE]]
  /\ restarts = 0
  /\ posts = [e \in Events |-> 0]
  /\ accepted = {}
  /\ wasOff = FALSE

HandlerStep(e) ==
  \/ Fetch(e) \/ Post(e) \/ LogSuccess(e)
  \/ LogFailure(e) \/ CountFailure(e) \/ Deactivate(e)
  \/ Ack(e) \/ Nack(e)

Next ==
  \/ \E e \in Events :
       \/ Dispatch(e) \/ Enqueue(e) \/ DispatchDies(e)
       \/ Take(e) \/ HandlerStep(e) \/ Recover(e)
  \/ WorkerDies \/ WorkerStops
  \/ \E u \in Editors :
       \/ \E on \in BOOLEAN : StartUpdate(u, on)
       \/ WriteUpdate(u) \/ Reread(u)
  \/ DeleteWebhook \/ Cleanup

Spec == Init /\ [][Next]_vars

\* Handlers run to their end, and asynq hands out pending tasks and finds
\* the ones whose worker is gone.
Fairness == \A e \in Events :
  WF_vars(Take(e)) /\ WF_vars(HandlerStep(e)) /\ WF_vars(Recover(e))

FairSpec == Spec /\ Fairness

----------------------------------------------------------------------------
(* Properties.                                                             *)

\* Every variable keeps its type.
TypeOK ==
  /\ hook \in [state : {"on", "off", "gone"}, failures : Nat]
  /\ logs \in [ok : SUBSET Events, failed : Nat]
  /\ dispatch \in [Events -> {"idle", "enqueue", "end"}]
  /\ task \in [Events -> TaskState]
  /\ attempt \in [Events -> AttemptState]
  /\ editor \in [Editors -> EditorState]
  /\ restarts \in 0..MaxRestarts
  /\ posts \in [Events -> Nat]
  /\ accepted \subseteq Events
  /\ wasOff \in BOOLEAN

\* The endpoint sees an event once per attempt of its task at most, however
\* the attempts end.
PostedOncePerAttempt ==
  \A e \in Events : posts[e] <= 1 + task[e].retried + restarts

\* A task that ended without an error was delivered, unless the webhook was
\* switched off at some time.
DoneMeansAccepted ==
  \A e \in Events : task[e].state = "done" => e \in accepted \/ wasOff

\* The worker takes a webhook from its owner only when the threshold has been
\* reached, whatever he turned on or off meanwhile.
SwitchedOffForCause ==
  [][On /\ hook'.state = "off" =>
       \/ hook.failures >= Threshold
       \/ \E u \in Editors : editor[u].pc = "write" /\ ~editor[u].on]_vars

\* Attempts that fail at the same time are all counted: every failure in the
\* log is in the count, but for those between the two statements.
FailuresAllCounted ==
  hook.state # "gone" =>
    logs.failed <= hook.failures + Cardinality({e \in Events : At(e, "count")})

\* "Auto-deactivate if too many failures": the decision is taken on a count read
\* before the POST, so that a webhook nobody turns on again can exceed the
\* threshold, but only by the attempts of two rounds of the worker's slots.
DeactivatedInTime == On => hook.failures <= Threshold + 2 * Slots - 1

\* Every event that was enqueued is delivered or given up, whatever dies.
EventsEnd ==
  \A e \in Events : task[e].state = "pending" ~> task[e].state \in Ended
============================================================================
