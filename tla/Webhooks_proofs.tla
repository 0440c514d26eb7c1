-------------------------- MODULE Webhooks_proofs --------------------------
(* Proofs about Webhooks, for any number of events, requests, slots and    *)
(* retries: its types, what a finished delivery has done, why a webhook is *)
(* switched off, how far its failures can exceed the threshold, and that   *)
(* none is left uncounted.                                                 *)
EXTENDS Webhooks, FiniteSetTheorems, TLAPS

----------------------------------------------------------------------------
(* Types.                                                                  *)

LEMMA TypeInit == Init => TypeOK
<1> SUFFICES ASSUME Init PROVE TypeOK
  OBVIOUS
<1>1. NoTask \in TaskState /\ NoAttempt \in AttemptState /\ restarts \in 0..MaxRestarts
  BY WebhookAssumption, RetryAssumption DEF Init, TaskState, NoTask, AttemptState, NoAttempt
<1>2. hook \in [state : {"on", "off", "gone"}, failures : Nat]
      /\ logs \in [ok : SUBSET Events, failed : Nat]
  BY DEF Init
<1>3. editor \in [Editors -> EditorState]
  BY DEF Init, EditorState
<1> QED BY <1>1, <1>2, <1>3 DEF Init, TypeOK

LEMMA TasksTyped ==
  ASSUME NEW t \in TaskState
  PROVE  /\ Again(t) \in TaskState
         /\ \A state \in {"pending", "active", "done"} : In(t, state) \in TaskState
BY RetryAssumption DEF Again, In, TaskState

LEMMA AttemptsTyped ==
  /\ NoAttempt \in AttemptState
  /\ \A n \in Nat : Found(n) \in AttemptState
  /\ \A a \in AttemptState : Refused(a) \in AttemptState
  /\ \A a \in AttemptState, pc \in {"fetch", "post", "logOk", "done", "logFailed", "count",
                                    "deactivate", "error"} : Moved(a, pc) \in AttemptState
BY DEF NoAttempt, AttemptState, Moved, Found, Refused

HookState == [state : {"on", "off", "gone"}, failures : Nat]

\* The UPDATEs of the row.
LEMMA RowTyped ==
  ASSUME hook \in HookState, NEW state \in {"on", "off", "gone"}, NEW n \in Nat, Row(state, n)
  PROVE  hook' \in HookState
BY DEF Row, HookState

LEMMA EditorsTyped ==
  \A r \in EditorState, pc \in {"reread", "end", "panicked", "dead"} : Now(r, pc) \in EditorState
BY DEF Now, EditorState

LEMMA TypeNext == TypeOK /\ [Next]_vars => TypeOK'
<1> SUFFICES ASSUME TypeOK, [Next]_vars PROVE TypeOK'
  OBVIOUS
<1>1. ASSUME NEW e \in Events, Dispatch(e) \/ DispatchDies(e) PROVE TypeOK'
  BY <1>1 DEF Dispatch, DispatchDies, TypeOK, history
<1>2. ASSUME NEW e \in Events, Enqueue(e) PROVE TypeOK'
  BY <1>2, TasksTyped DEF Enqueue, MayFail, TypeOK, history
<1>3. ASSUME NEW e \in Events, Take(e) PROVE TypeOK'
  BY <1>3, TasksTyped, AttemptsTyped DEF Take, TypeOK, history
<1>4. ASSUME NEW e \in Events, Fetch(e) PROVE TypeOK'
  BY <1>4, AttemptsTyped DEF Fetch, MayFail, Goto, TypeOK, history
<1>5. ASSUME NEW e \in Events, Post(e) PROVE TypeOK'
  BY <1>5, AttemptsTyped DEF Post, Goto, TypeOK
<1>6. ASSUME NEW e \in Events, LogSuccess(e) PROVE TypeOK'
  BY <1>6, AttemptsTyped DEF LogSuccess, MayFail, Goto, TypeOK, history
<1>7. ASSUME NEW e \in Events, LogFailure(e) PROVE TypeOK'
  BY <1>7, AttemptsTyped DEF LogFailure, MayFail, Goto, TypeOK, history
<1>8. ASSUME NEW e \in Events, CountFailure(e) PROVE TypeOK'
  <2>1. hook' \in HookState
    BY <1>8, RowTyped DEF CountFailure, MayFail, TypeOK, HookState
  <2> QED BY <1>8, <2>1, AttemptsTyped DEF CountFailure, AfterCount, Goto, TypeOK, history, HookState
<1>9. ASSUME NEW e \in Events, Deactivate(e) PROVE TypeOK'
  <2>1. hook' \in HookState
    BY <1>9, RowTyped DEF Deactivate, MayFail, TypeOK, HookState
  <2> QED BY <1>9, <2>1, AttemptsTyped DEF Deactivate, MayFail, Goto, TypeOK, HookState
<1>10. ASSUME NEW e \in Events, Ack(e) \/ Nack(e) PROVE TypeOK'
  BY <1>10, TasksTyped, AttemptsTyped DEF Ack, Nack, TypeOK, history
<1>11. ASSUME NEW e \in Events, Recover(e) PROVE TypeOK'
  BY <1>11, TasksTyped DEF Recover, TypeOK, history
<1>12. CASE WorkerDies
  BY <1>12, AttemptsTyped DEF WorkerDies, Halted, TypeOK, history
<1>13. CASE WorkerStops
  BY <1>13, TasksTyped, AttemptsTyped, WebhookAssumption
     DEF WorkerStops, Halted, TypeOK, history
<1>14. ASSUME NEW u \in Editors, NEW on \in BOOLEAN, StartUpdate(u, on) PROVE TypeOK'
  BY <1>14 DEF StartUpdate, TypeOK, EditorState, history
<1>15. ASSUME NEW u \in Editors, WriteUpdate(u) PROVE TypeOK'
  <2>1. hook' \in HookState
    BY <1>15, RowTyped DEF WriteUpdate, TypeOK, HookState
  <2>2. wasOff' \in BOOLEAN
    BY <1>15 DEF WriteUpdate, TypeOK
  <2> QED BY <1>15, <2>1, <2>2, EditorsTyped DEF WriteUpdate, TypeOK, HookState
<1>16. ASSUME NEW u \in Editors, Reread(u) PROVE TypeOK'
  BY <1>16, EditorsTyped DEF Reread, TypeOK, history
<1>17. CASE DeleteWebhook
  BY <1>17 DEF DeleteWebhook, TypeOK, process
<1>18. CASE Cleanup
  BY <1>18 DEF Cleanup, TypeOK, process, history
<1>19. CASE UNCHANGED vars
  BY <1>19 DEF vars, process, history, TypeOK
<1> QED
  BY <1>1, <1>2, <1>3, <1>4, <1>5, <1>6, <1>7, <1>8, <1>9, <1>10, <1>11, <1>12, <1>13,
     <1>14, <1>15, <1>16, <1>17, <1>18, <1>19
  DEF Next, HandlerStep

\* Every reachable state of every instance is well typed.
THEOREM WebhookTypes == Spec => []TypeOK
BY TypeInit, TypeNext, PTL DEF Spec

----------------------------------------------------------------------------
(* The inductive invariant, by event.                                      *)

\* The task is made by the dispatch, and only an active one is attempted.
InOrder(e) ==
  /\ dispatch[e] # "end" => task[e].state = "none"
  /\ ~At(e, "none") => task[e].state = "active"

\* An attempt reports success only after a 2xx, or of a webhook it found off.
Truthful(e) ==
  /\ At(e, "logOk") => e \in accepted
  /\ At(e, "done") \/ task[e].state = "done" => e \in accepted \/ wasOff

\* The count an attempt decides on was reached, and can only have grown.
Justified(e) ==
  /\ attempt[e].seen <= hook.failures
  /\ At(e, "deactivate") => attempt[e].seen >= Threshold

\* The event was not posted since its task was last delivered.
Fresh(e) == task[e].state \in {"none", "pending"} \/ At(e, "fetch") \/ At(e, "post")

Bounded(e) == posts[e] <= task[e].retried + restarts + IF Fresh(e) THEN 0 ELSE 1

Sound(e) == InOrder(e) /\ Truthful(e) /\ Justified(e) /\ Bounded(e)

OffRemembered == ~On => wasOff

Inductive == TypeOK /\ OffRemembered /\ \A e \in Events : Sound(e)

LEMMA InductiveInit == Init => Inductive
<1> SUFFICES ASSUME Init PROVE Inductive
  OBVIOUS
<1>1. TypeOK BY TypeInit
<1>2. OffRemembered BY DEF Init, OffRemembered, On
<1>3. ASSUME NEW e \in Events PROVE Sound(e)
  BY DEF Init, NoTask, NoAttempt, Sound, InOrder, Truthful, Justified, Bounded, Fresh, At
<1> QED BY <1>1, <1>2, <1>3 DEF Inductive

\* What no step takes back: answers, failures and having been off.
Grows ==
  /\ accepted \subseteq accepted'
  /\ wasOff => wasOff'
  /\ hook.failures <= hook'.failures

LEMMA RowGrows ==
  ASSUME hook \in HookState, NEW state \in {"on", "off", "gone"},
         Row(state, hook.failures) \/ Row(state, hook.failures + 1)
  PROVE  hook.failures <= hook'.failures
BY DEF Row, HookState

LEMMA NextGrows ==
  ASSUME TypeOK, OffRemembered, [Next]_vars PROVE Grows /\ OffRemembered'
<1> USE DEF Grows, OffRemembered, On, TypeOK
<1>0. hook \in HookState BY DEF HookState
<1>1. ASSUME UNCHANGED <<hook, accepted, wasOff>> PROVE Grows /\ OffRemembered'
  BY <1>1
<1>2. ASSUME NEW e \in Events,
             \/ Dispatch(e) \/ Enqueue(e) \/ DispatchDies(e) \/ Take(e) \/ Fetch(e)
             \/ LogSuccess(e) \/ LogFailure(e) \/ Ack(e) \/ Nack(e) \/ Recover(e)
      PROVE  UNCHANGED <<hook, accepted, wasOff>>
  BY <1>2 DEF Dispatch, Enqueue, DispatchDies, Take, Fetch, LogSuccess, LogFailure,
              Ack, Nack, Recover, history
<1>3. ASSUME NEW e \in Events, Post(e) PROVE Grows /\ OffRemembered'
  BY <1>3 DEF Post
<1>4. ASSUME NEW e \in Events, CountFailure(e) PROVE Grows /\ OffRemembered'
  BY <1>0, <1>4 DEF CountFailure, MayFail, Row, history
<1>5. ASSUME NEW e \in Events, Deactivate(e) PROVE Grows /\ OffRemembered'
  BY <1>0, <1>5 DEF Deactivate, MayFail, Row
<1>6. CASE WorkerDies \/ WorkerStops \/ Cleanup \/ UNCHANGED vars
  BY <1>6 DEF WorkerDies, WorkerStops, Cleanup, vars, history
<1>7. ASSUME NEW u \in Editors, NEW on \in BOOLEAN, StartUpdate(u, on) \/ Reread(u)
      PROVE  UNCHANGED <<hook, accepted, wasOff>>
  BY <1>7 DEF StartUpdate, Reread, history
<1>8. ASSUME NEW u \in Editors, WriteUpdate(u) PROVE Grows /\ OffRemembered'
  <2>1. CASE UNCHANGED <<hook, wasOff>>
    BY <1>8, <2>1 DEF WriteUpdate
  <2>2. ASSUME Row(IF editor[u].on THEN "on" ELSE "off", hook.failures),
               wasOff' = (wasOff \/ ~editor[u].on)
        PROVE  Grows /\ OffRemembered'
    <3>0. accepted' = accepted BY <1>8 DEF WriteUpdate
    <3>1. CASE editor[u].on
      <4>1. Row("on", hook.failures) BY <2>2, <3>1
      <4>2. wasOff => wasOff' BY <2>2, Zenon
      <4> QED BY <1>0, <3>0, <4>1, <4>2 DEF Row
    <3>2. CASE ~editor[u].on
      <4>1. Row("off", hook.failures) BY <2>2, <3>2
      <4>2. wasOff' BY <2>2, <3>2, Zenon
      <4> QED BY <1>0, <3>0, <4>1, <4>2 DEF Row
    <3> QED BY <3>1, <3>2
  <2> QED BY <1>8, <2>1, <2>2 DEF WriteUpdate
<1>9. CASE DeleteWebhook
  BY <1>9 DEF DeleteWebhook
<1> QED
  BY <1>1, <1>2, <1>3, <1>4, <1>5, <1>6, <1>7, <1>8, <1>9 DEF Next, HandlerStep

\* A step that touches no variable of e keeps it sound.
Same(e) ==
  /\ dispatch'[e] = dispatch[e] /\ task'[e] = task[e] /\ attempt'[e] = attempt[e]
  /\ posts'[e] = posts[e] /\ restarts' = restarts

LEMMA SameSound ==
  ASSUME TypeOK, TypeOK', NEW e \in Events, Sound(e), Grows, Same(e) PROVE Sound(e)'
<1>1. /\ attempt[e].seen \in Nat /\ hook.failures \in Nat /\ hook'.failures \in Nat
  BY DEF TypeOK, AttemptState
<1> QED BY <1>1 DEF Grows, Same, Sound, InOrder, Truthful, Justified, Bounded, Fresh, At

\* A redelivered task has used up an attempt, or is given up.
LEMMA AgainCounts ==
  ASSUME NEW t \in TaskState
  PROVE  \/ Again(t).state = "pending" /\ Again(t).retried = t.retried + 1
         \/ Again(t).state = "archived" /\ Again(t).retried = t.retried
BY DEF Again

LEMMA OwnSound ==
  ASSUME TypeOK, TypeOK', OffRemembered, Grows, NEW e \in Events, Sound(e),
         \/ Dispatch(e) \/ Enqueue(e) \/ DispatchDies(e)
         \/ Take(e) \/ HandlerStep(e) \/ Recover(e)
  PROVE  Sound(e)'
<1> USE DEF Sound, InOrder, Truthful, Justified, Bounded, Fresh, At
<1>0. /\ task[e] \in TaskState /\ task[e].retried \in Nat /\ restarts \in Nat
      /\ attempt[e] \in AttemptState /\ attempt[e].seen \in Nat
      /\ posts[e] \in Nat /\ hook.failures \in Nat /\ hook'.failures \in Nat
  BY RetryAssumption, WebhookAssumption DEF TypeOK, TaskState, AttemptState
<1>T. /\ dispatch \in [Events -> {"idle", "enqueue", "end"}] /\ task \in [Events -> TaskState]
      /\ attempt \in [Events -> AttemptState] /\ posts \in [Events -> Nat]
  BY DEF TypeOK
<1>1. CASE Dispatch(e) \/ DispatchDies(e)
  BY <1>0, <1>T, <1>1 DEF Dispatch, DispatchDies, history
<1>2. CASE Enqueue(e)
  BY <1>0, <1>T, <1>2 DEF Enqueue, MayFail, In, history
<1>3. CASE Take(e)
  BY <1>0, <1>T, <1>3 DEF Take, In, Moved, NoAttempt, history
<1>4. CASE Fetch(e)
  BY <1>0, <1>T, <1>4 DEF Fetch, MayFail, Goto, Moved, Found, OffRemembered, history
<1>5. CASE Post(e)
  BY <1>0, <1>T, <1>5 DEF Post, Goto, Moved, Refused
<1>6. CASE LogSuccess(e) \/ LogFailure(e)
  BY <1>0, <1>T, <1>6 DEF LogSuccess, LogFailure, Goto, Moved, history
<1>7. CASE CountFailure(e)
  BY <1>0, <1>T, <1>7, WebhookAssumption DEF CountFailure, AfterCount, Goto, Moved, Grows, history
<1>8. CASE Deactivate(e)
  BY <1>0, <1>T, <1>8 DEF Deactivate, Goto, Moved, Grows
<1>9. CASE Ack(e)
  BY <1>0, <1>T, <1>9 DEF Ack, In, NoAttempt, history
<1>10. CASE Nack(e)
  BY <1>0, <1>T, <1>10, AgainCounts DEF Nack, NoAttempt, history
<1>11. CASE Recover(e)
  BY <1>0, <1>T, <1>11, AgainCounts DEF Recover, history
<1> QED
  BY <1>1, <1>2, <1>3, <1>4, <1>5, <1>6, <1>7, <1>8, <1>9, <1>10, <1>11 DEF HandlerStep

LEMMA HaltSound ==
  ASSUME TypeOK, TypeOK', Grows, NEW e \in Events, Sound(e), WorkerDies \/ WorkerStops
  PROVE  Sound(e)'
<1> USE DEF Sound, InOrder, Truthful, Justified, Bounded, Fresh, At
<1>0. /\ task[e] \in TaskState /\ task[e].retried \in Nat /\ restarts \in Nat
      /\ posts[e] \in Nat /\ hook.failures \in Nat /\ hook'.failures \in Nat
  BY RetryAssumption, WebhookAssumption DEF TypeOK, TaskState
<1>1. CASE WorkerDies
  BY <1>0, <1>1 DEF WorkerDies, Halted, NoAttempt, history
<1>2. CASE WorkerStops
  <2>1. task'[e] = IF e \in Running THEN In(task[e], "pending") ELSE task[e]
    BY <1>2 DEF WorkerStops
  <2> QED BY <1>0, <1>2, <2>1 DEF WorkerStops, Halted, NoAttempt, In, Running, history
<1> QED BY <1>1, <1>2

\* Whatever step is taken, an event that it does not concern is the same.
LEMMA Elsewhere ==
  ASSUME TypeOK, NEW e \in Events, NEW f \in Events, e # f,
         \/ Dispatch(f) \/ Enqueue(f) \/ DispatchDies(f)
         \/ Take(f) \/ HandlerStep(f) \/ Recover(f)
  PROVE  Same(e)
BY DEF TypeOK, Same, Dispatch, Enqueue, DispatchDies, Take, HandlerStep, Recover, MayFail,
       Fetch, Post, LogSuccess, LogFailure, CountFailure, Deactivate, Ack, Nack, Goto, history

LEMMA InductiveNext == Inductive /\ [Next]_vars => Inductive'
<1> SUFFICES ASSUME Inductive, [Next]_vars PROVE Inductive'
  OBVIOUS
<1>1. TypeOK /\ TypeOK' BY TypeNext DEF Inductive
<1>2. Grows /\ OffRemembered /\ OffRemembered' BY <1>1, NextGrows DEF Inductive
<1>3. ASSUME NEW e \in Events PROVE Sound(e)'
  <2>0. Sound(e) BY DEF Inductive
  <2>1. ASSUME NEW f \in Events,
               \/ Dispatch(f) \/ Enqueue(f) \/ DispatchDies(f)
               \/ Take(f) \/ HandlerStep(f) \/ Recover(f)
        PROVE  Sound(e)'
    <3>1. CASE e = f BY <1>1, <1>2, <2>0, <2>1, <3>1, OwnSound
    <3>2. CASE e # f BY <1>1, <1>2, <2>0, <2>1, <3>2, Elsewhere, SameSound
    <3> QED BY <3>1, <3>2
  <2>2. CASE WorkerDies \/ WorkerStops
    BY <1>1, <1>2, <2>0, <2>2, HaltSound
  <2>3. ASSUME \/ \E u \in Editors :
                    \/ \E on \in BOOLEAN : StartUpdate(u, on)
                    \/ WriteUpdate(u) \/ Reread(u)
               \/ DeleteWebhook \/ Cleanup
               \/ UNCHANGED vars
        PROVE  Sound(e)'
    <3>1. Same(e)
      BY <2>3 DEF StartUpdate, WriteUpdate, Reread, DeleteWebhook, Cleanup,
                  vars, process, history, Same
    <3> QED BY <1>1, <1>2, <2>0, <3>1, SameSound
  <2> QED BY <2>1, <2>2, <2>3 DEF Next
<1> QED BY <1>1, <1>2, <1>3 DEF Inductive

LEMMA InductiveHolds == Spec => []Inductive
BY InductiveInit, InductiveNext, PTL DEF Spec

----------------------------------------------------------------------------
\* The endpoint sees an event at most once per attempt and restart.
THEOREM NoExtraPosts == Spec => []PostedOncePerAttempt
<1>1. Inductive => PostedOncePerAttempt
  <2> SUFFICES ASSUME Inductive, NEW e \in Events
               PROVE  posts[e] <= 1 + task[e].retried + restarts
    BY DEF PostedOncePerAttempt
  <2>1. posts[e] \in Nat /\ task[e].retried \in Nat /\ restarts \in Nat
    BY RetryAssumption, WebhookAssumption DEF Inductive, TypeOK, TaskState
  <2> QED BY <2>1 DEF Inductive, Sound, Bounded
<1> QED BY <1>1, InductiveHolds, PTL

\* A finished task was delivered, or its webhook was off at some time.
THEOREM DoneIsAccepted == Spec => []DoneMeansAccepted
<1>1. Inductive => DoneMeansAccepted
  BY DEF Inductive, Sound, Truthful, DoneMeansAccepted
<1> QED BY <1>1, InductiveHolds, PTL

\* The worker switches a webhook off only once the threshold was reached, for
\* the count it read before the POST can only have grown since.
THEOREM OffForCause == Spec => SwitchedOffForCause
<1> DEFINE Cause == \/ hook.failures >= Threshold
                    \/ \E u \in Editors : editor[u].pc = "write" /\ ~editor[u].on
<1>1. ASSUME Inductive, [Next]_vars, On, hook'.state = "off" PROVE Cause
  <2>0. hook.state = "on" /\ hook' # hook /\ hook \in HookState
    BY <1>1 DEF On, Inductive, TypeOK, HookState
  <2>1. ASSUME NEW e \in Events, Deactivate(e) PROVE Cause
    <3>1. /\ attempt[e].seen <= hook.failures /\ attempt[e].seen >= Threshold
          /\ attempt[e].seen \in Nat /\ hook.failures \in Nat
      BY <1>1, <2>1 DEF Inductive, Sound, Justified, Deactivate, TypeOK, AttemptState
    <3> QED BY <3>1, WebhookAssumption
  <2>2. ASSUME NEW e \in Events, CountFailure(e) PROVE Cause
    BY <1>1, <2>0, <2>2 DEF CountFailure, MayFail, Row
  <2>3. ASSUME NEW u \in Editors, WriteUpdate(u) PROVE Cause
    BY <1>1, <2>0, <2>3 DEF WriteUpdate, Row
  <2>4. CASE DeleteWebhook
    BY <1>1, <2>4 DEF DeleteWebhook
  <2>5. CASE UNCHANGED hook
    BY <2>0, <2>5
  <2>6. UNCHANGED hook \/ DeleteWebhook \/ (\E u \in Editors : WriteUpdate(u))
        \/ \E e \in Events : Deactivate(e) \/ CountFailure(e)
    BY <1>1 DEF Next, HandlerStep, Dispatch, Enqueue, DispatchDies, Take, Fetch, Post,
       LogSuccess, LogFailure, Ack, Nack, Recover, WorkerDies, WorkerStops, StartUpdate,
       Reread, Cleanup, vars, process, history
  <2> QED BY <2>1, <2>2, <2>3, <2>4, <2>5, <2>6
<1>2. Inductive /\ [Next]_vars =>
        [On /\ hook'.state = "off" =>
           \/ hook.failures >= Threshold
           \/ \E u \in Editors : editor[u].pc = "write" /\ ~editor[u].on]_vars
  BY <1>1
<1> QED BY <1>2, InductiveHolds, PTL DEF Spec, SwitchedOffForCause

----------------------------------------------------------------------------
(* How late a webhook is switched off, if its endpoint answers, nothing    *)
(* dies and nobody turns it on again.                                      *)

Undisturbed == Faults \cap {"db", "http", "worker"} = {} /\ MaxRestarts = 0 /\ Editors = {}

\* Attempts that may still count a failure without switching the webhook off,
\* and attempts that are about to switch it off.
Stale    == {e \in Events : (At(e, "post") \/ At(e, "logFailed") \/ At(e, "count"))
                             /\ attempt[e].seen < Threshold}
Deciding == {e \in Events : At(e, "deactivate")}

Answered == \A e \in Events : At(e, "logFailed") \/ At(e, "count") => attempt[e].answered
InSlots  == Cardinality(Running) <= Slots

\* Beyond the threshold a failure is counted by a stale attempt, which then is
\* one no more, or by one that goes on to decide.
Overdue ==
  On /\ hook.failures >= Threshold =>
    hook.failures + Cardinality(Stale) <= Threshold + Slots - 1 + Cardinality(Deciding)

Timely == Answered /\ InSlots /\ Overdue

LEMMA Sizes ==
  ASSUME NEW S \in SUBSET Events, NEW R \in SUBSET S
  PROVE  /\ IsFiniteSet(S) /\ Cardinality(S) \in Nat
         /\ IsFiniteSet(R) /\ Cardinality(R) \in Nat /\ Cardinality(R) <= Cardinality(S)
BY WebhookAssumption, FS_Subset, FS_CardinalityType

\* A step that neither takes nor counts: no attempt becomes stale, and the
\* ones that decide are the same.
LEMMA Quiet ==
  ASSUME TypeOK, Timely, hook' = hook, Running' \subseteq Running,
         Stale' \subseteq Stale, Deciding' = Deciding
  PROVE  InSlots' /\ Overdue'
<1>1. Running \in SUBSET Events /\ Stale \in SUBSET Events /\ Deciding \in SUBSET Events
  BY DEF Running, Stale, Deciding
<1>2. Cardinality(Running') <= Cardinality(Running) /\ Cardinality(Running') \in Nat
      /\ Cardinality(Running) \in Nat
  BY <1>1, Sizes
<1>3. Cardinality(Stale') <= Cardinality(Stale) /\ Cardinality(Stale') \in Nat
      /\ Cardinality(Stale) \in Nat /\ Cardinality(Deciding) \in Nat
  BY <1>1, Sizes
<1>4. InSlots'
  BY <1>2, WebhookAssumption DEF Timely, InSlots
<1>5. hook.failures \in Nat /\ (On' <=> On)
  BY DEF TypeOK, On
<1> QED BY <1>3, <1>4, <1>5, WebhookAssumption DEF Timely, Overdue

\* An attempt may start while a slot is free.
LEMMA TakeTimely ==
  ASSUME Inductive, Timely, NEW e \in Events, Take(e)
  PROVE  Timely'
<1>0. TypeOK /\ At(e, "none") /\ hook' = hook
  BY DEF Inductive, Sound, InOrder, Take, At
<1>1. attempt' = [attempt EXCEPT ![e] = [pc |-> "fetch", seen |-> 0, answered |-> FALSE]]
  BY DEF Take, Moved, NoAttempt
<1>2. Stale' = Stale /\ Deciding' = Deciding /\ Answered'
  BY <1>0, <1>1 DEF Stale, Deciding, Answered, Timely, At, TypeOK
<1>3. Running' = Running \cup {e} /\ Running \in SUBSET Events
  BY <1>0, <1>1 DEF Running, At, TypeOK
<1>4. Cardinality(Running') <= Cardinality(Running) + 1 /\ Cardinality(Running) \in Nat
  BY <1>3, Sizes, FS_AddElement
<1>5. Cardinality(Running') \in Nat
  BY <1>3, Sizes
<1>6. InSlots'
  BY <1>4, <1>5, WebhookAssumption DEF InSlots, Take
<1>7. Overdue'
  BY <1>0, <1>2 DEF Timely, Overdue, On
<1> QED BY <1>2, <1>6, <1>7 DEF Timely

\* A new attempt is stale only below the threshold.
LEMMA FetchTimely ==
  ASSUME Undisturbed, Inductive, Timely, NEW e \in Events, Fetch(e)
  PROVE  Timely'
<1>0. TypeOK /\ hook' = hook /\ At(e, "fetch")
      /\ hook.failures \in Nat
  BY DEF Inductive, TypeOK, Fetch, history
<1>1. CASE attempt' = [attempt EXCEPT ![e] = Found(hook.failures)]
  <2>1. Running' = Running /\ Deciding' = Deciding /\ Answered'
    BY <1>0, <1>1 DEF Running, Deciding, Answered, Timely, At, Found, TypeOK
  <2>2. InSlots' BY <2>1 DEF Timely, InSlots
  <2>3. CASE hook.failures >= Threshold
    <3>1. Stale' = Stale
      BY <1>0, <1>1, <2>3, WebhookAssumption DEF Stale, At, Found, TypeOK
    <3> QED BY <1>0, <2>1, <2>2, <3>1 DEF Timely, Overdue, On
  <2>4. CASE ~(hook.failures >= Threshold)
    BY <1>0, <2>1, <2>2, <2>4 DEF Timely, Overdue
  <2> QED BY <2>3, <2>4
<1>2. CASE Goto(e, "done")
  <2>1. Running' = Running /\ Stale' = Stale /\ Deciding' = Deciding /\ Answered'
    BY <1>0, <1>2 DEF Running, Stale, Deciding, Answered, Timely, At, Goto, Moved, TypeOK
  <2> QED BY <1>0, <2>1, Quiet DEF Timely
<1> QED BY <1>1, <1>2 DEF Fetch, MayFail, Undisturbed

\* What an attempt does between its POST and its count, or after it.
LEMMA RestTimely ==
  ASSUME Undisturbed, Inductive, Timely, NEW e \in Events,
         Post(e) \/ LogSuccess(e) \/ LogFailure(e) \/ Ack(e) \/ Nack(e)
  PROVE  Timely'
<1>0. TypeOK /\ hook' = hook /\ Answered
  BY DEF Inductive, Timely, Post, LogSuccess, LogFailure, Ack, Nack, history
<1>1. ASSUME Running' \subseteq Running, Stale' \subseteq Stale, Deciding' = Deciding, Answered'
      PROVE  Timely'
  BY <1>0, <1>1, Quiet DEF Timely
<1> USE DEF Running, Stale, Deciding, Answered, At, Goto, Moved, TypeOK
<1>2. CASE Post(e)
  <2>1. CASE Goto(e, "logOk")
    <3>1. Running' \subseteq Running /\ Stale' \subseteq Stale /\ Deciding' = Deciding /\ Answered'
      BY <1>0, <1>2, <2>1 DEF Post
    <3> QED BY <1>1, <3>1
  <2>2. CASE attempt' = [attempt EXCEPT ![e] = Refused(@)]
    <3>1. Running' \subseteq Running /\ Stale' \subseteq Stale /\ Deciding' = Deciding /\ Answered'
      BY <1>0, <1>2, <2>2 DEF Post, Refused
    <3> QED BY <1>1, <3>1
  <2> QED BY <1>2, <2>1, <2>2 DEF Post, Undisturbed
<1>3. CASE LogSuccess(e)
  BY <1>0, <1>1, <1>3 DEF LogSuccess
<1>4. CASE LogFailure(e)
  BY <1>0, <1>1, <1>4 DEF LogFailure
<1>5. CASE Ack(e) \/ Nack(e)
  BY <1>0, <1>1, <1>5 DEF Ack, Nack, NoAttempt
<1> QED BY <1>2, <1>3, <1>4, <1>5

\* The count itself: at the threshold the counting attempt was stale, so that
\* one slot less is; beyond it, it was stale or goes on to decide.
LEMMA CountTimely ==
  ASSUME Undisturbed, Inductive, Inductive', Timely, NEW e \in Events, CountFailure(e)
  PROVE  Timely'
<1>0. /\ TypeOK /\ At(e, "count") /\ attempt[e].answered
      /\ attempt[e].seen \in Nat /\ attempt[e].seen <= hook.failures /\ hook.failures \in Nat
      /\ Running \in SUBSET Events /\ Stale \in SUBSET Running /\ Deciding \in SUBSET Running
      /\ Threshold \in Nat /\ Slots \in Nat
  BY WebhookAssumption DEF Inductive, TypeOK, Sound, Justified, Timely, Answered, CountFailure,
     AttemptState, Running, Stale, Deciding, At
<1>1. attempt' = [attempt EXCEPT ![e] =
                    Moved(@, IF attempt[e].seen >= Threshold THEN "deactivate" ELSE "error")]
  BY <1>0 DEF CountFailure, AfterCount, Goto
<1>2. Running' = Running /\ Answered'
  BY <1>0, <1>1 DEF Running, Answered, Timely, At, Moved, TypeOK
<1>3. /\ Cardinality(Stale) \in Nat /\ Cardinality(Stale) <= Cardinality(Running)
      /\ Cardinality(Deciding) \in Nat /\ Cardinality(Running) \in Nat
      /\ IsFiniteSet(Stale) /\ IsFiniteSet(Deciding) /\ Cardinality(Running) <= Slots
  BY <1>0, Sizes DEF Timely, InSlots
<1>4. On' => On /\ hook'.failures = hook.failures + 1
  BY <1>0 DEF CountFailure, MayFail, Row, On, Undisturbed, TypeOK
<1>5. Overdue'
  <2>1. CASE attempt[e].seen < Threshold
    <3>1. Stale' = Stale \ {e} /\ e \in Stale /\ Deciding' = Deciding
      BY <1>0, <1>1, <2>1 DEF Stale, Deciding, At, Moved, TypeOK
    <3>2. Cardinality(Stale') = Cardinality(Stale) - 1
      BY <1>3, <3>1, FS_RemoveElement
    <3> QED BY <1>0, <1>3, <1>4, <3>1, <3>2 DEF Overdue, Timely
  <2>2. CASE attempt[e].seen >= Threshold
    <3>1. Stale' = Stale /\ e \notin Deciding /\ Deciding' = Deciding \cup {e}
      BY <1>0, <1>1, <2>2 DEF Stale, Deciding, At, Moved, TypeOK
    <3>2. Cardinality(Deciding') = Cardinality(Deciding) + 1
      BY <1>3, <3>1, FS_AddElement
    <3>3. hook.failures >= Threshold BY <1>0, <2>2
    <3> QED BY <1>0, <1>3, <1>4, <3>1, <3>2, <3>3 DEF Overdue, Timely
  <2> QED BY <1>0, <2>1, <2>2
<1> QED BY <1>2, <1>5 DEF Timely, InSlots

LEMMA TimelyNext ==
  ASSUME Undisturbed, Inductive, Inductive', Timely, [Next]_vars
  PROVE  Timely'
<1>0. TypeOK BY DEF Inductive
<1>1. ASSUME NEW e \in Events,
             \/ Take(e) \/ Fetch(e) \/ Post(e) \/ LogSuccess(e) \/ LogFailure(e)
             \/ CountFailure(e) \/ Ack(e) \/ Nack(e)
      PROVE  Timely'
  BY <1>1, TakeTimely, FetchTimely, RestTimely, CountTimely
<1>2. ASSUME NEW e \in Events, Deactivate(e) PROVE Timely'
  <2>1. ~On'
    BY <1>0, <1>2 DEF Deactivate, MayFail, Row, On, Undisturbed, TypeOK
  <2>2. Running' = Running /\ Answered'
    BY <1>0, <1>2 DEF Deactivate, Goto, Moved, Running, Answered, Timely, At, TypeOK
  <2> QED BY <2>1, <2>2 DEF Timely, Overdue, InSlots
<1>3. CASE DeleteWebhook
  BY <1>3 DEF DeleteWebhook, process, Timely, Overdue, InSlots, Answered, Running, At, On
<1>4. ASSUME UNCHANGED <<hook, attempt>> PROVE Timely'
  BY <1>4 DEF Timely, Overdue, InSlots, Answered, Running, Stale, Deciding, At, On
<1>5. ASSUME NEW e \in Events, Dispatch(e) \/ Enqueue(e) \/ DispatchDies(e) \/ Recover(e)
      PROVE  UNCHANGED <<hook, attempt>>
  BY <1>5 DEF Dispatch, Enqueue, DispatchDies, Recover
<1>6. ~WorkerDies /\ ~WorkerStops
  BY <1>0 DEF WorkerDies, WorkerStops, Undisturbed, TypeOK
<1>7. Cleanup => UNCHANGED <<hook, attempt>>
  BY DEF Cleanup, process
<1> QED
  BY <1>1, <1>2, <1>3, <1>4, <1>5, <1>6, <1>7 DEF Next, HandlerStep, Undisturbed, vars, process

\* For every number of slots and every threshold, two rounds of the slots are
\* all a webhook can exceed its threshold by.
THEOREM OffInTime == ASSUME Undisturbed PROVE Spec => []DeactivatedInTime
<1>1. Init => Timely
  <2>1. ASSUME Init PROVE Running = {} /\ Stale = {} /\ Deciding = {} /\ Answered
    BY <2>1 DEF Init, NoAttempt, Running, Stale, Deciding, Answered, At
  <2>2. Cardinality({}) = 0 BY FS_EmptySet
  <2>3. ASSUME Init PROVE InSlots /\ Overdue
    <3>1. hook.failures = 0 BY <2>3 DEF Init
    <3> QED BY <2>1, <2>2, <2>3, <3>1, WebhookAssumption DEF InSlots, Overdue
  <2> QED BY <2>1, <2>3 DEF Timely
<1>2. Inductive /\ Inductive' /\ Timely /\ [Next]_vars => Timely'
  BY TimelyNext
<1>3. Inductive /\ Timely => DeactivatedInTime
  <2> SUFFICES ASSUME Inductive, Timely, On
               PROVE  hook.failures <= Threshold + 2 * Slots - 1
    BY DEF DeactivatedInTime
  <2>1. /\ Running \in SUBSET Events /\ Stale \in SUBSET Running /\ Deciding \in SUBSET Running
        /\ hook.failures \in Nat
    BY DEF Running, Stale, Deciding, At, Inductive, TypeOK
  <2>2. /\ Cardinality(Stale) \in Nat /\ Cardinality(Deciding) \in Nat
        /\ Cardinality(Deciding) <= Cardinality(Running) /\ Cardinality(Running) \in Nat
    BY <2>1, Sizes
  <2> QED BY <2>1, <2>2, WebhookAssumption DEF Timely, InSlots, Overdue
<1> QED BY <1>1, <1>2, <1>3, InductiveHolds, PTL DEF Spec

----------------------------------------------------------------------------
(* The count, against the log.                                             *)

\* No UPDATE of the count is lost, and no attempt between its two statements.
NoneLost == {"db", "worker"} \cap Faults = {} /\ MaxRestarts = 0

Counting == {e \in Events : At(e, "count")}

LEMMA CountingFinite ==
  /\ Counting \in SUBSET Events /\ IsFiniteSet(Counting) /\ Cardinality(Counting) \in Nat
  /\ Counting' \in SUBSET Events /\ IsFiniteSet(Counting') /\ Cardinality(Counting') \in Nat
<1>1. Counting \in SUBSET Events /\ Counting' \in SUBSET Events BY DEF Counting
<1> QED BY <1>1, WebhookAssumption, FS_Subset, FS_CardinalityType

\* A step of an attempt that is not, and does not come, to the count.
LEMMA CountingSame ==
  ASSUME TypeOK, NEW e \in Events, ~At(e, "count"), NEW a, a.pc # "count",
         attempt' = [attempt EXCEPT ![e] = a]
  PROVE  Counting' = Counting
BY DEF TypeOK, Counting, At

LEMMA OtherSteps ==
  ASSUME Inductive, NEW e \in Events,
         \/ Take(e) \/ Fetch(e) \/ Post(e) \/ LogSuccess(e) \/ Deactivate(e)
         \/ Ack(e) \/ Nack(e)
  PROVE  /\ Counting' = Counting
         /\ hook'.failures = hook.failures /\ (hook.state = "gone" => hook'.state = "gone")
         /\ logs'.failed = logs.failed
<1>1. TypeOK /\ ~At(e, "count")
  BY DEF Inductive, Sound, InOrder, Take, Fetch, Post, LogSuccess, Deactivate, Ack, Nack, At
<1>2. \E a : a.pc # "count" /\ attempt' = [attempt EXCEPT ![e] = a]
  <2>1. CASE Take(e) \/ LogSuccess(e) \/ Deactivate(e) \/ Ack(e) \/ Nack(e)
    BY <2>1 DEF Take, LogSuccess, Deactivate, Ack, Nack, Goto, Moved, NoAttempt
  <2>2. CASE Fetch(e)
    BY <2>2 DEF Fetch, MayFail, Goto, Moved, Found
  <2>3. CASE Post(e)
    BY <2>3 DEF Post, Goto, Moved, Refused
  <2> QED BY <2>1, <2>2, <2>3
<1>3. Counting' = Counting BY <1>1, <1>2, CountingSame
<1>4. CASE Take(e) \/ Fetch(e) \/ Post(e) \/ Ack(e) \/ Nack(e)
  BY <1>3, <1>4 DEF Take, Fetch, Post, Ack, Nack, history
<1>5. CASE LogSuccess(e)
  BY <1>1, <1>3, <1>5 DEF LogSuccess, TypeOK, history
<1>6. CASE Deactivate(e)
  BY <1>1, <1>3, <1>6 DEF Deactivate, MayFail, Row, TypeOK
<1> QED BY <1>4, <1>5, <1>6

\* A logged failure is about to be counted.
LEMMA LogCounted ==
  ASSUME TypeOK, FailuresAllCounted, NEW e \in Events, LogFailure(e)
  PROVE  FailuresAllCounted'
<1>1. /\ attempt' = [attempt EXCEPT ![e] = Moved(@, "count")] /\ At(e, "logFailed")
      /\ hook' = hook
  BY DEF LogFailure, Goto, history
<1>2. Counting' = Counting \cup {e} /\ e \notin Counting
  BY <1>1 DEF TypeOK, Counting, At, Moved
<1>3. Cardinality(Counting') = Cardinality(Counting) + 1
  BY <1>2, CountingFinite, FS_AddElement
<1>4. logs'.failed \in Nat /\ logs.failed \in Nat /\ logs'.failed <= logs.failed + 1
      /\ hook.failures \in Nat
  BY DEF LogFailure, TypeOK
<1> QED BY <1>1, <1>3, <1>4, CountingFinite DEF FailuresAllCounted, Counting

\* A failure that was about to be counted is counted.
LEMMA CountCounted ==
  ASSUME NoneLost, TypeOK, FailuresAllCounted, NEW e \in Events, CountFailure(e)
  PROVE  FailuresAllCounted'
<1>1. /\ \E pc \in {"deactivate", "error"} : attempt' = [attempt EXCEPT ![e] = Moved(@, pc)]
      /\ At(e, "count") /\ logs' = logs /\ Row(hook.state, hook.failures + 1)
  BY DEF CountFailure, MayFail, AfterCount, Goto, NoneLost, history
<1>2. Counting' = Counting \ {e} /\ e \in Counting
  BY <1>1 DEF TypeOK, Counting, At, Moved
<1>3. Cardinality(Counting') = Cardinality(Counting) - 1
  BY <1>2, CountingFinite, FS_RemoveElement
<1>4. logs.failed \in Nat /\ hook.failures \in Nat
  BY DEF TypeOK
<1>5. hook'.state # "gone" => hook.state # "gone" /\ hook'.failures = hook.failures + 1
  BY <1>1 DEF Row
<1> QED BY <1>1, <1>3, <1>4, <1>5, CountingFinite DEF FailuresAllCounted, Counting

LEMMA FailuresNext ==
  ASSUME NoneLost, Inductive, FailuresAllCounted, [Next]_vars
  PROVE  FailuresAllCounted'
<1>0. TypeOK /\ hook.failures \in Nat /\ logs.failed \in Nat /\ logs'.failed \in Nat
  BY TypeNext DEF TypeOK, Inductive
<1>1. ASSUME Counting' = Counting, hook'.failures = hook.failures,
             hook.state = "gone" => hook'.state = "gone", logs'.failed <= logs.failed
      PROVE  FailuresAllCounted'
  BY <1>0, <1>1, CountingFinite DEF FailuresAllCounted, Counting
<1>2. ASSUME UNCHANGED <<hook, logs, attempt>> PROVE FailuresAllCounted'
  BY <1>2 DEF FailuresAllCounted, At
<1>3. ASSUME NEW e \in Events,
             Dispatch(e) \/ Enqueue(e) \/ DispatchDies(e) \/ Recover(e)
      PROVE  UNCHANGED <<hook, logs, attempt>>
  BY <1>3 DEF Dispatch, Enqueue, DispatchDies, Recover
<1>4. ASSUME NEW e \in Events,
             \/ Take(e) \/ Fetch(e) \/ Post(e) \/ LogSuccess(e) \/ Deactivate(e)
             \/ Ack(e) \/ Nack(e)
      PROVE  FailuresAllCounted'
  BY <1>0, <1>1, <1>4, OtherSteps
<1>5. ASSUME NEW e \in Events, LogFailure(e) \/ CountFailure(e) PROVE FailuresAllCounted'
  BY <1>0, <1>5, LogCounted, CountCounted
<1>6. ~WorkerDies /\ ~WorkerStops
  BY DEF WorkerDies, WorkerStops, NoneLost, Inductive, TypeOK
<1>7. ASSUME NEW u \in Editors, NEW on \in BOOLEAN, StartUpdate(u, on) \/ Reread(u)
      PROVE  UNCHANGED <<hook, logs, attempt>>
  BY <1>7 DEF StartUpdate, Reread
<1>8. ASSUME NEW u \in Editors, WriteUpdate(u) PROVE FailuresAllCounted'
  <2>1. UNCHANGED <<logs, attempt>> BY <1>8 DEF WriteUpdate
  <2>2. hook'.failures = hook.failures /\ (hook.state = "gone" => hook'.state = "gone")
    BY <1>8 DEF WriteUpdate, Row
  <2>3. Counting' = Counting BY <2>1 DEF Counting, At
  <2> QED BY <1>0, <1>1, <2>1, <2>2, <2>3
<1>9. CASE DeleteWebhook
  BY <1>9 DEF DeleteWebhook, FailuresAllCounted
<1>10. CASE Cleanup
  <2>1. UNCHANGED <<hook, attempt>> /\ logs'.failed <= logs.failed
    BY <1>0, <1>10 DEF Cleanup, process
  <2>2. Counting' = Counting BY <2>1 DEF Counting, At
  <2> QED BY <1>1, <2>1, <2>2
<1>11. CASE UNCHANGED vars
  BY <1>2, <1>11 DEF vars, process
<1> QED
  BY <1>2, <1>3, <1>4, <1>5, <1>6, <1>7, <1>8, <1>9, <1>10, <1>11 DEF Next, HandlerStep

\* Attempts that fail side by side, while the owner edits the webhook or
\* deletes it and old logs are removed, are all counted.
THEOREM FailuresCounted == ASSUME NoneLost PROVE Spec => []FailuresAllCounted
<1>1. Init => FailuresAllCounted
  <2> SUFFICES ASSUME Init PROVE FailuresAllCounted
    OBVIOUS
  <2>1. logs.failed = 0 /\ hook.failures = 0 BY DEF Init
  <2> QED BY <2>1, CountingFinite DEF FailuresAllCounted, Counting
<1> QED BY <1>1, FailuresNext, InductiveHolds, PTL DEF Spec
============================================================================
