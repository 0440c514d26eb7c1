------------------------------- MODULE Asynq -------------------------------
(***************************************************************************)
(* What the code relies on in asynq, the Redis task queue: the state of a  *)
(* task and what becomes of it when its handler returns an error, when the *)
(* handler's deadline passes, or when the worker's lease on it runs out.   *)
(***************************************************************************)
EXTENDS Naturals

CONSTANT MaxRetry  \* asynq.MaxRetry of the tasks

ASSUME RetryAssumption == MaxRetry \in Nat

TaskState == [state : {"none", "pending", "active", "done", "archived"},
              retried : 0..MaxRetry]
NoTask    == [state |-> "none", retried |-> 0]
Ended     == {"done", "archived"}

In(t, state) == [state |-> state, retried |-> t.retried]

\* Mutants of Again: the retries are not limited, or not counted.
AgainForever(t)   == [state |-> "pending", retried |-> t.retried + 1]
AgainUncounted(t) == [state |-> "pending", retried |-> t.retried]

Again(t) == IF t.retried < MaxRetry
            THEN [state |-> "pending", retried |-> t.retried + 1]
            ELSE [state |-> "archived", retried |-> t.retried]
============================================================================
