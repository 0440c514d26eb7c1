------------------------------- MODULE Quota -------------------------------
(***************************************************************************)
(* The sending quota of one user.  CheckAndIncrement reads the day's and   *)
(* the month's counter from Redis, later increments both, and last adds to *)
(* the usage columns of the subscription row, which the nightly task       *)
(* resets.  Requests run concurrently; each call is an action.             *)
(*                                                                         *)
(* Redis keys carry the subscription's started_at, so that a new period    *)
(* starts from zero.  Their TTLs outlast the day and the month they count  *)
(* and are left out, like the super admin, who skips the check.            *)
(***************************************************************************)
EXTENDS Naturals, FiniteSets

CONSTANTS
  Senders,       \* concurrent requests that ask for quota
  Unlimited,     \* the limit -1
  DailyLimit,    \* of the plan
  MonthlyLimit,
  Overage,       \* the plan has a price for e-mails beyond the monthly limit
  TicksPerDay,   \* resolution of NOW()
  DaysPerMonth,
  MaxDelay,      \* ticks the nightly task may wait in its queue
  MaxTime,       \* bound: last tick of the run
  MaxPeriods,    \* bound: subscription periods after the first
  Faults         \* calls to Redis and the database may fail

ASSUME QuotaAssumption ==
  /\ IsFiniteSet(Senders) /\ Senders # {}
  /\ Unlimited \notin Nat
  /\ DailyLimit \in Nat \cup {Unlimited} /\ MonthlyLimit \in Nat \cup {Unlimited}
  /\ Overage \in BOOLEAN /\ Faults \in BOOLEAN
  /\ TicksPerDay \in Nat \ {0} /\ DaysPerMonth \in Nat \ {0}
  /\ MaxDelay \in 0..(TicksPerDay - 1)
  /\ MaxTime \in Nat /\ MaxPeriods \in Nat

VARIABLES
  now,
  period,    \* started_at of the subscription, counted
  dayKey,    \* Redis: e-mails by period and day
  monthKey,  \* Redis: e-mails by period and month
  usage,     \* usage columns of the active subscription
  sender,    \* local state of each request
  nightly,   \* the reset task
  passed     \* history: requests let through, by period and day

vars == <<now, period, dayKey, monthKey, usage, sender, nightly, passed>>

----------------------------------------------------------------------------
Periods   == 0..MaxPeriods
Day(t)    == t \div TicksPerDay
Month(t)  == Day(t) \div DaysPerMonth
Days      == 0..Day(MaxTime)
Months    == 0..Month(MaxTime)

SenderState == [pc : {"idle", "day", "month", "incr", "usage"},
                period : Periods, day : Days, month : Months]
IdleSender  == [pc |-> "idle", period |-> 0, day |-> 0, month |-> 0]

Usage == [today : Nat, month : Nat, dayReset : Nat, monthReset : Nat]
Fresh == [today |-> 0, month |-> 0, dayReset |-> now + TicksPerDay,
          monthReset |-> now + TicksPerDay * DaysPerMonth]
OneMore(u)  == [today |-> u.today + 1, month |-> u.month + 1,
                dayReset |-> u.dayReset, monthReset |-> u.monthReset]

\* Mutant of NewDay: the day's allowance is subtracted.
LessDay(u)  == [today |-> u.today - DailyLimit, month |-> u.month,
                dayReset |-> now + TicksPerDay, monthReset |-> u.monthReset]

NewDay(u)   == [today |-> 0, month |-> u.month,
                dayReset |-> now + TicksPerDay, monthReset |-> u.monthReset]

Key(s)  == <<sender[s].period, sender[s].day>>
MKey(s) == <<sender[s].period, sender[s].month>>

At(s, pc)   == sender[s].pc = pc
Goto(s, pc) == sender' = [sender EXCEPT ![s].pc = pc]
Leave(s)    == sender' = [sender EXCEPT ![s] = IdleSender]

\* Mutant of Reached: off by one.
Exceeded(limit, count) == limit # Unlimited /\ count > limit

Reached(limit, count) == limit # Unlimited /\ count >= limit

----------------------------------------------------------------------------
(* CheckAndIncrement.                                                      *)

\* The subscription is read and the keys are formed.
Start(s) ==
  /\ At(s, "idle")
  /\ sender' = [sender EXCEPT ![s] =
       [pc |-> "day", period |-> period, day |-> Day(now), month |-> Month(now)]]
  /\ UNCHANGED <<now, period, dayKey, monthKey, usage, nightly, passed>>

CheckDay(s) ==
  /\ At(s, "day")
  /\ IF Reached(DailyLimit, dayKey[Key(s)]) THEN Leave(s) ELSE Goto(s, "month")
  /\ UNCHANGED <<now, period, dayKey, monthKey, usage, nightly, passed>>

CheckMonth(s) ==
  /\ At(s, "month")
  /\ IF Reached(MonthlyLimit, monthKey[MKey(s)]) /\ ~Overage
     THEN Leave(s) ELSE Goto(s, "incr")
  /\ UNCHANGED <<now, period, dayKey, monthKey, usage, nightly, passed>>

CountDay(s)   == dayKey' = [dayKey EXCEPT ![Key(s)] = @ + 1]
CountMonth(s) == monthKey' = [monthKey EXCEPT ![MKey(s)] = @ + 1]

\* The pipeline.
Increment(s) ==
  /\ At(s, "incr")
  /\ CountDay(s) /\ CountMonth(s)
  /\ passed' = [passed EXCEPT ![Key(s)] = @ + 1]
  /\ Goto(s, "usage")
  /\ UNCHANGED <<now, period, usage, nightly>>

\* An error ends the request, though part of the pipeline may have run.
IncrementFails(s) ==
  /\ Faults
  /\ At(s, "incr")
  /\ \/ CountDay(s) /\ CountMonth(s)
     \/ CountDay(s) /\ UNCHANGED monthKey
     \/ UNCHANGED <<dayKey, monthKey>>
  /\ Leave(s)
  /\ UNCHANGED <<now, period, usage, nightly, passed>>

\* An error is only logged.
UpdateUsage(s) ==
  /\ At(s, "usage")
  /\ \/ usage' = OneMore(usage)
     \/ Faults /\ UNCHANGED usage
  /\ Leave(s)
  /\ UNCHANGED <<now, period, dayKey, monthKey, nightly, passed>>

----------------------------------------------------------------------------
(* A new period: a paid plan is activated, or an ended one falls back to   *)
(* the free plan.                                                          *)

\* Mutant of NewPeriod: the usage columns are not reset.
NewPeriodOnly ==
  /\ period < MaxPeriods
  /\ period' = period + 1
  /\ UNCHANGED <<now, dayKey, monthKey, usage, sender, nightly, passed>>

NewPeriod ==
  /\ period < MaxPeriods
  /\ period' = period + 1
  /\ usage' = Fresh
  /\ UNCHANGED <<now, dayKey, monthKey, sender, nightly, passed>>

----------------------------------------------------------------------------
(* The nightly task, enqueued at midnight.                                 *)

NightlyState == {"idle", "day", "month"}

\* Mutant of ResetDaily: the window must have ended before this tick.
ResetEndedDaily ==
  /\ nightly = "day"
  /\ usage' = IF usage.dayReset < now THEN NewDay(usage) ELSE usage
  /\ nightly' = "month"
  /\ UNCHANGED <<now, period, dayKey, monthKey, sender, passed>>

ResetDaily ==
  /\ nightly = "day"
  /\ usage' = IF usage.dayReset <= now THEN NewDay(usage) ELSE usage
  /\ nightly' = "month"
  /\ UNCHANGED <<now, period, dayKey, monthKey, sender, passed>>

ResetMonthly ==
  /\ nightly = "month"
  /\ usage' = IF usage.monthReset <= now THEN Fresh ELSE usage
  /\ nightly' = "idle"
  /\ UNCHANGED <<now, period, dayKey, monthKey, sender, passed>>

\* An error fails the task, which is retried from its first statement.
ResetFails ==
  /\ Faults
  /\ nightly = "month"
  /\ nightly' = "day"
  /\ UNCHANGED <<now, period, dayKey, monthKey, usage, sender, passed>>

Tick ==
  /\ now < MaxTime
  /\ nightly # "idle" => now % TicksPerDay < MaxDelay
  /\ now' = now + 1
  /\ nightly' = IF now' % TicksPerDay = 0 THEN "day" ELSE nightly
  /\ UNCHANGED <<period, dayKey, monthKey, usage, sender, passed>>

Init ==
  /\ now \in 0..(TicksPerDay - 1) /\ now <= MaxTime
  /\ period = 0
  /\ dayKey = [k \in Periods \X Days |-> 0]
  /\ monthKey = [k \in Periods \X Months |-> 0]
  /\ usage = Fresh
  /\ sender = [s \in Senders |-> IdleSender]
  /\ nightly = "idle"
  /\ passed = [k \in Periods \X Days |-> 0]

Next ==
  \/ \E s \in Senders :
       \/ Start(s) \/ CheckDay(s) \/ CheckMonth(s)
       \/ Increment(s) \/ IncrementFails(s) \/ UpdateUsage(s)
  \/ NewPeriod \/ ResetDaily \/ ResetMonthly \/ ResetFails \/ Tick

Spec == Init /\ [][Next]_vars

----------------------------------------------------------------------------
(* Properties.                                                             *)

\* Every variable keeps its type.
TypeOK ==
  /\ now \in 0..MaxTime
  /\ period \in Periods
  /\ dayKey \in [Periods \X Days -> Nat]
  /\ monthKey \in [Periods \X Months -> Nat]
  /\ usage \in Usage
  /\ sender \in [Senders -> SenderState]
  /\ nightly \in NightlyState
  /\ passed \in [Periods \X Days -> Nat]

\* QuotaHolds: requests that race between the check and the increment pass the
\* daily limit, but never by more than the number of the others
\* (CheckAndIncrement).
DailyQuotaHolds ==
  DailyLimit # Unlimited =>
    \A k \in Periods \X Days : passed[k] <= DailyLimit + Cardinality(Senders) - 1

\* The same for the month, unless the plan sells overage.
MonthlyQuotaHolds ==
  MonthlyLimit # Unlimited /\ ~Overage =>
    \A k \in Periods \X Months : monthKey[k] <= MonthlyLimit + Cardinality(Senders) - 1

QuotaHolds == DailyQuotaHolds /\ MonthlyQuotaHolds

\* What a period has let through, by Redis' count.
Total(p) ==
  LET upTo[d \in Days] == passed[<<p, d>>] + IF d = 0 THEN 0 ELSE upTo[d - 1]
  IN  upTo[Day(MaxTime)]

\* The usage that overage is billed from counts no e-mail of an earlier
\* period, except for requests that were under way when the period changed.
UsageOfThisPeriod == usage.month <= Total(period) + Cardinality(Senders)

\* A fresh window is never older than two days and the task's delay: no run
\* of the task in between finds it not yet due twice.
DailyWindowBounded == now < usage.dayReset + TicksPerDay + MaxDelay
============================================================================
