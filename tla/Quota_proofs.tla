---------------------------- MODULE Quota_proofs ----------------------------
(* Proofs about Quota: its types, that racing requests pass a limit by at  *)
(* most one less than their number, what overage is billed from, and how   *)
(* long a daily window lasts, for any number of requests and any dates.    *)
EXTENDS Quota, FiniteSetTheorems, TLAPS

LEMMA Division ==
  \A a, n \in Nat : n # 0 => /\ a \div n \in Nat
                             /\ n * (a \div n) <= a /\ a < n * (a \div n) + n
OBVIOUS

LEMMA DivisionMonotone ==
  ASSUME NEW a \in Nat, NEW b \in Nat, NEW n \in Nat \ {0}, a <= b
  PROVE  a \div n <= b \div n
<1> SUFFICES ASSUME b \div n < a \div n PROVE FALSE
  BY Division
<1> DEFINE p == a \div n
           q == b \div n
<1>1. p \in Nat /\ q \in Nat /\ n * p <= a /\ b < n * q + n /\ q + 1 <= p
  BY Division
<1> HIDE DEF p, q
<1>2. n * (q + 1) <= n * p BY <1>1
<1>3. n * (q + 1) = n * q + n BY <1>1
<1> QED BY <1>1, <1>2, <1>3

\* The dates a request forms its keys from are within the run.
LEMMA DatesTyped ==
  ASSUME NEW t \in 0..MaxTime
  PROVE  Day(t) \in Days /\ Month(t) \in Months
<1>1. /\ t \in Nat /\ MaxTime \in Nat /\ t <= MaxTime
      /\ TicksPerDay \in Nat \ {0} /\ DaysPerMonth \in Nat \ {0}
  BY QuotaAssumption
<1>2. /\ t \div TicksPerDay \in Nat /\ MaxTime \div TicksPerDay \in Nat
      /\ t \div TicksPerDay <= MaxTime \div TicksPerDay
  BY <1>1, Division, DivisionMonotone
<1> DEFINE d == t \div TicksPerDay
           e == MaxTime \div TicksPerDay
<1>3. d \in Nat /\ e \in Nat /\ d <= e BY <1>2
<1>4. Day(t) = d /\ Day(MaxTime) = e BY DEF Day
<1> HIDE DEF d, e
<1>5. /\ d \div DaysPerMonth \in Nat /\ e \div DaysPerMonth \in Nat
      /\ d \div DaysPerMonth <= e \div DaysPerMonth
  BY <1>1, <1>3, Division, DivisionMonotone
<1> QED BY <1>3, <1>4, <1>5 DEF Days, Months, Month

LEMMA FreshTyped == now \in 0..MaxTime => Fresh \in Usage
BY QuotaAssumption DEF Fresh, Usage

LEMMA UsageTyped ==
  ASSUME NEW u \in Usage, now \in Nat
  PROVE  OneMore(u) \in Usage /\ NewDay(u) \in Usage
BY QuotaAssumption DEF OneMore, NewDay, Usage

LEMMA TypeInit == Init => TypeOK
<1> SUFFICES ASSUME Init PROVE TypeOK
  OBVIOUS
<1>1. now \in 0..MaxTime BY QuotaAssumption DEF Init
<1>2. 0 \in Days /\ 0 \in Months /\ 0 \in Periods
  <2>1. 0 \in 0..MaxTime BY QuotaAssumption
  <2>2. Day(MaxTime) \in Nat /\ Month(MaxTime) \in Nat
    BY Division, QuotaAssumption DEF Day, Month
  <2> QED BY <2>2, QuotaAssumption DEF Days, Months, Periods
<1>3. IdleSender \in SenderState BY <1>2 DEF IdleSender, SenderState
<1> QED BY <1>1, <1>2, <1>3, FreshTyped DEF Init, TypeOK, NightlyState

LEMMA TypeNext == TypeOK /\ [Next]_vars => TypeOK'
<1> SUFFICES ASSUME TypeOK, [Next]_vars PROVE TypeOK'
  OBVIOUS
<1>0. 0 \in Days /\ 0 \in Months /\ 0 \in Periods
  <2>1. Day(MaxTime) \in Nat /\ Month(MaxTime) \in Nat
    BY Division, QuotaAssumption DEF Day, Month
  <2> QED BY <2>1, QuotaAssumption DEF Days, Months, Periods
<1>1. ASSUME NEW s \in Senders, Leave(s) PROVE sender' \in [Senders -> SenderState]
  <2>1. IdleSender \in SenderState BY <1>0 DEF IdleSender, SenderState
  <2> QED BY <1>1, <2>1 DEF Leave, TypeOK
<1>2. ASSUME NEW s \in Senders, NEW pc \in {"month", "incr", "usage"}, Goto(s, pc)
      PROVE  sender' \in [Senders -> SenderState]
  BY <1>2 DEF Goto, TypeOK, SenderState
<1>3. ASSUME NEW s \in Senders
      PROVE  Key(s) \in Periods \X Days /\ MKey(s) \in Periods \X Months
  BY DEF Key, MKey, TypeOK, SenderState
<1>4. ASSUME NEW s \in Senders, Start(s) PROVE TypeOK'
  <2>1. Day(now) \in Days /\ Month(now) \in Months BY DatesTyped DEF TypeOK
  <2> QED BY <1>4, <2>1 DEF Start, TypeOK, SenderState
<1>5. ASSUME NEW s \in Senders, CheckDay(s) PROVE TypeOK'
  <2>1. sender' \in [Senders -> SenderState] BY <1>1, <1>2, <1>5 DEF CheckDay
  <2> QED BY <1>5, <2>1 DEF CheckDay, TypeOK
<1>6. ASSUME NEW s \in Senders, CheckMonth(s) PROVE TypeOK'
  <2>1. sender' \in [Senders -> SenderState] BY <1>1, <1>2, <1>6 DEF CheckMonth
  <2> QED BY <1>6, <2>1 DEF CheckMonth, TypeOK
<1>7. ASSUME NEW s \in Senders, Increment(s) PROVE TypeOK'
  <2>1. sender' \in [Senders -> SenderState] BY <1>2, <1>7 DEF Increment
  <2> QED BY <1>3, <1>7, <2>1 DEF Increment, CountDay, CountMonth, TypeOK
<1>8. ASSUME NEW s \in Senders, IncrementFails(s) PROVE TypeOK'
  <2>1. sender' \in [Senders -> SenderState] BY <1>1, <1>8 DEF IncrementFails
  <2> QED BY <1>3, <1>8, <2>1 DEF IncrementFails, CountDay, CountMonth, TypeOK
<1>9. ASSUME NEW s \in Senders, UpdateUsage(s) PROVE TypeOK'
  <2>1. sender' \in [Senders -> SenderState] BY <1>1, <1>9 DEF UpdateUsage
  <2>2. usage' \in Usage BY <1>9, UsageTyped DEF UpdateUsage, TypeOK
  <2> QED BY <1>9, <2>1, <2>2 DEF UpdateUsage, TypeOK
<1>10. CASE NewPeriod
  <2>1. period' \in Periods BY <1>10, QuotaAssumption DEF NewPeriod, TypeOK, Periods
  <2>2. usage' \in Usage BY <1>10, FreshTyped DEF NewPeriod, TypeOK
  <2> QED BY <1>10, <2>1, <2>2 DEF NewPeriod, TypeOK
<1>11. CASE ResetDaily
  <2>1. usage' \in Usage BY <1>11, UsageTyped DEF ResetDaily, TypeOK
  <2> QED BY <1>11, <2>1 DEF ResetDaily, TypeOK, NightlyState
<1>12. CASE ResetMonthly
  <2>1. usage' \in Usage BY <1>12, FreshTyped DEF ResetMonthly, TypeOK
  <2> QED BY <1>12, <2>1 DEF ResetMonthly, TypeOK, NightlyState
<1>13. CASE Tick
  BY <1>13, QuotaAssumption DEF Tick, TypeOK, NightlyState
<1>14. CASE ResetFails
  BY <1>14 DEF ResetFails, TypeOK, NightlyState
<1>15. CASE UNCHANGED vars
  BY <1>15 DEF vars, TypeOK
<1> QED
  BY <1>4, <1>5, <1>6, <1>7, <1>8, <1>9, <1>10, <1>11, <1>12, <1>13, <1>14, <1>15
  DEF Next

\* Every reachable state of every instance is well typed.
THEOREM QuotaTypes == Spec => []TypeOK
BY TypeInit, TypeNext, PTL DEF Spec

----------------------------------------------------------------------------
(* The limits.  A counter and the requests that have seen it below the     *)
(* limit but not yet incremented it never add up to more than the limit    *)
(* and all other requests: the last one let in saw the counter below it.   *)

DayPassers(k)   == {s \in Senders : sender[s].pc \in {"month", "incr"} /\ Key(s) = k}
MonthPassers(k) == {s \in Senders : sender[s].pc = "incr" /\ MKey(s) = k}

Room(limit, count, passers) ==
  count + Cardinality(passers) <= limit + Cardinality(Senders) - 1

DayRoom ==
  DailyLimit # Unlimited =>
    \A k \in Periods \X Days : Room(DailyLimit, dayKey[k], DayPassers(k))
MonthRoom ==
  MonthlyLimit # Unlimited /\ ~Overage =>
    \A k \in Periods \X Months : Room(MonthlyLimit, monthKey[k], MonthPassers(k))
Counted == \A k \in Periods \X Days : passed[k] <= dayKey[k]

\* The three things a step may do to a counter and those about to pass it.
Step(limit, count, passers, newcount, newpassers) ==
  \/ newcount = count /\ newpassers \subseteq passers
  \/ newcount = count + 1 /\ \E s \in passers : newpassers = passers \ {s}
  \/ newcount = count /\ count < limit

LEMMA PassersFinite ==
  ASSUME NEW F \in SUBSET Senders
  PROVE  /\ IsFiniteSet(F) /\ Cardinality(F) \in Nat /\ Cardinality(Senders) \in Nat
         /\ Cardinality(F) <= Cardinality(Senders) /\ Cardinality(Senders) >= 1
<1>1. IsFiniteSet(Senders) BY QuotaAssumption
<1>2. Cardinality(Senders) \in Nat /\ Cardinality(Senders) # 0
  BY <1>1, FS_CardinalityType, FS_EmptySet, QuotaAssumption
<1> QED BY <1>1, <1>2, FS_Subset, FS_CardinalityType

LEMMA RoomKept ==
  ASSUME NEW limit \in Nat, NEW c \in Nat, NEW d \in Nat,
         NEW F \in SUBSET Senders, NEW G \in SUBSET Senders,
         Room(limit, c, F), Step(limit, c, F, d, G)
  PROVE  Room(limit, d, G)
<1>1. /\ Cardinality(F) \in Nat /\ Cardinality(G) \in Nat /\ Cardinality(Senders) \in Nat
      /\ Cardinality(G) <= Cardinality(Senders) /\ IsFiniteSet(F)
  BY PassersFinite
<1>2. CASE d = c /\ G \subseteq F
  <2>1. Cardinality(G) <= Cardinality(F) BY <1>1, <1>2, FS_Subset
  <2> QED BY <1>1, <1>2, <2>1 DEF Room
<1>3. CASE d = c + 1 /\ \E s \in F : G = F \ {s}
  <2>1. PICK s \in F : G = F \ {s} BY <1>3
  <2>2. Cardinality(G) = Cardinality(F) - 1 BY <1>1, <2>1, FS_RemoveElement
  <2> QED BY <1>1, <1>3, <2>2 DEF Room
<1>4. CASE d = c /\ c < limit
  BY <1>1, <1>4 DEF Room
<1> QED BY <1>2, <1>3, <1>4 DEF Step

\* What the passers of a key were and become when one request moves.
LEMMA DayMoves ==
  ASSUME NEW s \in Senders, NEW r \in SenderState, NEW k \in Periods \X Days,
         sender \in [Senders -> SenderState], sender' = [sender EXCEPT ![s] = r]
  PROVE  \/ /\ r.pc \in {"month", "incr"} /\ <<r.period, r.day>> = k
            /\ DayPassers(k)' = DayPassers(k) \cup {s}
         \/ /\ ~(r.pc \in {"month", "incr"} /\ <<r.period, r.day>> = k)
            /\ DayPassers(k)' = DayPassers(k) \ {s}
<1>1. \A t \in Senders : sender'[t] = IF t = s THEN r ELSE sender[t]
  OBVIOUS
<1>2. CASE r.pc \in {"month", "incr"} /\ <<r.period, r.day>> = k
  BY <1>1, <1>2 DEF DayPassers, Key
<1>3. CASE ~(r.pc \in {"month", "incr"} /\ <<r.period, r.day>> = k)
  BY <1>1, <1>3 DEF DayPassers, Key
<1> QED BY <1>2, <1>3

LEMMA MonthMoves ==
  ASSUME NEW s \in Senders, NEW r \in SenderState, NEW k \in Periods \X Months,
         sender \in [Senders -> SenderState], sender' = [sender EXCEPT ![s] = r]
  PROVE  \/ /\ r.pc = "incr" /\ <<r.period, r.month>> = k
            /\ MonthPassers(k)' = MonthPassers(k) \cup {s}
         \/ /\ ~(r.pc = "incr" /\ <<r.period, r.month>> = k)
            /\ MonthPassers(k)' = MonthPassers(k) \ {s}
<1>1. \A t \in Senders : sender'[t] = IF t = s THEN r ELSE sender[t]
  OBVIOUS
<1>2. CASE r.pc = "incr" /\ <<r.period, r.month>> = k
  BY <1>1, <1>2 DEF MonthPassers, MKey
<1>3. CASE ~(r.pc = "incr" /\ <<r.period, r.month>> = k)
  BY <1>1, <1>3 DEF MonthPassers, MKey
<1> QED BY <1>2, <1>3

\* What Goto and Leave write, as one record.
Moved(s, pc) == [pc |-> pc, period |-> sender[s].period,
                 day |-> sender[s].day, month |-> sender[s].month]

LEMMA GotoMoves ==
  ASSUME NEW s \in Senders, NEW pc \in {"month", "incr", "usage"},
         sender \in [Senders -> SenderState], Goto(s, pc)
  PROVE  Moved(s, pc) \in SenderState /\ sender' = [sender EXCEPT ![s] = Moved(s, pc)]
<1>1. sender[s] \in SenderState OBVIOUS
<1>2. Moved(s, pc) = [sender[s] EXCEPT !.pc = pc] BY <1>1 DEF Moved, SenderState
<1>3. Moved(s, pc) \in SenderState BY <1>1 DEF Moved, SenderState
<1>4. sender' = [sender EXCEPT ![s] = [sender[s] EXCEPT !.pc = pc]] BY DEF Goto
<1> QED BY <1>2, <1>3, <1>4

LEMMA LeaveMoves ==
  ASSUME NEW s \in Senders, Leave(s)
  PROVE  IdleSender \in SenderState /\ sender' = [sender EXCEPT ![s] = IdleSender]
<1>1. Day(MaxTime) \in Nat /\ Month(MaxTime) \in Nat
  BY Division, QuotaAssumption DEF Day, Month
<1> QED
  BY <1>1, QuotaAssumption
  DEF Leave, IdleSender, SenderState, Periods, Days, Months

LEMMA DayStep ==
  ASSUME TypeOK, [Next]_vars, DailyLimit # Unlimited, NEW k \in Periods \X Days
  PROVE  Step(DailyLimit, dayKey[k], DayPassers(k), dayKey'[k], DayPassers(k)')
<1> DEFINE P == DayPassers(k)
<1>0. sender \in [Senders -> SenderState] /\ dayKey \in [Periods \X Days -> Nat]
      /\ DailyLimit \in Nat
  BY QuotaAssumption DEF TypeOK
<1>1. ASSUME NEW s \in Senders, Leave(s) PROVE P' = P \ {s}
  BY <1>0, <1>1, LeaveMoves, DayMoves DEF IdleSender
<1>2. ASSUME NEW s \in Senders, Start(s) PROVE P' = P \ {s} /\ dayKey' = dayKey
  <2> DEFINE r == [pc |-> "day", period |-> period, day |-> Day(now), month |-> Month(now)]
  <2>1. r \in SenderState BY DatesTyped DEF TypeOK, SenderState
  <2> QED BY <1>0, <1>2, <2>1, DayMoves DEF Start
<1>3. ASSUME NEW s \in Senders, CheckDay(s)
      PROVE  dayKey' = dayKey /\ (P' \subseteq P \/ dayKey[k] < DailyLimit)
  <2>1. CASE Leave(s) BY <1>1, <1>3, <2>1 DEF CheckDay
  <2>2. CASE ~Reached(DailyLimit, dayKey[Key(s)]) /\ Goto(s, "month")
    <3>1. /\ Moved(s, "month") \in SenderState
          /\ sender' = [sender EXCEPT ![s] = Moved(s, "month")]
      BY <1>0, <2>2, GotoMoves
    <3>2. CASE k = Key(s)
      <4>1. dayKey[k] < DailyLimit BY <1>0, <2>2, <3>2 DEF Reached
      <4> QED BY <1>3, <4>1 DEF CheckDay
    <3>3. CASE k # Key(s)
      <4>1. P' = P \ {s} BY <1>0, <3>1, <3>3, DayMoves DEF Moved, Key
      <4> QED BY <1>3, <4>1 DEF CheckDay
    <3> QED BY <3>2, <3>3
  <2> QED BY <1>3, <2>1, <2>2 DEF CheckDay
<1>4. ASSUME NEW s \in Senders, CheckMonth(s) PROVE dayKey' = dayKey /\ P' \subseteq P
  <2>1. CASE Leave(s) BY <1>1, <1>4, <2>1 DEF CheckMonth
  <2>2. CASE Goto(s, "incr")
    <3>1. /\ Moved(s, "incr") \in SenderState
          /\ sender' = [sender EXCEPT ![s] = Moved(s, "incr")]
      BY <1>0, <2>2, GotoMoves
    <3>2. CASE k = Key(s)
      <4>1. s \in P BY <1>4, <3>2 DEF DayPassers, CheckMonth, At
      <4>2. P' = P \cup {s} \/ P' = P \ {s} BY <1>0, <3>1, DayMoves
      <4> QED BY <1>4, <4>1, <4>2 DEF CheckMonth
    <3>3. CASE k # Key(s)
      <4>1. P' = P \ {s} BY <1>0, <3>1, <3>3, DayMoves DEF Moved, Key
      <4> QED BY <1>4, <4>1 DEF CheckMonth
    <3> QED BY <3>2, <3>3
  <2> QED BY <1>4, <2>1, <2>2 DEF CheckMonth
\* The counting step removes the counted request from the passers of its key.
<1>5. ASSUME NEW s \in Senders, At(s, "incr"), CountDay(s), P' = P \ {s}
      PROVE  Step(DailyLimit, dayKey[k], P, dayKey'[k], P')
  <2>1. CASE k = Key(s)
    <3>1. s \in P BY <1>5, <2>1 DEF DayPassers, At
    <3>2. dayKey'[k] = dayKey[k] + 1 BY <1>0, <1>5, <2>1 DEF CountDay
    <3> HIDE DEF P
    <3> QED BY <1>5, <3>1, <3>2 DEF Step
  <2>2. CASE k # Key(s)
    <3>1. dayKey'[k] = dayKey[k] BY <1>0, <1>5, <2>2 DEF CountDay
    <3> HIDE DEF P
    <3> QED BY <1>5, <3>1 DEF Step
  <2> QED BY <2>1, <2>2
<1>6. ASSUME NEW s \in Senders, Increment(s)
      PROVE  Step(DailyLimit, dayKey[k], P, dayKey'[k], P')
  <2>1. Goto(s, "usage") /\ CountDay(s) /\ At(s, "incr") BY <1>6 DEF Increment
  <2>2. /\ Moved(s, "usage") \in SenderState
        /\ sender' = [sender EXCEPT ![s] = Moved(s, "usage")]
    BY <1>0, <2>1, GotoMoves
  <2>3. P' = P \ {s} BY <1>0, <2>2, DayMoves DEF Moved
  <2> QED BY <1>5, <2>1, <2>3
<1>7. ASSUME NEW s \in Senders, IncrementFails(s)
      PROVE  Step(DailyLimit, dayKey[k], P, dayKey'[k], P')
  <2>1. P' = P \ {s} /\ At(s, "incr") BY <1>1, <1>7 DEF IncrementFails
  <2>2. CASE CountDay(s) BY <1>5, <2>1, <2>2
  <2>3. CASE dayKey' = dayKey
    <3> HIDE DEF P
    <3> QED BY <2>1, <2>3 DEF Step
  <2> QED BY <1>7, <2>2, <2>3 DEF IncrementFails
<1>8. ASSUME NEW s \in Senders, UpdateUsage(s) PROVE dayKey' = dayKey /\ P' \subseteq P
  BY <1>1, <1>8 DEF UpdateUsage
<1>9. ASSUME UNCHANGED <<dayKey, sender>> PROVE dayKey' = dayKey /\ P' \subseteq P
  BY <1>9 DEF DayPassers, Key
<1>10. ASSUME NewPeriod \/ ResetDaily \/ ResetMonthly \/ ResetFails \/ Tick \/ UNCHANGED vars
       PROVE  UNCHANGED <<dayKey, sender>>
  BY <1>10 DEF NewPeriod, ResetDaily, ResetMonthly, ResetFails, Tick, vars
<1>11. ASSUME dayKey' = dayKey, P' \subseteq P \/ dayKey[k] < DailyLimit
       PROVE  Step(DailyLimit, dayKey[k], P, dayKey'[k], P')
  <2> HIDE DEF P
  <2> QED BY <1>11 DEF Step
<1>12. ASSUME NEW s \in Senders,
              \/ Start(s) \/ CheckDay(s) \/ CheckMonth(s)
              \/ Increment(s) \/ IncrementFails(s) \/ UpdateUsage(s)
       PROVE  Step(DailyLimit, dayKey[k], P, dayKey'[k], P')
  BY <1>2, <1>3, <1>4, <1>6, <1>7, <1>8, <1>11, <1>12
<1> QED BY <1>9, <1>10, <1>11, <1>12 DEF Next

LEMMA MonthStep ==
  ASSUME TypeOK, [Next]_vars, MonthlyLimit # Unlimited, ~Overage,
         NEW k \in Periods \X Months
  PROVE  Step(MonthlyLimit, monthKey[k], MonthPassers(k), monthKey'[k], MonthPassers(k)')
<1> DEFINE P == MonthPassers(k)
<1>0. sender \in [Senders -> SenderState] /\ monthKey \in [Periods \X Months -> Nat]
      /\ MonthlyLimit \in Nat
  BY QuotaAssumption DEF TypeOK
<1>1. ASSUME NEW s \in Senders, Leave(s) PROVE P' = P \ {s}
  BY <1>0, <1>1, LeaveMoves, MonthMoves DEF IdleSender
<1>2. ASSUME NEW s \in Senders, Start(s) PROVE P' = P \ {s} /\ monthKey' = monthKey
  <2> DEFINE r == [pc |-> "day", period |-> period, day |-> Day(now), month |-> Month(now)]
  <2>1. r \in SenderState BY DatesTyped DEF TypeOK, SenderState
  <2> QED BY <1>0, <1>2, <2>1, MonthMoves DEF Start
<1>3. ASSUME NEW s \in Senders, CheckDay(s) PROVE monthKey' = monthKey /\ P' = P \ {s}
  <2>1. CASE Leave(s) BY <1>1, <1>3, <2>1 DEF CheckDay
  <2>2. CASE Goto(s, "month")
    <3>1. /\ Moved(s, "month") \in SenderState
          /\ sender' = [sender EXCEPT ![s] = Moved(s, "month")]
      BY <1>0, <2>2, GotoMoves
    <3>2. P' = P \ {s} BY <1>0, <3>1, MonthMoves DEF Moved
    <3> QED BY <1>3, <3>2 DEF CheckDay
  <2> QED BY <1>3, <2>1, <2>2 DEF CheckDay
<1>4. ASSUME NEW s \in Senders, CheckMonth(s)
      PROVE  monthKey' = monthKey /\ (P' \subseteq P \/ monthKey[k] < MonthlyLimit)
  <2>1. CASE Leave(s) BY <1>1, <1>4, <2>1 DEF CheckMonth
  <2>2. CASE ~Reached(MonthlyLimit, monthKey[MKey(s)]) /\ Goto(s, "incr")
    <3>1. /\ Moved(s, "incr") \in SenderState
          /\ sender' = [sender EXCEPT ![s] = Moved(s, "incr")]
      BY <1>0, <2>2, GotoMoves
    <3>2. CASE k = MKey(s)
      <4>1. monthKey[k] < MonthlyLimit BY <1>0, <2>2, <3>2 DEF Reached
      <4> QED BY <1>4, <4>1 DEF CheckMonth
    <3>3. CASE k # MKey(s)
      <4>1. P' = P \ {s} BY <1>0, <3>1, <3>3, MonthMoves DEF Moved, MKey
      <4> QED BY <1>4, <4>1 DEF CheckMonth
    <3> QED BY <3>2, <3>3
  <2> QED BY <1>4, <2>1, <2>2 DEF CheckMonth
<1>5. ASSUME NEW s \in Senders, At(s, "incr"), CountMonth(s), P' = P \ {s}
      PROVE  Step(MonthlyLimit, monthKey[k], P, monthKey'[k], P')
  <2>1. CASE k = MKey(s)
    <3>1. s \in P BY <1>5, <2>1 DEF MonthPassers, At
    <3>2. monthKey'[k] = monthKey[k] + 1 BY <1>0, <1>5, <2>1 DEF CountMonth
    <3> HIDE DEF P
    <3> QED BY <1>5, <3>1, <3>2 DEF Step
  <2>2. CASE k # MKey(s)
    <3>1. monthKey'[k] = monthKey[k] BY <1>0, <1>5, <2>2 DEF CountMonth
    <3> HIDE DEF P
    <3> QED BY <1>5, <3>1 DEF Step
  <2> QED BY <2>1, <2>2
<1>6. ASSUME NEW s \in Senders, Increment(s)
      PROVE  Step(MonthlyLimit, monthKey[k], P, monthKey'[k], P')
  <2>1. Goto(s, "usage") /\ CountMonth(s) /\ At(s, "incr") BY <1>6 DEF Increment
  <2>2. /\ Moved(s, "usage") \in SenderState
        /\ sender' = [sender EXCEPT ![s] = Moved(s, "usage")]
    BY <1>0, <2>1, GotoMoves
  <2>3. P' = P \ {s} BY <1>0, <2>2, MonthMoves DEF Moved
  <2> QED BY <1>5, <2>1, <2>3
<1>7. ASSUME NEW s \in Senders, IncrementFails(s)
      PROVE  Step(MonthlyLimit, monthKey[k], P, monthKey'[k], P')
  <2>1. P' = P \ {s} /\ At(s, "incr") BY <1>1, <1>7 DEF IncrementFails
  <2>2. CASE CountMonth(s) BY <1>5, <2>1, <2>2
  <2>3. CASE monthKey' = monthKey
    <3> HIDE DEF P
    <3> QED BY <2>1, <2>3 DEF Step
  <2> QED BY <1>7, <2>2, <2>3 DEF IncrementFails
<1>8. ASSUME NEW s \in Senders, UpdateUsage(s) PROVE monthKey' = monthKey /\ P' \subseteq P
  BY <1>1, <1>8 DEF UpdateUsage
<1>9. ASSUME UNCHANGED <<monthKey, sender>> PROVE monthKey' = monthKey /\ P' \subseteq P
  BY <1>9 DEF MonthPassers, MKey
<1>10. ASSUME NewPeriod \/ ResetDaily \/ ResetMonthly \/ ResetFails \/ Tick \/ UNCHANGED vars
       PROVE  UNCHANGED <<monthKey, sender>>
  BY <1>10 DEF NewPeriod, ResetDaily, ResetMonthly, ResetFails, Tick, vars
<1>11. ASSUME monthKey' = monthKey, P' \subseteq P \/ monthKey[k] < MonthlyLimit
       PROVE  Step(MonthlyLimit, monthKey[k], P, monthKey'[k], P')
  <2> HIDE DEF P
  <2> QED BY <1>11 DEF Step
<1>12. ASSUME NEW s \in Senders,
              \/ Start(s) \/ CheckDay(s) \/ CheckMonth(s)
              \/ Increment(s) \/ IncrementFails(s) \/ UpdateUsage(s)
       PROVE  Step(MonthlyLimit, monthKey[k], P, monthKey'[k], P')
  BY <1>2, <1>3, <1>4, <1>6, <1>7, <1>8, <1>11, <1>12
<1> QED BY <1>9, <1>10, <1>11, <1>12 DEF Next

----------------------------------------------------------------------------
LEMMA PassersTyped ==
  /\ \A k \in Periods \X Days : DayPassers(k) \in SUBSET Senders
  /\ \A k \in Periods \X Months : MonthPassers(k) \in SUBSET Senders
BY DEF DayPassers, MonthPassers

LEMMA LimitsInit == Init => DayRoom /\ MonthRoom /\ Counted
<1> SUFFICES ASSUME Init PROVE DayRoom /\ MonthRoom /\ Counted
  OBVIOUS
<1>1. \A k : DayPassers(k) = {} /\ MonthPassers(k) = {}
  BY DEF Init, IdleSender, DayPassers, MonthPassers
<1>2. Cardinality({}) = 0 /\ Cardinality(Senders) \in Nat /\ Cardinality(Senders) >= 1
  BY PassersFinite, FS_EmptySet
<1>3. \A limit \in Nat : Room(limit, 0, {}) BY <1>2 DEF Room
<1>4. DayRoom BY <1>1, <1>3, QuotaAssumption DEF Init, DayRoom
<1>5. MonthRoom BY <1>1, <1>3, QuotaAssumption DEF Init, MonthRoom
<1>6. Counted BY DEF Init, Counted
<1> QED BY <1>4, <1>5, <1>6

LEMMA DayRoomNext == TypeOK /\ DayRoom /\ [Next]_vars => DayRoom'
<1> SUFFICES ASSUME TypeOK, DayRoom, [Next]_vars, DailyLimit # Unlimited,
                    NEW k \in Periods \X Days
             PROVE  Room(DailyLimit, dayKey'[k], DayPassers(k)')
  BY DEF DayRoom
<1>1. DailyLimit \in Nat /\ dayKey[k] \in Nat /\ dayKey'[k] \in Nat
  BY QuotaAssumption, TypeNext DEF TypeOK
<1>2. DayPassers(k) \in SUBSET Senders /\ DayPassers(k)' \in SUBSET Senders
  BY DEF DayPassers
<1>3. Room(DailyLimit, dayKey[k], DayPassers(k)) BY DEF DayRoom
<1> QED BY <1>1, <1>2, <1>3, DayStep, RoomKept

LEMMA MonthRoomNext == TypeOK /\ MonthRoom /\ [Next]_vars => MonthRoom'
<1> SUFFICES ASSUME TypeOK, MonthRoom, [Next]_vars, MonthlyLimit # Unlimited, ~Overage,
                    NEW k \in Periods \X Months
             PROVE  Room(MonthlyLimit, monthKey'[k], MonthPassers(k)')
  BY DEF MonthRoom
<1>1. MonthlyLimit \in Nat /\ monthKey[k] \in Nat /\ monthKey'[k] \in Nat
  BY QuotaAssumption, TypeNext DEF TypeOK
<1>2. MonthPassers(k) \in SUBSET Senders /\ MonthPassers(k)' \in SUBSET Senders
  BY DEF MonthPassers
<1>3. Room(MonthlyLimit, monthKey[k], MonthPassers(k)) BY DEF MonthRoom
<1> QED BY <1>1, <1>2, <1>3, MonthStep, RoomKept

\* Every request let through was counted under the key it had formed.
LEMMA CountedNext == TypeOK /\ Counted /\ [Next]_vars => Counted'
<1> SUFFICES ASSUME TypeOK, Counted, [Next]_vars, NEW k \in Periods \X Days
             PROVE  passed'[k] <= dayKey'[k]
  BY DEF Counted
<1>0. passed[k] \in Nat /\ dayKey[k] \in Nat /\ passed[k] <= dayKey[k]
  BY DEF TypeOK, Counted
<1>1. ASSUME NEW s \in Senders, Increment(s) PROVE passed'[k] <= dayKey'[k]
  BY <1>0, <1>1 DEF Increment, CountDay, TypeOK
<1>2. ASSUME NEW s \in Senders, IncrementFails(s) PROVE passed'[k] <= dayKey'[k]
  BY <1>0, <1>2 DEF IncrementFails, CountDay, TypeOK
<1>3. ASSUME UNCHANGED <<passed, dayKey>> PROVE passed'[k] <= dayKey'[k]
  BY <1>0, <1>3
<1>4. ASSUME NEW s \in Senders, Start(s) \/ CheckDay(s) \/ CheckMonth(s) \/ UpdateUsage(s)
      PROVE  UNCHANGED <<passed, dayKey>>
  BY <1>4 DEF Start, CheckDay, CheckMonth, UpdateUsage
<1>5. ASSUME NewPeriod \/ ResetDaily \/ ResetMonthly \/ ResetFails \/ Tick \/ UNCHANGED vars
      PROVE  UNCHANGED <<passed, dayKey>>
  BY <1>5 DEF NewPeriod, ResetDaily, ResetMonthly, ResetFails, Tick, vars
<1> QED BY <1>1, <1>2, <1>3, <1>4, <1>5 DEF Next

\* However many requests race, and however periods change under them, what
\* one key lets through exceeds the day's limit by less than their number.
THEOREM DailyQuota == Spec => []DailyQuotaHolds
<1>1. TypeOK /\ DayRoom /\ Counted => DailyQuotaHolds
  <2> SUFFICES ASSUME TypeOK, DayRoom, Counted, DailyLimit # Unlimited,
                      NEW k \in Periods \X Days
               PROVE  passed[k] <= DailyLimit + Cardinality(Senders) - 1
    BY DEF DailyQuotaHolds
  <2>1. /\ DayPassers(k) \in SUBSET Senders /\ DailyLimit \in Nat
        /\ passed[k] \in Nat /\ dayKey[k] \in Nat
    BY PassersTyped, QuotaAssumption DEF TypeOK
  <2>2. Cardinality(DayPassers(k)) \in Nat /\ Cardinality(Senders) \in Nat
    BY <2>1, PassersFinite
  <2>3. /\ passed[k] <= dayKey[k]
        /\ dayKey[k] + Cardinality(DayPassers(k)) <= DailyLimit + Cardinality(Senders) - 1
    BY DEF DayRoom, Room, Counted
  <2> QED BY <2>1, <2>2, <2>3
<1>2. Init => TypeOK /\ DayRoom /\ Counted BY TypeInit, LimitsInit
<1>3. TypeOK /\ DayRoom /\ Counted /\ [Next]_vars => (TypeOK /\ DayRoom /\ Counted)'
  BY TypeNext, DayRoomNext, CountedNext
<1> QED BY <1>1, <1>2, <1>3, PTL DEF Spec

\* The same for the month's limit of a plan that sells no overage.
THEOREM MonthlyQuota == Spec => []MonthlyQuotaHolds
<1>1. TypeOK /\ MonthRoom => MonthlyQuotaHolds
  <2> SUFFICES ASSUME TypeOK, MonthRoom, MonthlyLimit # Unlimited, ~Overage,
                      NEW k \in Periods \X Months
               PROVE  monthKey[k] <= MonthlyLimit + Cardinality(Senders) - 1
    BY DEF MonthlyQuotaHolds
  <2>1. /\ MonthPassers(k) \in SUBSET Senders /\ MonthlyLimit \in Nat
        /\ monthKey[k] \in Nat
    BY PassersTyped, QuotaAssumption DEF TypeOK
  <2>2. Cardinality(MonthPassers(k)) \in Nat /\ Cardinality(Senders) \in Nat
    BY <2>1, PassersFinite
  <2>3. monthKey[k] + Cardinality(MonthPassers(k)) <= MonthlyLimit + Cardinality(Senders) - 1
    BY DEF MonthRoom, Room
  <2> QED BY <2>1, <2>2, <2>3
<1>2. Init => TypeOK /\ MonthRoom BY TypeInit, LimitsInit
<1>3. TypeOK /\ MonthRoom /\ [Next]_vars => (TypeOK /\ MonthRoom)'
  BY TypeNext, MonthRoomNext
<1> QED BY <1>1, <1>2, <1>3, PTL DEF Spec

\* Both limits hold, but for the requests that race.
THEOREM QuotaLimits == Spec => []QuotaHolds
BY DailyQuota, MonthlyQuota, PTL DEF QuotaHolds
----------------------------------------------------------------------------
(* Sums over the days.  The library's induction takes an operator as its   *)
(* parameter; over an interval the pigeonhole principle does as well.      *)

LEMMA Upwards ==
  ASSUME NEW D \in Nat, NEW S \in SUBSET (0..D), 0 \in S,
         \A n \in S : n < D => n + 1 \in S
  PROVE  S = 0..D
<1> SUFFICES ASSUME NEW t \in 0..D, t \notin S PROVE FALSE
  OBVIOUS
<1> DEFINE Q == {n \in 0..t : n \notin S}
           T == Q \ {t}
           below == [n \in Q |-> n - 1]
<1>1. IsFiniteSet(Q) /\ t \in Q
  <2>1. IsFiniteSet(0..t) BY FS_Interval
  <2> QED BY <2>1, FS_Subset
<1>2. IsFiniteSet(T) /\ Cardinality(T) = Cardinality(Q) - 1 /\ Cardinality(Q) \in Nat
  BY <1>1, FS_RemoveElement, FS_CardinalityType
<1>3. below \in [Q -> T]
  <2> SUFFICES ASSUME NEW n \in Q PROVE n - 1 \in T
    OBVIOUS
  <2>1. n \in Nat /\ n # 0 /\ n <= t /\ n \notin S /\ t <= D /\ n - 1 \in 0..D
    OBVIOUS
  <2>2. n - 1 \notin S
    BY <2>1
  <2> QED BY <2>1, <2>2
<1>4. \A x, y \in Q : x # y => below[x] # below[y]
  OBVIOUS
<1> HIDE DEF Q, T, below
<1>5. Cardinality(T) < Cardinality(Q)
  BY <1>2
<1>6. \E x, y \in Q : x # y /\ below[x] = below[y]
  BY <1>1, <1>2, <1>3, <1>5, FS_PigeonHole
<1> QED BY <1>4, <1>6

Counts == [Periods \X Days -> Nat]

\* h adds up the days of period p in f; what Total says of passed, of any f.
AddsUp(h, f, p) == h = [d \in Days |-> f[<<p, d>>] + IF d = 0 THEN 0 ELSE h[d - 1]]
SumOf(f, p) ==
  LET upTo[d \in Days] == f[<<p, d>>] + IF d = 0 THEN 0 ELSE upTo[d - 1]
  IN  upTo[Day(MaxTime)]

LEMMA LastDay == Day(MaxTime) \in Nat /\ Day(MaxTime) \in Days /\ 0 \in Days
<1>1. Day(MaxTime) \in Nat BY Division, QuotaAssumption DEF Day
<1> QED BY <1>1 DEF Days

\* The recursion has a solution: up to each day, one that is extended by the
\* next.
LEMMA SumExists ==
  ASSUME NEW f \in Counts, NEW p \in Periods
  PROVE  \E h : AddsUp(h, f, p)
<1> DEFINE D == Day(MaxTime)
           v(d) == f[<<p, d>>]
           Sums(h, n) == \A d \in 0..n : h[d] = v(d) + IF d = 0 THEN 0 ELSE h[d - 1]
           S == {n \in 0..D : \E h \in [0..n -> Nat] : Sums(h, n)}
<1>1. D \in Nat /\ 0 \in 0..D
  BY LastDay
<1>2. \A d \in 0..D : v(d) \in Nat
  BY DEF Counts, Days
<1> HIDE DEF D, v
<1>3. 0 \in S
  <2> DEFINE h == [d \in 0..0 |-> v(d)]
  <2>1. h \in [0..0 -> Nat] BY <1>1, <1>2
  <2>2. Sums(h, 0) BY <1>1, <1>2
  <2> QED BY <1>1, <2>1, <2>2
<1>4. ASSUME NEW n \in S, n < D PROVE n + 1 \in S
  <2>1. PICK h \in [0..n -> Nat] : Sums(h, n)
    BY <1>4
  <2>2. n \in Nat /\ n + 1 \in 0..D /\ n \in 0..n
    BY <1>1, <1>4
  <2> DEFINE k == [d \in 0..(n + 1) |-> IF d = n + 1 THEN v(n + 1) + h[n] ELSE h[d]]
  <2>3. k \in [0..(n + 1) -> Nat]
    BY <1>2, <2>2
  <2>4. Sums(k, n + 1)
    <3> SUFFICES ASSUME NEW d \in 0..(n + 1) PROVE k[d] = v(d) + IF d = 0 THEN 0 ELSE k[d - 1]
      OBVIOUS
    <3>1. CASE d = n + 1 BY <2>2, <3>1
    <3>2. CASE d # n + 1
      <4>1. d \in 0..n /\ (d # 0 => d - 1 \in 0..n) BY <2>2, <3>2
      <4>2. h[d] = v(d) + IF d = 0 THEN 0 ELSE h[d - 1] BY <2>1, <4>1
      <4> QED BY <2>2, <4>1, <4>2
    <3> QED BY <3>1, <3>2
  <2> QED BY <2>2, <2>3, <2>4
<1>5. S = 0..D
  <2> HIDE DEF S
  <2>1. S \in SUBSET (0..D) BY DEF S
  <2>2. \A n \in S : n < D => n + 1 \in S BY <1>4
  <2> QED BY <1>1, <1>3, <2>1, <2>2, Upwards
<1>6. D \in S
  <2> HIDE DEF S
  <2>1. D \in 0..D BY <1>1
  <2> QED BY <1>5, <2>1
<1>7. PICK h \in [0..D -> Nat] : Sums(h, D)
  BY <1>6
<1>8. h = [d \in Days |-> v(d) + IF d = 0 THEN 0 ELSE h[d - 1]]
  BY <1>7 DEF Days, D
<1> QED BY <1>8 DEF AddsUp, v

LEMMA SumIs ==
  ASSUME NEW f \in Counts, NEW p \in Periods
  PROVE  \E h : AddsUp(h, f, p) /\ SumOf(f, p) = h[Day(MaxTime)]
<1> DEFINE g == CHOOSE h : AddsUp(h, f, p)
<1>1. AddsUp(g, f, p) BY SumExists
<1>2. SumOf(f, p) = g[Day(MaxTime)] BY DEF SumOf, AddsUp
<1> QED BY <1>1, <1>2

\* One more on a day is one more in the sum.
LEMMA SumMoves ==
  ASSUME NEW f \in Counts, NEW g \in Counts, NEW p \in Periods, NEW e \in Days, NEW b \in Nat,
         g[<<p, e>>] = f[<<p, e>>] + b,
         \A d \in Days : d # e => g[<<p, d>>] = f[<<p, d>>]
  PROVE  SumOf(f, p) \in Nat /\ SumOf(g, p) = SumOf(f, p) + b
<1> DEFINE D == Day(MaxTime)
<1>0. D \in Nat /\ Days = 0..D /\ D \in Days /\ e <= D /\ e \in Nat
  BY LastDay DEF Days
<1>1. PICK h : AddsUp(h, f, p) /\ SumOf(f, p) = h[D]
  BY SumIs
<1>2. PICK k : AddsUp(k, g, p) /\ SumOf(g, p) = k[D]
  BY SumIs
<1> HIDE DEF D
<1> DEFINE S == {d \in 0..D : h[d] \in Nat /\ k[d] = h[d] + IF d >= e THEN b ELSE 0}
<1>3. \A d \in 0..D : /\ h[d] = f[<<p, d>>] + IF d = 0 THEN 0 ELSE h[d - 1]
                      /\ k[d] = g[<<p, d>>] + IF d = 0 THEN 0 ELSE k[d - 1]
                      /\ f[<<p, d>>] \in Nat /\ g[<<p, d>>] \in Nat
                      /\ g[<<p, d>>] = f[<<p, d>>] + IF d = e THEN b ELSE 0
  <2> SUFFICES ASSUME NEW d \in Days
               PROVE  /\ h[d] = f[<<p, d>>] + IF d = 0 THEN 0 ELSE h[d - 1]
                      /\ k[d] = g[<<p, d>>] + IF d = 0 THEN 0 ELSE k[d - 1]
                      /\ f[<<p, d>>] \in Nat /\ g[<<p, d>>] \in Nat
                      /\ g[<<p, d>>] = f[<<p, d>>] + IF d = e THEN b ELSE 0
    BY <1>0
  <2>1. f[<<p, d>>] \in Nat /\ g[<<p, d>>] \in Nat
    BY DEF Counts
  <2>2. h[d] = f[<<p, d>>] + IF d = 0 THEN 0 ELSE h[d - 1]
    BY <1>1 DEF AddsUp
  <2>3. k[d] = g[<<p, d>>] + IF d = 0 THEN 0 ELSE k[d - 1]
    BY <1>2 DEF AddsUp
  <2> QED BY <2>1, <2>2, <2>3
<1>4. 0 \in S
  <2>1. 0 \in 0..D /\ (0 >= e <=> 0 = e) BY <1>0
  <2>2. h[0] = f[<<p, 0>>] /\ k[0] = g[<<p, 0>>] /\ f[<<p, 0>>] \in Nat
        /\ g[<<p, 0>>] = f[<<p, 0>>] + IF 0 = e THEN b ELSE 0
    <3>1. /\ h[0] = f[<<p, 0>>] + IF 0 = 0 THEN 0 ELSE h[0 - 1]
          /\ k[0] = g[<<p, 0>>] + IF 0 = 0 THEN 0 ELSE k[0 - 1]
          /\ f[<<p, 0>>] \in Nat /\ g[<<p, 0>>] \in Nat
          /\ g[<<p, 0>>] = f[<<p, 0>>] + IF 0 = e THEN b ELSE 0
      BY <1>3, <2>1
    <3> QED BY <3>1
  <2> QED BY <2>1, <2>2
<1>5. ASSUME NEW n \in S, n < D PROVE n + 1 \in S
  <2>1. n + 1 \in 0..D /\ n + 1 # 0 /\ n \in Nat /\ (n + 1) - 1 = n BY <1>0, <1>5
  <2>2. h[n] \in Nat /\ k[n] = h[n] + IF n >= e THEN b ELSE 0 BY <1>5
  <2>3. /\ h[n + 1] = f[<<p, n + 1>>] + h[n] /\ k[n + 1] = g[<<p, n + 1>>] + k[n]
        /\ f[<<p, n + 1>>] \in Nat
        /\ g[<<p, n + 1>>] = f[<<p, n + 1>>] + IF n + 1 = e THEN b ELSE 0
    BY <1>3, <2>1
  <2> QED BY <1>0, <2>1, <2>2, <2>3
<1>6. S = 0..D
  <2> HIDE DEF S
  <2>1. S \in SUBSET (0..D) BY DEF S
  <2> QED BY <1>0, <1>4, <1>5, <2>1, Upwards
<1>7. D \in S
  BY <1>0, <1>6
<1> QED BY <1>0, <1>1, <1>2, <1>7

\* In particular, equal counts have equal sums.
LEMMA SumSame ==
  ASSUME NEW f \in Counts, NEW g \in Counts, NEW p \in Periods,
         \A d \in Days : g[<<p, d>>] = f[<<p, d>>]
  PROVE  SumOf(f, p) \in Nat /\ SumOf(g, p) = SumOf(f, p)
<1>1. /\ 0 \in Nat /\ 0 \in Days /\ f[<<p, 0>>] \in Nat
      /\ g[<<p, 0>>] = f[<<p, 0>>] + 0
  BY LastDay DEF Counts
<1>2. SumOf(f, p) \in Nat /\ SumOf(g, p) = SumOf(f, p) + 0
  BY <1>1, SumMoves
<1> QED BY <1>2

LEMMA TotalTyped == TypeOK => Total(period) \in Nat /\ Total(period) = SumOf(passed, period)
<1> SUFFICES ASSUME TypeOK PROVE Total(period) \in Nat /\ Total(period) = SumOf(passed, period)
  OBVIOUS
<1>1. Total(period) = SumOf(passed, period) BY DEF Total, SumOf
<1>2. passed \in Counts /\ period \in Periods BY DEF TypeOK, Counts
<1> QED BY <1>1, <1>2, SumSame

----------------------------------------------------------------------------
(* What overage is billed from.  A request is pending when its UPDATE may  *)
(* add to the period's usage what the period's count does not, or no       *)
(* longer, show a slot for: it has been counted, or it began in an earlier *)
(* period.                                                                 *)

Pending == {s \in Senders : \/ At(s, "usage")
                            \/ ~At(s, "idle") /\ sender[s].period # period}
Billed  == usage.month + Cardinality(Pending) <= Total(period) + Cardinality(Senders)

LEMMA PendingFinite ==
  /\ Pending \in SUBSET Senders /\ IsFiniteSet(Pending) /\ Cardinality(Pending) \in Nat
  /\ Cardinality(Senders) \in Nat /\ Cardinality(Pending) <= Cardinality(Senders)
<1>1. Pending \in SUBSET Senders BY DEF Pending
<1> QED BY <1>1, QuotaAssumption, FS_Subset, FS_CardinalityType

LEMMA PendingFinite1 ==
  /\ Pending' \in SUBSET Senders /\ IsFiniteSet(Pending') /\ Cardinality(Pending') \in Nat
  /\ Cardinality(Senders) \in Nat /\ Cardinality(Pending') <= Cardinality(Senders)
<1>1. Pending' \in SUBSET Senders BY DEF Pending
<1> QED BY <1>1, QuotaAssumption, FS_Subset, FS_CardinalityType

LEMMA BilledInit == Init => Billed
<1> SUFFICES ASSUME Init PROVE Billed
  OBVIOUS
<1>1. usage.month = 0 BY DEF Init, Fresh
<1>2. Total(period) \in Nat BY TypeInit, TotalTyped
<1> QED BY <1>1, <1>2, PendingFinite DEF Billed

\* A step that counts nothing and makes nobody pending.
LEMMA BilledKept ==
  ASSUME TypeOK, Billed, UNCHANGED <<period, passed>>, Pending' \subseteq Pending,
         usage'.month = usage.month \/ usage'.month = 0
  PROVE  Billed'
<1>1. Total(period)' = Total(period) BY DEF Total, Days, Day
<1>2. Total(period) \in Nat /\ usage.month \in Nat BY TotalTyped DEF TypeOK, Usage
<1>3. Cardinality(Pending') <= Cardinality(Pending)
  BY PendingFinite, FS_Subset
<1> QED BY <1>1, <1>2, <1>3, PendingFinite, PendingFinite1 DEF Billed

\* A step of one request: the others are as pending as they were.
LEMMA PendingStep ==
  ASSUME TypeOK, NEW s \in Senders, NEW r, UNCHANGED period,
         sender' = [sender EXCEPT ![s] = r]
  PROVE  \A t \in Senders \ {s} : t \in Pending' <=> t \in Pending
BY DEF TypeOK, Pending, At

LEMMA BilledNext == TypeOK /\ Billed /\ [Next]_vars => Billed'
<1> SUFFICES ASSUME TypeOK, Billed, [Next]_vars PROVE Billed'
  OBVIOUS
<1>0. TypeOK' BY TypeNext
<1>1. ASSUME NEW s \in Senders, Start(s) PROVE Billed'
  <2>1. sender'[s].period = period' /\ sender'[s].pc = "day"
    BY <1>1 DEF Start, TypeOK
  <2>2. s \notin Pending' BY <2>1 DEF Pending, At
  <2>3. Pending' \subseteq Pending
    BY <1>1, <2>2, PendingStep, PendingFinite1 DEF Start
  <2> QED BY <1>1, <2>3, BilledKept DEF Start
<1>2. ASSUME NEW s \in Senders, Leave(s), UNCHANGED period PROVE s \notin Pending' /\ Pending' \subseteq Pending
  <2>1. s \notin Pending' BY <1>2 DEF Leave, TypeOK, Pending, At, IdleSender
  <2> QED BY <1>2, <2>1, PendingStep, PendingFinite1 DEF Leave
<1>3. ASSUME NEW s \in Senders, NEW pc \in {"month", "incr"}, Goto(s, pc),
             ~At(s, "idle"), ~At(s, "usage"), UNCHANGED period
      PROVE  Pending' \subseteq Pending
  <2>1. sender' = [sender EXCEPT ![s] = [sender[s] EXCEPT !.pc = pc]]
    BY <1>3 DEF Goto
  <2>2. s \in Pending' => s \in Pending
    BY <1>3, <2>1 DEF TypeOK, SenderState, Pending, At
  <2> QED BY <1>3, <2>1, <2>2, PendingStep, PendingFinite1
<1>4. ASSUME NEW s \in Senders, CheckDay(s) PROVE Billed'
  <2>1. Pending' \subseteq Pending
    BY <1>2, <1>3, <1>4 DEF CheckDay, At
  <2> QED BY <1>4, <2>1, BilledKept DEF CheckDay
<1>5. ASSUME NEW s \in Senders, CheckMonth(s) PROVE Billed'
  <2>1. Pending' \subseteq Pending
    BY <1>2, <1>3, <1>5 DEF CheckMonth, At
  <2> QED BY <1>5, <2>1, BilledKept DEF CheckMonth
<1>6. ASSUME NEW s \in Senders, IncrementFails(s) PROVE Billed'
  <2>1. Pending' \subseteq Pending
    BY <1>2, <1>6 DEF IncrementFails
  <2> QED BY <1>6, <2>1, BilledKept DEF IncrementFails
<1>7. ASSUME NEW s \in Senders, Increment(s) PROVE Billed'
  <2> DEFINE p == sender[s].period
             d == sender[s].day
             c == IF p = period THEN 1 ELSE 0
  <2>1. p \in Periods /\ d \in Days /\ period \in Periods /\ At(s, "incr")
    BY <1>7 DEF TypeOK, SenderState, Increment
  <2>2. passed \in Counts /\ passed' \in Counts BY <1>0 DEF TypeOK, Counts
  <2>3. passed' = [passed EXCEPT ![<<p, d>>] = @ + 1] /\ UNCHANGED <<period, usage>>
    BY <1>7 DEF Increment, Key
  <2>4. /\ passed'[<<period, d>>] = passed[<<period, d>>] + c
        /\ \A e \in Days : e # d => passed'[<<period, e>>] = passed[<<period, e>>]
    BY <2>1, <2>2, <2>3 DEF Counts
  <2>5. Total(period)' = Total(period) + c /\ Total(period) \in Nat
    <3>1. c \in Nat OBVIOUS
    <3>2. SumOf(passed', period) = SumOf(passed, period) + c
      BY <2>1, <2>2, <2>4, <3>1, SumMoves
    <3>3. Total(period)' = SumOf(passed', period') BY DEF Total, SumOf, Days, Day
    <3> QED BY <2>3, <3>2, <3>3, TotalTyped
  <2>6. Pending' = Pending \cup {s}
    <3>1. sender' = [sender EXCEPT ![s] = [sender[s] EXCEPT !.pc = "usage"]]
      BY <1>7 DEF Increment, Goto
    <3>2. s \in Pending' BY <3>1 DEF TypeOK, SenderState, Pending, At
    <3> QED BY <2>3, <3>1, <3>2, PendingStep, PendingFinite, PendingFinite1
  <2>7. s \in Pending <=> p # period
    BY <2>1 DEF Pending, At
  <2>8. Cardinality(Pending') = Cardinality(Pending) + c
    <3>1. CASE p = period
      BY <2>6, <2>7, <3>1, PendingFinite, FS_AddElement
    <3>2. CASE p # period
      <4>1. Pending' = Pending BY <2>6, <2>7, <3>2
      <4> QED BY <3>2, <4>1, PendingFinite
    <3> QED BY <3>1, <3>2
  <2>9. usage'.month = usage.month /\ usage.month \in Nat BY <2>3 DEF TypeOK, Usage
  <2> QED BY <2>5, <2>8, <2>9, PendingFinite DEF Billed
<1>8. ASSUME NEW s \in Senders, UpdateUsage(s) PROVE Billed'
  <2>1. Leave(s) /\ UNCHANGED <<period, passed>> /\ At(s, "usage") BY <1>8 DEF UpdateUsage
  <2>2. s \in Pending BY <2>1 DEF Pending
  <2>3. Pending' \subseteq Pending \ {s} BY <1>2, <2>1
  <2>4. Cardinality(Pending') <= Cardinality(Pending) - 1
    <3>1. IsFiniteSet(Pending \ {s}) /\ Cardinality(Pending \ {s}) = Cardinality(Pending) - 1
      BY <2>2, PendingFinite, FS_RemoveElement
    <3> QED BY <2>3, <3>1, FS_Subset
  <2>5. usage.month \in Nat /\ usage'.month <= usage.month + 1 /\ usage'.month \in Nat
    <3>1. usage'.month = usage.month + 1 \/ usage' = usage BY <1>8 DEF UpdateUsage, OneMore
    <3>2. usage.month \in Nat BY DEF TypeOK, Usage
    <3> QED BY <3>1, <3>2
  <2>6. Total(period)' = Total(period) /\ Total(period) \in Nat
    BY <2>1, TotalTyped DEF Total, Days, Day
  <2> QED BY <2>4, <2>5, <2>6, PendingFinite, PendingFinite1 DEF Billed
<1>9. CASE NewPeriod
  <2>1. usage'.month = 0 BY <1>9 DEF NewPeriod, Fresh
  <2>2. Total(period)' \in Nat
    <3>1. SumOf(passed', period') \in Nat
      BY <1>0, SumSame DEF TypeOK, Counts
    <3> QED BY <3>1 DEF Total, SumOf, Days, Day
  <2> QED BY <2>1, <2>2, PendingFinite1 DEF Billed
<1>10. ASSUME UNCHANGED <<period, sender>> PROVE Pending' = Pending
  BY <1>10 DEF Pending, At
<1>11. CASE ResetDaily \/ ResetMonthly \/ ResetFails \/ Tick \/ UNCHANGED vars
  <2>1. UNCHANGED <<period, sender, passed>>
    BY <1>11 DEF ResetDaily, ResetMonthly, ResetFails, Tick, vars
  <2>2. usage'.month = usage.month \/ usage'.month = 0
    BY <1>11 DEF ResetDaily, ResetMonthly, ResetFails, Tick, vars, NewDay, Fresh
  <2> QED BY <1>10, <2>1, <2>2, BilledKept
<1> QED
  BY <1>1, <1>4, <1>5, <1>6, <1>7, <1>8, <1>9, <1>11 DEF Next

\* A request of an earlier period may still be added to this one's usage, but
\* only while it was under way when the period changed: the usage overage is
\* billed from exceeds the period's own e-mails by at most the requests that
\* run at once.
THEOREM BilledUsage == Spec => []UsageOfThisPeriod
<1>1. TypeOK /\ Billed => UsageOfThisPeriod
  <2> SUFFICES ASSUME TypeOK, Billed PROVE UsageOfThisPeriod
    OBVIOUS
  <2>1. Total(period) \in Nat /\ usage.month \in Nat BY TotalTyped DEF TypeOK, Usage
  <2> QED BY <2>1, PendingFinite DEF Billed, UsageOfThisPeriod
<1>2. Init => TypeOK /\ Billed BY TypeInit, BilledInit
<1>3. TypeOK /\ Billed /\ [Next]_vars => (TypeOK /\ Billed)' BY TypeNext, BilledNext
<1> QED BY <1>1, <1>2, <1>3, PTL DEF Spec

----------------------------------------------------------------------------
(* The day's window.  It ends after this day began, unless the nightly     *)
(* task of this day is still to look at it.                                *)

DayBegan == now - (now % TicksPerDay)

Windows ==
  /\ usage.dayReset + TicksPerDay > DayBegan
  /\ nightly # "day" => usage.dayReset > DayBegan
  /\ nightly # "idle" => now % TicksPerDay <= MaxDelay

\* The next tick is one later in the day, or the first of the next day.
LEMMA NextTick ==
  ASSUME NEW t \in Nat, NEW n \in Nat \ {0}
  PROVE  /\ t % n \in 0..(n - 1) /\ t % n <= t
         /\ IF t % n = n - 1 THEN (t + 1) % n = 0 ELSE (t + 1) % n = (t % n) + 1
<1> DEFINE q == t \div n
           r == t % n
           qq == (t + 1) \div n
           rr == (t + 1) % n
<1>1. /\ q \in Nat /\ r \in 0..(n - 1) /\ t = n * q + r
      /\ qq \in Nat /\ rr \in 0..(n - 1) /\ t + 1 = n * qq + rr
  OBVIOUS
<1> HIDE DEF q, r, qq, rr
<1>2. n * q \in Nat /\ n * qq \in Nat
  BY <1>1
<1>3. qq = q \/ qq >= q + 1 \/ q >= qq + 1
  BY <1>1
<1>4. ASSUME NEW a \in Nat, NEW b \in Nat, a >= b + 1 PROVE n * a >= n * b + n
  <2>1. n * a >= n * (b + 1) BY <1>4
  <2>2. n * (b + 1) = n * b + n OBVIOUS
  <2> QED BY <2>1, <2>2
<1>5. r <= t /\ IF r = n - 1 THEN rr = 0 ELSE rr = r + 1
  <2>1. CASE r = n - 1
    <3>1. t + 1 = n * q + n BY <1>1, <1>2, <2>1
    <3>2. qq >= q + 1 BY <1>1, <1>2, <1>3, <1>4, <3>1
    <3>3. n * qq >= n * q + n BY <1>1, <1>4, <3>2
    <3> QED BY <1>1, <1>2, <2>1, <3>1, <3>3
  <2>2. CASE r # n - 1
    <3>1. ~(qq >= q + 1)
      <4> SUFFICES ASSUME qq >= q + 1 PROVE FALSE
        OBVIOUS
      <4>1. n * qq >= n * q + n BY <1>1, <1>4
      <4> QED BY <1>1, <1>2, <2>2, <4>1
    <3>2. ~(q >= qq + 1)
      <4> SUFFICES ASSUME q >= qq + 1 PROVE FALSE
        OBVIOUS
      <4>1. n * q >= n * qq + n BY <1>1, <1>4
      <4> QED BY <1>1, <1>2, <2>2, <4>1
    <3>3. n * qq = n * q BY <1>3, <3>1, <3>2
    <3> QED BY <1>1, <1>2, <2>2, <3>3
  <2> QED BY <2>1, <2>2
<1> QED BY <1>1, <1>5 DEF r, rr

LEMMA DayTyped ==
  ASSUME TypeOK
  PROVE  /\ now \in Nat /\ TicksPerDay \in Nat \ {0} /\ MaxDelay \in 0..(TicksPerDay - 1)
         /\ now % TicksPerDay \in 0..(TicksPerDay - 1) /\ now % TicksPerDay <= now
         /\ DayBegan \in 0..now /\ usage.dayReset \in Nat
<1>1. now \in Nat /\ TicksPerDay \in Nat \ {0} BY QuotaAssumption DEF TypeOK
<1>2. now % TicksPerDay \in 0..(TicksPerDay - 1) /\ now % TicksPerDay <= now
  BY <1>1, NextTick
<1> QED BY <1>1, <1>2, QuotaAssumption DEF DayBegan, TypeOK, Usage

LEMMA WindowsInit == Init => Windows
<1> SUFFICES ASSUME Init PROVE Windows
  OBVIOUS
<1>1. TypeOK BY TypeInit
<1>2. usage.dayReset = now + TicksPerDay /\ nightly = "idle" BY DEF Init, Fresh
<1> QED BY <1>1, <1>2, DayTyped DEF Windows

LEMMA WindowsNext == TypeOK /\ Windows /\ [Next]_vars => Windows'
<1> SUFFICES ASSUME TypeOK, Windows, [Next]_vars PROVE Windows'
  OBVIOUS
<1>0. TypeOK' BY TypeNext
<1>1. ASSUME UNCHANGED <<now, nightly>>,
             usage'.dayReset = usage.dayReset \/ usage'.dayReset = now + TicksPerDay
      PROVE  Windows'
  <2>1. DayBegan' = DayBegan /\ (now % TicksPerDay)' = now % TicksPerDay
    BY <1>1 DEF DayBegan
  <2> QED BY <1>1, <2>1, DayTyped DEF Windows
<1>2. CASE Tick
  <2>1. now' = now + 1 /\ usage' = usage BY <1>2 DEF Tick
  <2>2. CASE now % TicksPerDay = TicksPerDay - 1
    <3>1. now' % TicksPerDay = 0 BY <2>1, <2>2, DayTyped, NextTick
    <3>2. nightly' = "day" BY <1>2, <3>1 DEF Tick
    <3>3. nightly = "idle"
      BY <1>2, <2>2, DayTyped DEF Tick
    <3>4. usage.dayReset > DayBegan /\ DayBegan' = DayBegan + TicksPerDay
      <4>1. usage.dayReset > DayBegan BY <3>3 DEF Windows
      <4>2. DayBegan' = now + 1 - 0 BY <2>1, <3>1 DEF DayBegan
      <4>3. DayBegan = now - (TicksPerDay - 1) BY <2>2 DEF DayBegan
      <4> QED BY <4>1, <4>2, <4>3, DayTyped
    <3> QED BY <2>1, <3>1, <3>2, <3>4, DayTyped DEF Windows
  <2>3. CASE now % TicksPerDay # TicksPerDay - 1
    <3>1. now' % TicksPerDay = (now % TicksPerDay) + 1
      BY <2>1, <2>3, DayTyped, NextTick
    <3>2. DayBegan' = DayBegan BY <2>1, <3>1, DayTyped DEF DayBegan
    <3>3. nightly' = nightly /\ (nightly # "idle" => now % TicksPerDay < MaxDelay)
      <4>1. now' % TicksPerDay # 0 BY <3>1, DayTyped
      <4> QED BY <1>2, <4>1 DEF Tick
    <3> QED BY <2>1, <3>1, <3>2, <3>3, DayTyped DEF Windows
  <2> QED BY <2>2, <2>3
<1>3. CASE ResetDaily
  <2>1. /\ UNCHANGED now /\ nightly = "day" /\ nightly' = "month"
        /\ IF usage.dayReset <= now THEN usage'.dayReset = now + TicksPerDay
           ELSE usage' = usage
    BY <1>3 DEF ResetDaily, NewDay
  <2>2. DayBegan' = DayBegan /\ (now % TicksPerDay)' = now % TicksPerDay
    BY <2>1 DEF DayBegan
  <2>3. usage'.dayReset > DayBegan BY <2>1, DayTyped
  <2> QED BY <2>1, <2>2, <2>3, DayTyped DEF Windows
<1>4. CASE ResetMonthly
  <2>1. /\ UNCHANGED now /\ nightly = "month" /\ nightly' = "idle"
        /\ usage'.dayReset = now + TicksPerDay \/ usage' = usage
    BY <1>4 DEF ResetMonthly, Fresh
  <2>2. DayBegan' = DayBegan /\ (now % TicksPerDay)' = now % TicksPerDay
    BY <2>1 DEF DayBegan
  <2> QED BY <2>1, <2>2, DayTyped DEF Windows
<1>5. CASE ResetFails
  <2>1. UNCHANGED <<now, usage>> /\ nightly = "month" /\ nightly' = "day"
    BY <1>5 DEF ResetFails
  <2>2. DayBegan' = DayBegan /\ (now % TicksPerDay)' = now % TicksPerDay
    BY <2>1 DEF DayBegan
  <2> QED BY <2>1, <2>2, DayTyped DEF Windows
<1>6. ASSUME NEW s \in Senders, UpdateUsage(s) PROVE Windows'
  BY <1>1, <1>6 DEF UpdateUsage, OneMore
<1>7. ASSUME NEW s \in Senders,
             Start(s) \/ CheckDay(s) \/ CheckMonth(s) \/ Increment(s) \/ IncrementFails(s)
      PROVE  Windows'
  BY <1>1, <1>7 DEF Start, CheckDay, CheckMonth, Increment, IncrementFails
<1>8. CASE NewPeriod
  BY <1>1, <1>8 DEF NewPeriod, Fresh
<1>9. CASE UNCHANGED vars
  BY <1>1, <1>9 DEF vars
<1> QED BY <1>2, <1>3, <1>4, <1>5, <1>6, <1>7, <1>8, <1>9 DEF Next

\* Though the task compares with the clock of the run, not of the midnight it
\* was enqueued for, no window outlives its second day by more than the task's
\* delay, whatever the day's length and the delay.
THEOREM DailyWindow == Spec => []DailyWindowBounded
<1>1. TypeOK /\ Windows => DailyWindowBounded
  <2> SUFFICES ASSUME TypeOK, Windows PROVE DailyWindowBounded
    OBVIOUS
  <2>1. now = DayBegan + (now % TicksPerDay) BY DayTyped DEF DayBegan
  <2>2. CASE nightly = "idle"
    BY <2>1, <2>2, DayTyped DEF Windows, DailyWindowBounded
  <2>3. CASE nightly # "idle"
    BY <2>1, <2>3, DayTyped DEF Windows, DailyWindowBounded
  <2> QED BY <2>2, <2>3
<1>2. Init => TypeOK /\ Windows BY TypeInit, WindowsInit
<1>3. TypeOK /\ Windows /\ [Next]_vars => (TypeOK /\ Windows)' BY TypeNext, WindowsNext
<1> QED BY <1>1, <1>2, <1>3, PTL DEF Spec
=============================================================================
