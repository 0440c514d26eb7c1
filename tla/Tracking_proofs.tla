-------------------------- MODULE Tracking_proofs --------------------------
(* Proofs about Features and Tracking, for any number of plans, e-mails,   *)
(* updates and visits and any lives and delays: what the checks answer,    *)
(* how long the cache may be wrong, what overlapping updates of a plan     *)
(* leave, and what the events of a visit tell.                             *)
EXTENDS Tracking, FiniteSetTheorems, TLAPS

----------------------------------------------------------------------------
(* Types, with the e-mails that visits and updates belong to.              *)

\* Whoever visits has an e-mail that was handed in.
Mailed == \A v \in Visits :
  visit[v].pc # "start" => visit[v].mail \in Checks /\ At(visit[v].mail, "end")

\* The customer's plan is there, and so was that of an update.
Planned ==
  /\ plan # None => Exists(plan)
  /\ \A u \in Updates :
       IF update[u].pc = "start" THEN update[u].todo = {}
       ELSE update[u].plan \in Plans /\ enabled[update[u].plan] # Unused

Typed == TypeOK /\ Mailed /\ Planned

LEMMA Constants ==
  /\ TTL \in Nat \ {0} /\ MaxDelay \in Nat /\ Settling \in Nat /\ MaxChanges \in Nat
  /\ Settling = TTL + MaxDelay
BY FeaturesAssumption DEF Settling

LEMMA FreshTyped ==
  /\ Fresh \in Check /\ Fresh.pc = "role" /\ Fresh.moved = {} /\ Fresh.age = 0
  /\ ~Fresh.torn
  /\ Open \in Keys /\ Click \in Keys
<1>1. 0 \in 0..MaxDelay
  BY Constants
<1> QED BY <1>1 DEF Open, Click, Keys, Fresh, Check

LEMMA Sets ==
  /\ \A fs \in SUBSET Keys : fs # Unused /\ fs # Gone
  /\ Unused # Gone
BY RowsAssumption

LEMMA GrantsBoolean ==
  ASSUME NEW o, NEW p \in Plans \cup {None}, NEW e, NEW f \in Keys,
         o[f] \in Override \cup {None}
  PROVE  Grants(o, p, e, f) \in BOOLEAN
<1>1. CASE o[f] # None
  BY <1>1 DEF Grants, Override
<1>2. CASE o[f] = None
  BY <1>2 DEF Grants
<1> QED BY <1>1, <1>2

LEMMA AfterTyped ==
  ASSUME NEW q \in Check, NEW value \in BOOLEAN
  PROVE  /\ After(q, value) \in Check /\ After(q, value).pc \in {"role", "insert"}
         /\ After(q, value).moved = {}
<1>1. q.granted \cup (IF value THEN {q.feature} ELSE {}) \in SUBSET Keys
  BY DEF Check
<1> DEFINE g == q.granted \cup (IF value THEN {q.feature} ELSE {})
           pc == IF q.feature = Open THEN "role" ELSE "insert"
<1>2. After(q, value) = [Fresh EXCEPT !.granted = g, !.feature = Click, !.pc = pc]
  BY DEF After
<1>3. pc \in {"role", "insert"} /\ g \in SUBSET Keys
  BY <1>1
<1> HIDE DEF g, pc
<1> QED BY <1>2, <1>3, FreshTyped DEF Check

\* What a change of the tables does to the checks.
LEMMA NoteTyped ==
  ASSUME Typed, NEW source \in Source, NEW fs \in SUBSET Keys, Note(source, fs),
         override' \in [Keys -> Override \cup {None}], plan' \in Plans \cup {None}
  PROVE  check' \in [Checks -> Check] /\ calm' \in 0..Settling
<1>1. ASSUME NEW c \in Checks
      PROVE  [check[c] EXCEPT !.moved = @ \cup {source},
                !.seen = @ \cup {Grants(override', plan', enabled', check[c].feature)}] \in Check
  <2>1. check[c] \in Check /\ check[c].feature \in Keys
    BY DEF Typed, TypeOK, FeaturesTypes, Check
  <2>2. Grants(override', plan', enabled', check[c].feature) \in BOOLEAN
    BY <2>1, GrantsBoolean
  <2> HIDE DEF Source
  <2> QED BY <2>1, <2>2 DEF Check
<1>2. check' \in [Checks -> Check]
  BY <1>1 DEF Note, Typed, TypeOK, FeaturesTypes
<1>3. calm' = 0
  BY DEF Note
<1>4. 0 \in 0..Settling
  BY Constants
<1> QED BY <1>2, <1>3, <1>4

LEMMA TypeInit == Init => Typed
<1> SUFFICES ASSUME Init PROVE Typed
  OBVIOUS
<1>1. FeaturesTypes
  <2>1. calm \in 0..Settling /\ changes \in 0..MaxChanges
    BY Constants DEF Init, FeaturesInit
  <2>2. check \in [Checks -> Check] /\ update \in [Updates -> Update]
    BY FreshTyped DEF Init, FeaturesInit, Update
  <2> QED BY <2>1, <2>2 DEF Init, FeaturesInit, FeaturesTypes
<1>2. visit \in [Visits -> Visit] /\ count \in [Checks -> [Keys -> Nat] \cup {None}]
  BY FreshTyped DEF Init, Visit
<1>3. Mailed
  BY DEF Init, Mailed
<1>4. plan # None => Exists(plan)
  <2> SUFFICES ASSUME plan # None PROVE Exists(plan)
    OBVIOUS
  <2>1. plan \in Plans /\ enabled[plan] # Unused /\ enabled[plan] \in (SUBSET Keys) \cup {Unused}
    BY DEF Init, FeaturesInit
  <2>2. enabled[plan] # Gone
    BY <2>1, Sets
  <2> QED BY <2>1, <2>2 DEF Exists
<1>5. Planned
  BY <1>4 DEF Init, FeaturesInit, Planned
<1> QED BY <1>1, <1>2, <1>3, <1>5 DEF Typed, TypeOK

\* A step of a check changes that check and at most the cache.
LEMMA CheckTyped ==
  ASSUME Typed, NEW c \in Checks, HasFeature(c)
  PROVE  /\ UNCHANGED <<rows, edits, calm, changes>>
         /\ cache' \in [Keys -> Entry \cup {None}]
         /\ check' \in [Checks -> Check]
         /\ check[c].pc # "end"
         /\ \A d \in Checks : d # c => check'[d] = check[d]
<1> USE DEF At
<1>1. check \in [Checks -> Check] /\ check[c] \in Check /\ check[c].feature \in Keys
  BY DEF Typed, TypeOK, FeaturesTypes, Check
<1>2. cache \in [Keys -> Entry \cup {None}]
  BY DEF Typed, TypeOK, FeaturesTypes
<1>3. /\ plan \in Plans \cup {None} /\ override \in [Keys -> Override \cup {None}]
  BY DEF Typed, TypeOK, FeaturesTypes
<1>4. ASSUME NEW value \in BOOLEAN, Answer(c, value)
      PROVE  check' \in [Checks -> Check] /\ \A d \in Checks : d # c => check'[d] = check[d]
  <2>1. After(check[c], value) \in Check
    BY <1>1, AfterTyped
  <2> QED BY <2>1, <1>1, <1>4 DEF Answer
<1>5. CASE CheckRole(c)
  <2>1. Granted(check[c].feature) \in BOOLEAN
    BY <1>1, <1>3, GrantsBoolean DEF Granted
  <2>2. CASE Answer(c, TRUE)
    BY <2>2, <1>4, <1>5, <1>2 DEF CheckRole
  <2>3. CASE check' = [check EXCEPT ![c].pc = "cache", ![c].seen = {Granted(check[c].feature)}]
    <3> DEFINE g == Granted(check[c].feature)
    <3>1. g \in BOOLEAN /\ check' = [check EXCEPT ![c].pc = "cache", ![c].seen = {g}]
      BY <2>1, <2>3
    <3> HIDE DEF g
    <3>2. check' \in [Checks -> Check] /\ \A d \in Checks : d # c => check'[d] = check[d]
      BY <3>1, <1>1 DEF Check
    <3> QED BY <3>2, <1>5, <1>2 DEF CheckRole
  <2> QED BY <2>2, <2>3, <1>5 DEF CheckRole
<1>6. CASE CheckCache(c)
  <2>1. cache[check[c].feature].value \in BOOLEAN
    BY <1>1, <1>2, <1>6 DEF CheckCache, Entry
  <2> QED BY <2>1, <1>4, <1>6, <1>2 DEF CheckCache
<1>7. CASE CacheMisses(c)
  BY <1>7, <1>1, <1>2 DEF CacheMisses, Goto, Check
<1>8. CASE CheckOverrides(c)
  <2>1. override[check[c].feature] # None => override[check[c].feature].value \in BOOLEAN
    BY <1>1, <1>3 DEF Override
  <2> QED BY <2>1, <1>8, <1>1, <1>2 DEF CheckOverrides, Compute, Goto, Tear, Check
<1>9. CASE CheckPlan(c)
  <2>1. CASE Answer(c, FALSE)
    BY <2>1, <1>4, <1>9, <1>2 DEF CheckPlan
  <2>2. CASE check' = [check EXCEPT ![c].pc = "features", ![c].plan = plan]
    BY <2>2, <1>1, <1>2, <1>3, <1>9 DEF CheckPlan, Check
  <2> QED BY <2>1, <2>2, <1>9 DEF CheckPlan
<1>10. CASE CheckFeatures(c)
  <2>1. Includes(check[c].feature, check[c].plan) \in BOOLEAN
    BY DEF Includes, Exists
  <2>2. CASE Compute(c, Includes(check[c].feature, check[c].plan))
    BY <2>1, <2>2, <1>1, <1>2, <1>10 DEF CheckFeatures, Compute, Check
  <2>3. CASE check' = [check EXCEPT ![c].pc = "set", ![c].value = FALSE, ![c].torn = TRUE]
    BY <2>3, <1>1, <1>2, <1>10 DEF CheckFeatures, Check
  <2>4. CASE Answer(c, FALSE)
    BY <2>4, <1>4, <1>10, <1>2 DEF CheckFeatures
  <2> QED BY <2>2, <2>3, <2>4, <1>10 DEF CheckFeatures
<1>11. CASE SetCache(c)
  <2>1. check[c].value \in BOOLEAN /\ check[c].torn \in BOOLEAN
    BY <1>1 DEF Check
  <2>2. [value |-> check[c].value, left |-> TTL, torn |-> check[c].torn] \in Entry
    BY <2>1, Constants DEF Entry
  <2>3. cache' \in [Keys -> Entry \cup {None}]
    BY <2>2, <1>2, <1>1, <1>11 DEF SetCache
  <2>4. Answer(c, check[c].value) /\ check[c].pc = "set" /\ UNCHANGED <<rows, edits, calm, changes>>
    BY <1>11 DEF SetCache
  <2> QED BY <2>1, <2>3, <2>4, <1>4
<1> QED BY <1>5, <1>6, <1>7, <1>8, <1>9, <1>10, <1>11 DEF HasFeature

\* What a change of the tables leaves of a check.
LEMMA NoteKeeps ==
  ASSUME Typed, NEW source, NEW fs, Note(source, fs), NEW c \in Checks
  PROVE  /\ check'[c].pc = check[c].pc /\ check'[c].feature = check[c].feature
         /\ check'[c].plan = check[c].plan /\ check'[c].value = check[c].value
         /\ check'[c].torn = check[c].torn /\ check'[c].age = check[c].age
         /\ check'[c].granted = check[c].granted
         /\ ~(Running(c) /\ check[c].feature \in fs) => check'[c] = check[c]
         /\ Running(c) /\ check[c].feature \in fs =>
              /\ check'[c].moved = check[c].moved \cup {source}
              /\ check'[c].seen = check[c].seen \cup
                   {Grants(override', plan', enabled', check[c].feature)}
<1>1. check[c] \in Check
  BY DEF Typed, TypeOK, FeaturesTypes
<1> DEFINE g == Grants(override', plan', enabled', check[c].feature)
<1>2. check'[c] = IF Running(c) /\ check[c].feature \in fs
                  THEN [check[c] EXCEPT !.moved = @ \cup {source}, !.seen = @ \cup {g}]
                  ELSE check[c]
  BY DEF Note
<1> HIDE DEF g
<1>3. CASE Running(c) /\ check[c].feature \in fs
  <2>1. check'[c] = [check[c] EXCEPT !.moved = @ \cup {source}, !.seen = @ \cup {g}]
    BY <1>2, <1>3
  <2>2. /\ check'[c].pc = check[c].pc /\ check'[c].feature = check[c].feature
        /\ check'[c].plan = check[c].plan /\ check'[c].value = check[c].value
        /\ check'[c].torn = check[c].torn /\ check'[c].age = check[c].age
        /\ check'[c].granted = check[c].granted
        /\ check'[c].moved = check[c].moved \cup {source}
        /\ check'[c].seen = check[c].seen \cup {g}
    BY <2>1, <1>1 DEF Check
  <2> QED BY <2>2, <1>3 DEF g
<1>4. CASE ~(Running(c) /\ check[c].feature \in fs)
  BY <1>4, <1>2
<1> QED BY <1>3, <1>4

\* A step of an update, by what it does to the tables.
LEMMA EditTyped ==
  ASSUME Typed, NEW u \in Updates, EditsPlan(u)
  PROVE  /\ UNCHANGED <<plan, override, cache>> /\ changes' \in 0..MaxChanges
         /\ enabled' \in [Plans -> (SUBSET Keys) \cup {Unused, Gone}]
         /\ \A p \in Plans : enabled[p] # Unused => enabled'[p] # Unused
         /\ \A p \in Plans : Exists(p) => Exists(p)'
         /\ update' \in [Updates -> Update]
         /\ \A v \in Updates : v # u => update'[v] = update[v]
         /\ update'[u].pc # "start" /\ update'[u].plan \in Plans
         /\ enabled'[update'[u].plan] # Unused
         /\ last' \in [Plans -> Updates \cup {None}] /\ rivals' \in [Plans -> SUBSET Updates]
         /\ \/ UNCHANGED <<check, calm>>
            \/ \E fs \in SUBSET Keys : Note("enabled", fs)
<1>1. /\ enabled \in [Plans -> (SUBSET Keys) \cup {Unused, Gone}]
      /\ update \in [Updates -> Update] /\ last \in [Plans -> Updates \cup {None}]
      /\ rivals \in [Plans -> SUBSET Updates] /\ changes \in 0..MaxChanges
  BY DEF Typed, TypeOK, FeaturesTypes
<1>2. update[u].pc # "start" => update[u].plan \in Plans /\ enabled[update[u].plan] # Unused
  BY DEF Typed, Planned
<1>3. ASSUME NEW p \in Plans, NEW want \in SUBSET Keys, Begin(u, p, want)
      PROVE  /\ update' \in [Updates -> Update] /\ changes' \in 0..MaxChanges
             /\ \A v \in Updates : v # u => update'[v] = update[v]
             /\ update'[u].pc = "disable" /\ update'[u].plan = p
             /\ UNCHANGED <<last, rivals>>
  <2>1. changes' \in 0..MaxChanges
    BY <1>1, <1>3, Constants DEF Begin, Counted
  <2> QED BY <2>1, <1>1, <1>3 DEF Begin, Update
<1>4. ASSUME NEW p \in Plans, NEW fs \in SUBSET Keys,
             enabled' = [enabled EXCEPT ![p] = fs], NEW q \in Plans
      PROVE  /\ enabled' \in [Plans -> (SUBSET Keys) \cup {Unused, Gone}]
             /\ (enabled[q] # Unused => enabled'[q] # Unused) /\ (Exists(q) => Exists(q)')
             /\ enabled'[p] # Unused
  <2>1. enabled'[q] = IF q = p THEN fs ELSE enabled[q]
    BY <1>1, <1>4
  <2> QED BY <2>1, <1>1, <1>4, Sets DEF Exists
<1>5. ASSUME NEW p \in Plans, NEW want \in SUBSET Keys, CreatePlan(u, p, want)
      PROVE  /\ enabled' = [enabled EXCEPT ![p] = {}] /\ Begin(u, p, want)
             /\ UNCHANGED <<plan, override, cache, check, calm>>
  BY <1>5 DEF CreatePlan
<1>6. CASE \E p \in Plans, want \in SUBSET Keys : CreatePlan(u, p, want)
  <2>1. PICK p \in Plans, want \in SUBSET Keys : CreatePlan(u, p, want)
    BY <1>6
  <2>2. {} \in SUBSET Keys
    OBVIOUS
  <2>3. /\ update' \in [Updates -> Update] /\ changes' \in 0..MaxChanges
        /\ \A v \in Updates : v # u => update'[v] = update[v]
        /\ update'[u].pc = "disable" /\ update'[u].plan = p /\ UNCHANGED <<last, rivals>>
    BY <2>1, <1>3, <1>5
  <2>4. /\ enabled' \in [Plans -> (SUBSET Keys) \cup {Unused, Gone}] /\ enabled'[p] # Unused
        /\ \A q \in Plans : (enabled[q] # Unused => enabled'[q] # Unused) /\ (Exists(q) => Exists(q)')
    BY <2>1, <2>2, <1>4, <1>5
  <2> QED BY <2>1, <2>3, <2>4, <1>1, <1>5
<1>7. CASE \E p \in Plans, want \in SUBSET Keys : UpdatePlan(u, p, want)
  <2>1. PICK p \in Plans, want \in SUBSET Keys : UpdatePlan(u, p, want)
    BY <1>7
  <2>2. /\ Exists(p) /\ Begin(u, p, want) /\ UNCHANGED <<rows, cache, check, calm>>
    BY <2>1 DEF UpdatePlan
  <2> QED BY <2>2, <1>3, <1>1 DEF rows, Exists
<1>8. CASE Disable(u)
  <2>1. /\ update[u].pc = "disable" /\ update' = [update EXCEPT ![u].pc = "enable"]
        /\ UNCHANGED <<plan, override, cache, changes>>
    BY <1>8 DEF Disable
  <2>2. /\ update' \in [Updates -> Update] /\ \A v \in Updates : v # u => update'[v] = update[v]
        /\ update'[u].pc = "enable" /\ update'[u].plan = update[u].plan
    BY <2>1, <1>1 DEF Update
  <2> DEFINE p == update[u].plan
  <2>3. p \in Plans /\ enabled[p] # Unused
    BY <2>1, <1>2
  <2>4. CASE Exists(p)
    <3>1. /\ enabled' = [enabled EXCEPT ![p] = {}] /\ Note("enabled", Keys)
          /\ last' = [last EXCEPT ![p] = u] /\ rivals' = [rivals EXCEPT ![p] = Enabling(p)]
      BY <1>8, <2>4 DEF Disable, DisableAll
    <3>2. Enabling(p) \in SUBSET Updates
      BY DEF Enabling
    <3>3. /\ enabled' \in [Plans -> (SUBSET Keys) \cup {Unused, Gone}] /\ enabled'[p] # Unused
          /\ \A q \in Plans : (enabled[q] # Unused => enabled'[q] # Unused) /\ (Exists(q) => Exists(q)')
      <4>1. {} \in SUBSET Keys
        OBVIOUS
      <4> HIDE DEF p
      <4> QED BY <4>1, <3>1, <2>3, <1>4
    <3>4. last' \in [Plans -> Updates \cup {None}] /\ rivals' \in [Plans -> SUBSET Updates]
      BY <3>1, <3>2, <1>1
    <3>5. Keys \in SUBSET Keys
      OBVIOUS
    <3> QED BY <2>1, <2>2, <2>3, <3>1, <3>3, <3>4, <3>5, <1>1
  <2>5. CASE ~Exists(p)
    <3>1. UNCHANGED <<enabled, check, calm, last, rivals>>
      BY <1>8, <2>5 DEF Disable
    <3> QED BY <2>1, <2>2, <2>3, <3>1, <1>1 DEF Exists
  <2> QED BY <2>4, <2>5
<1>9. CASE \E f \in Keys : Enable(u, f)
  <2>0. PICK f \in Keys : Enable(u, f)
    BY <1>9
  <2>1. /\ update[u].pc = "enable" /\ f \in update[u].todo
        /\ UNCHANGED <<plan, override, cache, last, rivals, changes>>
    BY <2>0 DEF Enable
  <2> DEFINE p == update[u].plan
  <2>3. p \in Plans /\ enabled[p] # Unused
    BY <2>1, <1>2
  <2>4. CASE Exists(p)
    <3>1. /\ enabled' = [enabled EXCEPT ![p] = @ \cup {f}] /\ Note("enabled", {f})
          /\ update' = [update EXCEPT ![u].todo = @ \ {f}]
      BY <2>0, <2>4 DEF Enable
    <3>2. enabled[p] \cup {f} \in SUBSET Keys /\ {f} \in SUBSET Keys
      BY <2>3, <2>4, <1>1 DEF Exists
    <3>3. /\ enabled' \in [Plans -> (SUBSET Keys) \cup {Unused, Gone}] /\ enabled'[p] # Unused
          /\ \A q \in Plans : (enabled[q] # Unused => enabled'[q] # Unused) /\ (Exists(q) => Exists(q)')
      <4>1. enabled' = [enabled EXCEPT ![p] = enabled[p] \cup {f}]
        BY <3>1
      <4> HIDE DEF p
      <4> QED BY <4>1, <3>2, <2>3, <1>4
    <3>4. /\ update' \in [Updates -> Update] /\ \A v \in Updates : v # u => update'[v] = update[v]
          /\ update'[u].pc = "enable" /\ update'[u].plan = update[u].plan
      BY <2>1, <3>1, <1>1 DEF Update
    <3> QED BY <2>1, <2>3, <3>1, <3>2, <3>3, <3>4, <1>1
  <2>5. CASE ~Exists(p)
    <3>1. UNCHANGED <<enabled, check, calm>> /\ update' = [update EXCEPT ![u].pc = "failed"]
      BY <2>0, <2>5 DEF Enable
    <3>2. /\ update' \in [Updates -> Update] /\ \A v \in Updates : v # u => update'[v] = update[v]
          /\ update'[u].pc = "failed" /\ update'[u].plan = update[u].plan
      BY <3>1, <1>1 DEF Update
    <3> QED BY <2>1, <2>3, <3>1, <3>2, <1>1 DEF Exists
  <2> QED BY <2>4, <2>5
<1>10. CASE UpdateFails(u)
  <2>1. /\ update[u].pc # "start" /\ update' = [update EXCEPT ![u].pc = "failed"]
        /\ UNCHANGED <<rows, cache, check, last, rivals, calm, changes>>
    BY <1>10 DEF UpdateFails
  <2>2. /\ update' \in [Updates -> Update] /\ \A v \in Updates : v # u => update'[v] = update[v]
        /\ update'[u].pc = "failed" /\ update'[u].plan = update[u].plan
    BY <2>1, <1>1 DEF Update
  <2> QED BY <2>1, <2>2, <1>1, <1>2 DEF rows, Exists
<1> QED BY <1>6, <1>7, <1>8, <1>9, <1>10 DEF EditsPlan

LEMMA TickTyped ==
  ASSUME Typed, Tick
  PROVE  /\ override' \in [Keys -> Override \cup {None}] /\ cache' \in [Keys -> Entry \cup {None}]
         /\ check' \in [Checks -> Check] /\ calm' \in 0..Settling
         /\ \A c \in Checks : check'[c].pc = check[c].pc
<1>1. \A f \in Keys : Live(override[f]) \in Override \cup {None}
  <2> SUFFICES ASSUME NEW f \in Keys PROVE Live(override[f]) \in Override \cup {None}
    OBVIOUS
  <2> DEFINE o == override[f]
  <2>1. o \in Override \cup {None}
    BY DEF Typed, TypeOK, FeaturesTypes
  <2>2. CASE o # None /\ o.left # 1 /\ o.left # Forever
    <3>1. o.left - 1 \in Nat \ {0}
      BY <2>1, <2>2 DEF Override
    <3> QED BY <2>1, <2>2, <3>1 DEF Live, Override
  <2> QED BY <2>1, <2>2 DEF Live
<1>2. \A f \in Keys : Cached(cache[f]) \in Entry \cup {None}
  <2> SUFFICES ASSUME NEW f \in Keys PROVE Cached(cache[f]) \in Entry \cup {None}
    OBVIOUS
  <2> DEFINE e == cache[f]
  <2>1. e \in Entry \cup {None}
    BY DEF Typed, TypeOK, FeaturesTypes
  <2>2. CASE e # None /\ e.left # 1
    <3>1. e.left - 1 \in 1..TTL
      BY <2>1, <2>2, Constants DEF Entry
    <3> QED BY <2>1, <2>2, <3>1 DEF Cached, Entry
  <2> QED BY <2>1, <2>2 DEF Cached
<1>3. override' \in [Keys -> Override \cup {None}] /\ cache' \in [Keys -> Entry \cup {None}]
  BY <1>1, <1>2 DEF Tick
<1>4. calm' \in 0..Settling
  <2>1. calm' = 0 \/ calm' = calm \/ (calm < Settling /\ calm' = calm + 1)
    BY DEF Tick
  <2> QED BY <2>1, Constants DEF Typed, TypeOK, FeaturesTypes
<1>5. ASSUME NEW c \in Checks
      PROVE  check'[c] \in Check /\ check'[c].pc = check[c].pc
  <2> DEFINE g == Grants(override', plan, enabled, check[c].feature)
             m == IF check[c].feature \in {f \in Keys : override[f] # None /\ Live(override[f]) = None}
                  THEN {"override"} ELSE {}
  <2>1. check[c] \in Check /\ check[c].feature \in Keys /\ plan \in Plans \cup {None}
    BY DEF Typed, TypeOK, FeaturesTypes, Check
  <2>2. g \in BOOLEAN /\ m \in SUBSET Source
    BY <1>3, <2>1, GrantsBoolean DEF Source
  <2>3. CASE Running(c)
    <3>1. check'[c] = [check[c] EXCEPT !.age = @ + 1, !.moved = @ \cup m, !.seen = @ \cup {g}]
      BY <2>3 DEF Tick
    <3>2. check[c].age < MaxDelay
      BY <2>3 DEF Tick
    <3>3. check[c].age + 1 \in 0..MaxDelay
      BY <2>1, <3>2, Constants DEF Check
    <3> HIDE DEF g, m
    <3>4. check[c].moved \cup m \in SUBSET Source /\ check[c].seen \cup {g} \in SUBSET BOOLEAN
      BY <2>1, <2>2 DEF Check
    <3>5. check'[c] = [check[c] EXCEPT !.age = check[c].age + 1,
                         !.moved = check[c].moved \cup m, !.seen = check[c].seen \cup {g}]
      BY <3>1
    <3>6. check'[c] \in Check
      <4> HIDE DEF Source
      <4> QED BY <2>1, <3>3, <3>4, <3>5 DEF Check
    <3> QED BY <2>1, <3>1, <3>6 DEF Check
  <2>4. CASE ~Running(c)
    BY <2>1, <2>4 DEF Tick
  <2> QED BY <2>3, <2>4
<1>6. check' \in [Checks -> Check]
  <2>1. \E g : check' = [c \in Checks |-> g[c]]
    <3>1. check' = [c \in Checks |-> check'[c]]
      BY DEF Tick
    <3> QED BY <3>1
  <2> QED BY <1>5, <2>1
<1> QED BY <1>3, <1>4, <1>5, <1>6

LEMMA TypeFeatures ==
  ASSUME Typed, FeaturesNext, UNCHANGED <<count, visit>>
  PROVE  Typed'
<1>1. /\ FeaturesTypes
      /\ count \in [Checks -> [Keys -> Nat] \cup {None}] /\ visit \in [Visits -> Visit]
      /\ Mailed /\ Planned
  BY DEF Typed, TypeOK
<1>2. ASSUME FeaturesTypes', Planned',
             \A c \in Checks : check[c].pc = "end" => check'[c].pc = "end"
      PROVE  Typed'
  <2>1. visit' \in [Visits -> Visit] /\ count' \in [Checks -> [Keys -> Nat] \cup {None}]
    BY <1>1
  <2>2. Mailed'
    BY <1>1, <1>2 DEF Mailed, At
  <2> QED BY <1>2, <2>1, <2>2 DEF Typed, TypeOK
<1>3. CASE \E c \in Checks : HasFeature(c)
  <2>1. PICK c \in Checks : HasFeature(c)
    BY <1>3
  <2>2. /\ UNCHANGED <<rows, edits, calm, changes>>
        /\ cache' \in [Keys -> Entry \cup {None}] /\ check' \in [Checks -> Check]
        /\ check[c].pc # "end" /\ \A d \in Checks : d # c => check'[d] = check[d]
    BY <2>1, CheckTyped
  <2>3. FeaturesTypes' /\ Planned'
    BY <1>1, <2>2 DEF rows, edits, FeaturesTypes, Planned, Exists
  <2> QED BY <1>2, <2>2, <2>3
<1>4. ASSUME NEW source \in Source, NEW fs \in SUBSET Keys, Note(source, fs),
             override' \in [Keys -> Override \cup {None}], plan' \in Plans \cup {None}
      PROVE  /\ check' \in [Checks -> Check] /\ calm' \in 0..Settling
             /\ \A c \in Checks : check'[c].pc = check[c].pc
  <2>1. check' \in [Checks -> Check] /\ calm' \in 0..Settling
    BY <1>4, NoteTyped
  <2>2. \A c \in Checks : check'[c].pc = check[c].pc
    BY <1>4, NoteKeeps
  <2> QED BY <2>1, <2>2
<1>5. CASE \E u \in Updates : EditsPlan(u)
  <2>1. PICK u \in Updates : EditsPlan(u)
    BY <1>5
  <2>2. /\ UNCHANGED <<plan, override, cache>> /\ changes' \in 0..MaxChanges
        /\ enabled' \in [Plans -> (SUBSET Keys) \cup {Unused, Gone}]
        /\ \A p \in Plans : enabled[p] # Unused => enabled'[p] # Unused
        /\ \A p \in Plans : Exists(p) => Exists(p)'
        /\ update' \in [Updates -> Update]
        /\ \A v \in Updates : v # u => update'[v] = update[v]
        /\ update'[u].pc # "start"
        /\ update'[u].plan \in Plans /\ enabled'[update'[u].plan] # Unused
        /\ last' \in [Plans -> Updates \cup {None}] /\ rivals' \in [Plans -> SUBSET Updates]
    BY <2>1, EditTyped
  <2>3. /\ check' \in [Checks -> Check] /\ calm' \in 0..Settling
        /\ \A c \in Checks : check'[c].pc = check[c].pc
    <3>1. CASE UNCHANGED <<check, calm>>
      BY <1>1, <3>1 DEF FeaturesTypes
    <3>2. CASE \E fs \in SUBSET Keys : Note("enabled", fs)
      BY <3>2, <1>1, <1>4, <2>2 DEF FeaturesTypes, Source
    <3> QED BY <2>1, <3>1, <3>2, EditTyped
  <2>4. FeaturesTypes'
    BY <1>1, <2>2, <2>3 DEF FeaturesTypes
  <2>5. Planned'
    <3>1. plan' # None => Exists(plan)'
      <4>1. plan # None => plan \in Plans /\ Exists(plan)
        BY <1>1 DEF Planned, FeaturesTypes
      <4>2. plan # None => enabled'[plan] \notin {Unused, Gone}
        BY <4>1, <2>2 DEF Exists
      <4> QED BY <4>2, <2>2 DEF Exists
    <3>2. \A v \in Updates :
            IF update'[v].pc = "start" THEN update'[v].todo = {}
            ELSE update'[v].plan \in Plans /\ enabled'[update'[v].plan] # Unused
      BY <1>1, <2>2 DEF Planned
    <3> QED BY <3>1, <3>2 DEF Planned
  <2> QED BY <1>2, <2>3, <2>4, <2>5
<1>6. CASE \E p \in Plans : DeletePlan(p)
  <2>1. PICK p \in Plans : DeletePlan(p)
    BY <1>6
  <2>2. /\ Exists(p) /\ p # plan /\ enabled' = [enabled EXCEPT ![p] = Gone]
        /\ last' = [last EXCEPT ![p] = None] /\ Note("enabled", Keys)
        /\ UNCHANGED <<plan, override, cache, update, rivals>>
        /\ changes < MaxChanges /\ changes' = changes + 1
    BY <2>1 DEF DeletePlan, Counted
  <2>3. Keys \in SUBSET Keys /\ "enabled" \in Source
    BY DEF Source
  <2>4. /\ check' \in [Checks -> Check] /\ calm' \in 0..Settling
        /\ \A c \in Checks : check'[c].pc = check[c].pc
    BY <1>1, <1>4, <2>2, <2>3 DEF FeaturesTypes
  <2>5. FeaturesTypes'
    <3>1. enabled' \in [Plans -> (SUBSET Keys) \cup {Unused, Gone}]
      BY <1>1, <2>2 DEF FeaturesTypes
    <3>2. changes' \in 0..MaxChanges
      BY <1>1, <2>2, Constants DEF FeaturesTypes
    <3> QED BY <1>1, <2>2, <2>4, <3>1, <3>2 DEF FeaturesTypes
  <2>6. \A q \in Plans : /\ enabled[q] # Unused => enabled'[q] # Unused
                         /\ q # p => enabled'[q] = enabled[q]
    BY <1>1, <2>2, Sets DEF FeaturesTypes
  <2>7. Planned'
    <3>1. plan' # None => Exists(plan)'
      BY <1>1, <2>2, <2>6 DEF Planned, FeaturesTypes, Exists
    <3> QED BY <1>1, <2>2, <2>6, <3>1 DEF Planned
  <2> QED BY <1>2, <2>4, <2>5, <2>7
<1>7. ASSUME NEW o \in Override \cup {None}, NEW f \in Keys,
             Counted, override' = [override EXCEPT ![f] = o],
             UNCHANGED <<plan, enabled>>, Note("override", {f}), UNCHANGED <<cache, edits>>
      PROVE  Typed'
  <2>1. override' \in [Keys -> Override \cup {None}]
    BY <1>1, <1>7 DEF FeaturesTypes
  <2>2. {f} \in SUBSET Keys /\ "override" \in Source
    BY DEF Source
  <2>3. /\ check' \in [Checks -> Check] /\ calm' \in 0..Settling
        /\ \A c \in Checks : check'[c].pc = check[c].pc
    BY <1>1, <1>4, <1>7, <2>1, <2>2 DEF FeaturesTypes
  <2>4. changes' \in 0..MaxChanges
    BY <1>1, <1>7, Constants DEF FeaturesTypes, Counted
  <2>5. FeaturesTypes' /\ Planned'
    BY <1>1, <1>7, <2>1, <2>3, <2>4 DEF FeaturesTypes, edits, Planned, Exists
  <2> QED BY <1>2, <2>3, <2>5
<1>8. ASSUME NEW f \in Keys, NEW value \in BOOLEAN, NEW left \in Lives \cup {Forever},
             SetOverride(f, value, left)
      PROVE  Typed'
  <2>1. [value |-> value, left |-> left] \in Override
    BY FeaturesAssumption DEF Override
  <2> QED BY <2>1, <1>7, <1>8 DEF SetOverride
<1>9. ASSUME NEW f \in Keys, DeleteOverride(f)
      PROVE  Typed'
  BY <1>7, <1>9 DEF DeleteOverride
<1>10. CASE \E p \in Plans \cup {None} : ChangeSubscription(p)
  <2>1. PICK p \in Plans \cup {None} : ChangeSubscription(p)
    BY <1>10
  <2>2. /\ p # None => Exists(p)
        /\ plan' = p /\ UNCHANGED <<enabled, override>> /\ Note("plan", Keys)
        /\ UNCHANGED <<cache, edits>> /\ changes < MaxChanges /\ changes' = changes + 1
    BY <2>1 DEF ChangeSubscription, Counted
  <2>3. Keys \in SUBSET Keys /\ "plan" \in Source
    BY DEF Source
  <2>4. /\ check' \in [Checks -> Check] /\ calm' \in 0..Settling
        /\ \A c \in Checks : check'[c].pc = check[c].pc
    BY <1>1, <1>4, <2>2, <2>3 DEF FeaturesTypes
  <2>5. changes' \in 0..MaxChanges
    BY <1>1, <2>2, Constants DEF FeaturesTypes
  <2>6. FeaturesTypes' /\ Planned'
    BY <1>1, <2>2, <2>4, <2>5 DEF FeaturesTypes, edits, Planned, Exists
  <2> QED BY <1>2, <2>4, <2>6
<1>11. CASE Tick
  <2>1. /\ override' \in [Keys -> Override \cup {None}] /\ cache' \in [Keys -> Entry \cup {None}]
        /\ check' \in [Checks -> Check] /\ calm' \in 0..Settling
        /\ \A c \in Checks : check'[c].pc = check[c].pc
    BY <1>11, TickTyped
  <2>2. UNCHANGED <<plan, enabled, edits, changes>>
    BY <1>11 DEF Tick
  <2>3. FeaturesTypes' /\ Planned'
    BY <1>1, <2>1, <2>2 DEF FeaturesTypes, edits, Planned, Exists
  <2> QED BY <1>2, <2>1, <2>3
<1> QED BY <1>3, <1>5, <1>6, <1>8, <1>9, <1>10, <1>11 DEF FeaturesNext

\* What the steps of Tracking leave alone.
LEMMA TrackingKeeps ==
  ASSUME \/ \E c \in Checks : InsertLog(c) \/ NextMail(c) \/ CleanupOldLogs(c)
         \/ \E v \in Visits : Tracks(v)
         \/ Dies
  PROVE  UNCHANGED <<rows, cache, last, rivals, calm, changes>>
BY DEF InsertLog, NextMail, CleanupOldLogs, Tracks, Track, IncrementCount, ReadAndDispatch,
       Fails, Dies, features, edits

LEMMA TypeTracking ==
  ASSUME Typed,
         \/ \E c \in Checks : InsertLog(c) \/ NextMail(c) \/ CleanupOldLogs(c)
         \/ \E v \in Visits : Tracks(v)
         \/ Dies
  PROVE  Typed'
<1> USE DEF At
<1>1. /\ FeaturesTypes /\ check \in [Checks -> Check] /\ update \in [Updates -> Update]
      /\ count \in [Checks -> [Keys -> Nat] \cup {None}] /\ visit \in [Visits -> Visit]
      /\ Mailed /\ Planned
  BY DEF Typed, TypeOK, FeaturesTypes
<1>2. UNCHANGED <<rows, cache, last, rivals, calm, changes>>
  BY TrackingKeeps
<1>3. ASSUME check' \in [Checks -> Check], UNCHANGED update,
             count' \in [Checks -> [Keys -> Nat] \cup {None}],
             visit' \in [Visits -> Visit], Mailed'
      PROVE  Typed'
  BY <1>1, <1>2, <1>3 DEF Typed, TypeOK, FeaturesTypes, Planned, Exists, rows
<1>4. ASSUME NEW c \in Checks, InsertLog(c) PROVE Typed'
  <2>1. /\ check[c].pc = "insert" /\ UNCHANGED <<edits, visit>>
    BY <1>4 DEF InsertLog
  <2>2. check' \in [Checks -> Check] /\ \A d \in Checks : d # c => check'[d] = check[d]
    <3>1. CASE check' = [check EXCEPT ![c].pc = "end"]
      BY <1>1, <3>1 DEF Check
    <3>2. CASE check' = [check EXCEPT ![c] = Fresh]
      BY <1>1, <3>2, FreshTyped
    <3> QED BY <1>4, <3>1, <3>2 DEF InsertLog, Goto
  <2>3. count' \in [Checks -> [Keys -> Nat] \cup {None}]
    BY <1>1, <1>4 DEF InsertLog
  <2>4. Mailed'
    BY <1>1, <2>1, <2>2 DEF Mailed
  <2> QED BY <1>1, <1>3, <2>1, <2>2, <2>3, <2>4 DEF edits
<1>5. ASSUME NEW c \in Checks, NextMail(c) PROVE Typed'
  <2>1. /\ \A v \in Visits : visit[v].mail # c
        /\ UNCHANGED <<edits, visit>>
        /\ check' = [check EXCEPT ![c] = Fresh] /\ count' = [count EXCEPT ![c] = None]
    BY <1>5 DEF NextMail
  <2>2. check' \in [Checks -> Check] /\ count' \in [Checks -> [Keys -> Nat] \cup {None}]
    BY <1>1, <2>1, FreshTyped
  <2>3. Mailed'
    BY <1>1, <2>1 DEF Mailed
  <2> QED BY <1>1, <1>3, <2>1, <2>2, <2>3 DEF edits
<1>6. ASSUME NEW c \in Checks, CleanupOldLogs(c) PROVE Typed'
  <2>1. UNCHANGED <<features, visit>> /\ count' = [count EXCEPT ![c] = None]
    BY <1>6 DEF CleanupOldLogs
  <2>2. count' \in [Checks -> [Keys -> Nat] \cup {None}]
    BY <1>1, <2>1
  <2> QED BY <1>1, <1>3, <2>1, <2>2 DEF features, edits, Mailed
<1>7. ASSUME NEW v \in Visits, NEW c \in Checks, NEW f \in Keys, Track(v, c, f) PROVE Typed'
  <2>1. /\ check[c].pc = "end" /\ UNCHANGED <<features, count>>
        /\ visit' = [visit EXCEPT ![v].pc = "count", ![v].mail = c, ![v].kind = f]
    BY <1>7 DEF Track
  <2>2. visit' \in [Visits -> Visit]
    <3>1. visit[v] \in Visit
      BY <1>1
    <3>2. [visit[v] EXCEPT !.pc = "count", !.mail = c, !.kind = f] \in Visit
      BY <3>1, <1>7 DEF Visit
    <3>3. visit' = [visit EXCEPT ![v] = [visit[v] EXCEPT !.pc = "count", !.mail = c, !.kind = f]]
      BY <1>1, <2>1, <3>2
    <3> QED BY <1>1, <3>2, <3>3
  <2>3. Mailed'
    BY <1>1, <2>1, <2>2 DEF Mailed, features
  <2> QED BY <1>1, <1>3, <2>1, <2>2, <2>3 DEF features, edits
<1>8. ASSUME NEW v \in Visits, UNCHANGED features, visit[v].pc # "start",
             count' \in [Checks -> [Keys -> Nat] \cup {None}],
             visit'[v] \in Visit, visit'[v].mail = visit[v].mail,
             visit' = [visit EXCEPT ![v] = visit'[v]]
      PROVE  Typed'
  <2> DEFINE next == visit'[v]
  <2> HIDE DEF next
  <2>1. visit' = [visit EXCEPT ![v] = next] /\ next \in Visit /\ next.mail = visit[v].mail
    BY <1>8 DEF next
  <2>2. visit' \in [Visits -> Visit]
    BY <1>1, <2>1
  <2>3. Mailed'
    BY <1>1, <1>8, <2>1, <2>2 DEF Mailed, features
  <2> QED BY <1>1, <1>3, <1>8, <2>2, <2>3 DEF features, edits
<1>9. ASSUME NEW v \in Visits, IncrementCount(v) PROVE Typed'
  <2> DEFINE c == visit[v].mail  f == visit[v].kind
  <2>1. visit[v].pc = "count" /\ UNCHANGED features /\ visit[v] \in Visit
    BY <1>1, <1>9 DEF IncrementCount
  <2>2. c \in Checks /\ f \in Keys
    BY <1>1, <2>1 DEF Mailed, Visit
  <2>3. CASE count[c] # None
    <3>1. count' = [count EXCEPT ![c][f] = @ + 1]
      BY <1>9, <2>3 DEF IncrementCount
    <3>2. visit' = [visit EXCEPT ![v].pc = "read", ![v].nth = count[c][f] + 1]
      BY <1>9, <2>3 DEF IncrementCount
    <3>3. count[c] \in [Keys -> Nat] /\ count[c][f] + 1 \in Nat
      BY <1>1, <2>2, <2>3
    <3>4. count' \in [Checks -> [Keys -> Nat] \cup {None}]
      BY <1>1, <3>1, <3>3
    <3>5. /\ visit'[v] \in Visit /\ visit'[v].mail = visit[v].mail
          /\ visit' = [visit EXCEPT ![v] = visit'[v]]
      <4> DEFINE n == count[c][f] + 1
      <4>1. n \in Nat /\ visit' = [visit EXCEPT ![v].pc = "read", ![v].nth = n]
        BY <3>2, <3>3
      <4> HIDE DEF n
      <4> QED BY <1>1, <4>1 DEF Visit
    <3> QED BY <1>8, <2>1, <3>4, <3>5
  <2>4. CASE count[c] = None
    <3>1. visit' = [visit EXCEPT ![v].pc = "end"] /\ UNCHANGED count
      BY <1>9, <2>4 DEF IncrementCount
    <3>2. /\ visit'[v] \in Visit /\ visit'[v].mail = visit[v].mail
          /\ visit' = [visit EXCEPT ![v] = visit'[v]]
      BY <1>1, <3>1 DEF Visit
    <3> QED BY <1>1, <1>8, <2>1, <3>1, <3>2
  <2> QED BY <2>3, <2>4
<1>10. ASSUME NEW v \in Visits, ReadAndDispatch(v) PROVE Typed'
  <2> DEFINE c == visit[v].mail  f == visit[v].kind  n == Says(count[c][f])
  <2>1. visit[v].pc = "read" /\ UNCHANGED <<features, count>> /\ visit[v] \in Visit
    BY <1>1, <1>10 DEF ReadAndDispatch
  <2>2. c \in Checks /\ f \in Keys
    BY <1>1, <2>1 DEF Mailed, Visit
  <2>3. count[c] # None => n \in Nat
    BY <1>1, <2>2 DEF Says
  <2>4. visit' = [visit EXCEPT ![v] = IF count[c] = None THEN [@ EXCEPT !.pc = "end"]
                    ELSE [@ EXCEPT !.pc = "told", !.says = n]]
    BY <1>10 DEF ReadAndDispatch
  <2> HIDE DEF n, c, f
  <2>5. /\ visit'[v] \in Visit /\ visit'[v].mail = visit[v].mail
        /\ visit' = [visit EXCEPT ![v] = visit'[v]]
    BY <1>1, <2>1, <2>3, <2>4 DEF Visit
  <2> QED BY <1>1, <1>8, <2>1, <2>5
<1>11. ASSUME NEW v \in Visits, Fails(v) PROVE Typed'
  <2>1. /\ visit[v].pc # "start" /\ UNCHANGED <<features, count>>
        /\ visit' = [visit EXCEPT ![v].pc = "end"]
    BY <1>11 DEF Fails
  <2>2. /\ visit'[v] \in Visit /\ visit'[v].mail = visit[v].mail
        /\ visit' = [visit EXCEPT ![v] = visit'[v]]
    BY <1>1, <2>1 DEF Visit
  <2> QED BY <1>1, <1>8, <2>1, <2>2
<1>12. CASE Dies
  <2>1. check' \in [Checks -> Check] /\ \A c \in Checks : check[c].pc = "end" => check'[c].pc = "end"
    BY <1>1, <1>12, FreshTyped DEF Dies
  <2>2. /\ update' \in [Updates -> Update]
        /\ \A u \in Updates :
             /\ update'[u].plan = update[u].plan /\ update'[u].todo = update[u].todo
             /\ update'[u].pc = "start" <=> update[u].pc = "start"
    BY <1>1, <1>12 DEF Dies, Update, Planned
  <2>3. visit' \in [Visits -> Visit] /\ UNCHANGED count
    BY <1>1, <1>12 DEF Dies, Visit
  <2>4. \A v \in Visits : visit'[v].mail = visit[v].mail
                          /\ (visit'[v].pc # "start" => visit[v].pc # "start")
    BY <1>1, <1>12 DEF Dies, Visit
  <2>5. Mailed'
    BY <1>1, <2>1, <2>4 DEF Mailed
  <2> QED BY <1>1, <1>2, <2>1, <2>2, <2>3, <2>5 DEF Typed, TypeOK, FeaturesTypes, Planned, Exists, rows
<1> QED BY <1>4, <1>5, <1>6, <1>7, <1>9, <1>10, <1>11, <1>12 DEF Tracks

LEMMA TypeNext == Typed /\ [Next]_vars => Typed'
<1> SUFFICES ASSUME Typed, [Next]_vars PROVE Typed'
  OBVIOUS
<1>1. CASE FeaturesNext /\ UNCHANGED <<count, visit>>
  BY <1>1, TypeFeatures
<1>2. CASE \/ \E c \in Checks : InsertLog(c) \/ NextMail(c) \/ CleanupOldLogs(c)
           \/ \E v \in Visits : Tracks(v)
           \/ Dies
  BY <1>2, TypeTracking
<1>3. CASE UNCHANGED vars
  BY <1>3 DEF vars, features, rows, edits, Typed, TypeOK, FeaturesTypes, Mailed, Planned, Exists, At
<1> QED BY <1>1, <1>2, <1>3 DEF Next

LEMMA TypedHolds == Spec => []Typed
BY TypeInit, TypeNext, PTL DEF Spec

\* Every variable of Features and Tracking keeps its type.
THEOREM TrackingTypes == Spec => []TypeOK
<1>1. Typed => TypeOK
  BY DEF Typed
<1> QED BY <1>1, TypedHolds, PTL

----------------------------------------------------------------------------
(* What the events of a visit tell.                                        *)

\* What was counted for a visit is still in the count when it is read again.
Counts == \A v \in Visits : LET c == visit[v].mail  f == visit[v].kind IN
  /\ visit[v].pc = "read" /\ count[c] # None => visit[v].nth <= count[c][f]
  /\ visit[v].pc = "told" => /\ visit[v].says > visit[v].nth
                             /\ count[c] # None => visit[v].says <= count[c][f] + 1

LEMMA CountsNext == Typed /\ Typed' /\ Counts /\ [Next]_vars => Counts'
<1> SUFFICES ASSUME Typed, Typed', Counts, [Next]_vars PROVE Counts'
  OBVIOUS
<1>1. /\ count \in [Checks -> [Keys -> Nat] \cup {None}] /\ visit \in [Visits -> Visit] /\ Mailed
      /\ Mailed'
  BY DEF Typed, TypeOK
<1>2. ASSUME UNCHANGED visit,
             \A c \in Checks : count'[c] # None /\ check[c].pc = "end" => count'[c] = count[c]
      PROVE  Counts'
  BY <1>1, <1>2 DEF Counts, Mailed, At
<1>3. CASE UNCHANGED <<count, visit>>
  BY <1>3, <1>2
<1>4. ASSUME NEW c \in Checks, InsertLog(c) \/ NextMail(c) \/ CleanupOldLogs(c) PROVE Counts'
  <2>1. /\ UNCHANGED visit /\ \A d \in Checks : d # c => count'[d] = count[d]
        /\ count'[c] # None => check[c].pc # "end" \/ count'[c] = count[c]
    BY <1>1, <1>4 DEF InsertLog, NextMail, CleanupOldLogs, At
  <2> QED BY <2>1, <1>2
<1>5. ASSUME NEW v \in Visits, Tracks(v) PROVE Counts'
  <2> DEFINE c == visit[v].mail  f == visit[v].kind
             Right(u, vs, ct) == LET d == vs[u].mail  g == vs[u].kind IN
               /\ vs[u].pc = "read" /\ ct[d] # None => vs[u].nth <= ct[d][g]
               /\ vs[u].pc = "told" => /\ vs[u].says > vs[u].nth
                                       /\ ct[d] # None => vs[u].says <= ct[d][g] + 1
  <2>1. \A u \in Visits : Right(u, visit, count)
    BY DEF Counts
  <2>2. ASSUME \A u \in Visits : Right(u, visit', count') PROVE Counts'
    BY <2>2 DEF Counts
  <2>3. ASSUME NEW q, visit' = [visit EXCEPT ![v] = q], q.pc \notin {"read", "told"}, UNCHANGED count
        PROVE  Counts'
    <3>1. \A u \in Visits : visit'[u] = IF u = v THEN q ELSE visit[u]
      BY <1>1, <2>3
    <3> QED BY <3>1, <2>1, <2>2, <2>3
  <2>4. CASE \E d \in Checks, g \in Keys : Track(v, d, g)
    <3>1. PICK d \in Checks, g \in Keys : Track(v, d, g)
      BY <2>4
    <3>2. /\ visit' = [visit EXCEPT ![v] = [@ EXCEPT !.pc = "count", !.mail = d, !.kind = g]]
          /\ UNCHANGED count /\ visit[v] \in Visit
      BY <1>1, <3>1 DEF Track
    <3>3. [visit[v] EXCEPT !.pc = "count", !.mail = d, !.kind = g].pc = "count"
      BY <3>2 DEF Visit
    <3> QED BY <2>3, <3>2, <3>3
  <2>5. CASE IncrementCount(v)
    <3>1. visit[v].pc = "count" /\ UNCHANGED features /\ visit[v] \in Visit
      BY <1>1, <2>5 DEF IncrementCount
    <3>2. c \in Checks /\ f \in Keys
      BY <1>1, <3>1 DEF Mailed, Visit
    <3>3. CASE count[c] # None
      <4>1. count' = [count EXCEPT ![c][f] = @ + 1]
        BY <2>5, <3>3 DEF IncrementCount
      <4>2. visit' = [visit EXCEPT ![v].pc = "read", ![v].nth = count[c][f] + 1]
        BY <2>5, <3>3 DEF IncrementCount
      <4>3. count[c] \in [Keys -> Nat] /\ count[c][f] \in Nat
        BY <1>1, <3>2, <3>3
      <4>4. count'[c] \in [Keys -> Nat] /\ count'[c][f] = count[c][f] + 1
        BY <1>1, <3>2, <4>1, <4>3
      <4>5. Right(v, visit', count')
        <5>1. /\ visit'[v].pc = "read" /\ visit'[v].nth = count[c][f] + 1
              /\ visit'[v].mail = c /\ visit'[v].kind = f
          BY <1>1, <4>2, <3>1 DEF Visit
        <5> QED BY <4>3, <4>4, <5>1
      <4>6. ASSUME NEW u \in Visits, u # v PROVE Right(u, visit', count')
        <5>1. visit'[u] = visit[u] /\ visit[u] \in Visit
          BY <1>1, <4>2, <4>6
        <5> DEFINE d == visit[u].mail  g == visit[u].kind
        <5>2. CASE visit[u].pc \in {"read", "told"} /\ count'[d] # None
          <6>1. d \in Checks /\ g \in Keys /\ visit[u].nth \in Nat /\ visit[u].says \in Nat
            BY <1>1, <5>1, <5>2 DEF Mailed, Visit
          <6>2. count[d] # None
            BY <1>1, <3>3, <4>1, <5>2, <6>1
          <6>3. count[d] \in [Keys -> Nat] /\ count[d][g] \in Nat /\ count'[d][g] \in Nat
                /\ count[d][g] <= count'[d][g]
            BY <1>1, <3>2, <4>1, <4>3, <6>1, <6>2
          <6>4. /\ visit[u].pc = "read" => visit[u].nth <= count[d][g]
                /\ visit[u].pc = "told" => /\ visit[u].says > visit[u].nth
                                           /\ visit[u].says <= count[d][g] + 1
            BY <2>1, <6>2
          <6> HIDE DEF d, g
          <6>5. /\ visit[u].pc = "read" => visit[u].nth <= count'[d][g]
                /\ visit[u].pc = "told" => /\ visit[u].says > visit[u].nth
                                           /\ visit[u].says <= count'[d][g] + 1
            BY <6>1, <6>3, <6>4
          <6> QED BY <5>1, <6>5 DEF d, g
        <5>3. CASE visit[u].pc \notin {"read", "told"}
          BY <5>1, <5>3
        <5>4. CASE count'[d] = None
          BY <5>1, <5>4, <2>1
        <5> QED BY <5>2, <5>3, <5>4
      <4> QED BY <2>2, <4>5, <4>6
    <3>4. CASE count[c] = None
      <4>1. visit' = [visit EXCEPT ![v] = [@ EXCEPT !.pc = "end"]] /\ UNCHANGED count
        BY <1>1, <2>5, <3>4 DEF IncrementCount
      <4>2. [visit[v] EXCEPT !.pc = "end"].pc = "end"
        BY <3>1 DEF Visit
      <4> QED BY <2>3, <4>1, <4>2
    <3> QED BY <3>3, <3>4
  <2>6. CASE ReadAndDispatch(v)
    <3>1. visit[v].pc = "read" /\ UNCHANGED <<features, count>> /\ visit[v] \in Visit
      BY <1>1, <2>6 DEF ReadAndDispatch
    <3>2. c \in Checks /\ f \in Keys /\ visit[v].nth \in Nat
      BY <1>1, <3>1 DEF Mailed, Visit
    <3>3. CASE count[c] # None
      <4> DEFINE q == [visit[v] EXCEPT !.pc = "told", !.says = Says(count[c][f])]
      <4>1. visit' = [visit EXCEPT ![v] = q]
        BY <2>6, <3>3 DEF ReadAndDispatch
      <4>2. count[c][f] \in Nat /\ Says(count[c][f]) = count[c][f] + 1
        BY <1>1, <3>2, <3>3 DEF Says
      <4>3. /\ q.pc = "told" /\ q.says = count[c][f] + 1 /\ q.nth = visit[v].nth
            /\ q.mail = c /\ q.kind = f
        BY <3>1, <4>2 DEF Visit
      <4>4. visit[v].nth <= count[c][f]
        BY <2>1, <3>1, <3>3
      <4>5. \A u \in Visits : visit'[u] = IF u = v THEN q ELSE visit[u]
        BY <1>1, <4>1
      <4> HIDE DEF q
      <4>6. Right(v, visit', count')
        BY <3>1, <3>2, <4>2, <4>3, <4>4, <4>5
      <4>7. ASSUME NEW u \in Visits, u # v PROVE Right(u, visit', count')
        BY <2>1, <3>1, <4>5, <4>7
      <4> QED BY <2>2, <4>6, <4>7
    <3>4. CASE count[c] = None
      <4>1. visit' = [visit EXCEPT ![v] = [@ EXCEPT !.pc = "end"]] /\ UNCHANGED count
        BY <1>1, <2>6, <3>4 DEF ReadAndDispatch
      <4>2. [visit[v] EXCEPT !.pc = "end"].pc = "end"
        BY <3>1 DEF Visit
      <4> QED BY <2>3, <4>1, <4>2
    <3> QED BY <3>3, <3>4
  <2>7. CASE Fails(v)
    <3>1. visit' = [visit EXCEPT ![v] = [@ EXCEPT !.pc = "end"]] /\ UNCHANGED count
      BY <1>1, <2>7 DEF Fails
    <3>2. [visit[v] EXCEPT !.pc = "end"].pc = "end"
      BY <1>1 DEF Visit
    <3> QED BY <2>3, <3>1, <3>2
  <2> QED BY <1>5, <2>4, <2>5, <2>6, <2>7 DEF Tracks
<1>6. CASE Dies
  <2>1. \A v \in Visits : \/ visit'[v] = visit[v]
                          \/ visit'[v].pc = "end"
    BY <1>1, <1>6 DEF Dies, Visit
  <2>2. UNCHANGED count
    BY <1>6 DEF Dies
  <2> QED BY <2>1, <2>2 DEF Counts
<1> QED BY <1>3, <1>4, <1>5, <1>6 DEF Next, vars

\* The count in the event of an open or a click is too high for the visit it
\* tells of, and by one at most for the visits there have been.
THEOREM RunAhead == Spec => []EventsRunAhead
<1>1. Init => Counts
  BY DEF Init, Counts
<1>2. Counts => EventsRunAhead
  BY DEF Counts, EventsRunAhead
<1> QED BY <1>1, <1>2, TypedHolds, CountsNext, PTL DEF Spec

----------------------------------------------------------------------------
(* What overlapping updates of a plan leave.                               *)

\* What is to be enabled was wanted.
Wanted == \A u \in Updates :
  /\ update[u].todo \subseteq update[u].want
  /\ update[u].pc = "disable" => update[u].todo = update[u].want

\* The plan of the last update, and who may still enable features of it.
Lasting(p) == LET u == last[p] IN last[p] # None =>
  /\ Exists(p) /\ update[u].plan = p /\ update[u].pc \in {"enable", "failed"}
  /\ update[u].pc = "enable" => update[u].want \ update[u].todo \subseteq enabled[p]
  /\ enabled[p] \subseteq update[u].want \cup UNION {update[v].want : v \in rivals[p]}
  /\ \A v \in Enabling(p) : v = u \/ v \in rivals[p]
  /\ \A v \in rivals[p] : update[v].pc # "start"

Edited == Wanted /\ \A p \in Plans : Lasting(p)

\* An update that begins has no part in the others.
LEMMA BeginKeeps ==
  ASSUME Typed, Edited, NEW u \in Updates, NEW p \in Plans, NEW want \in SUBSET Keys,
         Begin(u, p, want), NEW q \in Plans, last[q] # None => UNCHANGED <<enabled[q]>>
  PROVE  Wanted' /\ Lasting(q)'
<1>1. /\ update \in [Updates -> Update] /\ last \in [Plans -> Updates \cup {None}]
      /\ rivals \in [Plans -> SUBSET Updates] /\ Wanted /\ Lasting(q)
  BY DEF Typed, TypeOK, FeaturesTypes, Edited
<1>2. /\ update[u].pc = "start" /\ UNCHANGED <<last, rivals>>
      /\ update'[u] = [pc |-> "disable", plan |-> p, want |-> want, todo |-> want]
      /\ \A v \in Updates : v # u => update'[v] = update[v]
  BY <1>1 DEF Begin
<1>3. Wanted'
  BY <1>1, <1>2 DEF Wanted
<1>4. ASSUME last[q] # None PROVE Lasting(q)'
  <2>1. last[q] \in Updates /\ last[q] # u /\ update'[last[q]] = update[last[q]]
    BY <1>1, <1>2, <1>4 DEF Lasting
  <2>2. \A v \in rivals[q] : update'[v] = update[v]
    BY <1>1, <1>2, <1>4 DEF Lasting
  <2>3. {update'[v].want : v \in rivals[q]} = {update[v].want : v \in rivals[q]}
    BY <2>2
  <2>4. Enabling(q)' \subseteq Enabling(q)
    BY <1>1, <1>2 DEF Enabling
  <2>5. Exists(q)'
    BY <1>1, <1>4 DEF Lasting, Exists
  <2> QED BY <1>1, <1>2, <1>4, <2>1, <2>2, <2>3, <2>4, <2>5 DEF Lasting
<1> QED BY <1>2, <1>3, <1>4 DEF Lasting

\* What fails, and what dies, enables nothing any more.
LEMMA FailureKeeps ==
  ASSUME Typed, Edited, UNCHANGED <<enabled, last, rivals>>, update' \in [Updates -> Update],
         \A u \in Updates :
           /\ update'[u].plan = update[u].plan /\ update'[u].want = update[u].want
           /\ update'[u].todo = update[u].todo
           /\ update'[u].pc = update[u].pc \/ (update'[u].pc = "failed" /\ update[u].pc # "start")
  PROVE  Edited'
<1>1. /\ update \in [Updates -> Update] /\ last \in [Plans -> Updates \cup {None}]
      /\ rivals \in [Plans -> SUBSET Updates] /\ Wanted
  BY DEF Typed, TypeOK, FeaturesTypes, Edited
<1>2. Wanted'
  BY <1>1 DEF Wanted
<1>3. ASSUME NEW p \in Plans, last[p] # None PROVE Lasting(p)'
  <2>1. Lasting(p) /\ last[p] \in Updates
    BY <1>1, <1>3 DEF Edited
  <2>2. Enabling(p)' \subseteq Enabling(p)
    BY DEF Enabling
  <2>3. {update'[v].want : v \in rivals[p]} = {update[v].want : v \in rivals[p]}
    BY <1>1
  <2>4. \A v \in rivals[p] : update'[v].pc # "start"
    BY <1>1, <1>3, <2>1 DEF Lasting
  <2>5. Exists(p)' /\ update'[last[p]].plan = p /\ update'[last[p]].pc \in {"enable", "failed"}
    BY <1>3, <2>1 DEF Lasting, Exists
  <2>6. update'[last[p]].pc = "enable" =>
          update'[last[p]].want \ update'[last[p]].todo \subseteq enabled[p]
    BY <1>3, <2>1 DEF Lasting
  <2>7. enabled[p] \subseteq update'[last[p]].want \cup UNION {update'[v].want : v \in rivals[p]}
    BY <1>3, <2>1, <2>3 DEF Lasting
  <2> QED BY <1>3, <2>1, <2>2, <2>4, <2>5, <2>6, <2>7 DEF Lasting
<1>4. \A p \in Plans : Lasting(p)'
  BY <1>3 DEF Lasting
<1> QED BY <1>2, <1>4 DEF Edited

LEMMA DisableKeeps ==
  ASSUME Typed, Edited, NEW u \in Updates, Disable(u) PROVE Edited'
<1>1. /\ update \in [Updates -> Update] /\ last \in [Plans -> Updates \cup {None}]
      /\ rivals \in [Plans -> SUBSET Updates] /\ Wanted
      /\ enabled \in [Plans -> (SUBSET Keys) \cup {Unused, Gone}]
  BY DEF Typed, TypeOK, FeaturesTypes, Edited
<1>2. update[u].pc = "disable" /\ update' = [update EXCEPT ![u] = [@ EXCEPT !.pc = "enable"]]
  BY <1>1 DEF Disable
<1>3. PICK p \in Plans : update[u].plan = p
  BY <1>2 DEF Typed, Planned
<1>4. /\ update'[u].pc = "enable" /\ update'[u].plan = p /\ update'[u].want = update[u].want
      /\ update'[u].todo = update[u].todo
      /\ \A v \in Updates : v # u => update'[v] = update[v]
  BY <1>1, <1>2, <1>3 DEF Update
<1>5. Wanted'
  BY <1>1, <1>2, <1>4 DEF Wanted
<1>6. \A q \in Plans : {update'[v].want : v \in rivals[q]} = {update[v].want : v \in rivals[q]}
  BY <1>1, <1>4
<1>7. ASSUME NEW q \in Plans, q # p \/ ~Exists(p), last'[q] # None,
             last'[q] = last[q], rivals'[q] = rivals[q], enabled'[q] = enabled[q]
      PROVE  Lasting(q)'
  <2>1. last[q] \in Updates /\ Lasting(q) /\ Exists(q) /\ q # p
    BY <1>1, <1>7 DEF Edited, Lasting
  <2>2. last[q] # u /\ update'[last[q]] = update[last[q]]
    BY <1>2, <1>3, <1>4, <1>7, <2>1 DEF Lasting
  <2>3. Enabling(q)' \subseteq Enabling(q)
    BY <1>4, <2>1 DEF Enabling
  <2>4. \A v \in rivals[q] : update'[v].pc # "start"
    BY <1>1, <1>4, <1>7, <2>1 DEF Lasting
  <2>5. {update'[v].want : v \in rivals'[q]} = {update[v].want : v \in rivals[q]}
    BY <1>6, <1>7
  <2>6. Exists(q)'
    BY <2>1, <1>7 DEF Exists
  <2>7. enabled'[q] \subseteq update'[last'[q]].want \cup UNION {update'[v].want : v \in rivals'[q]}
    BY <2>1, <2>2, <2>5, <1>7 DEF Lasting
  <2> QED BY <2>1, <2>2, <2>3, <2>4, <2>6, <2>7, <1>7 DEF Lasting
<1>8. CASE ~Exists(p)
  <2>1. UNCHANGED <<enabled, last, rivals>>
    BY <1>3, <1>8 DEF Disable
  <2>2. \A q \in Plans : Lasting(q)'
    BY <1>7, <1>8, <2>1 DEF Lasting
  <2> QED BY <1>5, <2>2 DEF Edited
<1>9. CASE Exists(p)
  <2>1. /\ enabled' = [enabled EXCEPT ![p] = {}]
        /\ last' = [last EXCEPT ![p] = u] /\ rivals' = [rivals EXCEPT ![p] = Enabling(p)]
    BY <1>3, <1>9 DEF Disable, DisableAll
  <2>2. /\ enabled'[p] = {} /\ last'[p] = u /\ rivals'[p] = Enabling(p)
        /\ \A q \in Plans : q # p => /\ enabled'[q] = enabled[q] /\ last'[q] = last[q]
                                     /\ rivals'[q] = rivals[q]
    BY <1>1, <1>3, <2>1
  <2>3. Lasting(p)'
    <3>1. {} \in SUBSET Keys
      OBVIOUS
    <3>2. Exists(p)'
      BY <2>2, <3>1, Sets DEF Exists
    <3>3. Enabling(p)' \subseteq Enabling(p) \cup {u}
      BY <1>4 DEF Enabling
    <3>4. \A v \in Enabling(p) : update'[v].pc # "start"
      BY <1>2, <1>4 DEF Enabling
    <3>5. update[u].want \ update[u].todo = {}
      BY <1>1, <1>2 DEF Wanted
    <3>6. update'[u].want \ update'[u].todo \subseteq enabled'[p]
      BY <1>4, <3>5
    <3> QED BY <1>4, <2>2, <3>2, <3>3, <3>4, <3>6 DEF Lasting
  <2>4. \A q \in Plans : q # p => Lasting(q)'
    BY <1>7, <2>2 DEF Lasting
  <2> QED BY <1>5, <2>3, <2>4 DEF Edited
<1> QED BY <1>8, <1>9

LEMMA EnableKeeps ==
  ASSUME Typed, Edited, NEW u \in Updates, NEW f \in Keys, Enable(u, f) PROVE Edited'
<1>1. /\ update \in [Updates -> Update] /\ last \in [Plans -> Updates \cup {None}]
      /\ rivals \in [Plans -> SUBSET Updates] /\ Wanted
      /\ enabled \in [Plans -> (SUBSET Keys) \cup {Unused, Gone}]
  BY DEF Typed, TypeOK, FeaturesTypes, Edited
<1>2. update[u].pc = "enable" /\ f \in update[u].todo /\ UNCHANGED <<last, rivals>>
  BY DEF Enable
<1>3. PICK p \in Plans : update[u].plan = p
  BY <1>2 DEF Typed, Planned
<1>4. CASE Exists(p)
  <2>1. /\ enabled' = [enabled EXCEPT ![p] = @ \cup {f}]
        /\ update' = [update EXCEPT ![u].todo = @ \ {f}]
    BY <1>3, <1>4 DEF Enable
  <2>2. /\ enabled'[p] = enabled[p] \cup {f}
        /\ \A q \in Plans : q # p => enabled'[q] = enabled[q]
    BY <1>1, <2>1
  <2>3. /\ update'[u].pc = "enable" /\ update'[u].plan = p /\ update'[u].want = update[u].want
        /\ update'[u].todo = update[u].todo \ {f}
        /\ \A v \in Updates : v # u => update'[v] = update[v]
    BY <1>1, <1>2, <1>3, <2>1 DEF Update
  <2>4. Wanted'
    BY <1>1, <1>2, <2>3 DEF Wanted
  <2>5. \A q \in Plans : {update'[v].want : v \in rivals[q]} = {update[v].want : v \in rivals[q]}
    BY <1>1, <2>3
  <2>6. ASSUME NEW q \in Plans, last[q] # None PROVE Lasting(q)'
    <3>1. last[q] \in Updates /\ Lasting(q)
      BY <1>1, <2>6 DEF Edited
    <3> DEFINE w == last[q]
    <3>2. Enabling(q)' \subseteq Enabling(q)
      BY <1>2, <1>3, <2>3 DEF Enabling
    <3>3. \A v \in rivals[q] : update'[v].pc # "start"
      BY <1>1, <2>3, <2>6, <3>1 DEF Lasting
    <3>4. update'[w].plan = q /\ update'[w].pc \in {"enable", "failed"} /\ update'[w].want = update[w].want
      BY <1>2, <1>3, <2>3, <2>6, <3>1 DEF Lasting
    <3>5. Exists(q)'
      <4>1. enabled[q] \cup {f} \in SUBSET Keys
        BY <1>1, <2>6, <3>1 DEF Lasting, Exists
      <4>2. enabled'[q] \in SUBSET Keys
        BY <2>2, <4>1
      <4> QED BY <4>2, Sets DEF Exists
    <3>6. update'[w].pc = "enable" => update'[w].want \ update'[w].todo \subseteq enabled'[q]
      <4>1. CASE w = u
        <5>1. q = p /\ update[u].want \ update[u].todo \subseteq enabled[p]
          BY <1>2, <1>3, <2>6, <3>1, <4>1 DEF Lasting
        <5> HIDE DEF w
        <5> QED BY <2>2, <2>3, <4>1, <5>1
      <4>2. CASE w # u
        <5>1. update[w].pc = "enable" => update[w].want \ update[w].todo \subseteq enabled[q]
          BY <2>6, <3>1 DEF Lasting
        <5>2. update'[w] = update[w] /\ enabled[q] \subseteq enabled'[q]
          BY <2>2, <2>3, <3>1, <4>2
        <5> QED BY <5>1, <5>2
      <4> QED BY <4>1, <4>2
    <3>7. enabled'[q] \subseteq update'[w].want \cup UNION {update'[v].want : v \in rivals[q]}
      <4>1. enabled[q] \subseteq update[w].want \cup UNION {update[v].want : v \in rivals[q]}
        BY <2>6, <3>1 DEF Lasting
      <4>2. CASE q = p
        <5>1. u \in Enabling(p)
          BY <1>2, <1>3 DEF Enabling
        <5>2. u = w \/ u \in rivals[q]
          BY <2>6, <3>1, <4>2, <5>1 DEF Lasting
        <5>3. f \in update[u].want
          BY <1>1, <1>2 DEF Wanted
        <5>4. f \in update[w].want \cup UNION {update[v].want : v \in rivals[q]}
          BY <5>2, <5>3
        <5> QED BY <2>2, <2>5, <3>4, <4>1, <4>2, <5>4
      <4>3. CASE q # p
        BY <2>2, <2>5, <3>4, <4>1, <4>3
      <4> QED BY <4>2, <4>3
    <3> QED BY <1>2, <2>6, <3>1, <3>2, <3>3, <3>4, <3>5, <3>6, <3>7 DEF Lasting
  <2>7. \A q \in Plans : Lasting(q)'
    BY <1>2, <2>6 DEF Lasting
  <2> QED BY <2>4, <2>7 DEF Edited
<1>5. CASE ~Exists(p)
  <2>1. update' = [update EXCEPT ![u].pc = "failed"] /\ UNCHANGED enabled
    BY <1>3, <1>5 DEF Enable
  <2>2. /\ update' \in [Updates -> Update]
        /\ \A v \in Updates :
             /\ update'[v].plan = update[v].plan /\ update'[v].want = update[v].want
             /\ update'[v].todo = update[v].todo
             /\ update'[v].pc = update[v].pc \/ (update'[v].pc = "failed" /\ update[v].pc # "start")
    BY <1>1, <1>2, <2>1 DEF Update
  <2> QED BY <1>2, <2>1, <2>2, FailureKeeps
<1> QED BY <1>4, <1>5

LEMMA EditedNext == Typed /\ Edited /\ [Next]_vars => Edited'
<1> SUFFICES ASSUME Typed, Edited, [Next]_vars PROVE Edited'
  OBVIOUS
<1>1. /\ update \in [Updates -> Update] /\ last \in [Plans -> Updates \cup {None}]
      /\ rivals \in [Plans -> SUBSET Updates] /\ Wanted /\ \A p \in Plans : Lasting(p)
      /\ enabled \in [Plans -> (SUBSET Keys) \cup {Unused, Gone}]
  BY DEF Typed, TypeOK, FeaturesTypes, Edited
<1>2. ASSUME UNCHANGED <<enabled, edits>> PROVE Edited'
  BY <1>1, <1>2 DEF edits, Edited, Wanted, Lasting, Enabling, Exists
<1>3. ASSUME NEW u \in Updates, EditsPlan(u) PROVE Edited'
  <2>1. ASSUME NEW p \in Plans, NEW want \in SUBSET Keys, CreatePlan(u, p, want) PROVE Edited'
    <3>1. /\ enabled[p] = Unused /\ enabled' = [enabled EXCEPT ![p] = {}] /\ Begin(u, p, want)
      BY <2>1 DEF CreatePlan
    <3>2. \A q \in Plans : last[q] # None => enabled'[q] = enabled[q]
      BY <1>1, <3>1 DEF Lasting, Exists
    <3> QED BY <3>1, <3>2, BeginKeeps, <2>1 DEF Edited
  <2>2. ASSUME NEW p \in Plans, NEW want \in SUBSET Keys, UpdatePlan(u, p, want) PROVE Edited'
    <3>1. Begin(u, p, want) /\ UNCHANGED enabled
      BY <2>2 DEF UpdatePlan, rows
    <3> QED BY <3>1, BeginKeeps, <2>2 DEF Edited
  <2>3. CASE Disable(u)
    BY <2>3, DisableKeeps
  <2>4. ASSUME NEW f \in Keys, Enable(u, f) PROVE Edited'
    BY <2>4, EnableKeeps
  <2>5. CASE UpdateFails(u)
    <3>1. /\ update[u].pc # "start" /\ update' = [update EXCEPT ![u].pc = "failed"]
          /\ UNCHANGED <<enabled, last, rivals>>
      BY <2>5 DEF UpdateFails, rows
    <3>2. /\ update' \in [Updates -> Update]
          /\ \A v \in Updates :
               /\ update'[v].plan = update[v].plan /\ update'[v].want = update[v].want
               /\ update'[v].todo = update[v].todo
               /\ update'[v].pc = update[v].pc \/ (update'[v].pc = "failed" /\ update[v].pc # "start")
      BY <1>1, <3>1 DEF Update
    <3> QED BY <3>1, <3>2, FailureKeeps
  <2> QED BY <1>3, <2>1, <2>2, <2>3, <2>4, <2>5 DEF EditsPlan
<1>4. ASSUME NEW p \in Plans, DeletePlan(p) PROVE Edited'
  <2>1. /\ enabled' = [enabled EXCEPT ![p] = Gone] /\ last' = [last EXCEPT ![p] = None]
        /\ UNCHANGED <<update, rivals>>
    BY <1>4 DEF DeletePlan
  <2>2. \A q \in Plans : Lasting(q)'
    BY <1>1, <2>1 DEF Lasting, Exists, Enabling
  <2> QED BY <1>1, <2>1, <2>2 DEF Edited, Wanted
<1>5. CASE FeaturesNext /\ UNCHANGED <<count, visit>>
  <2>1. CASE \E c \in Checks : HasFeature(c)
    BY <1>2, <2>1, CheckTyped DEF rows
  <2>2. CASE \/ \E f \in Keys, value \in BOOLEAN, left \in Lives \cup {Forever} : SetOverride(f, value, left)
             \/ \E f \in Keys : DeleteOverride(f)
             \/ \E p \in Plans \cup {None} : ChangeSubscription(p)
             \/ Tick
    BY <1>2, <2>2 DEF SetOverride, DeleteOverride, ChangeSubscription, Tick
  <2> QED BY <1>3, <1>4, <1>5, <2>1, <2>2 DEF FeaturesNext
<1>6. CASE Dies
  <2>1. /\ UNCHANGED <<enabled, last, rivals>>
        /\ update' = [u \in Updates |-> IF update[u].pc = "disable" \/ update[u].todo # {}
                                  THEN [update[u] EXCEPT !.pc = "failed"] ELSE update[u]]
    BY <1>6 DEF Dies, rows
  <2>2. /\ update' \in [Updates -> Update]
        /\ \A v \in Updates :
             /\ update'[v].plan = update[v].plan /\ update'[v].want = update[v].want
             /\ update'[v].todo = update[v].todo
             /\ update'[v].pc = update[v].pc \/ (update'[v].pc = "failed" /\ update[v].pc # "start")
    BY <1>1, <2>1 DEF Update, Typed, Planned
  <2> QED BY <2>1, <2>2, FailureKeeps
<1>7. CASE \/ \E c \in Checks : InsertLog(c) \/ NextMail(c) \/ CleanupOldLogs(c)
           \/ \E v \in Visits : Tracks(v)
  BY <1>2, <1>7 DEF InsertLog, NextMail, CleanupOldLogs, Tracks, Track, IncrementCount,
       ReadAndDispatch, Fails, features, rows
<1>8. CASE UNCHANGED vars
  BY <1>2, <1>8 DEF vars, features, rows
<1> QED BY <1>5, <1>6, <1>7, <1>8 DEF Next

\* However the updates of a plan overlap, it ends up with the features of the
\* last one to disable, and others only of those it met halfway.
THEOREM LastUpdate == Spec => []PlanKeepsLastUpdate
<1>1. Init => Edited
  BY DEF Init, FeaturesInit, Edited, Wanted, Lasting
<1>2. Edited => PlanKeepsLastUpdate
  BY DEF Edited, Lasting, PlanKeepsLastUpdate
<1> QED BY <1>1, <1>2, TypedHolds, EditedNext, PTL DEF Spec

----------------------------------------------------------------------------
(* What a check answers.                                                   *)

\* What the plan alone grants.
Lists(p, f) == f \in enabled[p]
Plain(f)    == plan # None /\ Lists(plan, f)

\* The present answer is one of those seen; what changed, changed since.
Watched(c) == LET q == check[c] IN
  /\ Granted(q.feature) \in q.seen
  /\ q.moved # {} => calm <= q.age

\* The reads so far are still true, but for the tables that have moved.
Reads(c) == LET q == check[c] IN
  /\ ~q.torn /\ q.pc \in {"plan", "features"} /\ "override" \notin q.moved => override[q.feature] = None
  /\ q.pc = "features" => /\ q.plan # None
                          /\ "plan" \notin q.moved => q.plan = plan
                          /\ "enabled" \notin q.moved => Exists(q.plan)

\* The answer to come, as long as one table has moved, or none.
Heading(c) == LET q == check[c]  f == check[c].feature IN
  ~q.torn =>
    /\ q.pc = "plan" /\ q.moved \subseteq {"override"} => Plain(f) \in q.seen
    /\ q.pc = "features" /\ (q.moved \subseteq {"override"} \/ q.moved \subseteq {"plan"}) =>
         Lists(q.plan, f) \in q.seen
    /\ q.pc = "set" /\ (\E s \in Source : q.moved \subseteq {s}) => q.value \in q.seen
    /\ q.pc = "set" /\ q.moved = {} => q.value = Granted(f)

Path(c) ==
  /\ Running(c) => Watched(c) /\ Reads(c) /\ Heading(c)
  /\ At(c, "role") => check[c].moved = {}

\* What the steps of others do to a running check for f.
Others(c, f) == LET q == check[c] IN
  /\ check'[c].pc = q.pc /\ check'[c].feature = q.feature /\ check'[c].plan = q.plan
  /\ check'[c].value = q.value /\ check'[c].torn = q.torn
  /\ q.moved \subseteq check'[c].moved /\ q.seen \subseteq check'[c].seen
  /\ Granted(f)' \in check'[c].seen
  /\ \/ calm' = 0
     \/ check'[c].moved = q.moved /\ calm' = calm /\ check'[c].age = q.age
     \/ check'[c].moved = q.moved /\ calm' <= calm + 1 /\ check'[c].age = q.age + 1
  /\ check'[c].moved = {} => Granted(f)' = Granted(f)
  /\ "override" \notin check'[c].moved => (override[f] = None => override'[f] = None)
  /\ "plan" \notin check'[c].moved => plan' = plan
  /\ "enabled" \notin check'[c].moved =>
       \A p \in Plans : Exists(p) => Exists(p)' /\ (Lists(p, f)' <=> Lists(p, f))

LEMMA OthersKeep ==
  ASSUME Typed, Typed', NEW c \in Checks, NEW f \in Keys, check[c].feature = f,
         Running(c), Path(c), Others(c, f)
  PROVE  Path(c)'
<1> DEFINE q == check[c]  r == check'[c]
<1>1. /\ q \in Check /\ r \in Check /\ calm \in 0..Settling /\ calm' \in 0..Settling
      /\ plan \in Plans \cup {None} /\ (plan # None => Exists(plan))
  BY DEF Typed, TypeOK, FeaturesTypes, Planned
<1>2. Watched(c) /\ Reads(c) /\ Heading(c) /\ q.pc # "role"
  BY DEF Path, Running
<1>3. /\ r.pc = q.pc /\ r.feature = f /\ r.plan = q.plan /\ r.value = q.value /\ r.torn = q.torn
      /\ q.moved \subseteq r.moved /\ q.seen \subseteq r.seen /\ Granted(f)' \in r.seen
  BY DEF Others
<1>4. Watched(c)'
  <2>1. /\ \/ calm' = 0
           \/ r.moved = q.moved /\ calm' = calm /\ r.age = q.age
           \/ r.moved = q.moved /\ calm' <= calm + 1 /\ r.age = q.age + 1
    BY DEF Others
  <2>2. q.age \in 0..MaxDelay /\ r.age \in 0..MaxDelay
    BY <1>1 DEF Check
  <2>3. r.moved # {} => calm' <= r.age
    BY <1>1, <1>2, <2>1, <2>2, Constants DEF Watched
  <2> QED BY <2>3, <1>3 DEF Watched, Granted
<1>5. /\ "override" \notin r.moved => (override[f] = None => override'[f] = None)
      /\ "plan" \notin r.moved => plan' = plan
  BY DEF Others
<1>6. ASSUME "enabled" \notin r.moved, NEW p \in Plans, Exists(p)
      PROVE  Exists(p)' /\ Lists(p, f)' = Lists(p, f)
  BY <1>6 DEF Others, Lists
<1>7. q.pc = "features" => q.plan \in Plans /\ ("enabled" \notin q.moved => Exists(q.plan))
  BY <1>1, <1>2 DEF Reads, Check
<1>8. Reads(c)'
  <2>1. ~r.torn /\ r.pc \in {"plan", "features"} /\ "override" \notin r.moved => override'[f] = None
    BY <1>2, <1>3, <1>5 DEF Reads
  <2>2. r.pc = "features" => /\ r.plan # None
                             /\ "plan" \notin r.moved => r.plan = plan'
                             /\ "enabled" \notin r.moved => enabled'[r.plan] \notin {Unused, Gone}
    BY <1>2, <1>3, <1>5, <1>6, <1>7 DEF Reads, Exists
  <2> QED BY <2>1, <2>2, <1>3 DEF Reads, Exists
<1>9. ASSUME ~r.torn, r.pc = "plan", r.moved \subseteq {"override"} PROVE Plain(f)' \in r.seen
  <2>1. Plain(f) \in q.seen
    BY <1>2, <1>3, <1>9 DEF Heading
  <2>2. plan' = plan /\ "enabled" \notin r.moved
    BY <1>5, <1>9
  <2>3. plan # None => Lists(plan, f)' = Lists(plan, f)
    BY <1>1, <1>6, <2>2 DEF Lists
  <2>4. Plain(f)' = Plain(f)
    BY <2>2, <2>3 DEF Plain, Lists
  <2> QED BY <2>1, <2>4, <1>3
<1>10. ASSUME ~r.torn, r.pc = "features", r.moved \subseteq {"override"} \/ r.moved \subseteq {"plan"}
       PROVE  Lists(q.plan, f)' \in r.seen
  <2>1. Lists(q.plan, f) \in q.seen
    BY <1>2, <1>3, <1>10 DEF Heading
  <2>2. f \in enabled'[q.plan] <=> f \in enabled[q.plan]
    BY <1>3, <1>6, <1>7, <1>10 DEF Lists
  <2>3. Lists(q.plan, f)' = Lists(q.plan, f)
    BY <2>2, <1>3 DEF Lists
  <2> QED BY <2>1, <2>3, <1>3
<1>11. ASSUME ~r.torn, r.pc = "set"
       PROVE  /\ (\E s \in Source : r.moved \subseteq {s}) => r.value \in r.seen
              /\ r.moved = {} => r.value = Granted(f)'
  <2>1. r.moved = {} => Granted(f)' = Granted(f)
    BY DEF Others
  <2> QED BY <2>1, <1>2, <1>3, <1>11 DEF Heading
<1>12. Heading(c)'
  BY <1>3, <1>9, <1>10, <1>11 DEF Heading, Plain, Lists, Granted
<1> QED BY <1>2, <1>3, <1>4, <1>8, <1>12 DEF Path, At

\* A step that changes no table but for plans that are not there yet, and one
\* that changes the table source and affects the features fs at most.
SamePlans(f) == \A p \in Plans : Exists(p) => Exists(p)' /\ (Lists(p, f)' <=> Lists(p, f))

Quiet == UNCHANGED <<check, calm, plan, override>> /\ \A f \in Keys : SamePlans(f)

Moves(source, fs) ==
  /\ Note(source, fs)
  /\ \A f \in Keys :
       /\ f \notin fs \/ source # "override" => override'[f] = override[f]
       /\ f \notin fs \/ source # "plan" => plan' = plan
       /\ f \notin fs \/ source # "enabled" => SamePlans(f)

LEMMA GrantedStays ==
  ASSUME Typed, NEW f \in Keys, plan' = plan, SamePlans(f),
         \/ override'[f] = override[f]
         \/ /\ override[f] # None /\ override'[f] # None
            /\ override'[f].value = override[f].value
  PROVE  Granted(f)' = Granted(f)
<1>1. plan # None => plan \in Plans /\ Exists(plan)
  BY DEF Typed, TypeOK, FeaturesTypes, Planned
<1>2. plan # None => (f \in enabled'[plan] <=> f \in enabled[plan])
  BY <1>1 DEF SamePlans, Lists
<1>3. override[f] # None => Granted(f) = override[f].value /\ Granted(f)' = override'[f].value
  BY DEF Granted, Grants
<1>4. override[f] = None => /\ Granted(f) = (plan # None /\ f \in enabled[plan])
                            /\ Granted(f)' = (plan' # None /\ f \in enabled'[plan'])
  BY DEF Granted, Grants
<1> QED BY <1>2, <1>3, <1>4

LEMMA QuietOthers ==
  ASSUME Typed, Quiet, NEW f \in Keys
  PROVE  /\ Granted(f)' = Granted(f)
         /\ \A c \in Checks : check[c].feature = f /\ Watched(c) => Others(c, f)
<1>1. Granted(f)' = Granted(f)
  BY GrantedStays DEF Quiet
<1>2. ASSUME NEW c \in Checks, check[c].feature = f, Watched(c) PROVE Others(c, f)
  <2>1. check'[c] = check[c] /\ calm' = calm /\ plan' = plan /\ override'[f] = override[f]
    BY DEF Quiet
  <2>2. SamePlans(f)
    BY DEF Quiet
  <2>3. Granted(f)' \in check'[c].seen
    BY <1>1, <1>2, <2>1 DEF Watched
  <2> QED BY <1>1, <2>1, <2>2, <2>3 DEF Others, SamePlans
<1> QED BY <1>1, <1>2

LEMMA MovesOthers ==
  ASSUME Typed, NEW source \in Source, NEW fs \in SUBSET Keys, Moves(source, fs), NEW f \in Keys
  PROVE  /\ calm' = 0
         /\ \A c \in Checks : Running(c) /\ check[c].feature = f /\ Watched(c) => Others(c, f)
<1>1. calm' = 0 /\ Note(source, fs)
  BY DEF Moves, Note
<1>2. ASSUME NEW c \in Checks, Running(c), check[c].feature = f, Watched(c) PROVE Others(c, f)
  <2>1. /\ check'[c].pc = check[c].pc /\ check'[c].feature = f
        /\ check'[c].plan = check[c].plan /\ check'[c].value = check[c].value
        /\ check'[c].torn = check[c].torn
    BY <1>1, <1>2, NoteKeeps
  <2>2. CASE f \notin fs
    <3>1. check'[c] = check[c] /\ override'[f] = override[f] /\ plan' = plan /\ SamePlans(f)
      BY <1>1, <1>2, <2>2, NoteKeeps DEF Moves
    <3>2. Granted(f)' = Granted(f)
      BY <3>1, GrantedStays
    <3>3. Granted(f)' \in check'[c].seen
      BY <1>2, <3>1, <3>2 DEF Watched
    <3> QED BY <1>1, <1>2, <3>1, <3>2, <3>3 DEF Others, SamePlans
  <2>3. CASE f \in fs
    <3>1. /\ check'[c].moved = check[c].moved \cup {source}
          /\ check'[c].seen = check[c].seen \cup {Grants(override', plan', enabled', f)}
      BY <1>1, <1>2, <2>3, NoteKeeps
    <3>2. Granted(f)' \in check'[c].seen
      BY <3>1 DEF Granted
    <3>3. /\ source # "override" => override'[f] = override[f]
          /\ source # "plan" => plan' = plan
          /\ source # "enabled" => SamePlans(f)
      BY DEF Moves
    <3> QED BY <1>1, <1>2, <2>1, <3>1, <3>2, <3>3 DEF Others, SamePlans
  <2> QED BY <2>2, <2>3
<1> QED BY <1>1, <1>2

LEMMA EditsMove ==
  ASSUME Typed, NEW u \in Updates, EditsPlan(u)
  PROVE  Quiet \/ \E fs \in SUBSET Keys : Moves("enabled", fs)
<1>1. /\ enabled \in [Plans -> (SUBSET Keys) \cup {Unused, Gone}] /\ update \in [Updates -> Update]
  BY DEF Typed, TypeOK, FeaturesTypes
<1>2. ASSUME UNCHANGED enabled, NEW f \in Keys PROVE SamePlans(f)
  BY <1>2 DEF SamePlans, Lists, Exists
<1>3. ASSUME NEW p \in Plans, NEW s \in SUBSET Keys, enabled' = [enabled EXCEPT ![p] = s],
             NEW f \in Keys, ~Exists(p) \/ (f \in s <=> f \in enabled[p])
      PROVE  SamePlans(f)
  <2>1. ASSUME NEW q \in Plans, Exists(q) PROVE Exists(q)' /\ (Lists(q, f)' <=> Lists(q, f))
    <3>1. enabled'[q] = IF q = p THEN s ELSE enabled[q]
      BY <1>1, <1>3
    <3> QED BY <1>3, <2>1, <3>1, Sets DEF Exists, Lists
  <2> QED BY <2>1 DEF SamePlans
<1>4. ASSUME NEW p \in Plans, NEW want \in SUBSET Keys, CreatePlan(u, p, want) PROVE Quiet
  <2>1. /\ enabled[p] = Unused /\ enabled' = [enabled EXCEPT ![p] = {}]
        /\ UNCHANGED <<check, calm, plan, override>>
    BY <1>4 DEF CreatePlan
  <2>2. ~Exists(p) /\ {} \in SUBSET Keys
    BY <2>1 DEF Exists
  <2> QED BY <1>3, <2>1, <2>2 DEF Quiet
<1>5. ASSUME NEW p \in Plans, NEW want \in SUBSET Keys, UpdatePlan(u, p, want) PROVE Quiet
  BY <1>2, <1>5 DEF UpdatePlan, rows, Quiet
<1>6. CASE UpdateFails(u)
  BY <1>2, <1>6 DEF UpdateFails, rows, Quiet
<1>7. CASE Disable(u)
  <2>1. PICK p \in Plans : update[u].plan = p
    BY <1>7 DEF Disable, Typed, Planned
  <2>2. CASE Exists(p)
    <3>1. /\ enabled' = [enabled EXCEPT ![p] = {}] /\ Note("enabled", Keys)
          /\ UNCHANGED <<plan, override>>
      BY <1>7, <2>1, <2>2 DEF Disable, DisableAll
    <3>2. Moves("enabled", Keys)
      BY <3>1 DEF Moves
    <3>3. Keys \in SUBSET Keys
      OBVIOUS
    <3> QED BY <3>2, <3>3
  <2>3. CASE ~Exists(p)
    BY <1>2, <1>7, <2>1, <2>3 DEF Disable, Quiet
  <2> QED BY <2>2, <2>3
<1>8. ASSUME NEW g \in Keys, Enable(u, g) PROVE Quiet \/ Moves("enabled", {g})
  <2>1. PICK p \in Plans : update[u].plan = p
    BY <1>8 DEF Enable, Typed, Planned
  <2>2. CASE Exists(p)
    <3>1. /\ enabled' = [enabled EXCEPT ![p] = enabled[p] \cup {g}] /\ Note("enabled", {g})
          /\ UNCHANGED <<plan, override>>
      BY <1>8, <2>1, <2>2 DEF Enable
    <3>2. enabled[p] \cup {g} \in SUBSET Keys
      BY <1>1, <2>2 DEF Exists
    <3>3. \A f \in Keys : f \notin {g} => SamePlans(f)
      BY <1>3, <3>1, <3>2
    <3> QED BY <3>1, <3>3 DEF Moves
  <2>3. CASE ~Exists(p)
    BY <1>2, <1>8, <2>1, <2>3 DEF Enable, Quiet
  <2> QED BY <2>2, <2>3
<1>9. \A g \in Keys : {g} \in SUBSET Keys
  OBVIOUS
<1> QED BY <1>4, <1>5, <1>6, <1>7, <1>8, <1>9 DEF EditsPlan

\* The other changes of the tables.
ChangesTables ==
  \/ \E p \in Plans : DeletePlan(p)
  \/ \E f \in Keys, value \in BOOLEAN, left \in Lives \cup {Forever} : SetOverride(f, value, left)
  \/ \E f \in Keys : DeleteOverride(f)
  \/ \E p \in Plans \cup {None} : ChangeSubscription(p)

LEMMA TablesMove ==
  ASSUME Typed, ChangesTables
  PROVE  UNCHANGED cache /\ \E source \in Source, fs \in SUBSET Keys : Moves(source, fs)
<1>1. Keys \in SUBSET Keys /\ \A f \in Keys : {f} \in SUBSET Keys
  OBVIOUS
<1>2. "override" \in Source /\ "plan" \in Source /\ "enabled" \in Source
  BY DEF Source
<1>3. ASSUME NEW p \in Plans, DeletePlan(p) PROVE UNCHANGED cache /\ Moves("enabled", Keys)
  BY <1>3 DEF DeletePlan, Moves
<1>4. ASSUME NEW f \in Keys, NEW o, override' = [override EXCEPT ![f] = o],
             UNCHANGED <<plan, enabled>>, Note("override", {f})
      PROVE  Moves("override", {f})
  <2>1. \A g \in Keys : g \notin {f} => override'[g] = override[g]
    BY <1>4 DEF Typed, TypeOK, FeaturesTypes
  <2>2. \A g \in Keys : SamePlans(g)
    BY <1>4 DEF SamePlans, Exists, Lists
  <2> QED BY <1>4, <2>1, <2>2 DEF Moves
<1>5. ASSUME NEW f \in Keys, NEW value, NEW left, SetOverride(f, value, left)
      PROVE  UNCHANGED cache /\ Moves("override", {f})
  BY <1>4, <1>5 DEF SetOverride
<1>6. ASSUME NEW f \in Keys, DeleteOverride(f)
      PROVE  UNCHANGED cache /\ Moves("override", {f})
  BY <1>4, <1>6 DEF DeleteOverride
<1>7. ASSUME NEW p, ChangeSubscription(p) PROVE UNCHANGED cache /\ Moves("plan", Keys)
  BY <1>7 DEF ChangeSubscription, Moves, SamePlans, Exists, Lists
<1> QED BY <1>1, <1>2, <1>3, <1>5, <1>6, <1>7 DEF ChangesTables

LEMMA TickOthers ==
  ASSUME Typed, Tick, NEW f \in Keys
  PROVE  /\ calm' = 0 \/ (calm' <= calm + 1 /\ Granted(f)' = Granted(f))
         /\ \A c \in Checks :
              /\ Running(c) /\ check[c].feature = f /\ Watched(c) => Others(c, f)
              /\ ~Running(c) => check'[c] = check[c]
<1> DEFINE ended == {g \in Keys : override[g] # None /\ Live(override[g]) = None}
<1>1. /\ override' = [g \in Keys |-> Live(override[g])] /\ UNCHANGED <<plan, enabled>>
      /\ calm' = IF ended # {} THEN 0 ELSE IF calm < Settling THEN calm + 1 ELSE calm
      /\ check' = [c \in Checks |-> IF ~Running(c) THEN check[c] ELSE
           [check[c] EXCEPT !.age = @ + 1,
              !.moved = @ \cup (IF check[c].feature \in ended THEN {"override"} ELSE {}),
              !.seen = @ \cup {Grants(override', plan, enabled, check[c].feature)}]]
  BY DEF Tick
<1> HIDE DEF ended
<1>2. f \notin ended => \/ override'[f] = None /\ override[f] = None
                        \/ /\ override[f] # None /\ override'[f] # None
                           /\ override'[f].value = override[f].value
  <2> DEFINE o == override[f]
  <2>1. o \in Override \cup {None} /\ override'[f] = Live(o)
    BY <1>1 DEF Typed, TypeOK, FeaturesTypes
  <2>2. Live(None) = None
    BY DEF Live
  <2>3. o # None => Live(o) = None \/ Live(o).value = o.value
    BY <2>1 DEF Live, Override
  <2> QED BY <2>1, <2>2, <2>3 DEF ended
<1>3. SamePlans(f)
  BY <1>1 DEF SamePlans, Exists, Lists
<1>4. f \notin ended => Granted(f)' = Granted(f)
  <2>1. plan' = plan
    BY <1>1
  <2> QED BY <1>2, <1>3, <2>1, GrantedStays
<1>5. calm' = 0 \/ (calm' <= calm + 1 /\ ended = {})
  <2>1. calm' = IF ended # {} THEN 0 ELSE IF calm < Settling THEN calm + 1 ELSE calm
    BY <1>1
  <2>2. calm \in Int
    BY Constants DEF Typed, TypeOK, FeaturesTypes
  <2> QED BY <2>1, <2>2
<1>6. ASSUME NEW c \in Checks, Running(c), check[c].feature = f, Watched(c) PROVE Others(c, f)
  <2> DEFINE g == Grants(override', plan, enabled, f)
             m == IF f \in ended THEN {"override"} ELSE {}
  <2>1. check[c] \in Check
    BY DEF Typed, TypeOK, FeaturesTypes
  <2>2. check'[c] = [check[c] EXCEPT !.age = @ + 1, !.moved = @ \cup m, !.seen = @ \cup {g}]
    BY <1>1, <1>6
  <2>3. g = Granted(f)'
    BY <1>1 DEF Granted
  <2>4. f \in ended => m = {"override"}
    OBVIOUS
  <2>5. f \notin ended => m = {}
    OBVIOUS
  <2> HIDE DEF g, m
  <2>6. /\ check'[c].pc = check[c].pc /\ check'[c].feature = check[c].feature
        /\ check'[c].plan = check[c].plan /\ check'[c].value = check[c].value
        /\ check'[c].torn = check[c].torn /\ check'[c].age = check[c].age + 1
        /\ check'[c].moved = check[c].moved \cup m /\ check'[c].seen = check[c].seen \cup {g}
    BY <2>1, <2>2 DEF Check
  <2>7. \/ calm' = 0
        \/ check'[c].moved = check[c].moved /\ calm' <= calm + 1 /\ check'[c].age = check[c].age + 1
    BY <1>5, <2>5, <2>6
  <2>8. check'[c].moved = {} => Granted(f)' = Granted(f)
    BY <1>4, <2>4, <2>6
  <2>9. "override" \notin check'[c].moved => (override[f] = None => override'[f] = None)
    BY <1>2, <2>4, <2>6
  <2> QED BY <1>1, <1>3, <2>3, <2>6, <2>7, <2>8, <2>9 DEF Others, SamePlans
<1>7. \A c \in Checks : ~Running(c) => check'[c] = check[c]
  BY <1>1
<1> QED BY <1>4, <1>5, <1>6, <1>7

\* A step of a check itself.
LEMMA AnswerEnds ==
  ASSUME Typed, NEW c \in Checks, NEW value \in BOOLEAN, Answer(c, value)
  PROVE  Path(c)'
<1>1. check[c] \in Check
  BY DEF Typed, TypeOK, FeaturesTypes
<1>2. check'[c] = After(check[c], value)
  BY DEF Answer, Typed, TypeOK, FeaturesTypes
<1>3. check'[c].pc \in {"role", "insert"} /\ check'[c].moved = {}
  BY <1>1, <1>2, AfterTyped
<1> QED BY <1>3 DEF Path, Running

LEMMA CheckPath ==
  ASSUME Typed, NEW c \in Checks, Path(c), HasFeature(c)
  PROVE  Path(c)'
<1> USE DEF At
<1>1. /\ check \in [Checks -> Check] /\ check[c] \in Check /\ check[c].moved \in SUBSET Source
      /\ plan \in Plans \cup {None} /\ (plan # None => Exists(plan))
      /\ UNCHANGED <<plan, enabled, override, calm>>
  BY CheckTyped DEF Typed, TypeOK, FeaturesTypes, Planned, Check, rows
<1>2. PICK f \in Keys : check[c].feature = f
  BY <1>1 DEF Check
<1>3. Granted(f)' = Granted(f)
  BY <1>1 DEF Granted
<1>4. ASSUME NEW value \in BOOLEAN, Answer(c, value) PROVE Path(c)'
  BY <1>4, AnswerEnds
<1> DEFINE q == check[c]  r == check'[c]
<1>5. CASE CheckRole(c)
  <2>1. CASE check' = [check EXCEPT ![c].pc = "cache", ![c].seen = {Granted(check[c].feature)}]
    <3>1. q.moved = {} /\ q.pc = "role"
      BY <1>5 DEF CheckRole, Path
    <3>2. r.pc = "cache" /\ r.seen = {Granted(f)} /\ r.moved = {} /\ r.feature = f
      <4> DEFINE g == Granted(check[c].feature)
      <4>1. check' = [check EXCEPT ![c].pc = "cache", ![c].seen = {g}] /\ g = Granted(f)
        BY <1>2, <2>1
      <4> HIDE DEF g
      <4> QED BY <1>1, <1>2, <3>1, <4>1 DEF Check
    <3>3. Granted(check[c].feature)' \in r.seen
      BY <1>3, <3>2 DEF Granted
    <3> QED BY <3>2, <3>3 DEF Path, Watched, Reads, Heading
  <2> QED BY <1>4, <1>5, <2>1 DEF CheckRole
<1>6. CASE CheckCache(c)
  <2>1. cache[check[c].feature].value \in BOOLEAN
    BY <1>2, <1>6 DEF CheckCache, Entry, Typed, TypeOK, FeaturesTypes
  <2> QED BY <1>4, <1>6, <2>1 DEF CheckCache
<1>7. ASSUME Running(c), r.feature = f, r.moved = q.moved, r.seen = q.seen, r.age = q.age
      PROVE  Watched(c)'
  BY <1>1, <1>2, <1>3, <1>7 DEF Path, Watched, Granted
<1>8. Running(c) => Watched(c) /\ Reads(c) /\ Heading(c)
  BY DEF Path
<1>9. CASE CacheMisses(c)
  <2>1. q.pc = "cache" /\ Running(c)
    BY <1>9 DEF CacheMisses, Running
  <2>2. /\ r.pc = "overrides" /\ r.feature = f /\ r.moved = q.moved /\ r.seen = q.seen
        /\ r.age = q.age
    BY <1>1, <1>2, <1>9 DEF CacheMisses, Goto, Check
  <2> QED BY <1>7, <2>1, <2>2 DEF Path, Reads, Heading
<1>10. CASE CheckOverrides(c)
  <2>1. q.pc = "overrides" /\ Running(c) /\ Watched(c)
    BY <1>8, <1>10 DEF CheckOverrides, Running
  <2>2. Granted(f) \in q.seen
    BY <1>2, <2>1 DEF Watched
  <2>3. CASE override[f] # None /\ Compute(c, override[f].value)
    <3>1. override[f].value \in BOOLEAN /\ Granted(f) = override[f].value
      BY <2>3 DEF Granted, Grants, Override, Typed, TypeOK, FeaturesTypes
    <3>2. /\ r.pc = "set" /\ r.value = Granted(f) /\ r.feature = f /\ r.moved = q.moved
          /\ r.seen = q.seen /\ r.age = q.age
      BY <1>1, <1>2, <2>3, <3>1 DEF Compute, Check
    <3>3. r.value = Granted(check[c].feature)'
      BY <1>3, <3>2 DEF Granted
    <3>4. Heading(c)'
      BY <2>2, <3>2, <3>3 DEF Heading
    <3> QED BY <1>7, <2>1, <3>2, <3>4 DEF Path, Reads
  <2>4. CASE override[f] = None /\ Goto(c, "plan")
    <3>1. /\ r.pc = "plan" /\ r.feature = f /\ r.moved = q.moved /\ r.seen = q.seen /\ r.age = q.age
      BY <1>1, <1>2, <2>4 DEF Goto, Check
    <3>2. Granted(f) = Plain(f) /\ Plain(f)' = Plain(f)
      BY <1>1, <2>4 DEF Granted, Grants, Plain, Lists
    <3>3. Plain(f)' \in r.seen
      BY <2>2, <3>1, <3>2
    <3>4. Heading(c)'
      BY <3>1, <3>3 DEF Heading, Plain, Lists
    <3>5. Reads(c)'
      BY <1>1, <2>4, <3>1 DEF Reads
    <3> QED BY <1>7, <2>1, <3>1, <3>4, <3>5 DEF Path
  <2>5. CASE Tear(c, "plan")
    <3>1. /\ r.pc = "plan" /\ r.torn /\ r.feature = f /\ r.moved = q.moved /\ r.seen = q.seen
          /\ r.age = q.age
      BY <1>1, <1>2, <2>5 DEF Tear, Check
    <3> QED BY <1>7, <2>1, <3>1 DEF Path, Reads, Heading
  <2> QED BY <1>2, <1>10, <2>3, <2>4, <2>5 DEF CheckOverrides
<1>11. CASE CheckPlan(c)
  <2>1. q.pc = "plan" /\ Running(c) /\ Watched(c) /\ Reads(c) /\ Heading(c)
    BY <1>8, <1>11 DEF CheckPlan, Running
  <2>2. CASE Answer(c, FALSE)
    BY <1>4, <2>2
  <2>3. CASE plan # None /\ check' = [check EXCEPT ![c].pc = "features", ![c].plan = plan]
    <3>1. /\ r.pc = "features" /\ r.plan = plan /\ r.feature = f /\ r.moved = q.moved
          /\ r.seen = q.seen /\ r.age = q.age /\ r.torn = q.torn
      BY <1>1, <1>2, <2>3 DEF Check
    <3>2. ~q.torn /\ "override" \notin q.moved => override[f] = None
      BY <1>2, <2>1 DEF Reads
    <3>3. Reads(c)'
      BY <1>1, <2>3, <3>1, <3>2 DEF Reads, Exists
    <3>4. ~q.torn /\ q.moved \subseteq {"override"} => Lists(plan, f) \in q.seen
      <4>1. ~q.torn /\ q.moved \subseteq {"override"} => Plain(f) \in q.seen
        BY <1>2, <2>1 DEF Heading
      <4>2. Plain(f) = Lists(plan, f)
        BY <2>3 DEF Plain, Lists
      <4> QED BY <4>1, <4>2
    <3>5. ~q.torn /\ q.moved \subseteq {"plan"} => Lists(plan, f) \in q.seen
      <4>1. Granted(f) \in q.seen
        BY <1>2, <2>1 DEF Watched
      <4>2. override[f] = None => Granted(f) = Lists(plan, f)
        BY <2>3 DEF Granted, Grants, Lists
      <4> QED BY <3>2, <4>1, <4>2
    <3>6. Heading(c)'
      BY <1>1, <3>1, <3>4, <3>5 DEF Heading, Lists
    <3> QED BY <1>7, <2>1, <3>1, <3>3, <3>6 DEF Path
  <2> QED BY <1>11, <2>2, <2>3 DEF CheckPlan
<1>12. CASE CheckFeatures(c)
  <2>1. q.pc = "features" /\ Running(c) /\ Watched(c) /\ Reads(c) /\ Heading(c)
    BY <1>8, <1>12 DEF CheckFeatures, Running
  <2>2. CASE Answer(c, FALSE)
    BY <1>4, <2>2
  <2>3. CASE Compute(c, Includes(f, q.plan))
    <3> DEFINE i == Includes(f, q.plan)
    <3>1. i \in BOOLEAN /\ Compute(c, i)
      BY <2>3 DEF Includes, Exists
    <3>2. "enabled" \notin q.moved => i = Lists(q.plan, f)
      BY <2>1 DEF Includes, Reads, Lists
    <3>3. ~q.torn /\ "override" \notin q.moved /\ "plan" \notin q.moved => i = Granted(f)
      <4>1. "plan" \notin q.moved => q.plan = plan /\ plan # None
        BY <2>1 DEF Reads
      <4>2. ~q.torn /\ "override" \notin q.moved => override[f] = None
        BY <1>2, <2>1 DEF Reads
      <4>3. override[f] = None /\ plan # None => Granted(f) = Lists(plan, f)
        BY DEF Granted, Grants, Lists
      <4>4. plan # None => Includes(f, plan) = Lists(plan, f)
        BY <1>1 DEF Includes, Lists
      <4> QED BY <4>1, <4>2, <4>3, <4>4
    <3> HIDE DEF i
    <3>4. /\ r.pc = "set" /\ r.value = i /\ r.feature = f /\ r.moved = q.moved
          /\ r.seen = q.seen /\ r.age = q.age /\ r.torn = q.torn
      BY <1>1, <1>2, <3>1 DEF Compute, Check
    <3>5. ASSUME ~q.torn, NEW s \in Source, q.moved \subseteq {s} PROVE i \in q.seen
      <4>1. CASE s = "enabled"
        BY <1>2, <2>1, <3>3, <3>5, <4>1 DEF Watched
      <4>2. CASE s # "enabled"
        <5>1. q.moved \subseteq {"override"} \/ q.moved \subseteq {"plan"}
          BY <3>5, <4>2 DEF Source
        <5>2. Lists(q.plan, f) \in q.seen
          BY <1>2, <2>1, <3>5, <5>1 DEF Heading
        <5> QED BY <3>2, <5>1, <5>2
      <4> QED BY <4>1, <4>2
    <3>6. ~q.torn /\ q.moved = {} => i = Granted(check[c].feature)'
      BY <1>3, <3>3, <3>4 DEF Granted
    <3>7. Heading(c)'
      BY <3>4, <3>5, <3>6 DEF Heading
    <3> QED BY <1>7, <2>1, <3>4, <3>7 DEF Path, Reads
  <2>4. CASE check' = [check EXCEPT ![c].pc = "set", ![c].value = FALSE, ![c].torn = TRUE]
    <3>1. /\ r.pc = "set" /\ r.torn /\ r.feature = f /\ r.moved = q.moved /\ r.seen = q.seen
          /\ r.age = q.age
      BY <1>1, <1>2, <2>4 DEF Check
    <3> QED BY <1>7, <2>1, <3>1 DEF Path, Reads, Heading
  <2> QED BY <1>2, <1>12, <2>2, <2>3, <2>4 DEF CheckFeatures
<1>13. CASE SetCache(c)
  <2>1. Answer(c, q.value) /\ q.value \in BOOLEAN
    BY <1>1, <1>13 DEF SetCache, Check
  <2> QED BY <1>4, <2>1
<1> QED BY <1>5, <1>6, <1>9, <1>10, <1>11, <1>12, <1>13 DEF HasFeature

\* A wrong answer in the cache is not older than the last change plus a check.
Fresher(f) == LET e == cache[f] IN
  e # None /\ ~e.torn /\ e.value # Granted(f) => calm + e.left <= Settling

Answers == (\A c \in Checks : Path(c)) /\ (\A f \in Keys : Fresher(f))

LEMMA FresherStays ==
  ASSUME Typed, NEW f \in Keys, Fresher(f), cache'[f] = cache[f],
         calm' = 0 \/ (calm' = calm /\ Granted(f)' = Granted(f))
  PROVE  Fresher(f)'
<1>1. cache[f] # None => cache[f].left \in 1..TTL
  BY DEF Typed, TypeOK, FeaturesTypes, Entry
<1>2. Settling' = Settling
  BY DEF Settling
<1> QED BY <1>1, <1>2, Constants DEF Fresher

LEMMA OthersAnswer ==
  ASSUME Typed, Typed', Answers,
         \A c \in Checks : Running(c) /\ Watched(c) => Others(c, check[c].feature),
         \A c \in Checks : ~Running(c) => check'[c] = check[c]
  PROVE  \A c \in Checks : Path(c)'
<1> SUFFICES ASSUME NEW c \in Checks PROVE Path(c)'
  OBVIOUS
<1>1. Path(c) /\ check[c].feature \in Keys
  BY DEF Answers, Typed, TypeOK, FeaturesTypes, Check
<1>2. CASE Running(c)
  <2>1. PICK f \in Keys : check[c].feature = f
    BY <1>1
  <2>2. Others(c, f)
    BY <1>1, <1>2, <2>1 DEF Path
  <2> QED BY <1>1, <1>2, <2>1, <2>2, OthersKeep
<1>3. CASE ~Running(c)
  BY <1>1, <1>3 DEF Path, Running, At
<1> QED BY <1>2, <1>3

\* A check that is answered caches what was right at its beginning, or the
\* tables have changed since.
LEMMA SetCacheFresher ==
  ASSUME Typed, NEW c \in Checks, Path(c), SetCache(c), NEW f \in Keys, Fresher(f)
  PROVE  Fresher(f)'
<1> DEFINE q == check[c]  e == [value |-> q.value, left |-> TTL, torn |-> q.torn]
<1>1. /\ q \in Check /\ q.pc = "set" /\ UNCHANGED rows /\ calm' = calm
      /\ cache' \in {cache, [cache EXCEPT ![q.feature] = e]}
  BY DEF SetCache, At, Typed, TypeOK, FeaturesTypes
<1>2. Granted(f)' = Granted(f)
  BY <1>1 DEF Granted, rows
<1>3. CASE cache'[f] = cache[f]
  BY <1>1, <1>2, <1>3, FresherStays
<1>4. CASE q.feature = f /\ cache'[f] = e
  <2>1. Watched(c) /\ Heading(c)
    BY <1>1 DEF Path, Running, At
  <2>2. ~q.torn /\ q.value # Granted(f) => q.moved # {}
    BY <1>1, <1>4, <2>1 DEF Heading
  <2>3. q.moved # {} => calm <= q.age
    BY <2>1 DEF Watched
  <2>4. q.age \in 0..MaxDelay /\ calm \in 0..Settling
    BY <1>1 DEF Check, Typed, TypeOK, FeaturesTypes
  <2>5. q.moved # {} => calm + TTL <= Settling
    BY <2>3, <2>4, Constants
  <2>6. e.value = q.value /\ e.left = TTL /\ e.torn = q.torn
    OBVIOUS
  <2>7. Settling' = Settling
    BY DEF Settling
  <2> HIDE DEF e
  <2> QED BY <1>1, <1>2, <1>4, <2>2, <2>5, <2>6, <2>7 DEF Fresher
<1>5. cache \in [Keys -> Entry \cup {None}]
  BY DEF Typed, TypeOK, FeaturesTypes
<1>6. cache'[f] = cache[f] \/ (q.feature = f /\ cache'[f] = e)
  <2> HIDE DEF e
  <2> QED BY <1>1, <1>5
<1> QED BY <1>3, <1>4, <1>6

LEMMA TickFresher ==
  ASSUME Typed, Typed', Tick, NEW f \in Keys, Fresher(f)
  PROVE  Fresher(f)'
<1>1. calm' = 0 \/ (calm' <= calm + 1 /\ Granted(f)' = Granted(f))
  BY TickOthers
<1>2. cache'[f] = Cached(cache[f])
  BY DEF Tick
<1>3. /\ cache[f] \in Entry \cup {None} /\ cache'[f] \in Entry \cup {None}
      /\ calm \in Int /\ calm' \in Int
  BY Constants DEF Typed, TypeOK, FeaturesTypes
<1>4. cache'[f] # None => /\ cache[f] # None /\ cache'[f].left = cache[f].left - 1
                          /\ cache'[f].value = cache[f].value /\ cache'[f].torn = cache[f].torn
  BY <1>2, <1>3 DEF Cached, Entry
<1>5. /\ cache[f] # None => cache[f].left \in 1..TTL
      /\ cache'[f] # None => cache'[f].left \in 1..TTL
  BY <1>3 DEF Entry
<1>6. Settling' = Settling
  BY DEF Settling
<1> QED BY <1>1, <1>3, <1>4, <1>5, <1>6, Constants DEF Fresher

LEMMA AnswersNext == Typed /\ Typed' /\ Answers /\ [Next]_vars => Answers'
<1> SUFFICES ASSUME Typed, Typed', Answers, [Next]_vars PROVE Answers'
  OBVIOUS
<1>1. /\ \A c \in Checks : Path(c) /\ check[c].feature \in Keys
      /\ \A f \in Keys : Fresher(f)
  BY DEF Answers, Typed, TypeOK, FeaturesTypes, Check
<1>2. ASSUME UNCHANGED <<rows, calm>>,
             \A c \in Checks : check'[c] = check[c] \/ check'[c].pc \in {"insert", "end"}
                               \/ (check'[c].pc = "role" /\ check'[c].moved = {})
      PROVE  \A c \in Checks : Path(c)'
  BY <1>1, <1>2 DEF Path, Running, At, Watched, Reads, Heading, Granted, Plain, Lists, Exists, rows
<1>3. ASSUME UNCHANGED <<rows, cache, calm>> PROVE \A f \in Keys : Fresher(f)'
  BY <1>1, <1>3, FresherStays DEF Granted, rows
<1>4. ASSUME NEW c \in Checks, HasFeature(c) PROVE Answers'
  <2>1. /\ UNCHANGED <<rows, calm>> /\ \A d \in Checks : d # c => check'[d] = check[d]
    BY <1>4, CheckTyped
  <2>2. Path(c)'
    BY <1>1, <1>4, CheckPath
  <2>3. \A d \in Checks : d # c => Path(d)'
    BY <1>1, <2>1 DEF Path, Running, At, Watched, Reads, Heading, Granted, Plain, Lists, Exists, rows
  <2>4. CASE SetCache(c)
    BY <1>1, <2>2, <2>3, <2>4, SetCacheFresher DEF Answers
  <2>5. CASE ~SetCache(c)
    <3>1. UNCHANGED cache
      BY <1>4, <2>5 DEF HasFeature, CheckRole, CheckCache, CacheMisses, CheckOverrides,
           CheckPlan, CheckFeatures
    <3> QED BY <1>3, <2>1, <2>2, <2>3, <3>1 DEF Answers
  <2> QED BY <2>4, <2>5
<1>5. ASSUME Quiet, UNCHANGED cache PROVE Answers'
  <2>1. \A c \in Checks : Running(c) /\ Watched(c) => Others(c, check[c].feature)
    BY <1>1, <1>5, QuietOthers
  <2>2. \A c \in Checks : ~Running(c) => check'[c] = check[c]
    BY <1>5 DEF Quiet
  <2>3. \A f \in Keys : Granted(f)' = Granted(f)
    BY <1>5, QuietOthers
  <2>4. \A f \in Keys : Fresher(f)'
    BY <1>1, <1>5, <2>3, FresherStays DEF Quiet
  <2> QED BY <2>1, <2>2, <2>4, OthersAnswer DEF Answers
<1>6. ASSUME NEW source \in Source, NEW fs \in SUBSET Keys, Moves(source, fs), UNCHANGED cache
      PROVE  Answers'
  <2>1. \A c \in Checks : Running(c) /\ Watched(c) => Others(c, check[c].feature)
    BY <1>1, <1>6, MovesOthers
  <2>2. \A c \in Checks : ~Running(c) => check'[c] = check[c]
    BY <1>6, NoteKeeps DEF Moves
  <2>3. Note(source, fs) /\ calm' = 0
    BY <1>6 DEF Moves, Note
  <2>4. \A f \in Keys : Fresher(f)'
    BY <1>1, <1>6, <2>3, FresherStays
  <2> QED BY <2>1, <2>2, <2>4, OthersAnswer DEF Answers
<1>7. ASSUME NEW u \in Updates, EditsPlan(u) PROVE Answers'
  <2>1. UNCHANGED cache
    BY <1>7, EditTyped
  <2>2. "enabled" \in Source
    BY DEF Source
  <2> QED BY <1>5, <1>6, <1>7, <2>1, <2>2, EditsMove
<1>8. CASE ChangesTables
  BY <1>6, <1>8, TablesMove
<1>9. CASE Tick
  <2>1. \A c \in Checks : Running(c) /\ Watched(c) => Others(c, check[c].feature)
    BY <1>1, <1>9, TickOthers
  <2>2. \A c \in Checks : ~Running(c) => check'[c] = check[c]
    BY <1>1, <1>9, TickOthers
  <2>3. \A f \in Keys : Fresher(f)'
    BY <1>1, <1>9, TickFresher
  <2> QED BY <2>1, <2>2, <2>3, OthersAnswer DEF Answers
<1>10. CASE FeaturesNext
  BY <1>4, <1>7, <1>8, <1>9, <1>10 DEF FeaturesNext, ChangesTables
<1>11. CASE \/ \E c \in Checks : InsertLog(c) \/ NextMail(c) \/ CleanupOldLogs(c)
            \/ \E v \in Visits : Tracks(v)
            \/ Dies
  <2>1. UNCHANGED <<rows, cache, calm>>
    BY <1>11, TrackingKeeps
  <2>2. \A c \in Checks : check'[c] = check[c] \/ check'[c].pc \in {"insert", "end"}
                          \/ (check'[c].pc = "role" /\ check'[c].moved = {})
    <3>1. check \in [Checks -> Check]
      BY DEF Typed, TypeOK, FeaturesTypes
    <3>2. ASSUME NEW d \in Checks, InsertLog(d)
          PROVE  \/ check' = [check EXCEPT ![d].pc = "end"]
                 \/ check' = [check EXCEPT ![d] = Fresh]
      BY <3>2 DEF InsertLog, Goto
    <3>3. ASSUME NEW d \in Checks, NextMail(d) PROVE check' = [check EXCEPT ![d] = Fresh]
      BY <3>3 DEF NextMail
    <3>4. ASSUME NEW d \in Checks, CleanupOldLogs(d) PROVE UNCHANGED check
      BY <3>4 DEF CleanupOldLogs, features
    <3>5. ASSUME NEW v \in Visits, Tracks(v) PROVE UNCHANGED check
      BY <3>5 DEF Tracks, Track, IncrementCount, ReadAndDispatch, Fails, features
    <3>6. Dies => \A c \in Checks : check'[c] = check[c] \/ check'[c] = Fresh
      BY DEF Dies
    <3>7. ASSUME NEW c \in Checks
          PROVE  check'[c] = check[c] \/ check'[c].pc = "end" \/ check'[c] = Fresh
      BY <1>11, <3>1, <3>2, <3>3, <3>4, <3>5, <3>6 DEF Check
    <3> QED BY <3>7, FreshTyped
  <2> QED BY <1>2, <1>3, <2>1, <2>2 DEF Answers
<1>12. CASE UNCHANGED vars
  BY <1>2, <1>3, <1>12 DEF Answers, vars, features
<1> QED BY <1>10, <1>11, <1>12 DEF Next

LEMMA AnswersHold == Spec => []Answers
<1>1. Init => Answers
  <2> SUFFICES ASSUME Init PROVE Answers
    OBVIOUS
  <2>1. \A c \in Checks : Path(c)
    BY FreshTyped DEF Init, FeaturesInit, Path, Running, At
  <2>2. \A f \in Keys : Fresher(f)
    BY DEF Init, FeaturesInit, Fresher
  <2> QED BY <2>1, <2>2 DEF Answers
<1> QED BY <1>1, TypedHolds, AnswersNext, PTL DEF Spec

\* A check whose reads are apart, in which no read failed and at most one of
\* the tables changed, gives an answer that was right at some moment of it.
THEOREM WasRight == Spec => []AnswerWasRight
<1>1. ASSUME Typed, Answers PROVE AnswerWasRight
  <2> SUFFICES ASSUME NEW c \in Checks, At(c, "set"), ~check[c].torn,
                      Cardinality(check[c].moved) <= 1
               PROVE  check[c].value \in check[c].seen
    BY DEF AnswerWasRight
  <2>1. Heading(c) /\ check[c].moved \in SUBSET Source
    BY <1>1 DEF Answers, Path, Running, At, Typed, TypeOK, FeaturesTypes, Check
  <2>2. IsFiniteSet(Source)
    <3>1. IsFiniteSet({"override"})
      BY FS_Singleton
    <3>2. IsFiniteSet({"plan"}) /\ IsFiniteSet({"enabled"})
      BY FS_Singleton
    <3>3. Source = ({"override"} \cup {"plan"}) \cup {"enabled"}
      BY DEF Source
    <3>4. IsFiniteSet({"override"} \cup {"plan"})
      BY <3>1, <3>2, FS_Union
    <3>5. IsFiniteSet(({"override"} \cup {"plan"}) \cup {"enabled"})
      BY <3>2, <3>4, FS_Union
    <3> QED BY <3>3, <3>5
  <2>3. \E s \in Source : check[c].moved \subseteq {s}
    <3>1. CASE check[c].moved = {}
      BY <3>1 DEF Source
    <3>2. CASE check[c].moved # {}
      <4>1. PICK s \in check[c].moved : TRUE
        BY <3>2
      <4> DEFINE rest == check[c].moved \ {s}
      <4>2. IsFiniteSet(check[c].moved)
        BY <2>1, <2>2, FS_Subset
      <4>3. IsFiniteSet(rest) /\ Cardinality(rest) = Cardinality(check[c].moved) - 1
        BY <4>1, <4>2, FS_RemoveElement
      <4>4. Cardinality(check[c].moved) \in Nat /\ Cardinality(rest) \in Nat
        BY <4>2, <4>3, FS_CardinalityType
      <4>5. Cardinality(rest) = 0
        BY <4>3, <4>4
      <4>6. rest = {}
        BY <4>3, <4>5, FS_EmptySet
      <4> QED BY <2>1, <4>1, <4>6
    <3> QED BY <3>1, <3>2
  <2> QED BY <2>1, <2>3 DEF Heading, At
<1> QED BY <1>1, TypedHolds, AnswersHold, PTL

\* As long after the last change as an answer is cached and a check may take,
\* the cache has the right answers, though nothing invalidates it.
THEOREM CatchesUp == Spec => []CacheCatchesUp
<1>1. ASSUME Typed, Answers PROVE CacheCatchesUp
  <2> SUFFICES ASSUME calm = Settling, NEW f \in Keys, cache[f] # None, ~cache[f].torn,
                      cache[f].value # Granted(f)
               PROVE  FALSE
    BY DEF CacheCatchesUp
  <2>1. calm + cache[f].left <= Settling
    BY <1>1 DEF Answers, Fresher
  <2>2. cache[f].left \in 1..TTL
    BY <1>1 DEF Typed, TypeOK, FeaturesTypes, Entry
  <2> QED BY <2>1, <2>2, Constants
<1> QED BY <1>1, TypedHolds, AnswersHold, PTL
=============================================================================
