------------------------------ MODULE Features ------------------------------
(***************************************************************************)
(* Which features a customer has: the plan he subscribed to has some, an   *)
(* administrator may override each, and the answer is kept in Redis for a  *)
(* while.  SendEmail asks for open tracking and then for click tracking,   *)
(* while administrators change plans and overrides.                        *)
(*                                                                         *)
(* A check is a sequence of reads, each an action of its own.  Time is     *)
(* relative: what expires carries the ticks it has left.  Names, prices    *)
(* and limits of a plan are left out.                                      *)
(***************************************************************************)
EXTENDS Integers, FiniteSets

CONSTANTS
  Plans,     \* IDs of plans
  Checks,    \* e-mails being handed in, each of which checks both features
  Updates,   \* creations and updates of plans
  MaxChanges,  \* bound: changes of plans, overrides and the subscription
  TTL,       \* ticks an answer is cached
  MaxDelay,  \* bound: ticks a check takes
  Lives,     \* lives of an override, in ticks
  Forever,   \* the life of one without an end
  Unused,    \* a plan not created yet
  Gone,      \* a deleted plan
  None

ASSUME FeaturesAssumption ==
  /\ TTL \in Nat \ {0} /\ MaxDelay \in Nat /\ MaxChanges \in Nat
  /\ Lives \subseteq Nat \ {0} /\ Forever \notin Nat
  /\ None \notin Plans \cup Updates

VARIABLES
  plan,      \* of his active subscription, if he has one
  enabled,   \* table plan_features: what is enabled
  override,  \* table user_plan_overrides, for each feature
  cache,     \* Redis, for each feature
  check,     \* the checks
  update,    \* UpdateFeatures, as run for CreatePlan and UpdatePlan
  last,      \* history: the last update to disable a plan's features
  rivals,    \* history: those that were enabling theirs just then
  calm,      \* history: ticks since what grants a feature has changed
  changes    \* those that MaxChanges bounds

rows     == <<plan, enabled, override>>
edits    == <<update, last, rivals>>
features == <<rows, cache, check, edits, calm, changes>>

----------------------------------------------------------------------------
Open  == "open_tracking"
Click == "click_tracking"
Keys  == {Open, Click}

Exists(p) == enabled[p] \notin {Unused, Gone}

\* What the tables o(verrides), p(lan) and e(nabled) say of a feature.
Grants(o, p, e, f) ==
  IF o[f] # None THEN o[f].value ELSE p # None /\ f \in e[p]

Granted(f) == Grants(override, plan, enabled, f)

\* A row has no end, or ticks left; one that has none left is not read.
Override == [value : BOOLEAN, left : {Forever} \cup (Nat \ {0})]
Entry    == [value : BOOLEAN, left : 1..TTL, torn : BOOLEAN]

ASSUME RowsAssumption ==
  /\ None \notin Override /\ None \notin Entry
  /\ Unused # Gone /\ \A fs \in SUBSET Keys : fs \notin {Unused, Gone}

\* age: ticks since it began; torn: a read of it failed; moved, seen: history,
\* the tables that have changed since and the answers they would have given.
Source == {"override", "plan", "enabled"}
Check  == [pc : {"role", "cache", "overrides", "plan", "features", "set", "insert", "end"},
           feature : Keys, granted : SUBSET Keys, plan : Plans \cup {None}, value : BOOLEAN,
           age : 0..MaxDelay, torn : BOOLEAN, moved : SUBSET Source, seen : SUBSET BOOLEAN]

Fresh == [pc |-> "role", feature |-> Open, granted |-> {}, plan |-> None, value |-> FALSE,
          age |-> 0, torn |-> FALSE, moved |-> {}, seen |-> {}]

At(c, pc)   == check[c].pc = pc
Running(c)  == check[c].pc \in {"cache", "overrides", "plan", "features", "set"}
Goto(c, pc) == check' = [check EXCEPT ![c].pc = pc]
Tear(c, pc) == check' = [check EXCEPT ![c].pc = pc, ![c].torn = TRUE]

\* The check is answered; the next feature is asked for.
After(q, value) ==
  [Fresh EXCEPT !.granted = q.granted \cup (IF value THEN {q.feature} ELSE {}),
                !.feature = Click,
                !.pc = IF q.feature = Open THEN "role" ELSE "insert"]

Answer(c, value) == check' = [check EXCEPT ![c] = After(@, value)]

\* What a change of the tables, which affects the features fs, means to history.
Note(source, fs) ==
  /\ calm' = 0
  /\ check' = [c \in Checks |->
       IF Running(c) /\ check[c].feature \in fs
       THEN [check[c] EXCEPT !.moved = @ \cup {source},
               !.seen = @ \cup {Grants(override', plan', enabled', check[c].feature)}]
       ELSE check[c]]

----------------------------------------------------------------------------
(* HasFeature.                                                             *)

\* Super admins have every feature; whether the customer is one, and still is,
\* is not followed here.  A failing read of the user is ignored.
CheckRole(c) ==
  /\ At(c, "role")
  /\ \/ Answer(c, TRUE)
     \/ check' = [check EXCEPT ![c].pc = "cache", ![c].seen = {Granted(check[c].feature)}]
  /\ UNCHANGED <<rows, cache, edits, calm, changes>>

CheckCache(c) ==
  LET f == check[c].feature IN
  /\ At(c, "cache") /\ cache[f] # None
  /\ Answer(c, cache[f].value)
  /\ UNCHANGED <<rows, cache, edits, calm, changes>>

\* The cache has no answer, or Redis is down.
CacheMisses(c) ==
  /\ At(c, "cache")
  /\ Goto(c, "overrides")
  /\ UNCHANGED <<rows, cache, edits, calm, changes>>

Compute(c, value) == check' = [check EXCEPT ![c].pc = "set", ![c].value = value]

\* A failing read counts as one that has found nothing.
CheckOverrides(c) ==
  LET o == override[check[c].feature] IN
  /\ At(c, "overrides")
  /\ \/ IF o # None THEN Compute(c, o.value) ELSE Goto(c, "plan")
     \/ Tear(c, "plan")
  /\ UNCHANGED <<rows, cache, edits, calm, changes>>

\* Without a subscription, or when the read fails, the answer is not cached.
CheckPlan(c) ==
  /\ At(c, "plan")
  /\ \/ IF plan = None THEN Answer(c, FALSE)
        ELSE check' = [check EXCEPT ![c].pc = "features", ![c].plan = plan]
     \/ Answer(c, FALSE)
  /\ UNCHANGED <<rows, cache, edits, calm, changes>>

\* Mutant of Includes: a row counts though it is disabled.
IncludesDisabled(f, p) == Exists(p)

Includes(f, p) == Exists(p) /\ f \in enabled[p]

\* The rows may end early, by an error that is not looked at.
CheckFeatures(c) ==
  LET q == check[c] IN
  /\ At(c, "features")
  /\ \/ Compute(c, Includes(q.feature, q.plan))
     \/ check' = [check EXCEPT ![c].pc = "set", ![c].value = FALSE, ![c].torn = TRUE]
     \/ Answer(c, FALSE)
  /\ UNCHANGED <<rows, cache, edits, calm, changes>>

\* The answer is cached, if Redis is up.
SetCache(c) ==
  LET q == check[c] IN
  /\ At(c, "set")
  /\ cache' \in {cache, [cache EXCEPT ![q.feature] =
                           [value |-> q.value, left |-> TTL, torn |-> q.torn]]}
  /\ Answer(c, q.value)
  /\ UNCHANGED <<rows, edits, calm, changes>>

----------------------------------------------------------------------------
(* Plans: CreatePlan, UpdatePlan and DeletePlan.                           *)

Update == [pc : {"start", "disable", "enable", "failed"},
           plan : Plans \cup {None}, want : SUBSET Keys, todo : SUBSET Keys]

Counted == changes < MaxChanges /\ changes' = changes + 1

Begin(u, p, want) ==
  /\ Counted
  /\ update[u].pc = "start"
  /\ update' = [update EXCEPT ![u] = [pc |-> "disable", plan |-> p, want |-> want, todo |-> want]]
  /\ UNCHANGED <<last, rivals>>

CreatePlan(u, p, want) ==
  /\ enabled[p] = Unused
  /\ enabled' = [enabled EXCEPT ![p] = {}]
  /\ Begin(u, p, want)
  /\ UNCHANGED <<plan, override, cache, check, calm>>

UpdatePlan(u, p, want) ==
  /\ Exists(p)
  /\ Begin(u, p, want)
  /\ UNCHANGED <<rows, cache, check, calm>>

Enabling(p) == {u \in Updates : update[u].plan = p /\ update[u].pc = "enable" /\ update[u].todo # {}}

\* Mutant of DisableAll: what the plan had before stays.
DisableNone(p) == UNCHANGED enabled

DisableAll(p) == enabled' = [enabled EXCEPT ![p] = {}]

Disable(u) ==
  LET p == update[u].plan IN
  /\ update[u].pc = "disable"
  /\ update' = [update EXCEPT ![u].pc = "enable"]
  /\ UNCHANGED <<plan, override, cache, changes>>
  /\ IF Exists(p)
     THEN /\ DisableAll(p) /\ Note("enabled", Keys)
          /\ last' = [last EXCEPT ![p] = u] /\ rivals' = [rivals EXCEPT ![p] = Enabling(p)]
     ELSE UNCHANGED <<enabled, check, calm, last, rivals>>

\* There is no row for a plan that is gone: the statement fails.
Enable(u, f) ==
  LET p == update[u].plan IN
  /\ update[u].pc = "enable" /\ f \in update[u].todo
  /\ UNCHANGED <<plan, override, cache, last, rivals, changes>>
  /\ IF Exists(p)
     THEN /\ enabled' = [enabled EXCEPT ![p] = @ \cup {f}]
          /\ update' = [update EXCEPT ![u].todo = @ \ {f}]
          /\ Note("enabled", {f})
     ELSE /\ update' = [update EXCEPT ![u].pc = "failed"]
          /\ UNCHANGED <<enabled, check, calm>>

UpdateFails(u) ==
  /\ update[u].pc = "disable" \/ (update[u].pc = "enable" /\ update[u].todo # {})
  /\ update' = [update EXCEPT ![u].pc = "failed"]
  /\ UNCHANGED <<rows, cache, check, last, rivals, calm, changes>>

\* A plan that is subscribed to cannot be deleted.
DeletePlan(p) ==
  /\ Counted
  /\ Exists(p) /\ p # plan
  /\ enabled' = [enabled EXCEPT ![p] = Gone]
  /\ last' = [last EXCEPT ![p] = None]
  /\ UNCHANGED <<plan, override, cache, update, rivals>>
  /\ Note("enabled", Keys)

----------------------------------------------------------------------------
(* What else changes: overrides, the subscription, time.                   *)

SetOverride(f, value, left) ==
  /\ Counted
  /\ override' = [override EXCEPT ![f] = [value |-> value, left |-> left]]
  /\ UNCHANGED <<plan, enabled>>
  /\ Note("override", {f})
  /\ UNCHANGED <<cache, edits>>

DeleteOverride(f) ==
  /\ Counted
  /\ override[f] # None
  /\ override' = [override EXCEPT ![f] = None]
  /\ UNCHANGED <<plan, enabled>>
  /\ Note("override", {f})
  /\ UNCHANGED <<cache, edits>>

ChangeSubscription(p) ==
  /\ Counted
  /\ p \in {q \in Plans : Exists(q)} \cup {None}
  /\ plan' = p
  /\ UNCHANGED <<enabled, override>>
  /\ Note("plan", Keys)
  /\ UNCHANGED <<cache, edits>>

Settling == TTL + MaxDelay

Live(o) == IF o # None /\ o.left = 1 THEN None
           ELSE IF o # None /\ o.left # Forever THEN [o EXCEPT !.left = @ - 1] ELSE o

\* Mutant of Cached: an answer is kept when its time is over.
CachedTooLong(e) == IF e = None \/ e.left = 0 THEN None ELSE [e EXCEPT !.left = @ - 1]

\* Mutant of Cached: an answer is cached without an end.
CachedForever(e) == e

Cached(e) == IF e = None \/ e.left = 1 THEN None ELSE [e EXCEPT !.left = @ - 1]

\* A tick: what has none left expires.
Tick ==
  LET ended == {f \in Keys : override[f] # None /\ Live(override[f]) = None} IN
  /\ \A c \in Checks : Running(c) => check[c].age < MaxDelay
  /\ override' = [f \in Keys |-> Live(override[f])]
  /\ cache' = [f \in Keys |-> Cached(cache[f])]
  /\ calm' = IF ended # {} THEN 0 ELSE IF calm < Settling THEN calm + 1 ELSE calm
  /\ check' = [c \in Checks |-> IF ~Running(c) THEN check[c] ELSE
       [check[c] EXCEPT !.age = @ + 1,
          !.moved = @ \cup (IF check[c].feature \in ended THEN {"override"} ELSE {}),
          !.seen = @ \cup {Grants(override', plan, enabled, check[c].feature)}]]
  /\ UNCHANGED <<plan, enabled, edits, changes>>

----------------------------------------------------------------------------
FeaturesInit ==
  /\ enabled \in [Plans -> (SUBSET Keys) \cup {Unused}]
  /\ plan \in {p \in Plans : enabled[p] # Unused} \cup {None}
  /\ override = [f \in Keys |-> None]
  /\ cache = [f \in Keys |-> None]
  /\ check = [c \in Checks |-> Fresh]
  /\ update = [u \in Updates |-> [pc |-> "start", plan |-> None, want |-> {}, todo |-> {}]]
  /\ last = [p \in Plans |-> None]
  /\ rivals = [p \in Plans |-> {}]
  /\ calm = 0
  /\ changes = 0

HasFeature(c) ==
  \/ CheckRole(c) \/ CheckCache(c) \/ CacheMisses(c) \/ CheckOverrides(c)
  \/ CheckPlan(c) \/ CheckFeatures(c) \/ SetCache(c)

EditsPlan(u) ==
  \/ \E p \in Plans, want \in SUBSET Keys : CreatePlan(u, p, want) \/ UpdatePlan(u, p, want)
  \/ Disable(u) \/ (\E f \in Keys : Enable(u, f)) \/ UpdateFails(u)

FeaturesNext ==
  \/ \E c \in Checks : HasFeature(c)
  \/ \E u \in Updates : EditsPlan(u)
  \/ \E p \in Plans : DeletePlan(p)
  \/ \E f \in Keys, value \in BOOLEAN, left \in Lives \cup {Forever} : SetOverride(f, value, left)
  \/ \E f \in Keys : DeleteOverride(f)
  \/ \E p \in Plans \cup {None} : ChangeSubscription(p)
  \/ Tick

----------------------------------------------------------------------------
(* Properties.                                                             *)

FeaturesTypes ==
  /\ plan \in Plans \cup {None}
  /\ enabled \in [Plans -> (SUBSET Keys) \cup {Unused, Gone}]
  /\ override \in [Keys -> Override \cup {None}]
  /\ cache \in [Keys -> Entry \cup {None}]
  /\ check \in [Checks -> Check]
  /\ update \in [Updates -> Update]
  /\ last \in [Plans -> Updates \cup {None}]
  /\ rivals \in [Plans -> SUBSET Updates]
  /\ calm \in 0..Settling
  /\ changes \in 0..MaxChanges

\* An answer that is going to be cached was the right one at some moment of
\* the check, though its reads are apart (HasFeature), unless a read failed or
\* two of the tables changed meanwhile.
AnswerWasRight ==
  \A c \in Checks :
    At(c, "set") /\ ~check[c].torn /\ Cardinality(check[c].moved) <= 1
      => check[c].value \in check[c].seen

\* Nothing invalidates the cache.  Yet as long after the last change as an
\* answer is cached and a check may take, the cache has no wrong answer left,
\* but for those of failed reads; also after a check in the middle of
\* UpdateFeatures.
CacheCatchesUp ==
  calm = Settling =>
    \A f \in Keys : cache[f] # None /\ ~cache[f].torn => cache[f].value = Granted(f)

\* When updates of a plan overlap, the features of the one that was the last
\* to disable are all there, if it succeeds, and others only if an update that
\* it met halfway wanted them (UpdateFeatures has no transaction).
PlanKeepsLastUpdate ==
  \A p \in Plans : LET u == last[p] IN u # None =>
    /\ update[u].pc = "enable" => update[u].want \ update[u].todo \subseteq enabled[p]
    /\ enabled[p] \subseteq update[u].want \cup UNION {update[v].want : v \in rivals[p]}

=============================================================================
