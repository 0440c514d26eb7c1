------------------------------ MODULE Billing ------------------------------
(***************************************************************************)
(* Payments and subscriptions of one user: the checkout handler, the       *)
(* Midtrans notification handler with the subscription activation it       *)
(* runs, the user's edits of his profile, which rewrite his current plan,  *)
(* the daily expiry task and the admin's plan deletion.  Each handler is a *)
(* process that takes one action per database statement or remote call,    *)
(* since that is where other requests interleave.  Every query filters by  *)
(* user or by order, so one user is enough.                                *)
(*                                                                         *)
(* Time is counted in months.  Amounts, invoice numbers and the signature  *)
(* check (only genuine notifications are generated) are left out.          *)
(***************************************************************************)
EXTENDS Naturals, Sequences, FiniteSets

CONSTANTS
  Plans,      \* the paid plans that exist at the start
  Free,       \* the plan whose slug is "free"
  NoPlan,     \* NULL in payments.plan_id
  Cycles,     \* the billing cycles offered
  Channels,   \* payment channels Midtrans reports, "midtrans" is the generic
  Checkouts,  \* concurrent POST /billing/create-transaction requests
  Handlers,   \* concurrent POST /billing/notification requests
  Profiles,   \* concurrent PUT /auth/profile requests
  MaxOrders,  \* bound: orders ever created
  MaxTime,    \* bound: last month of the run
  MaxUnacked, \* bound: notifications outstanding at a time
  Faults      \* database calls may fail and the API server may die

ASSUME BillingAssumption ==
  /\ Free \notin Plans /\ NoPlan \notin Plans /\ Free # NoPlan
  /\ Cycles \subseteq {"monthly", "yearly"}
  /\ Channels \subseteq {"midtrans", "specific"}
  /\ MaxOrders \in Nat \ {0} /\ MaxTime \in Nat \ {0} /\ MaxUnacked \in Nat \ {0}
  /\ IsFiniteSet(Handlers) /\ IsFiniteSet(Checkouts)
  /\ Faults \in BOOLEAN

VARIABLES
  now,          \* the current month
  plans,        \* rows of table plans, the free plan apart
  payments,     \* table payments, indexed by order in creation order
  subs,         \* table subscriptions, in creation order
  userPlan,     \* users.current_plan_id
  checkout,     \* local state of each checkout request
  handler,      \* local state of each notification request
  profile,      \* local state of each profile request
  mt,           \* Midtrans: what became of each transaction
  handedOut,    \* orders whose payment page the user has been given
  unacked,      \* notifications Midtrans has not had a 200 for
  charged,      \* history: orders whose money Midtrans has taken
  activations,  \* history: how often each order activated a subscription
  undone,       \* history: how often a notification took an order back
  overtaken,    \* history: notification requests about to write an expiry
                \* computed before another activation was written
  blind         \* history: orders of checkouts that could not see the last one

db   == <<plans, payments, subs, userPlan>>
ext  == <<mt, handedOut, charged>>
hist == <<activations, undone, overtaken, blind>>
vars == <<now, db, checkout, handler, profile, ext, unacked, hist>>

----------------------------------------------------------------------------
(* Rows and messages.                                                      *)

Orders == 1..MaxOrders
Never  == 0                               \* NULL in expires_at
PaymentStatus == {"pending", "paid", "failed", "expired", "refunded"}

Payment == [status : PaymentStatus \cup {"none"}, plan : Plans \cup {NoPlan},
            cycle : {"monthly", "yearly"}, url : BOOLEAN, paidAt : BOOLEAN,
            method : {"midtrans", "specific"}]

NoPayment == [status |-> "none", plan |-> NoPlan, cycle |-> "monthly",
              url |-> FALSE, paidAt |-> FALSE, method |-> "midtrans"]

Sub == [plan : Plans \cup {Free}, status : {"active", "expired"}, expires : Nat]
FreeSub == [plan |-> Free, status |-> "active", expires |-> Never]

MidtransState == {"none", "open", "pending", "challenge", "capture",
                  "settlement", "deny", "cancel", "expire", "refund"}

Notification == [order : Orders, kind : MidtransState, channel : {"midtrans", "specific"}]
NoNote == [order |-> 1, kind |-> "none", channel |-> "midtrans"]

\* GetByUserID: the newest row.
Latest == subs[Len(subs)]

Existing == {o \in Orders : payments[o].status # "none"}
Pending  == {o \in Orders : payments[o].status = "pending"}

\* The newest pending order of the user, ORDER BY created_at DESC LIMIT 1.
IsLatestPending(o) == o \in Pending /\ \A q \in Pending : q <= o

\* Mutants of StatusOf: Midtrans' word is stored as it is, a challenged
\* capture counts as paid, and only a settlement does.
StatusVerbatim(kind) == kind
StatusTrustingChallenge(kind) ==
  CASE kind \in {"capture", "settlement", "challenge"} -> "paid"
    [] kind = "pending"                                -> "pending"
    [] OTHER                                           -> "failed"
StatusAwaitingSettlement(kind) ==
  CASE kind = "settlement"                           -> "paid"
    [] kind \in {"pending", "challenge", "capture"}  -> "pending"
    [] OTHER                                         -> "failed"

\* The switch on transaction_status; a challenged capture stays pending.
StatusOf(kind) ==
  CASE kind \in {"capture", "settlement"}   -> "paid"
    [] kind \in {"pending", "challenge"}    -> "pending"
    [] kind \in {"deny", "cancel"}          -> "failed"
    [] kind = "expire"                      -> "expired"
    [] OTHER                                -> "refunded"

Months(cycle) == IF cycle = "yearly" THEN 12 ELSE 1

NewPayment(p, y) == [NoPayment EXCEPT !.status = "pending", !.plan = p, !.cycle = y]

\* UpdateStatusByExternalID: status and paid_at are overwritten whatever they
\* were; an empty page or channel keeps the stored one.
Updated(p, status, paidAt, url, method) ==
  [p EXCEPT !.status = status, !.paidAt = paidAt, !.url = @ \/ url,
            !.method = IF method = "" THEN @ ELSE method]
UpdatePayment(o, status, paidAt, url, method) ==
  payments' = [payments EXCEPT ![o] = Updated(@, status, paidAt, url, method)]

----------------------------------------------------------------------------
(* Checkout.                                                               *)

CheckoutState == [pc : {"idle", "create", "snap", "save"}, order : Orders,
                  plan : Plans \cup {NoPlan}, cycle : {"monthly", "yearly"},
                  blind : BOOLEAN]
IdleCheckout == [pc |-> "idle", order |-> 1, plan |-> NoPlan, cycle |-> "monthly",
                 blind |-> FALSE]

Placed(request, o) == [request EXCEPT !.pc = "snap", !.order = o]

\* A pending order with a saved payment page is handed out again.
ReuseInvoice(c) ==
  /\ checkout[c].pc = "idle"
  /\ \E o \in Orders : /\ IsLatestPending(o)
                       /\ payments[o].url
                       /\ handedOut' = handedOut \cup {o}
  /\ UNCHANGED <<now, profile, db, checkout, handler, mt, unacked, charged, hist>>

Starting(c, p, y, b) ==
  /\ Cardinality(Existing)
       + Cardinality({d \in Checkouts : checkout[d].pc = "create"}) < MaxOrders
  /\ checkout' = [checkout EXCEPT ![c] =
        [pc |-> "create", order |-> 1, plan |-> p, cycle |-> y, blind |-> b]]

\* Another request of the user is between its look and its answer.
OthersUnderWay(c) == \E d \in Checkouts \ {c} : checkout[d].pc # "idle"

\* Mutant of StartInvoice: without the query for a pending payment.
StartInvoiceAnyway(c, p, y) ==
  /\ checkout[c].pc = "idle"
  /\ Starting(c, p, y, OthersUnderWay(c))
  /\ UNCHANGED <<now, profile, db, handler, ext, unacked, hist>>

\* Otherwise the request goes on to make a new order, also when the query
\* failed.  It is blind if it could not see the order of an earlier request.
StartInvoice(c, p, y) ==
  /\ checkout[c].pc = "idle"
  /\ \/ /\ ~ \E o \in Orders : IsLatestPending(o) /\ payments[o].url
        /\ Starting(c, p, y, OthersUnderWay(c))
     \/ Faults /\ Starting(c, p, y, TRUE)
  /\ UNCHANGED <<now, profile, db, handler, ext, unacked, hist>>

\* The plan lookup and the INSERT of the pending row; a plan deleted by now
\* fails the lookup or the foreign key, and the request ends.
CreatePayment(c) ==
  /\ checkout[c].pc = "create"
  /\ IF checkout[c].plan \in plans
     THEN \E o \in Orders \ Existing :
            /\ \A q \in Orders : q < o => q \in Existing
            /\ payments' = [payments EXCEPT ![o] =
                              NewPayment(checkout[c].plan, checkout[c].cycle)]
            /\ checkout' = [checkout EXCEPT ![c] = Placed(@, o)]
            /\ blind' = IF checkout[c].blind THEN blind \cup {o} ELSE blind
     ELSE /\ checkout' = [checkout EXCEPT ![c] = IdleCheckout]
          /\ UNCHANGED <<payments, blind>>
  /\ UNCHANGED <<now, profile, plans, subs, userPlan, handler, ext, unacked, activations,
                 undone, overtaken>>

\* Mutant of SnapAccepts: the user gets the page before it is saved.
SnapHandsOut(c) ==
  /\ checkout[c].pc = "snap"
  /\ mt' = [mt EXCEPT ![checkout[c].order] = "open"]
  /\ handedOut' = handedOut \cup {checkout[c].order}
  /\ checkout' = [checkout EXCEPT ![c].pc = "save"]
  /\ UNCHANGED <<now, profile, db, handler, charged, unacked, hist>>

SnapAccepts(c) ==
  /\ checkout[c].pc = "snap"
  /\ mt' = [mt EXCEPT ![checkout[c].order] = "open"]
  /\ checkout' = [checkout EXCEPT ![c].pc = "save"]
  /\ UNCHANGED <<now, profile, db, handler, handedOut, charged, unacked, hist>>

\* The request fails; the row it inserted is left as it is.
SnapFails(c) ==
  /\ checkout[c].pc = "snap"
  /\ checkout' = [checkout EXCEPT ![c] = IdleCheckout]
  /\ UNCHANGED <<now, profile, db, handler, ext, unacked, hist>>

\* Stores the payment page with an unconditional UPDATE to pending, and
\* answers.  A failed UPDATE is only logged: the user still gets the page.
SaveRedirectURL(c) ==
  LET o == checkout[c].order IN
  /\ checkout[c].pc = "save"
  /\ \/ UpdatePayment(o, "pending", FALSE, TRUE, "")
     \/ Faults /\ UNCHANGED payments
  /\ handedOut' = handedOut \cup {o}
  /\ checkout' = [checkout EXCEPT ![c] = IdleCheckout]
  /\ UNCHANGED <<now, profile, plans, subs, userPlan, handler, mt, charged, unacked, hist>>

CheckoutDies(c) ==
  /\ Faults
  /\ checkout[c].pc # "idle"
  /\ checkout' = [checkout EXCEPT ![c] = IdleCheckout]
  /\ UNCHANGED <<now, profile, db, handler, ext, unacked, hist>>

----------------------------------------------------------------------------
(* Midtrans, as the code uses it.                                          *)

MidtransNext(s) ==
  CASE s = "open"       -> {"pending", "capture", "challenge"}
    [] s = "pending"    -> {"settlement", "expire", "cancel"}
    [] s = "challenge"  -> {"capture", "deny"}
    [] s = "capture"    -> {"settlement"}
    [] s = "settlement" -> {"refund"}
    [] OTHER            -> {}

\* The transaction moves on and a notification is sent.  The user can only
\* start paying on a page he was given.
MidtransMoves(o, kind, channel) ==
  /\ kind \in MidtransNext(mt[o])
  /\ o \in handedOut
  /\ Cardinality(unacked) < MaxUnacked
  /\ mt' = [mt EXCEPT ![o] = kind]
  /\ unacked' = unacked \cup {[order |-> o, kind |-> kind, channel |-> channel]}
  /\ charged' = IF kind \in {"capture", "settlement"} THEN charged \cup {o} ELSE charged
  /\ UNCHANGED <<now, profile, db, checkout, handler, handedOut, hist>>

----------------------------------------------------------------------------
(* The notification handler.                                               *)

HandlerState == [pc : {"idle", "channel", "update", "read", "pick", "apply"},
                 note : Notification, seen : Payment, expires : Nat, row : Nat]

Busy(h) == handler[h].pc # "idle"
IdleHandler == [pc |-> "idle", note |-> NoNote, seen |-> NoPayment,
                expires |-> Never, row |-> 0]
Idle(h) == [handler EXCEPT ![h] = IdleHandler]
Advanced(request, pc, expires, row) ==
  [request EXCEPT !.pc = pc, !.expires = expires, !.row = row]
Advance(h, pc, expires, row) ==
  handler' = [handler EXCEPT ![h] = Advanced(@, pc, expires, row)]

Started(pc, note, seen) ==
  [pc |-> pc, note |-> note, seen |-> seen, expires |-> Never, row |-> 0]

\* The answer is a 200 whatever happened, which ends Midtrans' retries.
Respond(h) ==
  /\ handler' = Idle(h)
  /\ unacked' = unacked \ {handler[h].note}

\* Mutant of AlreadyPaid: without the check.
NeverPaid(seen, n) == FALSE

AlreadyPaid(seen, n) == seen.status = "paid" /\ StatusOf(n.kind) = "paid"

\* A notification arrives (again) and the payment row is read.  A second
\* "paid" is skipped, but may still record a more specific channel.
Receive(h, n) ==
  LET seen    == payments[n.order]
      again   == AlreadyPaid(seen, n)
      channel == n.channel # "midtrans" /\ seen.method = "midtrans"
  IN
  /\ ~Busy(h)
  /\ n \in unacked
  /\ IF again /\ ~channel
     THEN unacked' = unacked \ {n} /\ UNCHANGED handler
     ELSE /\ handler' = [handler EXCEPT ![h] =
                            Started(IF again THEN "channel" ELSE "update", n, seen)]
          /\ UNCHANGED unacked
  /\ UNCHANGED <<now, profile, db, checkout, ext, hist>>

RecordChannel(h) ==
  LET o == handler[h].note.order IN
  /\ handler[h].pc = "channel"
  /\ UpdatePayment(o, "paid", handler[h].seen.paidAt, FALSE, handler[h].note.channel)
  /\ Respond(h)
  /\ UNCHANGED <<now, profile, plans, subs, userPlan, checkout, ext, hist>>

\* A payment falls back from "paid", or to "pending".
TakenBack(from, to) == \/ from = "paid" /\ to # "paid"
                       \/ from # "pending" /\ to = "pending"

\* UpdateStatusByExternalID does not look at the status it overwrites.
UpdateStatus(h) ==
  LET n == handler[h].note
      s == StatusOf(n.kind)
      back == TakenBack(payments[n.order].status, s)
  IN
  /\ handler[h].pc = "update"
  /\ UpdatePayment(n.order, s, s = "paid", FALSE, n.channel)
  /\ IF s = "paid" /\ handler[h].seen.plan # NoPlan
     THEN Advance(h, "read", Never, 0) /\ UNCHANGED unacked
     ELSE Respond(h)
  /\ undone' = IF back THEN [undone EXCEPT ![n.order] = @ + 1] ELSE undone
  /\ UNCHANGED <<now, profile, plans, subs, userPlan, checkout, ext, activations, overtaken,
                 blind>>

\* Mutant of ReadSubscription: a renewal starts from today.
ReadNothing(h) ==
  /\ handler[h].pc = "read"
  /\ Advance(h, "pick", now + Months(handler[h].seen.cycle), 0)
  /\ UNCHANGED <<now, profile, db, checkout, ext, unacked, hist>>

\* activateSubscription reads the subscription outside its transaction and
\* computes the new expiry from it.
ReadSubscription(h) ==
  LET seen  == handler[h].seen
      renew == Latest.plan = seen.plan /\ Latest.expires # Never /\ Latest.expires > now
      base  == IF renew THEN Latest.expires ELSE now
  IN
  /\ handler[h].pc = "read"
  /\ Advance(h, "pick", base + Months(seen.cycle), 0)
  /\ UNCHANGED <<now, profile, db, checkout, ext, unacked, hist>>

\* The UPDATE of the newest subscription: its subquery picks the row from
\* the statement's snapshot, and the UPDATE may then wait for that row's lock.
PickRow(h) ==
  /\ handler[h].pc = "pick"
  /\ Advance(h, "apply", handler[h].expires, Len(subs))
  /\ UNCHANGED <<now, profile, db, checkout, ext, unacked, hist>>

\* Requests that have computed an expiry they have yet to write.
Computed == {h \in Handlers : handler[h].pc \in {"pick", "apply"}}

\* The rest of the transaction; a plan deleted meanwhile fails the foreign
\* key and everything is rolled back.
ApplyPlan(h) ==
  LET p == handler[h].seen.plan
      o == handler[h].note.order
  IN
  /\ handler[h].pc = "apply"
  /\ IF p \in plans
     THEN /\ subs' = [subs EXCEPT ![handler[h].row] =
                [plan |-> p, status |-> "active", expires |-> handler[h].expires]]
          /\ userPlan' = p
          /\ activations' = [activations EXCEPT ![o] = @ + 1]
          /\ overtaken' = (overtaken \cup Computed) \ {h}
     ELSE /\ overtaken' = overtaken \ {h}
          /\ UNCHANGED <<subs, userPlan, activations>>
  /\ Respond(h)
  /\ UNCHANGED <<now, profile, plans, payments, checkout, ext, undone, blind>>

\* A database error at the handler's next call: rolled back, logged, and
\* answered with 200.
HandlerFails(h) ==
  /\ Faults
  /\ Busy(h)
  /\ Respond(h)
  /\ overtaken' = overtaken \ {h}
  /\ UNCHANGED <<now, profile, db, checkout, ext, activations, undone, blind>>

\* The server dies: no answer, so Midtrans sends the notification again.
HandlerDies(h) ==
  /\ Faults
  /\ Busy(h)
  /\ handler' = Idle(h)
  /\ overtaken' = overtaken \ {h}
  /\ UNCHANGED <<now, profile, db, checkout, ext, unacked, activations, undone, blind>>

----------------------------------------------------------------------------
(* Profile edits.                                                          *)

ProfileState == [pc : {"idle", "write"}, plan : Plans \cup {Free}]
IdleProfile  == [pc |-> "idle", plan |-> Free]

ReadProfile(f) ==
  /\ profile[f].pc = "idle"
  /\ profile' = [profile EXCEPT ![f] = [pc |-> "write", plan |-> userPlan]]
  /\ UNCHANGED <<now, db, checkout, handler, ext, unacked, hist>>

\* Every column is written back as it was read, the current plan with them; a
\* plan deleted meanwhile fails the foreign key.
WriteProfile(f) ==
  /\ profile[f].pc = "write"
  /\ \/ profile[f].plan \in plans \cup {Free} /\ userPlan' = profile[f].plan
     \/ /\ profile[f].plan \notin plans \cup {Free} \/ Faults
        /\ UNCHANGED userPlan
  /\ profile' = [profile EXCEPT ![f] = IdleProfile]
  /\ UNCHANGED <<now, plans, payments, subs, checkout, handler, ext, unacked, hist>>

----------------------------------------------------------------------------
(* Maintenance.                                                            *)

Due(s) == s.status = "active" /\ s.expires # Never /\ s.expires <= now
DueRows == {i \in 1..Len(subs) : Due(subs[i])}

\* Mutants of ExpireEnded: no free rows are inserted, and the user's
\* current plan is not set.
ExpireOnly ==
  /\ DueRows # {}
  /\ subs' = [i \in 1..Len(subs) |-> IF i \in DueRows
                                     THEN [subs[i] EXCEPT !.status = "expired"]
                                     ELSE subs[i]]
  /\ userPlan' = Free
  /\ UNCHANGED <<now, profile, plans, payments, checkout, handler, ext, unacked, hist>>
ExpireRowsOnly ==
  /\ DueRows # {}
  /\ subs' = [i \in 1..Len(subs) |-> IF i \in DueRows
                                     THEN [subs[i] EXCEPT !.status = "expired"]
                                     ELSE subs[i]]
               \o [i \in 1..Cardinality(DueRows) |-> FreeSub]
  /\ UNCHANGED <<now, profile, plans, payments, userPlan, checkout, handler, ext, unacked, hist>>

\* One statement: ended rows expire, each gets a new free row, and the user
\* is put back on the free plan.
ExpireEnded ==
  /\ DueRows # {}
  /\ subs' = [i \in 1..Len(subs) |-> IF i \in DueRows
                                     THEN [subs[i] EXCEPT !.status = "expired"]
                                     ELSE subs[i]]
               \o [i \in 1..Cardinality(DueRows) |-> FreeSub]
  /\ userPlan' = Free
  /\ UNCHANGED <<now, profile, plans, payments, checkout, handler, ext, unacked, hist>>

Orphaned(payment) == [payment EXCEPT !.plan = NoPlan]

\* Foreign keys: not while a subscription or the user refers to the plan;
\* payments lose their reference.
DeletePlan(p) ==
  /\ p \in plans
  /\ \A i \in 1..Len(subs) : subs[i].plan # p
  /\ userPlan # p
  /\ plans' = plans \ {p}
  /\ payments' = [o \in Orders |-> IF payments[o].plan = p THEN Orphaned(payments[o])
                                                          ELSE payments[o]]
  /\ UNCHANGED <<now, profile, subs, userPlan, checkout, handler, ext, unacked, hist>>

Tick ==
  /\ now < MaxTime
  /\ now' = now + 1
  /\ UNCHANGED <<db, checkout, handler, profile, ext, unacked, hist>>

----------------------------------------------------------------------------
Init ==
  /\ now = 1
  /\ plans = Plans
  /\ payments = [o \in Orders |-> NoPayment]
  /\ subs = <<FreeSub>>
  /\ userPlan = Free
  /\ checkout = [c \in Checkouts |-> IdleCheckout]
  /\ handler = [h \in Handlers |-> IdleHandler]
  /\ profile = [f \in Profiles |-> IdleProfile]
  /\ mt = [o \in Orders |-> "none"]
  /\ handedOut = {}
  /\ unacked = {}
  /\ charged = {}
  /\ activations = [o \in Orders |-> 0]
  /\ undone = [o \in Orders |-> 0]
  /\ overtaken = {}
  /\ blind = {}

CheckoutStep(c) ==
  \/ ReuseInvoice(c)
  \/ \E p \in plans, y \in Cycles : StartInvoice(c, p, y)
  \/ CreatePayment(c) \/ SnapAccepts(c) \/ SnapFails(c)
  \/ SaveRedirectURL(c) \/ CheckoutDies(c)

\* What a notification request does once it has read the payment.
HandlerStep(h) ==
  \/ RecordChannel(h) \/ UpdateStatus(h)
  \/ ReadSubscription(h) \/ PickRow(h) \/ ApplyPlan(h)

Next ==
  \/ \E c \in Checkouts : CheckoutStep(c)
  \/ \E o \in Orders, k \in MidtransState, ch \in Channels : MidtransMoves(o, k, ch)
  \/ \E h \in Handlers : \/ \E n \in unacked : Receive(h, n)
                          \/ HandlerStep(h) \/ HandlerFails(h) \/ HandlerDies(h)
  \/ \E f \in Profiles : ReadProfile(f) \/ WriteProfile(f)
  \/ ExpireEnded
  \/ \E p \in Plans : DeletePlan(p)
  \/ Tick

Spec == Init /\ [][Next]_vars

\* A request that started runs to its end, and Midtrans repeats a
\* notification until it is answered.
Fairness ==
  /\ \A h \in Handlers : WF_vars(HandlerStep(h))
  /\ \A o \in Orders, k \in MidtransState, ch \in Channels :
       LET n == [order |-> o, kind |-> k, channel |-> ch]
       IN  WF_vars(\E h \in Handlers : Receive(h, n))

FairSpec == Spec /\ Fairness

----------------------------------------------------------------------------
(* Properties.                                                             *)

\* Every variable keeps its type; the rows and local records of the handlers
\* are the only states the code's structs can be in.
TypeOK ==
  /\ now \in 1..MaxTime
  /\ plans \subseteq Plans
  /\ payments \in [Orders -> Payment]
  /\ subs \in Seq(Sub) /\ subs # <<>>
  /\ userPlan \in Plans \cup {Free}
  /\ checkout \in [Checkouts -> CheckoutState]
  /\ handler \in [Handlers -> HandlerState]
  /\ profile \in [Profiles -> ProfileState]
  /\ mt \in [Orders -> MidtransState]
  /\ handedOut \subseteq Orders /\ charged \subseteq Orders
  /\ unacked \subseteq Notification
  /\ activations \in [Orders -> Nat] /\ undone \in [Orders -> Nat]
  /\ overtaken \subseteq Handlers /\ blind \subseteq Orders

\* Whatever is duplicated, reordered, lost or raced, a subscription on a paid
\* plan goes back to an order for that plan whose money Midtrans took.
PaidPlanBackedByCharge ==
  \A i \in 1..Len(subs) : subs[i].plan # Free =>
    \E o \in charged : payments[o].plan = subs[i].plan

\* The newest subscription, the one the send path's quota check reads, is
\* always active: expiry never leaves a user without a plan.
LatestIsActive == Latest.status = "active"

\* users.current_plan_id and the plan of the newest subscription drift apart
\* only in two ways: an activation writes a row that is no longer the newest,
\* or a profile edit writes back a plan it read earlier.
DriftOnlyByStaleWrite ==
  [][userPlan = Latest.plan /\ userPlan' # Latest'.plan =>
       \/ \E h \in Handlers : /\ handler[h].pc = "apply" /\ handler[h].row < Len(subs)
                              /\ handler'[h] # handler[h]
       \/ \E f \in Profiles : profile[f].pc = "write" /\ profile'[f] # profile[f]]_vars

\* The checkout request writes "pending" over its order after Midtrans knows
\* it, yet it never undoes a payment: only a late notification can.
OnlyNotificationsUnpay ==
  [][\A o \in Orders : payments[o].status = "paid" /\ payments'[o].status # "paid" =>
        \E h \in Handlers : handler[h].pc = "update" /\ handler[h].note.order = o]_vars

\* "Already paid; skipping duplicate subscription activation": the check
\* reads the row before the UPDATE, so it lets through the requests that read
\* it together, and starts anew when a late notification takes the payment
\* back, but no more than that however often Midtrans repeats itself.
ActivationsBounded ==
  \A o \in Orders : activations[o] <= Cardinality(Handlers) * (1 + undone[o])

\* "Renewals of the same paid plan extend from the current expiry when it is
\* still in the future": an activation of the running plan moves its end,
\* unless another one was written after the request had read the old end.
RenewalExtends ==
  [][\A h \in Handlers \ overtaken :
       /\ handler[h].pc = "apply" /\ handler'[h] # handler[h] /\ activations' # activations
       /\ Latest.plan = userPlan' /\ Latest.expires > now
       => Latest'.expires > Latest.expires]_vars

\* Orders the user can pay: he has the page, the row keeps it, and the row is
\* pending without a late notification having made it so.
OpenInvoices == {o \in Pending : o \in handedOut /\ payments[o].url /\ undone[o] = 0}

\* "Reuse existing pending payment if it exists to avoid duplicate invoices":
\* every payable invoice but one goes back to a checkout that looked while
\* another was under way, or whose look failed.
InvoicesAccounted == Cardinality(OpenInvoices) <= 1 + Cardinality(blind)

\* The skip of a second "paid" relies on the first one's activation: a paid
\* order nobody works on has activated its plan.
PaidMeansActivated ==
  \A o \in Orders :
    /\ payments[o].status = "paid" /\ payments[o].plan # NoPlan
    /\ \A h \in Handlers : Busy(h) => handler[h].note.order # o
    => activations[o] > 0

\* A charged order whose plan still exists is eventually activated.
ChargedIsActivated ==
  \A o \in Orders : o \in charged ~> (activations[o] > 0 \/ payments[o].plan = NoPlan)
============================================================================
