# A verification development for be-realsend

be-realsend is a multi-tenant e-mail sending service in Go: an API server
(`src/cmd/api`), a worker (`src/cmd/worker`) that takes tasks from asynq (a queue
in Redis), PostgreSQL for everything durable, Redis for counters, and Midtrans
for payments. This directory models the parts whose correctness depends on the
order in which requests, tasks, notifications and failures meet, checks them
with TLC on small instances, and proves the most important of their properties
with TLAPS for every instance.

`PROJECT.json` holds the same information for tools: the components, the runs,
the map from definitions to source lines, the mutants that show that each
property can fail, the findings, the hazards and the theorems. `src/...` paths
below are those of the repository.

## 1. The system

| Part | State | Operations | Talks to |
|---|---|---|---|
| Billing (`service/billing_service.go`, `payment_repo.go`, `subscription_repo.go`) | `payments`, `subscriptions`, `users.current_plan_id` | create-transaction, Midtrans notification, activation | Midtrans (HTTP both ways), Quota (a new period), Plans |
| Nightly maintenance (`worker/cleanup_worker.go`) | `subscriptions`, `email_logs`, `webhook_logs` | expire ended plans, reset usage windows, delete old logs | Billing, Quota, E-mail, Webhooks |
| E-mail submission (`service/email_service.go`, `smtpserver/server.go`, `handler/email_handler.go`, `middleware/api_key_auth.go`) | `email_logs`, the `email:send` tasks, SMTP sessions | authenticate, DATA or a request, send to one recipient after the other | Domains, Keys, Quota, Suppression, Features, the queue |
| E-mail worker (`worker/email_worker.go`) | `email_logs`, attempts, SMTP connections | fetch, send, mark, announce | SMTP server, Webhooks |
| Sending quota (`service/quota_service.go`) | day and month counters in Redis, usage columns | check and increment | Billing (overage), nightly resets |
| Webhooks (`service/webhook_service.go`, `worker/webhook_worker.go`) | `webhooks`, `webhook_logs`, the `webhook:dispatch` tasks | create, dispatch, deliver, count failures, switch off, update, delete | customers' endpoints, Plans |
| Domains (`service/domain_service.go`, `dns_service.go`) | `domains` | add, verify, delete | DNS, Plans, Keys, Submission |
| API keys (`service/api_key_service.go`) | `api_keys` | create, revoke | Domains, Plans, Submission |
| Plans and features (`service/feature_checker_service.go`, `plan_repo.go`) | `plans`, `plan_features`, `user_plan_overrides`, answers cached in Redis | check a feature; create, update, delete a plan | Submission, Administration, Billing |
| Tracking (`service/tracking_service.go`) | `opened_count`, `clicked_count` | inject pixel and links, count a visit, announce it | Features, Webhooks |
| Accounts (`service/auth_service.go`, `user_repo.go`) | `users`, tokens | register, log in (password, Google), profile, password | Billing (the current plan is a column of `users`) |
| Administration (`service/admin_service.go`) | `users`, `plans`, overrides | suspend, roles, deletion, plans, features | Accounts, Plans |
| Suppression, analytics, audit, middleware, processes | see section 5 | | |

Nothing in the code holds a lock across two statements; the transactions are in
`activateSubscription` (`billing_service.go:411`), in the two registrations
(`auth_service.go:86`, `:285`), and one statement is atomic by itself. Two
requests therefore interleave between any two database, Redis, DNS or HTTP
calls, and a process can die there. That is the granularity of the models:
**one action per statement or remote call**, with the values a request keeps in
its local variables as part of the state.

What makes the system hard, and where:

- *Billing*: notifications repeat, come late and out of order, and are handled
  concurrently; the check for a duplicate reads a status that another handler is
  about to write; payment and activation are two commits; the nightly expiry
  inserts a newer subscription while an activation waits for a row lock; a
  profile edit writes back the plan it read. Correct means: no plan without its
  charge, no charge without its plan, and no more activations of an order, lost
  renewals, open invoices or differences between the two places that hold the
  user's plan than the races explain.
- *E-mail pipeline*: the queue delivers at least once, the SMTP exchange is not
  bounded by the task's deadline, the log is overwritten without a look at its
  status, Redis may fail after its effect. Correct means: bounded duplicates, no
  loss without an error, the log and the events never claim what did not happen,
  every task ends.
- *Submission*: a session outlives the key it was authenticated with, the domain
  that was found is deleted, the recipients are served one by one and answered
  for together. Correct means: a revoked key sends only what was logged before it
  was revoked, who got a copy is known from where a try failed, verified means that the records were there.
- *What a plan allows*: limits are counted in one statement and used up in
  another; features are read from three tables in turn, cached without
  invalidation, and rewritten row by row. Correct means: limits and answers are
  wrong only by as much as the races explain, and for a bounded time.
- *Webhooks*: attempts decide on a count read before the POST, the owner edits
  meanwhile. Correct means: bounded posts, no silent loss, all failures counted,
  switched off in time and for cause only.
- *Quota*: the check and the increment are two calls; requests outlive the
  period they started in; reset windows drift with the time the task runs.
- *Accounts*: a profile edit writes back role and status; the check that the
  actor is a super admin and the write are apart; tokens are not compared with
  the table again. Correct means: an administrator's decision stands, and the last
  active super admin is lost in few ways that are known.

Every such place is listed with its line as a hazard in `PROJECT.json`.

## 2. The modules

How they build on each other: `Tracking` EXTENDS `Features`, `Submission` EXTENDS
`Resources` (each composes a request with the tables it depends on);
`EmailPipeline` and `Webhooks` share `Asynq`; `EmailPipeline` implements
`Outbox`. `Billing`, `Quota` and `Accounts` stand alone. Every `MC...` module
gives its specification the constants and symmetries of its runs, and every
`..._proofs` module holds the theorems about the module it EXTENDS;
`BillingOrders_proofs` EXTENDS `Billing_proofs`, whose invariants it builds on.

### `Billing`

One user; every query of this part filters by user or by order. Time is counted
in months (one unit is the shortest period sold).

| State | Code |
|---|---|
| `plans`, `payments`, `subs`, `userPlan` | tables `plans`, `payments`, `subscriptions` (in creation order, `Latest` is `GetByUserID`), `users.current_plan_id` |
| `checkout[c]` | local state of a `CreateTransaction` |
| `handler[h]` | local state of a `HandleNotification` and the `activateSubscription` it runs: the payment it read, the expiry it computed, the row its UPDATE picked |
| `profile[f]` | local state of an `UpdateProfile`: the plan it read |
| `mt`, `handedOut`, `unacked`, `charged` | Midtrans: transactions, payment pages given to the user, notifications without a 200, money taken |
| `activations`, `undone` | history: how often each order activated a plan, and how often a notification took its payment back or made it pending again |
| `overtaken` | history: handlers that have computed an expiry before another activation was written, and have yet to write it |
| `blind` | history: orders of checkouts that could not see an earlier one, for it was under way or their query failed |

`ReuseInvoice`, `StartInvoice`, `CreatePayment`, `SnapAccepts`, `SnapFails` and
`SaveRedirectURL` are the checkout; `MidtransMoves` is Midtrans; `Receive`,
`RecordChannel`, `UpdateStatus`, `ReadSubscription`, `PickRow`, `ApplyPlan` are
the notification handler; `ReadProfile`, `WriteProfile` the profile edit;
`ExpireEnded` the nightly statement; `DeletePlan` the admin. `PickRow` and
`ApplyPlan` are one UPDATE in the code: PostgreSQL evaluates its subquery on the
statement's snapshot and may then wait for the row, so other commits come in
between. `HandlerFails`, `HandlerDies` and `CheckoutDies` may strike before any
call, and a query for the pending payment that fails lets `StartInvoice` go on.
Midtrans may have up to `MaxUnacked` notifications outstanding, of one order or
several, which are delivered in any order, repeatedly and to handlers at once:
nothing serialises them.

### `Outbox`, `EmailPipeline`, `Asynq`

`Outbox` says what a customer may rely on: an e-mail leaves only if submitted,
and the log or an event calls it sent only if it left. `EmailPipeline` is the
request (`Submit`, `CreateLog`, `Enqueue`, `Refuse`), the worker's task handler
(`Take`, `Fetch`, `Process`, `Send`, `MarkSent`, `MarkFailed`, `TellSent`,
`TellFailed`, `Ack`, `Nack`), asynq's ways to give a task back (`TimesOut`,
`Recover`, `WorkerDies`, `WorkerStops`), the sends that outlive their deadline
(`LateSend`), and the retention (`Cleanup`). `Asynq` holds the task states and
the retry rule that both task types use (`Again`). `CONSTANT Faults` names the
things that may go wrong, so that each run states the world it assumes.

Refinement mapping: `report` is `log` with queued and processing as pending and
deleted as gone, `out` is the set of e-mails that were taken, `told` is `events`.

### `Webhooks`

One webhook: its row (`hook`), its logs, the announcement of each event
(`Dispatch`, `Enqueue`), the delivery attempts (`Fetch`, `Post`, `LogSuccess`,
`LogFailure`, `CountFailure`, `Deactivate`), the owner's update (`StartUpdate`,
`WriteUpdate`, `Reread`) and deletion, and the retention of its logs. `posts`,
`accepted` and `wasOff` are history.

### `Quota`

`CheckAndIncrement` as `Start`, `CheckDay`, `CheckMonth`, `Increment`,
`UpdateUsage`; `NewPeriod` is what an activation and an expiry do to it;
`ResetDaily`, `ResetMonthly` the nightly task, which `Tick` starts at midnight
and lets wait at most `MaxDelay` ticks. Counters are indexed by the period and
day or month their Redis key carries.

### `Accounts`

All users. `users[u]` is the row, or that the ID is unused or its account
deleted; `override[u]` who set the user's feature override, a foreign key that
keeps its creator from being deleted; `tokens[u]` the highest role in any token
of the user, since tokens are neither revoked nor compared with the table
(`middleware/auth.go:12`); `decided[u]` is history. A request is a record in
`req`: what it does, its next statement, and what it has read.

`FindByEmail`, `Commit`, `CommitFails`, `Registered` and `GoogleEnters` are the
two registrations, `Login` both logins, `ReadProfile`, `WriteProfile`,
`RereadProfile` the profile edit, `FindTarget`, `CheckActor`, `WriteStatus`
suspension, `FindActor`, `CheckTarget`, `WriteRole`, `DeleteUser` what only super
admins do, `FindAdmin`, `CheckStandard`, `SetOverride`, `DeleteOverride` the
overrides. A handler that dereferences a row it no longer finds ends the process
(`Panic`): no recover middleware is registered.

### `Resources`, `Submission`

`Resources` is one customer's `domains`, `api_keys` and `webhooks` (`row`), his
plan with its limits, and what he publishes in the DNS; no statement touches the
rows of two customers. A request creates a row (`ReadLimit`, `Count`, then
`CheckName` and `InsertDomain`, `CheckBinding` and `InsertKey`, or
`InsertWebhook`), verifies a domain (`FindDomain`, `VerifyDNS`,
`UpdateVerificationStatus`, `Verified`), or deletes (`FindRow`, `DeleteRow`,
which unbinds the keys of a domain). `Publish` and `ChangePlan` may come between
any two steps. IDs are never used again; `made` numbers them in the order of
`created_at`.

`Submission` adds clients that hand in a message for several recipients, over
SMTP (`Authenticate` once, then `Data` again and again, each serving every
recipient) or to the first of them over HTTP (both each time), and the part of
`SendEmail` that depends on those tables: `SenderDomain`,
`EnsureDomainWithinPlanLimit`, `CheckQuota` (which may refuse at will; quota and
suppression list are elsewhere), `CreateLog` with its foreign keys, `Enqueue`.
`Refuse` is an error, which is the answer for all recipients, and may also follow
an `Enqueue` whose task is in the queue; `Breaks` a lost connection. `copies` and
`late` are history: the tasks enqueued, and those under a key already revoked.

### `Features`, `Tracking`

`Features` is `HasFeature`, one action per read (`CheckRole`, `CheckCache` or
`CacheMisses`, `CheckOverrides`, `CheckPlan`, `CheckFeatures`, `SetCache`), each
of which may fail as the code lets it; plans (`CreatePlan`, `UpdatePlan`, then
`Disable` and `Enable` for each feature, `UpdateFails`, `DeletePlan`); overrides
with an end (`SetOverride`, `DeleteOverride`); and the subscription. Time is
relative: a cached answer and an override carry the ticks they have left, a
check its age. `seen` and `moved` are history of a check: which answers would
have been right since it began, and which tables have changed.

`Tracking` adds the e-mail that asks for both features and then has its log
(`InsertLog`), its visits (`Track`, `IncrementCount`, `ReadAndDispatch`,
`Fails`), retention, the next e-mail, and the end of the process (`Dies`) that a
goroutine on a request's returned context risks (`tracking_handler.go:38`).

## 3. What is checked

Bounds appear as constants; `CHECK_DEADLOCK FALSE` is set because each bounded
model comes to rest: all orders placed, all events announced, all requests of
the run made, the last tick reached.

| Run | Shows |
|---|---|
| `BillingConcurrent` | one order, two handlers, two channels, any order and repetition of notifications, failures, deaths, expiry, plan deletion: `PaidPlanBackedByCharge`, `LatestIsActive`, `ActivationsBounded`, `OnlyNotificationsUnpay`, `RenewalExtends` |
| `BillingCheckouts` | two orders by two checkouts at once, a handler, a profile edit, expiry, plan deletion, no failures: `InvoicesAccounted`, `DriftOnlyByStaleWrite` and, under fairness, `ChargedIsActivated` |
| `BillingLostActivation` | violation, see below |
| `EmailFaults` | one e-mail, every fault, the four attempts of the code: `TakenOncePerAttempt`, `SentOnlyRedone`, `ImplementsOutbox` |
| `EmailCrash` | two e-mails on one slot, timeouts, late senders, dying workers, cleanup, database up: `DoneMeansSent`, `GivenUpIsFailed` and, under fairness, `TasksEnd` |
| `WebhookFaults` | every fault, two events, an update, a deletion: `PostedOncePerAttempt`, `DoneMeansAccepted`, `SwitchedOffForCause` |
| `WebhookSlots` | three events, two slots, log cleanup: `FailuresAllCounted`, `DeactivatedInTime` |
| `WebhookEnds` | under fairness, with dying workers: each enqueued event is delivered or given up (`EventsEnd`) |
| `QuotaLimits` | two requests, failures, a change of period, six half days with a nightly task up to half a day late: `QuotaHolds`, `UsageOfThisPeriod`, `DailyWindowBounded` |
| `Accounts` | four overlapping requests of any kind, a founder, two newcomers: `DriftOnlyByOldProfile`, `LastActiveLost` |
| `Submission` | a message to two recipients, sent up to twice over SMTP or HTTP, while two requests create, verify and delete and the plan changes: `LimitSlack`, `VerifiedByOwnRecords`, `ServedInOrder`, `RevokedKeySendsOnce` |
| `Tracking` | e-mails that ask for both features, two overlapping updates of a plan, changes of plans, overrides or the subscription, and visits, two in all: `AnswerWasRight`, `CacheCatchesUp`, `PlanKeepsLastUpdate`, `EventsRunAhead` |

One run of each module also checks its `TypeOK`.

Why the bounds are enough to be interesting:

- Billing: the races need two requests on one order, or one request and the
  nightly task; two of each are there where they meet. Repeated notifications of
  one order renew the plan it has activated, so that `MaxOrders = 1` is enough for
  two renewals that read together; `MaxTime = 2` lets a plan end. `MaxUnacked = 2`
  lets a notification overtake another one, and, with repetition, any number be
  handled in the end; it is the bound on what is outstanding at once.
  `BillingConcurrent` has 2.0 million states, `BillingCheckouts` 450,000.
- E-mail and Webhooks: `EmailFaults` uses the retry number of the code (3); the
  other runs lower it, since the retry rule treats all numbers below the limit
  alike. `WebhookSlots` has more events than slots, so that the second round of
  attempts that the bound in `DeactivatedInTime` speaks of happens.
- `QuotaLimits` (10 million states) reaches the night that a late run makes the
  task skip and the one after it.
- `Accounts` (235,000): with one founder and two newcomers every way of
  `LastActiveLost` is taken: two requests race, and the others are what a race
  needs as its pretext, such as the promotion of a newcomer who then demotes.
- `Submission` (450,000): one of the names is verified without records; a domain
  may be deleted and added again under its name while a verification of the old
  one is under way (`MaxRows = 2`); the first of two recipients may have been
  served when a try fails, and the key revoked before its e-mail is enqueued.
- `Tracking` (3.4 million): `MaxDelay = 1` and `TTL = 1` let an answer be stored
  after the change it has missed, and expire; one plan suffices for two updates
  to overlap, for a deletion and for its end as the subscription's. `MCTracking`
  bounds changes and visits together by `MaxChanges = 2` (`Bounded`): two visits, so
  that one is counted between the increment and the read of the other, two
  changes, so that two updates overlap, or one of each. A visit writes nothing that
  a change reads or writes, and asks only what was granted when its e-mail was
  logged, so that more of both together would show nothing more.

### Where the code and what it says of itself disagree

`BillingLostActivation` checks a statement of the code's own messages that the
code breaks: the payment is committed as paid before the activation's
transaction. If that fails or the server dies in between, the repeated
notification takes "already paid; skipping duplicate subscription activation"
(`billing_service.go:387`) for granted, and the customer has paid for nothing.
It takes a failure: where nothing fails the statement is a theorem
(`LostOnlyByFaults`), in whatever order and however concurrently notifications are
handled, since the handler that saw "paid" first is still on its way to the
activation when the other one skips it.

The worlds the passing runs assume are narrower than the real one in places,
and on purpose, and some properties name the exceptions: beyond them the models
have behaviours that break the property, and so does the code.

- `InvoicesAccounted`: two checkouts at once both find no pending payment
  (`billing_service.go:180`) and make an invoice each, despite "to avoid duplicate
  invoices", and a query that fails is taken for an empty answer (`:187`). The
  property ties every invoice but one to such a checkout (`blind`); the run has the
  first kind, the theorem both. It counts the
  invoices whose page is kept in the row: a page whose UPDATE failed has been handed
  out all the same, and the next checkout does not find it (`:317`), and a late
  "pending" reopens an order that was canceled and replaced (`:366`, `undone`).
- `ActivationsBounded`: a capture and a settlement handled at once both pass the
  check on a status read earlier (`:340`, `:381`), and a late "pending" or a refund
  lets a "paid" that follows it pass. The bound is what is left of "each order
  once": as many activations as there are handlers, and again after each time a
  notification took the payment back.
- `RenewalExtends`: two renewals that read the same expiry (`:418`) extend it once,
  and a month is lost; the property excepts a request that another activation
  has overtaken since it read (`overtaken`), and no other.
- `DriftOnlyByStaleWrite` states exactly the two ways in which
  `users.current_plan_id` and the newest subscription part: an expired row
  revived under a newer one (`subscription_repo.go:252`), and a profile edit that
  writes back the plan it read (`user_repo.go:177`).
- `DriftOnlyByOldProfile` says the same of role and status: a suspension or a
  demotion is undone only by a profile edit that had read the row before
  (`user_repo.go:174`). `LastActiveLost` names the ways in which the last active
  super admin is lost: he suspends himself (`admin_service.go:182` exempts him), or
  is suspended, demoted or deleted by one who has stopped being an active super
  admin since he was read (`:227`; the status of the actor is never asked), or by a
  request that had found him without the role, or an old profile is written
  back. All of them happen.
- `RevokedKeySendsOnce`: a connection goes on with its key (`smtpserver/server.go:89`),
  and nothing looks the key up again but the foreign key of the log
  (`006_create_email_logs.up.sql:18`). An e-mail logged before the key was revoked is
  still enqueued; the property says that it is the only one.
- `DeactivatedInTime` needs an endpoint that answers: errors of the HTTP client
  are counted and returned before the check (`webhook_worker.go:79`).
- `QuotaHolds` and `LimitSlack` state the overshoot that two calls instead of one
  cost (`quota_service.go:71`, `:96`; `domain_service.go:82`), and
  `DailyWindowBounded` that a reset a little after midnight makes the next night
  skip (`subscription_repo.go:133`), but only one night.
- `AnswerWasRight` excepts failed reads, which the check takes for empty answers
  and caches (`feature_checker_service.go:63`, `:88`), and two tables that change
  under one check. `CacheCatchesUp` says how long a change may go unnoticed: the
  time to live and what a check takes.
- `PlanKeepsLastUpdate`: two updates of a plan may leave a mixture of both
  (`plan_repo.go:255`); the property says which.
- `EventsRunAhead`: the count in the event of an opened e-mail is at least one
  too many, for the log is read after the increment and one is added again
  (`tracking_service.go:54`).
- A pending payment stays when Midtrans refuses the transaction, although the
  comment says "Clean up: delete the pending payment" (`billing_service.go:311`),
  and an e-mail may leave whose Enqueue (`email_service.go:198`) or QUIT
  (`email_worker.go:333`) reported an error; `Outbox` promises no more.
- A webhook, domain or account deleted between a handler's write and its second
  read ends the process (`webhook_service.go:175`, `domain_service.go:203`,
  `auth_service.go:227`): the models have the step.

### Fairness

Safety runs assume none. `Billing!Fairness`: a request that was started goes on
(Go schedules every runnable goroutine), and Midtrans repeats a notification
until it gets a 200. `EmailPipeline!Fairness` and `Webhooks!Fairness`: handlers
go on, asynq hands a pending task to a free slot and its recoverer finds tasks
whose lease ran out. Weak fairness is enough, since nothing takes these steps
away for ever but the steps themselves. No fairness is assumed of the user, the
admin, time, faults, the SMTP server's or endpoint's answers, or restarts; in
particular, a send that outlived its deadline may stay for ever. The modules on
accounts, resources and features have no liveness property: their requests
either go on or are given up, and nothing waits for them. `CacheCatchesUp` is the
bounded form of "the cache becomes right", and needs no fairness but `MaxDelay`.

## 4. What is proved

The proofs assume the named assumptions of each module, which only type the
constants, tell markers such as `None` from data, and say that sets of
concurrent requests are finite where they are counted. They hold for all numbers
of users, orders, plans, rows, requests, recipients, e-mails, events, slots and
retries, and for every set of faults, except for those of the following theorems
that state a hypothesis. Each hypothesis is a condition on what may fail, true in
the passing run that checks the property, and needed: the model without it has
behaviours that break the property. No theorem assumes anything of the order or
the number of requests and notifications. (`PaidMeansActivated` is in no passing
run: the run on it is the violation without the hypothesis.)

| Theorem | Property | Assumes |
|---|---|---|
| `LostOnlyByFaults` | `PaidMeansActivated` | no faults |
| `DoneIsLogged` | `DoneMeansSent` | the database and Redis answer |
| `GivenUpIsLogged` | `GivenUpIsFailed` | the database answers |
| `FailuresCounted` | `FailuresAllCounted` | `NoneLost`: the database answers, no worker dies or restarts |
| `OffInTime` | `DeactivatedInTime` | `Undisturbed`: the same, the endpoint answers, no updates |

- `Billing_proofs`. `Typing` adds to `TypeOK` that a row an activation is about
  to write exists (the expiry only appends). `Funded` strengthens
  `PaidPlanBackedByCharge`: a notification that means "paid" belongs to an order
  that was charged, a handler past the status check holds the plan of such an
  order or a deleted one, a checkout past its INSERT has its row, a paid
  subscription has its order. Without the part about handlers it is not
  inductive: what a handler holds becomes a subscription later. `FundedFrame`
  collects what every step has to show. `AlwaysSubscribed` and
  `DriftHasTwoCauses` rest on `OthersLeaveSubs` (which steps can touch the
  subscription or the user's plan at all), `ExpiryEndsInFree` and
  `ActivationWrites`.
- `BillingOrders_proofs`. Five properties, each with the invariant it needs beside
  `Typing` and `Funded`. `Clean`: an order whose checkout is still between its
  INSERT and the UPDATE with the page is pending, without a page, not handed out,
  and in no notification, waiting or being handled, and no two checkouts work on
  the same one; so `CheckoutUndoesNothing`. `StatusSteps` lists the steps that
  write a status at all. `Room`, per order: while it is paid, its activations and
  the handlers that have still found it unpaid or are on the way to activate
  (`Awaited`) are at most the number of handlers times one more than the times it
  was taken back, for nobody new joins them (`NewlyAwaited`); while it is not, its
  activations and the handlers on the way (`Doing`) leave room for one more round.
  Without the handlers it is not inductive: the check looks at a copy. `Longer`: a
  renewal computed from an expiry that is still ahead, and not overtaken, ends after
  the newest subscription and is about to write that row. `Invoices`: open
  invoices, placed orders and checkouts that looked properly (`Sighted`) are
  together one more than the blind orders at most, and when they are that many,
  an open or coming invoice is newer than every order without a page (`Covered`),
  or a checkout is about to make it, so that the next one to look finds it; that a
  looking checkout is not blind means that nobody was under way. `Heeded`: a paid
  order has been activated, is being activated, or has lost its plan (`Settled`), and a handler that skips a second
  "paid" does so on an order settled when it was read; nothing in it depends on
  the order of notifications.
- `EmailPipeline_proofs`. `Sound` per e-mail: request, log, task and attempt are
  in step (`InOrder`), a step that says sent had its message taken (`Truthful`),
  and taken and late sends are bounded by retries and restarts, with one to spare
  while the present attempt has not sent (`Bounded`). `Elsewhere` moves an e-mail
  on when another one's step does not touch it. From it follow `NoExtraDuplicates`,
  `DoneIsTaken`, and, step by step, the refinement `PipelineImplementsOutbox`. What
  the log says is a second invariant, `Logged`, which follows from the first: a
  task delivered for the first time has nobody beside it who writes its log
  (`OnlyOnce`), an attempt past its failure has left the log failed
  (`FailureLogged`), one past its success has left it sent (`SuccessLogged`), the
  latter two as far as the database and Redis answer. It gives `DoneIsLogged`,
  `GivenUpIsLogged`, and, whatever fails, `SentStays`.
- `Webhooks_proofs`. The same shape, with `Justified` (an attempt about to switch
  off has seen the threshold, and the count never sinks: `NextGrows`), for
  `NoExtraPosts`, `DoneIsAccepted` and `OffForCause`. `OffInTime` holds under
  `Undisturbed`, a hypothesis of the theorem (no database, HTTP or worker
  failures, no restarts, no updates; section 3 says what happens otherwise). Its
  invariant `Overdue` bounds the failures by those attempts that have read a
  count below the threshold and those about to switch off. `FailuresCounted` holds
  with owners who edit and delete, since a column is written only by its own
  statement.
- `Quota_proofs`. `DayRoom` and `MonthRoom`: a counter plus the requests that
  have passed its check and not yet incremented is at most the limit plus the
  number of requests less one; `passed` is at most the counter (`Counted`), since
  a failed pipeline may count without letting through. `QuotaLimits` joins both.
  `BilledUsage` rests on `Billed`: the usage column and the requests whose UPDATE
  may still add to it what the period's count does not show (`Pending`: counted and
  not yet written, or begun in an earlier period) are at most that count and all
  requests; so a straggler that writes, or a new period that clears both, leaves
  the slack as it was. The
  sum over the days, `Total`, is a recursive function: what it does when one
  counter changes is shown from its defining equation along an interval, with the
  pigeonhole principle (`Upwards`) where the library's induction cannot be
  instantiated. `DailyWindow` relates the window's end to the midnights that have
  passed and to whether the nightly task is still under way (`Windows`).
- `Accounts_proofs`. `AccountTypes` carries the shape of every request's local
  state. `OneAccount` (the unique index is enough, though the check and the
  insertion are apart), `NilIsDeleted` and `OverridesBacked` are not run: they
  follow from what one statement does to the tables, for every number of users.
  `Drift` and `LastOne` take each write apart by who made it, with the invariant
  that a request keeps the standing it has read and that a request of a super
  admin found him to be one when it was checked (`Judged`).
- `Submission_proofs`. `Typed` adds to the types what the fields of a request or
  a session hold at each step. `RevokedSendsOnce` rests on `Silenced`: an e-mail
  counted as late belongs to a key that was made and is gone, its session is not
  about to enqueue under that key again, and so cannot be (`CreateLog` asks for the
  key, and `KeysAge`: none of the customer's requests brings one back). `InOrder`
  strengthens `ServedInOrder` by where a session is: while recipient `k` is being
  served, those before it are a copy ahead of those after. `OwnRecords` needs `Numbered` (the ID of a row being inserted belongs to
  nobody, and no verification is about it) beside `Proven` (a verdict, written or
  about to be, was earned): otherwise a slow verdict could meet a new row.
  `Limits` shows that `LimitSlack` is inductive with `Held` (the limit a request
  compares with is one of a plan): a request that passes the count makes the
  bound true again whatever was there before, and one that inserts turns a
  pending creation into a row (`SlackCounts`, `SlackInserts`, `SlackShrinks`).
- `Tracking_proofs`. `Typed`, then one invariant per theorem: `Counts` for
  `RunAhead` (what a visit was counted as is at most the count), `Edited` =
  `Wanted` and `Lasting` for `LastUpdate` (what the last update has still to
  enable, and whom the rest can come from), and for the two on the cache `Answers`:
  along the path of a check (`Path`: `Watched`, `Reads`, `Heading`) the answer it
  is heading for was right at some moment since it began, unless the history says
  why not, and whatever is cached or about to be is fresh enough (`Fresher`) to
  be gone or right when nothing has changed for `TTL + MaxDelay` ticks.

Every safety property that a passing run checks is stated by a theorem, invariants and
action properties alike. Only model-checked are the three liveness properties,
`ChargedIsActivated`, `TasksEnd` and `EventsEnd`: the installed provers have no
rule for fairness or for ENABLED, which it is defined by.

## 5. What is left out, and why

- *Data*: amounts, overage lines, invoice numbers, signatures, URLs, payloads,
  MIME, DKIM keys, record texts, passwords, names, prices. No property here tells
  two of them apart.
- *Several customers*, except in `Accounts`: no query of the other parts crosses
  users. Slots, which e-mails and events do share, are modelled.
- *Repeated increments*: go-redis may send the quota's pipeline again after a lost
  answer (`quota_service.go:101`) and count an e-mail twice; `Increment` counts at
  most once. The bounds here are upper bounds on what passed, which it cannot break.
- *One DNS verification* reads its domain twice and looks up three records in turn
  (`domain_service.go:162`, `:173`); `VerifyDNS` is one action. Records may be
  missed at will, and a deletion before the write is a step of its own.
- *SMTP partial success*: one attempt of the worker takes all recipients or none.
- *Redis TTLs* of the quota: the counters' keys live longer than the day and month
  they count.
- *The connection pool*: an activation holds a connection for its transaction and
  asks the same pool for another one (`billing_service.go:411`, `:418`); enough of
  them at once wait for each other. No statement of the repository is about it,
  and no property here shows it.
- *Suppression list*: the program only asks it; `CheckQuota` in `Submission` may
  refuse any recipient.
- *Analytics, logs, lists and histories* only read; *audit* records are written
  last, with errors dropped, and read by no decision.
- *CORS, validation, responses* are stateless; the rate limiter is registered on
  no route.
- *The payment simulator* is a developer's tool, *`cmd/api/docs`* is generated.
- *Wiring* (`cmd`, `config`, `routes.go`): its effects, slots, schedule,
  shutdown and death, are in the models.

## 6. Plan

Done, in order of importance: Billing, E-mail pipeline, Webhooks, Quota; then
Accounts, Resources and Submission, Features and Tracking; each with its types
and the safety properties that matter most proved. What is left:

1. Theorems: what the models below add.
2. A model of the connection pool, composed with the handlers of `Billing`:
   deadlock for as many activations as connections, liveness below.
3. Compositions: Quota and Billing (overage billed at checkout from usage that
   goes on), the pipeline and Webhooks on shared slots (in which order the events
   of an e-mail reach the endpoint), tracking events among them.
