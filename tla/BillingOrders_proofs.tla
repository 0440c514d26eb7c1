------------------------ MODULE BillingOrders_proofs ------------------------
(* Proofs about the orders of Billing, for any number of requests and any  *)
(* order, repetition and loss of notifications: that a checkout undoes no  *)
(* payment, how often an order is activated, that renewals extend unless   *)
(* overtaken, which checkouts account for a second open invoice, and that  *)
(* only faults lose an activation.                                         *)
EXTENDS Billing_proofs, WellFoundedInduction

----------------------------------------------------------------------------
(* An order whose payment page is still to be handed out is known to its   *)
(* checkout alone.                                                         *)

Placing(c)    == checkout[c].pc \in {"snap", "save"}
Working(h, o) == Busy(h) /\ handler[h].note.order = o

Untouched(o) ==
  /\ payments[o].status = "pending" /\ ~payments[o].url
  /\ o \notin handedOut
  /\ \A n \in unacked : n.order # o
  /\ \A h \in Handlers : ~Working(h, o)

Clean ==
  /\ \A c \in Checkouts : Placing(c) => Untouched(checkout[c].order)
  /\ \A c, d \in Checkouts :
       Placing(c) /\ Placing(d) /\ c # d => checkout[c].order # checkout[d].order

\* What the handlers are busy with; no step but Receive adds to it.
LEMMA NoNewWork ==
  ASSUME Typing, NEW h \in Handlers,
         \/ handler' = Idle(h)
         \/ HandlerStep(h) \/ HandlerFails(h) \/ HandlerDies(h)
  PROVE  \A g \in Handlers, o \in Orders : Working(g, o)' => Working(g, o)
<1>0. handler \in [Handlers -> HandlerState] BY DEF Typing, TypeOK
<1>1. CASE handler' = Idle(h)
  BY <1>0, <1>1, PaymentFacts DEF Idle, Working, Busy
<1>2. ASSUME NEW pc \in {"read", "pick", "apply"}, NEW e \in Nat, NEW w \in Nat,
             Advance(h, pc, e, w), Busy(h)
      PROVE  \A g \in Handlers, o \in Orders : Working(g, o)' => Working(g, o)
  BY <1>0, <1>2, AdvanceKeeps DEF Working, Busy
<1>3. CASE UpdateStatus(h)
  BY <1>1, <1>2, <1>3 DEF UpdateStatus, Respond, Never, Busy
<1>4. CASE ReadSubscription(h)
  <2>1. PICK e \in Nat : Advance(h, "pick", e, 0)
    <3>1. Latest \in Sub
      <4>1. subs \in Seq(Sub) /\ Len(subs) \in 1..Len(subs)
        BY EmptySeq, LenProperties DEF Typing, TypeOK
      <4> QED BY <4>1, ElementOfSeq DEF Latest
    <3>2. now \in Nat /\ Latest.expires \in Nat BY <3>1 DEF Typing, TypeOK, Sub
    <3>3. \A e \in Nat : e + Months(handler[h].seen.cycle) \in Nat BY DEF Months
    <3> QED BY <1>4, <3>2, <3>3 DEF ReadSubscription
  <2> QED BY <1>2, <1>4, <2>1 DEF ReadSubscription, Busy
<1>5. CASE PickRow(h)
  <2>1. handler[h].expires \in Nat /\ Len(subs) \in Nat
    BY <1>0, LenProperties DEF HandlerState, Typing, TypeOK
  <2> QED BY <1>2, <1>5, <2>1 DEF PickRow, Busy
<1>6. CASE RecordChannel(h) \/ ApplyPlan(h) \/ HandlerFails(h) \/ HandlerDies(h)
  BY <1>1, <1>6 DEF RecordChannel, ApplyPlan, HandlerFails, HandlerDies, Respond
<1> QED BY <1>1, <1>3, <1>4, <1>5, <1>6 DEF HandlerStep

\* What a notification's arrival makes of the handlers.
LEMMA Received ==
  ASSUME Typing, NEW h \in Handlers, NEW n \in unacked, Receive(h, n)
  PROVE  /\ ~Busy(h) /\ n \in Notification /\ n.order \in Orders
         /\ UNCHANGED <<now, db, checkout, ext, profile, hist>>
         /\ \/ handler' = handler /\ unacked' = unacked \ {n}
               /\ AlreadyPaid(payments[n.order], n)
            \/ /\ unacked' = unacked
               /\ \A g \in Handlers : g # h => handler'[g] = handler[g]
               /\ handler'[h].note = n /\ handler'[h].seen = payments[n.order]
               /\ handler'[h].pc = IF AlreadyPaid(payments[n.order], n)
                                   THEN "channel" ELSE "update"
<1> DEFINE pc == IF AlreadyPaid(payments[n.order], n) THEN "channel" ELSE "update"
           q == Started(pc, n, payments[n.order])
<1>0. handler \in [Handlers -> HandlerState] /\ n \in Notification
      /\ payments[n.order] \in Payment /\ n.order \in Orders
  BY DEF Typing, TypeOK, Notification
<1>1. q.pc = pc /\ q.note = n /\ q.seen = payments[n.order]
  BY <1>0, HandlerStarted
<1>2. UNCHANGED <<now, db, checkout, ext, profile, hist>> /\ ~Busy(h)
  BY DEF Receive
<1>3. \/ handler' = handler /\ unacked' = unacked \ {n} /\ AlreadyPaid(payments[n.order], n)
      \/ unacked' = unacked /\ handler' = [handler EXCEPT ![h] = q]
  BY DEF Receive
<1> HIDE DEF q
<1> QED BY <1>0, <1>1, <1>2, <1>3

LEMMA UntouchedKept ==
  ASSUME NEW o \in Orders, Untouched(o), o \notin handedOut',
         payments'[o].status = payments[o].status, payments'[o].url = payments[o].url,
         \A n \in unacked' : n \in unacked \/ n.order # o,
         \A h \in Handlers : Working(h, o)' => Working(h, o)
  PROVE  Untouched(o)'
BY DEF Untouched

LEMMA CleanKept ==
  ASSUME Clean,
         \A c \in Checkouts : Placing(c)' =>
           /\ Placing(c) /\ checkout'[c].order = checkout[c].order
           /\ Untouched(checkout[c].order)'
  PROVE  Clean'
BY DEF Clean

LEMMA PlacedOrder == Typing => \A c \in Checkouts : checkout[c].order \in Orders
BY DEF Typing, TypeOK, CheckoutState

\* A step that leaves the rows, what is handed out and the checkouts alone and
\* starts no work leaves the orders untouched.
LEMMA CleanElsewhere ==
  ASSUME Typing, Clean, UNCHANGED <<checkout, handedOut>>, unacked' \subseteq unacked,
         \A o \in Orders : /\ payments'[o].status = payments[o].status
                           /\ payments'[o].url = payments[o].url,
         \A g \in Handlers, o \in Orders : Working(g, o)' => Working(g, o)
  PROVE  Clean'
<1>1. ASSUME NEW c \in Checkouts, Placing(c)'
      PROVE  /\ Placing(c) /\ checkout'[c].order = checkout[c].order
             /\ Untouched(checkout[c].order)'
  <2>1. Placing(c) BY <1>1 DEF Placing
  <2>2. PICK o \in Orders : o = checkout[c].order BY PlacedOrder
  <2>3. Untouched(o) BY <2>1, <2>2 DEF Clean
  <2>4. Untouched(o)' BY <2>3, UntouchedKept DEF Untouched
  <2> QED BY <2>1, <2>2, <2>4
<1> QED BY <1>1, CleanKept

\* A handler writes to a row it works on, which is not an untouched one.
LEMMA CleanHandler ==
  ASSUME Typing, Clean, NEW h \in Handlers, Busy(h), NEW o \in Orders,
         o = handler[h].note.order, UNCHANGED <<checkout, handedOut>>,
         unacked' \subseteq unacked,
         \A q \in Orders : q # o => payments'[q] = payments[q],
         \A g \in Handlers, q \in Orders : Working(g, q)' => Working(g, q)
  PROVE  Clean'
<1>1. ASSUME NEW c \in Checkouts, Placing(c)'
      PROVE  /\ Placing(c) /\ checkout'[c].order = checkout[c].order
             /\ Untouched(checkout[c].order)'
  <2>1. Placing(c) BY <1>1 DEF Placing
  <2>2. PICK q \in Orders : q = checkout[c].order BY PlacedOrder
  <2>3. Untouched(q) BY <2>1, <2>2 DEF Clean
  <2>4. q # o BY <2>3 DEF Untouched, Working
  <2>5. Untouched(q)' BY <2>3, <2>4, UntouchedKept DEF Untouched
  <2> QED BY <2>1, <2>2, <2>5
<1> QED BY <1>1, CleanKept

LEMMA PaymentWritten ==
  ASSUME Typing, NEW o \in Orders, NEW s \in PaymentStatus, NEW d \in BOOLEAN,
         NEW u \in BOOLEAN, NEW m \in {"", "midtrans", "specific"},
         UpdatePayment(o, s, d, u, m)
  PROVE  /\ \A q \in Orders : q # o => payments'[q] = payments[q]
         /\ payments'[o].status = s
         /\ u => payments'[o].url
         /\ payments[o].url => payments'[o].url
         /\ ~u /\ payments'[o].url => payments[o].url
<1>1. payments \in [Orders -> Payment] BY DEF Typing, TypeOK
<1>2. payments' = [payments EXCEPT ![o] = Updated(payments[o], s, d, u, m)]
  BY DEF UpdatePayment
<1>3. /\ Updated(payments[o], s, d, u, m).status = s
      /\ u => Updated(payments[o], s, d, u, m).url
      /\ payments[o].url => Updated(payments[o], s, d, u, m).url
      /\ ~u /\ Updated(payments[o], s, d, u, m).url => payments[o].url
  <2>1. PICK r \in Payment : r = payments[o] BY <1>1
  <2>2. Updated(r, s, d, u, m).status = s BY DEF Payment, Updated
  <2>3. u => Updated(r, s, d, u, m).url BY DEF Payment, Updated
  <2>4. r.url => Updated(r, s, d, u, m).url BY DEF Payment, Updated
  <2>5. ~u /\ Updated(r, s, d, u, m).url => r.url BY DEF Payment, Updated
  <2> QED BY <2>1, <2>2, <2>3, <2>4, <2>5
<1> QED BY <1>1, <1>2, <1>3

\* The rows the notification handler writes.
LEMMA HandlerWrites ==
  ASSUME Typing, NEW h \in Handlers, RecordChannel(h) \/ UpdateStatus(h)
  PROVE  /\ handler[h].note \in Notification /\ handler[h].note.order \in Orders
         /\ \A q \in Orders : q # handler[h].note.order => payments'[q] = payments[q]
         /\ payments'[handler[h].note.order].status =
              IF handler[h].pc = "channel" THEN "paid" ELSE StatusOf(handler[h].note.kind)
         /\ UNCHANGED <<now, plans, subs, userPlan, checkout, ext, profile, activations,
                        overtaken, blind>>
<1>0. handler[h] \in HandlerState BY DEF Typing, TypeOK
<1>1. PICK n \in Notification : n = handler[h].note BY <1>0 DEF HandlerState
<1>2. /\ n.order \in Orders /\ StatusOf(n.kind) \in PaymentStatus /\ "paid" \in PaymentStatus
      /\ n.channel \in {"", "midtrans", "specific"}
      /\ handler[h].seen.paidAt \in BOOLEAN /\ (StatusOf(n.kind) = "paid") \in BOOLEAN
  BY <1>0, StatusTyped DEF Notification, HandlerState, Payment, PaymentStatus
<1>3. CASE RecordChannel(h)
  <2>1. UpdatePayment(n.order, "paid", handler[h].seen.paidAt, FALSE, n.channel)
    BY <1>1, <1>3 DEF RecordChannel
  <2>2. (\A q \in Orders : q # n.order => payments'[q] = payments[q])
        /\ payments'[n.order].status = "paid"
    BY <1>2, <2>1, PaymentWritten, Zenon
  <2> QED BY <1>1, <1>2, <1>3, <2>2 DEF RecordChannel, hist
<1>4. CASE UpdateStatus(h)
  <2>1. UpdatePayment(n.order, StatusOf(n.kind), StatusOf(n.kind) = "paid", FALSE, n.channel)
    BY <1>1, <1>4 DEF UpdateStatus
  <2>2. (\A q \in Orders : q # n.order => payments'[q] = payments[q])
        /\ payments'[n.order].status = StatusOf(n.kind)
    <3> DEFINE t == StatusOf(n.kind)
               d == t = "paid"
    <3>1. t \in PaymentStatus /\ d \in BOOLEAN /\ FALSE \in BOOLEAN BY <1>2
    <3>2. UpdatePayment(n.order, t, d, FALSE, n.channel) BY <2>1
    <3> HIDE DEF t, d
    <3>3. (\A q \in Orders : q # n.order => payments'[q] = payments[q])
          /\ payments'[n.order].status = t
      BY <1>2, <3>1, <3>2, PaymentWritten, Zenon
    <3> QED BY <3>3 DEF t
  <2> QED BY <1>1, <1>2, <1>4, <2>2 DEF UpdateStatus
<1> QED BY <1>3, <1>4

\* A notification neither saves nor loses a payment page.
LEMMA PageKept ==
  ASSUME Typing, NEW h \in Handlers, RecordChannel(h) \/ UpdateStatus(h), NEW q \in Orders
  PROVE  /\ payments[q].url => payments'[q].url
         /\ payments'[q].url => payments[q].url
<1>0. handler[h] \in HandlerState BY DEF Typing, TypeOK
<1>1. PICK n \in Notification : n = handler[h].note BY <1>0 DEF HandlerState
<1>2. PICK o \in Orders : o = n.order BY DEF Notification
<1>3. PICK s \in PaymentStatus, d \in BOOLEAN : UpdatePayment(o, s, d, FALSE, n.channel)
  <2>1. /\ StatusOf(n.kind) \in PaymentStatus /\ "paid" \in PaymentStatus
        /\ handler[h].seen.paidAt \in BOOLEAN /\ (StatusOf(n.kind) = "paid") \in BOOLEAN
    BY <1>0, StatusTyped DEF Notification, HandlerState, Payment, PaymentStatus
  <2> QED BY <1>1, <1>2, <2>1 DEF RecordChannel, UpdateStatus
<1>4. n.channel \in {"", "midtrans", "specific"} /\ FALSE \in BOOLEAN
  BY DEF Notification
<1>5. /\ \A p \in Orders : p # o => payments'[p] = payments[p]
      /\ payments[o].url => payments'[o].url
      /\ payments'[o].url => payments[o].url
  BY <1>3, <1>4, PaymentWritten, Zenon
<1>6. CASE q = o BY <1>5, <1>6, Zenon
<1>7. CASE q # o
  <2>1. payments'[q] = payments[q] BY <1>5, <1>7
  <2> QED BY <2>1, Zenon
<1> QED BY <1>6, <1>7

LEMMA CleanInit == Init => Clean
BY DEF Init, Clean, Placing, IdleCheckout

LEMMA CleanNext == Typing /\ Typing' /\ Funded /\ Clean /\ [Next]_vars => Clean'
<1> SUFFICES ASSUME Typing, Typing', Funded, Clean, [Next]_vars PROVE Clean'
  OBVIOUS
<1> USE DEF db, ext, hist
<1>0. /\ checkout \in [Checkouts -> CheckoutState] /\ payments \in [Orders -> Payment]
      /\ handler \in [Handlers -> HandlerState]
  BY DEF Typing, TypeOK
<1>1. ASSUME UNCHANGED <<checkout, handler, handedOut, unacked>>,
             \A o \in Orders : /\ payments'[o].status = payments[o].status
                               /\ payments'[o].url = payments[o].url
      PROVE  Clean'
  BY <1>1, CleanElsewhere DEF Working, Busy
\* A checkout that goes on with its order, or ends.
<1>2. ASSUME NEW c \in Checkouts, UNCHANGED <<handler, handedOut, unacked, payments>>,
             \A d \in Checkouts : Placing(d)' => /\ Placing(d)
                                                 /\ checkout'[d].order = checkout[d].order
      PROVE  Clean'
  <2>1. ASSUME NEW d \in Checkouts, Placing(d)' PROVE Untouched(checkout[d].order)'
    <3>1. PICK o \in Orders : o = checkout[d].order BY PlacedOrder
    <3>2. Untouched(o) BY <1>2, <2>1, <3>1 DEF Clean
    <3>3. Untouched(o)' BY <1>2, <3>2, UntouchedKept DEF Untouched, Working, Busy
    <3> QED BY <1>2, <2>1, <3>1, <3>3
  <2> QED BY <1>2, <2>1, CleanKept
<1>3. ASSUME NEW c \in Checkouts, ReuseInvoice(c) PROVE Clean'
  <2>1. PICK o \in Orders : payments[o].url /\ handedOut' = handedOut \cup {o}
    BY <1>3 DEF ReuseInvoice
  <2>2. UNCHANGED <<checkout, handler, unacked, payments>> BY <1>3 DEF ReuseInvoice
  <2>3. ASSUME NEW d \in Checkouts, Placing(d)'
        PROVE  /\ Placing(d) /\ checkout'[d].order = checkout[d].order
               /\ Untouched(checkout[d].order)'
    <3>1. Placing(d) BY <2>2, <2>3 DEF Placing
    <3>2. PICK q \in Orders : q = checkout[d].order BY PlacedOrder
    <3>3. Untouched(q) BY <3>1, <3>2 DEF Clean
    <3>4. Untouched(q)' BY <2>1, <2>2, <3>3, UntouchedKept DEF Untouched, Working, Busy
    <3> QED BY <2>2, <3>1, <3>2, <3>4
  <2> QED BY <2>3, CleanKept
<1>4. ASSUME NEW c \in Checkouts, NEW p \in plans, NEW y \in Cycles, StartInvoice(c, p, y)
      PROVE  Clean'
  <2>1. PICK b \in BOOLEAN : Starting(c, p, y, b)
    BY <1>4 DEF StartInvoice, OthersUnderWay
  <2>2. \A d \in Checkouts : d # c => checkout'[d] = checkout[d]
    BY <1>0, <2>1 DEF Starting
  <2>3. ~Placing(c)' BY <1>0, <2>1 DEF Starting, Placing
  <2> QED BY <1>2, <1>4, <2>2, <2>3 DEF StartInvoice, Placing
<1>5. ASSUME NEW c \in Checkouts, SnapAccepts(c) \/ SnapFails(c) \/ CheckoutDies(c) PROVE Clean'
  BY <1>0, <1>2, <1>5, PaymentFacts DEF SnapAccepts, SnapFails, CheckoutDies, Placing, CheckoutState
<1>6. ASSUME NEW c \in Checkouts, CreatePayment(c) PROVE Clean'
  <2>1. CASE checkout[c].plan \in plans
    <3> DEFINE row == NewPayment(checkout[c].plan, checkout[c].cycle)
    <3>1. PICK o \in Orders \ Existing :
            /\ payments' = [payments EXCEPT ![o] = row]
            /\ checkout' = [checkout EXCEPT ![c] = Placed(checkout[c], o)]
      BY <1>6, <2>1 DEF CreatePayment
    <3>2. row.status = "pending" /\ ~row.url
      BY DEF NewPayment, NoPayment
    <3> HIDE DEF row
    <3>3. Placed(checkout[c], o).order = o BY <1>0, <3>1, CheckoutPlaced
    <3>4. /\ payments'[o].status = "pending" /\ ~payments'[o].url
          /\ \A q \in Orders : q # o => payments'[q] = payments[q]
          /\ checkout'[c].order = o /\ \A d \in Checkouts : d # c => checkout'[d] = checkout[d]
      BY <1>0, <3>1, <3>2, <3>3
    <3>5. ~Exists(o) /\ UNCHANGED <<handler, handedOut, unacked>>
      BY <1>6, <3>1 DEF CreatePayment, Exists, Existing
    <3>6. Untouched(o)'
      BY <3>4, <3>5 DEF Untouched, Working, Busy, Funded, NoteOK, HandlerOK
    <3>7. ASSUME NEW d \in Checkouts, d # c, Placing(d)'
          PROVE  /\ Placing(d) /\ checkout'[d].order # o /\ checkout'[d].order = checkout[d].order
                 /\ Untouched(checkout[d].order)'
      <4>1. Placing(d) /\ checkout'[d] = checkout[d] BY <3>4, <3>7 DEF Placing
      <4>2. PICK q \in Orders : q = checkout[d].order BY PlacedOrder
      <4>3. Untouched(q) BY <4>1, <4>2 DEF Clean
      <4>4. q # o BY <3>5, <4>3 DEF Untouched, Exists
      <4>5. Untouched(q)'
        BY <3>4, <3>5, <4>3, <4>4, UntouchedKept DEF Untouched, Working, Busy
      <4> QED BY <4>1, <4>2, <4>4, <4>5
    <3> QED BY <3>4, <3>6, <3>7 DEF Clean
  <2>2. CASE checkout[c].plan \notin plans
    <3>1. checkout' = [checkout EXCEPT ![c] = IdleCheckout] /\ payments' = payments
          /\ UNCHANGED <<handler, handedOut, unacked>>
      BY <1>6, <2>2 DEF CreatePayment
    <3> QED BY <1>0, <1>2, <3>1, PaymentFacts DEF Placing
  <2> QED BY <2>1, <2>2
<1>7. ASSUME NEW c \in Checkouts, SaveRedirectURL(c) PROVE Clean'
  <2>1. PICK o \in Orders : o = checkout[c].order BY PlacedOrder
  <2>2. \A q \in Orders : q # o => payments'[q] = payments[q]
    <3>1. CASE UpdatePayment(o, "pending", FALSE, TRUE, "")
      BY <3>1, PaymentWritten, Zenon DEF PaymentStatus
    <3> QED BY <1>7, <2>1, <3>1 DEF SaveRedirectURL
  <2>3. /\ handedOut' = handedOut \cup {o} /\ UNCHANGED <<handler, unacked>>
        /\ ~Placing(c)' /\ Placing(c)
        /\ \A d \in Checkouts : d # c => checkout'[d] = checkout[d]
    BY <1>0, <1>7, <2>1, PaymentFacts DEF SaveRedirectURL, Placing
  <2>4. ASSUME NEW d \in Checkouts, Placing(d)'
        PROVE  /\ Placing(d) /\ checkout'[d].order = checkout[d].order
               /\ Untouched(checkout[d].order)'
    <3>1. d # c /\ Placing(d) /\ checkout'[d] = checkout[d] BY <2>3, <2>4 DEF Placing
    <3>2. PICK q \in Orders : q = checkout[d].order BY PlacedOrder
    <3>3. Untouched(q) /\ q # o BY <2>1, <2>3, <3>1, <3>2 DEF Clean
    <3>4. Untouched(q)' BY <2>2, <2>3, <3>3, UntouchedKept DEF Untouched, Working, Busy
    <3> QED BY <3>1, <3>2, <3>4
  <2> QED BY <2>4, CleanKept
<1>8. ASSUME NEW o \in Orders, NEW k \in MidtransState, NEW ch \in Channels,
             MidtransMoves(o, k, ch)
      PROVE  Clean'
  <2>1. /\ unacked' = unacked \cup {[order |-> o, kind |-> k, channel |-> ch]}
        /\ o \in handedOut /\ UNCHANGED <<checkout, handler, handedOut, payments>>
    BY <1>8 DEF MidtransMoves
  <2>2. ASSUME NEW d \in Checkouts, Placing(d)'
        PROVE  /\ Placing(d) /\ checkout'[d].order = checkout[d].order
               /\ Untouched(checkout[d].order)'
    <3>1. Placing(d) BY <2>1, <2>2 DEF Placing
    <3>2. PICK q \in Orders : q = checkout[d].order BY PlacedOrder
    <3>3. Untouched(q) BY <3>1, <3>2 DEF Clean
    <3>4. Untouched(q)' BY <2>1, <3>3, UntouchedKept DEF Untouched, Working, Busy
    <3> QED BY <2>1, <3>1, <3>2, <3>4
  <2> QED BY <2>2, CleanKept
<1>9. ASSUME NEW h \in Handlers, NEW n \in unacked, Receive(h, n) PROVE Clean'
  <2>1. /\ UNCHANGED <<checkout, handedOut, payments>> /\ unacked' \subseteq unacked
        /\ \A g \in Handlers, o \in Orders : Working(g, o)' => Working(g, o) \/ o = n.order
    BY <1>9, Received DEF Working, Busy
  <2>2. ASSUME NEW d \in Checkouts, Placing(d)'
        PROVE  /\ Placing(d) /\ checkout'[d].order = checkout[d].order
               /\ Untouched(checkout[d].order)'
    <3>1. Placing(d) BY <2>1, <2>2 DEF Placing
    <3>2. PICK q \in Orders : q = checkout[d].order BY PlacedOrder
    <3>3. Untouched(q) BY <3>1, <3>2 DEF Clean
    <3>4. q # n.order BY <3>3 DEF Untouched
    <3>5. Untouched(q)' BY <2>1, <3>3, <3>4, UntouchedKept DEF Untouched
    <3> QED BY <2>1, <3>1, <3>2, <3>5
  <2> QED BY <2>2, CleanKept
<1>10. ASSUME NEW h \in Handlers, RecordChannel(h) \/ UpdateStatus(h) PROVE Clean'
  <2>1. PICK o \in Orders : o = handler[h].note.order BY <1>10, HandlerWrites
  <2>2. Busy(h) /\ unacked' \subseteq unacked
    BY <1>10 DEF RecordChannel, UpdateStatus, Respond, Busy
  <2>3. \A g \in Handlers, q \in Orders : Working(g, q)' => Working(g, q)
    BY <1>10, NoNewWork DEF HandlerStep
  <2> QED BY <1>10, <2>1, <2>2, <2>3, HandlerWrites, CleanHandler
<1>11. ASSUME NEW h \in Handlers,
              ReadSubscription(h) \/ PickRow(h) \/ ApplyPlan(h) \/ HandlerFails(h) \/ HandlerDies(h)
       PROVE  Clean'
  <2>1. UNCHANGED <<checkout, handedOut, payments>> /\ unacked' \subseteq unacked
    BY <1>11 DEF ReadSubscription, PickRow, ApplyPlan, HandlerFails, HandlerDies, Respond
  <2>2. \A g \in Handlers, q \in Orders : Working(g, q)' => Working(g, q)
    BY <1>11, NoNewWork DEF HandlerStep
  <2> QED BY <2>1, <2>2, CleanElsewhere
<1>12. ASSUME NEW p \in Plans, DeletePlan(p) PROVE Clean'
  <2>1. \A o \in Orders : /\ payments'[o].status = payments[o].status
                          /\ payments'[o].url = payments[o].url
    BY <1>0, <1>12 DEF DeletePlan, Orphaned, Payment
  <2> QED BY <1>1, <1>12, <2>1 DEF DeletePlan
<1>13. ASSUME NEW f \in Profiles, ReadProfile(f) \/ WriteProfile(f) PROVE Clean'
  BY <1>1, <1>13 DEF ReadProfile, WriteProfile
<1>14. CASE ExpireEnded \/ Tick \/ UNCHANGED vars
  BY <1>1, <1>14 DEF ExpireEnded, Tick, vars
<1> QED
  BY <1>3, <1>4, <1>5, <1>6, <1>7, <1>8, <1>9, <1>10, <1>11, <1>12, <1>13, <1>14
     DEF Next, CheckoutStep, HandlerStep

Sound == Typing /\ Funded /\ Clean

LEMMA SoundInit == Init => Sound
BY TypingInit, FundedInit, CleanInit DEF Sound

LEMMA SoundNext == Sound /\ [Next]_vars => Sound'
BY TypingNext, FundedNext, CleanNext DEF Sound

LEMMA Soundness == Spec => []Sound
BY SoundInit, SoundNext, PTL DEF Spec

----------------------------------------------------------------------------
(* The status of an order that exists is written by the notification       *)
(* handler alone.                                                          *)

LEMMA StatusSteps ==
  ASSUME Sound, [Next]_vars, \A h \in Handlers : ~RecordChannel(h) /\ ~UpdateStatus(h),
         NEW o \in Orders
  PROVE  IF Exists(o) THEN payments'[o].status = payments[o].status
                      ELSE payments'[o].status \in {"none", "pending"}
<1> DEFINE Goal == IF Exists(o) THEN payments'[o].status = payments[o].status
                                ELSE payments'[o].status \in {"none", "pending"}
<1> USE DEF db, ext, hist
<1>0. /\ Typing /\ Funded /\ Clean
      /\ checkout \in [Checkouts -> CheckoutState] /\ payments \in [Orders -> Payment]
  BY DEF Sound, Typing, TypeOK
<1>1. CASE UNCHANGED payments
  BY <1>1 DEF Exists
<1>2. ASSUME NEW c \in Checkouts, CreatePayment(c) PROVE Goal
  <2>1. CASE checkout[c].plan \in plans
    <3> DEFINE row == NewPayment(checkout[c].plan, checkout[c].cycle)
    <3>1. PICK q \in Orders \ Existing : payments' = [payments EXCEPT ![q] = row]
      BY <1>2, <2>1 DEF CreatePayment
    <3>2. row.status = "pending" BY DEF NewPayment, NoPayment
    <3> HIDE DEF row
    <3> QED BY <1>0, <3>1, <3>2 DEF Existing, Exists
  <2> QED BY <1>1, <1>2, <2>1 DEF CreatePayment
<1>3. ASSUME NEW c \in Checkouts, SaveRedirectURL(c) PROVE Goal
  <2>1. PICK q \in Orders : q = checkout[c].order BY <1>0, PlacedOrder
  <2>2. payments[q].status = "pending"
    BY <1>0, <1>3, <2>1 DEF SaveRedirectURL, Clean, Placing, Untouched
  <2>3. CASE UpdatePayment(q, "pending", FALSE, TRUE, "")
    <3>1. payments'[q].status = "pending" /\ \A r \in Orders : r # q => payments'[r] = payments[r]
      BY <1>0, <2>3, PaymentWritten, Zenon DEF PaymentStatus
    <3> QED BY <2>2, <3>1 DEF Exists
  <2> QED BY <1>1, <1>3, <2>1, <2>3 DEF SaveRedirectURL
<1>4. ASSUME NEW p \in Plans, DeletePlan(p) PROVE Goal
  <2>1. payments'[o].status = payments[o].status
    BY <1>0, <1>4 DEF DeletePlan, Orphaned, Payment
  <2> QED BY <1>0, <2>1 DEF Exists
<1>5. ASSUME NEW c \in Checkouts, NEW p \in plans, NEW y \in Cycles,
             \/ ReuseInvoice(c) \/ StartInvoice(c, p, y) \/ SnapAccepts(c) \/ SnapFails(c)
             \/ CheckoutDies(c)
      PROVE  UNCHANGED payments
  BY <1>5 DEF ReuseInvoice, StartInvoice, SnapAccepts, SnapFails, CheckoutDies
<1>6. ASSUME NEW c \in Checkouts,
             ReuseInvoice(c) \/ SnapAccepts(c) \/ SnapFails(c) \/ CheckoutDies(c)
      PROVE  UNCHANGED payments
  BY <1>6 DEF ReuseInvoice, SnapAccepts, SnapFails, CheckoutDies
<1>7. ASSUME NEW h \in Handlers,
             \/ \E n \in unacked : Receive(h, n)
             \/ ReadSubscription(h) \/ PickRow(h) \/ ApplyPlan(h)
             \/ HandlerFails(h) \/ HandlerDies(h)
      PROVE  UNCHANGED payments
  BY <1>7 DEF Receive, ReadSubscription, PickRow, ApplyPlan, HandlerFails, HandlerDies
<1>8. ASSUME \/ \E q \in Orders, k \in MidtransState, ch \in Channels : MidtransMoves(q, k, ch)
             \/ \E f \in Profiles : ReadProfile(f) \/ WriteProfile(f)
             \/ ExpireEnded \/ Tick \/ UNCHANGED vars
      PROVE  UNCHANGED payments
  BY <1>8 DEF MidtransMoves, ReadProfile, WriteProfile, ExpireEnded, Tick, vars
<1> QED
  BY <1>1, <1>2, <1>3, <1>4, <1>5, <1>6, <1>7, <1>8 DEF Next, CheckoutStep, HandlerStep

\* Whatever fails, and however notifications are delivered: the UPDATE to
\* pending with which a checkout saves its payment page never meets an order
\* that has been paid meanwhile.
THEOREM CheckoutUndoesNothing == Spec => OnlyNotificationsUnpay
<1>1. ASSUME Sound, [Next]_vars, NEW o \in Orders,
             payments[o].status = "paid", payments'[o].status # "paid"
      PROVE  \E h \in Handlers : handler[h].pc = "update" /\ handler[h].note.order = o
  <2>1. PICK h \in Handlers : RecordChannel(h) \/ UpdateStatus(h)
    BY <1>1, StatusSteps DEF Exists
  <2>2. Typing BY <1>1 DEF Sound
  <2>3. o = handler[h].note.order /\ handler[h].pc # "channel"
    BY <1>1, <2>1, <2>2, HandlerWrites
  <2>4. UpdateStatus(h) BY <2>1, <2>3 DEF RecordChannel
  <2> QED BY <2>3, <2>4 DEF UpdateStatus
<1>2. Sound /\ [Next]_vars =>
        [\A o \in Orders : payments[o].status = "paid" /\ payments'[o].status # "paid" =>
           \E h \in Handlers : handler[h].pc = "update" /\ handler[h].note.order = o]_vars
  BY <1>1
<1> QED BY <1>2, Soundness, PTL DEF Spec, OnlyNotificationsUnpay

----------------------------------------------------------------------------
(* What a step makes of the notification requests.                         *)

Activating(h) == handler[h].pc \in {"read", "pick", "apply"}

LEMMA AdvancedFields ==
  ASSUME Typing, NEW h \in Handlers, NEW pc, NEW e, NEW w, Advance(h, pc, e, w)
  PROVE  /\ handler'[h].pc = pc /\ handler'[h].expires = e /\ handler'[h].row = w
         /\ handler'[h].seen = handler[h].seen
<1>1. handler \in [Handlers -> HandlerState] BY DEF Typing, TypeOK
<1>2. handler'[h] = Advanced(handler[h], pc, e, w) BY <1>1 DEF Advance
<1> QED BY <1>1, <1>2 DEF Advanced, HandlerState

\* What a step makes of the local state of one handler.
LEMMA OwnStep ==
  ASSUME Typing, [Next]_vars, NEW g \in Handlers
  PROVE  \/ handler'[g] = handler[g]
         \/ \E n \in unacked : Receive(g, n)
         \/ HandlerStep(g)
         \/ Faults /\ handler'[g] = IdleHandler
<1> USE DEF db, ext, hist
<1>0. handler \in [Handlers -> HandlerState] BY DEF Typing, TypeOK
<1>1. ASSUME NEW h \in Handlers, h # g, handler' = Idle(h) PROVE handler'[g] = handler[g]
  BY <1>0, <1>1 DEF Idle
<1>2. ASSUME NEW h \in Handlers, h # g, NEW pc, NEW e, NEW w, Advance(h, pc, e, w)
      PROVE  handler'[g] = handler[g]
  BY <1>0, <1>2 DEF Advance
<1>3. ASSUME NEW h \in Handlers, h # g, HandlerStep(h) PROVE handler'[g] = handler[g]
  BY <1>1, <1>2, <1>3
     DEF HandlerStep, RecordChannel, UpdateStatus, ReadSubscription, PickRow, ApplyPlan, Respond
<1>4. ASSUME NEW h \in Handlers, h # g, NEW n \in unacked, Receive(h, n)
      PROVE  handler'[g] = handler[g]
  BY <1>4, Received
<1>5. ASSUME NEW c \in Checkouts, CheckoutStep(c) PROVE handler' = handler
  BY <1>5 DEF CheckoutStep, ReuseInvoice, StartInvoice, CreatePayment, SnapAccepts, SnapFails,
              SaveRedirectURL, CheckoutDies
<1>6. ASSUME \/ \E o \in Orders, k \in MidtransState, ch \in Channels : MidtransMoves(o, k, ch)
             \/ \E f \in Profiles : ReadProfile(f) \/ WriteProfile(f)
             \/ ExpireEnded \/ Tick \/ UNCHANGED vars
             \/ \E p \in Plans : DeletePlan(p)
      PROVE  handler' = handler
  BY <1>6 DEF MidtransMoves, ReadProfile, WriteProfile, ExpireEnded, Tick, DeletePlan, vars
<1>7. ASSUME NEW h \in Handlers, HandlerFails(h) \/ HandlerDies(h)
      PROVE  handler'[g] = handler[g] \/ (Faults /\ handler'[g] = IdleHandler)
  <2>1. Faults /\ handler' = Idle(h) BY <1>7 DEF HandlerFails, HandlerDies, Respond
  <2>2. CASE h = g
    <3>1. handler'[g] = IdleHandler BY <1>0, <2>1, <2>2 DEF Idle
    <3> QED BY <2>1, <3>1, Zenon
  <2>3. CASE h # g
    <3>1. handler'[g] = handler[g] BY <1>1, <2>1, <2>3
    <3> QED BY <3>1
  <2> QED BY <2>2, <2>3
<1> QED BY <1>3, <1>4, <1>5, <1>6, <1>7 DEF Next

\* What the handler's own steps lead to.
LEMMA OwnProgress ==
  ASSUME Typing, NEW h \in Handlers, HandlerStep(h)
  PROVE  \/ handler'[h].pc = "idle"
         \/ /\ Activating(h)' /\ handler'[h].note = handler[h].note
            /\ handler'[h].seen = handler[h].seen
<1>0. handler \in [Handlers -> HandlerState] BY DEF Typing, TypeOK
<1>1. CASE handler' = Idle(h)
  BY <1>0, <1>1, PaymentFacts DEF Idle
<1>2. ASSUME NEW pc \in {"read", "pick", "apply"}, NEW e, NEW w, Advance(h, pc, e, w)
      PROVE  /\ Activating(h)' /\ handler'[h].note = handler[h].note
             /\ handler'[h].seen = handler[h].seen
  <2>1. handler'[h] = Advanced(handler[h], pc, e, w) BY <1>0, <1>2 DEF Advance
  <2> QED BY <1>0, <2>1 DEF Advanced, HandlerState, Activating
<1> QED
  BY <1>1, <1>2
     DEF HandlerStep, RecordChannel, UpdateStatus, ReadSubscription, PickRow, ApplyPlan, Respond

\* Activations are counted by the transaction that makes them.
LEMMA OnlyApplyCounts ==
  ASSUME [Next]_vars, \A h \in Handlers : ~ApplyPlan(h)
  PROVE  activations' = activations
<1> USE DEF db, ext, hist
<1>1. ASSUME NEW c \in Checkouts, CheckoutStep(c) PROVE activations' = activations
  BY <1>1 DEF CheckoutStep, ReuseInvoice, StartInvoice, CreatePayment, SnapAccepts, SnapFails,
              SaveRedirectURL, CheckoutDies
<1>2. ASSUME NEW h \in Handlers,
             \/ \E n \in unacked : Receive(h, n)
             \/ RecordChannel(h) \/ UpdateStatus(h) \/ ReadSubscription(h) \/ PickRow(h)
             \/ HandlerFails(h) \/ HandlerDies(h)
      PROVE  activations' = activations
  BY <1>2 DEF Receive, RecordChannel, UpdateStatus, ReadSubscription, PickRow, HandlerFails,
              HandlerDies
<1>3. ASSUME \/ \E o \in Orders, k \in MidtransState, ch \in Channels : MidtransMoves(o, k, ch)
             \/ \E f \in Profiles : ReadProfile(f) \/ WriteProfile(f)
             \/ ExpireEnded \/ Tick \/ UNCHANGED vars
             \/ \E p \in Plans : DeletePlan(p)
      PROVE  activations' = activations
  BY <1>3 DEF MidtransMoves, ReadProfile, WriteProfile, ExpireEnded, Tick, DeletePlan, vars
<1> QED BY <1>1, <1>2, <1>3 DEF Next, HandlerStep

----------------------------------------------------------------------------
(* How often an order is activated.  Each notification request that awaits *)
(* an activation is counted before it makes it.                            *)

Active(h, o) == Activating(h) /\ handler[h].note.order = o
Await(h, o)  == \/ Active(h, o)
                \/ /\ handler[h].pc = "update" /\ handler[h].note.order = o
                   /\ StatusOf(handler[h].note.kind) = "paid"
Doing(o)   == {h \in Handlers : Active(h, o)}
Awaited(o) == {h \in Handlers : Await(h, o)}
Paid(o)    == payments[o].status = "paid"

RoomAt(o) ==
  IF Paid(o)
  THEN activations[o] + Cardinality(Awaited(o)) <= Cardinality(Handlers) * (1 + undone[o])
  ELSE activations[o] + Cardinality(Doing(o)) <= Cardinality(Handlers) * undone[o]
Room == \A o \in Orders : RoomAt(o)

\* Only the UPDATE to "paid" starts an activation, and only while the row is
\* not paid does a request set out for it.
LEMMA NewlyAwaited ==
  ASSUME Sound, [Next]_vars, NEW o \in Orders, NEW g \in Handlers
  PROVE  /\ Active(g, o)' => Active(g, o) \/ (Await(g, o) /\ Paid(o)')
         /\ Await(g, o)' => Await(g, o) \/ ~Paid(o)
<1>0. Typing /\ handler \in [Handlers -> HandlerState] BY DEF Sound, Typing, TypeOK
<1>1. CASE handler'[g] = handler[g]
  BY <1>1 DEF Active, Await, Activating
<1>2. ASSUME NEW n \in unacked, Receive(g, n), handler'[g] # handler[g]
      PROVE  ~Active(g, o)' /\ (Await(g, o)' => ~Paid(o))
  <2>1. /\ handler'[g].note = n
        /\ handler'[g].pc = IF AlreadyPaid(payments[n.order], n) THEN "channel" ELSE "update"
    BY <1>0, <1>2, Received
  <2>2. ~Active(g, o)' BY <2>1 DEF Active, Activating
  <2>3. ASSUME Await(g, o)' PROVE ~Paid(o)
    <3>1. handler'[g].pc = "update" /\ n.order = o /\ StatusOf(n.kind) = "paid"
      BY <2>1, <2>2, <2>3 DEF Await
    <3> QED BY <2>1, <3>1 DEF AlreadyPaid, Paid
  <2> QED BY <2>2, <2>3
<1>3. CASE HandlerStep(g)
  <2>1. CASE handler'[g].pc = "idle"
    BY <2>1 DEF Active, Await, Activating
  <2>2. CASE /\ Activating(g)' /\ handler'[g].note = handler[g].note
             /\ handler'[g].seen = handler[g].seen
    <3>1. CASE UpdateStatus(g)
      <4>1. StatusOf(handler[g].note.kind) = "paid"
        <5>1. handler' # Idle(g)
          BY <1>0, <2>2, PaymentFacts DEF Idle, Activating
        <5> QED BY <3>1, <5>1 DEF UpdateStatus, Respond
      <4>2. handler[g].pc = "update" BY <3>1 DEF UpdateStatus
      <4>3. payments'[handler[g].note.order].status = "paid"
        BY <1>0, <3>1, <4>1, <4>2, HandlerWrites
      <4> QED BY <2>2, <4>1, <4>2, <4>3 DEF Active, Await, Paid, Activating
    <3>2. CASE ReadSubscription(g) \/ PickRow(g) \/ ApplyPlan(g)
      <4>1. Activating(g) BY <3>2 DEF ReadSubscription, PickRow, ApplyPlan, Activating
      <4> QED BY <2>2, <4>1 DEF Active, Await, Activating
    <3>3. CASE RecordChannel(g)
      <4>1. handler' = Idle(g) BY <3>3 DEF RecordChannel, Respond
      <4> QED BY <1>0, <2>2, <4>1, PaymentFacts DEF Idle, Activating
    <3> QED BY <1>3, <3>1, <3>2, <3>3 DEF HandlerStep
  <2> QED BY <1>0, <1>3, <2>1, <2>2, OwnProgress
<1>4. CASE handler'[g] = IdleHandler
  BY <1>4, PaymentFacts DEF Active, Await, Activating
<1> QED BY <1>0, <1>1, <1>2, <1>3, <1>4, OwnStep

\* An activation ends the request that makes it.
LEMMA Counted ==
  ASSUME Sound, [Next]_vars, NEW o \in Orders
  PROVE  \/ activations'[o] = activations[o]
         \/ /\ activations'[o] = activations[o] + 1
            /\ \E h \in Handlers : Active(h, o) /\ Await(h, o) /\ ~Active(h, o)' /\ ~Await(h, o)'
<1>0. /\ Typing /\ handler \in [Handlers -> HandlerState] /\ activations \in [Orders -> Nat]
  BY DEF Sound, Typing, TypeOK
<1>1. CASE \A h \in Handlers : ~ApplyPlan(h)
  BY <1>1, OnlyApplyCounts
<1>2. ASSUME NEW h \in Handlers, ApplyPlan(h), activations'[o] # activations[o]
      PROVE  /\ activations'[o] = activations[o] + 1
             /\ Active(h, o) /\ Await(h, o) /\ ~Active(h, o)' /\ ~Await(h, o)'
  <2>1. activations' = [activations EXCEPT ![handler[h].note.order] = @ + 1]
    BY <1>2 DEF ApplyPlan
  <2>2. handler[h].note.order = o /\ activations'[o] = activations[o] + 1
    BY <1>0, <1>2, <2>1
  <2>3. handler'[h].pc = "idle"
    BY <1>0, <1>2, PaymentFacts DEF ApplyPlan, Respond, Idle
  <2> QED BY <1>2, <2>2, <2>3 DEF ApplyPlan, Active, Await, Activating
<1> QED BY <1>1, <1>2

\* A payment taken back is counted, and nothing else is.
LEMMA UndoneSteps ==
  ASSUME Sound, [Next]_vars, NEW o \in Orders
  PROVE  /\ undone'[o] \in {undone[o], undone[o] + 1}
         /\ Paid(o) /\ ~Paid(o)' => undone'[o] = undone[o] + 1
         /\ payments[o].status # "pending" /\ payments'[o].status = "pending" /\ Exists(o)
              => undone'[o] = undone[o] + 1
<1> USE DEF db, ext, hist
<1>0. Typing /\ undone \in [Orders -> Nat] BY DEF Sound, Typing, TypeOK
<1>1. ASSUME NEW h \in Handlers, UpdateStatus(h)
      PROVE  /\ undone'[o] \in {undone[o], undone[o] + 1}
             /\ TakenBack(payments[o].status, payments'[o].status) => undone'[o] = undone[o] + 1
  <2> DEFINE q == handler[h].note.order
             t == StatusOf(handler[h].note.kind)
             back == TakenBack(payments[q].status, t)
  <2>1. undone' = IF back THEN [undone EXCEPT ![q] = @ + 1] ELSE undone
    BY <1>1 DEF UpdateStatus
  <2>2. /\ q \in Orders /\ payments'[q].status = t
        /\ \A r \in Orders : r # q => payments'[r] = payments[r]
    BY <1>0, <1>1, HandlerWrites DEF UpdateStatus
  <2>3. TakenBack(payments[o].status, payments'[o].status) => o = q /\ back
    BY <2>2 DEF TakenBack
  <2> HIDE DEF q, t, back
  <2>4. undone'[o] \in {undone[o], undone[o] + 1} BY <1>0, <2>1, <2>2
  <2> QED BY <1>0, <2>1, <2>2, <2>3, <2>4
<1>2. CASE \A h \in Handlers : ~UpdateStatus(h)
  <2>1. undone' = undone
    <3>1. ASSUME NEW c \in Checkouts, CheckoutStep(c) PROVE undone' = undone
      BY <3>1 DEF CheckoutStep, ReuseInvoice, StartInvoice, CreatePayment, SnapAccepts,
                  SnapFails, SaveRedirectURL, CheckoutDies
    <3>2. ASSUME NEW h \in Handlers,
                 \/ \E n \in unacked : Receive(h, n)
                 \/ RecordChannel(h) \/ ReadSubscription(h) \/ PickRow(h) \/ ApplyPlan(h)
                 \/ HandlerFails(h) \/ HandlerDies(h)
          PROVE  undone' = undone
      BY <3>2 DEF Receive, RecordChannel, ReadSubscription, PickRow, ApplyPlan, HandlerFails,
                  HandlerDies
    <3>3. ASSUME \/ \E q \in Orders, k \in MidtransState, ch \in Channels : MidtransMoves(q, k, ch)
                 \/ \E f \in Profiles : ReadProfile(f) \/ WriteProfile(f)
                 \/ ExpireEnded \/ Tick \/ UNCHANGED vars
                 \/ \E p \in Plans : DeletePlan(p)
          PROVE  undone' = undone
      BY <3>3 DEF MidtransMoves, ReadProfile, WriteProfile, ExpireEnded, Tick, DeletePlan, vars
    <3> QED BY <1>2, <3>1, <3>2, <3>3 DEF Next, HandlerStep
  <2>2. CASE \A h \in Handlers : ~RecordChannel(h)
    <3>1. IF Exists(o) THEN payments'[o].status = payments[o].status
                       ELSE payments'[o].status \in {"none", "pending"}
      BY <1>2, <2>2, StatusSteps
    <3> QED BY <2>1, <3>1 DEF Paid, Exists
  <2>3. ASSUME NEW h \in Handlers, RecordChannel(h)
        PROVE  payments'[o].status \in {"paid", payments[o].status}
    BY <1>0, <2>3, HandlerWrites DEF RecordChannel
  <2> QED BY <2>1, <2>2, <2>3 DEF Paid
<1> QED BY <1>1, <1>2 DEF TakenBack, Paid

\* A request that makes its activation leaves the set it was counted in.
LEMMA Exchanged ==
  ASSUME NEW X, NEW Y, IsFiniteSet(X), Y \subseteq X, NEW a \in Nat, NEW b \in Nat,
         b = a \/ (b = a + 1 /\ \E x \in X : x \notin Y)
  PROVE  /\ IsFiniteSet(Y) /\ Cardinality(Y) \in Nat /\ Cardinality(X) \in Nat
         /\ b + Cardinality(Y) <= a + Cardinality(X)
<1>1. /\ IsFiniteSet(Y) /\ Cardinality(Y) \in Nat /\ Cardinality(X) \in Nat
      /\ Cardinality(Y) <= Cardinality(X)
  BY FS_Subset, FS_CardinalityType
<1>2. CASE b = a BY <1>1, <1>2
<1>3. ASSUME NEW x \in X, x \notin Y, b = a + 1
      PROVE  b + Cardinality(Y) <= a + Cardinality(X)
  <2>1. IsFiniteSet(X \ {x}) /\ Cardinality(X \ {x}) = Cardinality(X) - 1
    BY FS_RemoveElement
  <2>2. Y \subseteq X \ {x} BY <1>3
  <2>3. Cardinality(Y) <= Cardinality(X \ {x}) BY <2>1, <2>2, FS_Subset
  <2> QED BY <1>1, <1>3, <2>1, <2>3
<1> QED BY <1>1, <1>2, <1>3

LEMMA Times ==
  ASSUME NEW n \in Nat, NEW u \in Nat
  PROVE  n * u \in Nat /\ n * (1 + u) = n * u + n /\ n * (u + 1) = n * u + n
         /\ n * (1 + (u + 1)) = n * u + n + n
OBVIOUS

LEMMA RoomInit == Init => Room
<1> SUFFICES ASSUME Init, NEW o \in Orders PROVE RoomAt(o)
  BY DEF Room
<1>1. Doing(o) = {} BY DEF Init, Doing, Active, Activating, IdleHandler
<1>2. Cardinality(Doing(o)) = 0 BY <1>1, FS_EmptySet
<1>3. activations[o] = 0 /\ undone[o] = 0 /\ payments[o].status = "none" BY DEF Init, NoPayment
<1>4. Cardinality(Handlers) \in Nat BY BillingAssumption, FS_CardinalityType
<1> QED BY <1>2, <1>3, <1>4 DEF RoomAt, Paid

LEMMA RoomNext == Sound /\ Room /\ [Next]_vars => Room'
<1> SUFFICES ASSUME Sound, Room, [Next]_vars, NEW o \in Orders PROVE RoomAt(o)'
  BY DEF Room
<1> DEFINE N  == Cardinality(Handlers)
           a  == activations[o]
           a1 == activations'[o]
           u  == undone[o]
           u1 == undone'[o]
           D  == Doing(o)
           D1 == Doing(o)'
           W  == Awaited(o)
           W1 == Awaited(o)'
<1>0. /\ a \in Nat /\ u \in Nat /\ N \in Nat
      /\ IsFiniteSet(D) /\ IsFiniteSet(W) /\ D1 \subseteq Handlers /\ W1 \subseteq Handlers
  <2>1. IsFiniteSet(Handlers) BY BillingAssumption
  <2> QED BY <2>1, FS_Subset, FS_CardinalityType DEF Sound, Typing, TypeOK, Doing, Awaited
<1>1. a1 \in Nat /\ \/ a1 = a
                    \/ a1 = a + 1 /\ \E h \in D \cap W : h \notin D1 /\ h \notin W1
  BY <1>0, Counted DEF Doing, Awaited
<1>2. u1 \in {u, u + 1} /\ (Paid(o) /\ ~Paid(o)' => u1 = u + 1)
  BY UndoneSteps
<1>3. /\ D1 \subseteq D \cup W
      /\ ~Paid(o)' => D1 \subseteq D
      /\ Paid(o) => W1 \subseteq W
  BY NewlyAwaited DEF Doing, Awaited
<1>4. D \subseteq W BY DEF Doing, Awaited, Await
<1>5. /\ Paid(o) => a + Cardinality(W) <= N * (1 + u)
      /\ ~Paid(o) => a + Cardinality(D) <= N * u
  BY DEF Room, RoomAt
<1> HIDE DEF N, a, a1, u, u1, D, D1, W, W1
<1>6. /\ N * u \in Nat /\ N * (1 + u) = N * u + N /\ N * (u + 1) = N * u + N
      /\ N * (1 + (u + 1)) = N * u + N + N
  BY <1>0, Times
<1>7. CASE Paid(o) /\ Paid(o)'
  <2>1. a1 + Cardinality(W1) <= a + Cardinality(W) /\ Cardinality(W1) \in Nat
        /\ Cardinality(W) \in Nat
    BY <1>0, <1>1, <1>3, <1>7, Exchanged
  <2>2. a1 + Cardinality(W1) <= N * (1 + u1)
    BY <1>0, <1>1, <1>2, <1>5, <1>6, <1>7, <2>1
  <2> QED BY <1>7, <2>2 DEF RoomAt, N, a1, u1, W1
<1>8. CASE Paid(o) /\ ~Paid(o)'
  <2>1. D1 \subseteq W BY <1>3, <1>4
  <2>2. a1 + Cardinality(D1) <= a + Cardinality(W) /\ Cardinality(D1) \in Nat
        /\ Cardinality(W) \in Nat
    BY <1>0, <1>1, <2>1, Exchanged
  <2>3. a1 + Cardinality(D1) <= N * u1
    BY <1>0, <1>1, <1>2, <1>5, <1>6, <1>8, <2>2
  <2> QED BY <1>8, <2>3 DEF RoomAt, N, a1, u1, D1
<1>9. CASE ~Paid(o) /\ ~Paid(o)'
  <2>1. a1 + Cardinality(D1) <= a + Cardinality(D) /\ Cardinality(D1) \in Nat
        /\ Cardinality(D) \in Nat
    BY <1>0, <1>1, <1>3, <1>9, Exchanged
  <2>2. a1 + Cardinality(D1) <= N * u1
    BY <1>0, <1>1, <1>2, <1>5, <1>6, <1>9, <2>1
  <2> QED BY <1>9, <2>2 DEF RoomAt, N, a1, u1, D1
<1>10. CASE ~Paid(o) /\ Paid(o)'
  <2>2. a1 + Cardinality(D \cap D1) <= a + Cardinality(D) /\ Cardinality(D \cap D1) \in Nat
        /\ Cardinality(D) \in Nat
    BY <1>0, <1>1, Exchanged
  <2>3. Cardinality(W1) <= N /\ Cardinality(W1) \in Nat
    BY <1>0, BillingAssumption, FS_Subset, FS_CardinalityType DEF N
  <2>4. a1 + Cardinality(W1) <= N * (1 + u1)
    BY <1>0, <1>1, <1>2, <1>5, <1>6, <1>10, <2>2, <2>3
  <2> QED BY <1>10, <2>4 DEF RoomAt, N, a1, u1, W1
<1> QED BY <1>7, <1>8, <1>9, <1>10

\* "Already paid; skipping duplicate subscription activation": however often
\* notifications are repeated, an order is activated at most once per request
\* that can read it at a time, and again as often after each time a late
\* notification took the payment back.
THEOREM ActivationsLimited == Spec => []ActivationsBounded
<1>1. ASSUME Sound, Room, NEW o \in Orders
      PROVE  activations[o] <= Cardinality(Handlers) * (1 + undone[o])
  <2>1. /\ activations[o] \in Nat /\ undone[o] \in Nat /\ IsFiniteSet(Handlers)
        /\ Cardinality(Handlers) \in Nat
    BY <1>1, BillingAssumption, FS_CardinalityType DEF Sound, Typing, TypeOK
  <2>2. Doing(o) \subseteq Handlers /\ Awaited(o) \subseteq Handlers BY DEF Doing, Awaited
  <2>3. Cardinality(Doing(o)) \in Nat /\ Cardinality(Awaited(o)) \in Nat
    BY <2>1, <2>2, FS_Subset, FS_CardinalityType
  <2>4. /\ Cardinality(Handlers) * (1 + undone[o])
             = Cardinality(Handlers) * undone[o] + Cardinality(Handlers)
        /\ Cardinality(Handlers) * undone[o] \in Nat
    BY <2>1, Times
  <2>5. RoomAt(o) BY <1>1 DEF Room
  <2> QED BY <2>1, <2>3, <2>4, <2>5 DEF RoomAt
<1>2. Spec => [](Sound /\ Room)
  BY SoundInit, SoundNext, RoomInit, RoomNext, PTL DEF Spec
<1>3. Sound /\ Room => ActivationsBounded BY <1>1 DEF ActivationsBounded
<1> QED BY <1>2, <1>3, PTL

----------------------------------------------------------------------------
(* What an activation of the running plan computed from the newest         *)
(* subscription still holds when it writes, unless it has been overtaken.  *)

Extending(h) ==
  /\ handler[h].pc \in {"pick", "apply"}
  /\ Latest.plan = handler[h].seen.plan
  /\ Latest.expires > now

Longer == \A h \in Handlers \ overtaken : Extending(h) =>
  /\ handler[h].expires > Latest.expires
  /\ handler[h].pc = "apply" => handler[h].row = Len(subs)

LEMMA LatestTyped == Typing => /\ Latest \in Sub /\ Latest.expires \in Nat
                               /\ now \in Nat /\ now >= 1
<1> SUFFICES ASSUME Typing PROVE Latest \in Sub /\ now \in Nat /\ now >= 1
  BY DEF Sub
<1>1. subs \in Seq(Sub) /\ Len(subs) \in 1..Len(subs)
  BY EmptySeq, LenProperties DEF Typing, TypeOK
<1>2. Latest \in Sub BY <1>1, ElementOfSeq DEF Latest
<1> QED BY <1>2 DEF Typing, TypeOK

LEMMA LongerInit == Init => Longer
BY DEF Init, Longer, Extending, IdleHandler

LEMMA LongerNext == Typing /\ Longer /\ [Next]_vars => Longer'
<1> SUFFICES ASSUME Typing, Longer, [Next]_vars PROVE Longer'
  OBVIOUS
<1> USE DEF db, ext, hist
<1>0. /\ handler \in [Handlers -> HandlerState] /\ Latest.expires \in Nat
      /\ now \in Nat /\ now >= 1
  BY LatestTyped DEF Typing, TypeOK
<1>1. ASSUME UNCHANGED <<subs, handler, overtaken>>, now' = now \/ now' = now + 1
      PROVE  Longer'
  BY <1>0, <1>1 DEF Longer, Extending, Latest
\* Requests that are not about to write, or go on as they were.
<1>2. ASSUME UNCHANGED <<subs, now>>,
             \A g \in Handlers : \/ handler'[g].pc \notin {"pick", "apply"}
                                 \/ handler'[g] = handler[g] /\ (g \in overtaken => g \in overtaken')
      PROVE  Longer'
  BY <1>2 DEF Longer, Extending, Latest
<1>3. ASSUME NEW h \in Handlers, handler' = Idle(h), UNCHANGED <<subs, now>>,
             \A g \in Handlers : g # h /\ g \in overtaken => g \in overtaken'
      PROVE  Longer'
  <2>1. handler'[h].pc = "idle" /\ \A g \in Handlers : g # h => handler'[g] = handler[g]
    BY <1>0, <1>3, PaymentFacts DEF Idle
  <2>2. \A g \in Handlers : \/ handler'[g].pc \notin {"pick", "apply"}
                            \/ handler'[g] = handler[g] /\ (g \in overtaken => g \in overtaken')
    BY <1>3, <2>1, Zenon
  <2> QED BY <1>2, <1>3, <2>2
<1>4. ASSUME NEW h \in Handlers, UpdateStatus(h) PROVE Longer'
  <2>1. CASE Advance(h, "read", Never, 0)
    <3>1. handler'[h].pc = "read" BY <2>1, AdvancedFields
    <3>2. \A g \in Handlers : g # h => handler'[g] = handler[g] BY <1>0, <2>1 DEF Advance
    <3> QED BY <1>2, <1>4, <3>1, <3>2 DEF UpdateStatus
  <2> QED BY <1>3, <1>4, <2>1 DEF UpdateStatus, Respond
<1>5. ASSUME NEW h \in Handlers, NEW n \in unacked, Receive(h, n) PROVE Longer'
  <2>1. CASE handler' = handler
    BY <1>1, <1>5, <2>1 DEF Receive
  <2>2. CASE handler' # handler
    <3>1. handler'[h].pc \in {"channel", "update"} BY <1>5, <2>2, Received
    <3>2. \A g \in Handlers : g # h => handler'[g] = handler[g] BY <1>5, <2>2, Received
    <3> QED BY <1>2, <1>5, <3>1, <3>2 DEF Receive
  <2> QED BY <2>1, <2>2
<1>6. ASSUME NEW h \in Handlers, ReadSubscription(h) PROVE Longer'
  <2>1. UNCHANGED <<subs, now, overtaken>> BY <1>6 DEF ReadSubscription
  <2>2. /\ handler'[h].pc = "pick" /\ handler'[h].seen = handler[h].seen
        /\ Latest.plan = handler[h].seen.plan /\ Latest.expires > now =>
             handler'[h].expires = Latest.expires + Months(handler[h].seen.cycle)
    <3>1. Latest.expires > now => Latest.expires # Never BY <1>0 DEF Never
    <3> QED BY <1>6, <3>1, AdvancedFields DEF ReadSubscription
  <2>3. Latest.expires + Months(handler[h].seen.cycle) > Latest.expires
    BY <1>0 DEF Months
  <2>4. \A g \in Handlers : g # h => handler'[g] = handler[g]
    BY <1>0, <1>6 DEF ReadSubscription, Advance
  <2> QED BY <2>1, <2>2, <2>3, <2>4 DEF Longer, Extending, Latest
<1>7. ASSUME NEW h \in Handlers, PickRow(h) PROVE Longer'
  <2>1. UNCHANGED <<subs, now, overtaken>> /\ handler[h].pc = "pick" BY <1>7 DEF PickRow
  <2>2. /\ handler'[h].pc = "apply" /\ handler'[h].seen = handler[h].seen
        /\ handler'[h].expires = handler[h].expires /\ handler'[h].row = Len(subs)
    BY <1>7, AdvancedFields DEF PickRow
  <2>3. \A g \in Handlers : g # h => handler'[g] = handler[g]
    BY <1>0, <1>7 DEF PickRow, Advance
  <2> QED BY <2>1, <2>2, <2>3 DEF Longer, Extending, Latest
<1>8. ASSUME NEW h \in Handlers, RecordChannel(h) \/ HandlerFails(h) \/ HandlerDies(h)
      PROVE  Longer'
  BY <1>3, <1>8 DEF RecordChannel, HandlerFails, HandlerDies, Respond
\* An activation overtakes every other request that has computed an expiry.
<1>13. ASSUME NEW h \in Handlers, ApplyPlan(h) PROVE Longer'
  <2>1. handler' = Idle(h) /\ now' = now BY <1>13 DEF ApplyPlan, Respond
  <2>2. CASE handler[h].seen.plan \notin plans
    BY <1>3, <1>13, <2>1, <2>2 DEF ApplyPlan
  <2>3. CASE handler[h].seen.plan \in plans
    <3>1. overtaken' = (overtaken \cup Computed) \ {h} BY <1>13, <2>3 DEF ApplyPlan
    <3>2. handler'[h].pc = "idle" /\ \A g \in Handlers : g # h => handler'[g] = handler[g]
      BY <1>0, <2>1, PaymentFacts DEF Idle
    <3>3. ASSUME NEW g \in Handlers \ overtaken' PROVE handler'[g].pc \notin {"pick", "apply"}
      BY <3>1, <3>2, <3>3 DEF Computed
    <3> QED BY <3>3 DEF Longer, Extending
  <2> QED BY <2>2, <2>3
\* The nightly expiry puts the user on the free plan, which no order is for.
<1>9. CASE ExpireEnded
  <2>1. Latest'.plan = Free /\ handler' = handler
    BY <1>9, ExpiryEndsInFree DEF FreeSub, ExpireEnded
  <2>2. \A h \in Handlers : handler[h].seen.plan # Free
    BY <1>0, BillingAssumption DEF HandlerState, Payment
  <2> QED BY <2>1, <2>2 DEF Longer, Extending
<1>10. ASSUME NEW c \in Checkouts, CheckoutStep(c) PROVE Longer'
  BY <1>1, <1>10
     DEF CheckoutStep, ReuseInvoice, StartInvoice, CreatePayment, SnapAccepts, SnapFails,
         SaveRedirectURL, CheckoutDies
<1>11. ASSUME NEW q \in Orders, NEW k \in MidtransState, NEW ch \in Channels,
              MidtransMoves(q, k, ch)
       PROVE  Longer'
  BY <1>1, <1>11 DEF MidtransMoves
<1>12. ASSUME \/ \E f \in Profiles : ReadProfile(f) \/ WriteProfile(f)
              \/ Tick \/ UNCHANGED vars \/ \E p \in Plans : DeletePlan(p)
       PROVE  Longer'
  BY <1>1, <1>12 DEF ReadProfile, WriteProfile, Tick, DeletePlan, vars
<1> QED
  BY <1>4, <1>5, <1>6, <1>7, <1>8, <1>9, <1>10, <1>11, <1>12, <1>13 DEF Next, HandlerStep

\* "Renewals of the same paid plan extend from the current expiry when it is
\* still in the future": so they do, whatever the other notification requests,
\* the expiry task, the users and faults do in between, but for an activation
\* written after this request had read the old expiry.
THEOREM RenewalsExtend == Spec => RenewalExtends
<1>1. ASSUME Typing, Longer, [Next]_vars, NEW h \in Handlers \ overtaken,
             handler[h].pc = "apply", handler'[h] # handler[h], activations' # activations,
             Latest.plan = userPlan', Latest.expires > now
      PROVE  Latest'.expires > Latest.expires
  <2>1. PICK g \in Handlers : ApplyPlan(g) BY <1>1, OnlyApplyCounts
  <2>2. g = h
    <3>1. handler \in [Handlers -> HandlerState] /\ handler' = Idle(g)
      BY <1>1, <2>1 DEF ApplyPlan, Respond, Typing, TypeOK
    <3> QED BY <1>1, <3>1 DEF Idle
  <2> DEFINE row == [plan |-> handler[h].seen.plan, status |-> "active",
                     expires |-> handler[h].expires]
  <2>3. /\ subs' = [subs EXCEPT ![handler[h].row] = row] /\ userPlan' = handler[h].seen.plan
    BY <1>1, <2>1, <2>2 DEF ApplyPlan
  <2>4. Extending(h) BY <1>1, <2>3 DEF Extending
  <2>5. handler[h].expires > Latest.expires /\ handler[h].row = Len(subs)
    BY <1>1, <2>4 DEF Longer
  <2>6. row.expires = handler[h].expires OBVIOUS
  <2>7. handler[h].row \in 1..Len(subs) /\ subs \in Seq(Sub)
    BY <1>1 DEF Typing, TypeOK, RowsExist
  <2> HIDE DEF row
  <2>8. Len(subs') = Len(subs) /\ subs'[handler[h].row] = row
    BY <2>3, <2>7
  <2> QED BY <2>5, <2>6, <2>8 DEF Latest
<1>2. Typing /\ Longer /\ [Next]_vars =>
        [\A h \in Handlers \ overtaken :
           /\ handler[h].pc = "apply" /\ handler'[h] # handler[h] /\ activations' # activations
           /\ Latest.plan = userPlan' /\ Latest.expires > now
           => Latest'.expires > Latest.expires]_vars
  BY <1>1
<1>3. Spec => [](Typing /\ Longer)
  BY TypingInit, TypingNext, LongerInit, LongerNext, PTL DEF Spec
<1> QED BY <1>2, <1>3, PTL DEF Spec, RenewalExtends

----------------------------------------------------------------------------
(* Open invoices.  Every one is paid for, so to speak, by a checkout that  *)
(* was to make it, and a checkout that looked properly found room: there   *)
(* was no open invoice newer than the newest order without a page.         *)

Making(c) == checkout[c].pc = "create" /\ ~checkout[c].blind
Sighted   == {c \in Checkouts : Placing(c) \/ Making(c)}
PlacedNow(o) == \E c \in Checkouts : Placing(c) /\ checkout[c].order = o
Pageless(o)  == Exists(o) /\ ~payments[o].url /\ ~PlacedNow(o)

\* The newest order without a page is behind an open or coming invoice.
Covered == \E w \in Orders : /\ w \in OpenInvoices \/ PlacedNow(w)
                             /\ \A q \in Orders : Pageless(q) => q < w

Total == Cardinality(OpenInvoices) + Cardinality(Sighted)

Contiguous == \A q, r \in Orders : q < r /\ Exists(r) => Exists(q)

Invoices ==
  /\ Contiguous
  /\ \A o \in Orders : payments[o].url => o \in handedOut
  /\ \A o \in blind : Exists(o)
  /\ Total <= 1 + Cardinality(blind)
  /\ Total = 1 + Cardinality(blind) => Covered \/ \E c \in Checkouts : Making(c)

LEMMA InvoiceSets ==
  ASSUME Typing
  PROVE  /\ IsFiniteSet(OpenInvoices) /\ Cardinality(OpenInvoices) \in Nat
         /\ IsFiniteSet(Sighted) /\ Cardinality(Sighted) \in Nat
         /\ IsFiniteSet(blind) /\ Cardinality(blind) \in Nat
         /\ Total \in Nat
<1>1. IsFiniteSet(Orders) BY BillingAssumption, FS_Interval DEF Orders
<1>2. OpenInvoices \subseteq Orders /\ blind \subseteq Orders /\ Sighted \subseteq Checkouts
  BY DEF OpenInvoices, Pending, Sighted, Typing, TypeOK
<1>3. IsFiniteSet(OpenInvoices) /\ IsFiniteSet(blind) BY <1>1, <1>2, FS_Subset
<1>4. IsFiniteSet(Sighted) BY <1>2, BillingAssumption, FS_Subset
<1> QED BY <1>3, <1>4, FS_CardinalityType DEF Total

\* A step that opens no invoice and starts none: if it ends one there is room,
\* and otherwise what covers the orders without a page is still there.
LEMMA InvoicesKept ==
  ASSUME Typing, Invoices, blind' = blind,
         OpenInvoices' \subseteq OpenInvoices, Sighted' \subseteq Sighted,
         \A o \in Orders : /\ Exists(o)' <=> Exists(o)
                           /\ payments'[o].url => payments[o].url /\ o \in handedOut'
                           /\ Exists(o) /\ payments[o].url => payments'[o].url,
         \A c \in Sighted' : /\ Placing(c)' <=> Placing(c)
                             /\ checkout'[c].order = checkout[c].order
  PROVE  Invoices'
<1>1. /\ Contiguous' /\ \A o \in Orders : payments'[o].url => o \in handedOut'
      /\ \A o \in blind' : Exists(o)'
  BY DEF Invoices, Contiguous, Typing, TypeOK
<1>2. /\ IsFiniteSet(OpenInvoices) /\ IsFiniteSet(Sighted) /\ Cardinality(blind) \in Nat
      /\ Cardinality(OpenInvoices) \in Nat /\ Cardinality(Sighted) \in Nat
  BY InvoiceSets
<1>3. /\ Cardinality(OpenInvoices') <= Cardinality(OpenInvoices)
      /\ Cardinality(OpenInvoices') = Cardinality(OpenInvoices) => OpenInvoices' = OpenInvoices
      /\ Cardinality(Sighted') <= Cardinality(Sighted)
      /\ Cardinality(Sighted') = Cardinality(Sighted) => Sighted' = Sighted
      /\ Cardinality(OpenInvoices') \in Nat /\ Cardinality(Sighted') \in Nat
  BY <1>2, FS_Subset, FS_CardinalityType
<1>4. Total' <= 1 + Cardinality(blind')
  BY <1>2, <1>3 DEF Invoices, Total
<1>5. ASSUME Total' = 1 + Cardinality(blind')
      PROVE  Covered' \/ \E c \in Checkouts : Making(c)'
  <2>1. OpenInvoices' = OpenInvoices /\ Sighted' = Sighted /\ Total = 1 + Cardinality(blind)
    BY <1>2, <1>3, <1>5 DEF Invoices, Total
  <2>2. ASSUME NEW c \in Checkouts, Making(c) PROVE Making(c)'
    <3>1. c \in Sighted' /\ ~Placing(c) BY <2>1, <2>2 DEF Sighted, Making, Placing
    <3> QED BY <3>1 DEF Sighted
  <2>3. \A o \in Orders : PlacedNow(o)' <=> PlacedNow(o)
    <3>1. \A c \in Checkouts : Placing(c)' <=> Placing(c)
      BY <2>1 DEF Sighted
    <3>2. \A c \in Checkouts : Placing(c) => checkout'[c].order = checkout[c].order
      BY <2>1 DEF Sighted
    <3> QED BY <3>1, <3>2 DEF PlacedNow
  <2>4. \A q \in Orders : Pageless(q)' => Pageless(q)
    BY <2>3 DEF Pageless
  <2>5. Covered => Covered'
    BY <2>1, <2>3, <2>4 DEF Covered
  <2> QED BY <2>1, <2>2, <2>5 DEF Invoices
<1> QED BY <1>1, <1>4, <1>5 DEF Invoices

\* The frequent case: no checkout moves, no page is saved or handed out.
LEMMA InvoicesElsewhere ==
  ASSUME Typing, Invoices, UNCHANGED <<blind, checkout, handedOut>>,
         OpenInvoices' \subseteq OpenInvoices,
         \A o \in Orders : /\ Exists(o)' <=> Exists(o)
                           /\ payments'[o].url => payments[o].url
                           /\ payments[o].url => payments'[o].url
  PROVE  Invoices'
<1>1. \A c \in Checkouts : /\ Placing(c)' <=> Placing(c)
                           /\ Making(c)' <=> Making(c)
                           /\ checkout'[c].order = checkout[c].order
  BY DEF Placing, Making
<1>2. Sighted' \subseteq Sighted /\ \A c \in Sighted' : c \in Checkouts BY <1>1 DEF Sighted
<1>3. \A o \in Orders : payments'[o].url => payments[o].url /\ o \in handedOut'
  BY DEF Invoices
<1> QED BY <1>1, <1>2, <1>3, InvoicesKept

LEMMA InvoicesInit == Init => Invoices
<1> SUFFICES ASSUME Init PROVE Invoices
  OBVIOUS
<1>1. OpenInvoices = {} /\ Sighted = {} /\ blind = {}
  BY DEF Init, OpenInvoices, Sighted, Placing, Making, IdleCheckout
<1>2. Total = 0 /\ Cardinality(blind) = 0 BY <1>1, FS_EmptySet DEF Total
<1>3. \A o \in Orders : ~Exists(o) /\ ~payments[o].url BY DEF Init, Exists, NoPayment
<1> QED BY <1>1, <1>2, <1>3 DEF Invoices, Contiguous

\* ORDER BY ... DESC LIMIT 1 finds a row if there is one.
LEMMA NewestPending ==
  ASSUME NEW P, IsFiniteSet(P), P \subseteq Int, P # {}
  PROVE  \E m \in P : \A q \in P : q <= m
<1> DEFINE Newer(m) == {q \in P : q > m}
           T        == {Newer(m) : m \in P}
<1>1. IsWellFoundedOn(StrictSubsetOrdering(P), FiniteSubsetsOf(P))
  BY FS_StrictSubsetOrderingWellFounded
<1>2. T \subseteq FiniteSubsetsOf(P) /\ T # {}
  <2>1. ASSUME NEW m \in P PROVE Newer(m) \in FiniteSubsetsOf(P)
    <3>1. Newer(m) \subseteq P OBVIOUS
    <3>2. IsFiniteSet(Newer(m)) BY <3>1, FS_Subset
    <3> QED BY <3>1, <3>2 DEF FiniteSubsetsOf
  <2> QED BY <2>1
<1>3. PICK U \in T : \A V \in T : <<V, U>> \notin StrictSubsetOrdering(P)
  <2> HIDE DEF T
  <2> QED BY <1>1, <1>2, WFMin, Zenon
<1>4. PICK m \in P : U = Newer(m) BY <1>3
<1>5. ASSUME NEW q \in P, q > m PROVE FALSE
  <2>0. q \in Int /\ ~ q > q OBVIOUS
  <2>1. q \in Newer(m) /\ q \notin Newer(q) BY <1>5, <2>0
  <2>2. Newer(q) \subseteq Newer(m)
    <3>1. ASSUME NEW r \in P, r > q PROVE r > m
      <4>1. r \in Int /\ m \in Int OBVIOUS
      <4> QED BY <1>5, <2>0, <3>1, <4>1
    <3> QED BY <3>1
  <2>3. <<Newer(q), Newer(m)>> \in StrictSubsetOrdering(P)
    BY <2>1, <2>2 DEF StrictSubsetOrdering
  <2> QED BY <1>3, <1>4, <2>3
<1> QED BY <1>5

\* A look that finds no page to hand out, while no other checkout is under way.
LEMMA LookFindsRoom ==
  ASSUME Sound, Invoices, NEW c \in Checkouts, checkout[c].pc = "idle", ~OthersUnderWay(c),
         ~ \E o \in Orders : IsLatestPending(o) /\ payments[o].url
  PROVE  Total <= Cardinality(blind)
<1>1. \A d \in Checkouts : ~Placing(d) /\ ~Making(d)
  BY DEF OthersUnderWay, Placing, Making
<1>2. Typing /\ Total \in Nat /\ Cardinality(blind) \in Nat BY InvoiceSets DEF Sound
<1>3. SUFFICES ASSUME Covered PROVE FALSE
  BY <1>1, <1>2 DEF Invoices
<1>4. PICK w \in OpenInvoices : \A q \in Orders : Pageless(q) => q < w
  BY <1>1, <1>3 DEF Covered, PlacedNow
<1>5. w \in Pending /\ Pending \subseteq Orders BY DEF OpenInvoices, Pending
<1>6. PICK m \in Pending : \A q \in Pending : q <= m
  <2>1. IsFiniteSet(Orders) /\ Orders \subseteq Int
    BY BillingAssumption, FS_Interval DEF Orders
  <2>2. IsFiniteSet(Pending) /\ Pending \subseteq Int /\ Pending # {}
    BY <1>5, <2>1, FS_Subset
  <2> QED BY <2>2, NewestPending
<1>7. IsLatestPending(m) /\ ~payments[m].url
  BY <1>5, <1>6 DEF IsLatestPending
<1>8. Pageless(m) BY <1>1, <1>5, <1>7 DEF Pageless, PlacedNow, Pending, Exists
<1>9. m \in Int /\ w \in Int /\ m \in Orders BY <1>5 DEF Orders
<1>10. m < w /\ w <= m BY <1>4, <1>5, <1>6, <1>8, <1>9
<1> QED BY <1>9, <1>10

LEMMA InvoiceStarted ==
  ASSUME Sound, Invoices, NEW c \in Checkouts, NEW p \in plans, NEW y \in Cycles,
         StartInvoice(c, p, y)
  PROVE  Invoices'
<1> USE DEF db, ext, hist
<1>0. Typing /\ checkout \in [Checkouts -> CheckoutState] BY DEF Sound, Typing, TypeOK
<1>1. PICK b \in BOOLEAN :
        /\ Starting(c, p, y, b)
        /\ ~b => /\ ~OthersUnderWay(c)
                 /\ ~ \E o \in Orders : IsLatestPending(o) /\ payments[o].url
  BY DEF StartInvoice, OthersUnderWay
<1>2. /\ checkout[c].pc = "idle"
      /\ checkout'[c].pc = "create" /\ checkout'[c].blind = b
      /\ \A d \in Checkouts : d # c => checkout'[d] = checkout[d]
  BY <1>0, <1>1 DEF StartInvoice, Starting
<1>3. UNCHANGED <<payments, handedOut, blind, undone>> BY DEF StartInvoice
<1>4. OpenInvoices' = OpenInvoices BY <1>3 DEF OpenInvoices, Pending
<1>5. CASE b
  <2>1. ~Placing(c) /\ ~Placing(c)' /\ ~Making(c) /\ ~Making(c)'
    BY <1>2, <1>5 DEF Placing, Making
  <2>2. Sighted' \subseteq Sighted /\ c \notin Sighted'
    BY <1>2, <2>1 DEF Sighted, Placing, Making
  <2>3. \A d \in Sighted' : /\ Placing(d)' <=> Placing(d)
                            /\ checkout'[d].order = checkout[d].order
    BY <1>2, <2>2 DEF Sighted, Placing
  <2> QED BY <1>0, <1>3, <1>4, <2>2, <2>3, InvoicesKept DEF Exists, Invoices
<1>6. CASE ~b
  <2>1. Total <= Cardinality(blind) BY <1>1, <1>2, <1>6, LookFindsRoom
  <2>2. c \notin Sighted /\ Making(c)' BY <1>2, <1>6 DEF Sighted, Placing, Making
  <2>3. Sighted' = Sighted \cup {c}
    BY <1>2, <2>2 DEF Sighted, Placing, Making
  <2>4. /\ IsFiniteSet(Sighted) /\ Cardinality(Sighted) \in Nat
        /\ Cardinality(OpenInvoices) \in Nat /\ Cardinality(blind) \in Nat
    BY <1>0, InvoiceSets
  <2>5. Cardinality(Sighted') = Cardinality(Sighted) + 1
    BY <2>2, <2>3, <2>4, FS_AddElement
  <2>6. Total' <= 1 + Cardinality(blind')
    BY <1>3, <1>4, <2>1, <2>4, <2>5 DEF Total
  <2>7. /\ Contiguous' /\ \A o \in Orders : payments'[o].url => o \in handedOut'
        /\ \A o \in blind' : Exists(o)'
    BY <1>3 DEF Invoices, Contiguous, Exists
  <2> QED BY <2>2, <2>6, <2>7 DEF Invoices
<1> QED BY <1>5, <1>6

LEMMA InvoiceCreated ==
  ASSUME Sound, Typing', Invoices, NEW c \in Checkouts, CreatePayment(c)
  PROVE  Invoices'
<1> USE DEF db, ext, hist
<1>0. /\ Typing /\ checkout \in [Checkouts -> CheckoutState] /\ payments \in [Orders -> Payment]
      /\ blind \subseteq Orders
  BY DEF Sound, Typing, TypeOK
<1>1. /\ checkout[c].pc = "create" /\ UNCHANGED <<handedOut, undone>> /\ ~Placing(c)
  BY DEF CreatePayment, Placing
<1>2. CASE checkout[c].plan \notin plans
  <2>1. checkout' = [checkout EXCEPT ![c] = IdleCheckout] /\ UNCHANGED <<payments, blind>>
    BY <1>2 DEF CreatePayment
  <2>2. /\ ~Placing(c)' /\ ~Making(c)'
        /\ \A d \in Checkouts : d # c => checkout'[d] = checkout[d]
    BY <1>0, <2>1 DEF Placing, Making, IdleCheckout
  <2>3. Sighted' \subseteq Sighted /\ c \notin Sighted'
    BY <2>2 DEF Sighted, Placing, Making
  <2>4. \A d \in Sighted' : /\ Placing(d)' <=> Placing(d)
                            /\ checkout'[d].order = checkout[d].order
    BY <2>2, <2>3 DEF Sighted, Placing
  <2>5. OpenInvoices' = OpenInvoices BY <1>1, <2>1 DEF OpenInvoices, Pending
  <2> QED BY <1>0, <1>1, <2>1, <2>3, <2>4, <2>5, InvoicesKept DEF Exists, Invoices
<1>3. CASE checkout[c].plan \in plans
  <2> DEFINE row == NewPayment(checkout[c].plan, checkout[c].cycle)
  <2>1. PICK o \in Orders \ Existing :
          /\ \A q \in Orders : q < o => q \in Existing
          /\ payments' = [payments EXCEPT ![o] = row]
          /\ checkout' = [checkout EXCEPT ![c] = Placed(@, o)]
          /\ blind' = IF checkout[c].blind THEN blind \cup {o} ELSE blind
    BY <1>3 DEF CreatePayment
  <2>2. row.status = "pending" /\ row.url = FALSE BY DEF NewPayment, NoPayment
  <2> HIDE DEF row
  <2>3. /\ payments'[o].status = "pending" /\ payments'[o].url = FALSE
        /\ \A q \in Orders : q # o => payments'[q] = payments[q]
    BY <1>0, <2>1, <2>2
  <2>4. /\ checkout'[c].pc = "snap" /\ checkout'[c].order = o
        /\ \A d \in Checkouts : d # c => checkout'[d] = checkout[d]
    BY <1>0, <2>1 DEF Placed, CheckoutState
  <2>5. /\ ~Exists(o) /\ Exists(o)'
        /\ \A q \in Orders : q # o => (Exists(q)' <=> Exists(q))
        /\ \A q \in Orders : q < o => Exists(q)
    BY <2>1, <2>3 DEF Exists, Existing
  <2>6. Placing(c)' /\ PlacedNow(o)' BY <2>4 DEF Placing, PlacedNow
  <2>7. OpenInvoices' = OpenInvoices
    BY <1>1, <2>3, <2>5 DEF OpenInvoices, Pending, Exists
  <2>8. Sighted' = Sighted \cup {c} /\ (c \in Sighted <=> ~checkout[c].blind)
    BY <1>1, <2>4, <2>6 DEF Sighted, Placing, Making
  <2>9. o \notin blind BY <2>5 DEF Invoices
  <2>10. /\ IsFiniteSet(Sighted) /\ Cardinality(Sighted) \in Nat
         /\ Cardinality(OpenInvoices) \in Nat
         /\ IsFiniteSet(blind) /\ Cardinality(blind) \in Nat
    BY <1>0, InvoiceSets
  <2>11. Total' <= 1 + Cardinality(blind')
    <3>1. CASE checkout[c].blind
      <4>1. /\ Cardinality(Sighted') = Cardinality(Sighted) + 1
            /\ Cardinality(blind') = Cardinality(blind) + 1
        BY <2>1, <2>8, <2>9, <2>10, <3>1, FS_AddElement
      <4> QED BY <2>7, <2>10, <4>1 DEF Total, Invoices
    <3>2. CASE ~checkout[c].blind
      <4>1. Sighted' = Sighted /\ blind' = blind BY <2>1, <2>8, <3>2
      <4> QED BY <2>7, <4>1 DEF Total, Invoices
    <3> QED BY <3>1, <3>2
  <2>12. Covered'
    <3>1. ASSUME NEW q \in Orders, Pageless(q)' PROVE q < o
      <4>1. q # o BY <2>6, <3>1 DEF Pageless
      <4>2. Exists(q) BY <2>5, <3>1, <4>1 DEF Pageless
      <4>3. ~ o < q BY <2>1, <2>5, <4>2 DEF Invoices, Contiguous
      <4> QED BY <4>1, <4>3 DEF Orders
    <3> QED BY <2>1, <2>6, <3>1 DEF Covered
  <2>13. Contiguous'
    BY <2>1, <2>5 DEF Contiguous, Invoices
  <2>14. \A q \in Orders : payments'[q].url => q \in handedOut'
    BY <1>1, <2>3 DEF Invoices
  <2>15. \A q \in blind' : Exists(q)'
    <3>1. \A q \in blind : q \in Orders /\ q # o /\ Exists(q) BY <1>0, <2>9 DEF Invoices
    <3> QED BY <2>1, <2>5, <3>1
  <2> QED BY <2>11, <2>12, <2>13, <2>14, <2>15 DEF Invoices
<1> QED BY <1>2, <1>3

LEMMA InvoiceSaved ==
  ASSUME Sound, Typing', Invoices, NEW c \in Checkouts, SaveRedirectURL(c)
  PROVE  Invoices'
<1> USE DEF db, ext, hist
<1>0. /\ Typing /\ checkout \in [Checkouts -> CheckoutState] /\ payments \in [Orders -> Payment]
  BY DEF Sound, Typing, TypeOK
<1>1. PICK o \in Orders : o = checkout[c].order BY <1>0, PlacedOrder
<1>2. /\ checkout[c].pc = "save" /\ Placing(c) /\ ~Making(c)
      /\ handedOut' = handedOut \cup {o} /\ UNCHANGED <<undone, blind>>
      /\ checkout' = [checkout EXCEPT ![c] = IdleCheckout]
  BY <1>1 DEF SaveRedirectURL, Placing, Making
<1>3. /\ payments[o].status = "pending" /\ ~payments[o].url /\ Exists(o)
  BY <1>1, <1>2 DEF Sound, Clean, Untouched, Exists
<1>4. /\ ~Placing(c)' /\ ~Making(c)' /\ c \in Sighted
      /\ \A d \in Checkouts : d # c => checkout'[d] = checkout[d]
  BY <1>0, <1>2 DEF Placing, Making, IdleCheckout, Sighted
<1>5. Sighted' = Sighted \ {c}
  BY <1>4 DEF Sighted, Placing, Making
<1>6. CASE UNCHANGED payments
  <2>1. OpenInvoices' \subseteq OpenInvoices
    BY <1>2, <1>3, <1>6 DEF OpenInvoices, Pending
  <2>2. \A d \in Sighted' : /\ Placing(d)' <=> Placing(d)
                            /\ checkout'[d].order = checkout[d].order
    BY <1>4, <1>5 DEF Sighted, Placing
  <2> QED BY <1>0, <1>2, <1>5, <1>6, <2>1, <2>2, InvoicesKept DEF Exists, Invoices
<1>7. CASE UpdatePayment(o, "pending", FALSE, TRUE, "")
  <2>1. /\ payments'[o].status = "pending" /\ payments'[o].url
        /\ \A q \in Orders : q # o => payments'[q] = payments[q]
    BY <1>0, <1>7, PaymentWritten, Zenon DEF PaymentStatus
  <2>2. \A q \in Orders : Exists(q)' <=> Exists(q)
    BY <1>3, <2>1 DEF Exists
  <2>3. OpenInvoices' \subseteq OpenInvoices \cup {o} /\ OpenInvoices \subseteq OpenInvoices'
    BY <1>2, <2>1, <1>3 DEF OpenInvoices, Pending
  <2>4. /\ IsFiniteSet(Sighted) /\ Cardinality(Sighted) \in Nat
        /\ IsFiniteSet(OpenInvoices) /\ Cardinality(OpenInvoices) \in Nat
        /\ Cardinality(blind) \in Nat
    BY <1>0, InvoiceSets
  <2>5. o \notin OpenInvoices BY <1>3 DEF OpenInvoices
  <2>6. /\ Cardinality(Sighted') = Cardinality(Sighted) - 1
        /\ Cardinality(OpenInvoices \cup {o}) = Cardinality(OpenInvoices) + 1
    BY <1>4, <1>5, <2>4, <2>5, FS_RemoveElement, FS_AddElement
  <2>7. \/ OpenInvoices' = OpenInvoices \cup {o} \/ OpenInvoices' = OpenInvoices
    BY <2>3
  <2>8. /\ Total' = IF o \in OpenInvoices' THEN Total ELSE Total - 1
        /\ Total \in Nat
    <3>1. CASE OpenInvoices' = OpenInvoices \cup {o} BY <2>4, <2>6, <3>1 DEF Total
    <3>2. CASE OpenInvoices' = OpenInvoices BY <2>4, <2>5, <2>6, <3>2 DEF Total
    <3> QED BY <2>7, <3>1, <3>2
  <2>9. Total' \in Int /\ Total' <= Total BY <2>8
  <2>10. Total' <= 1 + Cardinality(blind') BY <1>2, <2>4, <2>8, <2>9 DEF Invoices
  <2>11. ASSUME Total' = 1 + Cardinality(blind')
         PROVE  Covered' \/ \E d \in Checkouts : Making(d)'
    <3>1. Total = 1 + Cardinality(blind) /\ o \in OpenInvoices'
      BY <1>2, <2>4, <2>8, <2>9, <2>11 DEF Invoices
    <3>2. CASE \E d \in Checkouts : Making(d)
      BY <1>2, <1>4, <3>2 DEF Making
    <3>3. CASE Covered
      <4>1. PICK w \in Orders : /\ w \in OpenInvoices \/ PlacedNow(w)
                                /\ \A q \in Orders : Pageless(q) => q < w
        BY <3>3 DEF Covered
      <4>2. ASSUME NEW q \in Orders, q # o PROVE PlacedNow(q)' <=> PlacedNow(q)
        BY <1>1, <1>4, <4>2 DEF PlacedNow, Placing
      <4>3. w \in OpenInvoices' \/ PlacedNow(w)'
        BY <2>3, <3>1, <4>1, <4>2
      <4>4. ASSUME NEW q \in Orders, Pageless(q)' PROVE Pageless(q)
        <5>1. q # o BY <2>1, <4>4 DEF Pageless
        <5> QED BY <2>1, <2>2, <4>2, <4>4, <5>1 DEF Pageless
      <4> QED BY <4>1, <4>3, <4>4 DEF Covered
    <3> QED BY <3>1, <3>2, <3>3 DEF Invoices
  <2>12. Contiguous' BY <2>2 DEF Contiguous, Invoices
  <2>13. \A q \in Orders : payments'[q].url => q \in handedOut'
    BY <1>2, <2>1 DEF Invoices
  <2>14. \A q \in blind' : Exists(q)'
    <3>1. blind \subseteq Orders BY <1>0 DEF Typing, TypeOK
    <3> QED BY <1>2, <2>2, <3>1 DEF Invoices
  <2> QED BY <2>10, <2>11, <2>12, <2>13, <2>14 DEF Invoices
<1> QED BY <1>1, <1>6, <1>7 DEF SaveRedirectURL

LEMMA InvoicesNext == Sound /\ Sound' /\ Invoices /\ [Next]_vars => Invoices'
<1> SUFFICES ASSUME Sound, Sound', Invoices, [Next]_vars PROVE Invoices'
  OBVIOUS
<1> USE DEF db, ext, hist
<1>0. /\ Typing /\ Typing' /\ Funded
      /\ checkout \in [Checkouts -> CheckoutState] /\ payments \in [Orders -> Payment]
  BY DEF Sound, Typing, TypeOK
<1>1. ASSUME UNCHANGED <<blind, checkout, handedOut, undone>>,
             \A o \in Orders : /\ payments'[o].status = payments[o].status
                               /\ payments'[o].url = payments[o].url
      PROVE  Invoices'
  <2>1. OpenInvoices' \subseteq OpenInvoices BY <1>1 DEF OpenInvoices, Pending
  <2> QED BY <1>0, <1>1, <2>1, InvoicesElsewhere DEF Exists
<1>2. ASSUME NEW c \in Checkouts, ReuseInvoice(c) PROVE Invoices'
  <2>1. UNCHANGED <<blind, checkout, handedOut, undone, payments>>
    BY <1>2 DEF ReuseInvoice, Invoices
  <2> QED BY <1>1, <2>1
\* A checkout that goes on with its order, or ends.
<1>3. ASSUME NEW c \in Checkouts, SnapAccepts(c) \/ SnapFails(c) \/ CheckoutDies(c)
      PROVE  Invoices'
  <2>1. /\ UNCHANGED <<payments, handedOut, blind, undone>>
        /\ \/ checkout' = [checkout EXCEPT ![c].pc = "save"] /\ checkout[c].pc = "snap"
           \/ checkout' = [checkout EXCEPT ![c] = IdleCheckout]
    BY <1>3 DEF SnapAccepts, SnapFails, CheckoutDies
  <2>2. \A d \in Checkouts :
          /\ Placing(d)' => Placing(d) /\ checkout'[d].order = checkout[d].order
          /\ Making(d)' => Making(d) /\ checkout'[d] = checkout[d]
    BY <1>0, <2>1 DEF Placing, Making, IdleCheckout, CheckoutState
  <2>3. Sighted' \subseteq Sighted BY <2>2 DEF Sighted
  <2>4. \A d \in Sighted' : /\ Placing(d)' <=> Placing(d)
                            /\ checkout'[d].order = checkout[d].order
    BY <2>2 DEF Sighted, Placing, Making
  <2>5. OpenInvoices' = OpenInvoices BY <2>1 DEF OpenInvoices, Pending
  <2> QED BY <1>0, <2>1, <2>3, <2>4, <2>5, InvoicesKept DEF Exists, Invoices
<1>4. ASSUME NEW h \in Handlers, RecordChannel(h) \/ UpdateStatus(h) PROVE Invoices'
  <2>1. PICK o \in Orders : o = handler[h].note.order BY <1>0, <1>4, HandlerWrites
  <2>2. Busy(h) BY <1>4 DEF RecordChannel, UpdateStatus, Busy
  <2>3. Exists(o) BY <2>1, <2>2 DEF Sound, Funded, HandlerOK, NoteOK, Busy
  <2>4. handler[h].note \in Notification BY <1>0, <1>4, HandlerWrites
  <2>5. StatusOf(handler[h].note.kind) \in PaymentStatus
    BY <2>4, StatusTyped DEF Notification
  <2>6. Exists(o)'
    BY <1>0, <1>4, <2>1, <2>5, HandlerWrites DEF Exists, PaymentStatus
  <2>7. \A q \in Orders : Exists(q)' <=> Exists(q)
    BY <1>0, <1>4, <2>1, <2>3, <2>6, HandlerWrites DEF Exists
  <2>8. \A q \in Orders : /\ payments[q].url => payments'[q].url
                          /\ payments'[q].url => payments[q].url
    BY <1>0, <1>4, PageKept
  <2>9. UNCHANGED <<blind, checkout, handedOut>> BY <1>0, <1>4, HandlerWrites
  <2>10. ASSUME NEW q \in OpenInvoices' PROVE q \in OpenInvoices
    <3>1. /\ q \in Orders /\ payments'[q].status = "pending" /\ payments'[q].url
          /\ q \in handedOut /\ undone'[q] = 0
      BY <2>9, <2>10 DEF OpenInvoices, Pending
    <3>2. Exists(q) BY <1>0, <3>1 DEF Funded
    <3>3. undone[q] \in Nat BY <1>0, <3>1 DEF Typing, TypeOK
    <3>4. /\ undone'[q] \in {undone[q], undone[q] + 1}
          /\ payments[q].status # "pending" => undone'[q] = undone[q] + 1
      BY <3>1, <3>2, UndoneSteps
    <3>5. undone[q] = 0 /\ payments[q].status = "pending" BY <3>1, <3>3, <3>4
    <3>6. payments[q].url BY <2>8, <3>1
    <3> QED BY <3>1, <3>5, <3>6 DEF OpenInvoices, Pending
  <2> QED BY <1>0, <2>7, <2>8, <2>9, <2>10, InvoicesElsewhere
<1>5. ASSUME NEW p \in Plans, DeletePlan(p) PROVE Invoices'
  <2>1. \A o \in Orders : /\ payments'[o].status = payments[o].status
                          /\ payments'[o].url = payments[o].url
    BY <1>0, <1>5 DEF DeletePlan, Orphaned, Payment
  <2> QED BY <1>1, <1>5, <2>1 DEF DeletePlan
\* Everyone else leaves the orders and their checkouts alone.
<1>6. ASSUME NEW h \in Handlers,
             \/ \E n \in unacked : Receive(h, n)
             \/ ReadSubscription(h) \/ PickRow(h) \/ ApplyPlan(h)
             \/ HandlerFails(h) \/ HandlerDies(h)
      PROVE  Invoices'
  <2>1. UNCHANGED <<payments, checkout, handedOut, blind, undone>>
    BY <1>6 DEF Receive, ReadSubscription, PickRow, ApplyPlan, HandlerFails, HandlerDies
  <2> QED BY <1>1, <2>1
<1>7. ASSUME \/ \E o \in Orders, k \in MidtransState, ch \in Channels : MidtransMoves(o, k, ch)
             \/ \E f \in Profiles : ReadProfile(f) \/ WriteProfile(f)
             \/ ExpireEnded \/ Tick \/ UNCHANGED vars
      PROVE  Invoices'
  <2>1. UNCHANGED <<payments, checkout, handedOut, blind, undone>>
    BY <1>7 DEF MidtransMoves, ReadProfile, WriteProfile, ExpireEnded, Tick, vars
  <2> QED BY <1>1, <2>1
<1> QED
  BY <1>0, <1>2, <1>3, <1>4, <1>5, <1>6, <1>7, InvoiceStarted, InvoiceCreated, InvoiceSaved
     DEF Next, CheckoutStep, HandlerStep

\* "Reuse existing pending payment if it exists to avoid duplicate invoices":
\* whatever fails and however checkouts overlap, every invoice a user can pay
\* but one was made by a checkout that looked while another was under way, or
\* whose look failed.
THEOREM NoUnaccountedInvoice == Spec => []InvoicesAccounted
<1>1. Sound /\ Invoices => InvoicesAccounted
  <2> SUFFICES ASSUME Sound, Invoices PROVE InvoicesAccounted
    OBVIOUS
  <2>1. /\ Cardinality(OpenInvoices) \in Nat /\ Cardinality(Sighted) \in Nat
        /\ Cardinality(blind) \in Nat
    BY InvoiceSets DEF Sound
  <2> QED BY <2>1 DEF Invoices, Total, InvoicesAccounted
<1>2. Spec => [](Sound /\ Invoices)
  BY SoundInit, SoundNext, InvoicesInit, InvoicesNext, PTL DEF Spec
<1> QED BY <1>1, <1>2, PTL

----------------------------------------------------------------------------
(* Without faults no activation is lost, in whatever order notifications   *)
(* come: an order once found or made paid has been activated, is being     *)
(* activated, or has lost its plan.                                        *)

Settled(o) ==
  \/ activations[o] > 0
  \/ payments[o].plan = NoPlan
  \/ \E h \in Handlers : Activating(h) /\ handler[h].note.order = o

Heeded ==
  /\ \A o \in Orders : payments[o].status = "paid" => Settled(o)
  /\ \A h \in Handlers : Busy(h) =>
       payments[handler[h].note.order].plan \in {handler[h].seen.plan, NoPlan}
  /\ \A h \in Handlers : handler[h].pc = "channel" => Settled(handler[h].note.order)

\* An order's plan only changes by being deleted.
LEMMA PlanSteps ==
  ASSUME Sound, [Next]_vars, NEW o \in Orders, Exists(o)
  PROVE  payments'[o].plan \in {payments[o].plan, NoPlan}
<1> USE DEF db, ext, hist
<1>0. Typing /\ Funded /\ checkout \in [Checkouts -> CheckoutState]
      /\ payments \in [Orders -> Payment] /\ handler \in [Handlers -> HandlerState]
  BY DEF Sound, Typing, TypeOK
<1>1. ASSUME NEW q \in Orders, NEW s \in PaymentStatus, NEW d \in BOOLEAN,
             NEW u \in BOOLEAN, NEW m \in {"", "midtrans", "specific"},
             UpdatePayment(q, s, d, u, m)
      PROVE  payments'[o].plan = payments[o].plan
  BY <1>0, <1>1, UpdateKeepsOrders, Zenon
<1>2. ASSUME NEW c \in Checkouts, CheckoutStep(c) PROVE payments'[o].plan = payments[o].plan
  <2>1. CASE CreatePayment(c)
    BY <1>0, <2>1 DEF CreatePayment, Existing, Exists
  <2>2. CASE SaveRedirectURL(c)
    <3>1. checkout[c].order \in Orders /\ "pending" \in PaymentStatus
          /\ TRUE \in BOOLEAN /\ FALSE \in BOOLEAN /\ "" \in {"", "midtrans", "specific"}
      BY <1>0 DEF CheckoutState, PaymentStatus
    <3> QED BY <1>1, <2>2, <3>1 DEF SaveRedirectURL
  <2> QED BY <1>2, <2>1, <2>2
          DEF CheckoutStep, ReuseInvoice, StartInvoice, SnapAccepts, SnapFails, CheckoutDies
<1>3. ASSUME NEW h \in Handlers, RecordChannel(h) \/ UpdateStatus(h)
      PROVE  payments'[o].plan = payments[o].plan
  <2>1. PICK n \in Notification : n = handler[h].note BY <1>0 DEF HandlerState
  <2>2. /\ n.order \in Orders /\ StatusOf(n.kind) \in PaymentStatus /\ "paid" \in PaymentStatus
        /\ n.channel \in {"", "midtrans", "specific"} /\ FALSE \in BOOLEAN
        /\ handler[h].seen.paidAt \in BOOLEAN /\ (StatusOf(n.kind) = "paid") \in BOOLEAN
    BY <1>0, StatusTyped DEF Notification, HandlerState, Payment, PaymentStatus
  <2>3. PICK s \in PaymentStatus, d \in BOOLEAN : UpdatePayment(n.order, s, d, FALSE, n.channel)
    BY <1>3, <2>1, <2>2 DEF RecordChannel, UpdateStatus
  <2> QED BY <1>1, <2>2, <2>3
<1>4. ASSUME NEW h \in Handlers,
             \/ \E n \in unacked : Receive(h, n)
             \/ ReadSubscription(h) \/ PickRow(h) \/ ApplyPlan(h)
             \/ HandlerFails(h) \/ HandlerDies(h)
      PROVE  payments' = payments
  BY <1>4 DEF Receive, ReadSubscription, PickRow, ApplyPlan, HandlerFails, HandlerDies
<1>5. ASSUME NEW p \in Plans, DeletePlan(p) PROVE payments'[o].plan \in {payments[o].plan, NoPlan}
  BY <1>0, <1>5, PaymentOrphaned DEF DeletePlan
<1>6. ASSUME \/ \E q \in Orders, k \in MidtransState, ch \in Channels : MidtransMoves(q, k, ch)
             \/ \E f \in Profiles : ReadProfile(f) \/ WriteProfile(f)
             \/ ExpireEnded \/ Tick \/ UNCHANGED vars
      PROVE  payments' = payments
  BY <1>6 DEF MidtransMoves, ReadProfile, WriteProfile, ExpireEnded, Tick, vars
<1> QED BY <1>2, <1>3, <1>4, <1>5, <1>6 DEF Next, HandlerStep

LEMMA SettledKept ==
  ASSUME ~Faults, Sound, Heeded, [Next]_vars, NEW o \in Orders, Exists(o), Settled(o)
  PROVE  Settled(o)'
<1>0. /\ Typing /\ Funded /\ activations \in [Orders -> Nat]
      /\ payments[o].plan \in plans \cup {NoPlan}
  BY DEF Sound, Typing, TypeOK, Funded
<1>1. activations'[o] >= activations[o]
  <2>1. CASE activations' = activations BY <1>0, <2>1
  <2>2. ASSUME NEW h \in Handlers, ApplyPlan(h) PROVE activations'[o] >= activations[o]
    BY <1>0, <2>2 DEF ApplyPlan
  <2> QED BY <2>1, <2>2, OnlyApplyCounts
<1>2. CASE activations[o] > 0
  <2>1. activations'[o] > 0
    <3>1. CASE activations' = activations BY <1>2, <3>1
    <3>2. ASSUME NEW h \in Handlers, ApplyPlan(h) PROVE activations'[o] > 0
      BY <1>0, <1>2, <3>2 DEF ApplyPlan
    <3> QED BY <3>1, <3>2, OnlyApplyCounts
  <2> QED BY <2>1 DEF Settled
<1>3. CASE payments[o].plan = NoPlan
  BY <1>3, PlanSteps DEF Settled
<1>4. ASSUME NEW g \in Handlers, Activating(g), handler[g].note.order = o
      PROVE  Settled(o)'
  <2>1. CASE ApplyPlan(g)
    <3>1. CASE handler[g].seen.plan \in plans
      <4>1. activations'[o] = activations[o] + 1
        BY <1>0, <1>4, <2>1, <3>1 DEF ApplyPlan
      <4> QED BY <1>0, <4>1 DEF Settled
    <3>2. CASE handler[g].seen.plan \notin plans
      <4>1. payments[o].plan = NoPlan
        BY <1>0, <1>4, <3>2 DEF Heeded, Activating, Busy
      <4> QED BY <4>1, PlanSteps DEF Settled
    <3> QED BY <3>1, <3>2
  <2>2. CASE ~ApplyPlan(g)
    <3>1. handler[g].pc \in {"read", "pick", "apply"} BY <1>4 DEF Activating
    <3>2. handler'[g] = handler[g] \/ ReadSubscription(g) \/ PickRow(g)
      BY <1>0, <2>2, <3>1, OwnStep
         DEF HandlerStep, RecordChannel, UpdateStatus, Receive, Busy
    <3>3. handler'[g].pc \in {"read", "pick", "apply"} /\ handler'[g].note = handler[g].note
      <4>1. CASE handler'[g] = handler[g] BY <3>1, <4>1
      <4>2. CASE ReadSubscription(g) \/ PickRow(g)
        <5>1. handler'[g].pc # "idle"
          <6>1. handler'[g].pc \in {"pick", "apply"}
            BY <1>0, <4>2, AdvancedFields DEF ReadSubscription, PickRow
          <6> QED BY <6>1
        <5> QED BY <1>0, <4>2, <5>1, OwnProgress DEF HandlerStep, Activating
      <4> QED BY <3>2, <4>1, <4>2
    <3> QED BY <1>4, <3>3 DEF Settled, Activating
  <2> QED BY <2>1, <2>2
<1> QED BY <1>2, <1>3, <1>4 DEF Settled

LEMMA HeededInit == Init => Heeded
BY DEF Init, Heeded, NoPayment, Busy, IdleHandler

LEMMA HeededNext ==
  ASSUME ~Faults, Sound, Heeded, [Next]_vars
  PROVE  Heeded'
<1>0. /\ Typing /\ Funded /\ handler \in [Handlers -> HandlerState]
      /\ \A h \in Handlers : handler[h].note.order \in Orders
  BY DEF Sound, Typing, TypeOK, HandlerState, Notification
<1>1. ASSUME NEW o \in Orders, payments'[o].status = "paid" PROVE Settled(o)'
  <2>1. CASE payments[o].status = "paid"
    BY <2>1, SettledKept DEF Heeded, Exists
  <2>2. CASE payments[o].status # "paid"
    <3>1. PICK h \in Handlers : RecordChannel(h) \/ UpdateStatus(h)
      BY <1>1, <2>2, StatusSteps DEF Exists
    <3>2. o = handler[h].note.order BY <1>0, <1>1, <2>2, <3>1, HandlerWrites
    <3>3. Exists(o) /\ Busy(h)
      BY <1>0, <3>1, <3>2 DEF Funded, HandlerOK, NoteOK, RecordChannel, UpdateStatus, Busy
    <3>4. CASE RecordChannel(h)
      BY <3>2, <3>3, <3>4, SettledKept DEF Heeded, RecordChannel
    <3>5. CASE UpdateStatus(h)
      <4>1. StatusOf(handler[h].note.kind) = "paid"
        BY <1>0, <1>1, <3>2, <3>5, HandlerWrites DEF UpdateStatus
      <4>2. CASE handler[h].seen.plan = NoPlan
        <5>1. payments[o].plan = NoPlan BY <3>2, <3>3, <4>2 DEF Heeded
        <5> QED BY <3>3, <5>1, PlanSteps DEF Settled
      <4>3. CASE handler[h].seen.plan # NoPlan
        <5>1. Advance(h, "read", Never, 0) BY <3>5, <4>1, <4>3 DEF UpdateStatus
        <5>2. handler'[h].pc = "read" BY <1>0, <5>1, AdvancedFields
        <5>3. handler'[h].note = handler[h].note
          BY <1>0, <3>5, <5>2, OwnProgress DEF HandlerStep
        <5> QED BY <3>2, <5>2, <5>3 DEF Settled, Activating
      <4> QED BY <4>2, <4>3
    <3> QED BY <3>1, <3>4, <3>5
  <2> QED BY <2>1, <2>2
<1>2. ASSUME NEW g \in Handlers, handler'[g].pc # "idle"
      PROVE  /\ payments'[handler'[g].note.order].plan \in {handler'[g].seen.plan, NoPlan}
             /\ handler'[g].pc = "channel" => Settled(handler[g].note.order)'
  <2>1. CASE handler'[g] = handler[g]
    <3>1. PICK o \in Orders : o = handler[g].note.order BY <1>0
    <3>2. Busy(g) /\ Exists(o)
      BY <1>0, <1>2, <2>1, <3>1 DEF Busy, Funded, HandlerOK, NoteOK
    <3>3. payments'[o].plan \in {handler[g].seen.plan, NoPlan}
      BY <3>1, <3>2, PlanSteps DEF Heeded
    <3>4. handler[g].pc = "channel" => Settled(o)'
      BY <3>1, <3>2, SettledKept DEF Heeded
    <3> QED BY <2>1, <3>1, <3>3, <3>4 DEF Settled
  <2>2. ASSUME NEW n \in unacked, Receive(g, n), handler'[g] # handler[g]
        PROVE  /\ payments'[handler'[g].note.order].plan \in {handler'[g].seen.plan, NoPlan}
               /\ handler'[g].pc = "channel" => Settled(handler[g].note.order)'
    <3>1. /\ handler'[g].note = n /\ handler'[g].seen = payments[n.order] /\ n.order \in Orders
          /\ handler'[g].pc = "channel" => AlreadyPaid(payments[n.order], n)
      BY <1>0, <2>2, Received
    <3>2. PICK o \in Orders : o = n.order BY <3>1
    <3>3. payments' = payments BY <2>2 DEF Receive, db
    <3>4. handler'[g].pc = "channel" => Settled(o)'
      BY <3>1, <3>2, SettledKept DEF Heeded, AlreadyPaid, Exists
    <3> QED BY <3>1, <3>2, <3>3, <3>4 DEF Settled
  <2>3. CASE HandlerStep(g) /\ handler'[g] # handler[g]
    <3>1. PICK o \in Orders : o = handler[g].note.order BY <1>0
    <3>2. /\ handler'[g].pc # "channel" /\ handler'[g].note = handler[g].note
          /\ handler'[g].seen = handler[g].seen
      BY <1>0, <1>2, <2>3, OwnProgress DEF Activating
    <3>3. Busy(g)
      BY <2>3 DEF HandlerStep, RecordChannel, UpdateStatus, ReadSubscription, PickRow,
                  ApplyPlan, Busy
    <3>4. Exists(o) BY <1>0, <3>1, <3>3 DEF Busy, Funded, HandlerOK, NoteOK
    <3>5. payments'[o].plan \in {handler[g].seen.plan, NoPlan}
      BY <3>1, <3>3, <3>4, PlanSteps DEF Heeded
    <3> QED BY <3>1, <3>2, <3>5
  <2> QED BY <1>0, <2>1, <2>2, <2>3, OwnStep
<1>3. /\ \A o \in Orders : payments'[o].status = "paid" => Settled(o)'
      /\ \A h \in Handlers : handler'[h].pc # "idle" =>
           payments'[handler'[h].note.order].plan \in {handler'[h].seen.plan, NoPlan}
      /\ \A h \in Handlers : handler'[h].pc = "channel" => Settled(handler[h].note.order)'
  BY <1>1, <1>2
<1> QED BY <1>3 DEF Heeded, Busy, Settled

\* The skip of a second "paid" relies on the first one's activation.  Without
\* faults it may: in whatever order and however often notifications come, and
\* however many are handled at once, a paid order that nobody works on has
\* activated its plan.  So only a failed or interrupted activation is lost.
THEOREM LostOnlyByFaults ==
  ASSUME ~Faults
  PROVE  Spec => []PaidMeansActivated
<1>1. Heeded => PaidMeansActivated
  BY DEF Heeded, Settled, PaidMeansActivated, Activating, Busy
<1>2. Spec => [](Sound /\ Heeded)
  BY SoundInit, SoundNext, HeededInit, HeededNext, PTL DEF Spec
<1> QED BY <1>1, <1>2, PTL
=============================================================================
