--------------------------- MODULE Billing_proofs ---------------------------
(* Proofs about Billing: its types, and that a paid subscription is always *)
(* backed by a charge, for every number of requests, orders and months.    *)
EXTENDS Billing, FiniteSetTheorems, SequenceTheorems, TLAPS

\* The row an activation is about to write is a row of the table.
RowsExist == \A h \in Handlers : handler[h].pc = "apply" => handler[h].row \in 1..Len(subs)

Typing == TypeOK /\ RowsExist

LEMMA StatusTyped == \A k \in MidtransState : StatusOf(k) \in PaymentStatus
BY DEF StatusOf, MidtransState, PaymentStatus

LEMMA PaymentFacts ==
  /\ NoPayment \in Payment
  /\ FreeSub \in Sub
  /\ IdleHandler \in HandlerState /\ IdleHandler.pc = "idle"
  /\ IdleCheckout \in CheckoutState /\ IdleCheckout.pc = "idle"
  /\ \A p \in Plans, e \in Nat : [plan |-> p, status |-> "active", expires |-> e] \in Sub
BY BillingAssumption
   DEF NoPayment, Payment, PaymentStatus, FreeSub, Sub, Never, IdleHandler, HandlerState,
       NoNote, Notification, MidtransState, Orders, IdleCheckout, CheckoutState

\* What the statements on a payment row keep and set.
LEMMA PaymentUpdated ==
  ASSUME NEW r \in Payment, NEW s \in PaymentStatus, NEW d \in BOOLEAN, NEW u \in BOOLEAN,
         NEW m \in {"", "midtrans", "specific"}
  PROVE  LET q == Updated(r, s, d, u, m)
         IN  q \in Payment /\ q.plan = r.plan /\ q.status = s /\ q.paidAt = d
BY DEF Payment, Updated

LEMMA PaymentOrphaned ==
  ASSUME NEW r \in Payment
  PROVE  LET q == Orphaned(r)
         IN  q \in Payment /\ q.plan = NoPlan /\ q.status = r.status /\ q.paidAt = r.paidAt
BY DEF Payment, Orphaned

LEMMA PaymentCreated ==
  ASSUME NEW p \in Plans \cup {NoPlan}, NEW y \in {"monthly", "yearly"}
  PROVE  LET q == NewPayment(p, y)
         IN  q \in Payment /\ q.plan = p /\ q.status = "pending" /\ q.paidAt = FALSE
BY DEF Payment, NewPayment, NoPayment, PaymentStatus

LEMMA CheckoutPlaced ==
  ASSUME NEW r \in CheckoutState, NEW o \in Orders
  PROVE  LET q == Placed(r, o)
         IN  q \in CheckoutState /\ q.pc = "snap" /\ q.order = o
BY DEF CheckoutState, Placed

LEMMA AdvanceTyped ==
  ASSUME Typing, NEW h \in Handlers, NEW pc \in {"read", "pick", "apply"},
         NEW e \in Nat, NEW w \in Nat, Advance(h, pc, e, w), UNCHANGED subs,
         pc = "apply" => w \in 1..Len(subs)
  PROVE  handler' \in [Handlers -> HandlerState] /\ RowsExist'
<1>1. handler \in [Handlers -> HandlerState] BY DEF Typing, TypeOK
<1>2. handler' = [handler EXCEPT ![h] = Advanced(handler[h], pc, e, w)] BY DEF Advance
<1>3. /\ Advanced(handler[h], pc, e, w) \in HandlerState
      /\ Advanced(handler[h], pc, e, w).pc = pc /\ Advanced(handler[h], pc, e, w).row = w
  <2>1. handler[h] \in HandlerState BY <1>1
  <2> QED BY <2>1 DEF HandlerState, Advanced
<1> DEFINE q == Advanced(handler[h], pc, e, w)
<1> HIDE DEF q
<1>4. handler' = [handler EXCEPT ![h] = q] /\ q \in HandlerState /\ q.pc = pc /\ q.row = w
  BY <1>2, <1>3 DEF q
<1>5. handler' \in [Handlers -> HandlerState] BY <1>1, <1>4
<1>6. ASSUME NEW g \in Handlers, handler'[g].pc = "apply"
      PROVE  handler'[g].row \in 1..Len(subs')
  <2>1. CASE g = h BY <1>1, <1>4, <1>6, <2>1
  <2>2. CASE g # h
    <3>1. handler'[g] = handler[g] BY <1>1, <1>4, <2>2
    <3> QED BY <1>6, <3>1 DEF Typing, RowsExist
  <2> QED BY <2>1, <2>2
<1> QED BY <1>5, <1>6 DEF RowsExist

LEMMA HandlerStarted ==
  ASSUME NEW pc \in {"channel", "update"}, NEW n \in Notification, NEW p \in Payment
  PROVE  LET q == Started(pc, n, p)
         IN  q \in HandlerState /\ q.pc = pc /\ q.note = n /\ q.seen = p
BY DEF HandlerState, Started, Never

\* The expiry statement keeps every row and appends free ones.
LEMMA ExpireRows ==
  ASSUME Typing, ExpireEnded
  PROVE  /\ subs' \in Seq(Sub) /\ Len(subs') > Len(subs)
         /\ \A i \in 1..Len(subs) : subs'[i].plan = subs[i].plan
         /\ \A i \in 1..Len(subs') : i > Len(subs) => subs'[i] = FreeSub
<1> DEFINE aged  == [i \in 1..Len(subs) |-> IF i \in DueRows
                                            THEN [subs[i] EXCEPT !.status = "expired"]
                                            ELSE subs[i]]
           n     == Cardinality(DueRows)
           fresh == [i \in 1..n |-> FreeSub]
<1>1. subs \in Seq(Sub) /\ Len(subs) \in Nat
  BY LenProperties DEF Typing, TypeOK
<1>2. n \in Nat /\ n > 0
  <2>1. IsFiniteSet(1..Len(subs)) BY <1>1, FS_Interval
  <2>2. DueRows \in SUBSET (1..Len(subs)) BY DEF DueRows
  <2>3. IsFiniteSet(DueRows) BY <2>1, <2>2, FS_Subset
  <2>4. n \in Nat BY <2>3, FS_CardinalityType
  <2>5. n # 0 BY <2>3, FS_EmptySet DEF ExpireEnded
  <2> QED BY <2>4, <2>5
<1>3. aged \in Seq(Sub) /\ Len(aged) = Len(subs)
  <2>1. ASSUME NEW i \in 1..Len(subs)
        PROVE  /\ subs[i] \in Sub
               /\ [subs[i] EXCEPT !.status = "expired"] \in Sub
    <3>1. subs[i] \in Sub BY <1>1, ElementOfSeq
    <3> QED BY <3>1 DEF Sub
  <2>2. aged \in [1..Len(subs) -> Sub] BY <2>1
  <2> QED BY <1>1, <2>2, SeqDef
<1>4. fresh \in Seq(Sub) /\ Len(fresh) = n
  BY <1>2, PaymentFacts
<1>5. ASSUME NEW i \in 1..Len(subs) PROVE aged[i].plan = subs[i].plan
  <2>1. subs[i] \in Sub BY <1>1, ElementOfSeq
  <2> QED BY <2>1 DEF Sub
<1>6. subs' = aged \o fresh BY DEF ExpireEnded
<1> HIDE DEF aged, fresh, n
<1>7. /\ subs' \in Seq(Sub)
      /\ Len(subs') = Len(subs) + n
      /\ \A i \in 1..(Len(subs) + n) :
            subs'[i] = IF i <= Len(subs) THEN aged[i] ELSE fresh[i - Len(subs)]
  <2>1. /\ aged \o fresh \in Seq(Sub)
        /\ Len(aged \o fresh) = Len(aged) + Len(fresh)
        /\ \A i \in 1..Len(aged) + Len(fresh) : (aged \o fresh)[i] =
             IF i <= Len(aged) THEN aged[i] ELSE fresh[i - Len(aged)]
    BY <1>3, <1>4, ConcatProperties
  <2> QED BY <1>3, <1>4, <1>6, <2>1
<1>8. ASSUME NEW i \in 1..Len(subs'), i > Len(subs) PROVE subs'[i] = FreeSub
  <2>1. i - Len(subs) \in 1..n BY <1>1, <1>2, <1>7, <1>8
  <2> QED BY <1>1, <1>2, <1>7, <1>8, <2>1 DEF fresh
<1> QED BY <1>1, <1>2, <1>5, <1>7, <1>8

LEMMA TypingInit == Init => Typing
<1> SUFFICES ASSUME Init PROVE Typing
  OBVIOUS
<1>1. subs \in Seq(Sub) /\ subs # <<>>
  <2>1. FreeSub \in Sub BY PaymentFacts
  <2> QED BY <2>1 DEF Init
<1>2. /\ payments \in [Orders -> Payment]
      /\ handler \in [Handlers -> HandlerState]
      /\ RowsExist
  BY PaymentFacts DEF Init, RowsExist
<1>3. checkout \in [Checkouts -> CheckoutState]
  BY BillingAssumption DEF Init, IdleCheckout, CheckoutState, Orders
<1>4. mt \in [Orders -> MidtransState]
  BY DEF Init, MidtransState
<1>5. profile \in [Profiles -> ProfileState]
  BY DEF Init, ProfileState, IdleProfile
<1> QED
  BY <1>1, <1>2, <1>3, <1>4, <1>5, BillingAssumption DEF Init, Typing, TypeOK

LEMMA TypingNext == Typing /\ [Next]_vars => Typing'
<1> SUFFICES ASSUME Typing, [Next]_vars PROVE Typing'
  OBVIOUS
<1> USE DEF Typing, db, ext, hist
<1>0. subs \in Seq(Sub) /\ Len(subs) \in Nat \ {0} /\ Len(subs) \in 1..Len(subs)
  BY EmptySeq, LenProperties DEF TypeOK
<1>1. ASSUME NEW c \in Checkouts, ReuseInvoice(c) PROVE Typing'
  BY <1>1 DEF ReuseInvoice, TypeOK, RowsExist
<1>2. ASSUME NEW c \in Checkouts, NEW p \in plans, NEW y \in Cycles, StartInvoice(c, p, y)
      PROVE  Typing'
  <2>1. PICK b \in BOOLEAN : Starting(c, p, y, b)
    BY <1>2 DEF StartInvoice, OthersUnderWay
  <2>2. checkout' \in [Checkouts -> CheckoutState]
    BY <2>1, BillingAssumption DEF Starting, TypeOK, CheckoutState, Orders
  <2> QED BY <1>2, <2>2 DEF StartInvoice, TypeOK, RowsExist
<1>3. ASSUME NEW c \in Checkouts, CreatePayment(c) PROVE Typing'
  <2>1. CASE checkout[c].plan \in plans
    <3>1. PICK o \in Orders :
            /\ payments' = [payments EXCEPT ![o] =
                              NewPayment(checkout[c].plan, checkout[c].cycle)]
            /\ checkout' = [checkout EXCEPT ![c] = Placed(@, o)]
      BY <1>3, <2>1 DEF CreatePayment
    <3>2. NewPayment(checkout[c].plan, checkout[c].cycle) \in Payment
      BY PaymentCreated DEF TypeOK, CheckoutState
    <3>3. payments' \in [Orders -> Payment]
      BY <3>1, <3>2 DEF TypeOK
    <3>4. checkout' \in [Checkouts -> CheckoutState]
      BY <3>1, CheckoutPlaced DEF TypeOK
    <3> QED BY <1>3, <3>3, <3>4 DEF CreatePayment, TypeOK, RowsExist
  <2>2. CASE checkout[c].plan \notin plans
    <3>1. checkout' = [checkout EXCEPT ![c] = IdleCheckout] /\ payments' = payments
      BY <1>3, <2>2 DEF CreatePayment
    <3>2. checkout' \in [Checkouts -> CheckoutState]
      BY <3>1, PaymentFacts DEF TypeOK
    <3> QED BY <1>3, <3>1, <3>2 DEF CreatePayment, TypeOK, RowsExist
  <2> QED BY <2>1, <2>2
<1>4. ASSUME NEW c \in Checkouts, SnapAccepts(c) PROVE Typing'
  BY <1>4 DEF SnapAccepts, TypeOK, RowsExist, CheckoutState, MidtransState
<1>5. ASSUME NEW c \in Checkouts, SnapFails(c) PROVE Typing'
  BY <1>5, PaymentFacts DEF SnapFails, TypeOK, RowsExist
<1>6. ASSUME NEW c \in Checkouts, SaveRedirectURL(c) PROVE Typing'
  <2>1. payments' \in [Orders -> Payment]
    <3>1. checkout[c].order \in Orders /\ "pending" \in PaymentStatus
      BY DEF TypeOK, CheckoutState, PaymentStatus
    <3>2. Updated(payments[checkout[c].order], "pending", FALSE, TRUE, "") \in Payment
      BY <3>1, PaymentUpdated, Zenon DEF TypeOK
    <3> QED BY <1>6, <3>1, <3>2 DEF SaveRedirectURL, UpdatePayment, TypeOK
  <2>2. checkout' \in [Checkouts -> CheckoutState] /\ handedOut' \subseteq Orders
    <3>1. checkout[c].order \in Orders BY DEF TypeOK, CheckoutState
    <3> QED BY <1>6, <3>1, PaymentFacts DEF SaveRedirectURL, TypeOK
  <2> QED BY <1>6, <2>1, <2>2 DEF SaveRedirectURL, TypeOK, RowsExist
<1>7. ASSUME NEW c \in Checkouts, CheckoutDies(c) PROVE Typing'
  BY <1>7, PaymentFacts DEF CheckoutDies, TypeOK, RowsExist
<1>8. ASSUME NEW o \in Orders, NEW k \in MidtransState, NEW ch \in Channels,
             MidtransMoves(o, k, ch)
      PROVE  Typing'
  <2>1. [order |-> o, kind |-> k, channel |-> ch] \in Notification
    BY BillingAssumption DEF Notification
  <2> QED BY <1>8, <2>1 DEF MidtransMoves, TypeOK, RowsExist
<1>9. ASSUME NEW h \in Handlers, NEW n \in unacked, Receive(h, n) PROVE Typing'
  <2>1. n \in Notification /\ payments[n.order] \in Payment
    BY DEF TypeOK, Notification
  <2>2. handler' \in [Handlers -> HandlerState] /\ unacked' \subseteq Notification
    <3>1. \/ handler' = handler
          \/ \E pc \in {"channel", "update"} :
               handler' = [handler EXCEPT ![h] = Started(pc, n, payments[n.order])]
      BY <1>9 DEF Receive
    <3>2. unacked' \subseteq unacked BY <1>9 DEF Receive
    <3>3. \A pc \in {"channel", "update"} : Started(pc, n, payments[n.order]) \in HandlerState
      BY <2>1, HandlerStarted
    <3>4. handler \in [Handlers -> HandlerState] /\ unacked \subseteq Notification
      BY DEF TypeOK
    <3>5. handler' \in [Handlers -> HandlerState]
      <4>1. CASE handler' = handler BY <3>4, <4>1
      <4>2. ASSUME NEW q \in HandlerState, handler' = [handler EXCEPT ![h] = q]
            PROVE  handler' \in [Handlers -> HandlerState]
        BY <3>4, <4>2
      <4> QED BY <3>1, <3>3, <4>1, <4>2
    <3> QED BY <3>2, <3>4, <3>5
  <2>3. subs' = subs /\ \A g \in Handlers : handler'[g].pc = "apply" => handler'[g] = handler[g]
    BY <1>9, <2>1, HandlerStarted DEF Receive, TypeOK
  <2>4. RowsExist'
    BY <2>3 DEF RowsExist
  <2> QED BY <1>9, <2>2, <2>4 DEF Receive, TypeOK
<1>10. ASSUME NEW h \in Handlers
       PROVE  /\ Idle(h) \in [Handlers -> HandlerState]
              /\ \A g \in Handlers : Idle(h)[g].pc = "apply" => Idle(h)[g] = handler[g]
  BY PaymentFacts DEF Idle, TypeOK
<1>11. ASSUME NEW h \in Handlers, RecordChannel(h) PROVE Typing'
  <2>1. payments' \in [Orders -> Payment]
    <3>1. /\ handler[h].note.order \in Orders /\ "paid" \in PaymentStatus
          /\ handler[h].note.channel \in {"midtrans", "specific"}
          /\ handler[h].seen.paidAt \in BOOLEAN
      BY DEF TypeOK, HandlerState, Notification, Payment, PaymentStatus
    <3> QED BY <1>11, <3>1, PaymentUpdated DEF RecordChannel, UpdatePayment, TypeOK
  <2> QED BY <1>10, <1>11, <2>1 DEF RecordChannel, Respond, TypeOK, RowsExist
<1>12. ASSUME NEW h \in Handlers, UpdateStatus(h) PROVE Typing'
  <2>1. handler[h].note \in Notification /\ StatusOf(handler[h].note.kind) \in PaymentStatus
    BY StatusTyped DEF TypeOK, HandlerState, Notification
  <2>2. payments' \in [Orders -> Payment]
    <3>1. handler[h].note.order \in Orders /\ handler[h].note.channel \in {"midtrans", "specific"}
      BY <2>1 DEF Notification
    <3> QED BY <1>12, <2>1, <3>1, PaymentUpdated DEF UpdateStatus, UpdatePayment, TypeOK
  <2>3. /\ handler' \in [Handlers -> HandlerState] /\ unacked' \subseteq Notification
        /\ RowsExist'
    <3>1. CASE handler' = Idle(h)
      BY <1>10, <1>12, <3>1 DEF UpdateStatus, Respond, TypeOK, RowsExist
    <3>2. CASE Advance(h, "read", Never, 0) /\ UNCHANGED unacked
      BY <1>12, <3>2, AdvanceTyped DEF UpdateStatus, TypeOK, Never
    <3> QED BY <1>12, <3>1, <3>2 DEF UpdateStatus, Respond
  <2>4. undone' \in [Orders -> Nat]
    <3>1. handler[h].note.order \in Orders BY <2>1 DEF Notification
    <3> QED BY <1>12, <3>1 DEF UpdateStatus, TypeOK
  <2> QED BY <1>12, <2>2, <2>3, <2>4 DEF UpdateStatus, TypeOK
<1>13. ASSUME NEW h \in Handlers, ReadSubscription(h) PROVE Typing'
  <2>1. Latest \in Sub BY <1>0, ElementOfSeq DEF Latest
  <2>2. \A e \in Nat : e + Months(handler[h].seen.cycle) \in Nat
    BY DEF Months
  <2>3. now \in Nat /\ Latest.expires \in Nat
    BY <2>1 DEF TypeOK, Sub
  <2>4. PICK e \in Nat : Advance(h, "pick", e, 0)
    BY <1>13, <2>2, <2>3 DEF ReadSubscription
  <2>5. /\ handler' \in [Handlers -> HandlerState]
        /\ RowsExist'
    BY <1>13, <2>4, AdvanceTyped DEF ReadSubscription
  <2> QED BY <1>13, <2>5 DEF ReadSubscription, TypeOK
<1>14. ASSUME NEW h \in Handlers, PickRow(h) PROVE Typing'
  <2>1. handler[h] \in HandlerState /\ handler[h].expires \in Nat
    BY DEF TypeOK, HandlerState
  <2>2. handler' \in [Handlers -> HandlerState] /\ RowsExist'
    BY <1>0, <1>14, <2>1, AdvanceTyped DEF PickRow
  <2> QED BY <1>14, <2>2 DEF PickRow, TypeOK
<1>15. ASSUME NEW h \in Handlers, ApplyPlan(h) PROVE Typing'
  <2>1. /\ subs' \in Seq(Sub) /\ Len(subs') = Len(subs)
        /\ userPlan' \in Plans \cup {Free}
        /\ activations' \in [Orders -> Nat]
    <3>1. CASE handler[h].seen.plan \in plans
      <4> DEFINE row == [plan |-> handler[h].seen.plan, status |-> "active",
                         expires |-> handler[h].expires]
      <4>1. row \in Sub BY <3>1, PaymentFacts DEF TypeOK, HandlerState
      <4>2. handler[h].row \in 1..Len(subs) BY <1>15 DEF ApplyPlan, RowsExist
      <4>3. subs' = [subs EXCEPT ![handler[h].row] = row] BY <1>15, <3>1 DEF ApplyPlan
      <4> HIDE DEF row
      <4>4. subs' \in Seq(Sub) /\ Len(subs') = Len(subs)
        BY <1>0, <4>1, <4>2, <4>3, ExceptSeq
      <4>5. handler[h].note.order \in Orders BY DEF TypeOK, HandlerState, Notification
      <4>6. userPlan' \in Plans \cup {Free} BY <1>15, <3>1 DEF ApplyPlan, TypeOK
      <4>7. activations' \in [Orders -> Nat] BY <1>15, <3>1, <4>5 DEF ApplyPlan, TypeOK
      <4> QED BY <4>4, <4>6, <4>7
    <3>2. CASE handler[h].seen.plan \notin plans
      BY <1>15, <3>2 DEF ApplyPlan, TypeOK
    <3> QED BY <3>1, <3>2
  <2>2. subs' # <<>> BY <1>0, <2>1, EmptySeq
  <2>3. overtaken' \subseteq Handlers BY <1>15 DEF ApplyPlan, Computed, TypeOK
  <2> QED BY <1>10, <1>15, <2>1, <2>2, <2>3 DEF ApplyPlan, Respond, TypeOK, RowsExist
<1>16. ASSUME NEW h \in Handlers, HandlerFails(h) PROVE Typing'
  BY <1>10, <1>16 DEF HandlerFails, Respond, TypeOK, RowsExist
<1>17. ASSUME NEW h \in Handlers, HandlerDies(h) PROVE Typing'
  BY <1>10, <1>17 DEF HandlerDies, TypeOK, RowsExist
<1>18. CASE ExpireEnded
  <2>1. subs' \in Seq(Sub) /\ Len(subs') > Len(subs) BY <1>18, ExpireRows
  <2>2. subs' # <<>> /\ Len(subs') \in Nat BY <1>0, <2>1, EmptySeq, LenProperties
  <2>3. RowsExist'
    <3>1. handler' = handler BY <1>18 DEF ExpireEnded
    <3> QED BY <1>0, <2>1, <2>2, <3>1 DEF RowsExist
  <2> QED BY <1>18, <2>1, <2>2, <2>3 DEF ExpireEnded, TypeOK
<1>19. ASSUME NEW p \in Plans, DeletePlan(p) PROVE Typing'
  <2>1. payments' \in [Orders -> Payment]
    BY <1>19, PaymentOrphaned DEF DeletePlan, TypeOK
  <2> QED BY <1>19, <2>1 DEF DeletePlan, TypeOK, RowsExist
<1>20. CASE Tick
  BY <1>20, BillingAssumption DEF Tick, TypeOK, RowsExist
<1>21. CASE UNCHANGED vars
  BY <1>21 DEF vars, TypeOK, RowsExist
<1>22. ASSUME NEW f \in Profiles, ReadProfile(f) PROVE Typing'
  <2>1. profile' \in [Profiles -> ProfileState]
    BY <1>22 DEF ReadProfile, ProfileState, TypeOK
  <2> QED BY <1>22, <2>1 DEF ReadProfile, TypeOK, RowsExist
<1>23. ASSUME NEW f \in Profiles, WriteProfile(f) PROVE Typing'
  <2>1. profile' \in [Profiles -> ProfileState]
    BY <1>23 DEF WriteProfile, IdleProfile, ProfileState, TypeOK
  <2>2. userPlan' \in Plans \cup {Free}
    BY <1>23 DEF WriteProfile, TypeOK
  <2> QED BY <1>23, <2>1, <2>2 DEF WriteProfile, TypeOK, RowsExist
<1> QED
  BY <1>1, <1>2, <1>3, <1>4, <1>5, <1>6, <1>7, <1>8, <1>9, <1>11, <1>12, <1>13, <1>14,
     <1>15, <1>16, <1>17, <1>18, <1>19, <1>20, <1>21, <1>22, <1>23
     DEF Next, CheckoutStep, HandlerStep

\* Every reachable state of every instance is well typed.
THEOREM TypeCorrect == Spec => []TypeOK
<1>1. Spec => []Typing
  BY TypingInit, TypingNext, PTL DEF Spec
<1>2. Typing => TypeOK BY DEF Typing
<1> QED BY <1>1, <1>2, PTL

----------------------------------------------------------------------------
(* A paid subscription is backed by a charge.  The invariant follows the   *)
(* money through the handlers: a notification of a payment is about a      *)
(* charged order, and the plan a handler remembers, while it exists, is    *)
(* still the plan of its order.                                            *)

Exists(o) == payments[o].status # "none"
NoteOK(n) == Exists(n.order) /\ (StatusOf(n.kind) = "paid" => n.order \in charged)
HandlerOK(r) ==
  r.pc # "idle" =>
    /\ NoteOK(r.note)
    /\ r.seen.plan \in plans => payments[r.note.order].plan = r.seen.plan
    /\ r.pc \in {"read", "pick", "apply"} => StatusOf(r.note.kind) = "paid"
CheckoutOK(r) == r.pc \in {"snap", "save"} => Exists(r.order)
SubOK(s) ==
  /\ s.plan \in plans \cup {Free}
  /\ s.plan # Free => \E o \in charged : payments[o].plan = s.plan

Funded ==
  /\ \A n \in unacked : NoteOK(n)
  /\ \A h \in Handlers : HandlerOK(handler[h])
  /\ \A c \in Checkouts : CheckoutOK(checkout[c])
  /\ \A o \in handedOut \cup charged : Exists(o)
  /\ \A o \in Orders : payments[o].plan \in plans \cup {NoPlan}
  /\ \A i \in 1..Len(subs) : SubOK(subs[i])

\* What every step but a plan deletion does to the orders and charges.
KeepsOrders ==
  /\ plans' = plans
  /\ charged \subseteq charged'
  /\ \A o \in Orders : Exists(o) =>
       payments'[o].status # "none" /\ payments'[o].plan = payments[o].plan

LEMMA Kept ==
  ASSUME Typing, Typing', Funded, KeepsOrders
  PROVE  /\ \A n \in Notification : NoteOK(n) => NoteOK(n)'
         /\ \A r \in HandlerState : HandlerOK(r) => HandlerOK(r)'
         /\ \A r \in CheckoutState : CheckoutOK(r) => CheckoutOK(r)'
         /\ \A s \in Sub : SubOK(s) => SubOK(s)'
<1>1. ASSUME NEW n \in Notification, NoteOK(n) PROVE NoteOK(n)'
  <2>1. n.order \in Orders BY DEF Notification
  <2> QED BY <1>1, <2>1 DEF NoteOK, Exists, KeepsOrders
<1>2. ASSUME NEW r \in HandlerState, HandlerOK(r) PROVE HandlerOK(r)'
  <2>1. r.note \in Notification /\ r.note.order \in Orders
    BY DEF HandlerState, Notification
  <2>2. CASE r.pc = "idle" BY <2>2 DEF HandlerOK
  <2>3. CASE r.pc # "idle"
    <3>1. NoteOK(r.note) /\ NoteOK(r.note)' BY <1>1, <1>2, <2>1, <2>3 DEF HandlerOK
    <3>2. payments'[r.note.order].plan = payments[r.note.order].plan /\ plans' = plans
      BY <2>1, <3>1 DEF NoteOK, KeepsOrders
    <3> QED BY <1>2, <3>1, <3>2 DEF HandlerOK
  <2> QED BY <2>2, <2>3
<1>3. ASSUME NEW r \in CheckoutState, CheckoutOK(r) PROVE CheckoutOK(r)'
  <2>1. r.order \in Orders BY DEF CheckoutState
  <2> QED BY <1>3, <2>1 DEF CheckoutOK, Exists, KeepsOrders
<1>4. ASSUME NEW s \in Sub, SubOK(s) PROVE SubOK(s)'
  <2>1. \A o \in charged : o \in charged' /\ payments'[o].plan = payments[o].plan
    BY DEF Typing, TypeOK, Funded, KeepsOrders
  <2> QED BY <1>4, <2>1 DEF SubOK, KeepsOrders
<1> QED BY <1>1, <1>2, <1>3, <1>4

LEMMA FundedFrame ==
  ASSUME Typing, Typing', Funded, KeepsOrders,
         \A n \in unacked' : n \in unacked \/ NoteOK(n)',
         \A h \in Handlers : handler'[h] = handler[h] \/ HandlerOK(handler[h])',
         \A c \in Checkouts : checkout'[c] = checkout[c] \/ CheckoutOK(checkout[c])',
         \A o \in handedOut' : o \in handedOut \/ payments'[o].status # "none",
         charged' \subseteq charged \cup handedOut,
         \A o \in Orders : payments'[o].plan = payments[o].plan \/ payments'[o].plan \in plans,
         subs' = subs \/ \A i \in 1..Len(subs') : SubOK(subs[i])'
  PROVE  Funded'
<1>1. ASSUME NEW n \in unacked' PROVE NoteOK(n)'
  BY Kept DEF Typing, TypeOK, Funded
<1>2. ASSUME NEW h \in Handlers PROVE HandlerOK(handler[h])'
  <2>1. handler[h] \in HandlerState /\ HandlerOK(handler[h]) BY DEF Typing, TypeOK, Funded
  <2>2. CASE handler'[h] = handler[h]
    BY <2>1, <2>2, Kept DEF HandlerOK
  <2> QED BY <2>2
<1>3. ASSUME NEW c \in Checkouts PROVE CheckoutOK(checkout[c])'
  <2>1. checkout[c] \in CheckoutState /\ CheckoutOK(checkout[c]) BY DEF Typing, TypeOK, Funded
  <2>2. CASE checkout'[c] = checkout[c]
    BY <2>1, <2>2, Kept DEF CheckoutOK
  <2> QED BY <2>2
<1>4. ASSUME NEW o \in handedOut' \cup charged' PROVE Exists(o)'
  <2>1. o \in Orders BY DEF Typing, TypeOK
  <2> QED BY <2>1 DEF Funded, Exists, KeepsOrders
<1>5. ASSUME NEW o \in Orders PROVE payments'[o].plan \in plans' \cup {NoPlan}
  BY DEF Funded, KeepsOrders
<1>6. ASSUME NEW i \in 1..Len(subs') PROVE SubOK(subs[i])'
  <2>1. CASE subs' = subs
    <3>1. subs[i] \in Sub /\ SubOK(subs[i])
      <4>1. subs \in Seq(Sub) /\ i \in 1..Len(subs) BY <2>1 DEF Typing, TypeOK
      <4> QED BY <4>1, ElementOfSeq DEF Funded
    <3> QED BY <2>1, <3>1, Kept DEF SubOK
  <2> QED BY <2>1
<1> QED BY <1>1, <1>2, <1>3, <1>4, <1>5, <1>6 DEF Funded

\* A payment row rewritten by UpdateStatusByExternalID keeps its plan.
LEMMA UpdateKeepsOrders ==
  ASSUME Typing, NEW o \in Orders, NEW s \in PaymentStatus, NEW d \in BOOLEAN,
         NEW u \in BOOLEAN, NEW m \in {"", "midtrans", "specific"},
         UpdatePayment(o, s, d, u, m)
  PROVE  \A q \in Orders : /\ payments'[q].plan = payments[q].plan
                           /\ Exists(q) => payments'[q].status # "none"
                           /\ q = o => payments'[q].status # "none"
<1>1. payments \in [Orders -> Payment] BY DEF Typing, TypeOK
<1>2. payments' = [payments EXCEPT ![o] = Updated(payments[o], s, d, u, m)]
  BY DEF UpdatePayment
<1>3. /\ Updated(payments[o], s, d, u, m).plan = payments[o].plan
      /\ Updated(payments[o], s, d, u, m).status = s
  <2>1. PICK r \in Payment : r = payments[o] BY <1>1
  <2>2. Updated(r, s, d, u, m).plan = r.plan /\ Updated(r, s, d, u, m).status = s
    BY DEF Payment, Updated
  <2> QED BY <2>1, <2>2
<1>4. s # "none" BY DEF PaymentStatus
<1> QED BY <1>1, <1>2, <1>3, <1>4 DEF Exists

LEMMA AdvanceKeeps ==
  ASSUME Typing, NEW h \in Handlers, NEW pc \in {"read", "pick", "apply"},
         NEW e \in Nat, NEW w \in Nat, Advance(h, pc, e, w)
  PROVE  \A g \in Handlers :
           \/ handler'[g] = handler[g]
           \/ /\ g = h /\ handler'[g].pc = pc
              /\ handler'[g].note = handler[g].note /\ handler'[g].seen = handler[g].seen
<1>1. handler \in [Handlers -> HandlerState] BY DEF Typing, TypeOK
<1>2. handler' = [handler EXCEPT ![h] = Advanced(handler[h], pc, e, w)] BY DEF Advance
<1>3. /\ Advanced(handler[h], pc, e, w).pc = pc
      /\ Advanced(handler[h], pc, e, w).note = handler[h].note
      /\ Advanced(handler[h], pc, e, w).seen = handler[h].seen
  <2>1. handler[h] \in HandlerState BY <1>1
  <2> QED BY <2>1 DEF HandlerState, Advanced
<1> QED BY <1>1, <1>2, <1>3

LEMMA FundedInit == Init => Funded
BY PaymentFacts
   DEF Init, Funded, NoteOK, HandlerOK, CheckoutOK, SubOK, Exists, NoPayment, FreeSub

LEMMA FundedNext == Typing /\ Typing' /\ Funded /\ [Next]_vars => Funded'
<1> SUFFICES ASSUME Typing, Typing', Funded, [Next]_vars PROVE Funded'
  OBVIOUS
<1> USE DEF db, ext, hist
<1>0. /\ handler \in [Handlers -> HandlerState] /\ checkout \in [Checkouts -> CheckoutState]
      /\ payments \in [Orders -> Payment]
  BY DEF Typing, TypeOK
<1>1. ASSUME NEW c \in Checkouts, ReuseInvoice(c) PROVE Funded'
  <2>1. \A o \in handedOut' : o \in handedOut \/ payments'[o].status # "none"
    BY <1>1 DEF ReuseInvoice, IsLatestPending, Pending
  <2>2. KeepsOrders BY <1>1 DEF ReuseInvoice, KeepsOrders, Exists
  <2> QED BY <1>1, <2>1, <2>2, FundedFrame DEF ReuseInvoice
<1>2. ASSUME NEW c \in Checkouts, NEW p \in plans, NEW y \in Cycles, StartInvoice(c, p, y)
      PROVE  Funded'
  <2>1. KeepsOrders BY <1>2 DEF StartInvoice, KeepsOrders, Exists
  <2>2. \A d \in Checkouts : checkout'[d] = checkout[d] \/ CheckoutOK(checkout[d])'
    <3>1. PICK b \in BOOLEAN : Starting(c, p, y, b)
      BY <1>2 DEF StartInvoice, OthersUnderWay
    <3> QED BY <1>0, <3>1 DEF Starting, CheckoutOK
  <2> QED BY <1>2, <2>1, <2>2, FundedFrame DEF StartInvoice
<1>3. ASSUME NEW c \in Checkouts, CreatePayment(c) PROVE Funded'
  <2>1. CASE checkout[c].plan \in plans
    <3>1. PICK o \in Orders \ Existing :
            /\ payments' = [payments EXCEPT ![o] =
                              NewPayment(checkout[c].plan, checkout[c].cycle)]
            /\ checkout' = [checkout EXCEPT ![c] = Placed(checkout[c], o)]
      BY <1>3, <2>1 DEF CreatePayment
    <3>2. /\ NewPayment(checkout[c].plan, checkout[c].cycle).plan = checkout[c].plan
          /\ NewPayment(checkout[c].plan, checkout[c].cycle).status = "pending"
      <4>1. checkout[c].plan \in Plans \cup {NoPlan} /\ checkout[c].cycle \in {"monthly", "yearly"}
        BY <1>0 DEF CheckoutState
      <4> QED BY <4>1, PaymentCreated
    <3>3. Placed(checkout[c], o).order = o BY <1>0, <3>1, CheckoutPlaced
    <3>4. payments'[o].status # "none" /\ payments'[o].plan \in plans
      BY <1>0, <2>1, <3>1, <3>2
    <3>5. \A q \in Orders : q # o => payments'[q] = payments[q] BY <1>0, <3>1
    <3>6. KeepsOrders
      BY <1>3, <3>1, <3>5 DEF CreatePayment, KeepsOrders, Exists, Existing
    <3>7. \A d \in Checkouts : checkout'[d] = checkout[d] \/ CheckoutOK(checkout[d])'
      BY <1>0, <3>1, <3>3, <3>4 DEF CheckoutOK, Exists
    <3>8. \A q \in Orders : payments'[q].plan = payments[q].plan \/ payments'[q].plan \in plans
      BY <3>4, <3>5
    <3> QED BY <1>3, <3>6, <3>7, <3>8, FundedFrame DEF CreatePayment
  <2>2. CASE checkout[c].plan \notin plans
    <3>1. checkout' = [checkout EXCEPT ![c] = IdleCheckout] /\ payments' = payments
      BY <1>3, <2>2 DEF CreatePayment
    <3>2. KeepsOrders BY <1>3, <3>1 DEF CreatePayment, KeepsOrders, Exists
    <3>3. \A d \in Checkouts : checkout'[d] = checkout[d] \/ CheckoutOK(checkout[d])'
      BY <1>0, <3>1, PaymentFacts DEF CheckoutOK
    <3> QED BY <1>3, <3>1, <3>2, <3>3, FundedFrame DEF CreatePayment
  <2> QED BY <2>1, <2>2
<1>4. ASSUME NEW c \in Checkouts, SnapAccepts(c) PROVE Funded'
  <2>1. KeepsOrders BY <1>4 DEF SnapAccepts, KeepsOrders, Exists
  <2>2. \A d \in Checkouts : checkout'[d] = checkout[d] \/ CheckoutOK(checkout[d])'
    <3>1. checkout'[c].order = checkout[c].order BY <1>0, <1>4 DEF SnapAccepts, CheckoutState
    <3>2. Exists(checkout[c].order) BY <1>4 DEF Funded, CheckoutOK, SnapAccepts
    <3> QED BY <1>0, <1>4, <3>1, <3>2 DEF SnapAccepts, CheckoutOK, Exists
  <2> QED BY <1>4, <2>1, <2>2, FundedFrame DEF SnapAccepts
<1>5. ASSUME NEW c \in Checkouts, SnapFails(c) \/ CheckoutDies(c) PROVE Funded'
  <2>1. /\ checkout' = [checkout EXCEPT ![c] = IdleCheckout]
        /\ UNCHANGED <<now, db, handler, ext, unacked, activations>>
    BY <1>5 DEF SnapFails, CheckoutDies
  <2>2. KeepsOrders BY <2>1 DEF KeepsOrders, Exists
  <2>3. \A d \in Checkouts : checkout'[d] = checkout[d] \/ CheckoutOK(checkout[d])'
    BY <1>0, <2>1, PaymentFacts DEF CheckoutOK
  <2> QED BY <2>1, <2>2, <2>3, FundedFrame
<1>6. ASSUME NEW c \in Checkouts, SaveRedirectURL(c) PROVE Funded'
  <2> DEFINE o == checkout[c].order
  <2>1. o \in Orders /\ Exists(o)
    BY <1>0, <1>6 DEF SaveRedirectURL, CheckoutState, Funded, CheckoutOK
  <2>2. \A q \in Orders : /\ payments'[q].plan = payments[q].plan
                          /\ Exists(q) => payments'[q].status # "none"
    <3>1. CASE UpdatePayment(o, "pending", FALSE, TRUE, "")
      <4>1. "pending" \in PaymentStatus BY DEF PaymentStatus
      <4> QED BY <2>1, <3>1, <4>1, UpdateKeepsOrders, Zenon
    <3>2. CASE UNCHANGED payments BY <3>2 DEF Exists
    <3> QED BY <1>6, <3>1, <3>2 DEF SaveRedirectURL
  <2>3. KeepsOrders BY <1>6, <2>2 DEF SaveRedirectURL, KeepsOrders
  <2>4. \A d \in Checkouts : checkout'[d] = checkout[d] \/ CheckoutOK(checkout[d])'
    BY <1>0, <1>6, PaymentFacts DEF SaveRedirectURL, CheckoutOK
  <2>5. \A q \in handedOut' : q \in handedOut \/ payments'[q].status # "none"
    BY <1>6, <2>1, <2>2 DEF SaveRedirectURL
  <2> QED BY <1>6, <2>2, <2>3, <2>4, <2>5, FundedFrame DEF SaveRedirectURL
<1>7. ASSUME NEW o \in Orders, NEW k \in MidtransState, NEW ch \in Channels,
             MidtransMoves(o, k, ch)
      PROVE  Funded'
  <2> DEFINE n == [order |-> o, kind |-> k, channel |-> ch]
  <2>1. KeepsOrders BY <1>7 DEF MidtransMoves, KeepsOrders, Exists
  <2>2. Exists(o)' BY <1>7 DEF MidtransMoves, Funded, Exists
  <2>3. StatusOf(k) = "paid" => o \in charged'
    BY <1>7 DEF MidtransMoves, StatusOf, MidtransState
  <2>4. NoteOK(n)' BY <2>2, <2>3 DEF NoteOK, Exists
  <2>5. unacked' = unacked \cup {n} /\ charged' \subseteq charged \cup handedOut
    BY <1>7 DEF MidtransMoves
  <2> HIDE DEF n
  <2>6. \A m \in unacked' : m \in unacked \/ NoteOK(m)' BY <2>4, <2>5
  <2> QED BY <1>7, <2>1, <2>5, <2>6, FundedFrame DEF MidtransMoves
<1>8. ASSUME NEW h \in Handlers, NEW n \in unacked, Receive(h, n) PROVE Funded'
  <2>1. n \in Notification /\ n.order \in Orders /\ payments[n.order] \in Payment
    BY <1>0 DEF Typing, TypeOK, Notification
  <2>2. KeepsOrders BY <1>8 DEF Receive, KeepsOrders, Exists
  <2>3. NoteOK(n)' BY <1>8 DEF Receive, NoteOK, Exists, Funded
  <2>4. \A g \in Handlers : handler'[g] = handler[g] \/ HandlerOK(handler[g])'
    <3>1. CASE handler' = handler BY <3>1
    <3>2. CASE handler' # handler
      <4>1. PICK pc \in {"channel", "update"} :
              handler' = [handler EXCEPT ![h] = Started(pc, n, payments[n.order])]
        BY <1>8, <3>2 DEF Receive
      <4> DEFINE q == Started(pc, n, payments[n.order])
      <4>2. q.pc = pc /\ q.note = n /\ q.seen = payments[n.order]
        BY <2>1, HandlerStarted
      <4> HIDE DEF q
      <4>3. handler' = [handler EXCEPT ![h] = q] BY <4>1 DEF q
      <4>4. payments' = payments BY <1>8 DEF Receive
      <4> QED BY <1>0, <2>3, <4>2, <4>3, <4>4 DEF HandlerOK
    <3> QED BY <3>1, <3>2
  <2>5. unacked' \subseteq unacked BY <1>8 DEF Receive
  <2> QED BY <1>8, <2>2, <2>4, <2>5, FundedFrame DEF Receive
<1>9. ASSUME NEW h \in Handlers
      PROVE  \A g \in Handlers : Idle(h)[g] = handler[g] \/ Idle(h)[g].pc = "idle"
  BY <1>0, PaymentFacts DEF Idle
<1>10. ASSUME NEW h \in Handlers, handler' = Idle(h)
       PROVE  \A g \in Handlers : handler'[g] = handler[g] \/ HandlerOK(handler[g])'
  BY <1>9, <1>10 DEF HandlerOK
<1>11. ASSUME NEW h \in Handlers, RecordChannel(h) PROVE Funded'
  <2>1. /\ handler[h].note.order \in Orders /\ "paid" \in PaymentStatus
        /\ handler[h].note.channel \in {"", "midtrans", "specific"}
        /\ handler[h].seen.paidAt \in BOOLEAN
    BY <1>0 DEF HandlerState, Notification, Payment, PaymentStatus
  <2>2. UpdatePayment(handler[h].note.order, "paid", handler[h].seen.paidAt, FALSE,
                      handler[h].note.channel)
    BY <1>11 DEF RecordChannel
  <2>3. \A q \in Orders : /\ payments'[q].plan = payments[q].plan
                          /\ Exists(q) => payments'[q].status # "none"
    BY <2>1, <2>2, UpdateKeepsOrders, Zenon
  <2>4. KeepsOrders BY <1>11, <2>3 DEF RecordChannel, KeepsOrders
  <2> QED BY <1>10, <1>11, <2>3, <2>4, FundedFrame DEF RecordChannel, Respond
<1>12. ASSUME NEW h \in Handlers, UpdateStatus(h) PROVE Funded'
  <2>0. PICK n \in Notification : n = handler[h].note BY <1>0 DEF HandlerState
  <2>1. /\ n.order \in Orders /\ StatusOf(n.kind) \in PaymentStatus
        /\ n.channel \in {"", "midtrans", "specific"}
    BY StatusTyped DEF Notification
  <2>2. UpdatePayment(n.order, StatusOf(n.kind), StatusOf(n.kind) = "paid", FALSE, n.channel)
    BY <1>12, <2>0 DEF UpdateStatus
  <2>3. (StatusOf(n.kind) = "paid") \in BOOLEAN OBVIOUS
  <2>4. \A q \in Orders : /\ payments'[q].plan = payments[q].plan
                          /\ Exists(q) => payments'[q].status # "none"
    BY <2>1, <2>2, <2>3, UpdateKeepsOrders, Zenon
  <2>5. KeepsOrders BY <1>12, <2>4 DEF UpdateStatus, KeepsOrders
  <2>6. \A g \in Handlers : handler'[g] = handler[g] \/ HandlerOK(handler[g])'
    <3>1. CASE handler' = Idle(h) BY <1>10, <3>1
    <3>2. CASE handler' # Idle(h)
      <4>1. Advance(h, "read", Never, 0) /\ StatusOf(n.kind) = "paid"
        BY <1>12, <2>0, <3>2 DEF UpdateStatus, Respond
      <4>2. HandlerOK(handler[h]) /\ handler[h].pc = "update" /\ handler[h] \in HandlerState
        BY <1>0, <1>12 DEF UpdateStatus, Funded
      <4>3. \A g \in Handlers :
              \/ handler'[g] = handler[g]
              \/ /\ g = h /\ handler'[g].pc = "read"
                 /\ handler'[g].note = n /\ handler'[g].seen = handler[h].seen
        BY <2>0, <4>1, AdvanceKeeps DEF Never
      <4>4. NoteOK(n)'
        <5>1. NoteOK(n) BY <2>0, <4>2 DEF HandlerOK
        <5> QED BY <2>5, <5>1, Kept
      <4>5. /\ payments'[n.order].plan = payments[n.order].plan
            /\ plans' = plans
        BY <1>12, <2>1, <2>4 DEF UpdateStatus
      <4> QED BY <2>0, <4>1, <4>2, <4>3, <4>4, <4>5 DEF HandlerOK, NoteOK, Exists
    <3> QED BY <3>1, <3>2
  <2>7. unacked' \subseteq unacked BY <1>12 DEF UpdateStatus, Respond
  <2> QED BY <1>12, <2>4, <2>5, <2>6, <2>7, FundedFrame DEF UpdateStatus
<1>13. ASSUME NEW h \in Handlers, NEW pc \in {"pick", "apply"}, NEW e \in Nat, NEW w \in Nat,
              Advance(h, pc, e, w), handler[h].pc \in {"read", "pick"},
              UNCHANGED <<now, db, checkout, ext, unacked, activations>>
       PROVE  Funded'
  <2>1. KeepsOrders BY <1>13 DEF KeepsOrders, Exists
  <2>2. HandlerOK(handler[h]) BY DEF Funded
  <2>3. \A g \in Handlers :
          \/ handler'[g] = handler[g]
          \/ /\ g = h /\ handler'[g].pc = pc
             /\ handler'[g].note = handler[g].note /\ handler'[g].seen = handler[g].seen
    BY <1>13, AdvanceKeeps
  <2>4. \A g \in Handlers : handler'[g] = handler[g] \/ HandlerOK(handler[g])'
    BY <1>13, <2>2, <2>3 DEF HandlerOK, NoteOK, Exists
  <2> QED BY <1>13, <2>1, <2>4, FundedFrame
<1>14. ASSUME NEW h \in Handlers, ReadSubscription(h) PROVE Funded'
  <2>1. Latest \in Sub
    <3>1. subs \in Seq(Sub) /\ Len(subs) \in 1..Len(subs)
      BY EmptySeq, LenProperties DEF Typing, TypeOK
    <3> QED BY <3>1, ElementOfSeq DEF Latest
  <2>2. now \in Nat /\ Latest.expires \in Nat BY <2>1 DEF Typing, TypeOK, Sub
  <2>3. \A e \in Nat : e + Months(handler[h].seen.cycle) \in Nat BY DEF Months
  <2>4. PICK e \in Nat : Advance(h, "pick", e, 0)
    BY <1>14, <2>2, <2>3 DEF ReadSubscription
  <2> QED BY <1>13, <1>14, <2>4 DEF ReadSubscription
<1>15. ASSUME NEW h \in Handlers, PickRow(h) PROVE Funded'
  <2>1. handler[h].expires \in Nat /\ Len(subs) \in Nat
    BY <1>0, LenProperties DEF HandlerState, Typing, TypeOK
  <2> QED BY <1>13, <1>15, <2>1 DEF PickRow
<1>16. ASSUME NEW h \in Handlers, ApplyPlan(h) PROVE Funded'
  <2> DEFINE p == handler[h].seen.plan
             o == handler[h].note.order
  <2>1. KeepsOrders BY <1>16 DEF ApplyPlan, KeepsOrders, Exists
  <2>2. subs' = subs \/ \A i \in 1..Len(subs') : SubOK(subs[i])'
    <3>1. CASE p \notin plans BY <1>16, <3>1 DEF ApplyPlan
    <3>2. CASE p \in plans
      <4> DEFINE row == [plan |-> p, status |-> "active", expires |-> handler[h].expires]
      <4>1. subs' = [subs EXCEPT ![handler[h].row] = row] BY <1>16, <3>2 DEF ApplyPlan
      <4>2. handler[h].row \in 1..Len(subs) BY <1>16 DEF ApplyPlan, Typing, RowsExist
      <4>3. subs \in Seq(Sub) BY DEF Typing, TypeOK
      <4>4. o \in charged /\ payments[o].plan = p
        <5>1. HandlerOK(handler[h]) /\ handler[h].pc = "apply"
          BY <1>16 DEF Funded, ApplyPlan
        <5> QED BY <3>2, <5>1 DEF HandlerOK, NoteOK
      <4>5. row.plan = p OBVIOUS
      <4> HIDE DEF row, p, o
      <4>6. /\ Len(subs') = Len(subs) /\ subs'[handler[h].row] = row
            /\ \A i \in 1..Len(subs) : i # handler[h].row => subs'[i] = subs[i]
        BY <4>1, <4>2, <4>3
      <4>7. payments' = payments /\ plans' = plans /\ charged' = charged
        BY <1>16 DEF ApplyPlan
      <4>8. ASSUME NEW i \in 1..Len(subs) PROVE SubOK(subs[i])'
        BY <3>2, <4>4, <4>5, <4>6, <4>7, <4>8 DEF SubOK, Funded
      <4> QED BY <4>6, <4>8
    <3> QED BY <3>1, <3>2
  <2> QED BY <1>10, <1>16, <2>1, <2>2, FundedFrame DEF ApplyPlan, Respond
<1>17. ASSUME NEW h \in Handlers, HandlerFails(h) \/ HandlerDies(h) PROVE Funded'
  <2>1. /\ handler' = Idle(h) /\ unacked' \subseteq unacked
        /\ UNCHANGED <<now, db, checkout, ext, activations>>
    BY <1>17 DEF HandlerFails, HandlerDies, Respond
  <2>2. KeepsOrders BY <2>1 DEF KeepsOrders, Exists
  <2> QED BY <1>10, <2>1, <2>2, FundedFrame
<1>18. CASE ExpireEnded
  <2>1. KeepsOrders BY <1>18 DEF ExpireEnded, KeepsOrders, Exists
  <2>2. ASSUME NEW i \in 1..Len(subs') PROVE SubOK(subs[i])'
    <3>1. payments' = payments /\ plans' = plans /\ charged' = charged
      BY <1>18 DEF ExpireEnded
    <3>2. Len(subs) \in Nat /\ Len(subs') \in Nat
      BY LenProperties DEF Typing, TypeOK
    <3>3. CASE i \in 1..Len(subs)
      BY <1>18, <3>1, <3>3, ExpireRows DEF SubOK, Funded
    <3>4. CASE i > Len(subs)
      <4>1. subs'[i] = FreeSub BY <1>18, <3>4, ExpireRows
      <4> QED BY <4>1 DEF SubOK, FreeSub
    <3> QED BY <3>2, <3>3, <3>4
  <2> QED BY <1>18, <2>1, <2>2, FundedFrame DEF ExpireEnded
<1>19. ASSUME NEW p \in Plans, DeletePlan(p) PROVE Funded'
  <2>1. /\ plans' = plans \ {p}
        /\ UNCHANGED <<now, subs, userPlan, checkout, handler, ext, unacked, activations>>
        /\ \A i \in 1..Len(subs) : subs[i].plan # p
    BY <1>19 DEF DeletePlan
  <2>2. \A o \in Orders :
          /\ payments'[o].status = payments[o].status
          /\ payments'[o].plan = IF payments[o].plan = p THEN NoPlan ELSE payments[o].plan
    BY <1>0, <1>19, PaymentOrphaned DEF DeletePlan
  <2>3. ASSUME NEW n \in Notification, NoteOK(n) PROVE NoteOK(n)'
    BY <2>1, <2>2, <2>3 DEF NoteOK, Exists, Notification
  <2>4. ASSUME NEW n \in unacked' PROVE NoteOK(n)'
    BY <2>1, <2>3 DEF Funded, Typing, TypeOK
  <2>5. ASSUME NEW h \in Handlers PROVE HandlerOK(handler[h])'
    <3>1. handler' = handler /\ handler[h].note \in Notification /\ HandlerOK(handler[h])
      BY <1>0, <2>1 DEF HandlerState, Funded
    <3>2. handler[h].note.order \in Orders BY <3>1 DEF Notification
    <3>3. NoteOK(handler[h].note) => NoteOK(handler[h].note)' BY <2>3, <3>1
    <3> QED BY <2>1, <2>2, <3>1, <3>2, <3>3 DEF HandlerOK
  <2>6. ASSUME NEW c \in Checkouts PROVE CheckoutOK(checkout[c])'
    BY <1>0, <2>1, <2>2 DEF CheckoutOK, CheckoutState, Funded, Exists
  <2>7. ASSUME NEW o \in handedOut' \cup charged' PROVE Exists(o)'
    BY <2>1, <2>2 DEF Funded, Exists, Typing, TypeOK
  <2>8. ASSUME NEW o \in Orders PROVE payments'[o].plan \in plans' \cup {NoPlan}
    BY <2>1, <2>2 DEF Funded
  <2>9. ASSUME NEW i \in 1..Len(subs') PROVE SubOK(subs[i])'
    <3>1. subs' = subs /\ i \in 1..Len(subs) BY <2>1
    <3>2. SubOK(subs[i]) BY <3>1 DEF Funded
    <3>3. \A o \in charged : o \in Orders BY DEF Typing, TypeOK
    <3> QED BY <2>1, <2>2, <3>1, <3>2, <3>3 DEF SubOK
  <2> QED BY <2>4, <2>5, <2>6, <2>7, <2>8, <2>9 DEF Funded
<1>20. CASE Tick
  <2>1. KeepsOrders BY <1>20 DEF Tick, KeepsOrders, Exists
  <2> QED BY <1>20, <2>1, FundedFrame DEF Tick
<1>21. CASE UNCHANGED vars
  <2>1. UNCHANGED <<now, db, checkout, handler, ext, unacked, activations>>
    BY <1>21 DEF vars
  <2>2. KeepsOrders BY <2>1 DEF KeepsOrders, Exists
  <2> QED BY <2>1, <2>2, FundedFrame
<1>22. ASSUME NEW f \in Profiles, ReadProfile(f) \/ WriteProfile(f) PROVE Funded'
  <2>1. UNCHANGED <<plans, payments, subs, checkout, handler, ext, unacked>>
    BY <1>22 DEF ReadProfile, WriteProfile
  <2>2. KeepsOrders BY <2>1 DEF KeepsOrders, Exists
  <2> QED BY <2>1, <2>2, FundedFrame
<1> QED
  BY <1>1, <1>2, <1>3, <1>4, <1>5, <1>6, <1>7, <1>8, <1>11, <1>12, <1>14, <1>15, <1>16,
     <1>17, <1>18, <1>19, <1>20, <1>21, <1>22
     DEF Next, CheckoutStep, HandlerStep

\* Whatever the notifications, races and faults: a subscription on a paid
\* plan has an order for that plan whose money Midtrans took.
THEOREM PaidPlanBacked == Spec => []PaidPlanBackedByCharge
<1>1. Typing /\ Funded => PaidPlanBackedByCharge
  BY DEF Funded, SubOK, PaidPlanBackedByCharge
<1>2. Spec => [](Typing /\ Funded)
  BY TypingInit, TypingNext, FundedInit, FundedNext, PTL DEF Spec
<1> QED BY <1>1, <1>2, PTL

----------------------------------------------------------------------------
(* The newest subscription.  It only changes when the expiry appends free  *)
(* rows or an activation writes over it.                                   *)

LEMMA ExpiryEndsInFree ==
  ASSUME Typing, ExpireEnded
  PROVE  Latest' = FreeSub
<1>1. /\ Len(subs) \in Nat /\ Len(subs') \in Nat
      /\ Len(subs') > Len(subs)
  BY ExpireRows, LenProperties DEF Typing, TypeOK
<1>2. Len(subs') \in 1..Len(subs') BY <1>1
<1> QED BY <1>1, <1>2, ExpireRows DEF Latest

\* An activation writes an active row of its plan, which is the newest or not,
\* or changes nothing.
LEMMA ActivationWrites ==
  ASSUME Typing, NEW h \in Handlers, ApplyPlan(h)
  PROVE  \/ UNCHANGED <<subs, userPlan>>
         \/ /\ handler[h].row < Len(subs) /\ Latest' = Latest
         \/ /\ handler[h].row = Len(subs)
            /\ Latest'.status = "active" /\ Latest'.plan = userPlan'
<1>1. CASE handler[h].seen.plan \notin plans
  BY <1>1 DEF ApplyPlan
<1>2. CASE handler[h].seen.plan \in plans
  <2> DEFINE row == [plan |-> handler[h].seen.plan, status |-> "active",
                     expires |-> handler[h].expires]
  <2>1. subs' = [subs EXCEPT ![handler[h].row] = row] /\ userPlan' = handler[h].seen.plan
    BY <1>2 DEF ApplyPlan
  <2>2. handler[h].row \in 1..Len(subs) /\ subs \in Seq(Sub) /\ Len(subs) \in Nat
    BY LenProperties DEF ApplyPlan, Typing, TypeOK, RowsExist
  <2>3. row.status = "active" /\ row.plan = handler[h].seen.plan OBVIOUS
  <2> HIDE DEF row
  <2>4. /\ Len(subs') = Len(subs) /\ subs'[handler[h].row] = row
        /\ \A i \in 1..Len(subs) : i # handler[h].row => subs'[i] = subs[i]
    BY <2>1, <2>2
  <2>5. CASE handler[h].row = Len(subs)
    BY <2>1, <2>3, <2>4, <2>5 DEF Latest
  <2>6. CASE handler[h].row < Len(subs)
    BY <2>2, <2>4, <2>6 DEF Latest
  <2> QED BY <2>2, <2>5, <2>6
<1> QED BY <1>1, <1>2

\* Every other step leaves the subscriptions alone, and the user's plan but
\* for the writing back of a profile.
LEMMA OthersLeaveSubs ==
  ASSUME [Next]_vars
  PROVE  \/ UNCHANGED <<subs, userPlan>>
         \/ ExpireEnded
         \/ \E h \in Handlers : ApplyPlan(h)
         \/ \E f \in Profiles : WriteProfile(f) /\ UNCHANGED subs
<1> USE DEF db, ext, hist
<1>1. ASSUME NEW c \in Checkouts, CheckoutStep(c) PROVE UNCHANGED <<subs, userPlan>>
  BY <1>1 DEF CheckoutStep, ReuseInvoice, StartInvoice, CreatePayment, SnapAccepts, SnapFails,
              SaveRedirectURL, CheckoutDies
<1>2. ASSUME NEW o \in Orders, NEW k \in MidtransState, NEW ch \in Channels,
             MidtransMoves(o, k, ch)
      PROVE  UNCHANGED <<subs, userPlan>>
  BY <1>2 DEF MidtransMoves
<1>3. ASSUME NEW h \in Handlers,
             \/ \E n \in unacked : Receive(h, n)
             \/ RecordChannel(h) \/ UpdateStatus(h) \/ ReadSubscription(h) \/ PickRow(h)
             \/ HandlerFails(h) \/ HandlerDies(h)
      PROVE  UNCHANGED <<subs, userPlan>>
  BY <1>3 DEF Receive, RecordChannel, UpdateStatus, ReadSubscription, PickRow, HandlerFails,
              HandlerDies
<1>4. ASSUME NEW f \in Profiles, ReadProfile(f) PROVE UNCHANGED <<subs, userPlan>>
  BY <1>4 DEF ReadProfile
<1>5. ASSUME NEW f \in Profiles, WriteProfile(f) PROVE UNCHANGED subs
  BY <1>5 DEF WriteProfile
<1>6. ASSUME NEW p \in Plans, DeletePlan(p) PROVE UNCHANGED <<subs, userPlan>>
  BY <1>6 DEF DeletePlan
<1>7. CASE Tick \/ UNCHANGED vars
  BY <1>7 DEF Tick, vars
<1> QED BY <1>1, <1>2, <1>3, <1>4, <1>5, <1>6, <1>7 DEF Next, HandlerStep

LEMMA ActiveInit == Init => LatestIsActive
<1> SUFFICES ASSUME Init PROVE LatestIsActive
  OBVIOUS
<1>1. subs = <<FreeSub>> BY DEF Init
<1>2. Latest = FreeSub BY <1>1 DEF Latest
<1> QED BY <1>2 DEF LatestIsActive, FreeSub

LEMMA ActiveNext == Typing /\ LatestIsActive /\ [Next]_vars => LatestIsActive'
<1> SUFFICES ASSUME Typing, LatestIsActive, [Next]_vars PROVE LatestIsActive'
  OBVIOUS
<1>1. CASE subs' = subs BY <1>1 DEF LatestIsActive, Latest
<1>2. CASE ExpireEnded BY <1>2, ExpiryEndsInFree DEF LatestIsActive, FreeSub
<1>3. ASSUME NEW h \in Handlers, ApplyPlan(h) PROVE LatestIsActive'
  BY <1>1, <1>3, ActivationWrites DEF LatestIsActive
<1> QED BY <1>1, <1>2, <1>3, OthersLeaveSubs

\* The send path always finds an active subscription: whatever races, the
\* nightly expiry never leaves an ended row as the user's newest.
THEOREM AlwaysSubscribed == Spec => []LatestIsActive
<1>1. Spec => [](Typing /\ LatestIsActive)
  BY TypingInit, TypingNext, ActiveInit, ActiveNext, PTL DEF Spec
<1> QED BY <1>1, PTL

\* The user's plan and his newest subscription part only by an activation of
\* a row that is no longer the newest or by a profile written back.
THEOREM DriftHasTwoCauses == Spec => DriftOnlyByStaleWrite
<1> DEFINE Stale == \/ \E h \in Handlers : /\ handler[h].pc = "apply" /\ handler[h].row < Len(subs)
                                           /\ handler'[h] # handler[h]
                    \/ \E f \in Profiles : profile[f].pc = "write" /\ profile'[f] # profile[f]
<1>1. ASSUME Typing, [Next]_vars, userPlan = Latest.plan, userPlan' # Latest'.plan
      PROVE  Stale
  <2>1. CASE UNCHANGED <<subs, userPlan>>
    BY <1>1, <2>1 DEF Latest
  <2>2. CASE ExpireEnded
    <3>1. userPlan' = Free BY <2>2 DEF ExpireEnded
    <3> QED BY <1>1, <2>2, <3>1, ExpiryEndsInFree DEF FreeSub
  <2>3. ASSUME NEW h \in Handlers, ApplyPlan(h) PROVE Stale
    <3>1. handler[h].row < Len(subs)
      BY <1>1, <2>1, <2>3, ActivationWrites DEF Latest
    <3>2. handler[h].pc = "apply" /\ handler'[h].pc = "idle"
      BY <1>1, <2>3, PaymentFacts DEF ApplyPlan, Respond, Idle, Typing, TypeOK
    <3> QED BY <3>1, <3>2
  <2>4. ASSUME NEW f \in Profiles, WriteProfile(f) PROVE Stale
    <3>1. profile[f].pc = "write" /\ profile'[f].pc = "idle"
      BY <1>1, <2>4 DEF WriteProfile, IdleProfile, Typing, TypeOK
    <3> QED BY <3>1
  <2> QED BY <1>1, <2>1, <2>2, <2>3, <2>4, OthersLeaveSubs
<1>2. Typing /\ [Next]_vars => [userPlan = Latest.plan /\ userPlan' # Latest'.plan => Stale]_vars
  BY <1>1
<1>3. Spec => []Typing
  BY TypingInit, TypingNext, PTL DEF Spec
<1> QED BY <1>2, <1>3, PTL DEF Spec, DriftOnlyByStaleWrite
=============================================================================
