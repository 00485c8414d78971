--------------------------- MODULE BillingProofs ---------------------------
(***************************************************************************)
(* Buying a plan, for any number of orders, requests and days, whatever    *)
(* dies or fails.  No result is inductive.  PaidPlanOnly needs to know     *)
(* that a subscription read by a request that is still to write is either  *)
(* the one in the table or was replaced today; NotTwice, that after the    *)
(* grant nobody is left who has not read "paid"; PaidForIsServed, that a   *)
(* sweep under way read a row that had run out.                            *)
(*                                                                         *)
(* Drawing on its allowance, for any number of requests and any limits:    *)
(* whoever was let in today and not overtaken still has room, counted by   *)
(* the plan he was let in on.                                              *)
(*                                                                         *)
(* Being limited in what it asks, for any number of requests and any       *)
(* window: the keys of a scope begin a window apart, and a key numbers     *)
(* what it counts, so that no window has seen more than two of them.       *)
(***************************************************************************)
EXTENDS Allowance, RateLimit, FiniteSetTheorems, TLAPS

Statuses == {"none", "created", "paid", "failed"}

Handler == [pc: {"idle", "read", "found"}, order: Orders \cup {"none"},
            event: Events \cup {"none"}, payment: Statuses, saw: Subscription]

Types ==
    /\ clock \in 0..MaxTime
    /\ payment \in [Orders -> Payment]
    /\ sub \in Subscription
    /\ captured \subseteq Orders
    /\ mail \in [Orders -> SUBSET Events]
    /\ handler \in [Handlers -> Handler]
    /\ sweeper \in [pc: {"idle", "read"}, saw: Subscription]
    /\ sweeper.pc = "read" => sweeper.saw.status = "active"
    /\ grants \in [Orders -> [count: Nat, at: 0..MaxTime]]
    /\ \A o \in Orders : grants[o].at <= clock
    /\ muddled \subseteq Orders

\* What is reported belongs to an order that was opened, and a success to one that
\* was paid for.
Reported(o, e) ==
    /\ payment[o].status # "none"
    /\ e \notin FAILED_EVENTS => o \in captured

ReportsReal ==
    /\ \A o \in captured : payment[o].status # "none"
    /\ \A o \in Orders : \A e \in mail[o] : Reported(o, e)
    /\ \A h \in Handlers :
         /\ handler[h].pc # "idle" => handler[h].order \in Orders
                                      /\ Reported(handler[h].order, handler[h].event)
         /\ handler[h].pc = "found" => handler[h].order \in captured /\ handler[h].payment # "paid"

\* Some order of plan p was granted, for as long as e at least.
Backed(p, e) ==
    \E o \in captured :
      payment[o].plan = p /\ grants[o].count > 0 /\ e <= grants[o].at + Period

\* What is in force was bought; and a request that read another plan than the one
\* now in the table was overtaken by a grant of the same day.
SubscriptionBacked ==
    /\ sub.end <= clock + Period
    /\ sub.exists => Backed(sub.plan, sub.end)
    /\ \A h \in Handlers : handler[h].pc = "found" =>
         handler[h].saw.plan = sub.plan \/ Backed(sub.plan, clock + Period)

\* Once an order is granted everyone who reports it has read it as paid, or was
\* overlapped.
SettledOnce ==
    \A o \in Orders \ muddled : grants[o].count > 0 =>
      /\ grants[o].count = 1
      /\ payment[o].status = "paid"
      /\ \A h \in Handlers : handler[h].pc # "idle" /\ handler[h].order = o => handler[h].payment = "paid"

BillingInv == Types /\ ReportsReal /\ SubscriptionBacked /\ SettledOnce

-----------------------------------------------------------------------------
USE DEF Statuses

\* A column that two transactions write is one's or the other's.
LEMMA MergedColumns ==
    ASSUME NEW saw \in Subscription, NEW new \in Subscription, NEW row \in Subscription
    PROVE  /\ Merge(saw, new, row) \in Subscription
           /\ Merge(saw, new, row).exists = IF new.exists = saw.exists THEN row.exists ELSE new.exists
           /\ Merge(saw, new, row).plan = IF new.plan = saw.plan THEN row.plan ELSE new.plan
           /\ Merge(saw, new, row).end = IF new.end = saw.end THEN row.end ELSE new.end
  BY DEF Merge, Subscription

\* Grants are only ever added, and renewed today.
LEMMA StaysBacked ==
    ASSUME BillingInv, NEW p, NEW e \in Nat,
           captured \subseteq captured',
           \A o \in captured :
             /\ payment'[o].plan = payment[o].plan
             /\ grants'[o] = grants[o] \/ (grants'[o].count > 0 /\ grants'[o].at = clock)
    PROVE  Backed(p, e) => Backed(p, e)'
<1>1. \A o \in captured : grants[o].at \in Nat /\ grants[o].at <= clock /\ clock \in Nat
  <2>1. captured \subseteq Orders
    BY DEF BillingInv, Types
  <2>2. clock \in Nat /\ \A o \in Orders : grants[o].at \in Nat /\ grants[o].at <= clock
    BY BillingAssumption DEF BillingInv, Types
  <2>. QED BY <2>1, <2>2
<1>. SUFFICES ASSUME NEW o \in captured, payment[o].plan = p, grants[o].count > 0,
                     e <= grants[o].at + Period
              PROVE  /\ o \in captured' /\ payment'[o].plan = p /\ grants'[o].count > 0
                     /\ e <= grants'[o].at + Period
  BY DEF Backed
<1>. QED BY <1>1, BillingAssumption

LEMMA InitInv == Init => BillingInv
<1>. SUFFICES ASSUME Init PROVE BillingInv
  OBVIOUS
<1>1. NoSub \in Subscription /\ 0 \in 0..MaxTime /\ Period \in Nat
  BY BillingAssumption DEF NoSub, Subscription
<1>2. Types
  BY <1>1, BillingAssumption DEF Init, Types, Payment, Handler, Idle, Asleep
<1>3. ReportsReal /\ SubscriptionBacked /\ SettledOnce
  BY <1>1 DEF Init, ReportsReal, Reported, SubscriptionBacked, SettledOnce, Idle, NoSub
<1>. QED BY <1>2, <1>3 DEF BillingInv

\* The user, Razorpay and time.
LEMMA OutsideInv ==
    ASSUME BillingInv, Tick \/ \E o \in Orders : StartCheckout(o) \/ Pay(o) \/ AttemptFails(o)
    PROVE  BillingInv'
<1>1. CASE Tick
  <2>1. clock \in Nat /\ clock' = clock + 1 /\ clock' \in 0..MaxTime
        /\ UNCHANGED <<payment, sub, captured, mail, handler, sweeper, grants, muddled>>
        /\ \A h \in Handlers : handler[h].pc = "idle"
    BY <1>1, BillingAssumption DEF Tick, service, history, Idle, BillingInv, Types
  <2>2. Types' /\ ReportsReal' /\ SettledOnce'
    BY <2>1 DEF BillingInv, Types, ReportsReal, Reported, SettledOnce
  <2>3. sub.end \in Nat
    BY DEF BillingInv, Types, Subscription
  <2>4. SubscriptionBacked'
    BY <2>1, <2>3, BillingAssumption DEF BillingInv, SubscriptionBacked, Backed
  <2>. QED BY <2>2, <2>4 DEF BillingInv
<1>2. ASSUME NEW o \in Orders, StartCheckout(o)
      PROVE  BillingInv'
  <2>1. PICK p \in PURCHASABLE_PLAN_IDS :
          payment' = [payment EXCEPT ![o] = [status |-> "created", plan |-> p]]
    BY <1>2 DEF StartCheckout
  <2>2. payment[o].status = "none" /\ o \notin captured
        /\ UNCHANGED <<clock, sub, captured, mail, handler, sweeper, grants, muddled>>
    BY <1>2 DEF StartCheckout, service, history, BillingInv, ReportsReal
  <2>3. payment' \in [Orders -> Payment]
    BY <2>1 DEF BillingInv, Types, Payment, PURCHASABLE_PLAN_IDS
  <2>4. Types'
    BY <2>2, <2>3 DEF BillingInv, Types
  <2>5. \A q \in Orders :
          /\ payment'[q].status = "none" => payment[q].status = "none"
          /\ q # o => payment'[q] = payment[q]
    BY <2>1 DEF BillingInv, Types
  <2>6. ReportsReal'
    BY <2>2, <2>5 DEF BillingInv, Types, ReportsReal, Reported
  <2>7. \A x \in {Free, Pro, Team}, e \in Nat : Backed(x, e) => Backed(x, e)'
    BY <2>2, <2>5, StaysBacked DEF BillingInv, Types
  <2>8. SubscriptionBacked'
    BY <2>2, <2>7, BillingAssumption DEF BillingInv, Types, Subscription, SubscriptionBacked
  <2>9. SettledOnce'
    BY <2>2, <2>5 DEF BillingInv, SettledOnce
  <2>. QED BY <2>4, <2>6, <2>8, <2>9 DEF BillingInv
<1>3. ASSUME NEW o \in Orders, Pay(o)
      PROVE  BillingInv'
  <2>1. payment[o].status # "none" /\ captured' = captured \cup {o}
        /\ mail' = [mail EXCEPT ![o] = @ \cup PAID_EVENTS \cup {"verified"}]
        /\ UNCHANGED <<clock, payment, sub, handler, sweeper, grants, muddled>>
    BY <1>3 DEF Pay, service, history
  <2>2. Types'
    BY <2>1 DEF BillingInv, Types, Events
  <2>3. ReportsReal'
    BY <2>1 DEF BillingInv, Types, ReportsReal, Reported
  <2>4. SubscriptionBacked' /\ SettledOnce'
    BY <2>1 DEF BillingInv, Types, SubscriptionBacked, Backed, SettledOnce
  <2>. QED BY <2>2, <2>3, <2>4 DEF BillingInv
<1>4. ASSUME NEW o \in Orders, AttemptFails(o)
      PROVE  BillingInv'
  <2>1. payment[o].status # "none" /\ mail' = [mail EXCEPT ![o] = @ \cup FAILED_EVENTS]
        /\ UNCHANGED <<clock, payment, sub, captured, handler, sweeper, grants, muddled>>
    BY <1>4 DEF AttemptFails, service, history
  <2>2. Types' /\ SubscriptionBacked' /\ SettledOnce'
    BY <2>1 DEF BillingInv, Types, Events, SubscriptionBacked, Backed, SettledOnce
  <2>3. ReportsReal'
    BY <2>1 DEF BillingInv, Types, ReportsReal, Reported
  <2>. QED BY <2>2, <2>3 DEF BillingInv
<1>. QED BY <1>1, <1>2, <1>3, <1>4

-----------------------------------------------------------------------------
\* What all the steps of a request have in common that write no table.
LEMMA RequestMoves ==
    ASSUME BillingInv, NEW h \in Handlers, NEW k \in Handler,
           handler' = [handler EXCEPT ![h] = k], mail' \in [Orders -> SUBSET Events],
           \A o \in Orders : mail'[o] \subseteq mail[o],
           UNCHANGED <<clock, payment, sub, captured, sweeper, grants, muddled>>,
           k.pc # "idle" => k.order \in Orders /\ Reported(k.order, k.event),
           k.pc = "found" => /\ k.order \in captured /\ k.payment # "paid"
                             /\ k.saw.plan = sub.plan \/ Backed(sub.plan, clock + Period),
           \A o \in Orders \ muddled :
             grants[o].count > 0 /\ k.pc # "idle" /\ k.order = o => k.payment = "paid"
    PROVE  BillingInv'
<1>1. handler' \in [Handlers -> Handler]
      /\ \A g \in Handlers : handler'[g] = IF g = h THEN k ELSE handler[g]
  BY DEF BillingInv, Types
<1>2. Types'
  BY <1>1 DEF BillingInv, Types
<1>3. ReportsReal'
  BY <1>1 DEF BillingInv, ReportsReal, Reported
<1>4. SubscriptionBacked'
  BY <1>1 DEF BillingInv, SubscriptionBacked, Backed
<1>5. SettledOnce'
  BY <1>1 DEF BillingInv, SettledOnce
<1>. QED BY <1>2, <1>3, <1>4, <1>5 DEF BillingInv

LEMMA Finished ==
    ASSUME BillingInv, NEW h \in Handlers, Acknowledge(h),
           handler[h].pc # "idle"
    PROVE  /\ handler' = [handler EXCEPT ![h] = Idle] /\ Idle \in Handler /\ Idle.pc = "idle"
           /\ handler[h].order \in Orders
           /\ mail' \in [Orders -> SUBSET Events] /\ \A o \in Orders : mail'[o] \subseteq mail[o]
<1>1. Idle \in Handler /\ Idle.pc = "idle"
  BY BillingAssumption DEF Idle, Handler, NoSub, Subscription
<1>2. handler[h].order \in Orders /\ mail \in [Orders -> SUBSET Events]
  BY DEF BillingInv, Types, ReportsReal
<1>. QED BY <1>1, <1>2 DEF Acknowledge

LEMMA ReadPaymentInv ==
    ASSUME BillingInv, NEW h \in Handlers, NEW o \in Orders, NEW e \in Events, ReadPayment(h, o, e)
    PROVE  BillingInv'
<1>. DEFINE k == [pc |-> "read", order |-> o, event |-> e, payment |-> payment[o].status, saw |-> NoSub]
<1>1. NoSub \in Subscription
  BY BillingAssumption DEF NoSub, Subscription
<1>2. payment[o].status \in Statuses /\ mail \in [Orders -> SUBSET Events]
  BY DEF BillingInv, Types, Payment
<1>3. k \in Handler /\ k.pc = "read" /\ k.order = o /\ k.event = e /\ k.payment = payment[o].status
  BY <1>1, <1>2 DEF Handler
<1>4. handler' = [handler EXCEPT ![h] = k]
      /\ UNCHANGED <<clock, payment, sub, captured, sweeper, grants, muddled>>
  BY DEF ReadPayment, history, outside
<1>5. mail' \in [Orders -> SUBSET Events] /\ \A q \in Orders : mail'[q] \subseteq mail[q]
  BY <1>2 DEF ReadPayment
<1>6. Reported(o, e)
  BY DEF ReadPayment, BillingInv, ReportsReal
<1>7. \A q \in Orders \ muddled : grants[q].count > 0 => payment[q].status = "paid"
  BY DEF BillingInv, SettledOnce
<1>. HIDE DEF k
<1>. QED BY <1>3, <1>4, <1>5, <1>6, <1>7, RequestMoves

LEMMA ReadSubscriptionInv ==
    ASSUME BillingInv, NEW h \in Handlers, ReadSubscription(h)
    PROVE  BillingInv'
<1>. DEFINE k == [handler[h] EXCEPT !.pc = "found", !.saw = sub]
<1>1. /\ handler[h] \in Handler /\ handler[h].pc = "read" /\ handler[h].event \notin FAILED_EVENTS
      /\ UNCHANGED <<clock, payment, sub, captured, sweeper, grants, muddled>>
      /\ sub \in Subscription /\ mail \in [Orders -> SUBSET Events]
  BY DEF ReadSubscription, history, outside, BillingInv, Types
<1>2. handler[h].order \in Orders /\ Reported(handler[h].order, handler[h].event)
  BY <1>1 DEF BillingInv, ReportsReal
<1>3. CASE handler[h].payment = "paid"
  <2>1. Acknowledge(h)
    BY <1>3 DEF ReadSubscription
  <2>. QED BY <1>1, <2>1, Finished, RequestMoves
<1>4. CASE handler[h].payment # "paid"
  <2>1. handler' = [handler EXCEPT ![h] = k] /\ UNCHANGED mail
    BY <1>4 DEF ReadSubscription
  <2>2. k \in Handler /\ k.pc = "found" /\ k.order = handler[h].order
        /\ k.event = handler[h].event /\ k.payment = handler[h].payment /\ k.saw = sub
    BY <1>1 DEF Handler
  <2>3. handler[h].order \in captured
    BY <1>1, <1>2 DEF Reported
  <2>4. \A o \in Orders \ muddled : grants[o].count > 0 /\ handler[h].order = o => handler[h].payment = "paid"
    BY <1>1 DEF BillingInv, SettledOnce
  <2>. HIDE DEF k
  <2>. QED BY <1>1, <1>2, <1>4, <2>1, <2>2, <2>3, <2>4, RequestMoves
<1>. QED BY <1>3, <1>4

LEMMA HandlerDiesInv ==
    ASSUME BillingInv, NEW h \in Handlers, HandlerDies(h)
    PROVE  BillingInv'
<1>1. Idle \in Handler /\ Idle.pc = "idle"
  BY BillingAssumption DEF Idle, Handler, NoSub, Subscription
<1>2. mail \in [Orders -> SUBSET Events]
  BY DEF BillingInv, Types
<1>. QED BY <1>1, <1>2, RequestMoves DEF HandlerDies, history

\* A failure is written: a paid order stays paid unless this request overlapped its grant.
LEMMA MarkFailedInv ==
    ASSUME BillingInv, NEW h \in Handlers, MarkFailed(h)
    PROVE  BillingInv'
<1>. DEFINE o == handler[h].order
<1>1. /\ handler[h].pc = "read" /\ Acknowledge(h)
      /\ UNCHANGED <<clock, sub, captured, sweeper, grants>>
  BY DEF MarkFailed, outside
<1>2. /\ handler' = [handler EXCEPT ![h] = Idle] /\ Idle \in Handler /\ Idle.pc = "idle"
      /\ o \in Orders
      /\ mail' \in [Orders -> SUBSET Events] /\ \A q \in Orders : mail'[q] \subseteq mail[q]
  BY <1>1, Finished
<1>3. payment \in [Orders -> Payment] /\ payment[o].status # "none"
  BY <1>1 DEF BillingInv, Types, ReportsReal, Reported
<1>4. muddled' = muddled \/ muddled' = muddled \cup {o}
  BY DEF MarkFailed, Muddles
<1>5. payment' = payment \/ (handler[h].payment = "created" /\ payment' = [payment EXCEPT ![o].status = "failed"])
  BY DEF MarkFailed
<1>. HIDE DEF o
<1>6. /\ payment' \in [Orders -> Payment]
      /\ \A q \in Orders : payment'[q].plan = payment[q].plan
      /\ \A q \in Orders : payment[q].status # "none" => payment'[q].status # "none"
      /\ \A q \in Orders : q # o \/ handler[h].payment # "created" => payment'[q] = payment[q]
  BY <1>2, <1>3, <1>5 DEF Payment
<1>7. Types'
  BY <1>1, <1>2, <1>4, <1>6 DEF BillingInv, Types
<1>8. \A g \in Handlers : handler'[g] = IF g = h THEN Idle ELSE handler[g]
  BY <1>2 DEF BillingInv, Types
<1>9. ReportsReal'
  BY <1>1, <1>2, <1>6, <1>8 DEF BillingInv, Types, ReportsReal, Reported
<1>10. SubscriptionBacked'
  BY <1>1, <1>2, <1>6, <1>8 DEF BillingInv, Types, SubscriptionBacked, Backed
<1>11. SettledOnce'
  <2>. SUFFICES ASSUME NEW q \in Orders, q \notin muddled', grants[q].count > 0
                PROVE  /\ grants[q].count = 1 /\ payment'[q].status = "paid"
                       /\ \A g \in Handlers : handler'[g].pc # "idle" /\ handler'[g].order = q
                                              => handler'[g].payment = "paid"
    BY <1>1 DEF SettledOnce
  <2>1. /\ grants[q].count = 1 /\ payment[q].status = "paid"
        /\ \A g \in Handlers : handler[g].pc # "idle" /\ handler[g].order = q => handler[g].payment = "paid"
    BY <1>4 DEF BillingInv, SettledOnce
  <2>2. q = o => handler[h].payment = "paid"
    BY <1>1, <2>1 DEF o
  <2>3. payment'[q] = payment[q]
    BY <1>6, <2>2
  <2>. QED BY <1>2, <1>8, <2>1, <2>3
<1>. QED BY <1>7, <1>9, <1>10, <1>11 DEF BillingInv

LEMMA ActivateInv ==
    ASSUME BillingInv, NEW h \in Handlers, Activate(h)
    PROVE  BillingInv'
<1>. DEFINE o == handler[h].order
            saw == handler[h].saw
            new == Granted(payment[o].plan)
<1>1. /\ handler[h].pc = "found" /\ saw \in Subscription /\ sub \in Subscription
      /\ o \in captured /\ o \in Orders /\ handler[h].payment # "paid"
      /\ handler[h] \in Handler /\ payment \in [Orders -> Payment]
      /\ payment[o].status # "none" /\ payment[o].plan \in {Free, Pro, Team}
      /\ UNCHANGED <<clock, captured, sweeper>>
  BY DEF Activate, outside, BillingInv, Types, Handler, Payment, ReportsReal, Reported
<1>2. /\ clock \in Nat /\ clock \in 0..MaxTime /\ Period \in Nat /\ Period > 0 /\ sub.end \in Nat
      /\ sub.end <= clock + Period /\ grants \in [Orders -> [count: Nat, at: 0..MaxTime]]
      /\ \A q \in Orders : grants[q].at <= clock
  BY BillingAssumption DEF BillingInv, Types, Subscription, SubscriptionBacked
<1>3. CASE sub.exists /\ ~saw.exists
  <2>1. handler' = [handler EXCEPT ![h] = Idle]
        /\ UNCHANGED <<sub, payment, mail, grants, muddled>>
    BY <1>3 DEF Activate, history
  <2>2. Idle \in Handler /\ Idle.pc = "idle" /\ mail \in [Orders -> SUBSET Events]
    BY BillingAssumption DEF Idle, Handler, NoSub, Subscription, BillingInv, Types
  <2>. HIDE DEF o, saw, new
  <2>. QED BY <1>1, <2>1, <2>2, RequestMoves
<1>4. CASE ~(sub.exists /\ ~saw.exists)
  <2>1. /\ sub' = Merge(saw, new, sub) /\ Acknowledge(h) /\ Muddles(h)
        /\ payment' = [payment EXCEPT ![o].status = "paid"]
        /\ grants' = [grants EXCEPT ![o] = [count |-> @.count + 1, at |-> clock]]
    BY <1>4 DEF Activate
  <2>2. /\ new \in Subscription /\ new.plan = payment[o].plan /\ new.end = clock + Period
        /\ new.exists
    BY <1>1, <1>2, BillingAssumption DEF Granted, Subscription
  <2>3. /\ handler' = [handler EXCEPT ![h] = Idle] /\ Idle \in Handler /\ Idle.pc = "idle"
        /\ mail' \in [Orders -> SUBSET Events] /\ \A q \in Orders : mail'[q] \subseteq mail[q]
    BY <1>1, <2>1, Finished
  <2>4. /\ sub' \in Subscription
        /\ sub'.plan = IF new.plan = saw.plan THEN sub.plan ELSE new.plan
        /\ sub'.end = IF new.end = saw.end THEN sub.end ELSE new.end
    <3>1. saw \in Subscription /\ sub \in Subscription /\ new \in Subscription /\ sub' = Merge(saw, new, sub)
      BY <1>1, <2>1, <2>2
    <3>. HIDE DEF saw, new
    <3>. QED BY <3>1, MergedColumns
  <2>5. muddled' = IF ReadersOf(o, h) = {} THEN muddled ELSE muddled \cup {o}
    BY <2>1 DEF Muddles
  <2>6. \A g \in Handlers : handler'[g] = IF g = h THEN Idle ELSE handler[g]
    BY <2>3 DEF BillingInv, Types
  <2>7. handler[h].saw.plan = sub.plan \/ Backed(sub.plan, clock + Period)
    BY <1>1 DEF BillingInv, SubscriptionBacked
  <2>8. handler[h].saw = saw /\ handler[h].order = o
    OBVIOUS
  <2>. HIDE DEF o, saw, new
  <2>9. /\ payment' \in [Orders -> Payment]
        /\ \A q \in Orders : payment'[q].plan = payment[q].plan
        /\ \A q \in Orders : payment[q].status # "none" => payment'[q].status # "none"
        /\ \A q \in Orders : q # o => payment'[q] = payment[q]
        /\ payment'[o].status = "paid"
    BY <1>1, <2>1 DEF Payment
  <2>10. /\ grants' \in [Orders -> [count: Nat, at: 0..MaxTime]]
         /\ \A q \in Orders : q # o => grants'[q] = grants[q]
         /\ grants'[o].count = grants[o].count + 1 /\ grants'[o].at = clock
         /\ grants'[o].count > 0
    BY <1>1, <1>2, <2>1
  <2>11. Types'
    <3>1. handler' \in [Handlers -> Handler] /\ muddled' \subseteq Orders
      BY <1>1, <2>3, <2>5 DEF BillingInv, Types
    <3>2. \A q \in Orders : grants'[q].at <= clock
      BY <1>2, <2>10
    <3>3. /\ sweeper' \in [pc: {"idle", "read"}, saw: Subscription] /\ captured' \subseteq Orders
          /\ sweeper'.pc = "read" => sweeper'.saw.status = "active"
      BY <1>1 DEF BillingInv, Types
    <3>. QED BY <1>1, <1>2, <2>3, <2>4, <2>9, <2>10, <3>1, <3>2, <3>3 DEF Types
  <2>12. ReportsReal'
    BY <1>1, <2>3, <2>6, <2>9 DEF BillingInv, Types, ReportsReal, Reported
  <2>13. captured \subseteq Orders
    BY DEF BillingInv, Types
  <2>14. \A p : \A e \in Nat : Backed(p, e) => Backed(p, e)'
    BY <1>1, <1>2, <2>9, <2>10, <2>13, StaysBacked
  <2>15. PICK held, until : held = sub.plan /\ until = clock + Period
    OBVIOUS
  <2>16. PICK d \in captured : /\ payment'[d].plan = sub'.plan /\ grants'[d].count > 0
                              /\ clock + Period <= grants'[d].at + Period
    <3>1. CASE sub'.plan = new.plan
      BY <1>1, <1>2, <2>2, <2>9, <2>10, <3>1
    <3>2. CASE sub'.plan # new.plan
      <4>1. sub'.plan = held /\ Backed(held, until) /\ until \in Nat
        BY <1>2, <2>4, <2>7, <2>8, <2>15, <3>2
      <4>2. Backed(held, until)'
        BY <2>14, <4>1
      <4>3. PICK q \in captured' : /\ payment'[q].plan = held /\ grants'[q].count > 0
                                   /\ until <= grants'[q].at + Period
        BY <4>2 DEF Backed
      <4>4. captured' = captured
        BY <1>1
      <4>. QED BY <2>15, <4>1, <4>3, <4>4
    <3>. QED BY <3>1, <3>2
  <2>17. sub'.end <= clock + Period /\ sub'.end \in Nat
    BY <1>2, <2>2, <2>4
  <2>18. grants'[d].at \in Nat
    BY <2>10, <2>13
  <2>19. SubscriptionBacked'
    BY <1>1, <1>2, <2>3, <2>6, <2>16, <2>17, <2>18 DEF SubscriptionBacked, Backed
  <2>20. SettledOnce'
    <3>. SUFFICES ASSUME NEW q \in Orders, q \notin muddled', grants'[q].count > 0
                  PROVE  /\ grants'[q].count = 1 /\ payment'[q].status = "paid"
                         /\ \A g \in Handlers : handler'[g].pc # "idle" /\ handler'[g].order = q
                                                => handler'[g].payment = "paid"
      BY DEF SettledOnce
    <3>1. grants[q].count > 0 =>
             /\ grants[q].count = 1 /\ payment[q].status = "paid"
             /\ \A g \in Handlers : handler[g].pc # "idle" /\ handler[g].order = q => handler[g].payment = "paid"
      BY <2>5 DEF BillingInv, SettledOnce
    <3>2. CASE q # o
      BY <2>3, <2>6, <2>9, <2>10, <3>1, <3>2
    <3>3. CASE q = o
      <4>1. ReadersOf(o, h) = {}
        BY <2>5, <3>3
      <4>2. ~(grants[o].count > 0)
        BY <1>1, <2>8, <3>1, <3>3
      <4>3. grants[o].count \in Nat
        BY <1>1, <1>2
      <4>4. \A g \in Handlers : g # h /\ handler[g].order = o => handler[g].payment = "paid"
        BY <4>1 DEF ReadersOf
      <4>. QED BY <2>3, <2>6, <2>9, <2>10, <3>3, <4>2, <4>3, <4>4
    <3>. QED BY <3>2, <3>3
  <2>. QED BY <2>11, <2>12, <2>19, <2>20 DEF BillingInv
<1>. QED BY <1>3, <1>4

\* The sweep changes a status and nothing that was bought.
LEMMA SweepInv ==
    ASSUME BillingInv, SweepRead \/ SweepWrite
    PROVE  BillingInv'
<1>1. UNCHANGED <<clock, payment, captured, mail, handler, grants, muddled>>
  BY DEF SweepRead, SweepWrite, history
<1>2. CASE SweepRead
  BY <1>1, <1>2 DEF SweepRead, Awake, BillingInv, Types, ReportsReal, Reported, SubscriptionBacked, Backed, SettledOnce
<1>3. CASE SweepWrite
  <2>. DEFINE saw == sweeper.saw
              new == [saw EXCEPT !.status = "expired"]
  <2>1. saw \in Subscription /\ sub \in Subscription /\ Asleep \in [pc: {"idle", "read"}, saw: Subscription]
        /\ Asleep.pc = "idle"
    BY BillingAssumption DEF BillingInv, Types, Asleep, NoSub, Subscription
  <2>2. new \in Subscription /\ new.exists = saw.exists /\ new.plan = saw.plan /\ new.end = saw.end
    BY <2>1 DEF Subscription
  <2>3. sub' = Merge(saw, new, sub) /\ sweeper' = Asleep
    BY <1>3 DEF SweepWrite
  <2>. HIDE DEF saw, new
  <2>4. sub' \in Subscription /\ sub'.exists = sub.exists /\ sub'.plan = sub.plan /\ sub'.end = sub.end
    BY <2>1, <2>2, <2>3, MergedColumns
  <2>5. Types' /\ ReportsReal' /\ SettledOnce'
    BY <1>1, <2>1, <2>3, <2>4 DEF BillingInv, Types, ReportsReal, Reported, SettledOnce
  <2>6. SubscriptionBacked'
    BY <1>1, <2>4 DEF BillingInv, SubscriptionBacked, Backed
  <2>. QED BY <2>5, <2>6 DEF BillingInv
<1>. QED BY <1>2, <1>3

LEMMA NextInv == BillingInv /\ [BillingNext]_vars => BillingInv'
<1>. SUFFICES ASSUME BillingInv, [BillingNext]_vars PROVE BillingInv'
  OBVIOUS
<1>1. CASE Tick \/ \E o \in Orders : StartCheckout(o) \/ Pay(o) \/ AttemptFails(o)
  BY <1>1, OutsideInv
<1>2. CASE SweepRead \/ SweepWrite
  BY <1>2, SweepInv
<1>3. ASSUME NEW h \in Handlers, HandlerStep(h) \/ HandlerDies(h)
      PROVE  BillingInv'
  BY <1>3, ReadPaymentInv, ReadSubscriptionInv, ActivateInv, MarkFailedInv, HandlerDiesInv DEF HandlerStep
<1>4. CASE UNCHANGED vars
  BY <1>4 DEF vars, history, BillingInv, Types, ReportsReal, Reported, SubscriptionBacked, Backed, SettledOnce
<1>. QED BY <1>1, <1>2, <1>3, <1>4 DEF BillingNext

-----------------------------------------------------------------------------
\* Reports are about orders that exist and, when they tell of money, that were
\* paid; what is in force was bought; an order nobody overlapped was granted once.
THEOREM PurchasesSound == BillingSpec => []BillingInv
BY InitInv, NextInv, PTL DEF BillingSpec

\* "Nobody keeps a plan they have not paid for" (main.py:90-94), for any number of
\* orders, overlapping reports and sweeps: a plan in force was paid for within the
\* period, because quota.resolve reads the row and its end, not users.plan.
THEOREM PlansArePaidFor == BillingSpec => []PaidPlanOnly
<1>1. BillingInv => PaidPlanOnly
  <2>. SUFFICES ASSUME BillingInv, EffectivePlan(clock) # Free PROVE PaidPlanOnly
    BY DEF PaidPlanOnly
  <2>1. sub.exists /\ sub.end > clock /\ EffectivePlan(clock) = sub.plan
    BY DEF EffectivePlan, Live
  <2>2. PICK o \in captured : /\ payment[o].plan = sub.plan /\ grants[o].count > 0
                               /\ sub.end <= grants[o].at + Period
    BY <2>1 DEF BillingInv, SubscriptionBacked, Backed
  <2>3. clock \in Nat /\ sub.end \in Nat /\ o \in Orders /\ Period \in Nat
    BY BillingAssumption DEF BillingInv, Types, Subscription
  <2>4. grants[o].at \in Nat
    BY <2>3 DEF BillingInv, Types
  <2>. QED BY <2>1, <2>2, <2>3, <2>4 DEF PaidPlanOnly
<1>. QED BY <1>1, PurchasesSound, PTL

\* "Safe to call twice" (billing/service.py:131) is so for every order whose reports
\* did not overlap, however many deliveries and failed attempts there were.
THEOREM GrantedOnce == BillingSpec => []NotTwice
<1>1. BillingInv => NotTwice
  BY DEF BillingInv, Types, SettledOnce, NotTwice
<1>. QED BY <1>1, PurchasesSound, PTL

-----------------------------------------------------------------------------
(* What was promised is served.                                            *)

\* Until its end the last grant is what the table says, and a sweep that is under
\* way read a row that has run out.
Served ==
    /\ last \in [plan: {Free, Pro, Team}, end: Nat, raced: BOOLEAN]
    /\ clock < last.end /\ ~last.raced =>
         sub.exists /\ sub.status = "active" /\ sub.plan = last.plan /\ sub.end = last.end
    /\ sweeper.pc = "read" => sweeper.saw.end <= clock

\* A transaction that overlapped nobody writes what it means to.
LEMMA MergedAlone ==
    ASSUME NEW new \in Subscription, NEW row \in Subscription
    PROVE  Merge(row, new, row) = new
  BY DEF Merge, Subscription

LEMMA ServedActivate ==
    ASSUME BillingInv, Served, NEW h \in Handlers, Activate(h)
    PROVE  Served'
<1>. DEFINE o == handler[h].order
            saw == handler[h].saw
            new == Granted(payment[o].plan)
<1>1. /\ sub \in Subscription /\ saw \in Subscription /\ payment[o].plan \in {Free, Pro, Team}
      /\ UNCHANGED <<clock, sweeper>> /\ clock \in 0..MaxTime
  BY DEF Activate, outside, BillingInv, Types, Handler, Payment, ReportsReal, Reported
<1>2. clock \in Nat /\ Period \in Nat /\ Period > 0
  BY <1>1, BillingAssumption
<1>3. CASE sub.exists /\ ~saw.exists
  BY <1>1, <1>3 DEF Activate, history, Served
<1>4. CASE ~(sub.exists /\ ~saw.exists)
  <2>1. /\ sub' = Merge(saw, new, sub)
        /\ last' = [plan |-> new.plan, end |-> new.end, raced |-> sub # saw \/ sweeper.pc = "read"]
    BY <1>4 DEF Activate
  <2>2. /\ new \in Subscription /\ new.exists /\ new.status = "active" /\ new.end = clock + Period
    BY <1>1, <1>2, BillingAssumption DEF Granted, Subscription
  <2>. HIDE DEF o, saw, new
  <2>3. \E r \in BOOLEAN : last' = [plan |-> new.plan, end |-> new.end, raced |-> r] /\ (~r => sub = saw)
    <3>. DEFINE r == sub # saw \/ sweeper.pc = "read"
    <3>1. r \in BOOLEAN /\ (~r => sub = saw)
      BY Zenon
    <3>2. last' = [plan |-> new.plan, end |-> new.end, raced |-> r]
      BY <2>1, Zenon
    <3>. QED BY <3>1, <3>2, Zenon
  <2>4. PICK r \in BOOLEAN : last' = [plan |-> new.plan, end |-> new.end, raced |-> r] /\ (~r => sub = saw)
    BY <2>3
  <2>5. ~r => sub' = new
    BY <1>1, <2>1, <2>2, <2>4, MergedAlone
  <2>6. last' \in [plan: {Free, Pro, Team}, end: Nat, raced: BOOLEAN] /\ last'.raced = r
        /\ last'.plan = new.plan /\ last'.end = new.end
    BY <1>2, <2>2, <2>4 DEF Subscription
  <2>7. sweeper.pc = "read" => sweeper.saw.end <= clock
    BY DEF Served
  <2>. QED BY <1>1, <1>2, <2>2, <2>4, <2>5, <2>6, <2>7 DEF Served
<1>. QED BY <1>3, <1>4

LEMMA ServedSweep ==
    ASSUME BillingInv, Served, SweepRead \/ SweepWrite
    PROVE  Served'
<1>0. clock \in Nat
  BY BillingAssumption DEF BillingInv, Types
<1>1. CASE SweepRead
  BY <1>1 DEF SweepRead, Awake, history, Served
<1>2. CASE SweepWrite
  <2>1. /\ last' = [last EXCEPT !.raced = last.raced \/ sub # sweeper.saw]
        /\ sweeper'.pc = "idle" /\ sweeper.pc = "read" /\ clock' = clock
    BY <1>2 DEF SweepWrite, Asleep
  <2>2. /\ last' \in [plan: {Free, Pro, Team}, end: Nat, raced: BOOLEAN]
        /\ last'.end = last.end /\ last'.plan = last.plan
        /\ last'.raced = (last.raced \/ sub # sweeper.saw)
    BY <2>1 DEF Served
  <2>3. CASE last.raced \/ sub # sweeper.saw
    BY <2>1, <2>2, <2>3 DEF Served
  <2>4. CASE ~(last.raced \/ sub # sweeper.saw)
    <3>1. sweeper.saw.end <= clock /\ sub = sweeper.saw
      BY <2>1, <2>4 DEF Served
    <3>2. ~(clock < last.end)
      BY <1>0, <2>4, <3>1 DEF Served
    <3>. QED BY <2>1, <2>2, <3>2 DEF Served
  <2>. QED BY <2>3, <2>4
<1>. QED BY <1>1, <1>2

LEMMA ServedNext == BillingInv /\ Served /\ [BillingNext]_vars => Served'
<1>. SUFFICES ASSUME BillingInv, Served, [BillingNext]_vars PROVE Served'
  OBVIOUS
<1>0. clock \in Nat
  BY BillingAssumption DEF BillingInv, Types
<1>1. ASSUME UNCHANGED <<clock, sub, sweeper, last>>
      PROVE  Served'
  BY <1>1 DEF Served
<1>2. CASE Tick
  <2>1. clock' = clock + 1 /\ UNCHANGED <<sub, sweeper, last>> /\ sweeper.pc = "idle"
    BY <1>2 DEF Tick, service, history, Asleep
  <2>. QED BY <1>0, <2>1 DEF Served
<1>3. ASSUME NEW o \in Orders, StartCheckout(o) \/ Pay(o) \/ AttemptFails(o)
      PROVE  Served'
  BY <1>1, <1>3 DEF StartCheckout, Pay, AttemptFails, service, history
<1>4. CASE SweepRead \/ SweepWrite
  BY <1>4, ServedSweep
<1>5. ASSUME NEW h \in Handlers, HandlerStep(h) \/ HandlerDies(h)
      PROVE  Served'
  <2>1. CASE Activate(h)
    BY <2>1, ServedActivate
  <2>2. CASE ~Activate(h)
    BY <1>1, <1>5, <2>2 DEF HandlerStep, HandlerDies, ReadPayment, ReadSubscription, MarkFailed, outside, history
  <2>. QED BY <2>1, <2>2
<1>6. CASE UNCHANGED vars
  BY <1>1, <1>6 DEF vars
<1>. QED BY <1>2, <1>3, <1>4, <1>5, <1>6 DEF BillingNext

LEMMA ServedHolds == BillingSpec => []Served
<1>1. Init => Served
  BY DEF Init, Served, Asleep
<1>. QED BY <1>1, ServedNext, PurchasesSound, PTL DEF BillingSpec

\* Until its end, what the last grant promised is in force, for any number of orders,
\* reports and sweeps, unless a sweep or another grant overlapped it
\* (billing/service.py:136-138).
THEOREM PromisesKept == BillingSpec => []PaidForIsServed
<1>1. BillingInv /\ Served => PaidForIsServed
  BY DEF Served, PaidForIsServed, EffectivePlan, Live
<1>. QED BY <1>1, ServedHolds, PurchasesSound, PTL

-----------------------------------------------------------------------------
(* The allowance.                                                          *)

Plans == {Free, Pro, Team}
Row == [kind: Kinds \cup {"none"}, at: Nat, before: BOOLEAN]
Request == [pc: {"new", "allowed", "done"}, kind: Kinds \cup {"none"}, plan: Plans, at: Nat]

\* The rows that count in the period that was bought, and in the month of a free user.
PeriodRows(k) == {r \in Requests : spent[r].kind = k /\ ~spent[r].before}
MonthRows(k) == {r \in Requests : spent[r].kind = k /\ spent[r].at \div Month = clock \div Month}

\* What is sold is a plan that costs something.
PlansSold == \A o \in Orders : payment[o].status # "none" => payment[o].plan \in PURCHASABLE_PLAN_IDS

\* A request that was let in today and that nobody overtook has room for its row.
HasRoom(q) ==
    LET k == request[q].kind
        allowed == Limits[request[q].plan][k]
    IN  allowed # NoLimit =>
          Cardinality(IF request[q].plan = Free THEN MonthRows(k) ELSE PeriodRows(k)) < allowed

AllowanceInv ==
    /\ PlansSold
    /\ request \in [Requests -> Request]
    /\ spent \in [Requests -> Row]
    /\ IsFiniteSet({q \in Requests : spent[q] # NoRow})
    /\ \A q \in Requests :
         /\ request[q].at <= clock
         /\ request[q].pc = "allowed" => request[q].kind \in Kinds
         /\ request[q].pc = "allowed" /\ q \notin overtaken /\ request[q].at = clock => HasRoom(q)

LEMMA RowsFinite ==
    ASSUME NEW k \in Kinds, spent \in [Requests -> Row], IsFiniteSet({q \in Requests : spent[q] # NoRow})
    PROVE  /\ IsFiniteSet(PeriodRows(k)) /\ Cardinality(PeriodRows(k)) \in Nat
           /\ IsFiniteSet(MonthRows(k)) /\ Cardinality(MonthRows(k)) \in Nat
<1>1. PeriodRows(k) \subseteq {q \in Requests : spent[q] # NoRow}
  BY DEF PeriodRows, NoRow, Kinds
<1>2. MonthRows(k) \subseteq {q \in Requests : spent[q] # NoRow}
  BY DEF MonthRows, NoRow, Kinds
<1>. QED BY <1>1, <1>2, FS_Subset, FS_CardinalityType

LEMMA LimitsTyped ==
    ASSUME NEW p \in Plans, NEW k \in Kinds
    PROVE  Limits[p][k] \in Nat \cup {NoLimit}
  BY AllowanceAssumption DEF Plans

\* Nothing but a spent row makes anybody's room smaller.
LEMMA RoomStays ==
    ASSUME AllowanceInv, NEW q \in Requests, HasRoom(q), request'[q] = request[q], request[q].kind \in Kinds,
           PeriodRows(request[q].kind)' \subseteq PeriodRows(request[q].kind),
           MonthRows(request[q].kind)' \subseteq MonthRows(request[q].kind)
    PROVE  HasRoom(q)'
<1>. DEFINE k == request[q].kind
            allowed == Limits[request[q].plan][k]
<1>1. allowed \in Nat \cup {NoLimit} /\ k' = k /\ request'[q].plan = request[q].plan
  <2>1. request[q].plan \in Plans
    BY DEF AllowanceInv, Request
  <2>. QED BY <2>1, LimitsTyped
<1>2. /\ IsFiniteSet(PeriodRows(k)) /\ Cardinality(PeriodRows(k)) \in Nat
      /\ IsFiniteSet(MonthRows(k)) /\ Cardinality(MonthRows(k)) \in Nat
  BY RowsFinite DEF AllowanceInv
<1>3. /\ Cardinality(PeriodRows(k)') \in Nat /\ Cardinality(PeriodRows(k)') <= Cardinality(PeriodRows(k))
      /\ Cardinality(MonthRows(k)') \in Nat /\ Cardinality(MonthRows(k)') <= Cardinality(MonthRows(k))
  BY <1>2, FS_Subset, FS_CardinalityType
<1>. HIDE DEF k
<1>. QED BY <1>1, <1>2, <1>3 DEF HasRoom, k

LEMMA FreeIsNotSold == Free \notin PURCHASABLE_PLAN_IDS
<1>. SUFFICES ASSUME Free \in {Pro, Team} PROVE FALSE
  BY DEF PURCHASABLE_PLAN_IDS
<1>1. {Free, Pro, Team} = {Pro} \cup {Team}
  OBVIOUS
<1>2. IsFiniteSet({Pro}) /\ Cardinality({Pro}) = 1
  BY FS_Singleton
<1>3. Cardinality({Pro} \cup {Team}) = IF Team \in {Pro} THEN Cardinality({Pro}) ELSE Cardinality({Pro}) + 1
  BY <1>2, FS_AddElement
<1>. QED BY <1>1, <1>2, <1>3, BillingAssumption

LEMMA SubscribersPay ==
    ASSUME BillingInv, PlansSold
    PROVE  /\ EffectivePlan(clock) \in Plans
           /\ Live(clock) <=> EffectivePlan(clock) # Free
<1>1. ASSUME Live(clock) PROVE sub.plan \in PURCHASABLE_PLAN_IDS
  <2>1. PICK o \in captured : payment[o].plan = sub.plan
    BY <1>1 DEF Live, BillingInv, SubscriptionBacked, Backed
  <2>2. o \in Orders /\ payment[o].status # "none"
    BY DEF BillingInv, Types, ReportsReal
  <2>. QED BY <2>1, <2>2 DEF PlansSold
<1>. QED BY <1>1, FreeIsNotSold DEF EffectivePlan, Plans, PURCHASABLE_PLAN_IDS

LEMMA SoldStays == BillingInv /\ PlansSold /\ [BillingNext]_vars => PlansSold'
<1>. SUFFICES ASSUME BillingInv, PlansSold, [BillingNext]_vars PROVE PlansSold'
  OBVIOUS
<1>0. payment \in [Orders -> Payment]
  BY DEF BillingInv, Types
<1>1. CASE UNCHANGED payment
  BY <1>1 DEF PlansSold
<1>2. ASSUME NEW o \in Orders, NEW p \in PURCHASABLE_PLAN_IDS,
             payment' = [payment EXCEPT ![o] = [status |-> "created", plan |-> p]]
      PROVE  PlansSold'
  BY <1>0, <1>2 DEF PlansSold
<1>3. ASSUME NEW o \in Orders, NEW s, payment[o].status # "none", payment' = [payment EXCEPT ![o].status = s]
      PROVE  PlansSold'
  BY <1>0, <1>3 DEF PlansSold, Payment
<1>4. ASSUME NEW o \in Orders, StartCheckout(o) \/ Pay(o) \/ AttemptFails(o)
      PROVE  PlansSold'
  BY <1>1, <1>2, <1>4 DEF StartCheckout, Pay, AttemptFails
<1>5. ASSUME NEW h \in Handlers, Activate(h) \/ MarkFailed(h)
      PROVE  PlansSold'
  <2>1. handler[h].order \in Orders /\ payment[handler[h].order].status # "none"
    BY <1>5 DEF Activate, MarkFailed, BillingInv, ReportsReal, Reported
  <2>2. \/ UNCHANGED payment
        \/ payment' = [payment EXCEPT ![handler[h].order].status = "paid"]
        \/ payment' = [payment EXCEPT ![handler[h].order].status = "failed"]
    BY <1>5 DEF Activate, MarkFailed
  <2>. QED BY <1>1, <1>3, <2>1, <2>2
<1>6. ASSUME NEW h \in Handlers, HandlerDies(h) \/ ReadSubscription(h)
                                  \/ \E o \in Orders, e \in Events : ReadPayment(h, o, e)
      PROVE  PlansSold'
  BY <1>1, <1>6 DEF HandlerDies, ReadSubscription, ReadPayment
<1>7. CASE Tick \/ SweepRead \/ SweepWrite \/ UNCHANGED vars
  BY <1>1, <1>7 DEF Tick, SweepRead, SweepWrite, vars
<1>. QED BY <1>4, <1>5, <1>6, <1>7 DEF BillingNext, HandlerStep

\* The clock only goes on.
LEMMA ClockMoves == BillingInv /\ [BillingNext]_vars => clock' = clock \/ clock' = clock + 1
BY DEF BillingNext, Tick, SweepRead, SweepWrite, StartCheckout, Pay, AttemptFails, HandlerStep, ReadPayment,
       ReadSubscription, Activate, MarkFailed, HandlerDies, outside, vars

LEMMA NoRowStays ==
    /\ NoRow \in Row /\ ~NoRow.before
    /\ [NoRow EXCEPT !.before = FALSE] = NoRow /\ (NoRow # NoRow) = FALSE
<1>1. NoRow \in Row
  BY DEF NoRow, Row
<1>2. NoRow.before = FALSE
  BY DEF NoRow
<1>3. (NoRow # NoRow) = FALSE
  BY Zenon
<1>. HIDE DEF NoRow
<1>4. [NoRow EXCEPT !.before = FALSE] = NoRow
  BY <1>1, <1>2 DEF Row
<1>. QED BY <1>1, <1>2, <1>3, <1>4

\* A grant starts a window; nothing else of Billing touches a row.
LEMMA BillingKeepsRoom ==
    ASSUME BillingInv, AllowanceInv, [BillingNext]_vars, Restarts
    PROVE  AllowanceInv'
<1>1. /\ PlansSold' /\ UNCHANGED <<request, overtaken>> /\ clock \in Nat
      /\ clock' = clock \/ clock' = clock + 1
  BY SoldStays, ClockMoves, BillingAssumption DEF AllowanceInv, Restarts, BillingInv, Types
<1>2. ASSUME NEW r \in Requests
      PROVE  /\ spent'[r] \in Row /\ spent'[r].kind = spent[r].kind /\ spent'[r].at = spent[r].at
             /\ ~spent'[r].before => ~spent[r].before
             /\ spent'[r] # NoRow => spent[r] # NoRow
  <2>. DEFINE old == spent[r]
              old2 == [old EXCEPT !.before = old # NoRow]
  <2>1. old \in Row
    BY DEF AllowanceInv
  <2>2. spent'[r] = old \/ spent'[r] = old2
    BY DEF Restarts
  <2>3. CASE old = NoRow
    <3>1. ~NoRow.before
      BY NoRowStays
    <3>2. [NoRow EXCEPT !.before = FALSE] = NoRow
      BY NoRowStays
    <3>3. (old # NoRow) = FALSE
      BY <2>3
    <3>4. old2 = NoRow
      BY <2>3, <3>2, <3>3
    <3>. QED BY <2>1, <2>2, <2>3, <3>4
  <2>4. CASE old # NoRow
    <3>1. (old # NoRow) = TRUE
      BY <2>4
    <3>2. old2 = [old EXCEPT !.before = TRUE]
      BY <3>1
    <3>3. old2 \in Row /\ old2.kind = old.kind /\ old2.at = old.at /\ old2.before
      <4>. HIDE DEF old
      <4>. QED BY <2>1, <3>2 DEF Row
    <3>. QED BY <2>1, <2>2, <2>4, <3>3
  <2>. QED BY <2>3, <2>4
<1>3. spent' \in [Requests -> Row]
  <2>1. spent' = [r \in Requests |-> spent'[r]]
    BY DEF Restarts, AllowanceInv
  <2>. QED BY <1>2, <2>1
<1>4. IsFiniteSet({q \in Requests : spent'[q] # NoRow})
  <2>1. {q \in Requests : spent'[q] # NoRow} \subseteq {q \in Requests : spent[q] # NoRow}
    BY <1>2
  <2>. QED BY <2>1, FS_Subset DEF AllowanceInv
<1>5. ASSUME NEW q \in Requests
      PROVE  /\ request'[q].at <= clock'
             /\ request'[q].pc = "allowed" => request'[q].kind \in Kinds
             /\ request'[q].pc = "allowed" /\ q \notin overtaken' /\ request'[q].at = clock' => HasRoom(q)'
  <2>1. /\ request[q].at \in Nat /\ request[q].at <= clock
        /\ request[q].pc = "allowed" => request[q].kind \in Kinds
        /\ request[q].pc = "allowed" /\ q \notin overtaken /\ request[q].at = clock => HasRoom(q)
    BY DEF AllowanceInv, Request
  <2>2. \A k : PeriodRows(k)' \subseteq PeriodRows(k)
    BY <1>2 DEF PeriodRows
  <2>3. CASE clock' = clock
    <3>1. \A k : MonthRows(k)' \subseteq MonthRows(k)
      BY <1>2, <2>3 DEF MonthRows
    <3>. QED BY <1>1, <2>1, <2>2, <2>3, <3>1, RoomStays
  <2>4. CASE clock' = clock + 1
    BY <1>1, <2>1, <2>4
  <2>. QED BY <1>1, <2>3, <2>4
<1>. QED BY <1>1, <1>3, <1>4, <1>5 DEF AllowanceInv

LEMMA EnforceKeepsRoom ==
    ASSUME BillingInv, AllowanceInv, NEW q \in Requests, Enforce(q)
    PROVE  AllowanceInv'
<1>. DEFINE plan == EffectivePlan(clock)
<1>1. PICK k \in Kinds :
        request' = [request EXCEPT ![q] =
                      [pc |-> IF Allows(plan, k, Used(k, clock)) THEN "allowed" ELSE "done",
                       kind |-> k, plan |-> plan, at |-> clock]]
  BY DEF Enforce
<1>2. plan \in Plans /\ (Live(clock) <=> plan # Free) /\ clock \in Nat
  BY SubscribersPay, BillingAssumption DEF AllowanceInv, BillingInv, Types
<1>3. UNCHANGED <<vars, spent, overtaken>>
  BY DEF Enforce
<1>4. Used(k, clock) = Cardinality(IF plan = Free THEN MonthRows(k) ELSE PeriodRows(k))
  BY <1>2 DEF Used, InWindow, InMonth, MonthRows, PeriodRows
<1>5. UNCHANGED <<payment, clock>>
  BY <1>3 DEF vars
<1>. HIDE DEF plan
<1>6. request' \in [Requests -> Request] /\ \A r \in Requests \ {q} : request'[r] = request[r]
  BY <1>1, <1>2 DEF AllowanceInv, Request
<1>7. /\ request'[q].kind = k /\ request'[q].plan = plan /\ request'[q].at = clock
      /\ request'[q].pc = "allowed" => Allows(plan, k, Used(k, clock))
  BY <1>1 DEF AllowanceInv
<1>8. request'[q].pc = "allowed" => HasRoom(q)'
  <2>1. PeriodRows(k)' = PeriodRows(k) /\ MonthRows(k)' = MonthRows(k)
    BY <1>3, <1>5 DEF PeriodRows, MonthRows
  <2>. QED BY <1>4, <1>7, <2>1 DEF HasRoom, Allows
<1>9. \A r \in Requests \ {q} : HasRoom(r) => HasRoom(r)'
  BY <1>3, <1>5, <1>6 DEF HasRoom, PeriodRows, MonthRows
<1>. QED BY <1>2, <1>3, <1>5, <1>6, <1>7, <1>8, <1>9 DEF AllowanceInv, PlansSold

\* Whoever is let in for the same kind is overtaken.
LEMMA SpendKeepsRoom ==
    ASSUME BillingInv, AllowanceInv, NEW q \in Requests, Spend(q)
    PROVE  AllowanceInv'
<1>. DEFINE k == request[q].kind
            row == [kind |-> k, at |-> clock, before |-> FALSE]
<1>1. /\ request[q].pc = "allowed" /\ request' = [request EXCEPT ![q].pc = "done"]
      /\ spent' = [spent EXCEPT ![q] = row]
      /\ overtaken' = overtaken \cup {r \in Requests \ {q} : request[r].pc = "allowed" /\ request[r].kind = k}
      /\ UNCHANGED <<payment, clock>>
  BY DEF Spend, vars
<1>2. k \in Kinds /\ clock \in Nat /\ request[q] \in Request /\ row \in Row /\ row.kind = k
  BY <1>1, BillingAssumption DEF AllowanceInv, BillingInv, Types, Row
<1>. HIDE DEF k, row
<1>3. /\ request' \in [Requests -> Request] /\ spent' \in [Requests -> Row]
      /\ \A r \in Requests \ {q} : request'[r] = request[r] /\ spent'[r] = spent[r]
      /\ request'[q].pc = "done" /\ request'[q].at = request[q].at /\ spent'[q] = row
  BY <1>1, <1>2 DEF AllowanceInv, Request
<1>4. IsFiniteSet({r \in Requests : spent'[r] # NoRow})
  <2>1. {r \in Requests : spent'[r] # NoRow} \subseteq {r \in Requests : spent[r] # NoRow} \cup {q}
    BY <1>3
  <2>. QED BY <2>1, FS_Subset, FS_AddElement DEF AllowanceInv
<1>5. ASSUME NEW r \in Requests, request'[r].pc = "allowed", r \notin overtaken', request'[r].at = clock'
      PROVE  HasRoom(r)'
  <2>1. /\ r # q /\ request'[r] = request[r] /\ request[r].kind # k /\ request[r].kind \in Kinds
        /\ HasRoom(r)
    BY <1>1, <1>3, <1>5 DEF AllowanceInv
  <2>2. /\ PeriodRows(request[r].kind)' \subseteq PeriodRows(request[r].kind)
        /\ MonthRows(request[r].kind)' \subseteq MonthRows(request[r].kind)
    BY <1>1, <1>2, <1>3, <2>1 DEF PeriodRows, MonthRows
  <2>. QED BY <2>1, <2>2, RoomStays
<1>. QED BY <1>1, <1>3, <1>4, <1>5 DEF AllowanceInv, PlansSold

LEMMA OthersKeepRoom ==
    ASSUME BillingInv, AllowanceInv, NEW q \in Requests, SpendNothing(q) \/ DeleteRow(q)
    PROVE  AllowanceInv'
<1>1. UNCHANGED <<payment, clock, overtaken>>
  BY DEF SpendNothing, DeleteRow, vars
<1>2. /\ request' \in [Requests -> Request]
      /\ \A r \in Requests : request'[r].at = request[r].at
      /\ \A r \in Requests : request'[r].pc = "allowed" => request'[r] = request[r]
  BY DEF SpendNothing, DeleteRow, AllowanceInv, Request
<1>3. NoRow \in Row
  BY DEF NoRow, Row
<1>4. /\ spent' \in [Requests -> Row]
      /\ \A r \in Requests : spent'[r] = spent[r] \/ spent'[r] = NoRow
  BY <1>3 DEF SpendNothing, DeleteRow, AllowanceInv
<1>5. IsFiniteSet({r \in Requests : spent'[r] # NoRow})
  <2>1. {r \in Requests : spent'[r] # NoRow} \subseteq {r \in Requests : spent[r] # NoRow}
    BY <1>4
  <2>. QED BY <2>1, FS_Subset DEF AllowanceInv
<1>6. ASSUME NEW r \in Requests, request'[r].pc = "allowed", r \notin overtaken', request'[r].at = clock'
      PROVE  HasRoom(r)'
  <2>1. request'[r] = request[r] /\ request[r].kind \in Kinds /\ HasRoom(r)
    BY <1>1, <1>2, <1>6 DEF AllowanceInv
  <2>2. NoRow.kind \notin Kinds
    BY DEF NoRow, Kinds
  <2>3. /\ PeriodRows(request[r].kind)' \subseteq PeriodRows(request[r].kind)
        /\ MonthRows(request[r].kind)' \subseteq MonthRows(request[r].kind)
    BY <1>1, <1>2, <1>4, <2>1, <2>2 DEF PeriodRows, MonthRows
  <2>. QED BY <2>1, <2>3, RoomStays
<1>. QED BY <1>1, <1>2, <1>4, <1>5, <1>6 DEF AllowanceInv, PlansSold

\* The row that is written is one more than there was room for.
LEMMA SpentWithin ==
    ASSUME BillingInv, AllowanceInv, NEW q \in Requests, Spend(q), q \notin overtaken,
           request[q].plan = EffectivePlan(clock), request[q].at = clock,
           NEW k, k = request[q].kind, Limits[EffectivePlan(clock)][k] # NoLimit
    PROVE  LET period == {r \in Requests: spent'[r].kind = k /\ ~spent'[r].before}
               month == {r \in Requests: spent'[r].kind = k /\ spent'[r].at \div Month = clock \div Month}
           IN  Cardinality(IF EffectivePlan(clock) = Free THEN month ELSE period) <= Limits[EffectivePlan(clock)][k]
<1>. DEFINE plan == EffectivePlan(clock)
            allowed == Limits[plan][k]
            rows == IF plan = Free THEN MonthRows(k) ELSE PeriodRows(k)
            period == {r \in Requests: spent'[r].kind = k /\ ~spent'[r].before}
            month == {r \in Requests: spent'[r].kind = k /\ spent'[r].at \div Month = clock \div Month}
            after == IF plan = Free THEN month ELSE period
<1>1. k \in Kinds /\ plan \in Plans /\ HasRoom(q)
  BY SubscribersPay DEF Spend, AllowanceInv
<1>2. allowed \in Nat /\ Cardinality(rows) < allowed
  BY <1>1, LimitsTyped DEF HasRoom
<1>3. IsFiniteSet(rows) /\ Cardinality(rows) \in Nat
  BY <1>1, RowsFinite DEF AllowanceInv
<1>4. \A r \in Requests \ {q} : spent'[r] = spent[r]
  BY DEF Spend, AllowanceInv
<1>5. after \subseteq rows \cup {q}
  BY <1>4 DEF MonthRows, PeriodRows
<1>. HIDE DEF after, rows, allowed
<1>6. IsFiniteSet(rows \cup {q}) /\ Cardinality(rows \cup {q}) <= Cardinality(rows) + 1
      /\ Cardinality(rows \cup {q}) \in Nat
  <2>1. IsFiniteSet(rows \cup {q})
        /\ Cardinality(rows \cup {q}) = IF q \in rows THEN Cardinality(rows) ELSE Cardinality(rows) + 1
    BY <1>3, FS_AddElement
  <2>. QED BY <1>3, <2>1
<1>7. Cardinality(after) <= Cardinality(rows \cup {q}) /\ Cardinality(after) \in Nat
  BY <1>5, <1>6, FS_Subset, FS_CardinalityType
<1>8. Cardinality(after) <= allowed
  BY <1>2, <1>3, <1>6, <1>7
<1>. QED BY <1>8 DEF after, allowed

LEMMA AllowanceHolds == AllowanceSpec => [](BillingInv /\ AllowanceInv)
<1>1. Init /\ AllowanceInit => BillingInv /\ AllowanceInv
  <2>. SUFFICES ASSUME Init, AllowanceInit PROVE AllowanceInv
    BY InitInv
  <2>1. NewRequest \in Request /\ NewRequest.pc = "new" /\ NewRequest.at = 0 /\ NoRow \in Row
    BY DEF NewRequest, Request, Plans, NoRow, Row
  <2>2. {q \in Requests : spent[q] # NoRow} = {}
    BY DEF AllowanceInit
  <2>3. clock = 0 /\ PlansSold
    BY DEF Init, PlansSold
  <2>. QED BY <2>1, <2>2, <2>3, FS_EmptySet DEF AllowanceInit, AllowanceInv
<1>2. BillingInv /\ AllowanceInv /\ [AllowanceNext]_<<vars, allowance>> => BillingInv' /\ AllowanceInv'
  <2>. SUFFICES ASSUME BillingInv, AllowanceInv, [AllowanceNext]_<<vars, allowance>>
                PROVE  BillingInv' /\ AllowanceInv'
    OBVIOUS
  <2>1. CASE BillingNext /\ Restarts
    BY <2>1, NextInv, BillingKeepsRoom
  <2>2. ASSUME NEW q \in Requests, Enforce(q) \/ Spend(q) \/ SpendNothing(q) \/ DeleteRow(q)
        PROVE  BillingInv' /\ AllowanceInv'
    <3>1. UNCHANGED vars
      BY <2>2 DEF Enforce, Spend, SpendNothing, DeleteRow
    <3>. QED BY <2>2, <3>1, NextInv, EnforceKeepsRoom, SpendKeepsRoom, OthersKeepRoom
  <2>3. CASE UNCHANGED <<vars, allowance>>
    <3>1. UNCHANGED vars /\ Restarts
      BY <2>3 DEF allowance, Restarts, vars
    <3>. QED BY <3>1, NextInv, BillingKeepsRoom
  <2>. QED BY <2>1, <2>2, <2>3 DEF AllowanceNext
<1>. QED BY <1>1, <1>2, PTL DEF AllowanceSpec

\* A request's own row keeps the period that was bought, or a free user's month, within
\* the plan's limit, for any number of requests, orders and limits, unless another row of
\* its kind was written or the plan or the day changed between its check and its row
\* (billing/quota.py:26-28).
THEOREM AllowanceKept == AllowanceSpec => WithinAllowance
<1>. DEFINE Within(q) ==
         LET k == request[q].kind
             bought == Limits[EffectivePlan(clock)][k]
             period == {r \in Requests: spent'[r].kind = k /\ ~spent'[r].before}
             month == {r \in Requests: spent'[r].kind = k /\ spent'[r].at \div Month = clock \div Month}
         IN  /\ spent[q] = NoRow /\ spent'[q] # NoRow
             /\ q \notin overtaken
             /\ request[q].plan = EffectivePlan(clock) /\ request[q].at = clock
             /\ bought # NoLimit
             => Cardinality(IF EffectivePlan(clock) = Free THEN month ELSE period) <= bought
<1>1. BillingInv /\ AllowanceInv /\ [AllowanceNext]_<<vars, allowance>>
        => [\A q \in Requests : Within(q)]_<<vars, allowance>>
  <2>. SUFFICES ASSUME BillingInv, AllowanceInv, AllowanceNext, NEW q \in Requests PROVE Within(q)
    OBVIOUS
  <2>1. CASE Spend(q)
    BY <2>1, SpentWithin
  <2>2. CASE ~Spend(q)
    <3>1. ASSUME spent[q] = NoRow PROVE spent'[q] = NoRow
      <4>1. CASE BillingNext /\ Restarts
        BY <3>1, <4>1, NoRowStays DEF Restarts
      <4>2. ASSUME NEW p \in Requests, Enforce(p) \/ Spend(p) \/ SpendNothing(p) \/ DeleteRow(p)
            PROVE  spent'[q] = NoRow
        BY <2>2, <3>1, <4>2 DEF Enforce, Spend, SpendNothing, DeleteRow, AllowanceInv
      <4>. QED BY <4>1, <4>2 DEF AllowanceNext
    <3>. QED BY <3>1
  <2>. QED BY <2>1, <2>2
<1>. QED BY <1>1, AllowanceHolds, PTL DEF AllowanceSpec, WithinAllowance

-----------------------------------------------------------------------------
(* Being limited.                                                          *)

LimiterTypes == LimiterTypeOK /\ \A s \in Scopes : counter[s].n <= requests[s]

\* A key lasts a window at least, whatever became of its expiry meanwhile.
KeyLasts(s) ==
    counter[s].n > 0 =>
      /\ began[s] <= now
      /\ counter[s].left > 0 => began[s] + Window <= now + counter[s].left

\* What was let through by the key that is there, or by one whose window is over.
Numbered(s) ==
    \A a \in accepted[s] :
      /\ a.n <= RateAllowance /\ a.key <= a.at
      /\ IF counter[s].n > 0
         THEN (a.key = began[s] /\ a.at <= now /\ a.n <= counter[s].n)
              \/ (a.key + Window <= began[s] /\ a.at < began[s])
         ELSE a.key + Window <= now /\ a.at < now

Apart(a, b) ==
    /\ a.key = b.key /\ a.n = b.n => a = b
    /\ a.key < b.key => a.key + Window <= b.key /\ a.at < b.key

LimiterInv ==
    /\ LimiterTypes
    /\ \A s \in Scopes : KeyLasts(s) /\ Numbered(s) /\ \A a, b \in accepted[s] : Apart(a, b)
    /\ stuck = {}

\* The key of a scope that is counted once more.
LEMMA CountedOnce ==
    ASSUME LimiterInv, NEW s \in Scopes, Asks(s), Counts(s)
    PROVE  /\ requests' \in [Scopes -> 0..MaxRequests] /\ counter' \in [Scopes -> [n: 0..MaxRequests, left: 0..Window]]
           /\ began' \in [Scopes -> 0..MaxNow]
           /\ counter'[s] = Increment(counter[s]) /\ counter'[s].n = counter[s].n + 1
           /\ counter'[s].n <= requests'[s] /\ counter'[s].left > 0
           /\ counter'[s].left = counter[s].left \/ counter'[s].left = Window
           /\ counter[s].n = 0 => counter'[s].left = Window
           /\ began'[s] = IF counter[s].n = 0 THEN now ELSE began[s]
           /\ \A r \in Scopes \ {s} : /\ counter'[r] = counter[r] /\ began'[r] = began[r]
                                      /\ requests'[r] = requests[r]
<1>. DEFINE k == counter[s]
            new == [n |-> k.n + 1, left |-> IF k.n = 0 \/ k.left = 0 THEN Window ELSE k.left]
<1>1. /\ now \in 0..MaxNow /\ requests \in [Scopes -> 0..MaxRequests] /\ began \in [Scopes -> 0..MaxNow]
      /\ counter \in [Scopes -> [n: 0..MaxRequests, left: 0..Window]]
      /\ k.n \in Nat /\ k.left \in 0..Window /\ k.n <= requests[s] /\ Window \in Nat /\ Window > 0
      /\ MaxRequests \in Nat
  BY RateLimitAssumption DEF LimiterInv, LimiterTypes, LimiterTypeOK
<1>2. /\ requests[s] < MaxRequests /\ requests' = [requests EXCEPT ![s] = @ + 1]
      /\ counter' = [counter EXCEPT ![s] = new]
      /\ began' = IF k.n = 0 THEN [began EXCEPT ![s] = now] ELSE began
      /\ Increment(k) = new
  BY DEF Asks, Counts, Increment
<1>3. new \in [n: 0..MaxRequests, left: 0..Window]
  <2>1. k.n + 1 \in 0..MaxRequests
    BY <1>1, <1>2
  <2>2. (IF k.n = 0 \/ k.left = 0 THEN Window ELSE k.left) \in 0..Window
    BY <1>1
  <2>. QED BY <2>1, <2>2
<1>4. requests' \in [Scopes -> 0..MaxRequests] /\ requests'[s] = requests[s] + 1
  BY <1>1, <1>2
<1>5. counter'[s] = new /\ counter' \in [Scopes -> [n: 0..MaxRequests, left: 0..Window]]
  BY <1>1, <1>2, <1>3
<1>6. new.n = k.n + 1 /\ new.left = IF k.n = 0 \/ k.left = 0 THEN Window ELSE k.left
  OBVIOUS
<1>. HIDE DEF new
<1>. QED BY <1>1, <1>2, <1>4, <1>5, <1>6

\* Counting keeps what is known of keys and of what they let through.
LEMMA CountingKeeps ==
    ASSUME LimiterInv, NEW s \in Scopes, Asks(s), Counts(s),
           \A r \in Scopes \ {s} : accepted'[r] = accepted[r],
           accepted' \in [Scopes -> SUBSET Pass],
           NEW more \in SUBSET Pass, accepted'[s] = accepted[s] \cup more,
           \A a \in more : /\ a = [at |-> now, key |-> began'[s], n |-> counter'[s].n]
                           /\ counter'[s].n <= RateAllowance,
           UNCHANGED now, stuck' = {}, outages' \in 0..MaxOutages
    PROVE  LimiterInv'
<1>1. /\ now \in 0..MaxNow /\ Window \in Nat \ {0} /\ MaxNow \in Nat /\ RateAllowance \in Nat
      /\ MaxRequests \in Nat /\ accepted \in [Scopes -> SUBSET Pass]
      /\ \A r \in Scopes : /\ counter[r] \in [n: 0..MaxRequests, left: 0..Window] /\ began[r] \in 0..MaxNow
                           /\ counter[r].n <= requests[r]
                           /\ KeyLasts(r) /\ Numbered(r) /\ \A a, b \in accepted[r] : Apart(a, b)
  BY RateLimitAssumption DEF LimiterInv, LimiterTypes, LimiterTypeOK
<1>2. LimiterTypes'
  BY <1>1, CountedOnce DEF LimiterTypes, LimiterTypeOK
<1>3. ASSUME NEW r \in Scopes \ {s}
      PROVE  KeyLasts(r)' /\ Numbered(r)' /\ \A a, b \in accepted'[r] : Apart(a, b)
  <2>1. /\ counter'[r] = counter[r] /\ began'[r] = began[r] /\ accepted'[r] = accepted[r]
        /\ KeyLasts(r) /\ Numbered(r) /\ \A a, b \in accepted[r] : Apart(a, b)
    BY <1>1, <1>3, CountedOnce
  <2>. QED BY <2>1 DEF KeyLasts, Numbered
<1>4. KeyLasts(s)'
  <2>1. counter[s].left \in Nat /\ counter[s].n \in Nat /\ began[s] \in Nat /\ now \in Nat
    BY <1>1
  <2>. QED BY <1>1, <2>1, CountedOnce DEF KeyLasts
<1>5. ASSUME NEW a \in accepted[s]
      PROVE  (a.key = began'[s] /\ a.at <= now /\ a.n < counter'[s].n)
             \/ (a.key + Window <= began'[s] /\ a.at < began'[s])
  <2>1. a \in Pass /\ counter[s].n \in Nat /\ began[s] \in Nat
    BY <1>1
  <2>. QED BY <1>1, <2>1, CountedOnce DEF Numbered, Pass
<1>6. Numbered(s)'
  <2>1. counter'[s].n > 0
    BY <1>1, CountedOnce
  <2>2. ASSUME NEW a \in accepted[s]
        PROVE  /\ a.n <= RateAllowance /\ a.key <= a.at
               /\ \/ a.key = began'[s] /\ a.at <= now' /\ a.n <= counter'[s].n
                  \/ a.key + Window <= began'[s] /\ a.at < began'[s]
    <3>1. a \in Pass /\ counter'[s].n \in Nat
      BY <1>1, CountedOnce
    <3>. QED BY <1>1, <1>5, <3>1 DEF Numbered, Pass
  <2>3. ASSUME NEW a \in more
        PROVE  /\ a.n <= RateAllowance /\ a.key <= a.at
               /\ a.key = began'[s] /\ a.at <= now' /\ a.n <= counter'[s].n
    <3>1. /\ a.at = now /\ a.key = began'[s] /\ a.n = counter'[s].n /\ a.n <= RateAllowance
          /\ a.n \in Nat /\ now \in Nat
      BY <1>1, CountedOnce
    <3>2. began'[s] <= now
      BY <1>1, CountedOnce DEF KeyLasts
    <3>. QED BY <3>1, <3>2
  <2>. QED BY <2>1, <2>2, <2>3 DEF Numbered
<1>7. \A a, b \in accepted'[s] : Apart(a, b)
  <2>1. ASSUME NEW a \in accepted[s], NEW b \in more
        PROVE  Apart(a, b) /\ Apart(b, a)
    <3>1. /\ b.at = now /\ b.key = began'[s] /\ b.n = counter'[s].n /\ b.n \in Nat /\ b.key \in Nat
          /\ a \in Pass
      BY <1>1, CountedOnce
    <3>2. a.key \in Nat /\ a.n \in Nat /\ a.at \in Nat
      BY <3>1 DEF Pass
    <3>. QED BY <1>1, <1>5, <3>1, <3>2 DEF Apart
  <2>2. ASSUME NEW a \in more, NEW b \in more
        PROVE  Apart(a, b)
    <3>1. a = b /\ a.key \in Nat
      BY DEF Pass
    <3>. QED BY <3>1 DEF Apart
  <2>3. \A a, b \in accepted[s] : Apart(a, b)
    BY <1>1
  <2>. QED BY <2>1, <2>2, <2>3
<1>. QED BY <1>2, <1>3, <1>4, <1>6, <1>7 DEF LimiterInv

LEMMA CheckKeeps ==
    ASSUME LimiterInv, NEW s \in Scopes, CheckLimit(s)
    PROVE  LimiterInv'
<1>. DEFINE x == [at |-> now, key |-> began'[s], n |-> counter'[s].n]
<1>1. Asks(s) /\ Counts(s) /\ UNCHANGED <<now, outages>>
  BY DEF CheckLimit
<1>2. counter'[s] = Increment(counter[s]) /\ counter'[s].left > 0 /\ counter'[s].n \in 1..MaxRequests /\ began'[s] \in 0..MaxNow
  <2>1. counter[s].n \in Nat /\ counter'[s].n \in 0..MaxRequests
    BY <1>1, CountedOnce DEF LimiterInv, LimiterTypes, LimiterTypeOK
  <2>. QED BY <1>1, <2>1, CountedOnce
<1>3. stuck' = {} /\ outages' \in 0..MaxOutages /\ now \in 0..MaxNow /\ accepted \in [Scopes -> SUBSET Pass]
  BY <1>1, <1>2 DEF CheckLimit, LimiterInv, LimiterTypes, LimiterTypeOK
<1>4. x \in Pass
  BY <1>2, <1>3 DEF Pass
<1>5. CASE counter'[s].n <= RateAllowance
  <2>1. accepted' = [accepted EXCEPT ![s] = @ \cup {x}]
    BY <1>2, <1>5 DEF CheckLimit
  <2>2. /\ \A r \in Scopes \ {s} : accepted'[r] = accepted[r]
        /\ accepted'[s] = accepted[s] \cup {x} /\ accepted' \in [Scopes -> SUBSET Pass]
    BY <1>3, <1>4, <2>1
  <2>. HIDE DEF x
  <2>3. {x} \in SUBSET Pass
    BY <1>4
  <2>4. \A a \in {x} : a = [at |-> now, key |-> began'[s], n |-> counter'[s].n] /\ counter'[s].n <= RateAllowance
    BY <1>5 DEF x
  <2>. QED BY <1>1, <1>3, <2>2, <2>3, <2>4, CountingKeeps
<1>6. CASE ~(counter'[s].n <= RateAllowance)
  <2>1. accepted' = accepted
    BY <1>2, <1>6 DEF CheckLimit
  <2>2. {} \in SUBSET Pass /\ accepted'[s] = accepted[s] \cup {}
    BY <2>1
  <2>. QED BY <1>1, <1>3, <2>1, <2>2, CountingKeeps
<1>. QED BY <1>5, <1>6

LEMMA OpenKeeps ==
    ASSUME LimiterInv, NEW s \in Scopes, FailsOpen(s)
    PROVE  LimiterInv'
<1>1. /\ Asks(s) /\ UNCHANGED <<now, accepted, stuck>> /\ outages' \in 0..MaxOutages /\ stuck = {}
      /\ accepted \in [Scopes -> SUBSET Pass]
  BY RateLimitAssumption DEF FailsOpen, LimiterInv, LimiterTypes, LimiterTypeOK
<1>2. CASE Counts(s)
  <2>1. {} \in SUBSET Pass /\ accepted'[s] = accepted[s] \cup {}
    BY <1>1
  <2>. QED BY <1>1, <1>2, <2>1, CountingKeeps
<1>3. CASE UNCHANGED <<counter, began>>
  <2>1. /\ requests' \in [Scopes -> 0..MaxRequests] /\ \A r \in Scopes : counter[r].n <= requests'[r]
    <3>1. /\ requests \in [Scopes -> 0..MaxRequests] /\ MaxRequests \in Nat
          /\ requests[s] < MaxRequests /\ requests' = [requests EXCEPT ![s] = @ + 1]
          /\ \A r \in Scopes : counter[r].n \in Nat /\ counter[r].n <= requests[r]
      BY RateLimitAssumption DEF Asks, FailsOpen, LimiterInv, LimiterTypes, LimiterTypeOK
    <3>2. requests[s] + 1 \in 0..MaxRequests /\ counter[s].n <= requests[s] + 1
      BY <3>1
    <3>. QED BY <3>1, <3>2
  <2>2. LimiterTypes'
    BY <1>1, <1>3, <2>1 DEF LimiterTypes, LimiterTypeOK, LimiterInv
  <2>. QED BY <1>1, <1>3, <2>2 DEF LimiterInv, KeyLasts, Numbered
<1>. QED BY <1>2, <1>3 DEF FailsOpen

\* A key without an expiry keeps its count, and stays until it is given one.
LEMMA LosingKeeps ==
    ASSUME LimiterInv, NEW s \in Scopes, LosesExpiry(s)
    PROVE  LimiterInv'
<1>1. /\ counter \in [Scopes -> [n: 0..MaxRequests, left: 0..Window]]
      /\ counter' = [counter EXCEPT ![s].left = 0] /\ UNCHANGED <<now, requests, began, accepted, stuck>>
      /\ outages' \in 0..MaxOutages /\ Window \in Nat
  BY RateLimitAssumption DEF LosesExpiry, LimiterInv, LimiterTypes, LimiterTypeOK
<1>2. /\ counter' \in [Scopes -> [n: 0..MaxRequests, left: 0..Window]]
      /\ counter'[s].n = counter[s].n /\ counter'[s].left = 0
      /\ \A r \in Scopes \ {s} : counter'[r] = counter[r]
  <2>1. counter'[s] = [n |-> counter[s].n, left |-> 0]
    BY <1>1
  <2>2. counter'[s] \in [n: 0..MaxRequests, left: 0..Window]
    BY <1>1, <2>1
  <2>. QED BY <1>1, <2>1, <2>2
<1>3. \A r \in Scopes : counter'[r].n = counter[r].n
  BY <1>2
<1>4. LimiterTypes'
  BY <1>1, <1>2, <1>3 DEF LimiterTypes, LimiterTypeOK, LimiterInv
<1>5. \A r \in Scopes : KeyLasts(r)' /\ Numbered(r)'
  BY <1>1, <1>2, <1>3 DEF LimiterInv, KeyLasts, Numbered
<1>. QED BY <1>1, <1>4, <1>5 DEF LimiterInv

\* A key goes when its window is over.
LEMMA PassingKeeps == LimiterInv /\ Passes => LimiterInv'
<1>. SUFFICES ASSUME LimiterInv, Passes PROVE LimiterInv'
  OBVIOUS
<1>1. /\ now \in Nat /\ MaxNow \in Nat /\ now < MaxNow /\ now' = now + 1 /\ Window \in Nat \ {0} /\ MaxRequests \in Nat
      /\ UNCHANGED <<requests, began, accepted, stuck, outages>>
      /\ counter \in [Scopes -> [n: 0..MaxRequests, left: 0..Window]]
      /\ began \in [Scopes -> 0..MaxNow] /\ accepted \in [Scopes -> SUBSET Pass]
  BY RateLimitAssumption DEF Passes, LimiterInv, LimiterTypes, LimiterTypeOK
<1>. DEFINE next(k) == IF k.left = 0 THEN k ELSE IF k.left = 1 THEN NoKey ELSE [k EXCEPT !.left = @ - 1]
<1>2. counter' = [s \in Scopes |-> next(counter[s])]
  BY DEF Passes
<1>3. ASSUME NEW s \in Scopes
      PROVE  /\ counter'[s] \in [n: 0..MaxRequests, left: 0..Window]
             /\ \/ counter'[s].n = 0 /\ counter'[s].left = 0 /\ counter[s].left = 1
                \/ counter'[s].n = counter[s].n /\ counter[s].left = 0 /\ counter'[s].left = 0
                \/ counter'[s].n = counter[s].n /\ counter[s].left > 1 /\ counter'[s].left = counter[s].left - 1
  <2>. DEFINE k == counter[s]
  <2>1. k \in [n: 0..MaxRequests, left: 0..Window] /\ counter'[s] = next(k)
    BY <1>1, <1>2
  <2>2. CASE k.left = 0
    BY <2>1, <2>2
  <2>3. CASE k.left = 1
    <3>1. counter'[s] = [n |-> 0, left |-> 0]
      BY <2>1, <2>3 DEF NoKey
    <3>. QED BY <1>1, <2>3, <3>1
  <2>4. CASE k.left # 0 /\ k.left # 1
    <3>1. counter'[s] = [n |-> k.n, left |-> k.left - 1]
      BY <2>1, <2>4
    <3>2. k.n \in 0..MaxRequests /\ k.left \in 0..Window /\ k.left - 1 \in 0..Window /\ k.left > 1
      BY <1>1, <2>1, <2>4
    <3>. QED BY <3>1, <3>2
  <2>. QED BY <2>2, <2>3, <2>4
<1>4. LimiterTypes'
  <2>1. counter' = [s \in Scopes |-> counter'[s]]
    BY <1>2
  <2>2. counter' \in [Scopes -> [n: 0..MaxRequests, left: 0..Window]]
    BY <1>3, <2>1
  <2>3. \A s \in Scopes : counter'[s].n <= requests'[s]
    <3>. SUFFICES ASSUME NEW s \in Scopes PROVE counter'[s].n <= requests'[s]
      OBVIOUS
    <3>1. counter[s].n <= requests[s] /\ requests[s] \in Nat
      BY <1>1 DEF LimiterInv, LimiterTypes, LimiterTypeOK
    <3>. QED BY <1>1, <1>3, <3>1
  <2>. QED BY <1>1, <2>2, <2>3 DEF LimiterTypes, LimiterTypeOK, LimiterInv
<1>5. ASSUME NEW s \in Scopes
      PROVE  KeyLasts(s)' /\ Numbered(s)'
  <2>1. /\ KeyLasts(s) /\ Numbered(s) /\ began[s] \in Nat
        /\ counter[s].n \in Nat /\ counter[s].left \in Nat
    BY <1>1 DEF LimiterInv
  <2>2. KeyLasts(s)'
    BY <1>1, <1>3, <2>1 DEF KeyLasts
  <2>3. ASSUME NEW a \in accepted[s]
        PROVE  /\ a.n <= RateAllowance /\ a.key <= a.at
               /\ IF counter'[s].n > 0
                  THEN (a.key = began[s] /\ a.at <= now' /\ a.n <= counter'[s].n)
                       \/ (a.key + Window <= began[s] /\ a.at < began[s])
                  ELSE a.key + Window <= now' /\ a.at < now'
    <3>1. a.key \in Nat /\ a.at \in Nat /\ a.n \in Nat
      BY <1>1 DEF Pass
    <3>2. counter[s].n = 0 => a.key + Window <= now /\ a.at < now
      BY <2>1 DEF Numbered
    <3>3. counter[s].n > 0 => (a.key = began[s] /\ a.at <= now /\ a.n <= counter[s].n)
                               \/ (a.key + Window <= began[s] /\ a.at < began[s])
      BY <2>1 DEF Numbered
    <3>4. counter[s].n > 0 => /\ began[s] <= now
                              /\ counter[s].left > 0 => began[s] + Window <= now + counter[s].left
      BY <2>1 DEF KeyLasts
    <3>5. a.n <= RateAllowance /\ a.key <= a.at
      BY <2>1 DEF Numbered
    <3>. QED BY <1>1, <1>3, <2>1, <3>1, <3>2, <3>3, <3>4, <3>5
  <2>4. Numbered(s)'
    BY <1>1, <2>3 DEF Numbered
  <2>. QED BY <2>2, <2>4
<1>6. stuck' = {} /\ \A s \in Scopes : \A a, b \in accepted'[s] : Apart(a, b)
  BY <1>1 DEF LimiterInv
<1>. QED BY <1>4, <1>5, <1>6 DEF LimiterInv

\* The requests one key lets through are no more than the allowance.
LEMMA OneKeyLetsThrough ==
    ASSUME NEW S, NEW N \in Nat, \A a \in S : a.n \in 1..N, \A a, b \in S : a.n = b.n => a = b
    PROVE  IsFiniteSet(S) /\ Cardinality(S) \in Nat /\ Cardinality(S) <= N
<1>. DEFINE f == [a \in S |-> a.n]
<1>1. f \in [S -> 1..N] /\ \A a, b \in S : f[a] = f[b] => a = b
  OBVIOUS
<1>. HIDE DEF f
<1>3. f \in Injection(S, 1..N)
  BY <1>1 DEF Injection, IsInjective
<1>2. IsFiniteSet(1..N) /\ Cardinality(1..N) = N
  BY FS_Interval
<1>4. IsFiniteSet(S) /\ Cardinality(S) <= Cardinality(1..N)
  BY <1>2, <1>3, FS_Injection
<1>. QED BY <1>2, <1>4, FS_CardinalityType

\* A window has seen two keys at most: the one it began with, and one that began in it.
LEMMA TwoKeys == LimiterInv => RateHeld
<1>. SUFFICES ASSUME LimiterInv, NEW s \in Scopes, NEW t \in 0..MaxNow
              PROVE  Accepted(s, t) <= 2 * RateAllowance
  BY DEF RateHeld, LimiterInv
<1>. DEFINE W == {a \in accepted[s]: t <= a.at /\ a.at < t + Window}
            early == {a \in W: a.key <= t}
            late == {a \in W: t < a.key}
<1>1. /\ Window \in Nat /\ RateAllowance \in Nat /\ t \in Nat /\ MaxNow \in Nat /\ MaxRequests \in Nat
      /\ \A a \in accepted[s] : /\ a \in Pass /\ a.at \in Nat /\ a.key \in Nat /\ a.n \in 1..RateAllowance
                                /\ a.key <= a.at
      /\ \A a, b \in accepted[s] : Apart(a, b)
  BY RateLimitAssumption DEF LimiterInv, LimiterTypes, LimiterTypeOK, Numbered, Pass
<1>2. ASSUME NEW a \in early, NEW b \in early, a.n = b.n
      PROVE  a = b
  BY <1>1, <1>2 DEF Apart
<1>3. ASSUME NEW a \in late, NEW b \in late, a.n = b.n
      PROVE  a = b
  BY <1>1, <1>3 DEF Apart
<1>4. W = early \cup late
  BY <1>1
<1>5. \A a \in early \cup late : a.n \in 1..RateAllowance
  BY <1>1
<1>. HIDE DEF early, late
<1>6. /\ IsFiniteSet(early) /\ Cardinality(early) \in Nat /\ Cardinality(early) <= RateAllowance
      /\ IsFiniteSet(late) /\ Cardinality(late) \in Nat /\ Cardinality(late) <= RateAllowance
  BY <1>1, <1>2, <1>3, <1>5, OneKeyLetsThrough
<1>7. Cardinality(W) \in Nat /\ Cardinality(W) <= Cardinality(early) + Cardinality(late)
  <2>1. /\ IsFiniteSet(early \cup late)
        /\ Cardinality(early \cup late) = Cardinality(early) + Cardinality(late) - Cardinality(early \cap late)
        /\ IsFiniteSet(early \cap late)
    BY <1>6, FS_Union, FS_Intersection
  <2>2. Cardinality(early \cap late) \in Nat /\ Cardinality(early \cup late) \in Nat
    BY <2>1, FS_CardinalityType
  <2>. HIDE DEF W
  <2>. QED BY <1>4, <1>6, <2>1, <2>2
<1>8. Accepted(s, t) = Cardinality(W)
  BY DEF Accepted
<1>. HIDE DEF W
<1>. QED BY <1>1, <1>6, <1>7, <1>8

-----------------------------------------------------------------------------
\* The keys of a scope begin a window apart, whatever is refused, fails open or has
\* lost its expiry, and a key numbers what it lets through (services/rate_limit.py:85-93).
THEOREM KeysApart == LimiterSpec => []LimiterInv
<1>1. LimiterInit => LimiterInv
  BY RateLimitAssumption DEF LimiterInit, NoKey, LimiterInv, LimiterTypes, LimiterTypeOK, KeyLasts, Numbered
<1>2. LimiterInv /\ [LimiterNext]_limiter => LimiterInv'
  <2>. SUFFICES ASSUME LimiterInv, [LimiterNext]_limiter PROVE LimiterInv'
    OBVIOUS
  <2>1. ASSUME NEW s \in Scopes, CheckLimit(s) \/ FailsOpen(s) \/ LosesExpiry(s)
        PROVE  LimiterInv'
    BY <2>1, CheckKeeps, OpenKeeps, LosingKeeps
  <2>2. CASE UNCHANGED limiter
    BY <2>2 DEF limiter, LimiterInv, LimiterTypes, LimiterTypeOK, KeyLasts, Numbered
  <2>. QED BY <2>1, <2>2, PassingKeeps DEF LimiterNext
<1>. QED BY <1>1, <1>2, PTL DEF LimiterSpec

\* No stretch of a window's length lets more than twice the limit through, and nobody is
\* refused for ever, for any number of requests, outages and lost expiries
\* (services/rate_limit.py:67-83).
THEOREM LimitKept == LimiterSpec => []RateHeld
BY KeysApart, TwoKeys, PTL
=============================================================================
