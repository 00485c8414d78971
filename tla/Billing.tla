------------------------------ MODULE Billing ------------------------------
(***************************************************************************)
(* Buying a plan (billing/service.py, api/billing.py): a checkout opens a  *)
(* Razorpay order, and the browser and any number of webhook deliveries    *)
(* report what became of it, each in a transaction of its own that reads   *)
(* the payment, reads the subscription, and writes both and users.plan in  *)
(* one commit.  An hourly sweep retires what has run out.                  *)
(*                                                                         *)
(* The transactions are READ COMMITTED and take no row locks when they     *)
(* read; the session writes only the columns whose value it changed        *)
(* (Merge).  One user: no transaction touches two.  A tick is a day: no    *)
(* request and no sweep lasts one.                                         *)
(***************************************************************************)
EXTENDS Naturals, FiniteSets

CONSTANTS
    Orders,      \* Razorpay orders that may be opened
    Handlers,    \* requests served at the same time
    Free, Pro, Team,
    Period,      \* PERIOD_DAYS
    MaxTime,     \* bound: the clock stops here
    MaxFaults    \* bound: requests that die, attempts that fail

ASSUME BillingAssumption ==
    /\ Cardinality({Free, Pro, Team}) = 3
    /\ Period \in Nat \ {0} /\ MaxTime \in Nat /\ MaxFaults \in Nat

VARIABLES
    clock,
    payment,   \* the payments table
    sub,       \* the user's subscriptions row
    cached,    \* users.plan
    captured,  \* orders Razorpay has taken the money for
    mail,      \* reports of each order that are still to be delivered
    handler,   \* /billing/verify and /billing/webhook requests
    sweeper,   \* expire_due_subscriptions
    grants,    \* history: how often, when and for what each order was granted
    last,      \* history: what the last grant promised, and whether it was raced
    muddled,   \* history: orders two of whose reports overlapped
    faults

vars == <<clock, payment, sub, cached, captured, mail, handler, sweeper, grants, last, muddled, faults>>

PURCHASABLE_PLAN_IDS == {Pro, Team}
NoSub == [exists |-> FALSE, plan |-> Free, status |-> "none", start |-> 0, end |-> 0]
Subscription == [exists: BOOLEAN, plan: {Free, Pro, Team}, status: {"none", "active", "expired"},
                 start: 0..MaxTime, end: 0..MaxTime + Period]

Payment == [status: {"none", "created", "paid", "failed"}, plan: {Free, Pro, Team}]

PAID_EVENTS == {"payment.captured", "order.paid"}
FAILED_EVENTS == {"payment.failed"}
\* The browser's POST /billing/verify is one more report, made once.
Events == PAID_EVENTS \cup FAILED_EVENTS \cup {"verified"}

\* payment: the status this request read; saw: the subscription it read.
Idle == [pc |-> "idle", order |-> "none", event |-> "none", payment |-> "none", saw |-> NoSub]
Awake(saw) == [pc |-> "read", saw |-> saw]
Asleep == [pc |-> "idle", saw |-> NoSub]

TypeOK ==
    /\ clock \in 0..MaxTime
    /\ payment \in [Orders -> Payment]
    /\ sub \in Subscription
    /\ sub.exists => sub.plan \in PURCHASABLE_PLAN_IDS /\ sub.start < sub.end
    /\ cached \in {Free, Pro, Team}
    /\ captured \subseteq Orders
    /\ mail \in [Orders -> SUBSET Events]
    /\ \A h \in Handlers :
         /\ handler[h].pc \in {"idle", "read", "found"}
         /\ handler[h] # Idle => handler[h].order \in Orders /\ handler[h].event \in Events
         /\ handler[h].saw \in Subscription
    /\ sweeper.pc \in {"idle", "read"} /\ sweeper.saw \in Subscription
    /\ grants \in [Orders -> [count: Nat, at: 0..MaxTime]]
    /\ last \in [plan: {Free, Pro, Team}, end: 0..MaxTime + Period, raced: BOOLEAN]
    /\ muddled \subseteq Orders
    /\ faults \in 0..MaxFaults

Init ==
    /\ clock = 0
    /\ payment = [o \in Orders |-> [status |-> "none", plan |-> Free]]
    /\ sub = NoSub
    /\ cached = Free
    /\ captured = {}
    /\ mail = [o \in Orders |-> {}]
    /\ handler = [h \in Handlers |-> Idle]
    /\ sweeper = Asleep
    /\ grants = [o \in Orders |-> [count |-> 0, at |-> 0]]
    /\ last = [plan |-> Free, end |-> 0, raced |-> FALSE]
    /\ muddled = {}
    /\ faults = 0

-----------------------------------------------------------------------------
(* The user, Razorpay and time. *)

history == <<grants, last, muddled>>
service == <<sub, cached, handler, sweeper, history>>

Tick ==
    /\ clock < MaxTime
    /\ \A h \in Handlers : handler[h] = Idle
    /\ sweeper = Asleep
    /\ clock' = clock + 1
    /\ UNCHANGED <<payment, captured, mail, faults, service>>

\* start_checkout.  An order whose row is not written is never shown to anyone.
StartCheckout(o) ==
    /\ payment[o].status = "none"
    /\ \E p \in PURCHASABLE_PLAN_IDS :
         payment' = [payment EXCEPT ![o] = [status |-> "created", plan |-> p]]
    /\ UNCHANGED <<clock, captured, mail, faults, service>>

Pay(o) ==
    /\ payment[o].status # "none"
    /\ o \notin captured
    /\ captured' = captured \cup {o}
    /\ mail' = [mail EXCEPT ![o] = @ \cup PAID_EVENTS \cup {"verified"}]
    /\ UNCHANGED <<clock, payment, faults, service>>

\* An attempt fails, before the order is paid or, with a second one, after.
AttemptFails(o) ==
    /\ payment[o].status # "none"
    /\ faults < MaxFaults /\ faults' = faults + 1
    /\ mail' = [mail EXCEPT ![o] = @ \cup FAILED_EVENTS]
    /\ UNCHANGED <<clock, payment, captured, service>>

-----------------------------------------------------------------------------
(* confirm_checkout and handle_webhook_event. *)

outside == <<clock, captured, faults>>

\* The signature is checked and the payment is read.  A confirmation whose
\* signature does not verify goes the way of a failed attempt.
ReadPayment(h, o, e) ==
    /\ handler[h] = Idle
    /\ e \in mail[o]
    /\ mail' = [mail EXCEPT ![o] = IF e = "verified" THEN @ \ {e} ELSE @]
    /\ handler' = [handler EXCEPT ![h] = [pc |-> "read", order |-> o, event |-> e,
                                          payment |-> payment[o].status, saw |-> NoSub]]
    /\ UNCHANGED <<payment, sub, cached, sweeper, history, outside>>

Acknowledge(h) ==
    /\ handler' = [handler EXCEPT ![h] = Idle]
    /\ mail' = [mail EXCEPT ![handler[h].order] = @ \ {handler[h].event}]

\* NotTwice: whether the order was already granted is not looked at.
ReadSubscriptionBug(h) ==
    /\ handler[h].pc = "read"
    /\ handler[h].event \notin FAILED_EVENTS
    /\ handler' = [handler EXCEPT ![h].pc = "found", ![h].saw = sub]
    /\ UNCHANGED <<payment, sub, cached, mail, sweeper, history, outside>>

\* PaidDelivered (in MCBilling): only an order that never failed can be paid.
ReadSubscriptionLost(h) ==
    /\ handler[h].pc = "read"
    /\ handler[h].event \notin FAILED_EVENTS
    /\ IF handler[h].payment # "created"
       THEN Acknowledge(h)
       ELSE handler' = [handler EXCEPT ![h].pc = "found", ![h].saw = sub] /\ UNCHANGED mail
    /\ UNCHANGED <<payment, sub, cached, sweeper, history, outside>>

\* activate_from_payment, up to the check that the order was not granted yet.
ReadSubscription(h) ==
    /\ handler[h].pc = "read"
    /\ handler[h].event \notin FAILED_EVENTS
    /\ IF handler[h].payment = "paid"
       THEN Acknowledge(h)
       ELSE handler' = [handler EXCEPT ![h].pc = "found", ![h].saw = sub] /\ UNCHANGED mail
    /\ UNCHANGED <<payment, sub, cached, sweeper, history, outside>>

\* The columns a session writes are those it changed.
Merge(saw, new, now) == [f \in DOMAIN now |-> IF new[f] = saw[f] THEN now[f] ELSE new[f]]

Granted(p) == [exists |-> TRUE, plan |-> p, status |-> "active", start |-> clock, end |-> clock + Period]

\* Other transactions that have read the order, not found it paid, and have yet to write.
ReadersOf(o, h) ==
    {g \in Handlers \ {h}: handler[g].order = o /\ handler[g].payment # "paid"}

Muddles(h) == muddled' = IF ReadersOf(handler[h].order, h) = {} THEN muddled
                         ELSE muddled \cup {handler[h].order}

\* PaidForIsServed: a row that was retired is extended and stays retired.
ActivateBug(h) ==
    LET o == handler[h].order
        new == Granted(payment[o].plan)
    IN  /\ handler[h].pc = "found"
        /\ handler[h].saw.exists \/ ~sub.exists
        /\ sub' = IF sub.exists THEN [Merge(handler[h].saw, new, sub) EXCEPT !.status = sub.status] ELSE new
        /\ payment' = [payment EXCEPT ![o].status = "paid"]
        /\ cached' = payment[o].plan
        /\ grants' = [grants EXCEPT ![o] = [count |-> @.count + 1, at |-> clock]]
        /\ last' = [plan |-> new.plan, end |-> new.end,
                    raced |-> sub # handler[h].saw \/ sweeper.pc = "read"]
        /\ Muddles(h)
        /\ Acknowledge(h)
        /\ UNCHANGED <<sweeper, outside>>

\* The commit.  A second first subscription breaks the unique user_id, and
\* nothing of it is written: the request ends in an error and is not acknowledged.
Activate(h) ==
    LET o == handler[h].order
        new == Granted(payment[o].plan)
    IN  /\ handler[h].pc = "found"
        /\ IF sub.exists /\ ~handler[h].saw.exists
           THEN /\ handler' = [handler EXCEPT ![h] = Idle]
                /\ UNCHANGED <<sub, payment, cached, mail, history>>
           ELSE /\ sub' = Merge(handler[h].saw, new, sub)
                /\ payment' = [payment EXCEPT ![o].status = "paid"]
                /\ cached' = payment[o].plan
                /\ grants' = [grants EXCEPT ![o] = [count |-> @.count + 1, at |-> clock]]
                /\ last' = [plan |-> new.plan, end |-> new.end,
                            raced |-> sub # handler[h].saw \/ sweeper.pc = "read"]
                /\ Muddles(h)
                /\ Acknowledge(h)
        /\ UNCHANGED <<sweeper, outside>>

\* _mark_failed; a paid order stays paid, as far as this request has read.
MarkFailed(h) ==
    LET o == handler[h].order
    IN  /\ handler[h].pc = "read"
        /\ handler[h].event \in FAILED_EVENTS
        /\ payment' = IF handler[h].payment = "created"
                      THEN [payment EXCEPT ![o].status = "failed"] ELSE payment
        /\ IF handler[h].payment = "paid" THEN UNCHANGED muddled ELSE Muddles(h)
        /\ Acknowledge(h)
        /\ UNCHANGED <<sub, cached, sweeper, grants, last, outside>>

HandlerStep(h) ==
    \/ \E o \in Orders, e \in Events : ReadPayment(h, o, e)
    \/ ReadSubscription(h) \/ Activate(h) \/ MarkFailed(h)

HandlerDies(h) ==
    /\ handler[h] # Idle
    /\ faults < MaxFaults /\ faults' = faults + 1
    /\ handler' = [handler EXCEPT ![h] = Idle]
    /\ UNCHANGED <<clock, payment, sub, cached, captured, mail, sweeper, history>>

-----------------------------------------------------------------------------
(* expire_due_subscriptions, and what the rest of the program reads. *)

SweepRead ==
    /\ sweeper = Asleep
    /\ sub.status = "active" /\ sub.end <= clock
    /\ sweeper' = Awake(sub)
    /\ UNCHANGED <<clock, payment, sub, cached, captured, mail, handler, history, faults>>

SweepWrite ==
    /\ sweeper.pc = "read"
    /\ sub' = Merge(sweeper.saw, [sweeper.saw EXCEPT !.status = "expired"], sub)
    /\ cached' = Free
    /\ sweeper' = Asleep
    /\ last' = [last EXCEPT !.raced = @ \/ sub # sweeper.saw]
    /\ UNCHANGED <<clock, payment, captured, mail, handler, grants, muddled, faults>>

\* PaidPlanOnly: the cache is trusted.
LiveBug(now) == sub.exists /\ cached # Free

\* quota.resolve: the row, not users.plan, and only as long as it is paid for.
Live(now) == sub.exists /\ sub.status = "active" /\ sub.end > now
EffectivePlan(now) == IF Live(now) THEN sub.plan ELSE Free

BillingNext ==
    \/ Tick
    \/ SweepRead \/ SweepWrite
    \/ \E o \in Orders : StartCheckout(o) \/ Pay(o) \/ AttemptFails(o)
    \/ \E h \in Handlers : HandlerStep(h) \/ HandlerDies(h)

\* Razorpay repeats a webhook until it is acknowledged, a request that began is
\* served, and the sweep comes round.
BillingFairness ==
    /\ WF_vars(Tick) /\ WF_vars(SweepRead) /\ WF_vars(SweepWrite)
    /\ \A h \in Handlers : WF_vars(ReadSubscription(h) \/ Activate(h) \/ MarkFailed(h))
    /\ \A o \in Orders, e \in PAID_EVENTS : WF_vars(\E h \in Handlers : ReadPayment(h, o, e))

BillingSpec == Init /\ [][BillingNext]_vars /\ BillingFairness

-----------------------------------------------------------------------------
(* Properties. *)

\* "Nobody keeps a plan they have not paid for" (main.py:90-94), if the sweep
\* never runs, however reports and sweeps overlap, and whatever users.plan says: a
\* plan in force was paid for within the period.
PaidPlanOnly ==
    EffectivePlan(clock) # Free =>
      \E o \in captured :
        /\ payment[o].plan = EffectivePlan(clock)
        /\ grants[o].count > 0
        /\ clock < grants[o].at + Period

\* "Safe to call twice" (service.py:131): an order is not granted a second period,
\* by the browser and two webhooks in any order and with failed attempts among them,
\* unless two of its reports overlapped: then each grants what it read as unpaid, and
\* a failure that was read before the grant makes it look unpaid again.
NotTwice == \A o \in Orders : grants[o].count > 1 => o \in muddled

\* "A 'paid' payment with no subscription would be a customer charged for
\* nothing" (service.py:136-138): until its end, what the last grant promised is in
\* force.  The exception: a grant and a sweep, or two grants, that both read
\* the row before either wrote it; the session leaves out a column that it did not
\* change, so a renewal that read "active" does not undo a sweep's "expired".
PaidForIsServed == clock < last.end /\ ~last.raced => EffectivePlan(clock) = last.plan

\* A customer who was charged gets the plan, whichever reports are lost or fail.
Delivered == \A o \in Orders : o \in captured ~> grants[o].count > 0
=============================================================================
