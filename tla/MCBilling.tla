----------------------------- MODULE MCBilling -----------------------------
(***************************************************************************)
(* Billing, Allowance and RateLimit for TLC: the constants are given in    *)
(* the .cfg file.  A behaviour looks at one of three things: two orders    *)
(* and their overlapping reports, requests against the allowance while one *)
(* order is paid, or the limiter.                                          *)
(***************************************************************************)
EXTENDS Allowance, RateLimit

CONSTANTS FirstOrder, FirstHandler, LaterRequest, MaxPaymentTime

VARIABLE focus

LimitsHere ==
    [p \in {Free, Pro, Team} |->
       [k \in Kinds |-> IF p = Free \/ (p = Pro /\ k = "meeting") THEN 1 ELSE NoLimit]]

fvars == <<vars, allowance, limiter, focus>>

FocusInit ==
    /\ Init /\ AllowanceInit /\ LimiterInit
    /\ focus \in {"payments", "allowance", "limiter"}

\* The second order is for a Team plan, and one webhook reports it; a second
\* request is served when the first one is.
Payments ==
    /\ BillingNext
    /\ clock' <= MaxPaymentTime
    /\ \A o \in Orders :
         /\ payment'[o].plan # Free => payment'[o].plan = IF o = FirstOrder THEN Pro ELSE Team
         /\ payment'[o].status # "none" => payment'[FirstOrder].status # "none"
         /\ o # FirstOrder => "payment.failed" \notin mail'[o]
    /\ \A h \in Handlers :
         /\ handler'[h].order \in Orders \ {FirstOrder} => handler'[h].event = "payment.captured"
         /\ handler[h] = Idle /\ handler'[h] # Idle /\ h # FirstHandler => handler[FirstHandler] # Idle
    /\ UNCHANGED allowance

\* One order, whose first webhook arrives.
Allowing ==
    /\ AllowanceNext
    /\ \A o \in Orders \ {FirstOrder} : payment'[o].status = "none"
    /\ \A h \in Handlers : handler'[h] # Idle => h = FirstHandler /\ handler'[h].event = "payment.captured"
    /\ faults' = faults
    /\ \A q \in Requests : request'[LaterRequest] # NewRequest => request'[q] # NewRequest

FocusNext ==
    /\ UNCHANGED focus
    /\ \/ focus = "payments" /\ Payments /\ UNCHANGED limiter
       \/ focus = "allowance" /\ Allowing /\ UNCHANGED limiter
       \/ focus = "limiter" /\ LimiterNext /\ UNCHANGED <<vars, allowance>>

Reports(o, e) ==
    /\ focus = "payments"
    /\ \E h \in Handlers : ReadPayment(h, o, e) /\ Payments

FocusSpec ==
    /\ FocusInit
    /\ [][FocusNext]_fvars
    /\ \A h \in Handlers : WF_vars(ReadSubscription(h) \/ Activate(h) \/ MarkFailed(h))
    /\ \A e \in PAID_EVENTS : WF_vars(Reports(FirstOrder, e))
    /\ \A o \in Orders \ {FirstOrder} : WF_vars(Reports(o, "payment.captured"))

\* Billing's Delivered, where the clock does not run out: a customer who was charged
\* gets the plan, whichever reports are lost, fail or come late (service.py:131-138).
PaidDelivered == focus = "payments" => Delivered
=============================================================================
