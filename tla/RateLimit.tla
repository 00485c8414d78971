----------------------------- MODULE RateLimit -----------------------------
(***************************************************************************)
(* The per-user request limits (services/rate_limit.py): one counter for   *)
(* each scope in Redis, counted and given its expiry by one script, and    *)
(* requests let through when Redis does not answer.  One user, with the    *)
(* limiter enabled and a limit configured.  A request is named by nothing: *)
(* no step needs to know which it is.                                      *)
(***************************************************************************)
EXTENDS Naturals, FiniteSets

CONSTANTS
    Scopes,         \* "chat", "ask-ai", "meeting-create"
    RateAllowance,  \* *_rate_limit_requests
    Window,         \* *_rate_limit_window_seconds, in ticks
    MaxNow,         \* bound: the clock stops here
    MaxRequests,    \* bound: requests of each scope
    MaxOutages      \* bound: calls Redis does not answer, keys made permanent by hand

ASSUME RateLimitAssumption ==
    /\ RateAllowance \in Nat \ {0} /\ Window \in Nat \ {0}
    /\ MaxNow \in Nat /\ MaxRequests \in Nat /\ MaxOutages \in Nat

VARIABLES
    now,
    counter,   \* the keys in Redis; left = 0 in one that has no expiry
    requests,  \* requests made so far
    began,     \* history: when the key of each scope was first counted
    accepted,  \* history: what the counter let through: at what time, as which of which key
    stuck,     \* history: scopes that refused a request and whose key never goes
    outages

limiter == <<now, counter, requests, began, accepted, stuck, outages>>

Pass == [at: 0..MaxNow, key: 0..MaxNow, n: 1..MaxRequests]

NoKey == [n |-> 0, left |-> 0]

LimiterTypeOK ==
    /\ now \in 0..MaxNow
    /\ counter \in [Scopes -> [n: 0..MaxRequests, left: 0..Window]]
    /\ requests \in [Scopes -> 0..MaxRequests]
    /\ began \in [Scopes -> 0..MaxNow]
    /\ accepted \in [Scopes -> SUBSET Pass]
    /\ stuck \subseteq Scopes
    /\ outages \in 0..MaxOutages

LimiterInit ==
    /\ now = 0
    /\ counter = [s \in Scopes |-> NoKey]
    /\ requests = [s \in Scopes |-> 0]
    /\ began = [s \in Scopes |-> 0]
    /\ accepted = [s \in Scopes |-> {}]
    /\ stuck = {}
    /\ outages = 0

Passes ==
    /\ now < MaxNow
    /\ now' = now + 1
    /\ counter' = [s \in Scopes |->
                     IF counter[s].left = 0 THEN counter[s]
                     ELSE IF counter[s].left = 1 THEN NoKey
                     ELSE [counter[s] EXCEPT !.left = @ - 1]]
    /\ UNCHANGED <<requests, began, accepted, stuck, outages>>

\* RateHeld: a key that has lost its expiry does not get another.
IncrementBug(key) == [n |-> key.n + 1, left |-> IF key.n = 0 THEN Window ELSE key.left]

\* _INCREMENT: INCR, and an expiry for a key that has none.
Increment(key) == [n |-> key.n + 1, left |-> IF key.n = 0 \/ key.left = 0 THEN Window ELSE key.left]

Counts(s) ==
    /\ counter' = [counter EXCEPT ![s] = Increment(@)]
    /\ began' = IF counter[s].n = 0 THEN [began EXCEPT ![s] = now] ELSE began

Asks(s) == requests[s] < MaxRequests /\ requests' = [requests EXCEPT ![s] = @ + 1]

\* check: count the request, and refuse it with a 429 once the window is full.
CheckLimit(s) ==
    LET key == Increment(counter[s])
    IN  /\ Asks(s)
        /\ Counts(s)
        /\ accepted' = IF key.n <= RateAllowance
                       THEN [accepted EXCEPT ![s] = @ \cup {[at |-> now, key |-> began'[s], n |-> key.n]}]
                       ELSE accepted
        /\ stuck' = IF key.n > RateAllowance /\ key.left = 0 THEN stuck \cup {s} ELSE stuck
        /\ UNCHANGED <<now, outages>>

\* Failing open: Redis is not reached, or the script ran and its answer was late.
FailsOpen(s) ==
    /\ Asks(s)
    /\ outages < MaxOutages /\ outages' = outages + 1
    /\ \/ UNCHANGED <<counter, began>>
       \/ Counts(s)
    /\ UNCHANGED <<now, accepted, stuck>>

\* "A key whose TTL was cleared by hand", or left by an older version.
LosesExpiry(s) ==
    /\ counter[s].left > 0
    /\ outages < MaxOutages /\ outages' = outages + 1
    /\ counter' = [counter EXCEPT ![s].left = 0]
    /\ UNCHANGED <<now, requests, began, accepted, stuck>>

LimiterNext == Passes \/ \E s \in Scopes : CheckLimit(s) \/ FailsOpen(s) \/ LosesExpiry(s)

LimiterSpec == LimiterInit /\ [][LimiterNext]_limiter

Accepted(s, t) == Cardinality({a \in accepted[s]: t <= a.at /\ a.at < t + Window})

\* "The worst case is 2N across a window boundary" (rate_limit.py:81): in no
\* stretch of one window's length does the counter let more through, whatever
\* requests were refused, let through uncounted or counted unanswered; and "a key
\* with no TTL, which rate-limits that user forever" (67-69) refuses nobody twice,
\* however it came to be.
RateHeld ==
    /\ \A s \in Scopes, t \in 0..MaxNow : Accepted(s, t) <= 2 * RateAllowance
    /\ stuck = {}
=============================================================================
