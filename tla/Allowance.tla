----------------------------- MODULE Allowance -----------------------------
(***************************************************************************)
(* What a plan allows (billing/plans.py, billing/quota.py), on top of      *)
(* module Billing: a request resolves the user's plan and its window,      *)
(* counts what was used in it, and is refused or goes on; the row that the *)
(* next count will find is written later, when a meeting is inserted or a  *)
(* question has been answered.                                             *)
(*                                                                         *)
(* The resolve and the counts of one check are one step here: their        *)
(* statements follow each other without a call in between.                 *)
(***************************************************************************)
EXTENDS Billing

CONSTANTS
    Requests,      \* POST /meetings, calendar bookings, questions to either chat
    Month,         \* length of the free tier's window
    Limits,        \* meetings_per_period and ask_ai_questions_per_period of each plan
    NoLimit        \* None, unlimited

VARIABLES
    request,    \* requests that draw on the allowance
    spent,      \* the meetings and question rows, one for each request at most
    overtaken   \* history: requests checked before somebody else's row was written

allowance == <<request, spent, overtaken>>

Kinds == {"meeting", "question"}
ASSUME AllowanceAssumption ==
    /\ Month \in Nat \ {0}
    /\ NoLimit \notin Nat
    /\ Limits \in [{Free, Pro, Team} -> [Kinds -> Nat \cup {NoLimit}]]

\* before: the row is older than the subscription's current_period_start.
NoRow == [kind |-> "none", at |-> 0, before |-> FALSE]
NewRequest == [pc |-> "new", kind |-> "none", plan |-> Free, at |-> 0]

AllowanceTypeOK ==
    /\ \A q \in Requests :
         /\ request[q].pc \in {"new", "allowed", "done"}
         /\ request[q].kind \in Kinds \cup {"none"}
         /\ request[q].plan \in {Free, Pro, Team} /\ request[q].at \in 0..MaxTime
         /\ spent[q].kind \in Kinds \cup {"none"}
         /\ spent[q].at \in 0..MaxTime /\ spent[q].before \in BOOLEAN
    /\ overtaken \subseteq Requests

AllowanceInit ==
    /\ request = [q \in Requests |-> NewRequest]
    /\ spent = [q \in Requests |-> NoRow]
    /\ overtaken = {}

InMonth(q, now) == spent[q].at \div Month = now \div Month

\* WithinAllowance: everybody is counted by the calendar month.
InWindowBug(q, now) == InMonth(q, now)

\* The window of resolve: the paid period, or the calendar month of a free user.
InWindow(q, now) == IF Live(now) THEN ~spent[q].before ELSE InMonth(q, now)

\* _count_meetings, _count_ai_questions: what is there now, and was created in
\* the window; a deleted meeting is not counted.
Used(kind, now) == Cardinality({q \in Requests: spent[q].kind = kind /\ InWindow(q, now)})

Allows(plan, kind, used) == Limits[plan][kind] = NoLimit \/ used < Limits[plan][kind]

\* enforce_meeting_quota and enforce_ai_question_quota.
Enforce(q) ==
    /\ request[q].pc = "new"
    /\ \E k \in Kinds :
         request' = [request EXCEPT ![q] =
                       [pc |-> IF Allows(EffectivePlan(clock), k, Used(k, clock)) THEN "allowed" ELSE "done",
                        kind |-> k, plan |-> EffectivePlan(clock), at |-> clock]]
    /\ UNCHANGED <<vars, spent, overtaken>>

\* The meeting is inserted, or the question is stored with its answer, which may be
\* a minute later.
Spend(q) ==
    /\ request[q].pc = "allowed"
    /\ request' = [request EXCEPT ![q].pc = "done"]
    /\ spent' = [spent EXCEPT ![q] = [kind |-> request[q].kind, at |-> clock, before |-> FALSE]]
    /\ overtaken' = overtaken \cup {r \in Requests \ {q}: request[r].pc = "allowed" /\ request[r].kind = request[q].kind}
    /\ UNCHANGED vars

\* The answer was not produced or not stored, or the insert failed.
SpendNothing(q) ==
    /\ request[q].pc = "allowed"
    /\ request' = [request EXCEPT ![q].pc = "done"]
    /\ UNCHANGED <<vars, spent, overtaken>>

\* DELETE /meetings/{id}, or of a chat with its questions.
DeleteRow(q) ==
    /\ spent[q] # NoRow
    /\ spent' = [spent EXCEPT ![q] = NoRow]
    /\ UNCHANGED <<vars, request, overtaken>>

\* A grant starts a window: every row there is was created before it.
Restarts ==
    /\ spent' = IF grants' = grants THEN spent
                ELSE [q \in Requests |-> [spent[q] EXCEPT !.before = spent[q] # NoRow]]
    /\ UNCHANGED <<request, overtaken>>

AllowanceNext ==
    \/ BillingNext /\ Restarts
    \/ \E q \in Requests : Enforce(q) \/ Spend(q) \/ SpendNothing(q) \/ DeleteRow(q)

AllowanceSpec == Init /\ AllowanceInit /\ [][AllowanceNext]_<<vars, allowance>>

-----------------------------------------------------------------------------
(* Properties. *)

\* "Someone who subscribes on the 20th gets 30 meetings from the 20th" (quota.py:
\* 26-28), and no more: what a request adds keeps the period, or a free user's
\* month, within what was bought; unless another request's row was written, or
\* the plan changed, between its check and its own row (quota.py:341, meetings.py:87-106).
WithinAllowance ==
    [][\A q \in Requests :
         LET k == request[q].kind
             bought == Limits[EffectivePlan(clock)][k]
             period == {r \in Requests: spent'[r].kind = k /\ ~spent'[r].before}
             month == {r \in Requests: spent'[r].kind = k /\ spent'[r].at \div Month = clock \div Month}
         IN  /\ spent[q] = NoRow /\ spent'[q] # NoRow
             /\ q \notin overtaken
             /\ request[q].plan = EffectivePlan(clock) /\ request[q].at = clock
             /\ bought # NoLimit
             => Cardinality(IF EffectivePlan(clock) = Free THEN month ELSE period) <= bought]_<<vars, allowance>>
=============================================================================
