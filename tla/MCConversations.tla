-------------------------- MODULE MCConversations --------------------------
(***************************************************************************)
(* Conversations for TLC: the constants are given in the .cfg file.  A     *)
(* behaviour looks at one of three things: two questions and all that can  *)
(* go wrong with the providers; three questions answered without a retry,  *)
(* in chats that are created, evicted and deleted; or "New chat" clicks    *)
(* overtaken by an answer and deletions.                                   *)
(***************************************************************************)
EXTENDS Conversations

CONSTANTS FirstClick, FirstTurn, SecondTurn
VARIABLE focus
fvars == <<vars, focus>>

\* Turns are interchangeable: they begin in one order.
InOrder ==
    /\ turn'[SecondTurn].pc # "new" => turn'[FirstTurn].pc # "new"
    /\ \A t \in Turns \ {FirstTurn, SecondTurn} : turn'[t].pc # "new" => turn'[SecondTurn].pc # "new"

OneClicker == \A n \in Clicks \ {FirstClick} : click'[n] = click[n]

AtMostTwoChats == Cardinality({c \in Chats: chat'[c] # "none"}) <= 2

Providers ==
    /\ Next /\ InOrder /\ OneClicker
    /\ \A t \in Turns \ {FirstTurn, SecondTurn} : turn'[t].pc = "new"
    /\ evicting' = {}
    /\ AtMostTwoChats

NoHitch(t) ==
    /\ turn'[t].pc # "groq" /\ turn'[t].attempt <= 1
    /\ turn[t].pc \in {"gemini", "tools"} /\ turn'[t].pc = "ended" => faults' # faults

\* The third question comes when the first one has ended, and one deletion does;
\* a round that calls tools has no text.
Sessions3 ==
    /\ Next /\ InOrder /\ OneClicker
    /\ \A t \in Turns : NoHitch(t) /\ (turn'[t].pc = "tools" => turn'[t].screen = <<>>)
    /\ \A t \in Turns \ {FirstTurn, SecondTurn} : turn'[t].pc # "new" => turn[FirstTurn].pc = "ended"
    /\ Cardinality({c \in Chats: chat'[c] = "deleted"}) <= 1
    /\ AtMostTwoChats

Clicking ==
    /\ Next
    /\ \A t \in Turns : NoHitch(t) /\ turn'[t].pc # "tools" /\ (turn'[t].pc # "new" => t = FirstTurn)
    /\ faults' = faults

FocusInit == Init /\ focus \in {"providers", "sessions", "clicks"}

FocusNext ==
    /\ UNCHANGED focus
    /\ \/ focus = "providers" /\ Providers
       \/ focus = "sessions" /\ Sessions3
       \/ focus = "clicks" /\ Clicking

FocusSpec == FocusInit /\ [][FocusNext]_fvars /\ Fairness
=============================================================================
